--------------------------- MODULE MCAddressSpace ---------------------------
(***************************************************************************)
(* Two processes, one with two threads, in address spaces of eight pages.  *)
(* The sections and the stack leave each a small region and a bigger one.  *)
(***************************************************************************)
EXTENDS AddressSpace, TLC

CONSTANTS p1, p2, t1, t2, t3

MCProcOf == (t1 :> p1) @@ (t2 :> p2) @@ (t3 :> p1)
MCBootOrder == << p1, p2 >>
MCImage == (p1 :> << Region(4, 1) >>) @@ (p2 :> << Region(1, 1), Region(5, 1) >>)

\* The two threads of the first process are alike.
MCSymmetry == Permutations({t1, t3})
=============================================================================
