------------------------------ MODULE MCServer -------------------------------
(* A small instance of Server for TLC. *)
EXTENDS Server, TLC

CONSTANTS t1, t2, t3, short, other

ThreeThreads == <<t1, t2, t3>>

\* Every name fits the structures.
ShortNames == short :> short @@ other :> other
=============================================================================
