--------------------------------- MODULE Lists --------------------------------
(***************************************************************************)
(* The linked lists of the kernel and its libraries as sequences of their  *)
(* nodes, and several lists as a function to such sequences.               *)
(***************************************************************************)
EXTENDS Naturals, Sequences

\* The elements of s that are in S, as a walk from the first to the last meets
\* them.
Chosen(s, S) ==
    LET upTo[i \in 0 .. Len(s)] ==
          IF i = 0 THEN << >>
          ELSE IF s[i] \in S THEN Append(upTo[i - 1], s[i]) ELSE upTo[i - 1]
    IN  upTo[Len(s)]

\* Where the elements of the lists F are, each place with its list first.
Positions(F) == UNION {{k} \X DOMAIN F[k] : k \in DOMAIN F}
ItemAt(F, x) == F[x[1]][x[2]]
===============================================================================
