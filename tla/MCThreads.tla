------------------------------ MODULE MCThreads ------------------------------
(* A small instance of Threads for TLC. *)
EXTENDS Threads

CONSTANTS t1, t2, t3, t4

FourThreads == <<t1, t2, t3, t4>>
=============================================================================
