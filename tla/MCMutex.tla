------------------------------ MODULE MCMutex --------------------------------
(* A small instance of Mutex for TLC. *)
EXTENDS Mutex

CONSTANTS t1, t2, t3, t4

FourThreads == <<t1, t2, t3, t4>>
=============================================================================
