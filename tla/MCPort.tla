------------------------------- MODULE MCPort --------------------------------
(* Small instances of Port for TLC. *)
EXTENDS Port, TLC

CONSTANTS t1, t2, t3

TwoThreads == <<t1, t2>>
ThreeThreads == <<t1, t2, t3>>
=============================================================================
