-------------------------------- MODULE MCIrq --------------------------------
(* A small instance of Irq for TLC. *)
EXTENDS Irq, TLC

\* The timer, the keyboard, and the lines that the controllers answer with when a
\* request has vanished.
Lines == {0, 1, 7, 15}
=============================================================================
