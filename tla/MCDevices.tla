----------------------------- MODULE MCDevices -----------------------------
(* A small instance of Devices for TLC: a driver, which is the keyboard's or   *)
(* the pseudo terminal's, and two clients that use its device, one reading    *)
(* asynchronously, as the terminal server does, and one not.                  *)
EXTENDS Devices, TLC

CONSTANTS terminal, driver

Ports == terminal :> 1 @@ driver :> 2
=============================================================================
