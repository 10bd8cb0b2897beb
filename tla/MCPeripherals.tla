--------------------------- MODULE MCPeripherals ---------------------------
(* The devices of a program, for TLC. *)
EXTENDS Peripherals
=============================================================================
