----------------------------- MODULE MCCdcSerial -----------------------------
(* The serial port, for TLC: the host types two different bytes. *)
EXTENDS CdcSerial

TwoChars == {8, 9}
=============================================================================
