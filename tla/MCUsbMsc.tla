------------------------------ MODULE MCUsbMsc ------------------------------
(* The mass storage device, for TLC: the commands a run's host sends. *)
EXTENDS UsbMsc

TransferOps == {"TUR", "READ", "WRITE"}
ControlOps == AllOps \ {"READ", "WRITE"}
=============================================================================
