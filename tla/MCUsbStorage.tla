--------------------------- MODULE MCUsbStorage ---------------------------
(* The loan of the flash disk, for TLC: a heap of MaxObjects objects. *)
EXTENDS UsbStorage
=============================================================================
