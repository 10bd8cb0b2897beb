----------------------------- MODULE MCSoftReset -----------------------------
(* The soft reset, for TLC. *)
EXTENDS SoftReset
=============================================================================
