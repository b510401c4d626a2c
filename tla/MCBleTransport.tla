--------------------------- MODULE MCBleTransport ---------------------------
(* Small instances of BleTransport. *)
EXTENDS BleTransport

=============================================================================
