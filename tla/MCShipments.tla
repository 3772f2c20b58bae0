----------------------------- MODULE MCShipments -----------------------------
(* Small instances of Shipments: a sequence of one bit, and clocks that can *)
(* be set back as far as the epoch.                                         *)
EXTENDS Shipments

Milliseconds == 0 .. 1
=============================================================================
