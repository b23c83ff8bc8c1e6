------------------------- MODULE MCTelemetryUplink -------------------------
(* Instances of TelemetryUplink for TLC. *)
EXTENDS TelemetryUplink
=============================================================================
