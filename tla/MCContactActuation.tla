------------------------- MODULE MCContactActuation -------------------------
(* ContactActuation on a small instance: units of 10 s, all limits shortened. *)
EXTENDS ContactActuation

=============================================================================
