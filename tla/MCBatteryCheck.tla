--------------------------- MODULE MCBatteryCheck ---------------------------
(* Small instances of the check of the battery. *)
EXTENDS BatteryCheck

\* Without a level and hardly charging, charging in the dark at two levels, full and discharging.
CheckRows ==
  {[battery |-> -1, level |-> -1, residual |-> {},  dark |-> FALSE],
   [battery |-> -2, level |-> 0,  residual |-> {0}, dark |-> TRUE],
   [battery |-> 2,  level |-> 2,  residual |-> {1}, dark |-> TRUE],
   [battery |-> -2, level |-> 1,  residual |-> {},  dark |-> TRUE]}
=============================================================================
