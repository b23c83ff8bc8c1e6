-------------------------- MODULE MCHeatPumpHistory --------------------------
EXTENDS HeatPumpHistory
==============================================================================
