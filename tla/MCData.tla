------------------------------- MODULE MCData -------------------------------
(* What is made of the measurements, in one run: ten components that share    *)
(* no state.  A behaviour is one of the first, or of the second, and so on,    *)
(* and the others rest in their initial state, as no property relates two.     *)
EXTENDS ForecastArchive, EnergySplit, EnergyLedger, HistoryImport,
        InvoiceCheck, RunDetection, MCBatteryCheck, HeatBalance, EnergyReports, ShiftReport

ASSUME BillsLarge == BillsTell   \* The bills are those that the theorem BillsJudgedRight is about.

VARIABLE part

OnlyIn(component, itsVars) == IF part = component THEN TRUE ELSE UNCHANGED itsVars

DataInit ==
  /\ part \in {"forecast", "split", "ledger", "import", "invoice", "run",
               "check", "heat", "report", "shift"}
  /\ ForecastInit /\ SplitInit /\ LedgerInit /\ ImportInit /\ InvoiceInit /\ RunInit
  /\ CheckInit /\ HeatInit /\ ReportInit /\ ShiftInit
  \* One way to rest is enough.
  /\ part # "split" => inBattery = [pv |-> 0, grid |-> 0]
  /\ part # "run" => series = "flat"
  /\ part # "report" => change = 0

DataNext ==
  /\ part' = part
  /\ OnlyIn("forecast", forecastVars) /\ OnlyIn("split", splitVars) /\ OnlyIn("ledger", ledgerVars)
  /\ OnlyIn("import", importVars) /\ OnlyIn("invoice", invoiceVars) /\ OnlyIn("run", runVars)
  /\ OnlyIn("check", checkVars) /\ OnlyIn("heat", heatVars) /\ OnlyIn("report", reportVars)
  /\ OnlyIn("shift", shiftVars)
  /\ \/ part = "forecast" /\ ForecastNext
     \/ part = "split" /\ SplitNext
     \/ part = "ledger" /\ LedgerNext
     \/ part = "import" /\ ImportNext
     \/ part = "invoice" /\ InvoiceNext
     \/ part = "run" /\ RunNext
     \/ part = "check" /\ CheckNext
     \/ part = "heat" /\ HeatNext
     \/ part = "report" /\ ReportNext
     \/ part = "shift" /\ ShiftNext

dataVars == <<part, forecastVars, splitVars, ledgerVars, importVars, invoiceVars, runVars,
              checkVars, heatVars, reportVars, shiftVars>>
DataSpec == DataInit /\ [][DataNext]_dataVars

-----------------------------------------------------------------------------
(* Values that a configuration cannot write. *)
SplitMeter == {-2, 2}
SplitBattery == {-3, 2}
LedgerWeather == <<"sun", "grid", "out">>
ImportKeys == [hub |-> "pv", total |-> "pv"]
Periods == {<<1, 3>>, <<4, 6>>}
Prices == {<<12570, 9903, 2237>>}
HeatRows0 ==
  {[content |-> {0}, pump |-> 1, level |-> 0,  valves |-> {}, windows |-> {}],
   [content |-> {2}, pump |-> 0, level |-> 3,  valves |-> {"a", "b"}, windows |-> {"a"}],
   [content |-> {2}, pump |-> 1, level |-> -1, valves |-> {"a", "b"}, windows |-> {"a", "b"}],
   [content |-> {},  pump |-> 1, level |-> 1,  valves |-> {"b"}, windows |-> {"b"}]}
HeatCircuits == [a |-> 2, b |-> 1]
HourlyRows ==
  <<[import |-> 2, export |-> 0, pump |-> 1, price |-> 30],
    [import |-> 0, export |-> 3, pump |-> 2, price |-> 10],
    [import |-> 1, export |-> 1, pump |-> 0, price |-> 0]>>
TwoMonths == <<2, 1>>
Changes == {-1, 0, 1}
ShiftRow(pump, demand) ==
  [minutes |-> 60, import |-> pump, export |-> 0, pump |-> pump, price |-> {10 * demand},
   outdoor |-> {0}, demand |-> demand]
ShiftRows0 ==
  {ShiftRow(2, 1), ShiftRow(1, 3), [ShiftRow(2, 6) EXCEPT !.outdoor = {}],
   [ShiftRow(1, 2) EXCEPT !.minutes = 10], [ShiftRow(0, 1) EXCEPT !.export = 2],
   [ShiftRow(1, 1) EXCEPT !.price = {}]}

=============================================================================
