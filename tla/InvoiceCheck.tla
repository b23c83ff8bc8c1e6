---------------------------- MODULE InvoiceCheck ----------------------------
(* The check of a bill of Tibber's: parse_pdf reads it, InvoiceService.check    *)
(* looks up the bill before it, measures the period and keeps the report, three *)
(* steps between which another upload may come.  Amounts are in cents, prices   *)
(* in thousandths of a cent, as printed in hundredths.  A bill is what Tibber   *)
(* makes of a consumption, the tax rounded position by position, with or        *)
(* without one slip; the price of the own measurement is left out.              *)
EXTENDS Integers, Sequences, FiniteSets, FiniteSetsExt, SequencesExt, Functions

CONSTANTS
    Uploaders,      \* uploads that may run at the same time
    MaxUploads,     \* how many bills are uploaded
    BillNumbers,
    BillPeriods,    \* the periods: sequences <<first day, last day>>
    PriceLists,     \* sequences of the prices of the positions
    DailyUse,       \* kWh a day
    MonthFee, DayFee, MonthDays,    \* the two basic fees, the first one a month
    Slips,          \* what may be wrong with a bill, beside "none"
    Covered         \* the coverages of the own measurement, in percent

ASSUME InvoiceAssumption ==
    /\ MaxUploads \in Nat /\ DailyUse \in Nat \ {0}
    /\ MonthFee \in Nat /\ DayFee \in Nat /\ MonthDays \in Nat \ {0}
    /\ \A p \in BillPeriods : p \in Nat \X Nat /\ p[1] <= p[2]
    /\ \A s \in PriceLists : s \in Seq(Nat) /\ s # <<>>
    /\ Slips \subseteq {"position", "tax", "days", "meter"}

NoBill == [number |-> 0]
Bill == [number : BillNumbers, period : BillPeriods, prices : PriceLists, slip : Slips \cup {"none"}]
Idle == [step |-> "idle", bill |-> NoBill]

VARIABLES
    reports,     \* tibber_invoices: of each number the report
    uploading,   \* of each uploader: the step and the bill, the bill before it, the measurement
    uploads      \* how many uploads there were, MaxUploads at most
invoiceVars == <<reports, uploading, uploads>>

----------------------------------------------------------------------------
(* What Tibber prints, as parse_invoice reads it. *)
InCents(x, per) == (2 * x + per) \div (2 * per)
SumBill(s) == FoldSeq(LAMBDA x, sum : x + sum, 0, s)
WithTax(s, rate) == SumBill([k \in 1..Len(s) |-> InCents(s[k] * rate, 100)])

DaysOf(b) == b.period[2] - b.period[1] + 1
MeterAt(day) == day * DailyUse
EnergyOf(b) == DailyUse * DaysOf(b)
AmountsOf(b, kwh) == [k \in DOMAIN b.prices |-> InCents(b.prices[k] * kwh, 1000)]
FeesOf(b) ==
    LET days == DaysOf(b) + (IF b.slip = "days" THEN 1 ELSE 0)
    IN  <<InCents(MonthFee * Min({days, MonthDays}), MonthDays), DayFee * days>>
Printed(b) ==
    LET kwh == EnergyOf(b) + (IF b.slip = "meter" THEN 1 ELSE 0)
        amounts == AmountsOf(b, kwh)
        energyNet == SumBill(amounts) - (IF b.slip = "position" THEN amounts[1] ELSE 0)
        energyGross == WithTax(amounts, 119) - (IF b.slip = "position" THEN InCents(amounts[1] * 119, 100) ELSE 0)
                       + (IF b.slip = "tax" THEN InCents(energyNet, 100) ELSE 0)
        feesNet == SumBill(FeesOf(b))
        feesGross == WithTax(FeesOf(b), 119)
    IN  [number |-> b.number, start |-> b.period[1], end |-> b.period[2], kwh |-> kwh,
         meterStart |-> MeterAt(b.period[1]), meterEnd |-> MeterAt(b.period[2] + 1),
         prices |-> [k \in DOMAIN b.prices |-> InCents(b.prices[k], 10)], amounts |-> amounts,
         fees |-> FeesOf(b), feeDays |-> DaysOf(b) + (IF b.slip = "days" THEN 1 ELSE 0),
         energyNet |-> energyNet, energyGross |-> energyGross, feesNet |-> feesNet, feesGross |-> feesGross,
         totalNet |-> energyNet + feesNet, totalGross |-> energyGross + feesGross,
         vat |-> energyGross + feesGross - energyNet - feesNet, average |-> InCents(energyNet * 100, kwh),
         averageGross |-> InCents(energyNet * 119, kwh)]

----------------------------------------------------------------------------
(* check_invoice: what a printed bill must satisfy, the tolerances multiplied through. *)
Near(x, y, tolerance) == x - y <= tolerance /\ y - x <= tolerance
\* Mutant of GrossNear: a cent is all the difference there may be.
GrossNearCent(net, gross, items) == Near(200 * gross, 238 * net, 200)
\* _gross_tolerance: half a cent for each item, and one.
GrossNear(net, gross, items) == Near(200 * gross, 238 * net, 200 + 100 * items)

Checks(i) ==
    [position |-> \A k \in DOMAIN i.amounts :
                    Near(2 * i.prices[k] * i.kwh, 200 * i.amounts[k], i.kwh + 200),
     positions_sum |-> Near(SumBill(i.amounts), i.energyNet, 2),
     positions_ct_sum |-> Near(SumBill(i.prices), i.average, 2),
     avg_price |-> Near(1000 * i.energyNet, 10 * i.average * i.kwh, 11 * i.kwh),
     avg_price_gross |-> Near(119 * i.average, 100 * i.averageGross, 200),
     energy_gross |-> GrossNear(i.energyNet, i.energyGross, Len(i.amounts)),
     fee |-> /\ Near(MonthFee * Min({i.feeDays, MonthDays}), i.fees[1] * MonthDays, MonthDays)
             /\ Near(DayFee * i.feeDays, i.fees[2], 1),
     fee_days |-> i.feeDays = i.end - i.start + 1,
     fees_sum |-> Near(SumBill(i.fees), i.feesNet, 2),
     fees_gross |-> GrossNear(i.feesNet, i.feesGross, Len(i.fees)),
     total_net |-> Near(i.energyNet + i.feesNet, i.totalNet, 1),
     total_gross |-> GrossNear(i.totalNet, i.totalGross, Len(i.amounts) + Len(i.fees)),
     vat |-> Near(i.totalGross - i.totalNet, i.vat, 1),
     vat_rate |-> Near(190 * i.totalNet, 1000 * i.vat, i.totalNet),
     meter_delta |-> Near(100 * (i.meterEnd - i.meterStart), 100 * i.kwh, 2)]
Found(code, severity, holds) == IF holds THEN {[code |-> code, severity |-> severity]} ELSE {}
CheckInvoice(i) == UNION {Found(c, "error", ~Checks(i)[c]) : c \in DOMAIN Checks(i)}

\* check_meter_chain against the bill before this one, if there is one.
CheckMeterChain(i, before) ==
    IF before = NoBill THEN {}
    ELSE Found("meter_chain", "error", before.meterEnd # i.meterStart)
         \cup Found("period_gap", "warning", i.start - before.end > 1)
         \cup Found("period_gap", "error", i.start - before.end < 1)

\* compare_with_measurement: with half of the minutes or more the import is scaled up.
Scaled(imported, covered) == IF covered >= 50 THEN (100 * imported) \div covered ELSE imported
Compared(i, own) ==
    LET whole == Scaled(own.imported, own.covered)
    IN  Found("coverage", "info", own.covered \in 1..97 /\ own.imported > 0)
        \cup Found("no_measurement", "info", whole = 0)
        \cup Found("measured_kwh", "warning", whole > 0 /\ ~Near(100 * i.kwh, 100 * whole, 5 * whole))

Verdict(findings) ==
    LET levels == {f.severity : f \in findings}
    IN  IF "error" \in levels THEN "error" ELSE IF "warning" \in levels THEN "warning"
        ELSE IF "info" \in levels THEN "info" ELSE "ok"

----------------------------------------------------------------------------
InvoiceInit ==
    /\ reports = [n \in {} |-> NoBill] /\ uploads = 0
    /\ uploading = [u \in Uploaders |-> Idle]

\* _previous: of the bills that end before this one the latest.
Previous(i) ==
    LET earlier == {r \in Range(reports) : r.invoice.end < i.start /\ r.invoice.number # i.number}
    IN  IF earlier = {} THEN NoBill
        ELSE (CHOOSE r \in earlier : \A q \in earlier : q.invoice.end <= r.invoice.end).invoice

\* The file cannot be read, or is no bill: InvoiceParseError.
Unreadable(u) ==
    /\ uploading[u].step = "idle" /\ uploads < MaxUploads /\ uploads' = uploads + 1
    /\ uploading' = [uploading EXCEPT ![u] = [step |-> "refused", bill |-> NoBill]]
    /\ UNCHANGED reports

\* parse_pdf and load_all.
Uploaded(u, b) ==
    /\ uploading[u].step \in {"idle", "refused"} /\ uploads < MaxUploads /\ uploads' = uploads + 1
    /\ uploading' = [uploading EXCEPT ![u] =
         [step |-> "loaded", bill |-> b, previous |-> Previous(Printed(b)), known |-> b.number \in DOMAIN reports]]
    /\ UNCHANGED reports

\* _measure_period: of the import of the period what the minutes there are have seen.
MeasurePeriod(u, covered) ==
    /\ uploading[u].step = "loaded"
    /\ LET b == uploading[u].bill
       IN  uploading' = [uploading EXCEPT ![u] =
             [step |-> "measured", bill |-> b, previous |-> @.previous, known |-> @.known,
              own |-> [covered |-> covered, imported |-> (DailyUse * DaysOf(b) * covered) \div 100]]]
    /\ UNCHANGED <<reports, uploads>>

\* The findings, and save: a bill of the same number replaces its report.
SaveInvoice(u) ==
    /\ uploading[u].step = "measured"
    /\ LET up == uploading[u]  i == Printed(up.bill)
           findings == CheckInvoice(i) \cup CheckMeterChain(i, up.previous) \cup Compared(i, up.own)
       IN  reports' = [n \in DOMAIN reports \cup {i.number} |->
             IF n # i.number THEN reports[n]
             ELSE [bill |-> up.bill, invoice |-> i, findings |-> findings, verdict |-> Verdict(findings),
                   known |-> up.known]]
    /\ uploading' = [uploading EXCEPT ![u] = Idle] /\ UNCHANGED uploads

InvoiceNext == \E u \in Uploaders :
    \/ Unreadable(u) \/ SaveInvoice(u)
    \/ \E b \in Bill : Uploaded(u, b)
    \/ \E covered \in Covered : MeasurePeriod(u, covered)
InvoiceSpec == InvoiceInit /\ [][InvoiceNext]_invoiceVars

----------------------------------------------------------------------------
\* The types.
InvoiceTypeOK ==
    /\ uploads \in 0..MaxUploads /\ DOMAIN reports \subseteq BillNumbers
    /\ \A n \in DOMAIN reports : reports[n].bill \in Bill /\ reports[n].bill.number = n
                               /\ reports[n].verdict \in {"ok", "info", "warning", "error"}

\* The check of a bill by its own numbers: whatever the tax, rounded position by position,
\* comes to, a right bill has no error, and one with a slip has ("Das ist Rundung, kein
\* Rechenfehler", docstring of _gross_tolerance).
VerdictRight ==
    \A n \in DOMAIN reports :
      LET r == reports[n]  errors == {f \in CheckInvoice(r.invoice) : f.severity = "error"}
      IN  /\ r.bill.slip = "none" => errors = {}
          /\ r.bill.slip # "none" => errors # {} /\ r.verdict = "error"

\* What the proof of VerdictRight supposes of the bills: they are large enough for the
\* tolerances of the check.  The prices, printed in hundredths, add up to the average
\* printed (positions_ct_sum); a first position or a tax that is wrong shows (positions_sum,
\* energy_gross); the rounded tax is within a thousandth of the amount (vat_rate).
BillTells(b) ==
    LET n == Len(b.prices)  kwh == EnergyOf(b)  amounts == AmountsOf(b, kwh)
    IN  /\ (n + 1) * kwh + 100 * n < 6 * kwh
        /\ amounts[1] >= 3 /\ SumBill(amounts) >= 100 * (n + 2)
        /\ SumBill(amounts) + SumBill(FeesOf(b)) >= 500 * (n + 2)
BillsTell == \A b \in Bill : BillTells(b)
=============================================================================
