---------------------------- MODULE HistoryImport ----------------------------
(* Exports of Home Assistant's history, one behind the other, read row by row   *)
(* and turned into minutes: parse_dump with the means of intervals              *)
(* ("statistics") or the raw states ("states"), each of which holds until the   *)
(* next one of its entity, but only so long, and prices from elsewhere where    *)
(* the exports have none.  The minutes become hours as in EnergySplit; which of *)
(* the hours are written is in EnergyLedger.                                    *)
EXTENDS Integers, Sequences, FiniteSets, FiniteSetsExt, Functions

CONSTANTS
    ExportKind,     \* "statistics" or "states", of every section
    KeyOfEntity,    \* the mapping of entities to keys (EntityRule); others are unmapped
    ExportRows,     \* bound: how many rows a file has at most
    ExportSections, \* bound: how many exports are put one behind the other
    LastMinute0,    \* the last minute a row may carry
    ExportValues,   \* the values of rows; the 0 is idle (IDLE_KW)
    IdleFill, PriceFill, DefaultFill, StateFill,    \* IDLE_FILL, FILL_LIMIT, DEFAULT_FILL, STATE_FILL_LIMIT
    Unmapped        \* an entity without a rule

Entities == DOMAIN KeyOfEntity
Keys == {KeyOfEntity[e] : e \in Entities} \cup {"price"}
NotANumber == -1        \* "unknown", "unavailable", empty
ExportRow == [entity : Entities \cup {Unmapped}, at : 0..LastMinute0, value : ExportValues \cup {NotANumber}]

ASSUME ImportAssumption ==
    /\ LastMinute0 \in Nat /\ ExportRows \in Nat /\ ExportSections \in Nat
    /\ ExportValues \subseteq Int /\ NotANumber \notin ExportValues /\ Unmapped \notin Entities
    /\ IdleFill \in Nat /\ PriceFill \in Nat /\ DefaultFill \in Nat \ {0} /\ StateFill \in Nat

VARIABLES
    export,      \* the rows of the file so far, each with its section
    section,     \* the section that is read
    minutesOf,   \* ParsedDump.minutes: of each key the minutes that have a value
    resolution,  \* ParsedDump.resolution_min
    dumpUnmapped,\* ParsedDump.unmapped
    importStep   \* "reading", "parsed", "priced"
importVars == <<export, section, minutesOf, resolution, dumpUnmapped, importStep>>

NoMinutes == [m \in {} |-> 0]
ImportInit ==
    /\ export = <<>> /\ section = 1 /\ minutesOf = [k \in Keys |-> NoMinutes] /\ resolution = 1
    /\ dumpUnmapped = {} /\ importStep = "reading"

\* A row of any entity, in any order.
ReadRow(row) ==
    /\ importStep = "reading" /\ Len(export) < ExportRows
    /\ export' = Append(export, [section |-> section, entity |-> row.entity, at |-> row.at, value |-> row.value])
    /\ dumpUnmapped' = IF row.entity = Unmapped THEN dumpUnmapped \cup {row.entity} ELSE dumpUnmapped
    /\ UNCHANGED <<section, minutesOf, resolution, importStep>>

\* _sections: another head line, of an export put behind the one before.
NextSection ==
    /\ importStep = "reading" /\ section < ExportSections /\ section' = section + 1
    /\ UNCHANGED <<export, minutesOf, resolution, dumpUnmapped, importStep>>

----------------------------------------------------------------------------
\* per_entity: the rows that have a number, by section and entity.  As the rows of a section lie
\* together, its entities come in the order of their first rows.
Usable == {i \in DOMAIN export : export[i].entity # Unmapped /\ export[i].value # NotANumber}
SeriesAt(i) == <<export[i].section, export[i].entity>>
KeyOf(e) == KeyOfEntity[e[2]]
PointsOf(e) == {[at |-> export[i].at, value |-> export[i].value] : i \in {j \in Usable : SeriesAt(j) = e}}
FirstRows == {i \in Usable : \A j \in Usable : SeriesAt(j) = SeriesAt(i) => i <= j}

Sorted(p, q) == p.at < q.at \/ (p.at = q.at /\ p.value < q.value)
NextOf(e, p) == {q \in PointsOf(e) : Sorted(p, q)}
FollowedBy(e, p) == CHOOSE q \in NextOf(e, p) : \A r \in NextOf(e, p) : r = q \/ Sorted(q, r)

\* The step of a series is the median of its distances, an hour at most.
Distances(e) == [p \in {q \in PointsOf(e) : NextOf(e, q) # {} /\ FollowedBy(e, q).at > q.at} |-> FollowedBy(e, p).at - p.at]
Median(d) ==
    LET half == Cardinality(DOMAIN d) \div 2
    IN  CHOOSE x \in Range(d) : /\ Cardinality({p \in DOMAIN d : d[p] < x}) <= half
                                /\ Cardinality({p \in DOMAIN d : d[p] <= x}) > half
OneStep(e) == IF DOMAIN Distances(e) = {} THEN DefaultFill ELSE Min({DefaultFill, Median(Distances(e))})
FillSpan(e, p) ==
    LET limit == IF KeyOf(e) = "price" THEN PriceFill ELSE IF p.value = 0 THEN IdleFill ELSE DefaultFill
    IN  Max({OneStep(e), limit})

\* The minutes for which a point of an entity holds.
HoldsFor(e, p) ==
    IF ExportKind = "statistics"
    THEN p.at..((IF NextOf(e, p) = {} THEN p.at + OneStep(e)
                 ELSE Min({p.at + FillSpan(e, p), FollowedBy(e, p).at})) - 1)
    ELSE p.at..Min({p.at + StateFill, IF NextOf(e, p) = {} THEN p.at + 1 ELSE FollowedBy(e, p).at})

\* Of a series: the last of its points to be written to a minute.
RowsCovering(e, t) == {p \in PointsOf(e) : t \in HoldsFor(e, p)}
ValueOf(e, t) == (CHOOSE p \in RowsCovering(e, t) : \A q \in RowsCovering(e, t) : p = q \/ Sorted(q, p)).value

\* Mutant of CombineMax: no key has two entities.
CombineNothing == {}
\* COMBINE_MAX: of two entities with the same key the larger value counts; only
\* _parse_statistics knows it.
CombineMax == IF ExportKind = "statistics" THEN {"pv"} ELSE {}

\* A series writes its minutes.
WriteSeries(e, minutes) ==
    LET mine == UNION {HoldsFor(e, p) : p \in PointsOf(e)}
    IN  [t \in mine \cup DOMAIN minutes |->
           IF t \notin mine THEN minutes[t]
           ELSE IF KeyOf(e) \in CombineMax /\ t \in DOMAIN minutes THEN Max({minutes[t], ValueOf(e, t)})
           ELSE ValueOf(e, t)]
\* One series after the other, in the order of their first rows: the last one is written last.
MinutesWritten(key) ==
    MapThenFoldSet(LAMBDA e, minutes : WriteSeries(e, minutes), NoMinutes, SeriesAt, LAMBDA rows : Max(rows),
                   {i \in FirstRows : KeyOf(SeriesAt(i)) = key})

Parse ==
    /\ importStep = "reading" /\ importStep' = "parsed"
    /\ minutesOf' = [k \in Keys |-> MinutesWritten(k)]
    /\ resolution' = IF ExportKind = "states" THEN 1
                     ELSE Max({1} \cup {OneStep(SeriesAt(i)) : i \in {j \in Usable : KeyOf(SeriesAt(j)) \in {"pv", "grid", "battery"}}})
    /\ UNCHANGED <<export, section, dumpUnmapped>>

\* apply_prices: the hours' prices of Tibber, where the export has none.
ApplyPrices(price) ==
    /\ importStep = "parsed" /\ importStep' = "priced"
    /\ minutesOf' = [minutesOf EXCEPT !["price"] =
         [t \in DOMAIN @ \cup 0..LastMinute0 |-> IF t \in DOMAIN @ THEN @[t] ELSE price]]
    /\ UNCHANGED <<export, section, resolution, dumpUnmapped>>

\* The prices cannot be had: the import goes on without them.
NoPrices ==
    /\ importStep = "parsed" /\ importStep' = "priced"
    /\ UNCHANGED <<export, section, minutesOf, resolution, dumpUnmapped>>

ImportNext ==
    \/ \E row \in ExportRow : ReadRow(row)
    \/ NextSection \/ Parse \/ NoPrices
    \/ \E price \in ExportValues : ApplyPrices(price)
ImportSpec == ImportInit /\ [][ImportNext]_importVars

----------------------------------------------------------------------------
\* The types.
ImportTypeOK ==
    /\ importStep \in {"reading", "parsed", "priced"} /\ dumpUnmapped \subseteq {Unmapped}
    /\ \A k \in Keys : Range(minutesOf[k]) \subseteq ExportValues

\* Two entities for the same quantity, one of them switched off and at 0: the larger value
\* counts, whatever the order of the file, also when exports are put one behind the other (comment
\* at COMBINE_MAX).
LargerCounts ==
    importStep = "parsed" =>
      \A t \in DOMAIN minutesOf["pv"], e \in {SeriesAt(i) : i \in Usable} :
        KeyOf(e) = "pv" /\ RowsCovering(e, t) # {} => ValueOf(e, t) <= minutesOf["pv"][t]
=============================================================================
