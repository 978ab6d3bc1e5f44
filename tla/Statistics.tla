---------------------------- MODULE Statistics -----------------------------
(***************************************************************************)
(* GET /api/stats while the requests of ScanPipeline run: StatsService.Get *)
(* puts one report together from independent queries, each of which sees   *)
(* the database as it is by then.  Stations and scans do not change here,  *)
(* and rule versions are never deleted: their counts are left out.         *)
(***************************************************************************)
EXTENDS ScanPipeline

ASSUME StatisticsAssumption == IsFiniteSet(Scan)

VARIABLES
    at,          \* the query of the report that comes next
    report,      \* the figures read so far
    whole,       \* auxiliary: the rows of the last query were all read
    clean,       \* auxiliary: since the first query of the gates, no gate was raw
                 \* and none was uploaded
    closed       \* auxiliary: the scans that were settled when the report began

reader == <<at, report, whole, clean, closed>>

Figures == [marked : Nat, sealed : Nat, total : Nat, by : Counts]
Empty   == [marked |-> 0, sealed |-> 0, total |-> 0, by |-> Zero]

-----------------------------------------------------------------------------
\* ScanStore.Count
Count(st) == Cardinality({s \in Scan : status[s] = st})

Stored    == {x \in Scan \X Gate : data[x[1]][x[2]] # Absent}
Having(l) == {x \in Scan \X Gate : label[x[1]][x[2]] = l}

\* Fault: only the gates of scans with a result are counted.
FaultyByLabel == [l \in GateLabel |->
    Cardinality({x \in Having(l) : status[x[1]] \in {"marked", "sealed"}})]

\* The second query of CountGlobal.
ByLabel == [l \in GateLabel |-> Cardinality(Having(l))]

\* The database of an earlier process, in which the scans in M were uploaded and
\* marked without disturbance.
Restarted(M, r, c) ==
    /\ data \in [Scan -> Triples] /\ \A s \in Scan : data[s] # NoGates <=> s \in M
    /\ label = [s \in Scan |-> Classify(r, c, data[s])]
    /\ status = [s \in Scan |-> IF s \in M THEN "marked" ELSE "receiving"]
    /\ scanRule = [s \in Scan |-> IF s \in M THEN r ELSE NoRule]
    /\ history = [s \in Scan |-> IF s \in M THEN <<[rule |-> r, labels |-> label[s]]>>
                                           ELSE <<>>]
    /\ evidence = [s \in Scan |-> IF \E g \in Gate : IsHit(label[s], g)
                                  THEN <<Hits(r, label[s], data[s])>> ELSE <<>>]
    /\ summary = [s \in Scan |-> IF s \in M
                     THEN [rule |-> r, count |-> CountLabels(label[s])] ELSE NoSummary]
    /\ intact = [s \in Scan |-> s \in M]
    /\ effRule = {r}
    /\ effCal = [st \in Station |-> {c}]
    /\ lock = [s \in Scan |-> NoReq]
    /\ pc = [q \in Req |-> "new"]
    /\ on \in [Req -> Scan]
    /\ local = [q \in Req |-> Blank]

StatsInit ==
    /\ \/ Init
       \/ \E M \in SUBSET Scan, r \in Rule, c \in Cal : M # {} /\ Restarted(M, r, c)
    /\ at = "idle"
    /\ report = Empty
    /\ whole = FALSE
    /\ clean = FALSE
    /\ closed = {}

Begin ==
    /\ at = "idle"
    /\ at' = "marked"
    /\ closed' = {s \in Scan : Settled(s)}
    /\ UNCHANGED <<vars, report, whole, clean>>

CountMarked ==
    /\ at = "marked"
    /\ at' = "sealed"
    /\ report' = [report EXCEPT !.marked = Count("marked")]
    /\ UNCHANGED <<vars, whole, clean, closed>>

CountSealed ==
    /\ at = "sealed"
    /\ at' = "total"
    /\ report' = [report EXCEPT !.sealed = Count("sealed")]
    /\ UNCHANGED <<vars, whole, clean, closed>>

CountTotal ==
    /\ at = "total"
    /\ at' = "labels"
    /\ report' = [report EXCEPT !.total = Cardinality(Stored)]
    /\ clean' = (Having("raw") = {})
    /\ UNCHANGED <<vars, whole, closed>>

Occurring == {l \in GateLabel : Having(l) # {}}

\* CountGlobal ends when rows.Next ends, without asking for rows.Err as the other
\* queries of gate_store.go do (:100, :128): when the rows are cut off by a failure, the
\* report is given with the labels read so far.
CountByLabel ==
    /\ at = "labels"
    /\ at' = "done"
    /\ \E read \in SUBSET Occurring :
          /\ report' = [report EXCEPT !.by =
                           [l \in GateLabel |-> IF l \in read THEN ByLabel[l] ELSE 0]]
          /\ whole' = (read = Occurring)
    /\ UNCHANGED <<vars, clean, closed>>

NoReport ==
    /\ at' = "failed"
    /\ report' = Empty
    /\ whole' = FALSE
    /\ clean' = FALSE
    /\ closed' = {}

\* A query fails, or a row of it does not scan: there is no report.
ReportFails ==
    /\ at \in {"marked", "sealed", "total", "labels"}
    /\ NoReport
    /\ UNCHANGED vars

Report ==
    \/ Begin \/ CountMarked \/ CountSealed \/ CountTotal \/ CountByLabel
    \/ ReportFails

StillClean == clean /\ (at = "labels" => Stored' = Stored /\ Having("raw")' = {})

Serve ==
    /\ (\E q \in Req : Start(q) \/ Step(q) \/ Fail(q)) \/ Environment
    /\ clean' = StillClean
    /\ UNCHANGED <<at, report, whole, closed>>

\* A report under way ends with the process.
CrashAll ==
    /\ Crash
    /\ IF at \in {"idle", "done"} THEN UNCHANGED reader ELSE NoReport

StatsNext == Report \/ Serve \/ CrashAll

StatsSpec ==
    /\ StatsInit
    /\ [][StatsNext]_<<vars, reader>>
    /\ \A q \in Req : WF_vars(Step(q))

-----------------------------------------------------------------------------
(***************************************************************************)
(* Properties.                                                             *)
(***************************************************************************)
Decided == report.by["valid"] + report.by["clutter"] + report.by["anomaly"]
           + report.by["missing"]

\* What a report is worth although its queries see different states of the database.
\* The gates it counts by label are still stored.  If no failure cut their rows off, they
\* are at least those it counts in all, and the four figures of verdicts account for
\* every gate when all gates were marked and none came in between the two queries of
\* the gates, even if a Mark relabels them meanwhile; cut off, they account for fewer,
\* and nothing in the answer tells (gate_store.go:142).  A scan that was settled before
\* is counted as sealed and not as marked (stats_service.go:14).
ReportHolds ==
    at = "done" =>
        /\ Decided + report.by["raw"] <= Cardinality(Stored)
        /\ whole => report.total <= Decided + report.by["raw"]
        /\ clean => Decided <= report.total
        /\ clean /\ whole => report.total = Decided
        /\ Cardinality(closed) <= report.sealed
        /\ report.marked <= Cardinality(Scan \ closed)
=============================================================================
