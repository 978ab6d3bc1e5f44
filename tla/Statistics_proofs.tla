------------------------- MODULE Statistics_proofs -------------------------
(***************************************************************************)
(* What a report of the statistics is worth, for every set of scans, gates *)
(* and requests.  A report is only as good as what stays true between its  *)
(* queries: rows of gates are never deleted, each has one of five labels,  *)
(* and a settled scan stays sealed.                                        *)
(***************************************************************************)
EXTENDS Statistics, ScanPipeline_proofs

(***************************************************************************)
(* Counting the gates.                                                     *)
(***************************************************************************)
AllGates == Scan \X Gate

LEMMA AllGatesFinite ==
    ASSUME NEW S \in SUBSET AllGates
    PROVE  IsFiniteSet(S) /\ Cardinality(S) \in Nat
<1>1. IsFiniteSet(AllGates)
  BY FS_Product, StatisticsAssumption, PipelineAssumption DEF AllGates
<1>2. IsFiniteSet(S)
  BY <1>1, FS_Subset
<1> QED
  BY <1>2, FS_CardinalityType

LEMMA SubsetCounts ==
    ASSUME NEW S, NEW T, IsFiniteSet(T), S \subseteq T
    PROVE  Cardinality(S) \in Nat /\ Cardinality(T) \in Nat /\ Cardinality(S) <= Cardinality(T)
<1>1. IsFiniteSet(S) /\ Cardinality(S) <= Cardinality(T)
  BY FS_Subset
<1> QED
  BY <1>1, FS_CardinalityType

LEMMA DisjointUnion ==
    ASSUME NEW S \in SUBSET AllGates, NEW T \in SUBSET AllGates, S \cap T = {}
    PROVE  Cardinality(S \cup T) = Cardinality(S) + Cardinality(T)
<1>1. Cardinality(S \cap T) = 0
  BY FS_EmptySet, Zenon
<1>2. IsFiniteSet(S) /\ Cardinality(S) \in Nat /\ IsFiniteSet(T) /\ Cardinality(T) \in Nat
  BY AllGatesFinite
<1>3. Cardinality(S \cup T) = Cardinality(S) + Cardinality(T) - Cardinality(S \cap T)
  BY <1>2, FS_Union
<1> QED
  BY <1>1, <1>2, <1>3

LEMMA HavingIsGates == Stored \subseteq AllGates /\ \A l : Having(l) \subseteq AllGates
BY DEF Stored, Having, AllGates

\* A gate has two labels never, a row has a label always.
LEMMA FiveParts ==
    ASSUME TypeInv, ResultsInv
    PROVE  Cardinality(Stored) =
               Cardinality(Having("valid")) + Cardinality(Having("clutter"))
               + Cardinality(Having("anomaly")) + Cardinality(Having("missing"))
               + Cardinality(Having("raw"))
<1> DEFINE A == Having("valid")  B == Having("clutter")  C == Having("anomaly")
           D == Having("missing")  E == Having("raw")
<1>1. Stored = A \cup B \cup C \cup D \cup E
  <2>1. \A x \in AllGates : label[x[1]][x[2]] \in GateLabel \cup {"none"}
    BY DEF TypeInv, TypeOK, Labels, AllGates
  <2>2. \A x \in AllGates : label[x[1]][x[2]] = "none" <=> data[x[1]][x[2]] = Absent
    BY DEF ResultsInv, ScanInv, RowsMatch, AllGates
  <2> QED
    BY <2>1, <2>2 DEF Stored, Having, AllGates, GateLabel, Verdict
<1>2. /\ A \cap B = {} /\ (A \cup B) \cap C = {} /\ (A \cup B \cup C) \cap D = {}
      /\ (A \cup B \cup C \cup D) \cap E = {}
  BY DEF Having
<1>3. A \subseteq AllGates /\ B \subseteq AllGates /\ C \subseteq AllGates
      /\ D \subseteq AllGates /\ E \subseteq AllGates
  BY HavingIsGates
<1> HIDE DEF A, B, C, D, E
<1>4. Cardinality(A \cup B) = Cardinality(A) + Cardinality(B)
  BY <1>2, <1>3, DisjointUnion
<1>5. Cardinality(A \cup B \cup C) = Cardinality(A \cup B) + Cardinality(C)
  BY <1>2, <1>3, DisjointUnion
<1>6. Cardinality(A \cup B \cup C \cup D) = Cardinality(A \cup B \cup C) + Cardinality(D)
  BY <1>2, <1>3, DisjointUnion
<1>7. Cardinality(Stored) = Cardinality(A \cup B \cup C \cup D) + Cardinality(E)
  BY <1>1, <1>2, <1>3, DisjointUnion
<1>8. Cardinality(Stored) = Cardinality(A) + Cardinality(B) + Cardinality(C)
                            + Cardinality(D) + Cardinality(E)
  BY <1>4, <1>5, <1>6, <1>7
<1> QED
  BY <1>8 DEF A, B, C, D, E

\* Rows of gates are never deleted: only an upsert writes their variables.
LEMMA StoredStays ==
    ASSUME TypeInv, [Next]_vars
    PROVE  Stored \subseteq Stored'
<1>1. CASE data' = data
  BY <1>1 DEF Stored
<1>2. ASSUME NEW q \in Req, AppendUpsert(q) PROVE Stored \subseteq Stored'
  <2>1. PICK h \in Gate, v \in Value \cup {Missing} : Upsert(on[q], h, v)
    BY <1>2 DEF AppendUpsert
  <2>2. v # Absent /\ on[q] \in Scan
    BY PipelineAssumption DEF TypeInv, TypeOK
  <2>3. data' = [data EXCEPT ![on[q]][h] = v]
    BY <2>1 DEF Upsert
  <2>4. \A s \in Scan, g \in Gate : data[s][g] # Absent => data'[s][g] # Absent
    BY <2>2, <2>3 DEF TypeInv, TypeOK, Triples
  <2> QED
    BY <2>4 DEF Stored
<1>3. ASSUME NEW q \in Req, Start(q) \/ Step(q) \/ Fail(q), ~AppendUpsert(q)
      PROVE  data' = data
  <2>1. CASE Start(q) \/ Fail(q)
    BY <2>1 DEF Start, StartAppend, StartFinalize, StartSeal, StartMark, StartRecompute,
                Fail, gateRows
  <2>2. CASE AppendStep(q) \/ StatusStep(q)
    BY <1>3, <2>2 DEF AppendStep, StatusStep, AppendCheck, AppendReturn, FinalizeCheck,
                      FinalizeWrite, SealCheck, SealWrite, gateRows
  <2>3. CASE MarkStep(q)
    BY <2>3 DEF MarkStep, RecomputeCheck, MarkLock, MarkCheck, MarkRule, MarkCalibration,
                MarkList, MarkLabel, MarkEvidence, MarkRecord, MarkCount, MarkSummary,
                MarkStatus, gateRows
  <2> QED
    BY <1>3, <2>1, <2>2, <2>3 DEF Step
<1>4. CASE Crash \/ Environment \/ UNCHANGED vars
  BY <1>1, <1>4 DEF Crash, Environment, PublishRule, RetireRule, PublishCalibration, vars,
                    gateRows
<1> QED
  BY <1>1, <1>2, <1>3, <1>4 DEF Next

(***************************************************************************)
(* The requests under a report are those of ScanPipeline, started on an    *)
(* empty database or on the one an earlier process has left.               *)
(***************************************************************************)
PipelineInv == TypeInv /\ LockInv /\ ResultsInv

LEMMA RequestsGoOn == StatsNext => [Next]_vars
BY DEF StatsNext, Report, Begin, CountMarked, CountSealed, CountTotal, CountByLabel,
       ReportFails, Serve, CrashAll, Next

LEMMA PipelineNext == ASSUME PipelineInv, [Next]_vars PROVE PipelineInv'
BY StepType, LockNext, ResultsNext DEF PipelineInv

LEMMA RestartedHolds ==
    ASSUME NEW M \in SUBSET Scan, NEW r \in Rule, NEW c \in Cal, Restarted(M, r, c)
    PROVE  PipelineInv
<1>1. data \in [Scan -> Triples] /\ label = [s \in Scan |-> Classify(r, c, data[s])]
      /\ \A s \in Scan : data[s] # NoGates <=> s \in M
  BY DEF Restarted
<1>2. label \in [Scan -> Labels]
  BY <1>1, ClassifyType
<1>3. history \in [Scan -> Seq(MarkBatch)]
  <2>1. \A s \in Scan : [rule |-> r, labels |-> label[s]] \in MarkBatch
    BY <1>2 DEF MarkBatch
  <2>2. \A s \in Scan : <<[rule |-> r, labels |-> label[s]]>> \in Seq(MarkBatch)
    BY <2>1
  <2> QED
    BY <2>2 DEF Restarted
<1>4. evidence \in [Scan -> Seq(EvidenceBatch)]
  <2>1. \A s \in Scan : Hits(r, label[s], data[s]) \in EvidenceBatch
    BY <1>1, <1>2, HitsType
  <2>2. \A s \in Scan : <<Hits(r, label[s], data[s])>> \in Seq(EvidenceBatch)
    BY <2>1
  <2> QED
    BY <2>2 DEF Restarted
<1>5. summary \in [Scan -> Summary \cup {NoSummary}]
  <2>1. \A s \in Scan : [rule |-> r, count |-> CountLabels(label[s])] \in Summary
    BY <1>2, CountLabelsType DEF Summary
  <2> QED
    BY <2>1 DEF Restarted
<1>6. /\ status \in [Scan -> ScanStatus] /\ scanRule \in [Scan -> Rule \cup {NoRule}]
      /\ effRule \in SUBSET Rule /\ effCal \in [Station -> SUBSET Cal]
      /\ lock \in [Scan -> Req \cup {NoReq}] /\ on \in [Req -> Scan]
      /\ intact \in [Scan -> BOOLEAN]
  BY DEF Restarted, ScanStatus
<1>7. \A q \in Req : pc[q] = "new" /\ local[q] = Blank
  BY DEF Restarted
<1>8. pc \in [Req -> PC] /\ local \in [Req -> Local]
  BY BlankType DEF Restarted, PC
<1>9. TypeInv
  <2>1. \A q \in Req : RequestOK(pc[q], local[q])
    BY <1>7, <1>8 DEF RequestOK, HoldsRule, HoldsCal, Writing
  <2> QED
    BY <2>1, <1>1, <1>2, <1>3, <1>4, <1>5, <1>6, <1>8 DEF TypeInv, TypeOK, MarkHolds
<1>10. LockInv
  BY <1>7 DEF LockInv, Critical, Preparing, Writing
<1>11. ASSUME NEW s \in Scan PROVE RowsMatch(s)
  BY <1>1, LabelledIffPresent DEF RowsMatch
<1>12. ASSUME NEW s \in M PROVE Consistent(s)
  <2>1. /\ history[s] = <<[rule |-> r, labels |-> label[s]]>>
        /\ label[s] = Classify(r, c, data[s])
        /\ summary[s] = [rule |-> r, count |-> CountLabels(label[s])]
    BY <1>1 DEF Restarted
  <2>2. /\ history[s] # <<>>
        /\ history[s][Len(history[s])] = [rule |-> r, labels |-> label[s]]
    BY <2>1
  <2>3. (\E g \in Gate : IsHit(label[s], g)) =>
            evidence[s] = <<Hits(r, label[s], data[s])>>
    BY DEF Restarted
  <2>4. (\E g \in Gate : IsHit(label[s], g)) =>
            /\ evidence[s] # <<>>
            /\ evidence[s][Len(evidence[s])] = Hits(r, label[s], data[s])
    BY <2>3
  <2> QED
    BY <2>1, <2>2, <2>4 DEF Consistent
<1>13. \A s \in Scan : intact[s] <=> s \in M
  BY DEF Restarted
<1>14. ResultsInv
  BY <1>7, <1>11, <1>12, <1>13 DEF ResultsInv, ScanInv, Writing
<1> QED
  BY <1>9, <1>10, <1>14 DEF PipelineInv

LEMMA StatsInitHolds == StatsInit => PipelineInv
<1>1. Init => PipelineInv
  BY InitType
     DEF Init, PipelineInv, LockInv, Critical, Preparing, Writing, ResultsInv, ScanInv,
         RowsMatch, NoGates, NoLabels
<1> QED
  BY <1>1, RestartedHolds DEF StatsInit

(***************************************************************************)
(* What the figures read so far are worth.                                 *)
(***************************************************************************)
\* Where each figure has been read.
ReportType ==
    /\ at \in {"idle", "marked", "sealed", "total", "labels", "done", "failed"}
    /\ report \in Figures
    /\ clean \in BOOLEAN

ClosedInv ==
    /\ closed \subseteq Scan
    /\ \A s \in closed : Settled(s)
    /\ at \in {"sealed", "total", "labels", "done"} =>
           report.marked <= Cardinality(Scan \ closed)
    /\ at \in {"total", "labels", "done"} => Cardinality(closed) <= report.sealed

GatesInv ==
    /\ at \in {"labels", "done"} => report.total <= Cardinality(Stored)
    /\ at = "labels" /\ clean =>
           report.total = Cardinality(Stored) /\ Having("raw") = {}
    /\ at = "done" =>
           /\ Decided + report.by["raw"] <= Cardinality(Stored)
           /\ whole => report.total <= Decided + report.by["raw"]
           /\ clean => Decided <= report.total
           /\ clean /\ whole => report.total = Decided

ReportInv == ReportType /\ ClosedInv /\ GatesInv

LEMMA ReportInvHolds == ReportInv => ReportHolds
BY DEF ReportInv, ClosedInv, GatesInv, ReportHolds

LEMMA NumbersType ==
    ASSUME ReportType
    PROVE  /\ report.marked \in Nat /\ report.sealed \in Nat /\ report.total \in Nat
           /\ Decided \in Nat /\ report.by["raw"] \in Nat
BY DEF ReportType, Figures, Counts, GateLabel, Verdict, Decided

LEMMA StoredCounts ==
    ASSUME TypeInv, [Next]_vars
    PROVE  /\ Cardinality(Stored) \in Nat /\ Cardinality(Stored') \in Nat
           /\ Cardinality(Stored) <= Cardinality(Stored')
<1>1. Stored' \subseteq AllGates
  BY DEF Stored, AllGates
<1> QED
  BY <1>1, StoredStays, AllGatesFinite, SubsetCounts

\* A step of the requests, or the end of the process, leaves the figures alone.
LEMMA RequestsKeepReport ==
    ASSUME TypeInv, ReportInv, [Next]_vars,
           \/ /\ at' = at /\ report' = report /\ closed' = closed /\ whole' = whole
              /\ clean' \in BOOLEAN
              /\ clean' => clean /\ (at = "labels" => Stored' = Stored /\ Having("raw")' = {})
           \/ NoReport
    PROVE  ReportInv'
<1>1. \A s \in closed : Settled(s)'
  BY SettledNext DEF ReportInv, ClosedInv
<1>2. CASE NoReport
  <2>1. report' \in Figures
    BY <1>2 DEF NoReport, Empty, Figures, Zero, Counts
  <2> QED
    BY <1>2, <2>1 DEF NoReport, ReportInv, ReportType, ClosedInv, GatesInv
<1>3. CASE /\ at' = at /\ report' = report /\ closed' = closed /\ whole' = whole
           /\ clean' \in BOOLEAN
           /\ clean' => clean /\ (at = "labels" => Stored' = Stored /\ Having("raw")' = {})
  <2>1. Decided' = Decided /\ ReportType'
    BY <1>3 DEF Decided, ReportInv, ReportType
  <2>2. ClosedInv'
    BY <1>1, <1>3 DEF ReportInv, ClosedInv
  <2>3. GatesInv'
    BY <1>3, <2>1, StoredCounts, NumbersType DEF ReportInv, GatesInv
  <2> QED
    BY <2>1, <2>2, <2>3 DEF ReportInv
<1> QED
  BY <1>2, <1>3

\* The queries of the report leave the requests alone and read what is there now.
LEMMA QueriesKeepTables ==
    ASSUME Report
    PROVE  /\ Stored' = Stored /\ \A s \in Scan : Settled(s)' <=> Settled(s)
           /\ Having("raw")' = Having("raw")
<1>1. UNCHANGED vars
  BY DEF Report, Begin, CountMarked, CountSealed, CountTotal, CountByLabel, ReportFails
<1>2. data' = data /\ label' = label /\ status' = status /\ on' = on /\ pc' = pc
  BY <1>1 DEF vars, scanRow, gateRows
<1> QED
  BY <1>2 DEF Stored, Settled, Having

LEMMA BeginReport == ASSUME ReportInv, Begin PROVE ReportInv'
<1>1. \A s \in closed' : s \in Scan /\ Settled(s)'
  BY QueriesKeepTables DEF Begin, Report
<1> QED
  BY <1>1 DEF Begin, ReportInv, ReportType, ClosedInv, GatesInv

LEMMA ScanFigures ==
    ASSUME PipelineInv, ReportInv, CountMarked \/ CountSealed PROVE ReportInv'
<1>1. /\ closed' = closed /\ clean' = clean /\ closed \subseteq Scan
      /\ \A s \in closed : Settled(s)' /\ status[s] = "sealed"
  BY QueriesKeepTables
     DEF CountMarked, CountSealed, Report, ReportInv, ClosedInv, Settled
<1>2. /\ Cardinality(Scan \ closed) \in Nat
      /\ Count("marked") \in Nat /\ Count("sealed") \in Nat /\ Cardinality(closed) \in Nat
      /\ Count("marked") <= Cardinality(Scan \ closed)
      /\ Cardinality(closed) <= Count("sealed")
  <2>1. IsFiniteSet(Scan \ closed) /\ IsFiniteSet({s \in Scan : status[s] = "sealed"})
    BY StatisticsAssumption, FS_Subset
  <2>2. /\ {s \in Scan : status[s] = "marked"} \subseteq Scan \ closed
        /\ closed \subseteq {s \in Scan : status[s] = "sealed"}
    BY <1>1
  <2> QED
    BY <2>1, <2>2, SubsetCounts DEF Count
<1>3. CASE CountMarked
  <2>1. report' = [report EXCEPT !.marked = Count("marked")] /\ at = "marked" /\ at' = "sealed"
    BY <1>3 DEF CountMarked
  <2>2. report' \in Figures /\ report'.marked = Count("marked")
    BY <1>2, <2>1 DEF ReportInv, ReportType, Figures
  <2> QED
    BY <1>1, <1>2, <2>1, <2>2 DEF ReportInv, ReportType, ClosedInv, GatesInv
<1>4. CASE CountSealed
  <2>1. report' = [report EXCEPT !.sealed = Count("sealed")] /\ at = "sealed" /\ at' = "total"
    BY <1>4 DEF CountSealed
  <2>2. /\ report' \in Figures /\ report'.sealed = Count("sealed")
        /\ report'.marked = report.marked
    BY <1>2, <2>1 DEF ReportInv, ReportType, Figures
  <2> QED
    BY <1>1, <1>2, <2>1, <2>2 DEF ReportInv, ReportType, ClosedInv, GatesInv
<1> QED
  BY <1>3, <1>4

LEMMA GateFigures ==
    ASSUME PipelineInv, ReportInv, CountTotal \/ CountByLabel PROVE ReportInv'
<1>1. /\ closed' = closed /\ closed \subseteq Scan /\ \A s \in closed : Settled(s)'
      /\ Stored' = Stored /\ Having("raw")' = Having("raw")
  BY QueriesKeepTables DEF CountTotal, CountByLabel, Report, ReportInv, ClosedInv
<1>2. /\ Cardinality(Stored) \in Nat
      /\ \A l : Cardinality(Having(l)) \in Nat
  BY HavingIsGates, AllGatesFinite
<1>3. CASE CountTotal
  <2>1. /\ report' = [report EXCEPT !.total = Cardinality(Stored)]
        /\ at = "total" /\ at' = "labels" /\ clean' = (Having("raw") = {})
    BY <1>3 DEF CountTotal
  <2>2. /\ report' \in Figures /\ report'.total = Cardinality(Stored)
        /\ report'.marked = report.marked /\ report'.sealed = report.sealed
    BY <1>2, <2>1 DEF ReportInv, ReportType, Figures
  <2>3. Cardinality(Stored') = Cardinality(Stored) /\ Cardinality(Stored') <= Cardinality(Stored')
    BY <1>1, <1>2
  <2>4. GatesInv'
    BY <1>1, <2>1, <2>2, <2>3 DEF GatesInv
  <2>5. ReportType' /\ ClosedInv'
    BY <1>1, <2>1, <2>2 DEF ReportInv, ReportType, ClosedInv
  <2> QED
    BY <2>4, <2>5 DEF ReportInv
<1>4. CASE CountByLabel
  <2> DEFINE Figure(read, l) == IF l \in read THEN ByLabel[l] ELSE 0
  <2>1. PICK read \in SUBSET Occurring :
            /\ report' = [report EXCEPT !.by = [l \in GateLabel |-> Figure(read, l)]]
            /\ whole' = (read = Occurring)
    BY <1>4 DEF CountByLabel
  <2>2. at = "labels" /\ at' = "done" /\ clean' = clean
    BY <1>4 DEF CountByLabel
  <2>3. ASSUME NEW l \in GateLabel
        PROVE  /\ Figure(read, l) \in Nat /\ Figure(read, l) <= Cardinality(Having(l))
               /\ read = Occurring => Figure(read, l) = Cardinality(Having(l))
    <3>1. ByLabel[l] = Cardinality(Having(l))
      BY DEF ByLabel
    <3>2. CASE l \in read
      BY <1>2, <3>1, <3>2
    <3>3. CASE l \notin read
      <4>1. read = Occurring => Cardinality(Having(l)) = 0
        BY <3>3, FS_EmptySet DEF Occurring
      <4> QED
        BY <1>2, <3>3, <4>1
    <3> QED
      BY <3>2, <3>3
  <2>4. [l \in GateLabel |-> Figure(read, l)] \in Counts
    BY <2>3 DEF Counts
  <2>5. /\ report' \in Figures /\ report'.by = [l \in GateLabel |-> Figure(read, l)]
        /\ report'.total = report.total
        /\ report'.marked = report.marked /\ report'.sealed = report.sealed
    BY <2>1, <2>4 DEF ReportInv, ReportType, Figures
  <2> HIDE DEF Figure
  <2>6. /\ Decided' = Figure(read, "valid") + Figure(read, "clutter")
                      + Figure(read, "anomaly") + Figure(read, "missing")
        /\ report'.by["raw"] = Figure(read, "raw")
    BY <2>5 DEF Decided, GateLabel, Verdict
  <2>7. /\ Decided' \in Nat /\ report'.by["raw"] \in Nat
        /\ Decided' + report'.by["raw"] <= Cardinality(Stored)
        /\ whole' => Decided' + report'.by["raw"] = Cardinality(Stored)
    <3> DEFINE Number(l) == Cardinality(Having(l))
    <3>1. \A l \in GateLabel :
              /\ Figure(read, l) \in Nat /\ Number(l) \in Nat /\ Figure(read, l) <= Number(l)
              /\ whole' => Figure(read, l) = Number(l)
      BY <1>2, <2>1, <2>3
    <3>2. Cardinality(Stored) = Number("valid") + Number("clutter") + Number("anomaly")
                                + Number("missing") + Number("raw")
      BY FiveParts DEF PipelineInv
    <3> HIDE DEF Number
    <3> QED
      BY <2>6, <3>1, <3>2 DEF GateLabel, Verdict
  <2>8. report.total \in Nat /\ report.total <= Cardinality(Stored)
        /\ (clean => report.total = Cardinality(Stored) /\ Having("raw") = {})
    BY <2>2, NumbersType DEF ReportInv, GatesInv
  <2>9. clean => report'.by["raw"] = 0
    <3>1. report'.by["raw"] <= Cardinality(Having("raw"))
      BY <2>3, <2>6 DEF GateLabel
    <3> QED
      BY <2>7, <2>8, <3>1, FS_EmptySet
  <2>10. GatesInv'
    BY <1>1, <1>2, <2>2, <2>5, <2>7, <2>8, <2>9 DEF GatesInv
  <2>11. ReportType' /\ ClosedInv'
    BY <1>1, <2>2, <2>5 DEF ReportInv, ReportType, ClosedInv
  <2> QED
    BY <2>10, <2>11 DEF ReportInv
<1> QED
  BY <1>3, <1>4

LEMMA ReportNext ==
    ASSUME PipelineInv, ReportInv, [StatsNext]_<<vars, reader>> PROVE ReportInv'
<1>0. TypeInv
  BY DEF PipelineInv
<1>1. CASE UNCHANGED <<vars, reader>>
  <2>1. /\ closed' = closed /\ at' = at /\ report' = report
        /\ whole' = whole /\ clean' = clean /\ UNCHANGED vars
    BY <1>1 DEF reader
  <2>2. Stored' = Stored /\ Having("raw")' = Having("raw")
    BY <2>1 DEF vars, gateRows, Stored, Having
  <2>3. clean \in BOOLEAN /\ (clean /\ at = "labels" => Having("raw") = {})
    BY DEF ReportInv, ReportType, GatesInv
  <2> QED
    BY <1>0, <2>1, <2>2, <2>3, RequestsKeepReport
<1>2. CASE Serve
  <2>1. /\ [Next]_vars /\ closed' = closed /\ at' = at /\ report' = report
        /\ whole' = whole /\ clean' = StillClean
    BY <1>2 DEF Serve, Next
  <2>2. clean' \in BOOLEAN
    BY <2>1 DEF StillClean, ReportInv, ReportType
  <2> QED
    BY <1>0, <2>1, <2>2, RequestsKeepReport DEF StillClean
<1>3. CASE CrashAll
  <2>1. [Next]_vars
    BY <1>3 DEF CrashAll, Next
  <2>2. CASE UNCHANGED reader
    <3>1. clean \in BOOLEAN /\ (clean /\ at = "labels" => Having("raw") = {})
      BY DEF ReportInv, ReportType, GatesInv
    <3>2. at = "labels" => NoReport
      BY <1>3 DEF CrashAll
    <3>3. at # "labels"
      BY <2>2, <3>2 DEF NoReport, reader
    <3> QED
      BY <1>0, <2>1, <2>2, <3>1, <3>3, RequestsKeepReport DEF reader
  <2> QED
    BY <1>0, <1>3, <2>1, <2>2, RequestsKeepReport DEF CrashAll
<1>4. CASE ReportFails
  BY <1>0, <1>4, RequestsKeepReport DEF ReportFails
<1> QED
  BY <1>1, <1>2, <1>3, <1>4, BeginReport, ScanFigures, GateFigures DEF StatsNext, Report

\* Whatever requests, failures and restarts a report meets, the gates it counts by label
\* are at most those stored now, and no more than its total when nothing came in between;
\* they are at least its total, or exactly that, as long as their rows were not cut off
\* (gate_store.go:142); and it counts settled scans as sealed (stats_service.go:14-53).
THEOREM ReportsHold == StatsSpec => []ReportHolds
<1>1. StatsInit => PipelineInv /\ ReportInv
  <2>1. Empty \in Figures
    BY DEF Empty, Figures, Counts, Zero
  <2>2. StatsInit => at = "idle" /\ report = Empty /\ clean = FALSE /\ closed = {}
    BY DEF StatsInit
  <2>3. StatsInit => ReportInv
    BY <2>1, <2>2 DEF ReportInv, ReportType, ClosedInv, GatesInv
  <2> QED
    BY <2>3, StatsInitHolds
<1>2. PipelineInv /\ ReportInv /\ [StatsNext]_<<vars, reader>> => PipelineInv' /\ ReportInv'
  <2>1. [StatsNext]_<<vars, reader>> => [Next]_vars
    BY RequestsGoOn
  <2> QED
    BY <2>1, PipelineNext, ReportNext
<1> QED
  BY <1>1, <1>2, ReportInvHolds, PTL DEF StatsSpec
=============================================================================
