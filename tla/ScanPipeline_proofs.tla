----------------------- MODULE ScanPipeline_proofs -----------------------
(***************************************************************************)
(* Theorems about ScanPipeline, for every set of scans, gates, rules and   *)
(* requests.                                                               *)
(***************************************************************************)
EXTENDS ScanPipeline, FiniteSetTheorems, TLAPS

(***************************************************************************)
(* Type correctness.                                                       *)
(***************************************************************************)
\* Counting the labels of a scan gives a number for each label.
LEMMA CountLabelsType ==
    ASSUME NEW lbl \in Labels
    PROVE  CountLabels(lbl) \in Counts
<1>1. ASSUME NEW l \in GateLabel
      PROVE  Cardinality({g \in Gate : lbl[g] = l}) \in Nat
  BY PipelineAssumption, FS_Subset, FS_CardinalityType
<1> QED BY <1>1 DEF CountLabels, Counts

\* Classifying listed gates with a rule and a calibration gives labels.
LEMMA ClassifyType ==
    ASSUME NEW r \in Rule, NEW c \in Cal, NEW d \in Triples
    PROVE  Classify(r, c, d) \in Labels
<1>1. ASSUME NEW g \in Gate
      PROVE  Classify(r, c, d)[g] \in GateLabel \cup {"none"}
  BY PipelineAssumption DEF Classify, Triples, GateLabel
<1> QED BY <1>1 DEF Classify, Labels

\* The cleared memory of a request is well typed.
LEMMA BlankType == Blank \in Local
BY PipelineAssumption
   DEF Blank, Local, NoGates, Triples, Zero, Counts

\* A batch of evidence is well typed.
LEMMA HitsType ==
    ASSUME NEW r \in Rule, NEW lbl \in Labels, NEW d \in Triples
    PROVE  Hits(r, lbl, d) \in EvidenceBatch
BY DEF Hits, EvidenceBatch, Labels, Triples, IsHit, GateLabel

\* While Mark goes on, it holds the rule version and the calibration it has read.
HoldsRule == {"calibration", "list"} \cup Writing \cup {"status"}
HoldsCal  == {"list"} \cup Writing \cup {"status"}

RequestOK(p, m) ==
    /\ p \in PC /\ m \in Local
    /\ p \in HoldsRule => m.rule \in Rule
    /\ p \in HoldsCal => m.cal \in Cal

MarkHolds == \A q \in Req : RequestOK(pc[q], local[q])

TypeInv == TypeOK /\ MarkHolds

\* A step of one request leaves every request well typed.
LEMMA RequestStep ==
    ASSUME TypeInv, NEW q \in Req, NEW p, NEW m, RequestOK(p, m),
           pc' = [pc EXCEPT ![q] = p], local' = [local EXCEPT ![q] = m]
    PROVE  pc' \in [Req -> PC] /\ local' \in [Req -> Local] /\ MarkHolds'
BY DEF TypeInv, TypeOK, MarkHolds, RequestOK

\* The same when the memory of the request does not change.
LEMMA RequestGoto ==
    ASSUME TypeInv, NEW q \in Req, NEW p, RequestOK(p, local[q]),
           pc' = [pc EXCEPT ![q] = p], local' = local
    PROVE  pc' \in [Req -> PC] /\ local' \in [Req -> Local] /\ MarkHolds'
BY DEF TypeInv, TypeOK, MarkHolds, RequestOK

\* A finished request has nothing left to hold.
LEMMA RequestFinish ==
    ASSUME TypeInv, NEW q \in Req, Finish(q)
    PROVE  pc' \in [Req -> PC] /\ local' \in [Req -> Local] /\ MarkHolds'
<1>1. RequestOK("done", Blank)
  BY BlankType DEF RequestOK, PC, HoldsRule, HoldsCal, Writing
<1> QED BY <1>1, RequestStep DEF Finish, Goto

\* Writing one field of the memory of a request keeps it well typed.
LEMMA LocalField ==
    ASSUME NEW m \in Local
    PROVE  /\ \A r \in Rule \cup {NoRule} : [m EXCEPT !.seen = r] \in Local
           /\ \A r \in Rule : [m EXCEPT !.rule = r] \in Local
           /\ \A c \in Cal : [m EXCEPT !.cal = c] \in Local
           /\ \A d \in Triples, t \in SUBSET Gate :
                 [m EXCEPT !.listed = d, !.todo = t] \in Local
           /\ \A t \in SUBSET Gate : [m EXCEPT !.todo = t] \in Local
           /\ \A n \in Counts : [m EXCEPT !.count = n] \in Local
           /\ \A n \in 0..MaxRows : [m EXCEPT !.rows = n] \in Local
BY DEF Local

LEMMA InitType == Init => TypeInv
BY BlankType, PipelineAssumption
   DEF Init, TypeInv, TypeOK, MarkHolds, RequestOK, HoldsRule, HoldsCal, ScanStatus,
       NoGates, NoLabels, Triples, Labels, PC, Writing

LEMMA StartType == ASSUME TypeInv, NEW q \in Req, Start(q) PROVE TypeInv'
<1>1. PICK p \in {"append", "finalize", "seal", "lock", "recompute"} : Goto(q, p)
  BY DEF Start, StartAppend, StartFinalize, StartSeal, StartMark, StartRecompute
<1>2. RequestOK(p, local[q])
  BY DEF RequestOK, PC, Entry, HoldsRule, HoldsCal, Writing, TypeInv, TypeOK
<1> QED
  BY <1>1, <1>2, RequestGoto
     DEF Start, StartAppend, StartFinalize, StartSeal, StartMark, StartRecompute,
         TypeInv, TypeOK, Goto, scanRow, gateRows, results, versions

LEMMA AppendType == ASSUME TypeInv, NEW q \in Req, AppendStep(q) PROVE TypeInv'
<1> USE DEF scanRow, gateRows, results, versions
<1>1. CASE AppendCheck(q)
  <2>1. CASE Finish(q)
    BY <1>1, <2>1, RequestFinish DEF AppendCheck, TypeInv, TypeOK
  <2>2. CASE \E n \in 0..MaxRows :
               local' = [local EXCEPT ![q].rows = n] /\ Goto(q, "upsert")
    <3>1. PICK n \in 0..MaxRows :
                  local' = [local EXCEPT ![q].rows = n] /\ Goto(q, "upsert")
      BY <2>2
    <3>2. RequestOK("upsert", [local[q] EXCEPT !.rows = n])
      BY LocalField DEF TypeInv, TypeOK, RequestOK, PC, Checked, HoldsRule, HoldsCal,
                        Writing
    <3> QED BY <1>1, <3>1, <3>2, RequestStep DEF AppendCheck, Goto, TypeInv, TypeOK
  <2> QED BY <1>1, <2>1, <2>2 DEF AppendCheck
<1>2. CASE AppendUpsert(q)
  <2>1. /\ data' \in [Scan -> Triples] /\ label' \in [Scan -> Labels]
        /\ intact' \in [Scan -> BOOLEAN]
    BY <1>2 DEF AppendUpsert, Upsert, Triples, Labels, GateLabel, TypeInv, TypeOK
  <2>2. local[q] \in Local /\ local[q].rows - 1 \in 0..MaxRows
    BY <1>2, PipelineAssumption DEF AppendUpsert, TypeInv, TypeOK, Local
  <2>3. RequestOK("upsert", [local[q] EXCEPT !.rows = @ - 1])
    BY <2>2, LocalField
       DEF TypeInv, TypeOK, RequestOK, PC, Checked, HoldsRule, HoldsCal, Writing
  <2>4. pc' = [pc EXCEPT ![q] = "upsert"]
    BY <1>2 DEF AppendUpsert, TypeInv, TypeOK
  <2> QED BY <1>2, <2>1, <2>3, <2>4, RequestStep DEF AppendUpsert, TypeInv, TypeOK
<1>3. CASE AppendReturn(q)
  BY <1>3, RequestFinish DEF AppendReturn, TypeInv, TypeOK
<1> QED BY <1>1, <1>2, <1>3 DEF AppendStep

LEMMA StatusType == ASSUME TypeInv, NEW q \in Req, StatusStep(q) PROVE TypeInv'
<1> USE DEF scanRow, gateRows, results, versions
<1>1. ASSUME KeepRule(q), NEW p \in {"finalizing", "sealing"}, Goto(q, p)
      PROVE  pc' \in [Req -> PC] /\ local' \in [Req -> Local] /\ MarkHolds'
  <2>1. RequestOK(p, [local[q] EXCEPT !.seen = scanRule[on[q]]])
    BY LocalField DEF TypeInv, TypeOK, RequestOK, PC, Checked, HoldsRule, HoldsCal,
                      Writing
  <2> QED BY <1>1, <2>1, RequestStep DEF KeepRule, Goto
<1>2. ASSUME NEW to \in ScanStatus, UpdateStatus(on[q], to, local[q].seen)
      PROVE  status' \in [Scan -> ScanStatus] /\ scanRule' \in [Scan -> Rule \cup {NoRule}]
  BY <1>2 DEF UpdateStatus, TypeInv, TypeOK, Local
<1>3. CASE FinalizeCheck(q)
  BY <1>3, <1>1, RequestFinish DEF FinalizeCheck, TypeInv, TypeOK
<1>4. CASE FinalizeWrite(q)
  BY <1>4, <1>2, RequestFinish DEF FinalizeWrite, ScanStatus, TypeInv, TypeOK
<1>5. CASE SealCheck(q)
  BY <1>5, <1>1, RequestFinish DEF SealCheck, TypeInv, TypeOK
<1>6. CASE SealWrite(q)
  BY <1>6, <1>2, RequestFinish DEF SealWrite, ScanStatus, TypeInv, TypeOK
<1> QED BY <1>3, <1>4, <1>5, <1>6 DEF StatusStep

LEMMA MarkType == ASSUME TypeInv, NEW q \in Req, MarkStep(q) PROVE TypeInv'
<1> USE DEF scanRow, gateRows, results, versions
<1>a. local[q] \in Local /\ on[q] \in Scan /\ RequestOK(pc[q], local[q])
  BY DEF TypeInv, TypeOK, MarkHolds
<1>b. ASSUME FinishMark(q)
      PROVE  /\ pc' \in [Req -> PC] /\ local' \in [Req -> Local] /\ MarkHolds'
             /\ lock' \in [Scan -> Req \cup {NoReq}]
  BY <1>b, RequestFinish DEF FinishMark, TypeInv, TypeOK
<1>c. ASSUME pc[q] \in Writing \cup {"status"}
      PROVE  /\ local[q].rule \in Rule /\ local[q].cal \in Cal
             /\ local[q].listed \in Triples /\ Decisions(q) \in Labels
  BY <1>a, <1>c, ClassifyType
     DEF RequestOK, HoldsRule, HoldsCal, Writing, Decisions, Local
<1>1. CASE RecomputeCheck(q)
  <2>1. RequestOK("lock", local[q])
    BY <1>a DEF RequestOK, PC, Entry, HoldsRule, HoldsCal, Writing
  <2> QED BY <1>1, <2>1, RequestFinish, RequestGoto DEF RecomputeCheck, Goto, TypeInv, TypeOK
<1>2. CASE MarkLock(q)
  <2>1. RequestOK("get", local[q])
    BY <1>a DEF RequestOK, PC, Critical, HoldsRule, HoldsCal, Writing
  <2> QED BY <1>2, <2>1, RequestGoto DEF MarkLock, Goto, TypeInv, TypeOK
<1>3. CASE MarkCheck(q)
  <2>1. RequestOK("rule", local[q])
    BY <1>a DEF RequestOK, PC, Critical, Preparing, HoldsRule, HoldsCal, Writing
  <2> QED BY <1>3, <2>1, <1>b, RequestGoto DEF MarkCheck, Goto, TypeInv, TypeOK
<1>4. CASE MarkRule(q)
  <2>1. ASSUME NEW r \in Rule, local' = [local EXCEPT ![q].rule = r],
               Goto(q, "calibration"), UNCHANGED lock
        PROVE  /\ pc' \in [Req -> PC] /\ local' \in [Req -> Local] /\ MarkHolds'
               /\ lock' \in [Scan -> Req \cup {NoReq}]
    <3>1. RequestOK("calibration", [local[q] EXCEPT !.rule = r])
      BY <1>a, LocalField
         DEF RequestOK, PC, Critical, Preparing, HoldsRule, HoldsCal, Writing, Local
    <3> QED BY <2>1, <3>1, RequestStep DEF Goto, TypeInv, TypeOK
  <2> QED BY <1>4, <2>1, <1>b DEF MarkRule, TypeInv, TypeOK
<1>5. CASE MarkCalibration(q)
  <2>1. ASSUME NEW c \in Cal, local' = [local EXCEPT ![q].cal = c],
               Goto(q, "list"), UNCHANGED lock
        PROVE  /\ pc' \in [Req -> PC] /\ local' \in [Req -> Local] /\ MarkHolds'
               /\ lock' \in [Scan -> Req \cup {NoReq}]
    <3>1. RequestOK("list", [local[q] EXCEPT !.cal = c])
      BY <1>5, <1>a, LocalField
         DEF MarkCalibration, RequestOK, PC, Critical, Preparing, HoldsRule, HoldsCal,
             Writing, Local
    <3> QED BY <2>1, <3>1, RequestStep DEF Goto, TypeInv, TypeOK
  <2> QED
    BY <1>5, <2>1, <1>a, <1>b, PipelineAssumption DEF MarkCalibration, TypeInv, TypeOK
<1>6. CASE MarkList(q)
  <2>1. ASSUME local' = [local EXCEPT ![q].listed = data[on[q]],
                                      ![q].todo = Present(data[on[q]])],
               Goto(q, "label")
        PROVE  pc' \in [Req -> PC] /\ local' \in [Req -> Local] /\ MarkHolds'
    <3> DEFINE m == [local[q] EXCEPT !.listed = data[on[q]],
                                     !.todo = Present(data[on[q]])]
    <3>2. data[on[q]] \in Triples /\ Present(data[on[q]]) \in SUBSET Gate
      BY <1>a DEF TypeInv, TypeOK, Present
    <3>3. m \in Local /\ m.rule = local[q].rule /\ m.cal = local[q].cal
      BY <1>a, <3>2, LocalField DEF Local
    <3>4. local[q].rule \in Rule /\ local[q].cal \in Cal
      BY <1>6, <1>a DEF MarkList, RequestOK, HoldsRule, HoldsCal
    <3>1. RequestOK("label", m)
      BY <3>3, <3>4 DEF RequestOK, PC, Critical, Writing
    <3> QED BY <2>1, <3>1, RequestStep DEF Goto
  <2> QED BY <1>6, <2>1, <1>a, <1>b DEF MarkList, TypeInv, TypeOK
<1>7. CASE MarkLabel(q)
  <2>1. PICK g \in local[q].todo :
               /\ label' = [label EXCEPT ![on[q]][g] = Decisions(q)[g]]
               /\ local' = [local EXCEPT ![q].todo = @ \ {g}]
               /\ Goto(q, IF local[q].todo = {g} THEN "evidence" ELSE "label")
    BY <1>7 DEF MarkLabel
  <2>2. label' \in [Scan -> Labels]
    BY <1>7, <1>a, <1>c, <2>1 DEF MarkLabel, Labels, Local, Writing, TypeInv, TypeOK
  <2>3. local[q].todo \ {g} \in SUBSET Gate
    BY <1>a DEF Local
  <2>4. \A p \in {"evidence", "label"} :
            RequestOK(p, [local[q] EXCEPT !.todo = @ \ {g}])
    BY <1>7, <1>a, <1>c, <2>3, LocalField
       DEF MarkLabel, RequestOK, PC, Critical, Writing, Local
  <2>5. pc' \in [Req -> PC] /\ local' \in [Req -> Local] /\ MarkHolds'
    BY <2>1, <2>4, RequestStep DEF Goto
  <2> QED BY <1>7, <2>2, <2>5 DEF MarkLabel, TypeInv, TypeOK
<1>8. CASE MarkEvidence(q)
  <2>1. Hits(local[q].rule, Decisions(q), local[q].listed) \in EvidenceBatch
    BY <1>8, <1>c, HitsType DEF MarkEvidence, Writing
  <2>2. evidence' \in [Scan -> Seq(EvidenceBatch)]
    BY <1>8, <1>a, <2>1 DEF MarkEvidence, TypeInv, TypeOK
  <2>3. RequestOK("marks", local[q])
    BY <1>8, <1>a, <1>c DEF MarkEvidence, RequestOK, PC, Critical, Writing
  <2> QED BY <1>8, <2>2, <2>3, RequestGoto DEF MarkEvidence, Goto, TypeInv, TypeOK
<1>9. CASE MarkRecord(q)
  <2>1. [rule |-> local[q].rule, labels |-> Decisions(q)] \in MarkBatch
    BY <1>9, <1>c DEF MarkRecord, MarkBatch, Writing
  <2>2. history' \in [Scan -> Seq(MarkBatch)]
    BY <1>9, <1>a, <2>1 DEF MarkRecord, TypeInv, TypeOK
  <2>3. RequestOK("count", local[q])
    BY <1>9, <1>a, <1>c DEF MarkRecord, RequestOK, PC, Critical, Writing
  <2> QED BY <1>9, <2>2, <2>3, RequestGoto DEF MarkRecord, Goto, TypeInv, TypeOK
<1>10. CASE MarkCount(q)
  <2>1. CountLabels(label[on[q]]) \in Counts
    BY <1>a, CountLabelsType DEF TypeInv, TypeOK
  <2>2. RequestOK("summary", [local[q] EXCEPT !.count = CountLabels(label[on[q]])])
    BY <1>10, <1>a, <1>c, <2>1, LocalField
       DEF MarkCount, RequestOK, PC, Critical, Writing, Local
  <2> QED BY <1>10, <2>2, RequestStep DEF MarkCount, Goto, TypeInv, TypeOK
<1>11. CASE MarkSummary(q)
  <2>1. [rule |-> local[q].rule, count |-> local[q].count] \in Summary
    BY <1>11, <1>a, <1>c DEF MarkSummary, Summary, Local, Writing
  <2>2. summary' \in [Scan -> Summary \cup {NoSummary}]
    BY <1>11, <1>a, <2>1 DEF MarkSummary, UpsertSummary, TypeInv, TypeOK
  <2>3. RequestOK("status", local[q])
    BY <1>11, <1>a, <1>c DEF MarkSummary, RequestOK, PC, Critical, Writing
  <2> QED BY <1>11, <2>2, <2>3, RequestGoto DEF MarkSummary, Goto, TypeInv, TypeOK
<1>12. CASE MarkStatus(q)
  BY <1>12, <1>a, <1>b, <1>c
     DEF MarkStatus, UpdateStatus, ScanStatus, Writing, TypeInv, TypeOK
<1> QED
  BY <1>1, <1>2, <1>3, <1>4, <1>5, <1>6, <1>7, <1>8, <1>9, <1>10, <1>11, <1>12
     DEF MarkStep

LEMMA FailType == ASSUME TypeInv, NEW q \in Req, Fail(q) PROVE TypeInv'
BY RequestFinish
   DEF Fail, Tear, TypeInv, TypeOK, scanRow, gateRows, results, versions

LEMMA CrashType == ASSUME TypeInv, Crash PROVE TypeInv'
<1>1. \A q \in Req : RequestOK(pc[q], Blank) \/ Running(q)
  BY BlankType
     DEF TypeInv, TypeOK, RequestOK, Running, PC, HoldsRule, HoldsCal, Writing
<1>2. RequestOK("done", Blank)
  BY BlankType DEF RequestOK, PC, HoldsRule, HoldsCal, Writing
<1>3. pc' \in [Req -> PC] /\ local' \in [Req -> Local] /\ MarkHolds'
  BY <1>1, <1>2, BlankType DEF Crash, TypeInv, TypeOK, RequestOK, MarkHolds
<1> QED
  BY <1>3 DEF Crash, Tear, TypeInv, TypeOK, scanRow, gateRows, results, versions

LEMMA EnvironmentType == ASSUME TypeInv, Environment PROVE TypeInv'
<1> USE DEF TypeInv, TypeOK, MarkHolds, scanRow, gateRows, results, versions
<1>1. CASE \E r \in Rule : PublishRule(r)
  BY <1>1 DEF PublishRule
<1>2. CASE RetireRule
  BY <1>2 DEF RetireRule
<1>3. CASE \E st \in Station, c \in Cal : PublishCalibration(st, c)
  BY <1>3 DEF PublishCalibration
<1> QED BY <1>1, <1>2, <1>3 DEF Environment

LEMMA StepType == ASSUME TypeInv, [Next]_vars PROVE TypeInv'
<1>1. CASE UNCHANGED vars
  BY <1>1 DEF vars, TypeInv, TypeOK, MarkHolds, scanRow, gateRows, results, versions
<1>2. CASE Next
  BY <1>2, StartType, AppendType, StatusType, MarkType, FailType, CrashType,
     EnvironmentType DEF Next, Step
<1> QED BY <1>1, <1>2

LEMMA TypeInvariant == Spec => []TypeInv
BY InitType, StepType, PTL DEF Spec

\* The tables, the locks and the requests always have their types; TypeInv adds that
\* a Mark never commits without a rule version and a calibration
\* (mark_service.go:63-80).
THEOREM TypeCorrect == Spec => []TypeOK
<1>1. TypeInv => TypeOK
  BY DEF TypeInv
<1> QED BY <1>1, TypeInvariant, PTL

-----------------------------------------------------------------------------
(***************************************************************************)
(* Mutual exclusion: who is between Lock and Unlock owns the mutex.        *)
(***************************************************************************)
LockInv == \A q \in Req : pc[q] \in Critical => lock[on[q]] = q

\* A step of one request touches the pc and the memory of that request only.
LEMMA OthersStay ==
    ASSUME TypeInv, NEW q \in Req, Start(q) \/ Step(q) \/ Fail(q)
    PROVE  /\ on' = on
           /\ \A p \in Req \ {q} : pc'[p] = pc[p] /\ local'[p] = local[p]
<1> USE DEF Goto, Finish, FinishMark, TypeInv, TypeOK
<1>1. CASE Start(q)
  BY <1>1 DEF Start, StartAppend, StartFinalize, StartSeal, StartMark, StartRecompute
<1>2. CASE AppendStep(q)
  BY <1>2 DEF AppendStep, AppendCheck, AppendUpsert, AppendReturn
<1>3. CASE StatusStep(q)
  BY <1>3 DEF StatusStep, FinalizeCheck, FinalizeWrite, SealCheck, SealWrite, KeepRule
<1>4. CASE RecomputeCheck(q) \/ MarkLock(q) \/ MarkCheck(q)
  BY <1>4 DEF RecomputeCheck, MarkLock, MarkCheck
<1>5. CASE MarkRule(q) \/ MarkCalibration(q) \/ MarkList(q)
  BY <1>5 DEF MarkRule, MarkCalibration, MarkList
<1>6. CASE MarkLabel(q) \/ MarkEvidence(q) \/ MarkRecord(q)
  BY <1>6 DEF MarkLabel, MarkEvidence, MarkRecord
<1>7. CASE MarkCount(q) \/ MarkSummary(q) \/ MarkStatus(q)
  BY <1>7 DEF MarkCount, MarkSummary, MarkStatus
<1>8. CASE Fail(q)
  BY <1>8 DEF Fail
<1> QED
  BY <1>1, <1>2, <1>3, <1>4, <1>5, <1>6, <1>7, <1>8 DEF Step, MarkStep

LEMMA LockStep ==
    ASSUME TypeInv, LockInv, NEW q \in Req, Start(q) \/ Step(q) \/ Fail(q)
    PROVE  LockInv'
<1> USE DEF Goto, Finish, FinishMark, TypeInv, TypeOK, LockInv
<1> DEFINE Kept == UNCHANGED lock /\ (pc'[q] \in Critical => pc[q] \in Critical)
           Taken == /\ lock[on[q]] = NoReq /\ pc[q] \notin Critical
                    /\ lock' = [lock EXCEPT ![on[q]] = q]
           Released == /\ pc[q] \in Critical /\ pc'[q] \notin Critical
                       /\ lock' = [lock EXCEPT ![on[q]] = NoReq]
<1>a. on' = on /\ \A p \in Req \ {q} : pc'[p] = pc[p]
  BY OthersStay
<1>1. CASE Kept
  BY <1>1, <1>a
<1>2. CASE Taken
  <2>1. lock'[on[q]] = q
    BY <1>2
  <2>2. ASSUME NEW p \in Req \ {q}, pc[p] \in Critical
        PROVE  on[p] # on[q] /\ lock'[on[p]] = p
    BY <1>2, <2>2, PipelineAssumption
  <2> QED BY <2>1, <2>2, <1>a
<1>3. CASE Released
  <2>1. ASSUME NEW p \in Req \ {q}, pc[p] \in Critical
        PROVE  on[p] # on[q] /\ lock'[on[p]] = p
    BY <1>3, <2>1
  <2> QED BY <1>3, <2>1, <1>a
<1>4. Kept \/ Taken \/ Released
  <2> USE DEF Critical, Preparing, Writing
  <2>1. CASE Start(q)
    BY <2>1 DEF Start, StartAppend, StartFinalize, StartSeal, StartMark, StartRecompute
  <2>2. CASE AppendStep(q)
    BY <2>2 DEF AppendStep, AppendCheck, AppendUpsert, AppendReturn
  <2>3. CASE StatusStep(q)
    BY <2>3
       DEF StatusStep, FinalizeCheck, FinalizeWrite, SealCheck, SealWrite
  <2>4. CASE RecomputeCheck(q) \/ MarkLock(q)
    BY <2>4 DEF RecomputeCheck, MarkLock, Free
  <2>5. CASE MarkCheck(q) \/ MarkRule(q) \/ MarkCalibration(q) \/ MarkList(q)
    <3>1. CASE FinishMark(q)
      BY <2>5, <3>1 DEF MarkCheck, MarkRule, MarkCalibration, MarkList
    <3>2. CASE UNCHANGED lock
      BY <2>5, <3>2 DEF MarkCheck, MarkRule, MarkCalibration, MarkList
    <3> QED BY <2>5, <3>1, <3>2 DEF MarkCheck, MarkRule, MarkCalibration, MarkList
  <2>6. CASE MarkLabel(q) \/ MarkEvidence(q) \/ MarkRecord(q)
    BY <2>6 DEF MarkLabel, MarkEvidence, MarkRecord
  <2>7. CASE MarkCount(q) \/ MarkSummary(q) \/ MarkStatus(q)
    BY <2>7 DEF MarkCount, MarkSummary, MarkStatus
  <2>8. CASE Fail(q)
    BY <2>8 DEF Fail
  <2> QED
    BY <2>1, <2>2, <2>3, <2>4, <2>5, <2>6, <2>7, <2>8 DEF Step, MarkStep
<1> QED BY <1>1, <1>2, <1>3, <1>4

LEMMA LockNext == ASSUME TypeInv, LockInv, [Next]_vars PROVE LockInv'
<1>1. CASE UNCHANGED vars
  BY <1>1 DEF LockInv, vars
<1>2. CASE Crash
  BY <1>2 DEF Crash, LockInv, Running, TypeInv, TypeOK, PC, Critical, Preparing, Writing,
              Entry, Checked
<1>3. CASE Environment
  BY <1>3 DEF LockInv, Environment, PublishRule, RetireRule, PublishCalibration
<1> QED BY <1>1, <1>2, <1>3, LockStep DEF Next

\* The commits of one scan are serialised, whatever requests fail or crash
\* (MarkService, mark_service.go:18-21, 50-52).
THEOREM MarkMutualExclusion == Spec => []CommitsSerialised
<1>1. Init => LockInv
  BY DEF Init, LockInv, Critical, Preparing, Writing
<1>2. LockInv => CommitsSerialised
  BY DEF LockInv, CommitsSerialised
<1> QED BY <1>1, <1>2, LockNext, TypeInvariant, PTL DEF Spec

-----------------------------------------------------------------------------
(***************************************************************************)
(* The rule version of a scan has results.                                 *)
(***************************************************************************)
HasBatch(h, r) ==
    \E i \in DOMAIN h : h[i].rule = r /\ \E g \in Gate : h[i].labels[g] # "none"

\* What a request that will write a rule version into the scan row relies on: the
\* version Finalize and Seal have read, and the version Mark commits, have results.
ResultsReady(q) ==
    /\ pc[q] \in {"finalizing", "sealing"} /\ local[q].seen # NoRule =>
          HasBatch(history[on[q]], local[q].seen) /\ summary[on[q]] # NoSummary
    /\ pc[q] \in Writing \cup {"status"} => Present(local[q].listed) # {}
    /\ pc[q] \in {"count", "summary", "status"} =>
          HasBatch(history[on[q]], local[q].rule)
    /\ pc[q] = "status" => summary[on[q]] # NoSummary

RuleInv == RuleHasResults /\ \A q \in Req : ResultsReady(q)

\* Which actions write quality_marks, rule_hits and scan_summaries.
ResultStep(q) == MarkEvidence(q) \/ MarkRecord(q) \/ MarkSummary(q)

LEMMA OtherStepsKeepResults ==
    ASSUME Next, \A q \in Req : ~ResultStep(q)
    PROVE  UNCHANGED results
<1> USE DEF results
<1>1. ASSUME NEW q \in Req, Start(q) \/ AppendStep(q) \/ StatusStep(q) \/ Fail(q)
      PROVE  UNCHANGED results
  BY <1>1
     DEF Start, StartAppend, StartFinalize, StartSeal, StartMark, StartRecompute,
         AppendStep, AppendCheck, AppendUpsert, AppendReturn, StatusStep,
         FinalizeCheck, FinalizeWrite, SealCheck, SealWrite, Fail
<1>2. ASSUME NEW q \in Req, MarkStep(q)
      PROVE  UNCHANGED results
  BY <1>2
     DEF MarkStep, ResultStep, RecomputeCheck, MarkLock, MarkCheck, MarkRule,
         MarkCalibration, MarkList, MarkLabel, MarkCount, MarkStatus
<1>3. CASE Crash \/ Environment
  BY <1>3 DEF Crash, Environment, PublishRule, RetireRule, PublishCalibration
<1> QED BY <1>1, <1>2, <1>3 DEF Next, Step

\* History and evidence are never rewritten and a summary never disappears.
LEMMA ResultsGrow ==
    ASSUME TypeInv, [Next]_vars, NEW s \in Scan
    PROVE  /\ \A i \in DOMAIN history[s] :
                 i \in DOMAIN history'[s] /\ history'[s][i] = history[s][i]
           /\ \A i \in DOMAIN evidence[s] :
                 i \in DOMAIN evidence'[s] /\ evidence'[s][i] = evidence[s][i]
           /\ summary[s] # NoSummary => summary'[s] # NoSummary
<1>1. CASE UNCHANGED results
  BY <1>1 DEF results
<1>2. ASSUME NEW q \in Req, MarkEvidence(q)
      PROVE  /\ \A i \in DOMAIN evidence[s] :
                   i \in DOMAIN evidence'[s] /\ evidence'[s][i] = evidence[s][i]
             /\ UNCHANGED <<history, summary>>
  BY <1>2 DEF MarkEvidence, TypeInv, TypeOK
<1>3. ASSUME NEW q \in Req, MarkRecord(q)
      PROVE  /\ \A i \in DOMAIN history[s] :
                   i \in DOMAIN history'[s] /\ history'[s][i] = history[s][i]
             /\ UNCHANGED <<evidence, summary>>
  BY <1>3 DEF MarkRecord, TypeInv, TypeOK
<1>4. ASSUME NEW q \in Req, MarkSummary(q)
      PROVE  /\ summary[s] # NoSummary => summary'[s] # NoSummary
             /\ UNCHANGED <<evidence, history>>
  <2>1. local[q].rule \in Rule
    BY <1>4 DEF MarkSummary, TypeInv, MarkHolds, RequestOK, HoldsRule, Writing
  <2> QED BY <1>4, <2>1, PipelineAssumption
          DEF MarkSummary, UpsertSummary, NoSummary, TypeInv, TypeOK
<1>5. CASE UNCHANGED vars
  BY <1>5 DEF vars, results
<1> QED BY <1>1, <1>2, <1>3, <1>4, <1>5, OtherStepsKeepResults DEF ResultStep

LEMMA BatchStays ==
    ASSUME TypeInv, [Next]_vars, NEW s \in Scan, NEW r, HasBatch(history[s], r)
    PROVE  HasBatch(history'[s], r)
BY ResultsGrow DEF HasBatch

\* A listed gate gets a label.
LEMMA PresentIsLabelled ==
    ASSUME NEW r \in Rule, NEW c \in Cal, NEW d \in Triples, NEW g \in Present(d)
    PROVE  Classify(r, c, d)[g] # "none"
BY PipelineAssumption DEF Classify, Present, Triples, Verdict

\* What the acting request relies on holds after its step.
LEMMA ActorReady ==
    ASSUME TypeInv, RuleInv, [Next]_vars, NEW q \in Req,
           Start(q) \/ Step(q) \/ Fail(q)
    PROVE  ResultsReady(q)'
<1> USE DEF Goto, Finish, FinishMark, TypeInv, TypeOK
<1>a. on' = on /\ on[q] \in Scan /\ local[q] \in Local /\ q \in Req
  BY OthersStay
<1>b. ASSUME pc'[q] \notin {"finalizing", "sealing"} \cup Writing \cup {"status"}
      PROVE  ResultsReady(q)'
  BY <1>b DEF ResultsReady, Writing
<1>c. \A r : HasBatch(history[on[q]], r) => HasBatch(history'[on[q]], r)
  BY <1>a, BatchStays
<1>d. summary[on[q]] # NoSummary => summary'[on[q]] # NoSummary
  BY <1>a, ResultsGrow
<1>e. ResultsReady(q)
  BY DEF RuleInv
<1>f. ASSUME pc[q] \in Writing \cup {"status"}
      PROVE  local[q].rule \in Rule /\ local[q].cal \in Cal /\ local[q].listed \in Triples
  BY <1>f DEF MarkHolds, RequestOK, HoldsRule, HoldsCal, Local
<1>1. CASE Start(q)
  BY <1>1, <1>b
     DEF Start, StartAppend, StartFinalize, StartSeal, StartMark, StartRecompute, Writing
<1>2. CASE AppendStep(q)
  BY <1>2, <1>b DEF AppendStep, AppendCheck, AppendUpsert, AppendReturn, Writing
<1>3. CASE StatusStep(q)
  <2>1. CASE KeepRule(q) /\ pc'[q] \in {"finalizing", "sealing"}
    <3>1. local'[q].seen = scanRule[on[q]]
      BY <2>1, <1>a DEF KeepRule, Local
    <3>2. scanRule[on[q]] # NoRule =>
             HasBatch(history[on[q]], scanRule[on[q]]) /\ summary[on[q]] # NoSummary
      BY <1>a DEF RuleInv, RuleHasResults, HasBatch
    <3> QED BY <2>1, <3>1, <3>2, <1>a, <1>c, <1>d DEF ResultsReady, Writing
  <2>2. CASE Finish(q)
    BY <2>2, <1>b DEF Writing
  <2> QED
    BY <1>3, <2>1, <2>2
       DEF StatusStep, FinalizeCheck, FinalizeWrite, SealCheck, SealWrite
<1>4. CASE RecomputeCheck(q) \/ MarkLock(q)
  BY <1>4, <1>b DEF RecomputeCheck, MarkLock, Writing
<1>5. CASE MarkCheck(q) \/ MarkRule(q) \/ MarkCalibration(q)
  <2>1. pc'[q] \in {"done", "rule", "calibration", "list"}
    BY <1>5 DEF MarkCheck, MarkRule, MarkCalibration
  <2> QED BY <2>1, <1>b DEF Writing
<1>6. CASE MarkList(q)
  <2>1. CASE FinishMark(q)
    BY <2>1, <1>b DEF Writing
  <2>2. CASE /\ Present(data[on[q]]) # {}
             /\ local' = [local EXCEPT ![q].listed = data[on[q]],
                                       ![q].todo = Present(data[on[q]])]
             /\ Goto(q, "label")
    <3>1. pc'[q] = "label" /\ local'[q].listed = data[on[q]]
      BY <2>2, <1>a DEF Local
    <3>2. Present(local[q].listed)' = Present(data[on[q]])
      BY <3>1 DEF Present
    <3> QED BY <2>2, <3>1, <3>2 DEF ResultsReady
  <2> QED BY <1>6, <2>1, <2>2 DEF MarkList
<1>7. CASE MarkLabel(q)
  <2>1. pc'[q] \in {"label", "evidence"} /\ local'[q].listed = local[q].listed
    BY <1>7, <1>a DEF MarkLabel, Local
  <2> QED BY <1>7, <2>1, <1>e DEF MarkLabel, ResultsReady, Writing
<1>8. CASE MarkEvidence(q)
  <2>1. pc'[q] = "marks" /\ local' = local
    BY <1>8 DEF MarkEvidence
  <2> QED BY <1>8, <2>1, <1>e DEF MarkEvidence, ResultsReady, Writing
<1>9. CASE MarkRecord(q)
  <2>1. pc'[q] = "count" /\ local' = local
    BY <1>9 DEF MarkRecord
  <2>2. PICK g \in Gate : g \in Present(local[q].listed)
    BY <1>9, <1>e DEF MarkRecord, ResultsReady, Writing, Present
  <2>3. Decisions(q)[g] # "none"
    BY <1>9, <2>2, <1>f, PresentIsLabelled DEF MarkRecord, Decisions, Writing
  <2>4. HasBatch(history'[on[q]], local[q].rule)
    <3> DEFINE batch == [rule |-> local[q].rule, labels |-> Decisions(q)]
               n == Len(history[on[q]]) + 1
    <3>1. history'[on[q]] = Append(history[on[q]], batch)
      BY <1>9, <1>a DEF MarkRecord
    <3>2. n \in DOMAIN history'[on[q]] /\ history'[on[q]][n] = batch
      BY <3>1, <1>a
    <3>3. batch.rule = local[q].rule /\ batch.labels[g] # "none"
      BY <2>3
    <3> QED BY <3>2, <3>3 DEF HasBatch
  <2> QED BY <1>9, <2>1, <2>4, <1>a, <1>e DEF MarkRecord, ResultsReady, Writing
<1>10. CASE MarkCount(q)
  <2>1. /\ pc'[q] = "summary" /\ local'[q].listed = local[q].listed
        /\ local'[q].rule = local[q].rule
    BY <1>10, <1>a DEF MarkCount, Local
  <2>2. Present(local[q].listed)' # {}
    BY <1>10, <2>1, <1>e DEF MarkCount, ResultsReady, Writing, Present
  <2> QED BY <1>10, <2>1, <2>2, <1>a, <1>c, <1>e DEF MarkCount, ResultsReady
<1>11. CASE MarkSummary(q)
  <2>1. pc'[q] = "status" /\ local' = local
    BY <1>11 DEF MarkSummary
  <2>2. summary'[on[q]] # NoSummary
    BY <1>11, <1>a, <1>f, PipelineAssumption
       DEF MarkSummary, UpsertSummary, NoSummary, Writing
  <2> QED
    BY <1>11, <2>1, <2>2, <1>a, <1>c, <1>e DEF MarkSummary, ResultsReady, Writing
<1>12. CASE MarkStatus(q)
  BY <1>12, <1>b DEF MarkStatus, Writing
<1>13. CASE Fail(q)
  BY <1>13, <1>b DEF Fail, Writing
<1> QED
  BY <1>1, <1>2, <1>3, <1>4, <1>5, <1>6, <1>7, <1>8, <1>9, <1>10, <1>11, <1>12, <1>13
     DEF Step, MarkStep

\* Which actions write the scan row.
ScanRowStep(q) == FinalizeWrite(q) \/ SealWrite(q) \/ MarkStatus(q)

LEMMA OtherStepsKeepScanRow ==
    ASSUME Next, \A q \in Req : ~ScanRowStep(q)
    PROVE  UNCHANGED scanRow
<1> USE DEF scanRow
<1>1. ASSUME NEW q \in Req, Start(q) \/ AppendStep(q) \/ StatusStep(q) \/ Fail(q)
      PROVE  UNCHANGED scanRow
  BY <1>1
     DEF Start, StartAppend, StartFinalize, StartSeal, StartMark, StartRecompute,
         AppendStep, AppendCheck, AppendUpsert, AppendReturn, StatusStep,
         ScanRowStep, FinalizeCheck, SealCheck, Fail
<1>2. ASSUME NEW q \in Req, MarkStep(q)
      PROVE  UNCHANGED scanRow
  BY <1>2
     DEF MarkStep, ScanRowStep, RecomputeCheck, MarkLock, MarkCheck, MarkRule,
         MarkCalibration, MarkList, MarkLabel, MarkEvidence, MarkRecord, MarkCount,
         MarkSummary
<1>3. CASE Crash \/ Environment
  BY <1>3 DEF Crash, Environment, PublishRule, RetireRule, PublishCalibration
<1> QED BY <1>1, <1>2, <1>3 DEF Next, Step

\* What RuleHasResults says of one scan.
RowHasResults(st, r, h, sum) ==
    /\ st = "marked" => r # NoRule
    /\ r # NoRule => sum # NoSummary /\ HasBatch(h, r)

LEMMA RowsHaveResults ==
    RuleHasResults <=>
        \A s \in Scan : RowHasResults(status[s], scanRule[s], history[s], summary[s])
BY DEF RuleHasResults, RowHasResults, HasBatch

LEMMA ScanRowReady ==
    ASSUME TypeInv, RuleInv, [Next]_vars PROVE RuleHasResults'
<1>1. SUFFICES ASSUME NEW s \in Scan
               PROVE  RowHasResults(status'[s], scanRule'[s], history'[s], summary'[s])
  BY DEF RuleHasResults, RowHasResults, HasBatch
<1>2. RowHasResults(status[s], scanRule[s], history[s], summary[s])
  BY RowsHaveResults DEF RuleInv
<1>3. ASSUME NEW r, HasBatch(history[s], r), summary[s] # NoSummary
      PROVE  HasBatch(history'[s], r) /\ summary'[s] # NoSummary
  BY <1>3, BatchStays, ResultsGrow
<1>4. CASE status'[s] = status[s] /\ scanRule'[s] = scanRule[s]
  BY <1>2, <1>3, <1>4 DEF RowHasResults
<1>5. ASSUME NEW q \in Req, ScanRowStep(q)
      PROVE  RowHasResults(status'[s], scanRule'[s], history'[s], summary'[s])
  <2>1. CASE s # on[q]
    BY <1>4, <1>5, <2>1
       DEF ScanRowStep, FinalizeWrite, SealWrite, MarkStatus, UpdateStatus, TypeInv, TypeOK
  <2>2. CASE s = on[q] /\ (FinalizeWrite(q) \/ SealWrite(q))
    <3>1. status'[s] # "marked" /\ scanRule'[s] = local[q].seen
      BY <2>2 DEF FinalizeWrite, SealWrite, UpdateStatus, TypeInv, TypeOK
    <3>2. local[q].seen # NoRule =>
             HasBatch(history[s], local[q].seen) /\ summary[s] # NoSummary
      BY <2>2 DEF RuleInv, ResultsReady, FinalizeWrite, SealWrite
    <3> QED BY <3>1, <3>2, <1>3 DEF RowHasResults
  <2>3. CASE s = on[q] /\ MarkStatus(q)
    <3>1. scanRule'[s] = local[q].rule
      BY <2>3 DEF MarkStatus, UpdateStatus, TypeInv, TypeOK
    <3>2. local[q].rule # NoRule
      BY <2>3, PipelineAssumption DEF MarkStatus, TypeInv, MarkHolds, RequestOK, HoldsRule
    <3>3. HasBatch(history[s], local[q].rule) /\ summary[s] # NoSummary
      BY <2>3 DEF RuleInv, ResultsReady, MarkStatus
    <3> QED BY <3>1, <3>2, <3>3, <1>3 DEF RowHasResults
  <2> QED BY <1>5, <2>1, <2>2, <2>3 DEF ScanRowStep
<1>6. CASE UNCHANGED vars
  BY <1>4, <1>6 DEF vars, scanRow
<1> QED BY <1>4, <1>5, <1>6, OtherStepsKeepScanRow DEF scanRow

LEMMA RuleNext == ASSUME TypeInv, RuleInv, [Next]_vars PROVE RuleInv'
<1>1. ASSUME NEW q \in Req, pc'[q] = pc[q], local'[q] = local[q], on' = on
      PROVE  ResultsReady(q)'
  <2>1. on[q] \in Scan /\ ResultsReady(q)
    BY DEF RuleInv, TypeInv, TypeOK
  <2>2. \A r : HasBatch(history[on[q]], r) => HasBatch(history'[on[q]], r)
    BY <2>1, BatchStays
  <2>3. summary[on[q]] # NoSummary => summary'[on[q]] # NoSummary
    BY <2>1, ResultsGrow
  <2> QED BY <1>1, <2>1, <2>2, <2>3 DEF ResultsReady
<1>2. ASSUME NEW q \in Req, Start(q) \/ Step(q) \/ Fail(q)
      PROVE  \A p \in Req : ResultsReady(p)'
  BY <1>1, <1>2, OthersStay, ActorReady
<1>3. CASE Crash
  <2>1. \A q \in Req : pc'[q] \in {"new", "done"}
    BY <1>3 DEF Crash, Running, TypeInv, TypeOK
  <2> QED BY <2>1, <1>3, ScanRowReady DEF RuleInv, ResultsReady, Writing
<1>4. CASE Environment \/ UNCHANGED vars
  <2>1. UNCHANGED <<pc, local, on>>
    BY <1>4 DEF Environment, PublishRule, RetireRule, PublishCalibration, vars
  <2> QED BY <2>1, <1>1, ScanRowReady DEF RuleInv
<1> QED BY <1>2, <1>3, <1>4, ScanRowReady DEF Next, RuleInv

\* A scan row names a rule version only if that version has left a summary and a
\* batch of marks for the scan, even though Finalize and Seal write back what they
\* read before other requests committed (ingest.go:134, scan_service.go:60).
THEOREM RuleOfScanHasResults == Spec => []RuleHasResults
<1>1. Init => RuleInv
  BY DEF Init, RuleInv, RuleHasResults, ResultsReady, Writing
<1>2. RuleInv => RuleHasResults
  BY DEF RuleInv
<1> QED BY <1>1, <1>2, RuleNext, TypeInvariant, PTL DEF Spec

-----------------------------------------------------------------------------
(***************************************************************************)
(* A sealed scan nobody is still working on is frozen.                     *)
(***************************************************************************)
\* A step of a request leaves the other scans alone.
LEMMA OtherScansStay ==
    ASSUME TypeInv, NEW q \in Req, Start(q) \/ Step(q) \/ Fail(q),
           NEW s \in Scan \ {on[q]}
    PROVE  ScanFrozen(s)
<1> USE DEF TypeInv, TypeOK, ScanFrozen, scanRow, gateRows, results, versions
<1>1. CASE Start(q)
  BY <1>1 DEF Start, StartAppend, StartFinalize, StartSeal, StartMark, StartRecompute
<1>2. CASE AppendStep(q)
  BY <1>2 DEF AppendStep, AppendCheck, AppendUpsert, AppendReturn, Upsert
<1>3. CASE StatusStep(q)
  BY <1>3 DEF StatusStep, FinalizeCheck, FinalizeWrite, SealCheck, SealWrite, UpdateStatus
<1>4. CASE RecomputeCheck(q) \/ MarkLock(q) \/ MarkCheck(q) \/ MarkRule(q)
  BY <1>4 DEF RecomputeCheck, MarkLock, MarkCheck, MarkRule
<1>5. CASE MarkCalibration(q) \/ MarkList(q) \/ MarkLabel(q)
  BY <1>5 DEF MarkCalibration, MarkList, MarkLabel
<1>6. CASE MarkEvidence(q) \/ MarkRecord(q) \/ MarkCount(q)
  BY <1>6 DEF MarkEvidence, MarkRecord, MarkCount
<1>7. CASE MarkSummary(q) \/ MarkStatus(q)
  BY <1>7 DEF MarkSummary, UpsertSummary, MarkStatus, UpdateStatus
<1>8. CASE Fail(q)
  BY <1>8 DEF Fail
<1> QED BY <1>1, <1>2, <1>3, <1>4, <1>5, <1>6, <1>7, <1>8 DEF Step, MarkStep

\* On a settled scan a request finds the scan sealed, or does not reach a write.
LEMMA SettledScanStays ==
    ASSUME TypeInv, NEW q \in Req, Start(q) \/ Step(q) \/ Fail(q), Settled(on[q])
    PROVE  ScanFrozen(on[q]) /\ pc'[q] \notin Past
<1> USE DEF TypeInv, TypeOK, ScanFrozen, scanRow, gateRows, results, versions, Goto,
            Finish, FinishMark
<1>a. status[on[q]] = "sealed" /\ pc[q] \notin Past
  BY DEF Settled
<1>1. CASE Start(q)
  BY <1>1
     DEF Start, StartAppend, StartFinalize, StartSeal, StartMark, StartRecompute, Past,
         Checked, Preparing, Writing
<1>2. CASE AppendStep(q)
  BY <1>a, <1>2
     DEF AppendStep, AppendCheck, AppendUpsert, AppendReturn, RefusesGates, Past,
         Checked, Preparing, Writing
<1>3. CASE StatusStep(q)
  BY <1>a, <1>3
     DEF StatusStep, FinalizeCheck, FinalizeWrite, SealCheck, SealWrite, Past,
         Checked, Preparing, Writing
<1>4. CASE RecomputeCheck(q) \/ MarkLock(q) \/ MarkCheck(q)
  BY <1>a, <1>4
     DEF RecomputeCheck, MarkLock, MarkCheck, Past, Checked, Preparing, Writing
<1>5. CASE Fail(q)
  BY <1>5 DEF Fail, Past, Checked, Preparing, Writing
<1>6. ~ (\/ MarkRule(q) \/ MarkCalibration(q) \/ MarkList(q) \/ MarkLabel(q)
         \/ MarkEvidence(q) \/ MarkRecord(q) \/ MarkCount(q) \/ MarkSummary(q)
         \/ MarkStatus(q))
  BY <1>a
     DEF MarkRule, MarkCalibration, MarkList, MarkLabel, MarkEvidence, MarkRecord,
         MarkCount, MarkSummary, MarkStatus, Past, Preparing, Writing
<1> QED BY <1>1, <1>2, <1>3, <1>4, <1>5, <1>6 DEF Step, MarkStep

LEMMA SettledNext ==
    ASSUME TypeInv, [Next]_vars, NEW s \in Scan, Settled(s)
    PROVE  Settled(s)' /\ ScanFrozen(s)
<1>1. ASSUME NEW q \in Req, Start(q) \/ Step(q) \/ Fail(q)
      PROVE  Settled(s)' /\ ScanFrozen(s)
  <2>1. ScanFrozen(s)
    BY <1>1, OtherScansStay, SettledScanStays
  <2>2. on' = on /\ \A p \in Req \ {q} : pc'[p] = pc[p]
    BY <1>1, OthersStay
  <2>3. on[q] = s => pc'[q] \notin Past
    BY <1>1, SettledScanStays
  <2> QED BY <2>1, <2>2, <2>3 DEF Settled, ScanFrozen
<1>2. CASE Crash
  <2>1. \A q \in Req : pc'[q] = pc[q] \/ pc'[q] = "done"
    BY <1>2 DEF Crash, TypeInv, TypeOK
  <2> QED
    BY <1>2, <2>1
       DEF Crash, Settled, ScanFrozen, Past, Checked, Preparing, Writing, scanRow,
           gateRows, results
<1>3. CASE Environment \/ UNCHANGED vars
  BY <1>3
     DEF Environment, PublishRule, RetireRule, PublishCalibration, vars, Settled,
         ScanFrozen, scanRow, gateRows, results
<1> QED BY <1>1, <1>2, <1>3 DEF Next

\* A sealed scan is frozen for ever from the moment the requests that had passed
\* their status check before the seal are over (scan_service.go:47-65,
\* ingest.go:84-89, mark_service.go:58-60).
THEOREM SealedScanIsFrozen == Spec => SettledIsFrozen
<1>1. TypeInv /\ [Next]_vars =>
        [\A s \in Scan : Settled(s) => Settled(s)' /\ ScanFrozen(s)]_vars
  BY SettledNext
<1> QED BY <1>1, TypeInvariant, PTL DEF Spec, SettledIsFrozen

-----------------------------------------------------------------------------
(***************************************************************************)
(* The evidence behind the history.                                        *)
(***************************************************************************)
Backed(e, r, lbl) ==
    \A g \in Gate : IsHit(lbl, g) =>
        \E j \in DOMAIN e : e[j].rule = r /\ e[j].hits[g] = lbl[g]

\* Between the evidence and the history of a Mark, the evidence is already there.
EvidenceInv ==
    /\ EvidenceBacksHistory
    /\ \A q \in Req : pc[q] = "marks" =>
          Backed(evidence[on[q]], local[q].rule, Decisions(q))

LEMMA EvidenceIsBacked ==
    EvidenceBacksHistory <=>
        \A s \in Scan : \A i \in DOMAIN history[s] :
            Backed(evidence[s], history[s][i].rule, history[s][i].labels)
BY DEF EvidenceBacksHistory, Backed

LEMMA BackedStays ==
    ASSUME TypeInv, [Next]_vars, NEW s \in Scan, NEW r, NEW lbl,
           Backed(evidence[s], r, lbl)
    PROVE  Backed(evidence'[s], r, lbl)
BY ResultsGrow DEF Backed

LEMMA EvidenceNext == ASSUME TypeInv, EvidenceInv, [Next]_vars PROVE EvidenceInv'
<1> DEFINE Covered(s) ==
        \A i \in DOMAIN history'[s] :
            Backed(evidence'[s], history'[s][i].rule, history'[s][i].labels)
<1>a. \A s \in Scan : \A i \in DOMAIN history[s] :
          Backed(evidence[s], history[s][i].rule, history[s][i].labels)
  BY EvidenceIsBacked DEF EvidenceInv
<1>b. ASSUME NEW s \in Scan, history'[s] = history[s]
      PROVE  Covered(s)
  BY <1>a, <1>b, BackedStays
<1>c. ASSUME NEW q \in Req, pc'[q] = pc[q], local'[q] = local[q], on' = on,
             pc'[q] = "marks"
      PROVE  Backed(evidence'[on[q]], local[q].rule, Decisions(q))
  BY <1>c, BackedStays DEF EvidenceInv, TypeInv, TypeOK
<1>d. ASSUME NEW q \in Req, Start(q) \/ Step(q) \/ Fail(q)
      PROVE  /\ pc'[q] = "marks" => MarkEvidence(q)
             /\ MarkRecord(q) \/ UNCHANGED history
  <2> USE DEF TypeInv, TypeOK, Goto, Finish, FinishMark, results
  <2>1. CASE Start(q)
    BY <2>1
       DEF Start, StartAppend, StartFinalize, StartSeal, StartMark, StartRecompute
  <2>2. CASE AppendStep(q)
    BY <2>2 DEF AppendStep, AppendCheck, AppendUpsert, AppendReturn
  <2>3. CASE StatusStep(q)
    BY <2>3 DEF StatusStep, FinalizeCheck, FinalizeWrite, SealCheck, SealWrite
  <2>4. CASE RecomputeCheck(q) \/ MarkLock(q) \/ MarkCheck(q) \/ MarkRule(q)
    BY <2>4 DEF RecomputeCheck, MarkLock, MarkCheck, MarkRule
  <2>5. CASE MarkCalibration(q) \/ MarkList(q) \/ MarkLabel(q)
    BY <2>5 DEF MarkCalibration, MarkList, MarkLabel
  <2>6. CASE MarkEvidence(q) \/ MarkRecord(q) \/ MarkCount(q)
    BY <2>6 DEF MarkEvidence, MarkRecord, MarkCount
  <2>7. CASE MarkSummary(q) \/ MarkStatus(q)
    BY <2>7 DEF MarkSummary, UpsertSummary, MarkStatus
  <2>8. CASE Fail(q)
    BY <2>8 DEF Fail
  <2> QED
    BY <1>d, <2>1, <2>2, <2>3, <2>4, <2>5, <2>6, <2>7, <2>8 DEF Step, MarkStep
<1>e. ASSUME NEW q \in Req, MarkEvidence(q)
      PROVE  Backed(evidence'[on[q]], local[q].rule, Decisions(q))
  <2> DEFINE b == Hits(local[q].rule, Decisions(q), local[q].listed)
             n == Len(evidence[on[q]]) + 1
  <2>1. CASE \E g \in Gate : IsHit(Decisions(q), g)
    <3>1. evidence'[on[q]] = Append(evidence[on[q]], b)
      BY <1>e, <2>1 DEF MarkEvidence, TypeInv, TypeOK
    <3>2. n \in DOMAIN evidence'[on[q]] /\ evidence'[on[q]][n] = b
      BY <3>1 DEF TypeInv, TypeOK
    <3>3. /\ b.rule = local[q].rule
          /\ \A g \in Gate : IsHit(Decisions(q), g) => b.hits[g] = Decisions(q)[g]
      BY DEF Hits
    <3> HIDE DEF b
    <3> QED BY <3>2, <3>3 DEF Backed
  <2>2. CASE ~ \E g \in Gate : IsHit(Decisions(q), g)
    BY <2>2 DEF Backed
  <2> QED BY <2>1, <2>2
<1>f. ASSUME NEW q \in Req, MarkRecord(q), NEW s \in Scan
      PROVE  Covered(s)
  <2>1. CASE s # on[q]
    BY <1>b, <1>f, <2>1 DEF MarkRecord, TypeInv, TypeOK
  <2>2. CASE s = on[q]
    <3> DEFINE b == [rule |-> local[q].rule, labels |-> Decisions(q)]
    <3>1. history'[s] = Append(history[s], b) /\ evidence' = evidence
      BY <1>f, <2>2 DEF MarkRecord, TypeInv, TypeOK
    <3>2. Backed(evidence'[s], b.rule, b.labels)
      BY <1>f, <2>2, <3>1 DEF MarkRecord, EvidenceInv
    <3>3. history[s] \in Seq(MarkBatch)
      BY DEF TypeInv, TypeOK
    <3>4. \A i \in DOMAIN history'[s] :
              \/ i \in DOMAIN history[s] /\ history'[s][i] = history[s][i]
              \/ history'[s][i] = b
      BY <3>1, <3>3
    <3> HIDE DEF b
    <3> QED BY <1>a, <3>1, <3>2, <3>4
  <2> QED BY <2>1, <2>2
<1>1. ASSUME NEW q \in Req, Start(q) \/ Step(q) \/ Fail(q)
      PROVE  EvidenceInv'
  <2>1. \A s \in Scan : Covered(s)
    BY <1>1, <1>b, <1>d, <1>f
  <2>2. ASSUME NEW p \in Req, pc'[p] = "marks"
        PROVE  Backed(evidence'[on'[p]], local'[p].rule, Decisions(p)')
    <3>1. on' = on
      BY <1>1, OthersStay
    <3>2. local'[p] = local[p]
      BY <1>1, <1>d, <2>2, OthersStay DEF MarkEvidence
    <3>3. Decisions(p)' = Decisions(p)
      BY <3>2 DEF Decisions
    <3> QED BY <1>1, <1>c, <1>d, <1>e, <2>2, <3>1, <3>2, <3>3, OthersStay
  <2> QED BY <2>1, <2>2 DEF EvidenceInv, EvidenceBacksHistory, Backed
<1>2. CASE Crash
  <2>1. \A q \in Req : pc'[q] # "marks"
    BY <1>2 DEF Crash, Running, TypeInv, TypeOK
  <2>2. UNCHANGED <<history, evidence>>
    BY <1>2 DEF Crash, results
  <2> QED BY <2>1, <2>2 DEF EvidenceInv, EvidenceBacksHistory
<1>3. CASE Environment \/ UNCHANGED vars
  <2>1. UNCHANGED <<history, evidence, pc, on, local>>
    BY <1>3
       DEF Environment, PublishRule, RetireRule, PublishCalibration, vars, results
  <2> QED BY <2>1 DEF EvidenceInv, EvidenceBacksHistory, Decisions
<1> QED BY <1>1, <1>2, <1>3 DEF Next

\* Each label of the history that is not valid has evidence of the same rule version
\* behind it: the evidence is committed first and never removed (recorder.go:2,
\* mark_service.go:135-144).
THEOREM HistoryHasEvidence == Spec => []EvidenceBacksHistory
<1>1. Init => EvidenceInv
  BY DEF Init, EvidenceInv, EvidenceBacksHistory
<1>2. EvidenceInv => EvidenceBacksHistory
  BY DEF EvidenceInv
<1> QED BY <1>1, <1>2, EvidenceNext, TypeInvariant, PTL DEF Spec

-----------------------------------------------------------------------------
(***************************************************************************)
(* What one undisturbed Mark leaves behind belongs together: the proof of  *)
(* IntactIsConsistent.  The invariant follows a Mark through its writes:   *)
(* what it has written so far is the part it has got to of the consistent  *)
(* result, as long as the scan is intact.                                  *)
(***************************************************************************)
\* A row has a label exactly when it exists.
RowsMatch(s) == \A g \in Gate : label[s][g] = "none" <=> data[s][g] = Absent

HitsWritten(s, r, lbl, d) ==
    (\E g \in Gate : IsHit(lbl, g)) =>
        evidence[s] # <<>> /\ evidence[s][Len(evidence[s])] = Hits(r, lbl, d)

MarksWritten(s, r, lbl) ==
    history[s] # <<>> /\ history[s][Len(history[s])] = [rule |-> r, labels |-> lbl]

\* What a Mark has written so far, while nobody else writes to its scan.
Faithful(q) ==
    /\ local[q].listed = data[on[q]]
    /\ \A g \in Gate \ local[q].todo : label[on[q]][g] = Decisions(q)[g]
    /\ pc[q] \in {"marks", "count", "summary"} =>
          HitsWritten(on[q], local[q].rule, Decisions(q), data[on[q]])
    /\ pc[q] \in {"count", "summary"} =>
          MarksWritten(on[q], local[q].rule, Decisions(q))
    /\ pc[q] = "summary" => local[q].count = CountLabels(label[on[q]])

\* A Mark only labels gates that it has listed and that are still there.
Underway(q) ==
    /\ local[q].todo \subseteq Present(local[q].listed)
    /\ local[q].todo \subseteq Present(data[on[q]])
    /\ pc[q] # "label" => local[q].todo = {}
    /\ intact[on[q]] => Faithful(q)

Writer(s) == \E q \in Req : on[q] = s /\ pc[q] \in Writing

ScanInv(s) ==
    /\ RowsMatch(s)
    /\ \A q \in Req : on[q] = s /\ pc[q] \in Writing => Underway(q)
    /\ intact[s] /\ ~Writer(s) => Consistent(s)

ResultsInv == \A s \in Scan : ScanInv(s)

\* A step leaves what is stored for the scan alone.
ScanRowsKept(s) ==
    /\ data'[s] = data[s] /\ label'[s] = label[s]
    /\ evidence'[s] = evidence[s] /\ history'[s] = history[s]
    /\ summary'[s] = summary[s]

-----------------------------------------------------------------------------
\* What was appended last is found at the end.
LEMMA AppendLast ==
    ASSUME NEW S, NEW t \in Seq(S), NEW e \in S
    PROVE  /\ Append(t, e) # <<>>
           /\ Append(t, e)[Len(Append(t, e))] = e
OBVIOUS

\* A listed gate is never left without a label.
LEMMA LabelledIffPresent ==
    ASSUME NEW r \in Rule, NEW c \in Cal, NEW d \in Triples, NEW g \in Gate
    PROVE  Classify(r, c, d)[g] = "none" <=> d[g] = Absent
<1>1. CASE d[g] = Absent
  BY <1>1, PipelineAssumption DEF Classify
<1>2. CASE d[g] # Absent
  BY <1>2, PresentIsLabelled DEF Present
<1> QED
  BY <1>1, <1>2

\* A scan whose rows a step does not touch keeps its invariant, if the step lets
\* nobody begin to write there and nobody stop half way unnoticed.
LEMMA ScanFrame ==
    ASSUME TypeInv, NEW s \in Scan, ScanInv(s), on' = on, ScanRowsKept(s),
           intact'[s] => intact[s] /\ (Writer(s) => Writer(s)'),
           \A q \in Req : on[q] = s /\ pc'[q] \in Writing =>
               pc'[q] = pc[q] /\ local'[q] = local[q]
    PROVE  ScanInv(s)'
<1>1. RowsMatch(s)'
  BY DEF ScanInv, RowsMatch, ScanRowsKept
<1>2. ASSUME NEW q \in Req, on'[q] = s, pc'[q] \in Writing
      PROVE  Underway(q)'
  <2>1. Underway(q) /\ pc'[q] = pc[q] /\ local'[q] = local[q] /\ on[q] = s
    BY <1>2 DEF ScanInv
  <2>2. Decisions(q)' = Decisions(q)
    BY <2>1 DEF Decisions
  <2> QED
    BY <2>1, <2>2
       DEF Underway, Faithful, HitsWritten, MarksWritten, ScanRowsKept
<1>3. ASSUME intact'[s], ~Writer(s)'
      PROVE  Consistent(s)'
  <2>1. Consistent(s)
    BY <1>3 DEF ScanInv
  <2> QED
    BY <2>1 DEF Consistent, ScanRowsKept
<1> QED
  BY <1>1, <1>2, <1>3 DEF ScanInv

\* A step of a request on another scan.
LEMMA Elsewhere ==
    ASSUME TypeInv, NEW q \in Req, Start(q) \/ Step(q) \/ Fail(q),
           NEW s \in Scan, s # on[q], ScanInv(s), ScanRowsKept(s),
           intact'[s] = intact[s]
    PROVE  ScanInv(s)'
<1>1. on' = on /\ \A p \in Req \ {q} : pc'[p] = pc[p] /\ local'[p] = local[p]
  BY OthersStay
<1>2. Writer(s) => Writer(s)'
  BY <1>1 DEF Writer
<1> QED
  BY <1>1, <1>2, ScanFrame

\* A step by which a Mark goes on writing: it is the only one on its scan.
LEMMA GoesOn ==
    ASSUME TypeInv, LockInv, NEW q \in Req, Step(q), pc[q] \in Critical,
           pc'[q] \in Writing, RowsMatch(on[q])', Underway(q)'
    PROVE  ScanInv(on[q])'
<1>1. on' = on /\ \A p \in Req \ {q} : pc'[p] = pc[p] /\ local'[p] = local[p]
  BY OthersStay
<1>2. \A p \in Req : on[p] = on[q] /\ pc'[p] \in Writing => p = q
  BY <1>1 DEF LockInv, Critical
<1>3. Writer(on[q])'
  BY <1>1 DEF Writer
<1> QED
  BY <1>1, <1>2, <1>3 DEF ScanInv

-----------------------------------------------------------------------------
(***************************************************************************)
(* The steps that change what is stored for a scan.                        *)
(***************************************************************************)
LEMMA UpsertStep ==
    ASSUME TypeInv, NEW q \in Req, ScanInv(on[q]), AppendUpsert(q)
    PROVE  ScanInv(on[q])'
<1> DEFINE s == on[q]
<1>1. PICK h \in Gate, v \in Value \cup {Missing} : Upsert(s, h, v)
  BY DEF AppendUpsert
<1>2. /\ s \in Scan /\ pc[q] = "upsert" /\ pc' = pc /\ on' = on
      /\ \A p \in Req : p # q => local'[p] = local[p]
  BY DEF AppendUpsert, TypeInv, TypeOK
<1>3. ~intact'[s]
  BY <1>1, <1>2 DEF Upsert, TypeInv, TypeOK
<1>4. /\ \A g \in Gate : g # h => data'[s][g] = data[s][g] /\ label'[s][g] = label[s][g]
      /\ data'[s][h] = v /\ label'[s][h] # "none"
  BY <1>1, <1>2 DEF Upsert, TypeInv, TypeOK, Triples, Labels
<1>5. v # Absent
  BY PipelineAssumption
<1>6. RowsMatch(s)'
  BY <1>2, <1>4, <1>5 DEF ScanInv, RowsMatch
<1>7. Present(data[s]) \subseteq Present(data'[s])
  BY <1>4, <1>5 DEF Present
<1>8. ASSUME NEW p \in Req, on[p] = s, pc[p] \in Writing
      PROVE  Underway(p)'
  <2>1. Underway(p) /\ local'[p] = local[p]
    BY <1>2, <1>8 DEF ScanInv, Writing
  <2> QED
    BY <1>2, <1>3, <1>7, <1>8, <2>1 DEF Underway
<1> QED
  BY <1>2, <1>3, <1>6, <1>8 DEF ScanInv

LEMMA ListStep ==
    ASSUME TypeInv, LockInv, NEW q \in Req, ScanInv(on[q]), MarkList(q),
           Present(data[on[q]]) # {}
    PROVE  ScanInv(on[q])'
<1> DEFINE s == on[q]
<1>1. /\ pc[q] = "list" /\ pc'[q] = "label" /\ on' = on /\ s \in Scan
      /\ data' = data /\ label' = label
      /\ local'[q].listed = data[s] /\ local'[q].todo = Present(data[s])
      /\ local'[q].rule = local[q].rule /\ local'[q].cal = local[q].cal
  BY DEF MarkList, Goto, gateRows, TypeInv, TypeOK, Local
<1>2. RowsMatch(s)'
  BY <1>1 DEF ScanInv, RowsMatch
<1>3. local[q].rule \in Rule /\ local[q].cal \in Cal /\ data[s] \in Triples
  BY <1>1 DEF TypeInv, TypeOK, MarkHolds, RequestOK, HoldsRule, HoldsCal
<1>4. Decisions(q)' = Classify(local[q].rule, local[q].cal, data[s])
  BY <1>1 DEF Decisions
<1>5. \A g \in Gate \ Present(data[s]) : label[s][g] = Decisions(q)'[g]
  BY <1>3, <1>4, LabelledIffPresent DEF Present, ScanInv, RowsMatch
<1>6. Faithful(q)'
  BY <1>1, <1>5 DEF Faithful
<1>7. Underway(q)'
  BY <1>1, <1>6 DEF Underway
<1> QED
  BY <1>1, <1>2, <1>7, GoesOn DEF Step, MarkStep, Critical, Preparing, Writing

\* What a writing Mark knows before its next step.
LEMMA WriterKnows ==
    ASSUME TypeInv, NEW q \in Req, ScanInv(on[q]), pc[q] \in Writing
    PROVE  /\ on[q] \in Scan /\ Underway(q)
           /\ local[q] \in Local /\ local[q].rule \in Rule /\ local[q].cal \in Cal
           /\ local[q].listed \in Triples /\ Decisions(q) \in Labels
           /\ \A g \in Gate : Decisions(q)[g] = "none" <=> local[q].listed[g] = Absent
<1>1. on[q] \in Scan /\ Underway(q)
  BY DEF ScanInv, TypeInv, TypeOK
<1>2. /\ local[q] \in Local /\ local[q].rule \in Rule /\ local[q].cal \in Cal
      /\ local[q].listed \in Triples
  BY DEF TypeInv, TypeOK, MarkHolds, RequestOK, HoldsRule, HoldsCal, Local
<1> QED
  BY <1>1, <1>2, ClassifyType, LabelledIffPresent DEF Decisions

LEMMA LabelStep ==
    ASSUME TypeInv, LockInv, NEW q \in Req, ScanInv(on[q]), MarkLabel(q)
    PROVE  ScanInv(on[q])'
<1> DEFINE s == on[q]
<1>a. pc[q] = "label" /\ pc[q] \in Writing
  BY DEF MarkLabel, Writing
<1>b. /\ s \in Scan /\ Underway(q) /\ local[q] \in Local
      /\ \A g \in Gate : Decisions(q)[g] = "none" <=> local[q].listed[g] = Absent
  BY <1>a, WriterKnows
<1>1. PICK h \in local[q].todo :
          /\ label' = [label EXCEPT ![s][h] = Decisions(q)[h]]
          /\ local' = [local EXCEPT ![q].todo = @ \ {h}]
          /\ Goto(q, IF local[q].todo = {h} THEN "evidence" ELSE "label")
  BY DEF MarkLabel
<1>2. h \in Gate /\ data[s][h] # Absent /\ local[q].listed[h] # Absent
  BY <1>b DEF Underway, Present, Local
<1>3. /\ label'[s][h] = Decisions(q)[h]
      /\ \A g \in Gate : g # h => label'[s][g] = label[s][g]
  BY <1>1, <1>2, <1>b DEF TypeInv, TypeOK, Labels
<1>4. /\ local'[q].todo = local[q].todo \ {h}
      /\ local'[q].listed = local[q].listed /\ local'[q].rule = local[q].rule
      /\ local'[q].cal = local[q].cal
  BY <1>1, <1>b DEF TypeInv, TypeOK, Local
<1>5. on' = on /\ data' = data /\ intact' = intact
  BY DEF MarkLabel
<1>6. /\ pc'[q] = "label" \/ pc'[q] = "evidence"
      /\ pc'[q] = "evidence" => local'[q].todo = {}
  BY <1>1, <1>4 DEF Goto, TypeInv, TypeOK
<1>7. Decisions(q)' = Decisions(q)
  BY <1>4 DEF Decisions
<1>8. RowsMatch(s)'
  BY <1>2, <1>3, <1>5, <1>b DEF ScanInv, RowsMatch
<1>9. ASSUME intact[s] PROVE Faithful(q)'
  BY <1>3, <1>4, <1>5, <1>6, <1>7, <1>9, <1>b DEF Underway, Faithful
<1>10. Underway(q)'
  BY <1>4, <1>5, <1>6, <1>9, <1>b DEF Underway
<1> QED
  BY <1>a, <1>5, <1>6, <1>8, <1>10, GoesOn
     DEF Step, MarkStep, Critical, Preparing, Writing

LEMMA EvidenceStep ==
    ASSUME TypeInv, LockInv, NEW q \in Req, ScanInv(on[q]), MarkEvidence(q)
    PROVE  ScanInv(on[q])'
<1> DEFINE s == on[q]
           b == Hits(local[q].rule, Decisions(q), local[q].listed)
<1>a. pc[q] = "evidence" /\ pc[q] \in Writing
  BY DEF MarkEvidence, Writing
<1>b. /\ s \in Scan /\ Underway(q) /\ local[q].rule \in Rule
      /\ local[q].listed \in Triples /\ Decisions(q) \in Labels
  BY <1>a, WriterKnows
<1>1. pc'[q] = "marks" /\ UNCHANGED <<on, local, intact, data, label>>
  BY DEF MarkEvidence, Goto, gateRows, TypeInv, TypeOK
<1>2. Decisions(q)' = Decisions(q)
  BY <1>1 DEF Decisions
<1>3. ASSUME \E g \in Gate : IsHit(Decisions(q), g)
      PROVE  evidence'[s] # <<>> /\ evidence'[s][Len(evidence'[s])] = b
  <2>1. evidence'[s] = Append(evidence[s], b)
    BY <1>3, <1>b DEF MarkEvidence, TypeInv, TypeOK
  <2>2. b \in EvidenceBatch /\ evidence[s] \in Seq(EvidenceBatch)
    BY <1>b, HitsType DEF TypeInv, TypeOK
  <2> HIDE DEF b
  <2> QED
    BY <2>1, <2>2, AppendLast
<1>4. ASSUME intact[s] PROVE Faithful(q)'
  <2>1. Faithful(q)
    BY <1>b, <1>4 DEF Underway
  <2>2. HitsWritten(s, local[q].rule, Decisions(q), data[s])'
    BY <1>1, <1>2, <1>3, <2>1 DEF HitsWritten, Faithful
  <2> QED
    BY <1>1, <1>2, <2>1, <2>2 DEF Faithful
<1>5. RowsMatch(s)' /\ Underway(q)'
  BY <1>a, <1>b, <1>1, <1>4 DEF Underway, ScanInv, RowsMatch
<1> QED
  BY <1>a, <1>1, <1>5, GoesOn DEF Step, MarkStep, Critical, Writing

LEMMA RecordStep ==
    ASSUME TypeInv, LockInv, NEW q \in Req, ScanInv(on[q]), MarkRecord(q)
    PROVE  ScanInv(on[q])'
<1> DEFINE s == on[q]
           b == [rule |-> local[q].rule, labels |-> Decisions(q)]
<1>a. pc[q] = "marks" /\ pc[q] \in Writing
  BY DEF MarkRecord, Writing
<1>b. s \in Scan /\ Underway(q) /\ local[q].rule \in Rule /\ Decisions(q) \in Labels
  BY <1>a, WriterKnows
<1>1. pc'[q] = "count" /\ UNCHANGED <<on, local, intact, data, label, evidence>>
  BY DEF MarkRecord, Goto, gateRows, TypeInv, TypeOK
<1>2. Decisions(q)' = Decisions(q)
  BY <1>1 DEF Decisions
<1>3. history'[s] # <<>> /\ history'[s][Len(history'[s])] = b
  <2>1. history'[s] = Append(history[s], b)
    BY <1>b DEF MarkRecord, TypeInv, TypeOK
  <2>2. b \in MarkBatch /\ history[s] \in Seq(MarkBatch)
    BY <1>b DEF TypeInv, TypeOK, MarkBatch
  <2> HIDE DEF b
  <2> QED
    BY <2>1, <2>2, AppendLast
<1>4. ASSUME intact[s] PROVE Faithful(q)'
  <2>1. Faithful(q)
    BY <1>b, <1>4 DEF Underway
  <2>2. MarksWritten(s, local[q].rule, Decisions(q))'
    BY <1>1, <1>2, <1>3 DEF MarksWritten
  <2> QED
    BY <1>a, <1>1, <1>2, <2>1, <2>2 DEF Faithful, HitsWritten
<1>5. RowsMatch(s)' /\ Underway(q)'
  BY <1>a, <1>b, <1>1, <1>4 DEF Underway, ScanInv, RowsMatch
<1> QED
  BY <1>a, <1>1, <1>5, GoesOn DEF Step, MarkStep, Critical, Writing

LEMMA CountStep ==
    ASSUME TypeInv, LockInv, NEW q \in Req, ScanInv(on[q]), MarkCount(q)
    PROVE  ScanInv(on[q])'
<1> DEFINE s == on[q]
<1>a. pc[q] = "count" /\ pc[q] \in Writing
  BY DEF MarkCount, Writing
<1>b. s \in Scan /\ Underway(q) /\ local[q] \in Local
  BY <1>a, WriterKnows
<1>1. /\ pc'[q] = "summary"
      /\ UNCHANGED <<on, intact, data, label, evidence, history>>
  BY DEF MarkCount, Goto, gateRows, results, TypeInv, TypeOK
<1>2. /\ local'[q].count = CountLabels(label[s])
      /\ local'[q].listed = local[q].listed /\ local'[q].todo = local[q].todo
      /\ local'[q].rule = local[q].rule /\ local'[q].cal = local[q].cal
  BY <1>b DEF MarkCount, TypeInv, TypeOK, Local
<1>3. Decisions(q)' = Decisions(q)
  BY <1>2 DEF Decisions
<1>4. ASSUME intact[s] PROVE Faithful(q)'
  <2>1. Faithful(q)
    BY <1>b, <1>4 DEF Underway
  <2>2. CountLabels(label[s])' = CountLabels(label[s])
    BY <1>1 DEF CountLabels
  <2> QED
    BY <1>a, <1>1, <1>2, <1>3, <2>1, <2>2 DEF Faithful, HitsWritten, MarksWritten
<1>5. RowsMatch(s)' /\ Underway(q)'
  BY <1>a, <1>b, <1>1, <1>2, <1>4 DEF Underway, ScanInv, RowsMatch
<1> QED
  BY <1>a, <1>1, <1>5, GoesOn DEF Step, MarkStep, Critical, Writing

\* The last write makes the scan consistent.
LEMMA SummaryStep ==
    ASSUME TypeInv, LockInv, NEW q \in Req, ScanInv(on[q]), MarkSummary(q)
    PROVE  ScanInv(on[q])'
<1> DEFINE s == on[q]
           r == local[q].rule
<1>a. pc[q] = "summary" /\ pc[q] \in Writing /\ pc[q] \in Critical
  BY DEF MarkSummary, Writing, Critical
<1>b. /\ s \in Scan /\ Underway(q) /\ local[q].cal \in Cal /\ Decisions(q) \in Labels
  BY <1>a, WriterKnows
<1>1. /\ pc'[q] = "status" /\ UNCHANGED <<on, intact, data, label, evidence, history>>
      /\ summary'[s] = [rule |-> r, count |-> local[q].count]
  BY <1>b DEF MarkSummary, UpsertSummary, Goto, gateRows, TypeInv, TypeOK
<1>2. \A p \in Req : on[p] = s => pc'[p] \notin Writing
  <2>1. \A p \in Req \ {q} : pc'[p] = pc[p]
    BY OthersStay DEF Step, MarkStep
  <2> QED
    BY <1>a, <1>1, <2>1 DEF LockInv, Critical, Writing
<1>3. ASSUME intact[s] PROVE Consistent(s)'
  <2> DEFINE last == history[s][Len(history[s])]
  <2>1. Faithful(q) /\ local[q].todo = {}
    BY <1>a, <1>b, <1>3 DEF Underway
  <2>2. label[s] = Decisions(q)
    BY <1>b, <2>1 DEF Faithful, Labels, TypeInv, TypeOK
  <2>3. history[s] # <<>> /\ last.rule = r /\ last.labels = label[s]
    BY <1>a, <2>1, <2>2 DEF Faithful, MarksWritten
  <2>4. label[s] = Classify(r, local[q].cal, data[s])
    BY <2>1, <2>2 DEF Faithful, Decisions
  <2>5. HitsWritten(s, r, label[s], data[s])
    BY <1>a, <2>1, <2>2 DEF Faithful
  <2>6. summary'[s] = [rule |-> r, count |-> CountLabels(label[s])]
    BY <1>a, <1>1, <2>1 DEF Faithful
  <2> HIDE DEF r
  <2> QED
    BY <1>b, <1>1, <2>3, <2>4, <2>5, <2>6 DEF Consistent, HitsWritten
<1>4. RowsMatch(s)'
  BY <1>1 DEF ScanInv, RowsMatch
<1> QED
  BY <1>1, <1>2, <1>3, <1>4 DEF ScanInv

-----------------------------------------------------------------------------
(***************************************************************************)
(* All other steps.                                                        *)
(***************************************************************************)
\* The tables a Mark writes stay, the request does not begin to write, and if it was
\* writing its scan is not intact any more.
Aside(q) ==
    /\ UNCHANGED <<data, label, evidence, history, summary>>
    /\ pc'[q] \notin Writing
    /\ \A s \in Scan : intact'[s] => intact[s] /\ (on[q] = s => pc[q] \notin Writing)

LEMMA StepKinds ==
    ASSUME TypeInv, NEW q \in Req, Start(q) \/ Step(q) \/ Fail(q)
    PROVE  \/ Aside(q)
           \/ AppendUpsert(q)
           \/ MarkList(q) /\ Present(data[on[q]]) # {}
           \/ MarkLabel(q) \/ MarkEvidence(q) \/ MarkRecord(q)
           \/ MarkCount(q) \/ MarkSummary(q)
<1> USE DEF TypeInv, TypeOK, Goto, Finish, FinishMark, gateRows, results, Aside, Writing
<1>1. CASE Start(q)
  BY <1>1 DEF Start, StartAppend, StartFinalize, StartSeal, StartMark, StartRecompute
<1>2. CASE AppendCheck(q) \/ AppendReturn(q)
  BY <1>2 DEF AppendCheck, AppendReturn
<1>3. CASE StatusStep(q)
  BY <1>3 DEF StatusStep, FinalizeCheck, FinalizeWrite, SealCheck, SealWrite
<1>4. CASE RecomputeCheck(q) \/ MarkLock(q) \/ MarkCheck(q)
  BY <1>4 DEF RecomputeCheck, MarkLock, MarkCheck
<1>5. CASE MarkRule(q) \/ MarkCalibration(q)
  BY <1>5 DEF MarkRule, MarkCalibration
<1>6. CASE MarkList(q) /\ Present(data[on[q]]) = {}
  BY <1>6 DEF MarkList
<1>7. CASE MarkStatus(q)
  BY <1>7 DEF MarkStatus
<1>8. CASE Fail(q)
  <2>1. UNCHANGED <<data, label, evidence, history, summary>> /\ pc'[q] = "done"
    BY <1>8 DEF Fail
  <2>2. \A s \in Scan : intact'[s] => intact[s] /\ (on[q] = s => pc[q] \notin Writing)
    BY <1>8 DEF Fail, Tear
  <2> QED
    BY <2>1, <2>2
<1> QED
  BY <1>1, <1>2, <1>3, <1>4, <1>5, <1>6, <1>7, <1>8 DEF Step, MarkStep, AppendStep

LEMMA AsideStep ==
    ASSUME TypeInv, ResultsInv, NEW q \in Req, Start(q) \/ Step(q) \/ Fail(q), Aside(q)
    PROVE  ResultsInv'
<1>1. on' = on /\ \A p \in Req \ {q} : pc'[p] = pc[p] /\ local'[p] = local[p]
  BY OthersStay
<1>2. ASSUME NEW s \in Scan PROVE ScanInv(s)'
  <2>1. ScanInv(s) /\ ScanRowsKept(s)
    BY DEF ResultsInv, Aside, ScanRowsKept
  <2>2. intact'[s] => intact[s] /\ (Writer(s) => Writer(s)')
    BY <1>1 DEF Aside, Writer
  <2> QED
    BY <1>1, <2>1, <2>2, ScanFrame DEF Aside
<1> QED
  BY <1>2 DEF ResultsInv

LEMMA RequestResults ==
    ASSUME TypeInv, LockInv, ResultsInv, NEW q \in Req, Start(q) \/ Step(q) \/ Fail(q)
    PROVE  ResultsInv'
<1>a. on[q] \in Scan
  BY DEF TypeInv, TypeOK
<1>1. CASE Aside(q)
  BY <1>1, AsideStep
<1>2. ASSUME ScanInv(on[q])',
             \A s \in Scan \ {on[q]} : ScanRowsKept(s) /\ intact'[s] = intact[s]
      PROVE  ResultsInv'
  <2>1. on' = on
    BY OthersStay
  <2>2. ASSUME NEW s \in Scan, s = on[q] PROVE ScanInv(s)'
    BY <1>2, <2>1, <2>2
  <2>3. ASSUME NEW s \in Scan, s # on[q] PROVE ScanInv(s)'
    BY <1>2, <2>3, Elsewhere DEF ResultsInv
  <2> QED
    BY <2>2, <2>3 DEF ResultsInv
<1> DEFINE OthersKept == \A s \in Scan \ {on[q]} : ScanRowsKept(s) /\ intact'[s] = intact[s]
<1>b. ScanInv(on[q])
  BY <1>a DEF ResultsInv
<1>3. CASE AppendUpsert(q)
  <2>1. OthersKept
    BY <1>a, <1>3 DEF AppendUpsert, Upsert, ScanRowsKept, TypeInv, TypeOK, gateRows, results
  <2> QED
    BY <1>b, <1>2, <1>3, <2>1, UpsertStep
<1>4. CASE MarkList(q) /\ Present(data[on[q]]) # {}
  <2>1. OthersKept
    BY <1>a, <1>4 DEF MarkList, ScanRowsKept, TypeInv, TypeOK, gateRows, results
  <2> QED
    BY <1>b, <1>2, <1>4, <2>1, ListStep
<1>5. CASE MarkLabel(q)
  <2>1. OthersKept
    BY <1>a, <1>5 DEF MarkLabel, ScanRowsKept, TypeInv, TypeOK, gateRows, results
  <2> QED
    BY <1>b, <1>2, <1>5, <2>1, LabelStep
<1>6. CASE MarkEvidence(q)
  <2>1. OthersKept
    BY <1>a, <1>6 DEF MarkEvidence, ScanRowsKept, TypeInv, TypeOK, gateRows, results
  <2> QED
    BY <1>b, <1>2, <1>6, <2>1, EvidenceStep
<1>7. CASE MarkRecord(q)
  <2>1. OthersKept
    BY <1>a, <1>7 DEF MarkRecord, ScanRowsKept, TypeInv, TypeOK, gateRows, results
  <2> QED
    BY <1>b, <1>2, <1>7, <2>1, RecordStep
<1>8. CASE MarkCount(q)
  <2>1. OthersKept
    BY <1>a, <1>8 DEF MarkCount, ScanRowsKept, TypeInv, TypeOK, gateRows, results
  <2> QED
    BY <1>b, <1>2, <1>8, <2>1, CountStep
<1>9. CASE MarkSummary(q)
  <2>1. OthersKept
    BY <1>a, <1>9 DEF MarkSummary, UpsertSummary, ScanRowsKept, TypeInv, TypeOK, gateRows, results
  <2> QED
    BY <1>b, <1>2, <1>9, <2>1, SummaryStep
<1> QED
  BY <1>1, <1>3, <1>4, <1>5, <1>6, <1>7, <1>8, <1>9, StepKinds

LEMMA ResultsNext == ASSUME TypeInv, LockInv, ResultsInv, [Next]_vars PROVE ResultsInv'
<1>1. CASE Crash
  <2>1. /\ on' = on /\ \A q \in Req : pc'[q] \notin Writing
        /\ \A s \in Scan : intact'[s] => intact[s] /\ ~Writer(s)
        /\ \A s \in Scan : ScanRowsKept(s)
    BY <1>1 DEF Crash, Running, Tear, Writer, Writing, ScanRowsKept, gateRows, results,
                TypeInv, TypeOK
  <2> QED
    BY <2>1, ScanFrame DEF ResultsInv
<1>2. CASE Environment \/ UNCHANGED vars
  <2>1. /\ UNCHANGED <<on, pc, local, intact>>
        /\ \A s \in Scan : ScanRowsKept(s)
    BY <1>2 DEF Environment, PublishRule, RetireRule, PublishCalibration, vars,
                ScanRowsKept, gateRows, results
  <2>2. \A s \in Scan : Writer(s) => Writer(s)'
    BY <2>1 DEF Writer
  <2> QED
    BY <2>1, <2>2, ScanFrame DEF ResultsInv
<1> QED
  BY <1>1, <1>2, RequestResults DEF Next

\* Labels, history, evidence and summary of a scan that was not disturbed agree with
\* one rule version, one calibration and the stored variables, whatever requests,
\* failures, crashes and publications came before (mark_service.go:121-150).
THEOREM UndisturbedIsConsistent == Spec => []IntactIsConsistent
<1>1. Init => LockInv /\ ResultsInv
  BY DEF Init, LockInv, Critical, Preparing, Writing, ResultsInv, ScanInv, RowsMatch,
         NoGates, NoLabels
<1>2. ResultsInv => IntactIsConsistent
  BY DEF ResultsInv, ScanInv, Writer, IntactIsConsistent
<1> QED
  BY <1>1, <1>2, LockNext, ResultsNext, TypeInvariant, PTL DEF Spec

-----------------------------------------------------------------------------
(***************************************************************************)
(* Where the rule versions in the tables come from.                        *)
(***************************************************************************)
\* What a step does to the versions that requests hold: one of them reads a version,
\* from a scan or the effective one, keeps its own or forgets them.
LEMMA RequestHolds ==
    ASSUME TypeInv, NEW q \in Req, Start(q) \/ Step(q) \/ Fail(q)
    PROVE  /\ local'[q].seen \in {NoRule, local[q].seen, scanRule[on[q]]}
           /\ local'[q].rule \in {NoRule, local[q].rule} \cup effRule
           /\ local'[q].cal \in {NoCal, local[q].cal} \cup effCal[StationOf[on[q]]]
<1> USE DEF Goto, Finish, FinishMark, Blank, TypeInv, TypeOK, Local
<1>1. CASE Start(q)
  BY <1>1 DEF Start, StartAppend, StartFinalize, StartSeal, StartMark, StartRecompute
<1>2. CASE AppendStep(q)
  BY <1>2 DEF AppendStep, AppendCheck, AppendUpsert, AppendReturn
<1>3. CASE StatusStep(q)
  BY <1>3 DEF StatusStep, FinalizeCheck, FinalizeWrite, SealCheck, SealWrite, KeepRule
<1>4. CASE RecomputeCheck(q) \/ MarkLock(q) \/ MarkCheck(q)
  BY <1>4 DEF RecomputeCheck, MarkLock, MarkCheck
<1>5. CASE MarkRule(q) \/ MarkCalibration(q) \/ MarkList(q)
  BY <1>5 DEF MarkRule, MarkCalibration, MarkList
<1>6. CASE MarkLabel(q) \/ MarkEvidence(q) \/ MarkRecord(q)
  BY <1>6 DEF MarkLabel, MarkEvidence, MarkRecord
<1>7. CASE MarkCount(q) \/ MarkSummary(q) \/ MarkStatus(q)
  BY <1>7 DEF MarkCount, MarkSummary, MarkStatus
<1>8. CASE Fail(q)
  BY <1>8 DEF Fail
<1> QED
  BY <1>1, <1>2, <1>3, <1>4, <1>5, <1>6, <1>7, <1>8 DEF Step, MarkStep

\* A request writes only versions it has read: a new status names one of them, and a
\* new row of the results the version of the Mark.
RowNames(s, r, t) ==
    /\ scanRule'[s] \in {scanRule[s], r, t}
    /\ summary'[s] = summary[s] \/ summary'[s].rule = t
    /\ \/ history'[s] = history[s]
       \/ \E b \in MarkBatch : history'[s] = Append(history[s], b) /\ b.rule = t
    /\ \/ evidence'[s] = evidence[s]
       \/ \E b \in EvidenceBatch : evidence'[s] = Append(evidence[s], b) /\ b.rule = t

LEMMA RequestRecords ==
    ASSUME TypeInv, NEW q \in Req, Start(q) \/ Step(q) \/ Fail(q), NEW s \in Scan
    PROVE  RowNames(s, local[q].seen, local[q].rule)
<1> USE DEF RowNames, scanRow, results
<1>1. CASE UNCHANGED <<scanRow, results>>
  BY <1>1
<1>2. CASE FinalizeWrite(q) \/ SealWrite(q) \/ MarkStatus(q)
  BY <1>2 DEF FinalizeWrite, SealWrite, MarkStatus, UpdateStatus, TypeInv, TypeOK
<1>3. CASE MarkEvidence(q)
  <2>1. local[q].rule \in Rule /\ local[q].cal \in Cal /\ local[q].listed \in Triples
    BY <1>3 DEF MarkEvidence, TypeInv, TypeOK, MarkHolds, RequestOK, HoldsRule, HoldsCal,
                Writing, Local
  <2> DEFINE b == Hits(local[q].rule, Decisions(q), local[q].listed)
  <2>2. b \in EvidenceBatch /\ b.rule = local[q].rule
    BY <2>1, ClassifyType, HitsType DEF Decisions, Hits
  <2> HIDE DEF b
  <2>3. evidence' = evidence \/ evidence' = [evidence EXCEPT ![on[q]] = Append(@, b)]
    BY <1>3 DEF MarkEvidence, b
  <2> QED
    BY <1>3, <2>2, <2>3 DEF MarkEvidence, TypeInv, TypeOK
<1>4. CASE MarkRecord(q)
  <2>1. local[q].rule \in Rule /\ local[q].cal \in Cal /\ local[q].listed \in Triples
    BY <1>4 DEF MarkRecord, TypeInv, TypeOK, MarkHolds, RequestOK, HoldsRule, HoldsCal,
                Writing, Local
  <2> DEFINE b == [rule |-> local[q].rule, labels |-> Decisions(q)]
  <2>2. b \in MarkBatch /\ b.rule = local[q].rule
    BY <2>1, ClassifyType DEF Decisions, MarkBatch
  <2>3. history' = [history EXCEPT ![on[q]] = Append(@, b)]
    BY <1>4 DEF MarkRecord
  <2> HIDE DEF b
  <2> QED
    BY <1>4, <2>2, <2>3 DEF MarkRecord, TypeInv, TypeOK
<1>5. CASE MarkSummary(q)
  BY <1>5 DEF MarkSummary, UpsertSummary, TypeInv, TypeOK
<1>6. CASE Start(q) \/ AppendStep(q) \/ FinalizeCheck(q) \/ SealCheck(q) \/ Fail(q)
  BY <1>1, <1>6 DEF Start, StartAppend, StartFinalize, StartSeal, StartMark,
                    StartRecompute, AppendStep, AppendCheck, AppendUpsert, AppendReturn,
                    FinalizeCheck, SealCheck, Fail
<1>7. CASE \/ RecomputeCheck(q) \/ MarkLock(q) \/ MarkCheck(q) \/ MarkRule(q)
           \/ MarkCalibration(q) \/ MarkList(q) \/ MarkLabel(q) \/ MarkCount(q)
  BY <1>1, <1>7 DEF RecomputeCheck, MarkLock, MarkCheck, MarkRule, MarkCalibration,
                    MarkList, MarkLabel, MarkCount
<1> QED
  BY <1>2, <1>3, <1>4, <1>5, <1>6, <1>7 DEF Step, StatusStep, MarkStep

\* An entry of a list that grows by b is b or was there before.
LEMMA EntryOfAppend ==
    ASSUME NEW B, NEW b \in B, NEW h \in Seq(B), NEW i \in DOMAIN Append(h, b)
    PROVE  Append(h, b)[i] = b \/ (i \in DOMAIN h /\ Append(h, b)[i] = h[i])
<1>1. Len(Append(h, b)) = Len(h) + 1 /\ i \in 1..(Len(h) + 1) /\ Len(h) \in Nat
  OBVIOUS
<1>2. CASE i = Len(h) + 1
  BY <1>1, <1>2
<1>3. CASE i \in 1..Len(h)
  BY <1>1, <1>3
<1> QED
  BY <1>1, <1>2, <1>3

\* A version that a table names has been held by a request, and one that a request
\* holds was effective or named by a scan when it was read: no step invents one.
LEMMA VersionsComeFrom ==
    ASSUME TypeInv, [Next]_vars, NEW r \in Rule
    PROVE  /\ Recorded(r)' => Recorded(r) \/ Held(r)
           /\ Held(r)' => Held(r) \/ Recorded(r) \/ r \in effRule
<1> USE PipelineAssumption DEF Recorded, Held
<1>1. CASE Environment \/ UNCHANGED vars
  BY <1>1 DEF Environment, PublishRule, RetireRule, PublishCalibration, vars, scanRow, results
<1>2. CASE Crash
  <2>1. local' = [q \in Req |-> Blank] /\ UNCHANGED <<scanRow, results>>
    BY <1>2 DEF Crash
  <2> QED
    BY <2>1 DEF scanRow, results, Blank
<1>3. ASSUME NEW q \in Req, Start(q) \/ Step(q) \/ Fail(q)
      PROVE  /\ Recorded(r)' => Recorded(r) \/ Held(r)
             /\ Held(r)' => Held(r) \/ Recorded(r) \/ r \in effRule
  <2>1. ASSUME Recorded(r)' PROVE Recorded(r) \/ Held(r)
    <3>1. PICK s \in Scan :
             \/ scanRule'[s] = r \/ summary'[s].rule = r
             \/ \E i \in DOMAIN history'[s] : history'[s][i].rule = r
             \/ \E i \in DOMAIN evidence'[s] : evidence'[s][i].rule = r
      BY <2>1
    <3>2. RowNames(s, local[q].seen, local[q].rule)
      BY <1>3, RequestRecords
    <3>3. history[s] \in Seq(MarkBatch) /\ evidence[s] \in Seq(EvidenceBatch)
      BY DEF TypeInv, TypeOK
    <3>4. CASE scanRule'[s] = r \/ summary'[s].rule = r
      BY <3>2, <3>4 DEF RowNames
    <3>5. ASSUME NEW i \in DOMAIN history'[s], history'[s][i].rule = r
          PROVE  Recorded(r) \/ Held(r)
      <4>1. CASE history'[s] = history[s]
        BY <3>5, <4>1
      <4>2. ASSUME NEW b \in MarkBatch, history'[s] = Append(history[s], b), b.rule = local[q].rule
            PROVE  Recorded(r) \/ Held(r)
        <5>1. \/ Append(history[s], b)[i] = b
              \/ /\ i \in DOMAIN history[s]
                 /\ Append(history[s], b)[i] = history[s][i]
          BY <3>3, <4>2, EntryOfAppend
        <5> QED
          BY <3>5, <4>2, <5>1
      <4> QED
        BY <3>2, <4>1, <4>2 DEF RowNames
    <3>6. ASSUME NEW i \in DOMAIN evidence'[s], evidence'[s][i].rule = r
          PROVE  Recorded(r) \/ Held(r)
      <4>1. CASE evidence'[s] = evidence[s]
        BY <3>6, <4>1
      <4>2. ASSUME NEW b \in EvidenceBatch, evidence'[s] = Append(evidence[s], b), b.rule = local[q].rule
            PROVE  Recorded(r) \/ Held(r)
        <5>1. \/ Append(evidence[s], b)[i] = b
              \/ /\ i \in DOMAIN evidence[s]
                 /\ Append(evidence[s], b)[i] = evidence[s][i]
          BY <3>3, <4>2, EntryOfAppend
        <5> QED
          BY <3>6, <4>2, <5>1
      <4> QED
        BY <3>2, <4>1, <4>2 DEF RowNames
    <3> QED
      BY <3>1, <3>4, <3>5, <3>6
  <2>2. ASSUME Held(r)' PROVE Held(r) \/ Recorded(r) \/ r \in effRule
    <3>1. PICK p \in Req : r \in {local'[p].seen, local'[p].rule}
      BY <2>2
    <3>2. CASE p = q
      <4>1. on[q] \in Scan
        BY DEF TypeInv, TypeOK
      <4> QED
        BY <1>3, <3>1, <3>2, <4>1, RequestHolds
    <3>3. CASE p # q
      BY <1>3, <3>1, <3>3, OthersStay
    <3> QED
      BY <3>2, <3>3
  <2> QED
    BY <2>1, <2>2
<1> QED
  BY <1>1, <1>2, <1>3 DEF Next

\* The calibration a request holds was effective at the station of its scan.
LEMMA CalibrationsComeFrom ==
    ASSUME TypeInv, [Next]_vars, NEW q \in Req
    PROVE  on'[q] = on[q] /\ local'[q].cal \in {NoCal, local[q].cal} \cup effCal[StationOf[on[q]]]
<1>1. CASE Environment \/ UNCHANGED vars
  BY <1>1 DEF Environment, PublishRule, RetireRule, PublishCalibration, vars
<1>2. CASE Crash
  BY <1>2 DEF Crash, Blank
<1>3. ASSUME NEW p \in Req, Start(p) \/ Step(p) \/ Fail(p)
      PROVE  on'[q] = on[q] /\ local'[q].cal \in {NoCal, local[q].cal} \cup effCal[StationOf[on[q]]]
  BY <1>3, OthersStay, RequestHolds
<1> QED
  BY <1>1, <1>2, <1>3 DEF Next
=============================================================================
