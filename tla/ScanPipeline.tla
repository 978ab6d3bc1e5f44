--------------------------- MODULE ScanPipeline ---------------------------
(***************************************************************************)
(* The life of the volume scans of the service, from their reception to    *)
(* their sealing: AppendGates, Finalize, Mark, Recompute and Seal, as run  *)
(* by concurrent HTTP requests over one SQLite database.                   *)
(*                                                                         *)
(* Every request is a goroutine of its own.  The store opens a single      *)
(* connection (store/db.go:41), so one SQL statement or one transaction is *)
(* one atomic step and the steps of different requests interleave freely.  *)
(* The only lock of the application is the per-scan mutex that Mark takes. *)
(* A request is modelled as a process that runs once: `pc' names the next  *)
(* statement it will execute, `local' holds what it has read.              *)
(***************************************************************************)
EXTENDS Naturals, Sequences, FiniteSets

CONSTANTS
    Scan,        \* volume scans, already created by CreateScan
    Station,     \* radar stations
    StationOf,   \* the station each scan belongs to
    Gate,        \* gate positions, in (elevation, azimuth, range) order
    Value,       \* complete (ZH, ZDR, RHOHV) triples, abstracted
    Missing,     \* the NULL triple of a gate uploaded with a variable missing
    Absent,      \* no row for this gate
    Rule,        \* rule versions
    NoRule,      \* the empty rule_version_id
    Cal,         \* calibration versions
    NoCal,
    Decide,      \* verdict of a rule version on a calibrated triple
    Req,         \* HTTP requests
    NoReq,
    MaxRows      \* bound: valid rows in one uploaded batch

Verdict == {"valid", "clutter", "anomaly"}

ASSUME PipelineAssumption ==
    /\ StationOf \in [Scan -> Station]
    /\ Gate \subseteq Nat /\ IsFiniteSet(Gate)
    /\ Missing \notin Value /\ Absent \notin Value \cup {Missing}
    /\ NoRule \notin Rule /\ NoCal \notin Cal /\ NoReq \notin Req
    /\ Decide \in [Rule -> [Cal -> [Value -> Verdict]]]
    /\ MaxRows \in Nat

VARIABLES
    status,      \* scans.status
    scanRule,    \* scans.rule_version_id
    data,        \* gates.zh, zdr, rhohv
    label,       \* gates.label
    evidence,    \* rule_hits, one entry per committed batch
    history,     \* quality_marks, one entry per committed batch
    summary,     \* scan_summaries
    effRule,     \* the rule versions whose status is effective
    effCal,      \* the effective calibrations of each station
    lock,        \* MarkService.locks
    pc, on, local,
    intact       \* auxiliary, see the end of the state section

scanRow  == <<status, scanRule>>
gateRows == <<data, label>>
results  == <<evidence, history, summary>>
versions == <<effRule, effCal>>
vars == <<scanRow, gateRows, results, versions, lock, pc, on, local, intact>>

-----------------------------------------------------------------------------
(***************************************************************************)
(* State.                                                                  *)
(***************************************************************************)
ScanStatus == {"receiving", "pending", "marked", "sealed"}
GateLabel  == {"raw", "missing"} \cup Verdict
Labels     == [Gate -> GateLabel \cup {"none"}]
Triples    == [Gate -> Value \cup {Missing, Absent}]
Counts     == [GateLabel -> Nat]

EvidenceBatch == [rule : Rule, hits : Labels, snapshot : Triples]
MarkBatch     == [rule : Rule, labels : Labels]
Summary       == [rule : Rule, count : Counts]

Local == [seen : Rule \cup {NoRule},   \* rule_version_id read with the scan row
          rule : Rule \cup {NoRule},   \* rv of Mark
          cal : Cal \cup {NoCal},      \* cal of Mark
          listed : Triples,            \* gates of Mark
          todo : SUBSET Gate,          \* gates whose label is not written yet
          count : Counts,              \* labels of Compute
          rows : 0..MaxRows]           \* rows of the batch not upserted yet

NoGates == [g \in Gate |-> Absent]
NoLabels == [g \in Gate |-> "none"]
Zero == [l \in GateLabel |-> 0]
NoSummary == [rule |-> NoRule, count |-> Zero]   \* no row for this scan
Blank == [seen |-> NoRule, rule |-> NoRule, cal |-> NoCal, listed |-> NoGates,
          todo |-> {}, count |-> Zero, rows |-> 0]

\* What a request executes next.  The states of Mark are split where the
\* properties need it: before the lock, before its check, between the check and
\* the first write, and while it writes.
Entry     == {"append", "finalize", "seal", "recompute", "lock"}
Checked   == {"upsert", "finalizing", "sealing"}
Preparing == {"rule", "calibration", "list"}
Writing   == {"label", "evidence", "marks", "count", "summary"}
Critical  == {"get", "status"} \cup Preparing \cup Writing
PC        == {"new", "done"} \cup Entry \cup Checked \cup Critical

\* intact[s]: since the last time Mark listed the gates of s, no gate of s was
\* upserted and no Mark of s stopped half way through its writes.  It is read by
\* properties only.

Init ==
    /\ status = [s \in Scan |-> "receiving"]
    /\ scanRule = [s \in Scan |-> NoRule]
    /\ data = [s \in Scan |-> NoGates]
    /\ label = [s \in Scan |-> NoLabels]
    /\ evidence = [s \in Scan |-> <<>>]
    /\ history = [s \in Scan |-> <<>>]
    /\ summary = [s \in Scan |-> NoSummary]
    /\ effRule = {}
    /\ effCal = [st \in Station |-> {}]
    /\ lock = [s \in Scan |-> NoReq]
    /\ pc = [q \in Req |-> "new"]
    /\ on \in [Req -> Scan]
    /\ local = [q \in Req |-> Blank]
    /\ intact = [s \in Scan |-> FALSE]

-----------------------------------------------------------------------------
(***************************************************************************)
(* Helpers.                                                                *)
(***************************************************************************)
Present(d) == {g \in Gate : d[g] # Absent}

\* Apply and Classify of every listed gate.
Classify(r, c, d) ==
    [g \in Gate |-> CASE d[g] = Absent -> "none"
                      [] d[g] = Missing -> "missing"
                      [] OTHER -> Decide[r][c][d[g]]]

Decisions(q) == Classify(local[q].rule, local[q].cal, local[q].listed)

CountLabels(lbl) ==
    [l \in GateLabel |-> Cardinality({g \in Gate : lbl[g] = l})]

\* Valid gates leave no evidence.
IsHit(lbl, g) == lbl[g] \notin {"none", "valid"}

\* Fault: only the rules of Classify leave evidence, missing gates do not.
FaultyHits(r, lbl, d) ==
    [rule |-> r,
     hits |-> [g \in Gate |-> IF lbl[g] \in Verdict \ {"valid"} THEN lbl[g] ELSE "none"],
     snapshot |-> [g \in Gate |-> IF IsHit(lbl, g) THEN d[g] ELSE Absent]]

\* RecordBatch: the label and the raw variables of every gate that is not valid.  The
\* three zeros it stores for a missing gate are the snapshot Missing here.
Hits(r, lbl, d) ==
    [rule |-> r,
     hits |-> [g \in Gate |-> IF IsHit(lbl, g) THEN lbl[g] ELSE "none"],
     snapshot |-> [g \in Gate |-> IF IsHit(lbl, g) THEN d[g] ELSE Absent]]

Goto(q, next) == pc' = [pc EXCEPT ![q] = next]

Finish(q) ==
    /\ Goto(q, "done")
    /\ local' = [local EXCEPT ![q] = Blank]

\* Fault: an early return that forgets the lock.
FaultyFinishMark(q) ==
    /\ Finish(q)
    /\ UNCHANGED lock

\* Every return of Mark runs the deferred mu.Unlock().
FinishMark(q) ==
    /\ Finish(q)
    /\ lock' = [lock EXCEPT ![on[q]] = NoReq]

\* Fault: lockFor stores a new mutex on every call.
FaultyFree(s) == TRUE

\* The mutex lockFor returns for the scan is free.
Free(s) == lock[s] = NoReq

\* Fault: the two placeholders of the UPDATE are filled in the wrong order.
FaultyUpdateStatus(s, to, r) ==
    /\ status' = [status EXCEPT ![s] = r]
    /\ scanRule' = [scanRule EXCEPT ![s] = to]

\* ScanStore.UpdateStatus writes both columns, whatever the row holds by now.
UpdateStatus(s, to, r) ==
    /\ status' = [status EXCEPT ![s] = to]
    /\ scanRule' = [scanRule EXCEPT ![s] = r]

-----------------------------------------------------------------------------
(***************************************************************************)
(* AppendGates: check the scan row, then upsert the rows one by one.       *)
(***************************************************************************)
StartAppend(q) ==
    /\ pc[q] = "new"
    /\ Goto(q, "append")
    /\ UNCHANGED <<scanRow, gateRows, results, versions, lock, on, local, intact>>

\* Fault: the check forgets the terminal status.
FaultyRefusesGates(st) == st = "marked"

\* Sealed and marked scans refuse gates; a pending scan still takes them.
RefusesGates(st) == st \in {"sealed", "marked"}

AppendCheck(q) ==
    /\ pc[q] = "append"
    /\ \/ /\ RefusesGates(status[on[q]])
          /\ Finish(q)
       \/ /\ ~RefusesGates(status[on[q]])
          /\ \E n \in 0..MaxRows : local' = [local EXCEPT ![q].rows = n]
          /\ Goto(q, "upsert")
    /\ UNCHANGED <<scanRow, gateRows, results, versions, lock, on, intact>>

\* A row is inserted, or overwrites the variables and the label of its key.
Upsert(s, g, v) ==
    /\ data' = [data EXCEPT ![s][g] = v]
    /\ label' = [label EXCEPT ![s][g] = IF v = Missing THEN "missing" ELSE "raw"]
    /\ intact' = [intact EXCEPT ![s] = FALSE]

AppendUpsert(q) ==
    /\ pc[q] = "upsert"
    /\ local[q].rows > 0
    /\ \E g \in Gate, v \in Value \cup {Missing} : Upsert(on[q], g, v)
    /\ local' = [local EXCEPT ![q].rows = @ - 1]
    /\ UNCHANGED <<scanRow, results, versions, lock, pc, on>>

AppendReturn(q) ==
    /\ pc[q] = "upsert"
    /\ local[q].rows = 0
    /\ Finish(q)
    /\ UNCHANGED <<scanRow, gateRows, results, versions, lock, on, intact>>

-----------------------------------------------------------------------------
(***************************************************************************)
(* Finalize and Seal: read the scan row, then write a new status together  *)
(* with the rule version that was read.                                    *)
(***************************************************************************)
\* Fault: the version that is effective now is taken for the version of the scan.
FaultyKeepRule(q) ==
    \E r \in effRule \cup {NoRule} : local' = [local EXCEPT ![q].seen = r]

\* The rule_version_id that came with the row is kept for the write.
KeepRule(q) == local' = [local EXCEPT ![q].seen = scanRule[on[q]]]

StartFinalize(q) ==
    /\ pc[q] = "new"
    /\ Goto(q, "finalize")
    /\ UNCHANGED <<scanRow, gateRows, results, versions, lock, on, local, intact>>

FinalizeCheck(q) ==
    /\ pc[q] = "finalize"
    /\ \/ /\ status[on[q]] # "receiving"
          /\ Finish(q)
       \/ /\ status[on[q]] = "receiving"
          /\ KeepRule(q)
          /\ Goto(q, "finalizing")
    /\ UNCHANGED <<scanRow, gateRows, results, versions, lock, on, intact>>

FinalizeWrite(q) ==
    /\ pc[q] = "finalizing"
    /\ UpdateStatus(on[q], "pending", local[q].seen)
    /\ Finish(q)
    /\ UNCHANGED <<gateRows, results, versions, lock, on, intact>>

StartSeal(q) ==
    /\ pc[q] = "new"
    /\ Goto(q, "seal")
    /\ UNCHANGED <<scanRow, gateRows, results, versions, lock, on, local, intact>>

\* Any of the other three statuses may be sealed.
SealCheck(q) ==
    /\ pc[q] = "seal"
    /\ \/ /\ status[on[q]] = "sealed"
          /\ Finish(q)
       \/ /\ status[on[q]] \in {"marked", "pending", "receiving"}
          /\ KeepRule(q)
          /\ Goto(q, "sealing")
    /\ UNCHANGED <<scanRow, gateRows, results, versions, lock, on, intact>>

SealWrite(q) ==
    /\ pc[q] = "sealing"
    /\ UpdateStatus(on[q], "sealed", local[q].seen)
    /\ Finish(q)
    /\ UNCHANGED <<gateRows, results, versions, lock, on, intact>>

-----------------------------------------------------------------------------
(***************************************************************************)
(* Mark, and Recompute which checks the scan once more before calling it.  *)
(***************************************************************************)
StartMark(q) ==
    /\ pc[q] = "new"
    /\ Goto(q, "lock")
    /\ UNCHANGED <<scanRow, gateRows, results, versions, lock, on, local, intact>>

StartRecompute(q) ==
    /\ pc[q] = "new"
    /\ Goto(q, "recompute")
    /\ UNCHANGED <<scanRow, gateRows, results, versions, lock, on, local, intact>>

RecomputeCheck(q) ==
    /\ pc[q] = "recompute"
    /\ \/ /\ status[on[q]] = "sealed"
          /\ Finish(q)
       \/ /\ status[on[q]] # "sealed"
          /\ Goto(q, "lock")
          /\ UNCHANGED local
    /\ UNCHANGED <<scanRow, gateRows, results, versions, lock, on, intact>>

MarkLock(q) ==
    /\ pc[q] = "lock"
    /\ Free(on[q])
    /\ lock' = [lock EXCEPT ![on[q]] = q]
    /\ Goto(q, "get")
    /\ UNCHANGED <<scanRow, gateRows, results, versions, on, local, intact>>

\* Only a sealed scan is refused.
MarkCheck(q) ==
    /\ pc[q] = "get"
    /\ \/ /\ status[on[q]] = "sealed"
          /\ FinishMark(q)
       \/ /\ status[on[q]] # "sealed"
          /\ Goto(q, "rule")
          /\ UNCHANGED <<lock, local>>
    /\ UNCHANGED <<scanRow, gateRows, results, versions, on, intact>>

MarkRule(q) ==
    /\ pc[q] = "rule"
    /\ \/ /\ effRule = {}
          /\ FinishMark(q)
       \/ /\ \E r \in effRule : local' = [local EXCEPT ![q].rule = r]
          /\ Goto(q, "calibration")
          /\ UNCHANGED lock
    /\ UNCHANGED <<scanRow, gateRows, results, versions, on, intact>>

\* A station without an effective calibration makes Mark fail: the store reports
\* the missing row as an error and not as a nil calibration.
MarkCalibration(q) ==
    /\ pc[q] = "calibration"
    /\ \/ /\ effCal[StationOf[on[q]]] = {}
          /\ FinishMark(q)
       \/ /\ \E c \in effCal[StationOf[on[q]]] : local' = [local EXCEPT ![q].cal = c]
          /\ Goto(q, "list")
          /\ UNCHANGED lock
    /\ UNCHANGED <<scanRow, gateRows, results, versions, on, intact>>

\* The gates are listed here and classified in memory from this copy.
MarkList(q) ==
    /\ pc[q] = "list"
    /\ \/ /\ Present(data[on[q]]) = {}
          /\ FinishMark(q)
          /\ UNCHANGED intact
       \/ /\ Present(data[on[q]]) # {}
          /\ local' = [local EXCEPT ![q].listed = data[on[q]],
                                    ![q].todo = Present(data[on[q]])]
          /\ Goto(q, "label")
          /\ intact' = [intact EXCEPT ![on[q]] = TRUE]
          /\ UNCHANGED lock
    /\ UNCHANGED <<scanRow, gateRows, results, versions, on>>

\* One statement per gate, in gate order.
MarkLabel(q) ==
    /\ pc[q] = "label"
    /\ \E g \in local[q].todo :
          /\ \A h \in local[q].todo : g <= h
          /\ label' = [label EXCEPT ![on[q]][g] = Decisions(q)[g]]
          /\ local' = [local EXCEPT ![q].todo = @ \ {g}]
          /\ Goto(q, IF local[q].todo = {g} THEN "evidence" ELSE "label")
    /\ UNCHANGED <<scanRow, data, results, versions, lock, on, intact>>

\* One transaction, none when every gate is valid.
MarkEvidence(q) ==
    /\ pc[q] = "evidence"
    /\ evidence' = IF \E g \in Gate : IsHit(Decisions(q), g)
                   THEN [evidence EXCEPT ![on[q]] = Append(@,
                            Hits(local[q].rule, Decisions(q), local[q].listed))]
                   ELSE evidence
    /\ Goto(q, "marks")
    /\ UNCHANGED <<scanRow, gateRows, history, summary, versions, lock, on, local, intact>>

MarkRecord(q) ==
    /\ pc[q] = "marks"
    /\ history' = [history EXCEPT ![on[q]] = Append(@,
                      [rule |-> local[q].rule, labels |-> Decisions(q)])]
    /\ Goto(q, "count")
    /\ UNCHANGED <<scanRow, gateRows, evidence, summary, versions, lock, on, local, intact>>

\* Compute: the labels are counted in the database, not in memory.
MarkCount(q) ==
    /\ pc[q] = "count"
    /\ local' = [local EXCEPT ![q].count = CountLabels(label[on[q]])]
    /\ Goto(q, "summary")
    /\ UNCHANGED <<scanRow, gateRows, results, versions, lock, on, intact>>

\* Fault: ON CONFLICT DO NOTHING.
FaultyUpsertSummary(s, sum) ==
    summary' = IF summary[s] = NoSummary THEN [summary EXCEPT ![s] = sum] ELSE summary

UpsertSummary(s, sum) == summary' = [summary EXCEPT ![s] = sum]

MarkSummary(q) ==
    /\ pc[q] = "summary"
    /\ UpsertSummary(on[q], [rule |-> local[q].rule, count |-> local[q].count])
    /\ Goto(q, "status")
    /\ UNCHANGED <<scanRow, gateRows, evidence, history, versions, lock, on, local, intact>>

MarkStatus(q) ==
    /\ pc[q] = "status"
    /\ UpdateStatus(on[q], "marked", local[q].rule)
    /\ FinishMark(q)
    /\ UNCHANGED <<gateRows, results, versions, on, intact>>

-----------------------------------------------------------------------------
(***************************************************************************)
(* Failures.  Any statement may return an error: the request returns at    *)
(* once, keeping what it has already written.  A crash of the process ends *)
(* every request and forgets the locks; the database survives.             *)
(***************************************************************************)
Running(q) == pc[q] \in PC \ {"new", "done"}

Tear(Q) == intact' = [s \in Scan |->
    intact[s] /\ ~ \E q \in Q : on[q] = s /\ pc[q] \in Writing]

Fail(q) ==
    /\ Running(q) /\ pc[q] # "lock"
    /\ Finish(q)
    /\ lock' = IF pc[q] \in Critical THEN [lock EXCEPT ![on[q]] = NoReq] ELSE lock
    /\ Tear({q})
    /\ UNCHANGED <<scanRow, gateRows, results, versions, on>>

Crash ==
    /\ \E q \in Req : Running(q)
    /\ pc' = [q \in Req |-> IF Running(q) THEN "done" ELSE pc[q]]
    /\ local' = [q \in Req |-> Blank]
    /\ lock' = [s \in Scan |-> NoReq]
    /\ Tear(Req)
    /\ UNCHANGED <<scanRow, gateRows, results, versions, on>>

(***************************************************************************)
(* The rule and calibration versions change under the feet of a Mark, one  *)
(* transaction at a time: the steps of VersionRegister, which RuleVersions *)
(* and Stations implement.                                                 *)
(***************************************************************************)
PublishRule(r) ==
    /\ effRule' = {r}
    /\ UNCHANGED <<scanRow, gateRows, results, effCal, lock, pc, on, local, intact>>

RetireRule ==
    /\ effRule # {}
    /\ effRule' = {}
    /\ UNCHANGED <<scanRow, gateRows, results, effCal, lock, pc, on, local, intact>>

PublishCalibration(st, c) ==
    /\ effCal' = [effCal EXCEPT ![st] = {c}]
    /\ UNCHANGED <<scanRow, gateRows, results, effRule, lock, pc, on, local, intact>>

-----------------------------------------------------------------------------
Start(q) ==
    \/ StartAppend(q) \/ StartFinalize(q) \/ StartSeal(q)
    \/ StartMark(q) \/ StartRecompute(q)

AppendStep(q) == AppendCheck(q) \/ AppendUpsert(q) \/ AppendReturn(q)
StatusStep(q) ==
    FinalizeCheck(q) \/ FinalizeWrite(q) \/ SealCheck(q) \/ SealWrite(q)
MarkStep(q) ==
    \/ RecomputeCheck(q) \/ MarkLock(q) \/ MarkCheck(q) \/ MarkRule(q)
    \/ MarkCalibration(q) \/ MarkList(q) \/ MarkLabel(q) \/ MarkEvidence(q)
    \/ MarkRecord(q) \/ MarkCount(q) \/ MarkSummary(q) \/ MarkStatus(q)

Step(q) == AppendStep(q) \/ StatusStep(q) \/ MarkStep(q)

Environment ==
    \/ \E r \in Rule : PublishRule(r)
    \/ RetireRule
    \/ \E st \in Station, c \in Cal : PublishCalibration(st, c)

Next ==
    \/ \E q \in Req : Start(q) \/ Step(q) \/ Fail(q)
    \/ Crash
    \/ Environment

Spec == Init /\ [][Next]_vars

\* A goroutine that has work to do is eventually scheduled, and the mutex hands
\* the lock to a waiter once it is free.  Nothing obliges a request to arrive, a
\* statement to fail or a version to be published.
FairSpec == Spec /\ \A q \in Req : WF_vars(Step(q))

-----------------------------------------------------------------------------
(***************************************************************************)
(* Properties.                                                             *)
(***************************************************************************)
\* Type invariant of the tables, the locks and the requests (model/model.go).
TypeOK ==
    /\ status \in [Scan -> ScanStatus]
    /\ scanRule \in [Scan -> Rule \cup {NoRule}]
    /\ data \in [Scan -> Triples]
    /\ label \in [Scan -> Labels]
    /\ evidence \in [Scan -> Seq(EvidenceBatch)]
    /\ history \in [Scan -> Seq(MarkBatch)]
    /\ summary \in [Scan -> Summary \cup {NoSummary}]
    /\ effRule \in SUBSET Rule
    /\ effCal \in [Station -> SUBSET Cal]
    /\ lock \in [Scan -> Req \cup {NoReq}]
    /\ pc \in [Req -> PC]
    /\ on \in [Req -> Scan]
    /\ local \in [Req -> Local]
    /\ intact \in [Scan -> BOOLEAN]

\* The commits of one scan are serialised (mark_service.go:18-21): no two requests
\* are between Lock and Unlock on the same scan.
CommitsSerialised ==
    \A q1, q2 \in Req :
        on[q1] = on[q2] /\ pc[q1] \in Critical /\ pc[q2] \in Critical => q1 = q2

\* A rule version a scan points to has really produced results for it: a summary
\* and a complete batch of quality_marks by that version exist.  Finalize and Seal
\* write back a version they read earlier (ingest.go:134, scan_service.go:60), so
\* this must survive their stale writes, failures and crashes.
RuleHasResults ==
    \A s \in Scan :
        /\ status[s] = "marked" => scanRule[s] # NoRule
        /\ scanRule[s] # NoRule =>
              /\ summary[s] # NoSummary
              /\ \E i \in DOMAIN history[s] :
                    /\ history[s][i].rule = scanRule[s]
                    /\ \E g \in Gate : history[s][i].labels[g] # "none"

\* Every label that is not valid in the history is backed by a committed piece of
\* evidence of the same rule version (recorder.go:2), whatever failed in between.
EvidenceBacksHistory ==
    \A s \in Scan : \A i \in DOMAIN history[s] : \A g \in Gate :
        IsHit(history[s][i].labels, g) =>
            \E j \in DOMAIN evidence[s] :
                /\ evidence[s][j].rule = history[s][i].rule
                /\ evidence[s][j].hits[g] = history[s][i].labels[g]

\* What one undisturbed Mark leaves behind belongs together: the labels are the
\* verdicts of one rule version and one calibration on the variables stored now,
\* the history, the evidence and the summary say the same.
Consistent(s) ==
    LET last == history[s][Len(history[s])] IN
    /\ history[s] # <<>>
    /\ label[s] = last.labels
    /\ \E c \in Cal : label[s] = Classify(last.rule, c, data[s])
    /\ (\E g \in Gate : IsHit(label[s], g)) =>
          /\ evidence[s] # <<>>
          /\ evidence[s][Len(evidence[s])] = Hits(last.rule, label[s], data[s])
    /\ summary[s] = [rule |-> last.rule, count |-> CountLabels(label[s])]

\* Unless a gate was upserted after Mark had listed the gates, or a Mark stopped
\* half way, a scan no Mark is writing is consistent: publishing rules or
\* calibrations, finalizing, sealing and failing elsewhere cannot mix two results,
\* and the next undisturbed Mark repairs a scan a failure has left torn.
IntactIsConsistent ==
    \A s \in Scan :
        intact[s] /\ (\A q \in Req : on[q] = s => pc[q] \notin Writing) =>
            Consistent(s)

\* Rule versions that a table names, and those that a request has read.
Recorded(r) ==
    \E s \in Scan :
        \/ scanRule[s] = r \/ summary[s].rule = r
        \/ \E i \in DOMAIN history[s] : history[s][i].rule = r
        \/ \E i \in DOMAIN evidence[s] : evidence[s][i].rule = r

Held(r) == \E q \in Req : r \in {local[q].seen, local[q].rule}

\* Requests that have passed the check of the scan status and may still write.
Past == Checked \cup Preparing \cup Writing \cup {"status"}

Settled(s) ==
    status[s] = "sealed" /\ \A q \in Req : on[q] = s => pc[q] \notin Past

ScanFrozen(s) ==
    /\ status'[s] = status[s] /\ scanRule'[s] = scanRule[s]
    /\ data'[s] = data[s] /\ label'[s] = label[s]
    /\ evidence'[s] = evidence[s] /\ history'[s] = history[s]
    /\ summary'[s] = summary[s]

\* Once a scan is sealed and the requests that had passed their check before have
\* ended, nothing about it ever changes again (README.md:12, 17).
SettledIsFrozen ==
    [][\A s \in Scan : Settled(s) => Settled(s)' /\ ScanFrozen(s)]_vars

\* Every request ends: no waiter starves on the mutex, no holder forgets it, on
\* whatever return path it leaves.
RequestsEnd == \A q \in Req : pc[q] # "new" ~> pc[q] = "done"

-----------------------------------------------------------------------------
(***************************************************************************)
(* What the documents say and the code does not do.                        *)
(***************************************************************************)
\* README.md:17: sealed is a terminal status.
SealedIsTerminal ==
    [][\A s \in Scan : status[s] = "sealed" => status'[s] = "sealed"]_vars

\* README.md:12 and mark_service.go:168: an old label can be traced in the history.
\* When no Mark is writing to a scan, each verdict on its gates is in quality_marks.
LabelsTraceable ==
    \A s \in Scan :
        (\A q \in Req : on[q] = s => pc[q] \notin Writing) =>
            \A g \in Gate : label[s][g] \in Verdict =>
                \E i \in DOMAIN history[s] : history[s][i].labels[g] = label[s][g]
=============================================================================
