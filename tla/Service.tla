------------------------------ MODULE Service ------------------------------
(***************************************************************************)
(* The service as a whole: the requests of RuleVersions, Stations and      *)
(* ScanPipeline in one process, over one database.  A Mark reads the       *)
(* tables of rule versions and calibrations themselves, whatever their own *)
(* requests are doing; scans come from CreateScan; and a stop of the       *)
(* process ends the requests of all kinds at the same moment.              *)
(*                                                                         *)
(* The components are taken with their theorems, and their properties are  *)
(* stated again of the whole.                                              *)
(***************************************************************************)
EXTENDS Naturals

CONSTANTS
    Station, Number, Gate, Value, Missing, Absent,
    Name, MaxRuleVersion, MaxCalVersion, Decide,
    RuleReq, StationReq, ScanReq,                 \* the requests of each component
    NoKey, Nobody, Nothing, NoRule, NoCal, NoReq, \* null values
    MaxRows

VARIABLES
    row, rulePc, target,                          \* of RuleVersions
    stationStatus, cal, scans, stationPc, at, arg, \* of Stations
    status, scanRule, data, label, evidence, history, summary, lock,
    pc, on, local, intact                         \* of ScanPipeline

ruleVars    == <<row, rulePc, target>>
stationVars == <<stationStatus, cal, scans, stationPc, at, arg>>
scanVars    == <<status, scanRule, data, label, evidence, history, summary, lock,
                 pc, on, local, intact>>
vars == <<ruleVars, stationVars, scanVars>>

-----------------------------------------------------------------------------
(***************************************************************************)
(* The components.                                                         *)
(***************************************************************************)
Rules == INSTANCE RuleVersions_proofs
    WITH MaxVersion <- MaxRuleVersion, Req <- RuleReq, pc <- rulePc

Sites == INSTANCE Stations_proofs
    WITH MaxVersion <- MaxCalVersion, Req <- StationReq, status <- stationStatus,
         pc <- stationPc

\* A scan is the key of its row, a calibration that of its own.
Scan      == Station \X Number
StationOf == [s \in Scan |-> s[1]]
Cal       == Station \X Sites!Version

\* The versions the queries Effective and EffectiveForStation choose from.
effRule == Rules!Effective
effCal  == [s \in Station |-> {s} \X Sites!Effective(s)]

Pipe == INSTANCE ScanPipeline_proofs WITH Rule <- Rules!Key, Req <- ScanReq

ASSUME ServiceAssumption ==
    /\ NoKey \notin Rules!Key
    /\ Nobody \notin StationReq /\ Nothing \notin Station
    /\ Pipe!PipelineAssumption

Init == Rules!Init /\ Sites!Init /\ Pipe!Init

-----------------------------------------------------------------------------
RuleRequest ==
    /\ UNCHANGED <<stationVars, scanVars>>
    /\ \E q \in RuleReq : Rules!Step(q)

StationRequest ==
    /\ UNCHANGED <<ruleVars, scanVars>>
    /\ \/ \E s \in Station : Sites!CreateStation(s)
       \/ \E q \in StationReq : Sites!Step(q)

\* CreateScan has inserted the row and answered with its identifier.
Created(s) == scans[s[1]][s[2]] # Nobody

ScanRequest ==
    /\ UNCHANGED <<ruleVars, stationVars>>
    /\ \E q \in ScanReq :
          /\ Created(on[q])
          /\ Pipe!Start(q) \/ Pipe!Step(q) \/ Pipe!Fail(q)

\* The process ends: the tables stay as they are, the rest is gone.
Crash ==
    /\ rulePc' = [q \in RuleReq |-> "idle"]
    /\ target' = [q \in RuleReq |-> NoKey]
    /\ stationPc' = [q \in StationReq |-> "idle"]
    /\ at' = [q \in StationReq |-> Nothing]
    /\ arg' = [q \in StationReq |-> Nothing]
    /\ UNCHANGED <<row, stationStatus, cal, scans>>
    /\ \/ Pipe!Crash
       \/ ~ (\E q \in ScanReq : Pipe!Running(q)) /\ UNCHANGED scanVars

Next == RuleRequest \/ StationRequest \/ ScanRequest \/ Crash

Spec == Init /\ [][Next]_vars

-----------------------------------------------------------------------------
(***************************************************************************)
(* Properties.                                                             *)
(***************************************************************************)
\* Type invariant of all tables and requests together.
TypeOK == Rules!TypeOK /\ Sites!TypeOK /\ Pipe!TypeOK

\* A Mark never has a choice, between two rule versions (mark_service.go:62) or two
\* calibrations of its station: publishing is exclusive over all names of rules
\* (rule_store.go:88) and over the calibrations of a station (calibration_store.go:83),
\* however many requests overlap and wherever the process stops.
AtMostOneEffective == Rules!AtMostOneEffective /\ Sites!AtMostOneEffective

\* The versions of a rule name and the calibrations of a station are numbered 1, 2,
\* 3 ... without a gap (ruleset.go:22, applier.go:77), although the number is read in
\* one statement and inserted in another, and requests fail or are lost in between.
VersionsDense == Rules!VersionsDense /\ Sites!VersionsDense

\* A version that has been published is never a draft again and never gone: no insert
\* of a racing CreateDraft takes its row (ruleset.go:30), no Publish or Retire of
\* another version puts it back, and what a Mark has recorded stays a published version.
PublishedForGood ==
    [][/\ \A r \in Rules!Key :
             row[r] \in {"effective", "retired"} => row'[r] \in {"effective", "retired"}
       /\ \A s \in Station, v \in Sites!Version :
             cal[s][v] \in {"effective", "superseded"} =>
                 cal'[s][v] \in {"effective", "superseded"}]_vars

\* The effective rule version and the effective calibration of each station are
\* registers: drafts, lost races, failures and stops of the process do not show in them,
\* a rule is replaced or withdrawn in one step, and a calibration is replaced in one step
\* of its own station and never lost (rule_store.go:89, calibration_store.go:83).
ActsAsRegisters == Rules!ActsAsRegister /\ Sites!ActsAsRegisters

\* A scan number of a station is given to one request only and its scan is never
\* replaced (scan_store.go:14), although two requests may both have found it free.
NumberClaimedOnce ==
    [][\A s \in Station, n \in Number : Created(<<s, n>>) => scans'[s][n] = scans[s][n]]_vars

\* A station that calibrates or is disabled receives no scan (model.go:11), as soon as
\* the requests that have seen it active are gone: only a return to active opens it
\* again, and a stop of the process does not.  The requests in flight may still insert
\* theirs (ingest.go:37, 71).
ClosedReceivesNothing ==
    [][\A s \in Station : Sites!Closed(s) =>
          /\ scans'[s] = scans[s]
          /\ Sites!Closed(s)' \/ stationStatus'[s] = "active"]_vars

\* Every rule version that a table names or a request holds is one that has been
\* published and is still there, and so is every calibration a Mark holds, which is one
\* of its scan's station: no foreign key ties rule_version_id to the rule versions
\* (db.go:99, 127, 153), calibrations are not recorded at all, and both are published,
\* replaced and retired while the Mark that has read them goes on.
VersionsInUsePublished ==
    /\ \A r \in Rules!Key :
          Pipe!Recorded(r) \/ Pipe!Held(r) => row[r] \in {"effective", "retired"}
    /\ \A q \in ScanReq, s \in Station, v \in Sites!Version :
          local[q].cal = <<s, v>> =>
              on[q][1] = s /\ cal[s][v] \in {"effective", "superseded"}

\* What the requests on scans see of the two stores, their races, failures and stops
\* is what ScanPipeline assumes of them, so that all its properties hold of the
\* service: a version is replaced or withdrawn in one step (rule_store.go:88,
\* calibration_store.go:83), and a stop of the process ends the requests of all kinds
\* without leaving a lock behind.
ActsAsPipeline == Pipe!Spec
=============================================================================
