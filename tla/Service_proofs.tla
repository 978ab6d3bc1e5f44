--------------------------- MODULE Service_proofs ---------------------------
(***************************************************************************)
(* Theorems about the service as a whole.  The components keep their own   *)
(* invariants, each cited with its lemma: what is new is that a stop of    *)
(* the process ends requests of all kinds at once, that a Mark reads the   *)
(* tables in the middle of their requests, and that what it has read goes  *)
(* out of date while it runs.                                              *)
(***************************************************************************)
EXTENDS Service, TLAPS

(***************************************************************************)
(* A step of the service is a step of the components, or ends all requests *)
(* of the two stores.                                                      *)
(***************************************************************************)
RulesForget ==
    /\ row' = row
    /\ rulePc' = [q \in RuleReq |-> "idle"]
    /\ target' = [q \in RuleReq |-> NoKey]

SitesForget ==
    /\ UNCHANGED <<stationStatus, cal, scans>>
    /\ stationPc' = [q \in StationReq |-> "idle"]
    /\ at' = [q \in StationReq |-> Nothing]
    /\ arg' = [q \in StationReq |-> Nothing]

LEMMA RulesFrame ==
    ASSUME [Next]_vars
    PROVE  [Rules!Next]_(Rules!vars) \/ RulesForget
<1>1. CASE UNCHANGED vars
  BY <1>1 DEF vars, ruleVars, Rules!vars
<1>2. CASE RuleRequest
  BY <1>2 DEF RuleRequest, Rules!Next
<1>3. CASE StationRequest \/ ScanRequest
  BY <1>3 DEF StationRequest, ScanRequest, ruleVars, Rules!vars
<1>4. CASE Crash
  BY <1>4 DEF Crash, RulesForget
<1> QED
  BY <1>1, <1>2, <1>3, <1>4 DEF Next

LEMMA SitesFrame ==
    ASSUME [Next]_vars
    PROVE  [Sites!Next]_(Sites!vars) \/ SitesForget
<1>1. CASE UNCHANGED vars
  BY <1>1 DEF vars, stationVars, Sites!vars
<1>2. CASE StationRequest
  BY <1>2 DEF StationRequest, Sites!Next
<1>3. CASE RuleRequest \/ ScanRequest
  BY <1>3 DEF RuleRequest, ScanRequest, stationVars, Sites!vars
<1>4. CASE Crash
  BY <1>4 DEF Crash, SitesForget
<1> QED
  BY <1>1, <1>2, <1>3, <1>4 DEF Next

(***************************************************************************)
(* The invariants of the two stores.                                       *)
(***************************************************************************)
RulesInv ==
    Rules!TypeOK /\ Rules!Pending /\ Rules!AtMostOneEffective /\ Rules!VersionsDense

SitesInv ==
    Sites!TypeOK /\ Sites!Pending /\ Sites!AtMostOneEffective /\ Sites!VersionsDense

LEMMA RulesInvStep == ASSUME RulesInv, [Next]_vars PROVE RulesInv'
<1>1. CASE [Rules!Next]_(Rules!vars)
  BY <1>1, Rules!TypeStep, Rules!PendingStep, Rules!OneEffectiveStep, Rules!DenseStep
     DEF RulesInv
<1>2. CASE RulesForget
  BY <1>2 DEF RulesInv, RulesForget, Rules!TypeOK, Rules!Pending,
              Rules!AtMostOneEffective, Rules!Effective, Rules!VersionsDense, Rules!Used
<1> QED
  BY <1>1, <1>2, RulesFrame

LEMMA SitesInvStep == ASSUME SitesInv, [Next]_vars PROVE SitesInv'
<1>1. CASE [Sites!Next]_(Sites!vars)
  BY <1>1, Sites!TypeStep, Sites!PendingStep, Sites!OneEffectiveStep, Sites!DenseStep
     DEF SitesInv
<1>2. CASE SitesForget
  BY <1>2 DEF SitesInv, SitesForget, Sites!TypeOK, Sites!PC, Sites!Suits, Sites!Pending,
              Sites!CalRead, Sites!AtMostOneEffective, Sites!Effective,
              Sites!VersionsDense, Sites!Used
<1> QED
  BY <1>1, <1>2, SitesFrame

LEMMA StoresInit == Init => RulesInv /\ SitesInv
<1> SUFFICES ASSUME Rules!Init, Sites!Init PROVE RulesInv /\ SitesInv
  BY DEF Init
<1>1. Rules!TypeOK /\ Rules!Pending /\ Rules!AtMostOneEffective
  BY DEF Rules!Init, Rules!TypeOK, Rules!RuleStatus, Rules!Write, Rules!Pending,
         Rules!AtMostOneEffective, Rules!Effective
<1>2. \A n \in Name, v \in Rules!Version : v \notin Rules!Used(n)
  BY DEF Rules!Init, Rules!Used, Rules!Key
<1>3. Sites!TypeOK /\ Sites!Pending /\ Sites!AtMostOneEffective
  BY ServiceAssumption
     DEF Sites!Init, Sites!TypeOK, Sites!PC, Sites!Suits, Sites!StationStatus,
         Sites!CalStatus, Sites!Pending, Sites!AtMostOneEffective, Sites!Effective
<1>4. Sites!VersionsDense
  BY DEF Sites!Init, Sites!VersionsDense, Sites!Used
<1> QED
  BY <1>1, <1>2, <1>3, <1>4 DEF RulesInv, SitesInv, Rules!VersionsDense

LEMMA StoresInvariant == Spec => [](RulesInv /\ SitesInv)
<1>1. RulesInv /\ SitesInv /\ [Next]_vars => (RulesInv /\ SitesInv)'
  BY RulesInvStep, SitesInvStep
<1> QED
  BY <1>1, StoresInit, PTL DEF Spec

-----------------------------------------------------------------------------
(***************************************************************************)
(* The promises of the two stores, which survive a stop of the process.    *)
(***************************************************************************)
\* Publishing is exclusive in both stores (rule_store.go:88, calibration_store.go:83).
THEOREM PublishingIsExclusive == Spec => []AtMostOneEffective
<1>1. RulesInv /\ SitesInv => AtMostOneEffective
  BY DEF RulesInv, SitesInv, AtMostOneEffective
<1> QED
  BY <1>1, StoresInvariant, PTL

\* Versions are numbered without a gap in both stores (ruleset.go:22, applier.go:77).
THEOREM NumbersAreDense == Spec => []VersionsDense
<1>1. RulesInv /\ SitesInv => VersionsDense
  BY DEF RulesInv, SitesInv, VersionsDense
<1> QED
  BY <1>1, StoresInvariant, PTL

\* A published version may be replaced or retired, but stays published.
LEMMA PublishedRuleStays ==
    ASSUME RulesInv, [Next]_vars, NEW r \in Rules!Key, row[r] \in {"effective", "retired"}
    PROVE  row'[r] \in {"effective", "retired"}
<1>1. CASE [Rules!Next]_(Rules!vars)
  BY <1>1, Rules!RowsOnlyAdvance DEF RulesInv
<1>2. CASE RulesForget
  BY <1>2 DEF RulesForget
<1> QED
  BY <1>1, <1>2, RulesFrame

LEMMA PublishedCalStays ==
    ASSUME SitesInv, [Next]_vars, NEW s \in Station, NEW v \in Sites!Version,
           cal[s][v] \in {"effective", "superseded"}
    PROVE  cal'[s][v] \in {"effective", "superseded"}
<1>1. CASE [Sites!Next]_(Sites!vars)
  BY <1>1, Sites!PublishedStays DEF SitesInv
<1>2. CASE SitesForget
  BY <1>2 DEF SitesForget
<1> QED
  BY <1>1, <1>2, SitesFrame

\* No race, failure or stop makes a published version a draft again or takes its row
\* (ruleset.go:30, rule_store.go:88, applier.go:85, calibration_store.go:83).
THEOREM PublishedIsForGood == Spec => PublishedForGood
<1>1. RulesInv /\ SitesInv /\ [Next]_vars =>
        [/\ \A r \in Rules!Key :
               row[r] \in {"effective", "retired"} => row'[r] \in {"effective", "retired"}
         /\ \A s \in Station, v \in Sites!Version :
               cal[s][v] \in {"effective", "superseded"} =>
                   cal'[s][v] \in {"effective", "superseded"}]_vars
  BY PublishedRuleStays, PublishedCalStays
<1> QED
  BY <1>1, StoresInvariant, PTL DEF Spec, PublishedForGood

\* Both stores implement the registers a Mark reads, stops of the process included
\* (rule_store.go:58, 88, calibration_store.go:83-106).
THEOREM ImplementsRegisters == Spec => ActsAsRegisters
<1>1. Init => Rules!Register!Init /\ Sites!Register!Init
  BY DEF Init, Rules!Init, Rules!Register!Init, Rules!Effective,
         Sites!Init, Sites!Register!Init, Sites!Effective
<1>2. /\ RulesInv /\ [Next]_vars
      => [Rules!Register!Next]_[o \in {"service"} |-> Rules!Effective]
  <2> SUFFICES ASSUME RulesInv, [Next]_vars
               PROVE  [Rules!Register!Next]_[o \in {"service"} |-> Rules!Effective]
    OBVIOUS
  <2>1. CASE [Rules!Next]_(Rules!vars)
    BY <2>1, Rules!RegisterStep DEF RulesInv
  <2>2. CASE RulesForget
    BY <2>2 DEF RulesForget, Rules!Effective
  <2> QED
    BY <2>1, <2>2, RulesFrame
<1>3. /\ SitesInv /\ [Next]_vars
      => [Sites!Register!Next]_[s \in Station |-> Sites!Effective(s)]
  <2> SUFFICES ASSUME SitesInv, [Next]_vars
               PROVE  [Sites!Register!Next]_[s \in Station |-> Sites!Effective(s)]
    OBVIOUS
  <2>1. CASE [Sites!Next]_(Sites!vars)
    BY <2>1, Sites!RegisterStep DEF SitesInv
  <2>2. CASE SitesForget
    BY <2>2 DEF SitesForget, Sites!Effective
  <2> QED
    BY <2>1, <2>2, SitesFrame
<1> QED
  BY <1>1, <1>2, <1>3, StoresInvariant, PTL
     DEF Spec, ActsAsRegisters, Rules!ActsAsRegister, Rules!Register!Spec,
         Sites!ActsAsRegisters, Sites!Register!Spec

\* A scan number is given once and its scan never replaced (scan_store.go:14), whatever
\* the process is doing when it stops.
THEOREM NumbersAreClaimedOnce == Spec => NumberClaimedOnce
<1>1. ASSUME SitesInv, [Next]_vars, NEW s \in Station, NEW n \in Number, Created(<<s, n>>)
      PROVE  scans'[s][n] = scans[s][n]
  <2>1. scans[s][n] # Nobody
    BY <1>1 DEF Created
  <2>2. CASE [Sites!Next]_(Sites!vars)
    BY <1>1, <2>1, <2>2, Sites!ClaimedStep DEF SitesInv
  <2>3. CASE SitesForget
    BY <2>3 DEF SitesForget
  <2> QED
    BY <1>1, <2>2, <2>3, SitesFrame
<1>2. SitesInv /\ [Next]_vars =>
        [\A s \in Station, n \in Number :
            Created(<<s, n>>) => scans'[s][n] = scans[s][n]]_vars
  BY <1>1
<1> QED
  BY <1>2, StoresInvariant, PTL DEF Spec, NumberClaimedOnce

\* A station that is not active receives no scan once the requests that had seen it
\* active have ended or were lost with the process (model.go:11, ingest.go:37).
THEOREM ClosedStationsReceiveNothing == Spec => ClosedReceivesNothing
<1>1. ASSUME SitesInv, [Next]_vars, NEW s \in Station, Sites!Closed(s)
      PROVE  /\ scans'[s] = scans[s]
             /\ Sites!Closed(s)' \/ stationStatus'[s] = "active"
  <2>1. CASE [Sites!Next]_(Sites!vars)
    BY <1>1, <2>1, Sites!ClosedStep DEF SitesInv
  <2>2. CASE SitesForget
    BY <1>1, <2>2 DEF SitesForget, Sites!Closed
  <2> QED
    BY <1>1, <2>1, <2>2, SitesFrame
<1>2. SitesInv /\ [Next]_vars =>
        [\A s \in Station : Sites!Closed(s) =>
            /\ scans'[s] = scans[s]
            /\ Sites!Closed(s)' \/ stationStatus'[s] = "active"]_vars
  BY <1>1
<1> QED
  BY <1>2, StoresInvariant, PTL DEF Spec, ClosedReceivesNothing

-----------------------------------------------------------------------------
(***************************************************************************)
(* What a Mark reads.                                                      *)
(***************************************************************************)
\* The queries of a Mark find the version the register holds: a step of the stores
\* publishes one version, withdraws one or does not show.
LEMMA RuleReadStep ==
    ASSUME RulesInv, [Next]_vars
    PROVE  \/ effRule' = effRule
           \/ effRule' = {}
           \/ \E r \in Rules!Key : effRule' = {r}
<1>1. CASE [Rules!Next]_(Rules!vars)
  BY <1>1, Rules!EffectiveStep DEF RulesInv, effRule
<1>2. CASE RulesForget
  BY <1>2 DEF RulesForget, effRule, Rules!Effective
<1> QED
  BY <1>1, <1>2, RulesFrame

LEMMA CalReadStep ==
    ASSUME SitesInv, [Next]_vars
    PROVE  \/ effCal' = effCal
           \/ \E s \in Station, c \in Cal : effCal' = [effCal EXCEPT ![s] = {c}]
<1>1. CASE \A s \in Station : Sites!Effective(s)' = Sites!Effective(s)
  BY <1>1 DEF effCal
<1>2. ASSUME NEW s \in Station, NEW v \in Sites!Version, Sites!Effective(s)' = {v},
             \A x \in Station \ {s} : Sites!Effective(x)' = Sites!Effective(x)
      PROVE  \E c \in Cal : effCal' = [effCal EXCEPT ![s] = {c}]
  <2>1. {s} \X {v} = {<<s, v>>} /\ <<s, v>> \in Cal
    BY DEF Cal
  <2>2. effCal' = [effCal EXCEPT ![s] = {<<s, v>>}]
    BY <1>2, <2>1 DEF effCal
  <2> QED
    BY <2>1, <2>2
<1>3. CASE SitesForget
  <2>1. \A s \in Station : Sites!Effective(s)' = Sites!Effective(s)
    BY <1>3 DEF SitesForget, Sites!Effective
  <2> QED
    BY <2>1, <1>1
<1>4. CASE [Sites!Next]_(Sites!vars)
  BY <1>1, <1>2, <1>4, Sites!EffectiveStep DEF SitesInv
<1> QED
  BY <1>3, <1>4, SitesFrame

(***************************************************************************)
(* The service implements ScanPipeline.                                    *)
(***************************************************************************)
\* Every step of the service is one of ScanPipeline or does not show in it.
LEMMA PipelineStep ==
    ASSUME RulesInv, SitesInv, [Next]_vars
    PROVE  [Pipe!Next]_(Pipe!vars)
<1> USE DEF Pipe!vars, Pipe!scanRow, Pipe!gateRows, Pipe!results, Pipe!versions
<1>1. CASE UNCHANGED <<scanVars, effRule, effCal>>
  BY <1>1 DEF scanVars
<1>2. CASE ScanRequest
  BY <1>2 DEF ScanRequest, Pipe!Next
<1>3. CASE Crash
  <2>1. UNCHANGED <<effRule, effCal>>
    BY <1>3 DEF Crash, effRule, effCal, Rules!Effective, Sites!Effective
  <2> QED
    BY <1>1, <1>3, <2>1 DEF Crash, Pipe!Next
<1>4. CASE RuleRequest
  <2>1. UNCHANGED <<scanVars, effCal>>
    BY <1>4 DEF RuleRequest, stationVars, effCal, Sites!Effective
  <2>2. CASE effRule' = effRule
    BY <1>1, <2>1, <2>2
  <2>3. CASE effRule' = {} /\ effRule # {}
    <3>1. Pipe!RetireRule
      BY <2>1, <2>3 DEF scanVars, Pipe!RetireRule
    <3> QED
      BY <3>1 DEF Pipe!Next, Pipe!Environment
  <2>4. ASSUME NEW r \in Rules!Key, effRule' = {r} PROVE Pipe!Next
    <3>1. Pipe!PublishRule(r)
      BY <2>1, <2>4 DEF scanVars, Pipe!PublishRule
    <3> QED
      BY <3>1 DEF Pipe!Next, Pipe!Environment
  <2> QED
    BY <2>2, <2>3, <2>4, RuleReadStep
<1>5. CASE StationRequest
  <2>1. UNCHANGED <<scanVars, effRule>>
    BY <1>5 DEF StationRequest, ruleVars, effRule, Rules!Effective
  <2>2. CASE effCal' = effCal
    BY <1>1, <2>1, <2>2
  <2>3. ASSUME NEW s \in Station, NEW c \in Cal, effCal' = [effCal EXCEPT ![s] = {c}]
        PROVE  Pipe!Next
    <3>1. Pipe!PublishCalibration(s, c)
      BY <2>1, <2>3 DEF scanVars, Pipe!PublishCalibration
    <3> QED
      BY <3>1 DEF Pipe!Next, Pipe!Environment
  <2> QED
    BY <2>2, <2>3, CalReadStep
<1>6. CASE UNCHANGED vars
  <2>1. UNCHANGED <<scanVars, effRule, effCal>>
    BY <1>6 DEF vars, ruleVars, stationVars, effRule, effCal, Rules!Effective, Sites!Effective
  <2> QED
    BY <1>1, <2>1
<1> QED
  BY <1>2, <1>3, <1>4, <1>5, <1>6 DEF Next

\* The service implements ScanPipeline: whatever the requests on rules, stations and
\* calibrations do, fail at or leave behind at a stop of the process, a Mark reads
\* versions as if each were published and withdrawn in one step (rule_store.go:58, 88,
\* calibration_store.go:83-106).
THEOREM ImplementsPipeline == Spec => ActsAsPipeline
<1>1. Init => Pipe!Init
  BY DEF Init
<1>2. RulesInv /\ SitesInv /\ [Next]_vars => [Pipe!Next]_(Pipe!vars)
  BY PipelineStep
<1> QED
  BY <1>1, <1>2, StoresInvariant, PTL DEF Spec, ActsAsPipeline, Pipe!Spec

\* Therefore everything that is proved of ScanPipeline holds of the service.
THEOREM ResultsStaySound ==
    Spec => /\ [](/\ Pipe!CommitsSerialised /\ Pipe!RuleHasResults
                  /\ Pipe!EvidenceBacksHistory /\ Pipe!IntactIsConsistent)
            /\ Pipe!SettledIsFrozen
<1>1. Pipe!PipelineAssumption
  BY ServiceAssumption
<1>2. /\ Pipe!Spec => []Pipe!CommitsSerialised
      /\ Pipe!Spec => []Pipe!RuleHasResults
      /\ Pipe!Spec => []Pipe!EvidenceBacksHistory
      /\ Pipe!Spec => []Pipe!IntactIsConsistent
      /\ Pipe!Spec => Pipe!SettledIsFrozen
  BY <1>1, Pipe!MarkMutualExclusion, Pipe!RuleOfScanHasResults, Pipe!HistoryHasEvidence,
     Pipe!UndisturbedIsConsistent, Pipe!SealedScanIsFrozen
<1> QED
  BY <1>2, ImplementsPipeline, PTL DEF ActsAsPipeline

\* The tables and the requests of the whole service keep their types.
THEOREM TypeCorrect == Spec => []TypeOK
<1>1. Pipe!Spec => []Pipe!TypeOK
  BY ServiceAssumption, Pipe!TypeCorrect
<1>2. RulesInv /\ SitesInv /\ Pipe!TypeOK => TypeOK
  BY DEF RulesInv, SitesInv, TypeOK
<1> QED
  BY <1>1, <1>2, ImplementsPipeline, StoresInvariant, PTL DEF ActsAsPipeline

(***************************************************************************)
(* The versions that are in use.                                           *)
(***************************************************************************)
\* A request reads a version that is effective, and only writes what it has read.
LEMMA VersionsStep ==
    ASSUME RulesInv, SitesInv, Pipe!TypeInv, VersionsInUsePublished, [Next]_vars
    PROVE  VersionsInUsePublished'
<1>1. [Pipe!Next]_(Pipe!vars) /\ Pipe!PipelineAssumption
  BY PipelineStep, ServiceAssumption
<1>2. ASSUME NEW r \in Rules!Key, (Pipe!Recorded(r) \/ Pipe!Held(r))'
      PROVE  row'[r] \in {"effective", "retired"}
  <2>1. Pipe!Recorded(r) \/ Pipe!Held(r) \/ r \in effRule
    BY <1>1, <1>2, Pipe!VersionsComeFrom
  <2>2. row[r] \in {"effective", "retired"}
    BY <2>1 DEF VersionsInUsePublished, effRule, Rules!Effective
  <2> QED
    BY <2>2, PublishedRuleStays
<1>3. ASSUME NEW q \in ScanReq, NEW s \in Station, NEW v \in Sites!Version,
             local'[q].cal = <<s, v>>
      PROVE  on'[q][1] = s /\ cal'[s][v] \in {"effective", "superseded"}
  <2>1. on'[q] = on[q] /\ local'[q].cal \in {NoCal, local[q].cal} \cup effCal[StationOf[on[q]]]
    BY <1>1, Pipe!CalibrationsComeFrom
  <2>2. <<s, v>> # NoCal
    BY <1>1 DEF Cal, Pipe!PipelineAssumption
  <2>3. CASE <<s, v>> \in effCal[StationOf[on[q]]]
    <3>1. on[q] \in Scan
      BY DEF Pipe!TypeInv, Pipe!TypeOK
    <3>2. StationOf[on[q]] = on[q][1] /\ on[q][1] \in Station
      BY <3>1 DEF StationOf, Scan
    <3>3. on[q][1] = s /\ v \in Sites!Effective(s)
      BY <2>3, <3>2 DEF effCal
    <3>4. cal[s][v] = "effective"
      BY <3>3 DEF Sites!Effective
    <3> QED
      BY <2>1, <3>3, <3>4, PublishedCalStays
  <2>4. CASE local[q].cal = <<s, v>>
    BY <2>1, <2>4, PublishedCalStays DEF VersionsInUsePublished
  <2> QED
    BY <1>3, <2>1, <2>2, <2>3, <2>4
<1> QED
  BY <1>2, <1>3 DEF VersionsInUsePublished

\* The rule versions in the tables have all been published, and a Mark only works with
\* versions that have, although the reads and the writes of all requests are apart
\* (mark_service.go:59, 75, 164, ruleset.go:52, applier.go:98) and no constraint of the
\* schema says so (db.go:99, 127, 153).
THEOREM UsedVersionsArePublished == Spec => []VersionsInUsePublished
<1>1. Init => VersionsInUsePublished
  <2> SUFFICES ASSUME Pipe!Init
               PROVE  VersionsInUsePublished
    BY DEF Init
  <2>1. NoRule \notin Rules!Key /\ NoCal \notin Cal
    BY ServiceAssumption DEF Pipe!PipelineAssumption
  <2>2. ASSUME NEW r \in Rules!Key
        PROVE  ~ Pipe!Recorded(r) /\ ~ Pipe!Held(r)
    <3>1. \A s \in Scan : /\ scanRule[s] = NoRule /\ summary[s].rule = NoRule
                          /\ history[s] = <<>> /\ evidence[s] = <<>>
      BY DEF Pipe!Init, Pipe!NoSummary
    <3>2. \A q \in ScanReq : local[q].seen = NoRule /\ local[q].rule = NoRule
      BY DEF Pipe!Init, Pipe!Blank
    <3> QED
      BY <2>1, <3>1, <3>2 DEF Pipe!Recorded, Pipe!Held
  <2>3. ASSUME NEW q \in ScanReq, NEW s \in Station, NEW v \in Sites!Version
        PROVE  local[q].cal # <<s, v>>
    <3>1. local[q].cal = NoCal
      BY DEF Pipe!Init, Pipe!Blank
    <3>2. <<s, v>> \in Cal
      BY DEF Cal
    <3> QED
      BY <2>1, <3>1, <3>2
  <2> QED
    BY <2>2, <2>3 DEF VersionsInUsePublished
<1>2. /\ RulesInv /\ SitesInv /\ Pipe!TypeInv /\ VersionsInUsePublished /\ [Next]_vars
      => VersionsInUsePublished'
  BY VersionsStep
<1>3. Pipe!Spec => []Pipe!TypeInv
  BY ServiceAssumption, Pipe!TypeInvariant
<1> QED
  BY <1>1, <1>2, <1>3, StoresInvariant, ImplementsPipeline, PTL DEF Spec, ActsAsPipeline
=============================================================================
