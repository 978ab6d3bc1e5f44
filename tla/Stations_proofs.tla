-------------------------- MODULE Stations_proofs --------------------------
(***************************************************************************)
(* Theorems about Stations, for any stations, numbers, requests and bound. *)
(***************************************************************************)
EXTENDS Stations, TLAPS

(***************************************************************************)
(* Type correctness.                                                       *)
(***************************************************************************)
\* A request begins on a row that exists, with an argument that suits its write.
LEMMA BeginType ==
    ASSUME TypeOK, NEW q \in Req, NEW next \in PC, NEW s \in Station, NEW a,
           Suits(next, a), Begin(q, next, s, a), UNCHANGED <<status, cal, scans>>
    PROVE  TypeOK'
<1>1. pc' \in [Req -> PC] /\ at' \in [Req -> Station \cup {Nothing}]
  BY DEF TypeOK, Begin
<1>2. arg' = [r \in Req |-> arg'[r]]
  BY DEF TypeOK, Begin
<1>3. ASSUME NEW r \in Req
      PROVE  /\ pc'[r] # "idle" => at'[r] \in Station
             /\ Suits(pc'[r], arg'[r])
  <2>1. CASE r = q
    <3>1. pc'[r] = next /\ at'[r] = s /\ arg'[r] = a
      BY <2>1 DEF TypeOK, Begin
    <3> QED
      BY <3>1
  <2>2. CASE r # q
    <3>1. pc'[r] = pc[r] /\ at'[r] = at[r] /\ arg'[r] = arg[r]
      BY <2>2 DEF TypeOK, Begin
    <3> QED
      BY <3>1 DEF TypeOK
  <2> QED
    BY <2>1, <2>2
<1> QED
  BY <1>1, <1>2, <1>3 DEF TypeOK, Suits

\* The same when the first read refuses it.
LEMMA RefuseType ==
    ASSUME TypeOK, NEW q \in Req, Refuse(q), UNCHANGED <<status, cal, scans>>
    PROVE  TypeOK'
BY DEF TypeOK, Refuse

\* The same when it returns, if the write it has done keeps the tables well typed.
LEMMA ReturnType ==
    ASSUME TypeOK, NEW q \in Req, Return(q),
           status' \in [Station -> StationStatus \cup {"absent"}],
           cal' \in [Station -> [Version -> CalStatus \cup {"absent"}]],
           scans' \in [Station -> [Number -> Req \cup {Nobody}]]
    PROVE  TypeOK'
<1>1. ASSUME NEW x \in Req
      PROVE  /\ pc'[x] \in PC /\ at'[x] \in Station \cup {Nothing}
             /\ pc'[x] # "idle" => at'[x] \in Station
             /\ Suits(pc'[x], arg'[x])
  <2>1. CASE x = q
    BY <2>1 DEF Return, TypeOK, PC, Suits
  <2>2. CASE x # q
    BY <2>2 DEF Return, TypeOK
  <2> QED
    BY <2>1, <2>2
<1>2. /\ pc' \in [Req -> PC] /\ at' \in [Req -> Station \cup {Nothing}]
      /\ arg' = [x \in Req |-> arg'[x]]
  BY <1>1 DEF Return, TypeOK, PC
<1> QED
  BY <1>1, <1>2 DEF TypeOK

\* Every step keeps the types: a request always works on rows of the tables.
LEMMA TypeStep == ASSUME TypeOK, [Next]_vars PROVE TypeOK'
<1>1. CASE UNCHANGED vars
  BY <1>1 DEF vars, TypeOK
<1>2. ASSUME NEW s \in Station, CreateStation(s) PROVE TypeOK'
  BY <1>2 DEF CreateStation, TypeOK, StationStatus
<1>3. ASSUME NEW q \in Req, Step(q) PROVE TypeOK'
  <2>1. CASE TransitionCheck(q)
    <3>1. ASSUME NEW s \in Station, NEW to \in StationStatus, Begin(q, "transition", s, to)
          PROVE  TypeOK'
      BY <2>1, <3>1, BeginType DEF TransitionCheck, Suits, PC
    <3> QED
      BY <2>1, <3>1, RefuseType DEF TransitionCheck
  <2>2. CASE TransitionWrite(q)
    BY <2>2, ReturnType DEF TransitionWrite, TypeOK, Suits
  <2>3. CASE CreateCalCheck(q)
    <3>1. ASSUME NEW s \in Station, NEW v \in Version, Begin(q, "insertCal", s, v)
          PROVE  TypeOK'
      BY <2>3, <3>1, BeginType DEF CreateCalCheck, Suits, PC
    <3> QED
      BY <2>3, <3>1, RefuseType DEF CreateCalCheck
  <2>4. CASE CreateCalInsert(q)
    <3>1. cal' \in [Station -> [Version -> CalStatus \cup {"absent"}]]
      BY <2>4 DEF CreateCalInsert, TypeOK, Suits, CalStatus
    <3> QED
      BY <2>4, <3>1, ReturnType DEF CreateCalInsert, TypeOK
  <2>5. CASE PublishCalCheck(q)
    <3>1. ASSUME NEW s \in Station, NEW v \in Version, Begin(q, "publishCal", s, v)
          PROVE  TypeOK'
      BY <2>5, <3>1, BeginType DEF PublishCalCheck, Suits, PC
    <3> QED
      BY <2>5, <3>1, RefuseType DEF PublishCalCheck
  <2>6. CASE PublishCalWrite(q)
    <3>1. cal' \in [Station -> [Version -> CalStatus \cup {"absent"}]]
      BY <2>6 DEF PublishCalWrite, PublishVersion, TypeOK, CalStatus
    <3> QED
      BY <2>6, <3>1, ReturnType DEF PublishCalWrite, TypeOK
  <2>7. CASE CreateScanCheck(q)
    <3>1. ASSUME NEW s \in Station, NEW n \in Number, Begin(q, "getNumber", s, n)
          PROVE  TypeOK'
      BY <2>7, <3>1, BeginType DEF CreateScanCheck, Suits, PC
    <3> QED
      BY <2>7, <3>1, RefuseType DEF CreateScanCheck
  <2>8. CASE CreateScanNumber(q)
    <3>1. CASE Return(q)
      BY <2>8, <3>1, ReturnType DEF CreateScanNumber, TypeOK
    <3>2. CASE pc' = [pc EXCEPT ![q] = "insertScan"] /\ UNCHANGED <<at, arg>>
      BY <2>8, <3>2 DEF CreateScanNumber, TypeOK, Suits, PC
    <3> QED
      BY <2>8, <3>1, <3>2 DEF CreateScanNumber
  <2>9. CASE CreateScanInsert(q)
    <3>1. scans' \in [Station -> [Number -> Req \cup {Nobody}]]
      BY <2>9 DEF CreateScanInsert, TypeOK
    <3> QED
      BY <2>9, <3>1, ReturnType DEF CreateScanInsert, TypeOK
  <2>10. CASE Fail(q)
    BY <2>10, ReturnType DEF Fail, TypeOK
  <2> QED
    BY <1>3, <2>1, <2>2, <2>3, <2>4, <2>5, <2>6, <2>7, <2>8, <2>9, <2>10 DEF Step
<1> QED
  BY <1>1, <1>2, <1>3 DEF Next

\* The tables and the requests keep their types (service/station_service.go).
THEOREM TypeCorrect == Spec => []TypeOK
<1>1. Init => TypeOK
  BY DEF Init, TypeOK, Suits, StationStatus, CalStatus, PC
<1>2. TypeOK /\ [Next]_vars => TypeOK'
  BY TypeStep
<1> QED
  BY <1>1, <1>2, PTL DEF Spec

-----------------------------------------------------------------------------
(***************************************************************************)
(* Calibrations.                                                           *)
(***************************************************************************)
\* The table of the calibrations has two writes: an insert of a draft and a publish.
LEMMA CalStep ==
    ASSUME TypeOK, [Next]_vars
    PROVE  \/ cal' = cal
           \/ \E q \in Req :
                \/ /\ pc[q] = "insertCal" /\ cal[at[q]][arg[q]] = "absent"
                   /\ cal' = [cal EXCEPT ![at[q]][arg[q]] = "draft"]
                \/ pc[q] = "publishCal" /\ PublishVersion(at[q], arg[q])
<1>1. CASE UNCHANGED vars
  BY <1>1 DEF vars
<1>2. ASSUME NEW s \in Station, CreateStation(s) PROVE cal' = cal
  BY <1>2 DEF CreateStation
<1>3. ASSUME NEW q \in Req, Step(q)
      PROVE  \/ cal' = cal
             \/ /\ pc[q] = "insertCal" /\ cal[at[q]][arg[q]] = "absent"
                /\ cal' = [cal EXCEPT ![at[q]][arg[q]] = "draft"]
             \/ pc[q] = "publishCal" /\ PublishVersion(at[q], arg[q])
  BY <1>3 DEF Step, TransitionCheck, TransitionWrite, CreateCalCheck, CreateCalInsert,
              PublishCalCheck, PublishCalWrite, CreateScanCheck, CreateScanNumber,
              CreateScanInsert, Fail
<1> QED
  BY <1>1, <1>2, <1>3 DEF Next

\* An insert does not show in the effective calibrations, a publish replaces those of
\* one station by one version.
LEMMA EffectiveStep ==
    ASSUME TypeOK, [Next]_vars
    PROVE  \/ \A s \in Station : Effective(s)' = Effective(s)
           \/ \E s \in Station, v \in Version :
                /\ Effective(s)' = {v}
                /\ \A x \in Station \ {s} : Effective(x)' = Effective(x)
<1> USE DEF TypeOK, Suits
<1>1. CASE cal' = cal
  BY <1>1 DEF Effective
<1>2. ASSUME NEW q \in Req, pc[q] = "insertCal", cal[at[q]][arg[q]] = "absent",
             cal' = [cal EXCEPT ![at[q]][arg[q]] = "draft"]
      PROVE  \A s \in Station : Effective(s)' = Effective(s)
  <2>1. at[q] \in Station /\ arg[q] \in Version
    BY <1>2
  <2>2. \A s \in Station, v \in Version : cal'[s][v] = "effective" <=> cal[s][v] = "effective"
    BY <1>2, <2>1
  <2> QED
    BY <2>2 DEF Effective
<1>3. ASSUME NEW q \in Req, pc[q] = "publishCal", PublishVersion(at[q], arg[q])
      PROVE  \E s \in Station, v \in Version :
                /\ Effective(s)' = {v}
                /\ \A x \in Station \ {s} : Effective(x)' = Effective(x)
  <2>1. PICK s \in Station, v \in Version : s = at[q] /\ v = arg[q]
    BY <1>3
  <2>2. \A w \in Version : cal'[s][w] = "effective" <=> w = v
    BY <1>3, <2>1 DEF PublishVersion
  <2>3. \A x \in Station \ {s} : cal'[x] = cal[x]
    BY <1>3, <2>1 DEF PublishVersion
  <2>4. Effective(s)' = {v}
    BY <2>2 DEF Effective
  <2>5. \A x \in Station \ {s} : Effective(x)' = Effective(x)
    BY <2>3 DEF Effective
  <2> QED
    BY <2>4, <2>5
<1> QED
  BY CalStep, <1>1, <1>2, <1>3

\* A publish leaves one effective calibration at its station, an insert adds none.
LEMMA OneEffectiveStep ==
    ASSUME TypeOK, AtMostOneEffective, [Next]_vars
    PROVE  AtMostOneEffective'
BY EffectiveStep DEF AtMostOneEffective

\* At most one calibration of a station is effective at any time
\* (calibration_store.go:83).
THEOREM PublishingIsExclusive == Spec => []AtMostOneEffective
<1>1. Init => AtMostOneEffective
  BY DEF Init, AtMostOneEffective, Effective
<1>2. TypeOK /\ AtMostOneEffective /\ [Next]_vars => AtMostOneEffective'
  BY OneEffectiveStep
<1> QED
  BY <1>1, <1>2, TypeCorrect, PTL DEF Spec

\* What a Mark reads of the calibrations is published for one station or unchanged.
LEMMA RegisterStep ==
    ASSUME TypeOK, [Next]_vars
    PROVE  [Register!Next]_[s \in Station |-> Effective(s)]
<1> DEFINE eff == [s \in Station |-> Effective(s)]
<1>1. CASE \A s \in Station : Effective(s)' = Effective(s)
  BY <1>1
<1>2. ASSUME NEW s \in Station, NEW v \in Version, Effective(s)' = {v},
             \A x \in Station \ {s} : Effective(x)' = Effective(x)
      PROVE  Register!Next
  <2>1. eff' = [eff EXCEPT ![s] = {v}]
    BY <1>2
  <2>2. Register!Publish(s, v)
    BY <2>1 DEF Register!Publish
  <2> QED
    BY <2>2 DEF Register!Next
<1> QED
  BY <1>1, <1>2, EffectiveStep

\* Stations implements the registers a Mark reads: every step publishes for one
\* station or does not show, and nothing takes the effective calibration away
\* (calibration_store.go:83-106).
THEOREM ImplementsRegisters == Spec => ActsAsRegisters
<1>1. Init => Register!Init
  BY DEF Init, Register!Init, Effective
<1>2. TypeOK /\ [Next]_vars => [Register!Next]_[s \in Station |-> Effective(s)]
  BY RegisterStep
<1> QED
  BY <1>1, <1>2, TypeCorrect, PTL DEF Spec, ActsAsRegisters, Register!Spec

-----------------------------------------------------------------------------
(***************************************************************************)
(* The numbers of the calibrations.                                        *)
(***************************************************************************)
\* What a request about to write a calibration has read: an insert follows a number
\* in use, a publish has seen the row.
CalRead(p, s, v, used) ==
    /\ p = "insertCal" => v = 1 \/ v - 1 \in used
    /\ p = "publishCal" => v \in used

Pending == \A q \in Req : pc[q] # "idle" => CalRead(pc[q], at[q], arg[q], Used(at[q]))

\* A number in use stays in use.
LEMMA UsedGrows ==
    ASSUME TypeOK, [Next]_vars, NEW s \in Station
    PROVE  Used(s) \subseteq Used(s)'
<1> SUFFICES ASSUME NEW v \in Version, cal[s][v] # "absent"
             PROVE  cal'[s][v] # "absent"
  BY DEF Used
<1> USE DEF TypeOK, Suits
<1>1. CASE cal' = cal
  BY <1>1
<1>2. ASSUME NEW q \in Req, pc[q] = "insertCal", cal[at[q]][arg[q]] = "absent",
             cal' = [cal EXCEPT ![at[q]][arg[q]] = "draft"]
      PROVE  cal'[s][v] # "absent"
  BY <1>2
<1>3. ASSUME NEW q \in Req, pc[q] = "publishCal", PublishVersion(at[q], arg[q])
      PROVE  cal'[s][v] # "absent"
  BY <1>3 DEF PublishVersion
<1> QED
  BY CalStep, <1>1, <1>2, <1>3

\* A calibration that has been published is effective or superseded from then on.
LEMMA PublishedStays ==
    ASSUME TypeOK, [Next]_vars, NEW s \in Station, NEW v \in Version,
           cal[s][v] \in {"effective", "superseded"}
    PROVE  cal'[s][v] \in {"effective", "superseded"}
<1> USE DEF TypeOK, Suits
<1>1. CASE cal' = cal
  BY <1>1
<1>2. ASSUME NEW q \in Req, pc[q] = "insertCal", cal[at[q]][arg[q]] = "absent",
             cal' = [cal EXCEPT ![at[q]][arg[q]] = "draft"]
      PROVE  cal'[s][v] \in {"effective", "superseded"}
  BY <1>2
<1>3. ASSUME NEW q \in Req, pc[q] = "publishCal", PublishVersion(at[q], arg[q])
      PROVE  cal'[s][v] \in {"effective", "superseded"}
  BY <1>3 DEF PublishVersion
<1> QED
  BY CalStep, <1>1, <1>2, <1>3

\* A request about to write a calibration has just read, or was about to before.
LEMMA CalRequestStep ==
    ASSUME TypeOK, [Next]_vars, NEW q \in Req, pc'[q] \in {"insertCal", "publishCal"}
    PROVE  \/ pc'[q] = pc[q] /\ at'[q] = at[q] /\ arg'[q] = arg[q]
           \/ /\ cal' = cal /\ at'[q] \in Station
              /\ CalRead(pc'[q], at'[q], arg'[q], Used(at'[q]))
<1> DEFINE Same == pc'[q] = pc[q] /\ at'[q] = at[q] /\ arg'[q] = arg[q]
<1>1. CASE UNCHANGED vars
  BY <1>1 DEF vars
<1>2. ASSUME NEW s \in Station, CreateStation(s) PROVE Same
  BY <1>2 DEF CreateStation
<1>3. ASSUME NEW r \in Req, Step(r)
      PROVE  \/ Same
             \/ /\ cal' = cal /\ at'[q] \in Station
                /\ CalRead(pc'[q], at'[q], arg'[q], Used(at'[q]))
  <2>1. CASE r # q
    BY <1>3, <2>1 DEF TypeOK, Step, Begin, Refuse, Return, TransitionCheck, TransitionWrite,
         CreateCalCheck, CreateCalInsert, PublishCalCheck, PublishCalWrite, CreateScanCheck,
         CreateScanNumber, CreateScanInsert, Fail
  <2>2. CASE r = q /\ CreateCalCheck(q)
    <3>1. ASSUME NEW s \in Station, NEW v \in Version, IsNext(s, v), Begin(q, "insertCal", s, v)
          PROVE  /\ at'[q] \in Station
                 /\ CalRead(pc'[q], at'[q], arg'[q], Used(at'[q]))
      <4>1. pc'[q] = "insertCal" /\ at'[q] = s /\ arg'[q] = v
        BY <3>1 DEF Begin, TypeOK
      <4> QED
        BY <3>1, <4>1 DEF IsNext, CalRead
    <3> QED
      BY <2>2, <3>1 DEF CreateCalCheck, Refuse
  <2>3. CASE r = q /\ PublishCalCheck(q)
    <3>1. ASSUME NEW s \in Station, NEW v \in Version, cal[s][v] = "draft",
                 Begin(q, "publishCal", s, v)
          PROVE  /\ at'[q] \in Station
                 /\ CalRead(pc'[q], at'[q], arg'[q], Used(at'[q]))
      <4>1. pc'[q] = "publishCal" /\ at'[q] = s /\ arg'[q] = v
        BY <3>1 DEF Begin, TypeOK
      <4>2. v \in Used(s)
        BY <3>1 DEF Used
      <4> QED
        BY <3>1, <4>1, <4>2 DEF CalRead
    <3> QED
      BY <2>3, <3>1 DEF PublishCalCheck, Refuse
  <2>4. CASE r = q /\ (TransitionCheck(q) \/ CreateScanCheck(q))
    BY <2>4 DEF TransitionCheck, CreateScanCheck, Begin, Refuse, TypeOK
  <2>5. CASE r = q /\ (\/ TransitionWrite(q) \/ CreateCalInsert(q) \/ PublishCalWrite(q)
                       \/ CreateScanNumber(q) \/ CreateScanInsert(q) \/ Fail(q))
    BY <2>5 DEF TransitionWrite, CreateCalInsert, PublishCalWrite, CreateScanNumber,
                CreateScanInsert, Fail, Return, TypeOK
  <2> QED
    BY <1>3, <2>1, <2>2, <2>3, <2>4, <2>5 DEF Step
<1> QED
  BY <1>1, <1>2, <1>3 DEF Next

\* Pending is inductive.
LEMMA PendingStep == ASSUME TypeOK, Pending, [Next]_vars PROVE Pending'
<1> SUFFICES ASSUME NEW q \in Req, pc'[q] \in {"insertCal", "publishCal"},
                    NEW u, u = Used(at[q])'
             PROVE  CalRead(pc'[q], at'[q], arg'[q], u)
  BY DEF Pending, CalRead
<1>1. PICK s : s = at'[q]
  OBVIOUS
<1>2. u = Used(s)'
  BY <1>1 DEF Used
<1>3. CASE pc'[q] = pc[q] /\ at'[q] = at[q] /\ arg'[q] = arg[q]
  <2>1. s \in Station /\ CalRead(pc[q], s, arg[q], Used(s))
    BY <1>1, <1>3 DEF Pending, TypeOK
  <2>2. Used(s) \subseteq u
    BY <1>2, <2>1, UsedGrows
  <2> QED
    BY <1>3, <2>1, <2>2 DEF CalRead
<1>4. CASE /\ cal' = cal /\ at'[q] \in Station
           /\ CalRead(pc'[q], at'[q], arg'[q], Used(at'[q]))
  <2>1. u = Used(s)
    BY <1>2, <1>4 DEF Used
  <2> QED
    BY <1>1, <1>4, <2>1
<1> QED
  BY <1>3, <1>4, CalRequestStep

\* Only an insert takes a new number, the one after a number in use.
LEMMA DenseStep ==
    ASSUME TypeOK, Pending, VersionsDense, [Next]_vars
    PROVE  VersionsDense'
<1> SUFFICES ASSUME NEW s \in Station, NEW v \in Version, NEW w \in Version,
                    v < w, cal'[s][w] # "absent"
             PROVE  cal'[s][v] # "absent"
  BY DEF VersionsDense, Used
<1>1. SUFFICES v \in Used(s)
  BY UsedGrows DEF Used
<1>2. CASE cal[s][w] # "absent"
  BY <1>2 DEF VersionsDense, Used
<1>3. CASE cal[s][w] = "absent"
  <2>1. ASSUME NEW q \in Req, pc[q] = "insertCal",
               cal' = [cal EXCEPT ![at[q]][arg[q]] = "draft"]
        PROVE  v \in Used(s)
    <3>1. at[q] = s /\ arg[q] = w
      BY <1>3, <2>1 DEF TypeOK, Suits
    <3>2. w = 1 \/ w - 1 \in Used(s)
      BY <2>1, <3>1 DEF Pending, CalRead
    <3> QED
      BY <3>2 DEF VersionsDense, Version, Used
  <2>2. ASSUME NEW q \in Req, pc[q] = "publishCal", PublishVersion(at[q], arg[q])
        PROVE  FALSE
    <3>1. at[q] \in Station /\ arg[q] \in Version /\ cal[at[q]][arg[q]] # "absent"
      BY <2>2 DEF Pending, CalRead, Used, TypeOK, Suits
    <3> QED
      BY <1>3, <2>2, <3>1 DEF PublishVersion, TypeOK
  <2>3. cal' # cal
    BY <1>3
  <2> QED
    BY <2>1, <2>2, <2>3, CalStep
<1> QED
  BY <1>2, <1>3

\* The calibrations of every station are numbered without a gap (applier.go:77).
THEOREM NumbersAreDense == Spec => []VersionsDense
<1>1. Init => Pending /\ VersionsDense
  BY DEF Init, Pending, VersionsDense, Used
<1>2. TypeOK /\ Pending /\ [Next]_vars => Pending'
  BY PendingStep
<1>3. TypeOK /\ Pending /\ VersionsDense /\ [Next]_vars => VersionsDense'
  BY DenseStep
<1> QED
  BY <1>1, <1>2, <1>3, TypeCorrect, PTL DEF Spec

-----------------------------------------------------------------------------
(***************************************************************************)
(* Scans.                                                                  *)
(***************************************************************************)
\* A number that is in use stays with its scan: only an insert that finds none writes.
LEMMA ClaimedStep ==
    ASSUME TypeOK, [Next]_vars, NEW s \in Station, NEW n \in Number, scans[s][n] # Nobody
    PROVE  scans'[s][n] = scans[s][n]
<1>1. CASE UNCHANGED vars
  BY <1>1 DEF vars
<1>2. ASSUME NEW x \in Station, CreateStation(x) PROVE scans' = scans
  BY <1>2 DEF CreateStation
<1>3. ASSUME NEW q \in Req, CreateScanInsert(q) PROVE scans'[s][n] = scans[s][n]
  BY <1>3 DEF CreateScanInsert, TypeOK, Suits
<1>4. ASSUME NEW q \in Req, Step(q), ~CreateScanInsert(q) PROVE scans' = scans
  BY <1>4 DEF Step, TransitionCheck, TransitionWrite, CreateCalCheck, CreateCalInsert,
              PublishCalCheck, PublishCalWrite, CreateScanCheck, CreateScanNumber, Fail
<1> QED
  BY <1>1, <1>2, <1>3, <1>4 DEF Next

\* Two requests that have both found a number free do not both get it, and the scan
\* of the first is not replaced (scan_store.go:14, db.go:105).
THEOREM NumbersAreClaimedOnce == Spec => NumberClaimedOnce
<1>1. TypeOK /\ [Next]_vars =>
        [\A s \in Station, n \in Number :
            scans[s][n] # Nobody => scans'[s][n] = scans[s][n]]_vars
  BY ClaimedStep
<1> QED
  BY <1>1, TypeCorrect, PTL DEF Spec, NumberClaimedOnce

\* A request is never on its way to an insert at a closed station, unless the station
\* is active again.
LEMMA ClosedStep ==
    ASSUME TypeOK, [Next]_vars, NEW s \in Station, Closed(s)
    PROVE  /\ scans'[s] = scans[s]
           /\ Closed(s)' \/ status'[s] = "active"
<1> DEFINE Late(q, p, a) == a = s /\ p \in {"getNumber", "insertScan"}
           Result == /\ scans'[s] = scans[s]
                     /\ Closed(s)' \/ status'[s] = "active"
<1> USE DEF TypeOK, Suits
<1>0. status[s] # "active" /\ \A q \in Req : ~Late(q, pc[q], at[q])
  BY DEF Closed
<1>1. ASSUME scans'[s] = scans[s], \A q \in Req : ~Late(q, pc'[q], at'[q])
      PROVE  Result
  BY <1>1 DEF Closed
<1>2. CASE UNCHANGED vars
  BY <1>0, <1>1, <1>2 DEF vars
<1>3. ASSUME NEW x \in Station, CreateStation(x) PROVE Result
  BY <1>0, <1>1, <1>3 DEF CreateStation
<1>4. ASSUME NEW q \in Req, Step(q) PROVE Result
  <2>1. CASE TransitionCheck(q)
    BY <1>0, <1>1, <2>1 DEF TransitionCheck, Begin, Refuse
  <2>2. CASE TransitionWrite(q)
    BY <1>0, <1>1, <2>2 DEF TransitionWrite, Return
  <2>3. CASE CreateCalCheck(q)
    BY <1>0, <1>1, <2>3 DEF CreateCalCheck, Begin, Refuse
  <2>4. CASE CreateCalInsert(q)
    BY <1>0, <1>1, <2>4 DEF CreateCalInsert, Return
  <2>5. CASE PublishCalCheck(q)
    BY <1>0, <1>1, <2>5 DEF PublishCalCheck, Begin, Refuse
  <2>6. CASE PublishCalWrite(q)
    BY <1>0, <1>1, <2>6 DEF PublishCalWrite, PublishVersion, Return
  <2>7. CASE CreateScanCheck(q)
    BY <1>0, <1>1, <2>7 DEF CreateScanCheck, Begin, Refuse
  <2>8. CASE CreateScanNumber(q)
    BY <1>0, <1>1, <2>8 DEF CreateScanNumber, Return
  <2>9. CASE CreateScanInsert(q)
    <3>1. at[q] \in Station /\ at[q] # s
      BY <1>0, <2>9 DEF CreateScanInsert
    <3>2. scans'[s] = scans[s]
      BY <2>9, <3>1 DEF CreateScanInsert
    <3> QED
      BY <1>0, <1>1, <2>9, <3>2 DEF CreateScanInsert, Return
  <2>10. CASE Fail(q)
    BY <1>0, <1>1, <2>10 DEF Fail, Return
  <2> QED
    BY <1>4, <2>1, <2>2, <2>3, <2>4, <2>5, <2>6, <2>7, <2>8, <2>9, <2>10 DEF Step
<1> QED
  BY <1>2, <1>3, <1>4 DEF Next

\* A station that is not active receives no scan once the requests that had seen it
\* active have ended (model.go:11, ingest.go:37).
THEOREM ClosedStationsReceiveNothing == Spec => ClosedReceivesNothing
<1>1. TypeOK /\ [Next]_vars =>
        [\A s \in Station : Closed(s) =>
            /\ scans'[s] = scans[s]
            /\ Closed(s)' \/ status'[s] = "active"]_vars
  BY ClosedStep
<1> QED
  BY <1>1, TypeCorrect, PTL DEF Spec, ClosedReceivesNothing
=============================================================================
