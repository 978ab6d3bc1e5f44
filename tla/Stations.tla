----------------------------- MODULE Stations -----------------------------
(***************************************************************************)
(* The radar stations and what hangs on them: their operating status       *)
(* (service/station_service.go), the versions of their calibration         *)
(* (calibration/applier.go, store/calibration_store.go) and the reception  *)
(* of new volume scans (receive/ingest.go, CreateScan).                    *)
(*                                                                         *)
(* As everywhere in the service, a request reads in some statements and    *)
(* writes in a later one, without a lock.  Stations, calibrations and      *)
(* scans are never deleted, so each is identified by its UNIQUE key.       *)
(***************************************************************************)
EXTENDS Naturals

CONSTANTS
    Station,
    MaxVersion,   \* bound: calibration versions of one station
    Number,       \* scan numbers a station may use
    Req,          \* concurrent requests, reused one call after the other
    Nobody,       \* no request created this scan: there is no row
    Nothing       \* what an idle request works on

Version == 1..MaxVersion

StationStatus == {"active", "calibrating", "disabled"}
CalStatus     == {"draft", "effective", "superseded"}

VARIABLES
    status,     \* stations.status, or "absent"
    cal,        \* calibrations.status of every (station, version), or "absent"
    scans,      \* the request that inserted the scan of a (station, number)
    pc,         \* the statement a request is about to execute
    at, arg     \* the station it works on, and what it is about to write

vars == <<status, cal, scans, pc, at, arg>>

PC == {"idle", "transition", "insertCal", "publishCal", "getNumber", "insertScan"}

Init ==
    /\ status = [s \in Station |-> "absent"]
    /\ cal = [s \in Station |-> [v \in Version |-> "absent"]]
    /\ scans = [s \in Station |-> [n \in Number |-> Nobody]]
    /\ pc = [q \in Req |-> "idle"]
    /\ at = [q \in Req |-> Nothing]
    /\ arg = [q \in Req |-> Nothing]

-----------------------------------------------------------------------------
(***************************************************************************)
(* Helpers.                                                                *)
(***************************************************************************)
Begin(q, next, s, a) ==
    /\ pc[q] = "idle"
    /\ pc' = [pc EXCEPT ![q] = next]
    /\ at' = [at EXCEPT ![q] = s]
    /\ arg' = [arg EXCEPT ![q] = a]

\* The first read refuses the request, or finds nothing left to do.
Refuse(q) ==
    /\ pc[q] = "idle"
    /\ UNCHANGED <<pc, at, arg>>

Return(q) ==
    /\ pc' = [pc EXCEPT ![q] = "idle"]
    /\ at' = [at EXCEPT ![q] = Nothing]
    /\ arg' = [arg EXCEPT ![q] = Nothing]

Used(s) == {v \in Version : cal[s][v] # "absent"}

\* COALESCE(MAX(version), 0) + 1 over the calibrations of the station.
IsNext(s, v) ==
    /\ \A w \in Used(s) : w < v
    /\ v = 1 \/ v - 1 \in Used(s)

\* Fault: the UPDATE forgets station_id = ?.
FaultyPublishVersion(s, v) ==
    cal' = [x \in Station |-> [w \in Version |->
        IF x = s /\ w = v THEN "effective"
        ELSE IF cal[x][w] = "effective" THEN "superseded"
        ELSE cal[x][w]]]

\* Fault: the effective calibration is not superseded.
FaultyKeepOthers(s, v) == cal' = [cal EXCEPT ![s][v] = "effective"]

\* One transaction: the other effective calibrations of the station are superseded.
PublishVersion(s, v) ==
    cal' = [cal EXCEPT ![s] = [w \in Version |->
        IF w = v THEN "effective"
        ELSE IF cal[s][w] = "effective" THEN "superseded"
        ELSE cal[s][w]]]

\* The flow table of the operating status.
ValidStationTransitions(from) ==
    CASE from = "active" -> {"calibrating"}
      [] from = "calibrating" -> {"active", "disabled"}
      [] from = "disabled" -> {"calibrating"}
      [] OTHER -> {}

-----------------------------------------------------------------------------
(***************************************************************************)
(* Stations.                                                               *)
(***************************************************************************)
\* A generated identifier is never used twice.
CreateStation(s) ==
    /\ status[s] = "absent"
    /\ status' = [status EXCEPT ![s] = "active"]
    /\ UNCHANGED <<cal, scans, pc, at, arg>>

TransitionCheck(q) ==
    /\ \/ \E s \in Station, to \in StationStatus :
             /\ to \in ValidStationTransitions(status[s])
             /\ Begin(q, "transition", s, to)
       \/ /\ ~ (\A s \in Station : StationStatus \subseteq ValidStationTransitions(status[s]))
          /\ Refuse(q)
    /\ UNCHANGED <<status, cal, scans>>

\* The status read before is not checked again.
TransitionWrite(q) ==
    /\ pc[q] = "transition"
    /\ status' = [status EXCEPT ![at[q]] = arg[q]]
    /\ Return(q)
    /\ UNCHANGED <<cal, scans>>

(***************************************************************************)
(* Calibrations.  Any status of the station will do.                       *)
(***************************************************************************)
CreateCalCheck(q) ==
    /\ \/ \E s \in Station, v \in Version :
             status[s] # "absent" /\ IsNext(s, v) /\ Begin(q, "insertCal", s, v)
       \/ ~ (\A s \in Station : status[s] # "absent") /\ Refuse(q)
    /\ UNCHANGED <<status, cal, scans>>

\* The UNIQUE constraint refuses a number that has been used since it was read.
CreateCalInsert(q) ==
    /\ pc[q] = "insertCal"
    /\ cal' = IF cal[at[q]][arg[q]] = "absent"
              THEN [cal EXCEPT ![at[q]][arg[q]] = "draft"]
              ELSE cal
    /\ Return(q)
    /\ UNCHANGED <<status, scans>>

PublishCalCheck(q) ==
    /\ \/ \E s \in Station, v \in Version :
             cal[s][v] = "draft" /\ Begin(q, "publishCal", s, v)
       \/ ~ (\A s \in Station, v \in Version : cal[s][v] = "draft") /\ Refuse(q)
    /\ UNCHANGED <<status, cal, scans>>

PublishCalWrite(q) ==
    /\ pc[q] = "publishCal"
    /\ PublishVersion(at[q], arg[q])
    /\ Return(q)
    /\ UNCHANGED <<status, scans>>

(***************************************************************************)
(* Scans: the station is read, then the number, then the row is inserted.  *)
(***************************************************************************)
\* Fault: the station must exist, whatever its status.
FaultyCreateScanCheck(q) ==
    /\ \/ \E s \in Station, n \in Number :
             status[s] # "absent" /\ Begin(q, "getNumber", s, n)
       \/ ~ (\A s \in Station : status[s] # "absent") /\ Refuse(q)
    /\ UNCHANGED <<status, cal, scans>>

CreateScanCheck(q) ==
    /\ \/ \E s \in Station, n \in Number :
             status[s] = "active" /\ Begin(q, "getNumber", s, n)
       \/ ~ (\A s \in Station : status[s] = "active") /\ Refuse(q)
    /\ UNCHANGED <<status, cal, scans>>

CreateScanNumber(q) ==
    /\ pc[q] = "getNumber"
    /\ \/ /\ scans[at[q]][arg[q]] = Nobody
          /\ pc' = [pc EXCEPT ![q] = "insertScan"]
          /\ UNCHANGED <<at, arg>>
       \/ /\ scans[at[q]][arg[q]] # Nobody
          /\ Return(q)
    /\ UNCHANGED <<status, cal, scans>>

\* Fault: the number was looked up before, the constraint seems superfluous.
FaultyCreateScanInsert(q) ==
    /\ pc[q] = "insertScan"
    /\ scans' = [scans EXCEPT ![at[q]][arg[q]] = q]
    /\ Return(q)
    /\ UNCHANGED <<status, cal>>

\* The UNIQUE constraint backs the lookup up (scan_store.go:14).
CreateScanInsert(q) ==
    /\ pc[q] = "insertScan"
    /\ scans' = IF scans[at[q]][arg[q]] = Nobody
                THEN [scans EXCEPT ![at[q]][arg[q]] = q]
                ELSE scans
    /\ Return(q)
    /\ UNCHANGED <<status, cal>>

\* A failed statement ends the request; a crash of the process ends all of them.
Fail(q) ==
    /\ pc[q] # "idle"
    /\ Return(q)
    /\ UNCHANGED <<status, cal, scans>>

-----------------------------------------------------------------------------
Step(q) ==
    \/ TransitionCheck(q) \/ TransitionWrite(q)
    \/ CreateCalCheck(q) \/ CreateCalInsert(q)
    \/ PublishCalCheck(q) \/ PublishCalWrite(q)
    \/ CreateScanCheck(q) \/ CreateScanNumber(q) \/ CreateScanInsert(q)
    \/ Fail(q)

Next ==
    \/ \E s \in Station : CreateStation(s)
    \/ \E q \in Req : Step(q)

Spec == Init /\ [][Next]_vars

-----------------------------------------------------------------------------
(***************************************************************************)
(* Properties.                                                             *)
(***************************************************************************)
\* What a request is about to write suits the statement.
Suits(p, a) ==
    /\ p = "transition" => a \in StationStatus
    /\ p \in {"insertCal", "publishCal"} => a \in Version
    /\ p \in {"getNumber", "insertScan"} => a \in Number

\* Type invariant of the three tables and the requests.
TypeOK ==
    /\ status \in [Station -> StationStatus \cup {"absent"}]
    /\ cal \in [Station -> [Version -> CalStatus \cup {"absent"}]]
    /\ scans \in [Station -> [Number -> Req \cup {Nobody}]]
    /\ pc \in [Req -> PC]
    /\ at \in [Req -> Station \cup {Nothing}]
    /\ arg = [q \in Req |-> arg[q]]
    /\ \A q \in Req : /\ pc[q] # "idle" => at[q] \in Station
                     /\ Suits(pc[q], arg[q])

Effective(s) == {v \in Version : cal[s][v] = "effective"}

\* Mark never has a choice between two calibrations of a station
\* (calibration_store.go:83), however many Publish requests overlap.
AtMostOneEffective ==
    \A s \in Station : \A v, w \in Effective(s) : v = w

\* The calibrations of a station are numbered 1, 2, 3 ... without a gap
\* (applier.go:77), although the number is read in one statement and inserted in
\* another.
VersionsDense ==
    \A s \in Station, v, w \in Version : v < w /\ w \in Used(s) => v \in Used(s)

Register == INSTANCE VersionRegister
    WITH Owner <- Station, Withdrawable <- FALSE,
         effective <- [s \in Station |-> Effective(s)]

\* The effective calibration of a station, as a Mark reads it, is replaced by a
\* Publish in one step and never lost again: the condition under which Mark does not
\* stop at mark_service.go:77, and all that ScanPipeline assumes.
ActsAsRegisters == Register!Spec

\* A scan number of a station is given to one request only and its scan is never
\* replaced (scan_store.go:14), although two requests may both have found it free.
NumberClaimedOnce ==
    [][\A s \in Station, n \in Number :
          scans[s][n] # Nobody => scans'[s][n] = scans[s][n]]_vars

\* No scan of the station is on its way and it takes no new one.
Closed(s) ==
    /\ status[s] # "active"
    /\ \A q \in Req : at[q] = s => pc[q] \notin {"getNumber", "insertScan"}

\* A station that calibrates or is disabled receives no scan (model.go:11), as soon
\* as the requests that have seen it active are gone: only a return to active opens
\* it again.  The requests in flight may still insert theirs (ingest.go:37, 71).
ClosedReceivesNothing ==
    [][\A s \in Station : Closed(s) =>
          /\ scans'[s] = scans[s]
          /\ Closed(s)' \/ status'[s] = "active"]_vars

-----------------------------------------------------------------------------
(***************************************************************************)
(* What the documents say and the code does not do.                        *)
(***************************************************************************)
\* README.md:16 and model.go:54: a disabled station returns to service only through
\* a calibration, and every other change follows the flow table too.
TransitionsLegal ==
    [][\A s \in Station : status[s] # "absent" /\ status'[s] # status[s] =>
          status'[s] \in ValidStationTransitions(status[s])]_vars
=============================================================================
