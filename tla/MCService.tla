----------------------------- MODULE MCService -----------------------------
(***************************************************************************)
(* Two requests on rules, two on stations and two on one scan.  Two names  *)
(* of two versions, and two stations with two calibrations and a scan      *)
(* number each, are explored by the requests of their own store alone; one *)
(* version of each name, one station with both of its calibrations and its *)
(* scan are explored by the requests of all kinds together.                *)
(*                                                                         *)
(* Every rule decides alike: what decisions are is the question of         *)
(* MCScanPipeline, here it is where the versions come from.                *)
(***************************************************************************)
EXTENDS Service, FiniteSets, TLC

CONSTANTS n1, n2, st1, st2, sn1, v1, r1, r2, s1, s2, q1, q2     \* model values

MCDecide ==
    [r \in Name \X (1..MaxRuleVersion) |->
        [c \in Station \X (1..MaxCalVersion) |->
            [v \in Value |-> "clutter"]]]

Symmetry == Permutations(Name) \cup Permutations(ScanReq)

-----------------------------------------------------------------------------
(***************************************************************************)
(* The part of the state space that is explored.  Requests on rules and on *)
(* stations share no table and no lock, so that they need not be mixed in  *)
(* all their combinations.                                                 *)
(***************************************************************************)
OneStation == \A s \in Station \ {st1} : stationStatus[s] = "absent"

\* No transition of a station: no request on scans or calibrations waits for one.
InService ==
    /\ \A s \in Station : stationStatus[s] \in {"absent", "active"}
    /\ \A q \in StationReq : stationPc[q] # "transition"

NoneReceived ==
    /\ scans = [s \in Station |-> [n \in Number |-> Nobody]]
    /\ \A q \in StationReq : stationPc[q] \notin {"getNumber", "insertScan"}

\* Two requests on two names of two versions.
RulesAlone == \A s \in Station : stationStatus[s] = "absent"

\* Two requests on one station, or on the calibrations of two.
StationsAlone ==
    /\ \A k \in Rules!Key : row[k] = "absent"
    /\ \A q \in RuleReq : rulePc[q] = "idle"
    /\ \A q \in ScanReq : pc[q] = "new"
    /\ OneStation \/ (InService /\ NoneReceived)

\* A request on rules or on the station beside one on the scan, or one on rules
\* beside two on the scan.
Together ==
    /\ \A n \in Name, v \in Rules!Version : row[<<n, v>>] # "absent" => v = 1
    /\ OneStation /\ InService
    /\ rulePc[r2] = "idle" /\ stationPc[s2] = "idle"
    /\ \/ /\ Cardinality({q \in ScanReq : pc[q] # "new"}) <= 1
          /\ rulePc[r1] = "idle" \/ stationPc[s1] = "idle"
       \/ /\ stationPc[s1] = "idle"
          /\ \A v \in Sites!Version : cal[st1][v] # "absent" => v = 1

Explored ==
    /\ \A q \in ScanReq : on[q] = <<st1, sn1>>
    /\ RulesAlone \/ StationsAlone \/ Together
=============================================================================
