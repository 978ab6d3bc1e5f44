-------------------------- MODULE MCScanPipeline --------------------------
(***************************************************************************)
(* Small instances of ScanPipeline.  The two rule versions disagree on the *)
(* only complete triple, so that every relabelling is visible.             *)
(***************************************************************************)
EXTENDS ScanPipeline, TLC

CONSTANTS q1, q2, q3, s1, s2, st, v1, r1, r2, c1

MCStationOf == [s \in Scan |-> st]
MCDecide == [r \in Rule |-> [c \in Cal |-> [v \in Value |->
                IF r = r1 THEN "valid" ELSE "clutter"]]]

RequestSymmetry == Permutations(Req)
=============================================================================
