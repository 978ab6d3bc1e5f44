--------------------------- MODULE MCStatistics ---------------------------
(***************************************************************************)
(* A small instance of Statistics.                                         *)
(***************************************************************************)
EXTENDS Statistics

CONSTANTS q1, q2, s1, st, v1, r1, r2, c1

MCStationOf == [s \in Scan |-> st]
MCDecide == [r \in Rule |-> [c \in Cal |-> [v \in Value |->
                IF r = r1 THEN "valid" ELSE "clutter"]]]
=============================================================================
