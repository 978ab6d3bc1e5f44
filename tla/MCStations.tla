---------------------------- MODULE MCStations ----------------------------
(***************************************************************************)
(* A small instance of Stations.                                           *)
(***************************************************************************)
EXTENDS Stations

CONSTANTS q1, q2, st1, n1
=============================================================================
