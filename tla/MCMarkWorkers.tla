--------------------------- MODULE MCMarkWorkers ---------------------------
(***************************************************************************)
(* Four elevations, one of them with two gates.                            *)
(***************************************************************************)
EXTENDS MarkWorkers

CONSTANTS a1, b1, b2, c1, d1

MCGroup == (2 :> <<a1>>) @@ (5 :> <<b1, b2>>) @@ (7 :> <<c1>>) @@ (9 :> <<d1>>)
MCClassify == [g \in {a1, b1, b2, c1, d1} |->
    CASE g \in {a1, d1} -> "valid" [] g \in {b1, c1} -> "clutter" [] g = b2 -> "anomaly"]
=============================================================================
