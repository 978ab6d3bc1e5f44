--------------------------- MODULE MCRuleChange ---------------------------
(***************************************************************************)
(* A small instance of RuleChange: two values of each threshold, gates on  *)
(* both sides of and on every threshold, with and without missing values.  *)
(***************************************************************************)
EXTENDS RuleChange

MCRule(zh, clutter, rhohv, min, max, abs) ==
    [x \in Threshold |->
        CASE x = "zh_max" -> zh [] x = "zh_clutter_min" -> clutter
          [] x = "rhohv_min" -> rhohv [] x = "zdr_min" -> min
          [] x = "zdr_max" -> max [] x = "zdr_abs_max" -> abs]

MCParams == {MCRule(zh, clutter, rhohv, min, max, abs) :
                zh \in {2, 3}, clutter \in {1, 3}, rhohv \in {1, 2},
                min \in {-6, -1}, max \in {1, 2}, abs \in {0, 2}}

MCDefault == MCRule(3, 1, 2, -6, 2, 2)

MCCals == [zh_offset : {1}, zdr_bias : {-1, 1}, rhohv_bias : {-1, 1, 2}]

MCGates == [zh : {-1, 1, 2, 4}, zdr : {-6, -3, -1, 2}, rhohv : {0, 1, 3}] \cup {MissingGate}

Rain == [zh |-> 1, zdr |-> 2, rhohv |-> 3]

MCScans == {<<>>} \cup {<<g>> : g \in MCGates}
              \cup {<<g, h, MissingGate>> : g \in MCGates, h \in {Rain, MissingGate}}
=============================================================================
