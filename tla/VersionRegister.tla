-------------------------- MODULE VersionRegister --------------------------
(***************************************************************************)
(* What the marking pipeline expects of a store of versions.  Every owner  *)
(* has a register that holds no version at first, then the one published   *)
(* last, until it is withdrawn if this kind of version can be.  No other   *)
(* step, failure or race of the store may show.  RuleVersions (one owner,  *)
(* the service) and Stations (every station owns its calibrations)         *)
(* implement it; ScanPipeline, whose Mark reads the registers, assumes     *)
(* nothing more.                                                           *)
(***************************************************************************)
CONSTANTS
    Owner,
    Version,
    Withdrawable    \* a version may be withdrawn without a successor

VARIABLE effective

Init == effective = [o \in Owner |-> {}]

Publish(o, v) == effective' = [effective EXCEPT ![o] = {v}]

Withdraw(o) ==
    /\ Withdrawable
    /\ effective' = [effective EXCEPT ![o] = {}]

Next == \E o \in Owner : Withdraw(o) \/ \E v \in Version : Publish(o, v)

Spec == Init /\ [][Next]_effective
=============================================================================
