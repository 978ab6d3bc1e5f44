------------------------ MODULE RuleVersions_proofs ------------------------
(***************************************************************************)
(* Theorems about RuleVersions, for any names, requests and bound.         *)
(***************************************************************************)
EXTENDS RuleVersions, TLAPS

(***************************************************************************)
(* Type correctness.                                                       *)
(***************************************************************************)
\* Every step keeps the types: a request always works on a key of the table.
LEMMA TypeStep == ASSUME TypeOK, [Next]_vars PROVE TypeOK'
<1> USE DEF TypeOK, RuleStatus, Write
<1>1. CASE UNCHANGED vars
  BY <1>1 DEF vars
<1>2. ASSUME NEW q \in Req, Step(q) PROVE TypeOK'
  <2>1. CASE NextVersion(q)
    <3>1. PICK n \in Name, v \in Version : Begin(q, "insert", <<n, v>>)
      BY <2>1 DEF NextVersion
    <3>2. <<n, v>> \in Key
      BY DEF Key
    <3> QED
      BY <2>1, <3>1, <3>2 DEF NextVersion, Begin
  <2>2. CASE Insert(q)
    BY <2>2 DEF Insert, Return
  <2>3. CASE PublishCheck(q)
    BY <2>3 DEF PublishCheck, Begin, Refuse
  <2>4. CASE PublishWrite(q)
    BY <2>4 DEF PublishWrite, UpdateStatus, Return
  <2>5. CASE RetireCheck(q)
    BY <2>5 DEF RetireCheck, Begin, Refuse
  <2>6. CASE RetireWrite(q)
    BY <2>6 DEF RetireWrite, UpdateStatus, Return
  <2>7. CASE Fail(q)
    BY <2>7 DEF Fail, Return
  <2> QED
    BY <1>2, <2>1, <2>2, <2>3, <2>4, <2>5, <2>6, <2>7 DEF Step
<1> QED
  BY <1>1, <1>2 DEF Next

\* The tables and the requests keep their types (rule/ruleset.go).
THEOREM TypeCorrect == Spec => []TypeOK
<1>1. Init => TypeOK
  BY DEF Init, TypeOK, RuleStatus, Write
<1>2. TypeOK /\ [Next]_vars => TypeOK'
  BY TypeStep
<1> QED
  BY <1>1, <1>2, PTL DEF Spec

-----------------------------------------------------------------------------
(***************************************************************************)
(* What a step may do to the table: the three writes, or nothing.          *)
(***************************************************************************)
\* Every write of the table is one of three, each on the key of a running request.
LEMMA RowStep ==
    ASSUME TypeOK, [Next]_vars
    PROVE  \/ row' = row
           \/ \E q \in Req :
                \/ /\ pc[q] = "insert" /\ row[target[q]] = "absent"
                   /\ row' = [row EXCEPT ![target[q]] = "draft"]
                \/ pc[q] = "publish" /\ UpdateStatus(target[q], "effective")
                \/ pc[q] = "retire" /\ UpdateStatus(target[q], "retired")
<1>1. CASE UNCHANGED vars
  BY <1>1 DEF vars
<1>2. ASSUME NEW q \in Req, Step(q)
      PROVE  \/ row' = row
             \/ /\ pc[q] = "insert" /\ row[target[q]] = "absent"
                /\ row' = [row EXCEPT ![target[q]] = "draft"]
             \/ pc[q] = "publish" /\ UpdateStatus(target[q], "effective")
             \/ pc[q] = "retire" /\ UpdateStatus(target[q], "retired")
  BY <1>2 DEF Step, NextVersion, Insert, PublishCheck, PublishWrite, RetireCheck,
              RetireWrite, Fail
<1> QED
  BY <1>1, <1>2 DEF Next

\* A request that is about to write had begun to, and its key has not changed.
LEMMA RequestStep ==
    ASSUME TypeOK, [Next]_vars, NEW q \in Req, pc'[q] # "idle"
    PROVE  \/ pc'[q] = pc[q] /\ target'[q] = target[q]
           \/ /\ row' = row
              /\ \/ /\ pc'[q] = "insert"
                    /\ \E n \in Name, v \in Version :
                          IsNext(n, v) /\ target'[q] = <<n, v>>
                 \/ pc'[q] = "publish" /\ target'[q] \in Key /\ row[target'[q]] = "draft"
                 \/ pc'[q] = "retire" /\ target'[q] \in Key /\ row[target'[q]] = "effective"
<1>1. CASE UNCHANGED vars
  BY <1>1 DEF vars
<1>2. ASSUME NEW p \in Req, Step(p)
      PROVE  \/ pc'[q] = pc[q] /\ target'[q] = target[q]
             \/ /\ row' = row
                /\ \/ /\ pc'[q] = "insert"
                      /\ \E n \in Name, v \in Version :
                            IsNext(n, v) /\ target'[q] = <<n, v>>
                   \/ pc'[q] = "publish" /\ target'[q] \in Key /\ row[target'[q]] = "draft"
                   \/ pc'[q] = "retire" /\ target'[q] \in Key /\ row[target'[q]] = "effective"
  <2> USE DEF TypeOK
  <2>1. CASE NextVersion(p)
    BY <2>1 DEF NextVersion, Begin
  <2>2. CASE PublishCheck(p)
    BY <2>2 DEF PublishCheck, Begin, Refuse
  <2>3. CASE RetireCheck(p)
    BY <2>3 DEF RetireCheck, Begin, Refuse
  <2>4. CASE Insert(p) \/ PublishWrite(p) \/ RetireWrite(p) \/ Fail(p)
    BY <2>4 DEF Insert, PublishWrite, RetireWrite, Fail, Return
  <2> QED
    BY <1>2, <2>1, <2>2, <2>3, <2>4 DEF Step
<1> QED
  BY <1>1, <1>2 DEF Next

-----------------------------------------------------------------------------
(***************************************************************************)
(* Publishing is exclusive.                                                *)
(***************************************************************************)
\* The three writes keep at most one version effective: a publish clears the others
\* in its own transaction, the other two only remove or do not touch it.
LEMMA OneEffectiveStep ==
    ASSUME TypeOK, AtMostOneEffective, [Next]_vars
    PROVE  AtMostOneEffective'
<1> USE DEF TypeOK, AtMostOneEffective, Effective
<1>1. CASE row' = row
  BY <1>1
<1>2. ASSUME NEW q \in Req, pc[q] = "insert",
             row' = [row EXCEPT ![target[q]] = "draft"]
      PROVE  AtMostOneEffective'
  BY <1>2
<1>3. ASSUME NEW q \in Req, pc[q] = "publish", UpdateStatus(target[q], "effective")
      PROVE  AtMostOneEffective'
  <2>1. \A k \in Key : row'[k] = "effective" => k = target[q]
    BY <1>3 DEF UpdateStatus
  <2> QED
    BY <2>1
<1>4. ASSUME NEW q \in Req, pc[q] = "retire", UpdateStatus(target[q], "retired")
      PROVE  AtMostOneEffective'
  <2>1. \A k \in Key : row'[k] = "effective" => row[k] = "effective"
    BY <1>4 DEF UpdateStatus
  <2> QED
    BY <2>1
<1> QED
  BY RowStep, <1>1, <1>2, <1>3, <1>4

\* At most one rule version is effective, over all names, at any time
\* (rule_store.go:88).
THEOREM PublishingIsExclusive == Spec => []AtMostOneEffective
<1>1. Init => AtMostOneEffective
  BY DEF Init, AtMostOneEffective, Effective
<1>2. TypeOK /\ AtMostOneEffective /\ [Next]_vars => AtMostOneEffective'
  BY OneEffectiveStep
<1> QED
  BY <1>1, <1>2, TypeCorrect, PTL DEF Spec

-----------------------------------------------------------------------------
(***************************************************************************)
(* The numbers are dense, and changes are legal.  Both rest on what a      *)
(* request has read and what can have happened since.                      *)
(***************************************************************************)
\* An insert follows a number in use; a row that was a draft has been published at
\* most, one that was effective has been retired at most.
Pending ==
    \A q \in Req :
        /\ pc[q] = "insert" => \E n \in Name, v \in Version :
              /\ target[q] = <<n, v>>
              /\ v = 1 \/ v - 1 \in Used(n)
        /\ pc[q] = "publish" => row[target[q]] \in {"draft", "effective", "retired"}
        /\ pc[q] = "retire" => row[target[q]] \in {"effective", "retired"}

\* A row in use stays in use, and one that has been published stays published.
LEMMA RowsOnlyAdvance ==
    ASSUME TypeOK, Pending, [Next]_vars, NEW k \in Key
    PROVE  /\ row[k] # "absent" => row'[k] # "absent"
           /\ row[k] \in {"effective", "retired"} => row'[k] \in {"effective", "retired"}
<1> USE DEF TypeOK, RuleStatus
<1>1. CASE row' = row
  BY <1>1
<1>2. ASSUME NEW q \in Req, pc[q] = "insert", row[target[q]] = "absent",
             row' = [row EXCEPT ![target[q]] = "draft"]
      PROVE  /\ row[k] # "absent" => row'[k] # "absent"
             /\ row[k] \in {"effective", "retired"} => row'[k] \in {"effective", "retired"}
  BY <1>2
<1>3. ASSUME NEW q \in Req, NEW to \in {"effective", "retired"}, UpdateStatus(target[q], to)
      PROVE  /\ row[k] # "absent" => row'[k] # "absent"
             /\ row[k] \in {"effective", "retired"} => row'[k] \in {"effective", "retired"}
  BY <1>3 DEF UpdateStatus
<1> QED
  BY RowStep, <1>1, <1>2, <1>3

\* Pending is inductive.
LEMMA PendingStep == ASSUME TypeOK, Pending, [Next]_vars PROVE Pending'
<1> SUFFICES ASSUME NEW q \in Req
    PROVE  /\ pc'[q] = "insert" => \E n \in Name, v \in Version :
                /\ target'[q] = <<n, v>>
                /\ v = 1 \/ v - 1 \in Used(n)'
           /\ pc'[q] = "publish" => row'[target'[q]] \in {"draft", "effective", "retired"}
           /\ pc'[q] = "retire" => row'[target'[q]] \in {"effective", "retired"}
  BY DEF Pending
<1>1. \A n \in Name : Used(n) \subseteq Used(n)'
  <2> SUFFICES ASSUME NEW n \in Name, NEW v \in Version, row[<<n, v>>] # "absent"
               PROVE  row'[<<n, v>>] # "absent"
    BY DEF Used
  <2>1. <<n, v>> \in Key
    BY DEF Key
  <2> QED
    BY <2>1, RowsOnlyAdvance
<1>2. CASE pc'[q] = pc[q] /\ target'[q] = target[q]
  <2>1. pc[q] # "idle" => target[q] \in Key
    BY DEF TypeOK
  <2>2. CASE pc[q] = "insert"
    BY <1>1, <1>2, <2>2 DEF Pending
  <2>3. CASE pc[q] = "publish"
    <3>1. row[target[q]] # "absent"
      BY <2>3 DEF Pending
    <3>2. row'[target[q]] # "absent"
      BY <2>1, <2>3, <3>1, RowsOnlyAdvance
    <3>3. row'[target[q]] \in RuleStatus \cup {"absent"}
      BY <2>1, <2>3, TypeStep DEF TypeOK
    <3> QED
      BY <1>2, <2>3, <3>2, <3>3 DEF RuleStatus
  <2>4. CASE pc[q] = "retire"
    BY <1>2, <2>1, <2>4, RowsOnlyAdvance DEF Pending
  <2> QED
    BY <1>2, <2>2, <2>3, <2>4
<1>3. CASE /\ row' = row
           /\ \/ /\ pc'[q] = "insert"
                 /\ \E n \in Name, v \in Version :
                       IsNext(n, v) /\ target'[q] = <<n, v>>
              \/ pc'[q] = "publish" /\ target'[q] \in Key /\ row[target'[q]] = "draft"
              \/ pc'[q] = "retire" /\ target'[q] \in Key /\ row[target'[q]] = "effective"
  BY <1>1, <1>3 DEF IsNext
<1> QED
  BY <1>2, <1>3, RequestStep

\* Only an insert takes a new number, the one after a number in use.
LEMMA DenseStep ==
    ASSUME TypeOK, Pending, VersionsDense, [Next]_vars
    PROVE  VersionsDense'
<1> SUFFICES ASSUME NEW n \in Name, NEW v \in Version, NEW w \in Version,
                    v < w, w \in Used(n)'
             PROVE  v \in Used(n)'
  BY DEF VersionsDense
<1> DEFINE kv == <<n, v>>
           kw == <<n, w>>
<1>0. kv \in Key /\ kw \in Key /\ row'[kw] # "absent"
  BY DEF Key, Used
<1>1. SUFFICES row'[kv] # "absent"
  BY DEF Used
<1>2. CASE row[kw] # "absent"
  <2>1. row[kv] # "absent"
    BY <1>2 DEF VersionsDense, Used
  <2> QED
    BY <1>0, <2>1, RowsOnlyAdvance
<1>3. CASE row[kw] = "absent"
  <2>1. PICK q \in Req : pc[q] = "insert" /\ target[q] = kw
    <3>1. ASSUME NEW q \in Req, NEW to \in {"effective", "retired"},
                 row[target[q]] # "absent", UpdateStatus(target[q], to)
          PROVE  FALSE
      BY <1>0, <1>3, <3>1 DEF UpdateStatus
    <3>2. \A q \in Req : pc[q] \in {"publish", "retire"} => row[target[q]] # "absent"
      BY DEF Pending
    <3>3. row' # row
      BY <1>0, <1>3
    <3>4. \A q \in Req : pc[q] = "insert" /\ row' = [row EXCEPT ![target[q]] = "draft"]
              => target[q] = kw
      BY <1>0, <1>3 DEF TypeOK
    <3> QED
      BY <3>1, <3>2, <3>3, <3>4, RowStep
  <2>2. PICK m \in Name, u \in Version : target[q] = <<m, u>> /\ (u = 1 \/ u - 1 \in Used(m))
    BY <2>1 DEF Pending
  <2>3. m = n /\ u = w
    BY <2>1, <2>2
  <2>4. w - 1 \in Used(n)
    BY <2>2, <2>3 DEF Version
  <2>5. v \in Used(n)
    BY <2>4 DEF VersionsDense, Used, Version
  <2> QED
    BY <1>0, <2>5, RowsOnlyAdvance DEF Used
<1> QED
  BY <1>2, <1>3

\* What a request has read still holds as far as it matters.
LEMMA PendingInvariant == Spec => []Pending
<1>1. Init => Pending
  BY DEF Init, Pending
<1>2. TypeOK /\ Pending /\ [Next]_vars => Pending'
  BY PendingStep
<1> QED
  BY <1>1, <1>2, TypeCorrect, PTL DEF Spec

\* The versions of every name are numbered without a gap (ruleset.go:22).
THEOREM NumbersAreDense == Spec => []VersionsDense
<1>1. Init => VersionsDense
  <2> SUFFICES ASSUME Init, NEW n \in Name, NEW w \in Version PROVE w \notin Used(n)
    BY DEF VersionsDense
  <2>1. <<n, w>> \in Key
    BY DEF Key
  <2> QED
    BY <2>1 DEF Init, Used
<1>2. TypeOK /\ Pending /\ VersionsDense /\ [Next]_vars => VersionsDense'
  BY DenseStep
<1> QED
  BY <1>1, <1>2, TypeCorrect, PendingInvariant, PTL DEF Spec

\* Every change of a version is a creation, a legal transition, or the late write of
\* a Publish that had read a draft (ruleset.go:51, 68; constants.go:80).
THEOREM LatePublishOnly == Spec => OnlyLatePublishRevives
<1>1. ASSUME TypeOK, Pending, [Next]_vars, NEW k \in Key, row'[k] # row[k]
      PROVE  \/ row[k] = "absent" /\ row'[k] = "draft"
             \/ row'[k] \in ValidRuleTransitions(row[k])
             \/ /\ row[k] = "retired" /\ row'[k] = "effective"
                /\ \E q \in Req : pc[q] = "publish" /\ target[q] = k
  <2> USE <1>1 DEF TypeOK, RuleStatus, ValidRuleTransitions
  <2>1. ASSUME NEW q \in Req, pc[q] = "insert", row[target[q]] = "absent",
               row' = [row EXCEPT ![target[q]] = "draft"]
        PROVE  row[k] = "absent" /\ row'[k] = "draft"
    BY <2>1
  <2>2. ASSUME NEW q \in Req, pc[q] = "publish", UpdateStatus(target[q], "effective")
        PROVE  \/ row'[k] \in ValidRuleTransitions(row[k])
               \/ row[k] = "retired" /\ row'[k] = "effective" /\ target[q] = k
    <3>1. row[target[q]] \in {"draft", "effective", "retired"}
      BY <2>2 DEF Pending
    <3> QED
      BY <2>2, <3>1 DEF UpdateStatus
  <2>3. ASSUME NEW q \in Req, pc[q] = "retire", UpdateStatus(target[q], "retired")
        PROVE  row'[k] \in ValidRuleTransitions(row[k])
    <3>1. row[target[q]] \in {"effective", "retired"}
      BY <2>3 DEF Pending
    <3> QED
      BY <2>3, <3>1 DEF UpdateStatus
  <2> QED
    BY <2>1, <2>2, <2>3, RowStep
<1>2. TypeOK /\ Pending /\ [Next]_vars =>
        [\A k \in Key : row'[k] # row[k] =>
            \/ row[k] = "absent" /\ row'[k] = "draft"
            \/ row'[k] \in ValidRuleTransitions(row[k])
            \/ /\ row[k] = "retired" /\ row'[k] = "effective"
               /\ \E q \in Req : pc[q] = "publish" /\ target[q] = k]_vars
  BY <1>1
<1> QED
  BY <1>2, TypeCorrect, PendingInvariant, PTL DEF Spec, OnlyLatePublishRevives

-----------------------------------------------------------------------------
(***************************************************************************)
(* The refinement.                                                         *)
(***************************************************************************)

\* A write of the table is seen as a Publish, a Withdraw or nothing.
LEMMA EffectiveStep ==
    ASSUME TypeOK, Pending, AtMostOneEffective, [Next]_vars
    PROVE  \/ Effective' = Effective
           \/ Effective' = {}
           \/ \E k \in Key : Effective' = {k}
<1> USE DEF TypeOK, Effective
<1>1. CASE row' = row
  BY <1>1
<1>2. ASSUME NEW q \in Req, pc[q] = "insert", row[target[q]] = "absent",
             row' = [row EXCEPT ![target[q]] = "draft"]
      PROVE  Effective' = Effective
  BY <1>2
<1>3. ASSUME NEW q \in Req, pc[q] = "publish", UpdateStatus(target[q], "effective")
      PROVE  \E k \in Key : Effective' = {k}
  <2>1. target[q] \in Key
    BY <1>3
  <2>2. \A k \in Key : row'[k] = "effective" <=> k = target[q]
    BY <1>3 DEF UpdateStatus
  <2>3. Effective' = {target[q]}
    BY <2>1, <2>2
  <2> QED
    BY <2>1, <2>3
<1>4. ASSUME NEW q \in Req, pc[q] = "retire", UpdateStatus(target[q], "retired")
      PROVE  Effective' = Effective \/ Effective' = {}
  <2>1. \A k \in Key : row'[k] = "effective" <=> row[k] = "effective" /\ k # target[q]
    BY <1>4 DEF UpdateStatus
  <2>2. CASE row[target[q]] = "effective"
    <3>1. \A k \in Key : row[k] = "effective" => k = target[q]
      BY <1>4, <2>2 DEF AtMostOneEffective
    <3> QED
      BY <2>1, <3>1
  <2>3. CASE row[target[q]] # "effective"
    <3>1. \A k \in Key : row'[k] = "effective" <=> row[k] = "effective"
      BY <2>1, <2>3
    <3> QED
      BY <3>1
  <2> QED
    BY <2>2, <2>3
<1> QED
  BY RowStep, <1>1, <1>2, <1>3, <1>4

\* What a Mark reads of the rules is published, withdrawn or unchanged.
LEMMA RegisterStep ==
    ASSUME TypeOK, Pending, AtMostOneEffective, [Next]_vars
    PROVE  [Register!Next]_[o \in {"service"} |-> Effective]
<1> DEFINE eff == [o \in {"service"} |-> Effective]
<1>1. CASE Effective' = Effective
  BY <1>1
<1>2. CASE Effective' = {}
  <2>1. Register!Withdraw("service")
    BY <1>2 DEF Register!Withdraw
  <2> QED
    BY <2>1 DEF Register!Next
<1>3. ASSUME NEW k \in Key, Effective' = {k}
      PROVE  Register!Next
  <2>1. Register!Publish("service", k)
    BY <1>3 DEF Register!Publish
  <2> QED
    BY <2>1 DEF Register!Next
<1> QED
  BY <1>1, <1>2, <1>3, EffectiveStep

\* RuleVersions implements the register a Mark reads: its initial state is empty, and
\* every step publishes, withdraws or does not show (rule_store.go:58, 88).
THEOREM ImplementsRegister == Spec => ActsAsRegister
<1>1. Init => Register!Init
  BY DEF Init, Register!Init, Effective
<1>2. /\ TypeOK /\ Pending /\ AtMostOneEffective /\ [Next]_vars
      => [Register!Next]_[o \in {"service"} |-> Effective]
  BY RegisterStep
<1> QED
  BY <1>1, <1>2, TypeCorrect, PendingInvariant, PublishingIsExclusive, PTL
     DEF Spec, ActsAsRegister, Register!Spec
=============================================================================
