--------------------------- MODULE RuleVersions ---------------------------
(***************************************************************************)
(* The versions of the classification rules (rule/ruleset.go,              *)
(* store/rule_store.go): drafts are created with the next number of their  *)
(* name, published and retired by concurrent requests.                     *)
(*                                                                         *)
(* Every request reads first and writes in a later statement, without a    *)
(* lock.  Rows are never deleted, so a row is its UNIQUE key (name,        *)
(* version).                                                               *)
(***************************************************************************)
EXTENDS Naturals

CONSTANTS
    Name,          \* rule names
    MaxVersion,    \* bound: versions of one name
    Req,           \* concurrent requests, reused one call after the other
    NoKey

VARIABLES
    row,           \* rule_versions.status of every key, or "absent"
    pc,            \* the write a request is about to do
    target         \* the key it is about to write

vars == <<row, pc, target>>

Version == 1..MaxVersion
Key     == Name \X Version

RuleStatus == {"draft", "effective", "retired"}
Write      == {"insert", "publish", "retire"}

Init ==
    /\ row = [k \in Key |-> "absent"]
    /\ pc = [q \in Req |-> "idle"]
    /\ target = [q \in Req |-> NoKey]

-----------------------------------------------------------------------------
(***************************************************************************)
(* Helpers.                                                                *)
(***************************************************************************)
Begin(q, write, k) ==
    /\ pc[q] = "idle"
    /\ pc' = [pc EXCEPT ![q] = write]
    /\ target' = [target EXCEPT ![q] = k]

\* The read refuses the request: a missing row or the wrong status.
Refuse(q) ==
    /\ pc[q] = "idle"
    /\ UNCHANGED <<pc, target>>

Return(q) ==
    /\ pc' = [pc EXCEPT ![q] = "idle"]
    /\ target' = [target EXCEPT ![q] = NoKey]

Used(n) == {v \in Version : row[<<n, v>>] # "absent"}

\* Fault: the query forgets WHERE name = ?.
FaultyIsNext(n, v) ==
    LET all == UNION {Used(m) : m \in Name}
    IN /\ \A w \in all : w < v
       /\ v = 1 \/ v - 1 \in all

\* COALESCE(MAX(version), 0) + 1 over the versions of the name.
IsNext(n, v) ==
    /\ \A w \in Used(n) : w < v
    /\ v = 1 \/ v - 1 \in Used(n)

\* Fault: only the other versions of the same name are retired.
FaultyUpdateStatus(k, to) ==
    row' = [x \in Key |->
        IF x = k THEN to
        ELSE IF to = "effective" /\ row[x] = "effective" /\ x[1] = k[1] THEN "retired"
        ELSE row[x]]

\* Fault: the status word of the calibrations.
FaultyStatusWord(k, to) ==
    row' = [x \in Key |->
        IF x = k THEN to
        ELSE IF to = "effective" /\ row[x] = "effective" THEN "superseded"
        ELSE row[x]]

\* Fault: a version that is replaced becomes a draft again.
FaultyReplacement(k, to) ==
    row' = [x \in Key |->
        IF x = k THEN to
        ELSE IF to = "effective" /\ row[x] = "effective" THEN "draft"
        ELSE row[x]]

\* One transaction: publishing retires every other effective version, of any name.
UpdateStatus(k, to) ==
    row' = [x \in Key |->
        IF x = k THEN to
        ELSE IF to = "effective" /\ row[x] = "effective" THEN "retired"
        ELSE row[x]]

-----------------------------------------------------------------------------
(***************************************************************************)
(* CreateDraft.                                                            *)
(***************************************************************************)
NextVersion(q) ==
    /\ \E n \in Name, v \in Version : IsNext(n, v) /\ Begin(q, "insert", <<n, v>>)
    /\ UNCHANGED row

\* Fault: INSERT OR REPLACE.
FaultyInsert(q) ==
    /\ pc[q] = "insert"
    /\ row' = [row EXCEPT ![target[q]] = "draft"]
    /\ Return(q)

\* The UNIQUE constraint refuses the second of two requests that read one number.
Insert(q) ==
    /\ pc[q] = "insert"
    /\ row' = IF row[target[q]] = "absent"
              THEN [row EXCEPT ![target[q]] = "draft"]
              ELSE row
    /\ Return(q)

(***************************************************************************)
(* Publish and Retire.                                                     *)
(***************************************************************************)
PublishCheck(q) ==
    /\ \/ \E k \in Key : row[k] = "draft" /\ Begin(q, "publish", k)
       \/ ~ (\A k \in Key : row[k] = "draft") /\ Refuse(q)
    /\ UNCHANGED row

PublishWrite(q) ==
    /\ pc[q] = "publish"
    /\ UpdateStatus(target[q], "effective")
    /\ Return(q)

RetireCheck(q) ==
    /\ \/ \E k \in Key : row[k] = "effective" /\ Begin(q, "retire", k)
       \/ ~ (\A k \in Key : row[k] = "effective") /\ Refuse(q)
    /\ UNCHANGED row

RetireWrite(q) ==
    /\ pc[q] = "retire"
    /\ UpdateStatus(target[q], "retired")
    /\ Return(q)

\* A failed statement ends the request; a crash of the process ends all of them.
Fail(q) ==
    /\ pc[q] # "idle"
    /\ Return(q)
    /\ UNCHANGED row

-----------------------------------------------------------------------------
Step(q) ==
    \/ NextVersion(q) \/ Insert(q)
    \/ PublishCheck(q) \/ PublishWrite(q)
    \/ RetireCheck(q) \/ RetireWrite(q)
    \/ Fail(q)

Next == \E q \in Req : Step(q)

Spec == Init /\ [][Next]_vars

-----------------------------------------------------------------------------
(***************************************************************************)
(* Properties.                                                             *)
(***************************************************************************)
\* Type invariant of the table and the requests.
TypeOK ==
    /\ row \in [Key -> RuleStatus \cup {"absent"}]
    /\ pc \in [Req -> Write \cup {"idle"}]
    /\ target \in [Req -> Key \cup {NoKey}]
    /\ \A q \in Req : pc[q] # "idle" => target[q] \in Key

Effective == {k \in Key : row[k] = "effective"}

\* Publishing is exclusive over all names (rule_store.go:88), however many Publish
\* and Retire requests overlap: Mark never has a choice (mark_service.go:62).
AtMostOneEffective == \A j, k \in Effective : j = k

\* The versions of a name are numbered 1, 2, 3 ... without a gap (ruleset.go:22),
\* although the number is read in one statement and inserted in another.
VersionsDense ==
    \A n \in Name, v, w \in Version : v < w /\ w \in Used(n) => v \in Used(n)

\* The effective version, as a Mark reads it, is a register.
Register == INSTANCE VersionRegister
    WITH Owner <- {"service"}, Version <- Key, Withdrawable <- TRUE,
         effective <- [o \in {"service"} |-> Effective]

\* Drafts, lost races and failures do not show in the effective version: it is
\* replaced by a Publish or withdrawn by a Retire in one step, never half way
\* (rule_store.go:89), which is all that ScanPipeline assumes.
ActsAsRegister == Register!Spec

-----------------------------------------------------------------------------
(***************************************************************************)
(* What the documents say and the code does not do.                        *)
(***************************************************************************)
\* ruleset.go:67, constants.go:87 and README.md:19: a retired version is final and never
\* comes back.  Publish checks the draft in one statement and writes in a later one that
\* looks at no status (rule_store.go:88).
RetiredIsTerminal == [][\A k \in Key : row[k] = "retired" => row'[k] = "retired"]_vars

\* model.ValidRuleTransitions, which the production code never calls.
ValidRuleTransitions(from) ==
    IF from = "draft" THEN {"effective"}
    ELSE IF from = "effective" THEN {"retired"}
    ELSE {}

\* What can be said instead: every change of a row is a creation or a legal transition,
\* but for the write of a Publish that had read the row as a draft before another
\* Publish of it was replaced or retired.
OnlyLatePublishRevives ==
    [][\A k \in Key : row'[k] # row[k] =>
          \/ row[k] = "absent" /\ row'[k] = "draft"
          \/ row'[k] \in ValidRuleTransitions(row[k])
          \/ /\ row[k] = "retired" /\ row'[k] = "effective"
             /\ \E q \in Req : pc[q] = "publish" /\ target[q] = k]_vars
=============================================================================
