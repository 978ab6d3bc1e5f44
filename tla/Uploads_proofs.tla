--------------------------- MODULE Uploads_proofs ---------------------------
(***************************************************************************)
(* What an upload promises its client, for any number of clients, batches, *)
(* retries and stops: the types, the refinement of AtomicUploads, and that *)
(* answers are honest, add up, and a retry after a 200 inserts nothing.    *)
(*                                                                         *)
(* The invariant follows the open transaction (TxInv), the owners of the   *)
(* rows (OwnInv) and the rows an upload has passed (DoneInv, CountInv).    *)
(* What happens to rows and answers falls into four kinds of steps, see    *)
(* StepKinds; the properties of the answers are proved from these alone.   *)
(***************************************************************************)
EXTENDS Uploads, FiniteSetTheorems, WellFoundedInduction, TLAPS

\* A set of naturals has a least element, so that First is well defined.
LEMMA LeastExists ==
    ASSUME NEW S \in SUBSET Nat, S # {}
    PROVE  \E x \in S : \A y \in S : x <= y
<1>1. PICK x \in S : \A y \in S : <<y, x>> \notin OpToRel(<, Nat)
  BY NatLessThanWellFounded, WFMin
<1>2. ASSUME NEW y \in S PROVE x <= y
  <2>1. x \in Nat /\ y \in Nat
    OBVIOUS
  <2>2. ~(y < x)
    BY <1>1, <2>1 DEF OpToRel
  <2> QED
    BY <2>1, <2>2
<1> QED
  BY <1>2

LEMMA FirstIsLeast ==
    ASSUME NEW c, todo[c] \in SUBSET Nat, todo[c] # {}
    PROVE  First(c) \in todo[c] /\ \A y \in todo[c] : First(c) <= y
<1>1. \E x \in todo[c] : \A y \in todo[c] : x <= y
  BY LeastExists
<1> QED
  BY <1>1 DEF First

-----------------------------------------------------------------------------
(***************************************************************************)
(* Batches.                                                                *)
(***************************************************************************)
LEMMA OutcomeCases ==
    ASSUME NEW g
    PROVE  /\ Outcome(g) \in {"valid", "missing", "skipped"}
           /\ Outcome(g) # "skipped" => ~BadPlace(g)
  BY DEF Outcome

\* The rows of a batch that are kept have a place in the table.
LEMMA KeptRows ==
    ASSUME NEW b \in Batches, NEW s \in Scan, NEW x \in Kept(b)
    PROVE  /\ x \in DOMAIN b /\ x \in Nat /\ b[x] \in GateInput
           /\ KeyOf(s, b[x]) \in Key
<1>1. x \in DOMAIN b /\ Outcome(b[x]) # "skipped"
  BY DEF Kept
<1>2. b \in Seq(GateInput)
  BY UploadsAssumption
<1>3. x \in Nat /\ b[x] \in GateInput
  BY <1>1, <1>2
<1>4. ~IndexOutOfRange(b[x])
  BY <1>1, OutcomeCases DEF BadPlace
<1> QED
  BY <1>1, <1>3, <1>4 DEF IndexOutOfRange, KeyOf, Key

\* The three counters of a batch add up to its length.
LEMMA Counts ==
    ASSUME NEW b \in Batches
    PROVE  /\ Counted(b, "valid") \in Nat
           /\ Counted(b, "missing") \in Nat
           /\ Counted(b, "skipped") \in Nat
           /\ Len(b) \in Nat
           /\ Counted(b, "valid") + Counted(b, "missing") + Counted(b, "skipped") = Len(b)
           /\ IsFiniteSet(Kept(b))
           /\ Cardinality(Kept(b)) = Counted(b, "valid") + Counted(b, "missing")
<1> DEFINE Rows(out) == {x \in DOMAIN b : Outcome(b[x]) = out}
           V == Rows("valid")
           M == Rows("missing")
           K == Rows("skipped")
           D == DOMAIN b
<1>1. D = 1..Len(b) /\ Len(b) \in Nat
  BY UploadsAssumption
<1>2. IsFiniteSet(D) /\ Cardinality(D) = Len(b)
  <2>1. ASSUME NEW n \in Nat PROVE IsFiniteSet(1..n) /\ Cardinality(1..n) = n
    BY <2>1, FS_Interval
  <2> QED
    BY <1>1, <2>1
<1>3. /\ V \subseteq D /\ M \subseteq D /\ K \subseteq D
      /\ V \cap M = {} /\ (V \cup M) \cap K = {}
  OBVIOUS
<1>4. (V \cup M) \cup K = D /\ V \cup M = Kept(b)
  BY OutcomeCases DEF Kept
<1>5. /\ Counted(b, "valid") = Cardinality(V)
      /\ Counted(b, "missing") = Cardinality(M)
      /\ Counted(b, "skipped") = Cardinality(K)
  BY DEF Counted
<1> HIDE DEF V, M, K, D
<1>6. IsFiniteSet(V) /\ IsFiniteSet(M) /\ IsFiniteSet(K)
  BY <1>2, <1>3, FS_Subset
<1>7. Cardinality(V) \in Nat /\ Cardinality(M) \in Nat /\ Cardinality(K) \in Nat
  BY <1>6, FS_CardinalityType
<1>8. Cardinality({}) = 0
  BY FS_EmptySet
<1>9. IsFiniteSet(V \cup M) /\ Cardinality(V \cup M) = Cardinality(V) + Cardinality(M)
  <2>1. /\ IsFiniteSet(V \cup M)
        /\ Cardinality(V \cup M) = Cardinality(V) + Cardinality(M) - Cardinality(V \cap M)
    BY <1>6, FS_Union
  <2>2. Cardinality(V \cap M) = 0
    BY <1>3, <1>8, Zenon
  <2> QED
    BY <1>7, <2>1, <2>2
<1>10. Cardinality((V \cup M) \cup K) = Cardinality(V \cup M) + Cardinality(K)
  <2>1. Cardinality((V \cup M) \cup K)
            = Cardinality(V \cup M) + Cardinality(K) - Cardinality((V \cup M) \cap K)
    BY <1>6, <1>9, FS_Union
  <2>2. Cardinality((V \cup M) \cap K) = 0
    BY <1>3, <1>8, Zenon
  <2>3. Cardinality(V \cup M) \in Nat
    BY <1>7, <1>9
  <2> QED
    BY <1>7, <2>1, <2>2, <2>3
<1> QED
  BY <1>1, <1>2, <1>4, <1>5, <1>7, <1>9, <1>10 DEF D

-----------------------------------------------------------------------------
(***************************************************************************)
(* Types.                                                                  *)
(***************************************************************************)
Owner == {<<>>} \cup (Client \X Nat)
Row   == [by : Owner, meters : Int \cup {Inf},
          vars : {<<>>} \cup (Variable \X Variable \X Variable)]

TableOK == rows \in [Key -> Row] /\ draft \in [Key -> Row]

\* Which rows an upload has before it at which step, and who has the connection.
PhaseInv ==
    \A c \in Client :
        /\ todo[c] \subseteq Kept(batch[c])
        /\ pc[c] \in {"idle", "get", "reply"} <=> todo[c] = {}
        /\ pc[c] \in {"idle", "get"} => inserted[c] = 0

ConnInv == \A c \in Client : pc[c] \in InTx <=> conn = c

TypeInv == TypeOK /\ TableOK /\ PhaseInv /\ ConnInv

LEMMA RowsAreRows ==
    ASSUME NEW g \in GateInput
    PROVE  /\ NoRow \in Row /\ NoRow.by = <<>>
           /\ \A c \in Client, n \in Nat :
                 NewRow(<<c, n>>, g) \in Row /\ NewRow(<<c, n>>, g).by = <<c, n>>
           /\ \A row \in Row : Overwritten(row, g) \in Row /\ Overwritten(row, g).by = row.by
<1>1. Vars(g) \in {<<>>} \cup (Variable \X Variable \X Variable)
  BY DEF Vars, GateInput
<1>2. g.meters \in Int \cup {Inf}
  BY DEF GateInput
<1> QED
  BY <1>1, <1>2 DEF Row, Owner, NoRow, NewRow, Overwritten

LEMMA NoRowIsRow == NoRow \in Row /\ NoRow.by = <<>>
  BY DEF Row, Owner, NoRow

\* The row that an upload is about to write.
LEMMA CurrentRow ==
    ASSUME TypeInv, NEW c \in Client, todo[c] # {}
    PROVE  /\ First(c) \in todo[c] /\ First(c) \in Kept(batch[c])
           /\ \A y \in todo[c] : First(c) <= y
           /\ Current(c) = batch[c][First(c)] /\ Current(c) \in GateInput
           /\ CurrentKey(c) = KeyOf(scan[c], batch[c][First(c)])
           /\ CurrentKey(c) \in Key
<1>1. batch[c] \in Batches /\ scan[c] \in Scan /\ todo[c] \in SUBSET Nat
  BY DEF TypeInv, TypeOK
<1>2. First(c) \in todo[c] /\ First(c) \in Kept(batch[c])
  BY <1>1, FirstIsLeast DEF TypeInv, PhaseInv
<1> QED
  BY <1>1, <1>2, FirstIsLeast, KeptRows DEF Current, CurrentKey

LEMMA Codes ==
    /\ HandleErr("invalid_input") = 400 /\ HandleErr("sql") = 400
    /\ HandleErr("not_found") = 404 /\ HandleErr("forbidden") = 409
<1>1. /\ AsAppError("invalid_input") = "invalid_input" /\ AsAppError("sql") = "invalid_input"
      /\ AsAppError("not_found") = "not_found" /\ AsAppError("forbidden") = "forbidden"
  BY DEF AsAppError, AppErrorCode
<1>2. StatusFor("invalid_input") = 400
  BY DEF StatusFor
<1>3. StatusFor("not_found") = 404
  BY DEF StatusFor
<1>4. StatusFor("forbidden") = 409
  BY DEF StatusFor
<1> QED
  BY <1>1, <1>2, <1>3, <1>4 DEF HandleErr

LEMMA FailuresAreAnswers ==
    \A code \in {0, 200, 400, 404, 409, 500} :
        Failure(code) \in Answer /\ Failure(code).code = code
  BY DEF Failure, Answer

LEMMA ResultsAreAnswers ==
    ASSUME TypeOK, NEW c \in Client, NEW n \in Nat
    PROVE  Result(c, n) \in Answer /\ Result(c, n).code = 200
<1>1. batch[c] \in Batches
  BY DEF TypeOK
<1> QED
  BY <1>1, Counts DEF Result, Answer

\* An upload ends with an answer.
LEMMA EndingTypes ==
    ASSUME TypeInv, NEW c \in Client, NEW a \in Answer, EndWith(c, a), UNCHANGED input
    PROVE  /\ pc' \in [Client -> PC] /\ todo' \in [Client -> SUBSET Nat]
           /\ inserted' \in [Client -> Nat] /\ answers' \in [Client -> Seq(Answer)]
           /\ PhaseInv'
<1>1. /\ pc' = [pc EXCEPT ![c] = "idle"] /\ todo' = [todo EXCEPT ![c] = {}]
      /\ inserted' = [inserted EXCEPT ![c] = 0]
      /\ answers' = [answers EXCEPT ![c] = Append(@, a)]
      /\ batch' = batch
  BY DEF EndWith, Goto, input
<1>2. /\ pc \in [Client -> PC] /\ todo \in [Client -> SUBSET Nat]
      /\ inserted \in [Client -> Nat] /\ answers \in [Client -> Seq(Answer)]
  BY DEF TypeInv, TypeOK
<1>3. Append(answers[c], a) \in Seq(Answer)
  BY <1>2
<1>4. answers' \in [Client -> Seq(Answer)]
  BY <1>1, <1>2, <1>3
<1>5. PhaseInv'
  BY <1>1, <1>2 DEF TypeInv, PhaseInv
<1> QED
  BY <1>1, <1>2, <1>4, <1>5 DEF PC

\* An upload goes on with the rows of S before it.
LEMMA ProceedingTypes ==
    ASSUME TypeInv, NEW c \in Client, NEW S \in SUBSET Kept(batch[c]), NEW n \in Nat,
           Proceed(c, S, n), UNCHANGED input
    PROVE  /\ pc' \in [Client -> PC] /\ todo' \in [Client -> SUBSET Nat]
           /\ inserted' \in [Client -> Nat] /\ answers' \in [Client -> Seq(Answer)]
           /\ PhaseInv'
<1>1. /\ pc' = [pc EXCEPT ![c] = IF S = {} THEN "reply" ELSE "begin"]
      /\ todo' = [todo EXCEPT ![c] = S] /\ inserted' = [inserted EXCEPT ![c] = n]
      /\ answers' = answers /\ batch' = batch
  BY DEF Proceed, Goto, input
<1>2. /\ pc \in [Client -> PC] /\ todo \in [Client -> SUBSET Nat]
      /\ inserted \in [Client -> Nat] /\ answers \in [Client -> Seq(Answer)]
      /\ batch[c] \in Batches /\ scan[c] \in Scan
  BY DEF TypeInv, TypeOK
<1>3. S \in SUBSET Nat
  BY <1>2, KeptRows
<1>4. PhaseInv'
  BY <1>1, <1>2 DEF TypeInv, PhaseInv
<1> QED
  BY <1>1, <1>2, <1>3, <1>4 DEF PC

LEMMA InitTypes == Init => TypeInv
<1> SUFFICES ASSUME Init PROVE TypeInv
  OBVIOUS
<1>1. TypeOK
  BY UploadsAssumption, DatabaseAssumption
     DEF Init, Closed, TypeOK, ScanStatus, PC
<1>2. TableOK
  BY NoRowIsRow DEF Init, Closed, TableOK
<1>3. PhaseInv
  BY DEF Init, PhaseInv
<1>4. ConnInv
  BY UploadsAssumption, DatabaseAssumption DEF Init, Closed, ConnInv, InTx
<1> QED
  BY <1>1, <1>2, <1>3, <1>4 DEF TypeInv

\* A step that changes neither the database nor what is uploaded, but for an upload
\* that is in no transaction, before or after.
LEMMA OutsideTypes ==
    ASSUME TypeInv, NEW c \in Client, UNCHANGED <<database, status, input>>,
           pc[c] \notin InTx, NEW next \in PC \ InTx, Goto(c, next),
           todo' \in [Client -> SUBSET Nat], inserted' \in [Client -> Nat],
           answers' \in [Client -> Seq(Answer)], PhaseInv'
    PROVE  TypeInv'
<1>1. pc' = [pc EXCEPT ![c] = next]
  BY DEF Goto
<1>2. pc \in [Client -> PC]
  BY DEF TypeInv, TypeOK
<1>3. pc' \in [Client -> PC]
  BY <1>1, <1>2
<1>4. TypeOK'
  BY <1>3 DEF TypeInv, TypeOK, database, process, input
<1>5. TableOK'
  BY DEF TypeInv, TableOK, database, Key
<1>6. ConnInv'
  BY <1>1, <1>2 DEF TypeInv, ConnInv, database
<1> QED
  BY <1>4, <1>5, <1>6 DEF TypeInv

LEMMA SendTypes == ASSUME TypeInv, NEW c \in Client, Send(c) PROVE TypeInv'
<1>1. pc' = [pc EXCEPT ![c] = "get"] /\ pc[c] = "idle"
  BY DEF Send, Goto
<1>2. pc \in [Client -> PC]
  BY DEF TypeInv, TypeOK
<1>3. PhaseInv'
  BY <1>1, <1>2 DEF Send, TypeInv, PhaseInv, input
<1>4. "get" \in PC \ InTx /\ Goto(c, "get")
  BY <1>1 DEF Goto, PC, InTx
<1>5. /\ todo' \in [Client -> SUBSET Nat] /\ inserted' \in [Client -> Nat]
      /\ answers' \in [Client -> Seq(Answer)] /\ UNCHANGED <<database, status, input>>
  BY DEF Send, TypeInv, TypeOK
<1>6. pc[c] \notin InTx
  BY <1>1 DEF InTx
<1> QED
  BY <1>3, <1>4, <1>5, <1>6, OutsideTypes

\* Get either refuses the upload or accepts it.
LEMMA GetCases ==
    ASSUME TypeInv, NEW c \in Client, Get(c)
    PROVE  /\ pc[c] = "get" /\ UNCHANGED <<database, status, input>>
           /\ \/ \E code \in {400, 404, 409} : EndWith(c, Failure(code))
              \/ Proceed(c, Kept(batch[c]), 0)
  BY Codes DEF Get, Refuse

LEMMA GetTypes == ASSUME TypeInv, NEW c \in Client, Get(c) PROVE TypeInv'
<1>1. UNCHANGED <<database, status, input>> /\ pc[c] \notin InTx
  BY GetCases DEF InTx
<1>2. ASSUME NEW code \in {400, 404, 409}, EndWith(c, Failure(code)) PROVE TypeInv'
  <2> DEFINE a == Failure(code)
  <2>1. a \in Answer /\ EndWith(c, a)
    BY <1>2, FailuresAreAnswers
  <2> HIDE DEF a
  <2>2. "idle" \in PC \ InTx /\ Goto(c, "idle")
    BY <2>1 DEF EndWith, PC, InTx
  <2>3. UNCHANGED input
    BY <1>1
  <2>4. /\ todo' \in [Client -> SUBSET Nat] /\ inserted' \in [Client -> Nat]
        /\ answers' \in [Client -> Seq(Answer)] /\ PhaseInv'
    BY <2>1, <2>3, EndingTypes
  <2> QED
    BY <1>1, <2>2, <2>4, OutsideTypes
<1>3. CASE Proceed(c, Kept(batch[c]), 0)
  <2> DEFINE next == IF Kept(batch[c]) = {} THEN "reply" ELSE "begin"
  <2>1. next \in PC \ InTx /\ Goto(c, next)
    BY <1>3 DEF Proceed, PC, InTx
  <2> HIDE DEF next
  <2>2. /\ todo' \in [Client -> SUBSET Nat] /\ inserted' \in [Client -> Nat]
        /\ answers' \in [Client -> Seq(Answer)] /\ PhaseInv'
    BY <1>1, <1>3, ProceedingTypes
  <2> QED
    BY <1>1, <2>1, <2>2, OutsideTypes
<1> QED
  BY <1>2, <1>3, GetCases

LEMMA ReplyTypes == ASSUME TypeInv, NEW c \in Client, Reply(c) PROVE TypeInv'
<1>1. PICK a \in {Result(c, inserted[c]), NoAnswer} : EndWith(c, a)
  BY DEF Reply
<1>2. a \in Answer
  BY FailuresAreAnswers, ResultsAreAnswers DEF NoAnswer, TypeInv, TypeOK
<1>3. "idle" \in PC \ InTx /\ Goto(c, "idle")
  BY <1>1 DEF EndWith, PC, InTx
<1>4. pc[c] \notin InTx /\ UNCHANGED <<database, status, input>>
  BY DEF Reply, InTx
<1> QED
  BY <1>1, <1>2, <1>3, <1>4, EndingTypes, OutsideTypes

\* A step within a transaction, up to its commit.
LEMMA WithinTypes ==
    ASSUME TypeInv, NEW c \in Client, UNCHANGED <<rows, process, status, input>>,
           UNCHANGED <<todo, inserted, answers>>,
           pc[c] \in {"begin"} \cup InTx, \E next \in InTx : Goto(c, next),
           conn \in {Nobody, c}, conn' = c, draft' \in [Key -> Row]
    PROVE  TypeInv'
<1>1. PICK next \in InTx : pc' = [pc EXCEPT ![c] = next]
  BY DEF Goto
<1>2. pc \in [Client -> PC] /\ Nobody \notin Client
  BY UploadsAssumption, DatabaseAssumption DEF TypeInv, TypeOK
<1>3. pc' \in [Client -> PC]
  BY <1>1, <1>2 DEF PC
<1>4. DOMAIN draft' = Key
  OBVIOUS
<1>5. TypeOK'
  BY <1>3, <1>4 DEF TypeInv, TypeOK, process, input
<1>6. TableOK'
  BY DEF TypeInv, TableOK
<1>7. PhaseInv'
  <2> SUFFICES ASSUME NEW d \in Client
               PROVE  /\ todo[d] \subseteq Kept(batch[d])
                      /\ pc'[d] \in {"idle", "get", "reply"} <=> todo[d] = {}
                      /\ pc'[d] \in {"idle", "get"} => inserted[d] = 0
    BY DEF PhaseInv, input
  <2> QED
    BY <1>1, <1>2 DEF TypeInv, PhaseInv, InTx
<1>8. ConnInv'
  BY <1>1, <1>2 DEF TypeInv, ConnInv, InTx
<1> QED
  BY <1>5, <1>6, <1>7, <1>8 DEF TypeInv

LEMMA BeginTxTypes == ASSUME TypeInv, NEW c \in Client, BeginTx(c) PROVE TypeInv'
<1>1. /\ pc[c] \in {"begin"} \cup InTx /\ \E next \in InTx : Goto(c, next)
      /\ UNCHANGED <<rows, process, status, input>>
      /\ UNCHANGED <<todo, inserted, answers>>
      /\ conn \in {Nobody, c} /\ conn' = c
  BY DEF BeginTx, Begin, Available, InTx
<1>2. draft' \in [Key -> Row]
  BY DEF BeginTx, Begin, TypeInv, TableOK
<1> QED
  BY <1>1, <1>2, WithinTypes

LEMMA SelectTypes == ASSUME TypeInv, NEW c \in Client, Select(c) PROVE TypeInv'
<1>1. /\ pc[c] \in {"begin"} \cup InTx
      /\ UNCHANGED <<rows, process, status, input>>
      /\ UNCHANGED <<todo, inserted, answers>>
  BY DEF Select, InTx, database, process
<1>2. \E next \in InTx : Goto(c, next)
  <2>1. Goto(c, "update") \/ Goto(c, "insert")
    BY DEF Select
  <2> QED
    BY <2>1 DEF InTx
<1>3. conn = c /\ conn' = c /\ draft' \in [Key -> Row]
  BY DEF Select, TypeInv, TableOK, ConnInv, InTx, database
<1> QED
  BY <1>1, <1>2, <1>3, WithinTypes

\* What an upload writes into its draft.
LEMMA WriteTypes ==
    ASSUME TypeInv, NEW c \in Client, Insert(c) \/ Update(c)
    PROVE  TypeInv' /\ draft' \in [Key -> Row]
<1>1. /\ pc[c] \in {"begin"} \cup InTx /\ \E next \in InTx : Goto(c, next)
      /\ UNCHANGED <<rows, process, status, input>>
      /\ UNCHANGED <<todo, inserted, answers>>
      /\ conn \in {Nobody, c} /\ conn' = c
  BY DEF Insert, Update, Write, InTx
<1>2. todo[c] # {}
  BY DEF Insert, Update, TypeInv, PhaseInv
<1>3. CurrentKey(c) \in Key /\ Current(c) \in GateInput
  BY <1>2, CurrentRow
<1>4. draft \in [Key -> Row] /\ attempt[c] \in Nat
  BY DEF TypeInv, TypeOK, TableOK, attempt
<1>5. CASE Insert(c)
  <2>1. draft' = [draft EXCEPT ![CurrentKey(c)] = NewRow(<<c, attempt[c]>>, Current(c))]
    BY <1>5 DEF Insert, Write
  <2>2. NewRow(<<c, attempt[c]>>, Current(c)) \in Row
    BY <1>3, <1>4, RowsAreRows
  <2>3. draft' \in [Key -> Row]
    BY <1>3, <1>4, <2>1, <2>2
  <2> QED
    BY <1>1, <2>3, WithinTypes
<1>6. CASE Update(c)
  <2>1. draft' = [draft EXCEPT ![CurrentKey(c)] =
                      Overwritten(draft[CurrentKey(c)], Current(c))]
    BY <1>6 DEF Update, Write
  <2>2. Overwritten(draft[CurrentKey(c)], Current(c)) \in Row
    BY <1>3, <1>4, RowsAreRows
  <2>3. draft' \in [Key -> Row]
    BY <1>3, <1>4, <2>1, <2>2
  <2> QED
    BY <1>1, <2>3, WithinTypes
<1> QED
  BY <1>5, <1>6

LEMMA CommitTypes == ASSUME TypeInv, NEW c \in Client, CommitTx(c) PROVE TypeInv'
<1> DEFINE S == todo[c] \ {First(c)}
           n == inserted[c] + NewRows(c)
<1>1. Proceed(c, S, n) /\ UNCHANGED <<status, input>> /\ Commit(c) /\ pc[c] \in InTx
  BY DEF CommitTx, InTx
<1>2. S \in SUBSET Kept(batch[c]) /\ n \in Nat
  BY DEF TypeInv, TypeOK, PhaseInv, NewRows
<1> HIDE DEF S, n
<1>3. /\ pc' \in [Client -> PC] /\ todo' \in [Client -> SUBSET Nat]
      /\ inserted' \in [Client -> Nat] /\ answers' \in [Client -> Seq(Answer)]
      /\ PhaseInv'
  BY <1>1, <1>2, ProceedingTypes
<1>4. pc' = [pc EXCEPT ![c] = IF S = {} THEN "reply" ELSE "begin"]
  BY <1>1 DEF Proceed, Goto
<1>5. conn = c /\ conn' = Nobody /\ rows' = draft /\ draft' = draft /\ UNCHANGED process
  BY <1>1 DEF Commit, TypeInv, ConnInv
<1>6. Nobody \notin Client /\ pc \in [Client -> PC]
  BY UploadsAssumption, DatabaseAssumption DEF TypeInv, TypeOK
<1>7. ConnInv'
  BY <1>4, <1>5, <1>6 DEF TypeInv, ConnInv, InTx
<1>8. TypeOK' /\ TableOK'
  BY <1>1, <1>3, <1>5 DEF TypeInv, TypeOK, TableOK, process, input
<1> QED
  BY <1>3, <1>7, <1>8 DEF TypeInv

LEMMA FailTypes == ASSUME TypeInv, NEW c \in Client, Fail(c) PROVE TypeInv'
<1> DEFINE a == Failure(400)
<1>1. EndWith(c, a) /\ UNCHANGED <<status, input>> /\ Rollback(c)
  BY Codes DEF Fail, Refuse
<1>2. a \in Answer
  BY FailuresAreAnswers
<1> HIDE DEF a
<1>3. /\ pc' \in [Client -> PC] /\ todo' \in [Client -> SUBSET Nat]
      /\ inserted' \in [Client -> Nat] /\ answers' \in [Client -> Seq(Answer)]
      /\ PhaseInv'
  BY <1>1, <1>2, EndingTypes
<1>4. pc' = [pc EXCEPT ![c] = "idle"]
  BY <1>1 DEF EndWith, Goto
<1>5. /\ conn' = (IF conn = c THEN Nobody ELSE conn)
      /\ draft' = (IF conn = c THEN rows ELSE draft)
      /\ UNCHANGED <<rows, process>>
  BY <1>1 DEF Rollback
<1>6. Nobody \notin Client /\ pc \in [Client -> PC]
  BY UploadsAssumption, DatabaseAssumption DEF TypeInv, TypeOK
<1>7. ConnInv'
  BY <1>4, <1>5, <1>6 DEF TypeInv, ConnInv, InTx
<1>8. TypeOK' /\ TableOK'
  BY <1>1, <1>3, <1>5 DEF TypeInv, TypeOK, TableOK, process, input
<1> QED
  BY <1>3, <1>7, <1>8 DEF TypeInv

LEMMA CrashTypes == ASSUME TypeInv, Crash PROVE TypeInv'
<1>1. NoAnswer \in Answer
  BY FailuresAreAnswers DEF NoAnswer
<1>2. answers' \in [Client -> Seq(Answer)]
  BY <1>1 DEF Crash, TypeInv, TypeOK
<1>3. TypeOK' /\ TableOK'
  BY <1>2, DatabaseAssumption DEF Crash, Stop, TypeInv, TypeOK, TableOK, PC, input
<1>4. PhaseInv'
  BY DEF Crash, PhaseInv
<1>5. ConnInv'
  BY UploadsAssumption, DatabaseAssumption DEF Crash, Stop, ConnInv, InTx
<1> QED
  BY <1>3, <1>4, <1>5 DEF TypeInv

LEMMA OtherTypes ==
    ASSUME TypeInv, Boot \/ (\E s \in Scan, st \in ScanStatus : SetStatus(s, st))
                         \/ UNCHANGED vars
    PROVE  TypeInv'
<1>1. /\ UNCHANGED <<conn, rows, draft, input, upload>>
      /\ status' \in [Scan -> ScanStatus]
      /\ created' \in SUBSET (1..Schema) /\ boot' \in 1..Schema + 1 /\ stops' = stops
  <2>1. CASE Boot
    BY <2>1, DatabaseAssumption DEF Boot, Migrate, Serving, TypeInv, TypeOK
  <2>2. CASE \E s \in Scan, st \in ScanStatus : SetStatus(s, st)
    BY <2>2 DEF SetStatus, TypeInv, TypeOK, database, process
  <2>3. CASE UNCHANGED vars
    BY <2>3 DEF vars, TypeInv, TypeOK, database, process
  <2> QED
    BY <2>1, <2>2, <2>3
<1>2. TypeOK' /\ TableOK'
  BY <1>1 DEF TypeInv, TypeOK, TableOK, input, upload
<1>3. PhaseInv' /\ ConnInv'
  BY <1>1 DEF TypeInv, PhaseInv, ConnInv, input, upload
<1> QED
  BY <1>2, <1>3 DEF TypeInv

LEMMA TypeStep == TypeInv /\ [Next]_vars => TypeInv'
  BY SendTypes, GetTypes, BeginTxTypes, SelectTypes, WriteTypes, CommitTypes, ReplyTypes,
     FailTypes, CrashTypes, OtherTypes
     DEF Next, Step

\* The types of the table, the connection, the uploads and their answers.
THEOREM UploadsTypeCorrect == Spec => []TypeOK
<1>1. TypeInv => TypeOK
  BY DEF TypeInv
<1> QED
  BY <1>1, InitTypes, TypeStep, PTL DEF Spec

-----------------------------------------------------------------------------
(***************************************************************************)
(* The open transaction: its draft differs from the table by the current   *)
(* row of its upload, and nobody else writes the table meanwhile.          *)
(***************************************************************************)
InsertedDraft(c) ==
    [rows EXCEPT ![CurrentKey(c)] = NewRow(<<c, attempt[c]>>, Current(c))]
UpdatedDraft(c) ==
    [rows EXCEPT ![CurrentKey(c)] = Overwritten(rows[CurrentKey(c)], Current(c))]

TxOf(c) ==
    /\ pc[c] \in {"select", "insert", "update"} => draft = rows
    /\ pc[c] \in {"insert", "commitNew"} => rows[CurrentKey(c)] = NoRow
    /\ pc[c] \in {"update", "commitOld"} => rows[CurrentKey(c)] # NoRow
    /\ pc[c] = "commitNew" => draft = InsertedDraft(c)
    /\ pc[c] = "commitOld" => draft = UpdatedDraft(c)

TxInv == \A c \in Client : TxOf(c)

LEMMA InitTx == Init => TxInv
  BY DEF Init, TxInv, TxOf

\* An upload in no transaction, and one that the step does not concern.
LEMMA TxOutside == ASSUME NEW d \in Client, pc'[d] \notin InTx PROVE TxOf(d)'
  BY DEF TxOf, InTx

LEMMA SameRow ==
    ASSUME NEW d \in Client, UNCHANGED input, todo'[d] = todo[d], answers'[d] = answers[d]
    PROVE  /\ CurrentKey(d)' = CurrentKey(d) /\ Current(d)' = Current(d)
           /\ attempt'[d] = attempt[d]
<1>1. First(d)' = First(d) /\ scan' = scan /\ batch' = batch
  BY DEF First, input
<1> QED
  BY <1>1 DEF CurrentKey, Current, attempt

LEMMA TxFrame ==
    ASSUME NEW d \in Client, TxOf(d), UNCHANGED <<rows, draft, input>>,
           todo'[d] = todo[d], answers'[d] = answers[d], pc'[d] = pc[d]
    PROVE  TxOf(d)'
<1>1. /\ CurrentKey(d)' = CurrentKey(d) /\ Current(d)' = Current(d)
      /\ attempt'[d] = attempt[d]
  BY SameRow
<1> QED
  BY <1>1 DEF TxOf, InsertedDraft, UpdatedDraft

\* What the steps of c do to other uploads.
LEMMA OthersStay ==
    ASSUME TypeInv, NEW c \in Client, NEW d \in Client, d # c,
           Send(c) \/ Step(c) \/ Fail(c)
    PROVE  /\ UNCHANGED input
           /\ pc'[d] = pc[d] /\ todo'[d] = todo[d]
           /\ inserted'[d] = inserted[d] /\ answers'[d] = answers[d]
<1>0. pc \in [Client -> PC] /\ todo \in [Client -> SUBSET Nat]
      /\ inserted \in [Client -> Nat] /\ answers \in [Client -> Seq(Answer)]
  BY DEF TypeInv, TypeOK
<1>1. CASE Send(c)
  BY <1>0, <1>1 DEF Send, Goto
<1>2. CASE Get(c)
  <2>1. ASSUME NEW code \in {400, 404, 409}, EndWith(c, Failure(code))
        PROVE  /\ pc'[d] = pc[d] /\ todo'[d] = todo[d]
               /\ inserted'[d] = inserted[d] /\ answers'[d] = answers[d]
    BY <1>0, <2>1 DEF EndWith, Goto
  <2>2. CASE Proceed(c, Kept(batch[c]), 0)
    BY <1>0, <1>2, <2>2, GetCases DEF Proceed, Goto
  <2>3. UNCHANGED input
    BY <1>2, GetCases
  <2> QED
    BY <1>2, <2>1, <2>2, <2>3, GetCases
<1>3. CASE BeginTx(c) \/ Select(c) \/ Insert(c) \/ Update(c)
  BY <1>0, <1>3 DEF BeginTx, Select, Insert, Update, Goto
<1>4. CASE CommitTx(c)
  BY <1>0, <1>4 DEF CommitTx, Proceed, Goto
<1>5. CASE Reply(c)
  BY <1>0, <1>5 DEF Reply, EndWith, Goto
<1>6. CASE Fail(c)
  BY <1>0, <1>6 DEF Fail, Refuse, EndWith, Goto
<1> QED
  BY <1>1, <1>2, <1>3, <1>4, <1>5, <1>6 DEF Step

LEMMA TxBegin == ASSUME TypeInv, TxInv, NEW c \in Client, BeginTx(c) PROVE TxOf(c)'
<1>1. pc'[c] = "select" /\ draft' = rows /\ rows' = rows
  BY DEF BeginTx, Begin, Goto, TypeInv, TypeOK
<1> QED
  BY <1>1 DEF TxOf

LEMMA TxSelect == ASSUME TypeInv, TxInv, NEW c \in Client, Select(c) PROVE TxOf(c)'
<1>1. /\ pc[c] = "select" /\ pc'[c] = (IF Found(c) THEN "update" ELSE "insert")
      /\ UNCHANGED <<rows, draft, input>> /\ todo' = todo /\ answers' = answers
  BY DEF Select, Goto, TypeInv, TypeOK, database
<1>2. CurrentKey(c)' = CurrentKey(c)
  BY <1>1, SameRow
<1>3. draft = rows
  BY <1>1 DEF TxInv, TxOf
<1> QED
  BY <1>1, <1>2, <1>3 DEF TxOf, Found

LEMMA TxWrite ==
    ASSUME TypeInv, TxInv, NEW c \in Client, Insert(c) \/ Update(c)
    PROVE  TxOf(c)'
<1>1. /\ rows' = rows /\ UNCHANGED input /\ todo' = todo /\ answers' = answers
      /\ pc \in [Client -> PC]
  BY DEF Insert, Update, Write, TypeInv, TypeOK
<1>2. /\ CurrentKey(c)' = CurrentKey(c) /\ Current(c)' = Current(c)
      /\ attempt'[c] = attempt[c]
  BY <1>1, SameRow
<1>3. draft = rows
  BY DEF Insert, Update, TxInv, TxOf
<1>4. CASE Insert(c)
  <2>1. /\ pc[c] = "insert" /\ pc'[c] = "commitNew"
        /\ draft' = [draft EXCEPT ![CurrentKey(c)] =
                        NewRow(<<c, attempt[c]>>, Current(c))]
    BY <1>1, <1>4 DEF Insert, Write, Goto
  <2>2. rows[CurrentKey(c)] = NoRow
    BY <2>1 DEF TxInv, TxOf
  <2> QED
    BY <1>1, <1>2, <1>3, <2>1, <2>2 DEF TxOf, InsertedDraft
<1>5. CASE Update(c)
  <2>1. /\ pc[c] = "update" /\ pc'[c] = "commitOld"
        /\ draft' = [draft EXCEPT ![CurrentKey(c)] =
                        Overwritten(draft[CurrentKey(c)], Current(c))]
    BY <1>1, <1>5 DEF Update, Write, Goto
  <2>2. rows[CurrentKey(c)] # NoRow
    BY <2>1 DEF TxInv, TxOf
  <2> QED
    BY <1>1, <1>2, <1>3, <2>1, <2>2 DEF TxOf, UpdatedDraft
<1> QED
  BY <1>4, <1>5

LEMMA TxStep == ASSUME TypeInv, TxInv, [Next]_vars PROVE TxInv'
<1> SUFFICES ASSUME NEW d \in Client, pc'[d] \in InTx PROVE TxOf(d)'
  BY TxOutside DEF TxInv
<1>1. TypeInv' /\ pc \in [Client -> PC] /\ TxOf(d)
  BY TypeStep DEF TypeInv, TypeOK, TxInv
<1>2. conn' = d
  BY <1>1 DEF TypeInv, ConnInv
<1>3. ASSUME NEW c \in Client, Send(c) \/ Step(c) \/ Fail(c), c # d PROVE TxOf(d)'
  <2>1. /\ UNCHANGED input /\ pc'[d] = pc[d] /\ todo'[d] = todo[d]
        /\ answers'[d] = answers[d]
    BY <1>3, OthersStay
  <2>2. conn = d /\ Nobody # d
    BY <2>1, UploadsAssumption, DatabaseAssumption DEF TypeInv, ConnInv
  <2>3. UNCHANGED <<rows, draft>>
    <3>1. ~BeginTx(c) /\ ~CommitTx(c) /\ ~Insert(c) /\ ~Update(c)
      BY <1>3, <2>2 DEF BeginTx, Begin, Available, CommitTx, Commit, Insert, Update, Write
    <3>2. CASE Send(c) \/ Select(c) \/ Reply(c)
      BY <3>2 DEF Send, Select, Reply, database
    <3>3. CASE Get(c)
      BY <3>3, GetCases DEF database
    <3>4. CASE Fail(c)
      BY <1>3, <2>2, <3>4 DEF Fail, Rollback
    <3> QED
      BY <1>3, <3>1, <3>2, <3>3, <3>4 DEF Step
  <2> QED
    BY <1>1, <2>1, <2>3, TxFrame
<1>4. ASSUME Send(d) \/ Step(d) \/ Fail(d) PROVE TxOf(d)'
  <2>1. CASE BeginTx(d) \/ Select(d) \/ Insert(d) \/ Update(d)
    BY <2>1, TxBegin, TxSelect, TxWrite
  <2>2. CASE Send(d)
    BY <1>1, <2>2 DEF Send, Goto, InTx
  <2>3. CASE Get(d)
    <3>1. pc'[d] \in {"idle", "reply", "begin"}
      BY <1>1, <2>3, GetCases DEF EndWith, Proceed, Goto
    <3> QED
      BY <3>1 DEF InTx
  <2>4. CASE CommitTx(d)
    BY <1>1, <2>4 DEF CommitTx, Proceed, Goto, InTx
  <2>5. CASE Reply(d) \/ Fail(d)
    BY <1>1, <2>5 DEF Reply, Fail, Refuse, EndWith, Goto, InTx
  <2> QED
    BY <1>4, <2>1, <2>2, <2>3, <2>4, <2>5 DEF Step
<1>5. CASE Crash
  BY <1>5 DEF Crash, InTx
<1>6. CASE Boot \/ (\E s \in Scan, st \in ScanStatus : SetStatus(s, st)) \/ UNCHANGED vars
  <2>1. UNCHANGED <<rows, draft, input>> /\ UNCHANGED <<todo, answers, pc>>
    BY <1>6 DEF Boot, Migrate, SetStatus, vars, database, upload
  <2> QED
    BY <1>1, <2>1, TxFrame
<1> QED
  BY <1>3, <1>4, <1>5, <1>6 DEF Next

-----------------------------------------------------------------------------
(***************************************************************************)
(* The four kinds of steps, as the table and the answers see them.         *)
(***************************************************************************)
\* The upload under way has been accepted.
Open(c) == pc[c] \notin {"idle", "get"}

SameOpen == \A d \in Client : Open(d)' <=> Open(d)

Quiet == UNCHANGED <<rows, scan, batch, todo, inserted, answers>> /\ SameOpen

Accepts(c) ==
    /\ ~Open(c)
    /\ todo' = [todo EXCEPT ![c] = Kept(batch[c])]
    /\ \A d \in Client : Open(d)' <=> Open(d) \/ d = c
    /\ UNCHANGED <<rows, scan, batch, inserted, answers>>

Writes(c) ==
    /\ Open(c) /\ todo[c] # {}
    /\ todo' = [todo EXCEPT ![c] = @ \ {First(c)}]
    /\ \/ /\ rows[CurrentKey(c)] = NoRow
          /\ rows' = InsertedDraft(c)
          /\ inserted' = [inserted EXCEPT ![c] = @ + 1]
       \/ /\ rows[CurrentKey(c)] # NoRow
          /\ rows' = UpdatedDraft(c)
          /\ UNCHANGED inserted
    /\ SameOpen
    /\ UNCHANGED <<scan, batch, answers>>

\* The answer an upload may end with.
Fits(c, a) ==
    /\ a \in Answer
    /\ a.code = 200 => Open(c) /\ todo[c] = {} /\ a = Result(c, inserted[c])
    /\ a.code \in {404, 409} => ~Open(c)

Ends(C, a) ==
    /\ \A c \in C : Fits(c, a[c])
    /\ answers' = [c \in Client |-> IF c \in C THEN Append(answers[c], a[c])
                                   ELSE answers[c]]
    /\ todo' = [c \in Client |-> IF c \in C THEN {} ELSE todo[c]]
    /\ inserted' = [c \in Client |-> IF c \in C THEN 0 ELSE inserted[c]]
    /\ \A d \in Client : Open(d)' <=> Open(d) /\ d \notin C
    /\ UNCHANGED <<rows, scan, batch>>

LEMMA EndOfOne ==
    ASSUME TypeInv, NEW c \in Client, NEW a, Fits(c, a), EndWith(c, a),
           UNCHANGED <<rows, input>>
    PROVE  Ends({c}, [d \in {c} |-> a])
<1>1. /\ pc' = [pc EXCEPT ![c] = "idle"] /\ todo' = [todo EXCEPT ![c] = {}]
      /\ inserted' = [inserted EXCEPT ![c] = 0]
      /\ answers' = [answers EXCEPT ![c] = Append(@, a)]
  BY DEF EndWith, Goto
<1>2. /\ pc \in [Client -> PC] /\ todo \in [Client -> SUBSET Nat]
      /\ inserted \in [Client -> Nat] /\ answers \in [Client -> Seq(Answer)]
  BY DEF TypeInv, TypeOK
<1>3. answers' = [d \in Client |-> IF d \in {c} THEN Append(answers[d], [e \in {c} |-> a][d])
                                  ELSE answers[d]]
  BY <1>1, <1>2
<1>4. todo' = [d \in Client |-> IF d \in {c} THEN {} ELSE todo[d]]
  BY <1>1, <1>2
<1>5. inserted' = [d \in Client |-> IF d \in {c} THEN 0 ELSE inserted[d]]
  BY <1>1, <1>2
<1>6. \A d \in Client : Open(d)' <=> Open(d) /\ d \notin {c}
  BY <1>1, <1>2 DEF Open
<1>7. \A d \in {c} : Fits(d, [e \in {c} |-> a][d])
  OBVIOUS
<1> QED
  BY <1>3, <1>4, <1>5, <1>6, <1>7 DEF Ends, input

\* Ending with a failure is fitting, a 404 or 409 before anything is written.
LEMMA FailureFits ==
    ASSUME NEW c \in Client, NEW code \in {0, 400, 404, 409},
           code \in {404, 409} => ~Open(c)
    PROVE  Fits(c, Failure(code))
<1>1. Failure(code) \in Answer /\ Failure(code).code = code
  BY FailuresAreAnswers
<1> QED
  BY <1>1 DEF Fits

LEMMA GetKind ==
    ASSUME TypeInv, NEW c \in Client, Get(c)
    PROVE  Accepts(c) \/ \E a : Ends({c}, a)
<1>1. pc[c] = "get" /\ rows' = rows /\ UNCHANGED input /\ ~Open(c)
  BY GetCases DEF Open, database
<1>2. ASSUME NEW code \in {400, 404, 409}, EndWith(c, Failure(code))
      PROVE  \E a : Ends({c}, a)
  <2>1. Fits(c, Failure(code))
    BY <1>1, FailureFits
  <2> QED
    BY <1>1, <1>2, <2>1, EndOfOne
<1>3. ASSUME Proceed(c, Kept(batch[c]), 0) PROVE Accepts(c)
  <2>1. /\ pc' = [pc EXCEPT ![c] = IF Kept(batch[c]) = {} THEN "reply" ELSE "begin"]
        /\ todo' = [todo EXCEPT ![c] = Kept(batch[c])]
        /\ inserted' = [inserted EXCEPT ![c] = 0] /\ answers' = answers
    BY <1>3 DEF Proceed, Goto
  <2>2. inserted \in [Client -> Nat] /\ inserted[c] = 0 /\ pc \in [Client -> PC]
    BY <1>1 DEF TypeInv, TypeOK, PhaseInv
  <2>3. inserted' = inserted
    BY <2>1, <2>2
  <2>4. \A d \in Client : Open(d)' <=> Open(d) \/ d = c
    BY <2>1, <2>2 DEF Open
  <2> QED
    BY <1>1, <2>1, <2>3, <2>4 DEF Accepts, input
<1> QED
  BY <1>2, <1>3, GetCases

LEMMA CommitKind == ASSUME TypeInv, TxInv, NEW c \in Client, CommitTx(c) PROVE Writes(c)
<1>1. /\ pc[c] \in {"commitNew", "commitOld"} /\ rows' = draft /\ UNCHANGED input
      /\ pc' = [pc EXCEPT ![c] = IF todo[c] \ {First(c)} = {} THEN "reply" ELSE "begin"]
      /\ todo' = [todo EXCEPT ![c] = todo[c] \ {First(c)}]
      /\ inserted' = [inserted EXCEPT ![c] = inserted[c] + NewRows(c)]
      /\ answers' = answers
  BY DEF CommitTx, Commit, Proceed, Goto
<1>2. pc \in [Client -> PC] /\ inserted \in [Client -> Nat] /\ TxOf(c)
  BY DEF TypeInv, TypeOK, TxInv
<1>3. Open(c) /\ todo[c] # {}
  BY <1>1 DEF Open, TypeInv, PhaseInv
<1>4. SameOpen
  BY <1>1, <1>2 DEF SameOpen, Open
<1>5. CASE pc[c] = "commitNew"
  <2>1. rows[CurrentKey(c)] = NoRow /\ draft = InsertedDraft(c)
    BY <1>2, <1>5 DEF TxOf
  <2>2. inserted' = [inserted EXCEPT ![c] = @ + 1]
    BY <1>1, <1>5 DEF NewRows
  <2> QED
    BY <1>1, <1>3, <1>4, <2>1, <2>2 DEF Writes, input
<1>6. CASE pc[c] = "commitOld"
  <2>1. rows[CurrentKey(c)] # NoRow /\ draft = UpdatedDraft(c)
    BY <1>2, <1>6 DEF TxOf
  <2>2. inserted' = inserted
    BY <1>1, <1>2, <1>6 DEF NewRows
  <2> QED
    BY <1>1, <1>3, <1>4, <2>1, <2>2 DEF Writes, input
<1> QED
  BY <1>1, <1>5, <1>6

LEMMA ReplyKind ==
    ASSUME TypeInv, NEW c \in Client, Reply(c) PROVE \E a : Ends({c}, a)
<1>1. PICK a \in {Result(c, inserted[c]), NoAnswer} : EndWith(c, a)
  BY DEF Reply
<1>2. pc[c] = "reply" /\ UNCHANGED <<rows, input>> /\ Open(c) /\ todo[c] = {}
  BY DEF Reply, Open, TypeInv, PhaseInv, database
<1>3. Fits(c, a)
  <2>1. CASE a = NoAnswer
    BY <2>1, FailureFits DEF NoAnswer
  <2>2. CASE a = Result(c, inserted[c])
    BY <1>2, <2>2, ResultsAreAnswers DEF Fits, TypeInv, TypeOK
  <2> QED
    BY <2>1, <2>2
<1> QED
  BY <1>1, <1>2, <1>3, EndOfOne

LEMMA FailKind ==
    ASSUME TypeInv, NEW c \in Client, Fail(c) PROVE \E a : Ends({c}, a)
<1>1. EndWith(c, Failure(400)) /\ UNCHANGED <<rows, input>>
  BY Codes DEF Fail, Refuse, Rollback
<1>2. Fits(c, Failure(400))
  BY FailureFits
<1> QED
  BY <1>1, <1>2, EndOfOne

LEMMA CrashKind ==
    ASSUME TypeInv, Crash
    PROVE  \E C \in SUBSET Client : \E a : Ends(C, a)
<1> DEFINE C == {c \in Client : pc[c] # "idle"}
           a == [c \in C |-> NoAnswer]
<1>1. \A c \in C : Fits(c, a[c])
  BY FailureFits DEF NoAnswer
<1>2. /\ todo \in [Client -> SUBSET Nat] /\ inserted \in [Client -> Nat]
      /\ \A c \in Client : pc[c] = "idle" => todo[c] = {} /\ inserted[c] = 0
  BY DEF TypeInv, TypeOK, PhaseInv
<1>3. answers' = [c \in Client |-> IF c \in C THEN Append(answers[c], a[c])
                                  ELSE answers[c]]
  BY DEF Crash
<1>4. todo' = [c \in Client |-> IF c \in C THEN {} ELSE todo[c]]
  BY <1>2 DEF Crash
<1>5. inserted' = [c \in Client |-> IF c \in C THEN 0 ELSE inserted[c]]
  BY <1>2 DEF Crash
<1>6. \A d \in Client : Open(d)' <=> Open(d) /\ d \notin C
  BY DEF Crash, Open
<1>7. UNCHANGED <<rows, scan, batch>>
  BY DEF Crash, Stop, input
<1>8. Ends(C, a)
  BY <1>1, <1>3, <1>4, <1>5, <1>6, <1>7 DEF Ends
<1>9. C \in SUBSET Client
  OBVIOUS
<1> HIDE DEF C, a
<1> QED
  BY <1>8, <1>9, Zenon

LEMMA QuietKind ==
    ASSUME TypeInv,
           \/ \E c \in Client : Send(c) \/ BeginTx(c) \/ Select(c) \/ Insert(c) \/ Update(c)
           \/ Boot \/ (\E s \in Scan, st \in ScanStatus : SetStatus(s, st))
           \/ UNCHANGED vars
    PROVE  Quiet
<1>0. pc \in [Client -> PC]
  BY DEF TypeInv, TypeOK
<1>1. ASSUME NEW c \in Client, Send(c) \/ BeginTx(c) \/ Select(c) \/ Insert(c) \/ Update(c)
      PROVE  Quiet
  <2>1. UNCHANGED <<rows, scan, batch, todo, inserted, answers>>
    BY <1>1 DEF Send, BeginTx, Begin, Select, Insert, Update, Write, database, input
  <2>2. \E next \in PC : Goto(c, next) /\ (next = "get" <=> pc[c] = "idle")
                       /\ pc[c] # "get" /\ next # "idle"
    <3>1. CASE Send(c)
      BY <3>1 DEF Send, PC
    <3>2. CASE BeginTx(c)
      BY <3>2 DEF BeginTx, PC, InTx
    <3>3. CASE Select(c)
      <4>1. pc[c] = "select" /\ (Goto(c, "update") \/ Goto(c, "insert"))
        BY <3>3 DEF Select
      <4> QED
        BY <4>1 DEF PC, InTx
    <3>4. CASE Insert(c)
      BY <3>4 DEF Insert, PC, InTx
    <3>5. CASE Update(c)
      BY <3>5 DEF Update, PC, InTx
    <3> QED
      BY <1>1, <3>1, <3>2, <3>3, <3>4, <3>5
  <2>3. SameOpen
    BY <1>0, <2>2 DEF SameOpen, Open, Goto
  <2> QED
    BY <2>1, <2>3 DEF Quiet
<1>2. CASE Boot \/ (\E s \in Scan, st \in ScanStatus : SetStatus(s, st)) \/ UNCHANGED vars
  BY <1>2 DEF Boot, Migrate, SetStatus, vars, database, upload, input, Quiet, SameOpen, Open
<1> QED
  BY <1>1, <1>2

LEMMA StepKinds ==
    ASSUME TypeInv, TxInv, [Next]_vars
    PROVE  \/ Quiet
           \/ \E c \in Client : Accepts(c) \/ Writes(c)
           \/ \E C \in SUBSET Client : \E a : Ends(C, a)
<1>1. ASSUME NEW c \in Client, \E a : Ends({c}, a)
      PROVE  \E C \in SUBSET Client : \E a : Ends(C, a)
  BY <1>1
<1>2. ASSUME NEW c \in Client, Get(c) \/ CommitTx(c) \/ Reply(c) \/ Fail(c)
      PROVE  \/ \E d \in Client : Accepts(d) \/ Writes(d)
             \/ \E C \in SUBSET Client : \E a : Ends(C, a)
  BY <1>1, <1>2, GetKind, CommitKind, ReplyKind, FailKind
<1> QED
  BY <1>2, QuietKind, CrashKind DEF Next, Step

-----------------------------------------------------------------------------
(***************************************************************************)
(* Whose rows the table has, and which rows an upload has passed.          *)
(***************************************************************************)
OwnInv ==
    \A k \in Key :
        /\ rows[k].by = <<>> <=> rows[k] = NoRow
        /\ \A c \in Client, n \in Nat : rows[k].by = <<c, n>> =>
              /\ k \in KeptKeys(c)
              /\ n <= attempt[c]
              /\ n = attempt[c] => Open(c)

DoneInv ==
    \A c \in Client : Open(c) =>
        \A x \in Kept(batch[c]) \ todo[c] : rows[KeyOf(scan[c], batch[c][x])] # NoRow

CountInv == \A c \in Client : inserted[c] = Cardinality(CreatedBy(c, attempt[c]))

TableInv == TypeInv /\ TxInv /\ OwnInv /\ DoneInv /\ CountInv

LEMMA InitTable == Init => TableInv
<1> SUFFICES ASSUME Init PROVE TableInv
  OBVIOUS
<1>1. \A k \in Key : rows[k] = NoRow /\ rows[k].by = <<>>
  BY NoRowIsRow DEF Init, Closed
<1>2. OwnInv
  <2>1. \A c \in Client, n \in Nat : <<>> # <<c, n>>
    OBVIOUS
  <2> QED
    BY <1>1, <2>1 DEF OwnInv
<1>3. DoneInv
  BY DEF Init, DoneInv, Open
<1>4. CountInv
  <2>1. ASSUME NEW c \in Client, NEW n PROVE CreatedBy(c, n) = {}
    BY <1>1 DEF CreatedBy
  <2>2. \A c \in Client : CreatedBy(c, attempt[c]) = {}
    BY <2>1
  <2> QED
    BY <2>2, FS_EmptySet DEF Init, CountInv
<1> QED
  BY <1>2, <1>3, <1>4, InitTypes, InitTx DEF TableInv

LEMMA AttemptIsNext ==
    ASSUME TypeInv, NEW c \in Client
    PROVE  attempt[c] = Len(answers[c]) + 1 /\ attempt[c] \in Nat /\ Len(answers[c]) \in Nat
           /\ DOMAIN answers[c] = 1..Len(answers[c])
  BY DEF attempt, TypeInv, TypeOK

\* The keys of a batch are finitely many, no more than its rows.
LEMMA KeptKeysFinite ==
    ASSUME TypeInv, NEW c \in Client
    PROVE  /\ KeptKeys(c) \subseteq Key /\ IsFiniteSet(KeptKeys(c))
           /\ Cardinality(KeptKeys(c)) \in Nat /\ Cardinality(Kept(batch[c])) \in Nat
           /\ Cardinality(KeptKeys(c)) <= Cardinality(Kept(batch[c]))
<1> DEFINE f == [x \in Kept(batch[c]) |-> KeyOf(scan[c], batch[c][x])]
<1>1. batch[c] \in Batches /\ scan[c] \in Scan
  BY DEF TypeInv, TypeOK
<1>2. IsFiniteSet(Kept(batch[c]))
  BY <1>1, Counts
<1>3. f \in Surjection(Kept(batch[c]), KeptKeys(c))
  BY DEF KeptKeys, Surjection
<1>4. KeptKeys(c) \subseteq Key
  BY <1>1, KeptRows DEF KeptKeys
<1> QED
  BY <1>2, <1>3, <1>4, FS_Surjection, FS_CardinalityType

LEMMA CreatedFinite ==
    ASSUME TypeInv, OwnInv, NEW c \in Client, NEW n \in Nat
    PROVE  /\ CreatedBy(c, n) \subseteq KeptKeys(c) /\ IsFiniteSet(CreatedBy(c, n))
           /\ Cardinality(CreatedBy(c, n)) \in Nat
           /\ Cardinality(CreatedBy(c, n)) <= Cardinality(KeptKeys(c))
<1>1. CreatedBy(c, n) \subseteq KeptKeys(c)
  BY DEF CreatedBy, OwnInv
<1> QED
  BY <1>1, KeptKeysFinite, FS_Subset, FS_CardinalityType

\* Nothing is created for an upload that has not been accepted.
LEMMA NothingYet ==
    ASSUME TypeInv, OwnInv, NEW c \in Client
    PROVE  /\ ~Open(c) => CreatedBy(c, attempt[c]) = {}
           /\ CreatedBy(c, attempt[c] + 1) = {}
<1>1. attempt[c] \in Nat /\ attempt[c] + 1 \in Nat /\ ~(attempt[c] + 1 <= attempt[c])
  BY AttemptIsNext
<1> QED
  BY <1>1 DEF CreatedBy, OwnInv

\* One row is written; a new one belongs to the upload that writes it.
LEMMA WriteEffect ==
    ASSUME TableInv, NEW c \in Client, Writes(c)
    PROVE  LET k == CurrentKey(c) IN
           /\ k \in Key /\ k \in KeptKeys(c)
           /\ k = KeyOf(scan[c], batch[c][First(c)])
           /\ \A l \in Key : l # k => rows'[l] = rows[l]
           /\ rows'[k].by # <<>> /\ rows'[k] # NoRow
           /\ rows[k] = NoRow => rows'[k].by = <<c, attempt[c]>>
           /\ rows[k] # NoRow => rows'[k].by = rows[k].by
<1> DEFINE k == CurrentKey(c)
<1>1. /\ k \in Key /\ First(c) \in Kept(batch[c]) /\ Current(c) \in GateInput
      /\ k = KeyOf(scan[c], batch[c][First(c)])
  BY CurrentRow DEF Writes, TableInv
<1>2. k \in KeptKeys(c)
  BY <1>1 DEF KeptKeys
<1>3. rows \in [Key -> Row] /\ attempt[c] \in Nat
  BY AttemptIsNext DEF TableInv, TypeInv, TableOK
<1>4. CASE rows[k] = NoRow
  <2>1. rows' = [rows EXCEPT ![k] = NewRow(<<c, attempt[c]>>, Current(c))]
    BY <1>4 DEF Writes, InsertedDraft
  <2>2. NewRow(<<c, attempt[c]>>, Current(c)).by = <<c, attempt[c]>>
    BY <1>1, <1>3, RowsAreRows
  <2>3. rows'[k].by = <<c, attempt[c]>> /\ \A l \in Key : l # k => rows'[l] = rows[l]
    BY <1>1, <1>3, <2>1, <2>2
  <2>4. rows'[k].by # <<>> /\ rows'[k] # NoRow
    BY <2>3, NoRowIsRow
  <2> QED
    BY <1>1, <1>2, <1>4, <2>3, <2>4
<1>5. CASE rows[k] # NoRow
  <2>1. rows' = [rows EXCEPT ![k] = Overwritten(rows[k], Current(c))]
    BY <1>5 DEF Writes, UpdatedDraft
  <2>2. Overwritten(rows[k], Current(c)).by = rows[k].by
    BY <1>1, <1>3, RowsAreRows
  <2>3. rows'[k].by = rows[k].by /\ \A l \in Key : l # k => rows'[l] = rows[l]
    BY <1>1, <1>3, <2>1, <2>2
  <2>4. rows[k].by # <<>>
    BY <1>1, <1>5 DEF TableInv, OwnInv
  <2>5. rows'[k] # NoRow
    BY <2>3, <2>4, NoRowIsRow
  <2> QED
    BY <1>1, <1>2, <1>5, <2>3, <2>4, <2>5
<1> QED
  BY <1>4, <1>5

\* Attempts and keys along the four kinds of steps.
LEMMA KindsKeep ==
    ASSUME TypeInv, Quiet \/ (\E c \in Client : Accepts(c) \/ Writes(c))
    PROVE  UNCHANGED <<scan, batch, answers, attempt>>
  BY DEF Quiet, Accepts, Writes, attempt

LEMMA EndsKeep ==
    ASSUME TypeInv, NEW C \in SUBSET Client, NEW a, Ends(C, a), NEW c \in Client
    PROVE  /\ UNCHANGED <<rows, scan, batch>>
           /\ attempt'[c] = IF c \in C THEN attempt[c] + 1 ELSE attempt[c]
           /\ answers'[c] = IF c \in C THEN Append(answers[c], a[c]) ELSE answers[c]
<1>1. answers[c] \in Seq(Answer) /\ (c \in C => a[c] \in Answer)
  BY DEF TypeInv, TypeOK, Ends, Fits
<1>2. answers'[c] = IF c \in C THEN Append(answers[c], a[c]) ELSE answers[c]
  BY DEF Ends
<1>3. Len(answers'[c]) = IF c \in C THEN Len(answers[c]) + 1 ELSE Len(answers[c])
  BY <1>1, <1>2
<1> QED
  BY <1>1, <1>2, <1>3 DEF Ends, attempt

LEMMA SameKeys ==
    ASSUME UNCHANGED <<scan, batch>>
    PROVE  \A c \in Client : KeptKeys(c)' = KeptKeys(c)
  BY DEF KeptKeys

LEMMA OwnStep == ASSUME TableInv, [Next]_vars PROVE OwnInv'
<1> USE DEF TableInv
<1>1. CASE Quiet
  <2>1. UNCHANGED attempt /\ UNCHANGED <<scan, batch>> /\ rows' = rows /\ SameOpen
    BY <1>1, KindsKeep DEF Quiet
  <2>2. \A c \in Client : KeptKeys(c)' = KeptKeys(c)
    BY <2>1, SameKeys
  <2> QED
    BY <2>1, <2>2 DEF OwnInv, SameOpen
<1>2. ASSUME NEW d \in Client, Accepts(d) PROVE OwnInv'
  <2>1. /\ UNCHANGED attempt /\ UNCHANGED <<scan, batch>> /\ rows' = rows
        /\ \A c \in Client : Open(c) => Open(c)'
    BY <1>2, KindsKeep DEF Accepts
  <2>2. \A c \in Client : KeptKeys(c)' = KeptKeys(c)
    BY <2>1, SameKeys
  <2> QED
    BY <2>1, <2>2 DEF OwnInv
<1>3. ASSUME NEW d \in Client, Writes(d) PROVE OwnInv'
  <2> DEFINE k == CurrentKey(d)
  <2>1. UNCHANGED attempt /\ UNCHANGED <<scan, batch>> /\ SameOpen /\ Open(d)
    BY <1>3, KindsKeep DEF Writes
  <2>2. \A c \in Client : KeptKeys(c)' = KeptKeys(c)
    BY <2>1, SameKeys
  <2>3. /\ k \in Key /\ k \in KeptKeys(d)
        /\ \A l \in Key : l # k => rows'[l] = rows[l]
        /\ rows'[k].by # <<>> /\ rows'[k] # NoRow
        /\ rows[k] = NoRow => rows'[k].by = <<d, attempt[d]>>
        /\ rows[k] # NoRow => rows'[k].by = rows[k].by
    BY <1>3, WriteEffect
  <2> HIDE DEF k
  <2>4. attempt[d] \in Nat
    BY AttemptIsNext
  <2>5. ASSUME NEW l \in Key PROVE rows'[l].by = <<>> <=> rows'[l] = NoRow
    BY <2>3 DEF OwnInv
  <2>6. ASSUME NEW l \in Key, NEW c \in Client, NEW n \in Nat, rows'[l].by = <<c, n>>
        PROVE  l \in KeptKeys(c) /\ n <= attempt[c] /\ (n = attempt[c] => Open(c))
    <3>1. CASE rows[l].by = <<c, n>>
      BY <3>1 DEF OwnInv
    <3>2. CASE l = k /\ rows[k] = NoRow
      <4>1. c = d /\ n = attempt[d]
        BY <2>3, <2>6, <3>2
      <4> QED
        BY <2>1, <2>3, <2>4, <3>2, <4>1
    <3> QED
      BY <2>3, <2>6, <3>1, <3>2
  <2> QED
    BY <2>1, <2>2, <2>5, <2>6 DEF OwnInv, SameOpen
<1>4. ASSUME NEW C \in SUBSET Client, NEW a, Ends(C, a) PROVE OwnInv'
  <2>1. UNCHANGED <<scan, batch>> /\ rows' = rows
    BY <1>4 DEF Ends
  <2>2. \A c \in Client : KeptKeys(c)' = KeptKeys(c)
    BY <2>1, SameKeys
  <2>3. ASSUME NEW l \in Key, NEW c \in Client, NEW n \in Nat, rows[l].by = <<c, n>>
        PROVE  l \in KeptKeys(c) /\ n <= attempt'[c] /\ (n = attempt'[c] => Open(c)')
    <3>1. l \in KeptKeys(c) /\ n <= attempt[c] /\ (n = attempt[c] => Open(c))
      BY <2>3 DEF OwnInv
    <3>2. attempt[c] \in Nat
      BY AttemptIsNext
    <3>3. attempt'[c] = IF c \in C THEN attempt[c] + 1 ELSE attempt[c]
      BY <1>4, EndsKeep
    <3>4. c \notin C => (Open(c)' <=> Open(c))
      BY <1>4 DEF Ends
    <3> QED
      BY <3>1, <3>2, <3>3, <3>4
  <2> QED
    BY <2>1, <2>2, <2>3 DEF OwnInv
<1> QED
  BY <1>1, <1>2, <1>3, <1>4, StepKinds

LEMMA DoneStep == ASSUME TableInv, [Next]_vars PROVE DoneInv'
<1> USE DEF TableInv
<1>0. todo \in [Client -> SUBSET Nat] /\ \A c \in Client : batch[c] \in Batches /\ scan[c] \in Scan
  BY DEF TypeInv, TypeOK
<1>1. CASE Quiet
  BY <1>1 DEF Quiet, SameOpen, DoneInv
<1>2. ASSUME NEW d \in Client, Accepts(d) PROVE DoneInv'
  BY <1>0, <1>2 DEF Accepts, DoneInv
<1>3. ASSUME NEW d \in Client, Writes(d) PROVE DoneInv'
  <2> DEFINE k == CurrentKey(d)
  <2>1. /\ UNCHANGED <<scan, batch>> /\ SameOpen
        /\ todo' = [todo EXCEPT ![d] = todo[d] \ {First(d)}]
    BY <1>3 DEF Writes
  <2>2. /\ k = KeyOf(scan[d], batch[d][First(d)])
        /\ \A l \in Key : l # k => rows'[l] = rows[l]
        /\ rows'[k] # NoRow
    BY <1>3, WriteEffect
  <2> HIDE DEF k
  <2>3. ASSUME NEW c \in Client, Open(c), NEW x \in Kept(batch[c]) \ todo'[c]
        PROVE  rows'[KeyOf(scan[c], batch[c][x])] # NoRow
    <3>1. KeyOf(scan[c], batch[c][x]) \in Key
      BY <1>0, KeptRows
    <3>2. CASE x \notin todo[c]
      BY <2>2, <2>3, <3>1, <3>2 DEF DoneInv
    <3>3. CASE x \in todo[c]
      <4>1. c = d /\ x = First(d)
        BY <1>0, <2>1, <2>3, <3>3
      <4> QED
        BY <2>2, <4>1
    <3> QED
      BY <3>2, <3>3
  <2> QED
    BY <2>1, <2>3 DEF DoneInv, SameOpen
<1>4. ASSUME NEW C \in SUBSET Client, NEW a, Ends(C, a) PROVE DoneInv'
  <2>1. /\ UNCHANGED <<rows, scan, batch>>
        /\ \A d \in Client : Open(d)' => Open(d) /\ todo'[d] = todo[d]
    BY <1>4 DEF Ends
  <2> QED
    BY <2>1 DEF DoneInv
<1> QED
  BY <1>1, <1>2, <1>3, <1>4, StepKinds

\* What a write adds to the rows that an upload has created.
LEMMA CreatedByWrite ==
    ASSUME TableInv, NEW d \in Client, Writes(d), NEW c \in Client, NEW n \in Nat
    PROVE  LET k == CurrentKey(d)
               new == rows[k] = NoRow /\ c = d /\ n = attempt[d]
           IN /\ new => CreatedBy(c, n)' = CreatedBy(c, n) \cup {k} /\ k \notin CreatedBy(c, n)
              /\ ~new => CreatedBy(c, n)' = CreatedBy(c, n)
<1> DEFINE k == CurrentKey(d)
<1>1. /\ k \in Key
      /\ \A l \in Key : l # k => rows'[l] = rows[l]
      /\ rows[k] = NoRow => rows'[k].by = <<d, attempt[d]>>
      /\ rows[k] # NoRow => rows'[k].by = rows[k].by
  BY WriteEffect
<1>2. rows[k] = NoRow => rows[k].by = <<>>
  BY <1>1 DEF TableInv, OwnInv
<1> HIDE DEF k
<1>3. CASE rows[k] = NoRow /\ c = d /\ n = attempt[d]
  <2>0. <<>> # <<c, n>>
    OBVIOUS
  <2>1. k \notin CreatedBy(c, n)
    BY <1>2, <1>3, <2>0 DEF CreatedBy
  <2>2. rows'[k].by = <<c, n>>
    BY <1>1, <1>3
  <2>3. CreatedBy(c, n)' = CreatedBy(c, n) \cup {k}
    BY <1>1, <2>2 DEF CreatedBy, Key
  <2> QED
    BY <1>3, <2>1, <2>3 DEF k
<1>4. CASE ~(rows[k] = NoRow /\ c = d /\ n = attempt[d])
  <2>1. rows'[k].by = <<c, n>> <=> rows[k].by = <<c, n>>
    BY <1>1, <1>2, <1>4
  <2>2. CreatedBy(c, n)' = CreatedBy(c, n)
    BY <1>1, <2>1 DEF CreatedBy, Key
  <2> QED
    BY <1>4, <2>2 DEF k
<1> QED
  BY <1>3, <1>4

LEMMA CreatedStays ==
    ASSUME rows' = rows PROVE \A c \in Client, n \in Nat : CreatedBy(c, n)' = CreatedBy(c, n)
  BY DEF CreatedBy, Key

LEMMA CountStep == ASSUME TableInv, [Next]_vars PROVE CountInv'
<1> USE DEF TableInv
<1> SUFFICES ASSUME NEW c \in Client
             PROVE  inserted'[c] = Cardinality(CreatedBy(c, attempt[c])')
  BY DEF CountInv
<1>1. attempt[c] \in Nat /\ inserted[c] = Cardinality(CreatedBy(c, attempt[c]))
  BY AttemptIsNext DEF CountInv
<1>2. CASE Quiet \/ \E d \in Client : Accepts(d)
  <2>1. inserted' = inserted /\ rows' = rows /\ attempt' = attempt
    BY <1>2, KindsKeep DEF Quiet, Accepts
  <2>2. CreatedBy(c, attempt[c])' = CreatedBy(c, attempt[c])
    BY <2>1 DEF CreatedBy, Key
  <2> QED
    BY <1>1, <2>1, <2>2
<1>3. ASSUME NEW d \in Client, Writes(d)
      PROVE  inserted'[c] = Cardinality(CreatedBy(c, attempt[c])')
  <2> DEFINE n == attempt[c]
             k == CurrentKey(d)
             new == rows[k] = NoRow /\ c = d
  <2>1. attempt' = attempt
    BY <1>3, KindsKeep
  <2>2. /\ new => CreatedBy(c, n)' = CreatedBy(c, n) \cup {k} /\ k \notin CreatedBy(c, n)
        /\ ~new => CreatedBy(c, n)' = CreatedBy(c, n)
    BY <1>1, <1>3, <2>1, CreatedByWrite
  <2>3. inserted'[c] = IF new THEN inserted[c] + 1 ELSE inserted[c]
    BY <1>3 DEF Writes, TypeInv, TypeOK
  <2>4. IsFiniteSet(CreatedBy(c, n))
    BY <1>1, CreatedFinite
  <2> HIDE DEF k, n
  <2>5. new => Cardinality(CreatedBy(c, n)') = Cardinality(CreatedBy(c, n)) + 1
    BY <2>2, <2>4, FS_AddElement
  <2>6. inserted[c] = Cardinality(CreatedBy(c, n))
    BY <1>1 DEF n
  <2>7. inserted'[c] = Cardinality(CreatedBy(c, n)')
    BY <2>2, <2>3, <2>5, <2>6
  <2> QED
    BY <2>7 DEF n
<1>4. ASSUME NEW C \in SUBSET Client, NEW a, Ends(C, a)
      PROVE  inserted'[c] = Cardinality(CreatedBy(c, attempt[c])')
  <2>1. rows' = rows /\ attempt'[c] = IF c \in C THEN attempt[c] + 1 ELSE attempt[c]
    BY <1>4, EndsKeep
  <2>2. inserted'[c] = IF c \in C THEN 0 ELSE inserted[c]
    BY <1>4 DEF Ends
  <2>3. CreatedBy(c, attempt[c])' = CreatedBy(c, attempt'[c])
    BY <2>1 DEF CreatedBy, Key
  <2>4. c \in C => CreatedBy(c, attempt'[c]) = {}
    BY <2>1, NothingYet
  <2> QED
    BY <1>1, <2>1, <2>2, <2>3, <2>4, FS_EmptySet
<1> QED
  BY <1>2, <1>3, <1>4, StepKinds

LEMMA TableStep == TableInv /\ [Next]_vars => TableInv'
  BY TypeStep, TxStep, OwnStep, DoneStep, CountStep DEF TableInv

-----------------------------------------------------------------------------
(***************************************************************************)
(* The answers.  What a later step does to an answered upload, and what a  *)
(* new answer says.                                                        *)
(***************************************************************************)
LEMMA PastStays ==
    ASSUME TableInv, [Next]_vars, NEW c \in Client
    PROVE  /\ KeptKeys(c)' = KeptKeys(c) /\ batch'[c] = batch[c]
           /\ \A k \in Key : rows[k] # NoRow => rows'[k] # NoRow
           /\ \A n \in Nat : n < attempt[c] => CreatedBy(c, n)' = CreatedBy(c, n)
           /\ attempt[c] <= attempt'[c]
           /\ \A n \in DOMAIN answers[c] :
                 n \in DOMAIN answers'[c] /\ answers'[c][n] = answers[c][n]
<1>0. attempt[c] \in Nat /\ TypeInv /\ answers[c] \in Seq(Answer)
  BY AttemptIsNext DEF TableInv, TypeInv, TypeOK
<1>1. CASE Quiet \/ \E d \in Client : Accepts(d)
  <2>1. rows' = rows /\ UNCHANGED <<scan, batch, answers, attempt>>
    BY <1>0, <1>1, KindsKeep DEF Quiet, Accepts
  <2> QED
    BY <1>0, <2>1, CreatedStays, SameKeys
<1>2. ASSUME NEW d \in Client, Writes(d)
      PROVE  /\ KeptKeys(c)' = KeptKeys(c) /\ batch'[c] = batch[c]
             /\ \A k \in Key : rows[k] # NoRow => rows'[k] # NoRow
             /\ \A n \in Nat : n < attempt[c] => CreatedBy(c, n)' = CreatedBy(c, n)
             /\ attempt' = attempt /\ answers' = answers
  <2>1. UNCHANGED <<scan, batch, answers, attempt>>
    BY <1>0, <1>2, KindsKeep
  <2>2. \A k \in Key : rows[k] # NoRow => rows'[k] # NoRow
    BY <1>2, WriteEffect
  <2>3. ASSUME NEW n \in Nat, n < attempt[c] PROVE CreatedBy(c, n)' = CreatedBy(c, n)
    <3>1. ~(c = d /\ n = attempt[d])
      BY <1>0, <2>3
    <3> QED
      BY <1>2, <3>1, CreatedByWrite
  <2> QED
    BY <2>1, <2>2, <2>3, SameKeys
<1>3. ASSUME NEW C \in SUBSET Client, NEW a, Ends(C, a)
      PROVE  /\ KeptKeys(c)' = KeptKeys(c) /\ batch'[c] = batch[c]
             /\ rows' = rows
             /\ attempt[c] <= attempt'[c]
             /\ \A n \in DOMAIN answers[c] :
                   n \in DOMAIN answers'[c] /\ answers'[c][n] = answers[c][n]
  <2>1. /\ UNCHANGED <<rows, scan, batch>>
        /\ attempt'[c] = IF c \in C THEN attempt[c] + 1 ELSE attempt[c]
        /\ answers'[c] = IF c \in C THEN Append(answers[c], a[c]) ELSE answers[c]
    BY <1>0, <1>3, EndsKeep
  <2>2. c \in C => a[c] \in Answer
    BY <1>3 DEF Ends, Fits
  <2>3. \A n \in DOMAIN answers[c] :
            n \in DOMAIN answers'[c] /\ answers'[c][n] = answers[c][n]
    BY <1>0, <2>1, <2>2
  <2> QED
    BY <1>0, <2>1, <2>3, SameKeys
<1>4. CASE \E d \in Client : Writes(d)
  BY <1>0, <1>2, <1>4
<1>5. CASE \E C \in SUBSET Client : \E a : Ends(C, a)
  BY <1>0, <1>3, <1>5, CreatedStays
<1> QED
  BY <1>0, <1>1, <1>4, <1>5, StepKinds DEF TableInv

LEMMA NewAnswers ==
    ASSUME TableInv, [Next]_vars, NEW c \in Client,
           NEW n \in DOMAIN answers'[c], n \notin DOMAIN answers[c]
    PROVE  /\ n = attempt[c] /\ Fits(c, answers'[c][n]) /\ UNCHANGED <<rows, scan, batch>>
           /\ attempt'[c] = n + 1
<1>0. /\ attempt[c] \in Nat /\ TypeInv /\ answers[c] \in Seq(Answer)
      /\ attempt[c] = Len(answers[c]) + 1
  BY AttemptIsNext DEF TableInv, TypeInv, TypeOK
<1>1. ~(Quiet \/ \E d \in Client : Accepts(d) \/ Writes(d))
  BY <1>0, KindsKeep
<1> PICK C \in SUBSET Client : \E a : Ends(C, a)
  BY <1>1, StepKinds DEF TableInv
<1>2. PICK a : Ends(C, a)
  OBVIOUS
<1>3. /\ UNCHANGED <<rows, scan, batch>>
      /\ attempt'[c] = IF c \in C THEN attempt[c] + 1 ELSE attempt[c]
      /\ answers'[c] = IF c \in C THEN Append(answers[c], a[c]) ELSE answers[c]
  BY <1>0, <1>2, EndsKeep
<1>4. c \in C /\ Fits(c, a[c]) /\ a[c] \in Answer
  BY <1>2, <1>3 DEF Ends, Fits
<1>5. n = attempt[c] /\ answers'[c][n] = a[c]
  BY <1>0, <1>3, <1>4
<1> QED
  BY <1>3, <1>4, <1>5

LEMMA HonestStep ==
    ASSUME TableInv, AnswersHonest, [Next]_vars PROVE AnswersHonest'
<1> SUFFICES ASSUME NEW c \in Client, NEW n \in DOMAIN answers'[c]
             PROVE  /\ answers'[c][n].code = 200 =>
                          \A k \in KeptKeys(c)' : rows'[k] # NoRow
                    /\ answers'[c][n].code \in {404, 409} => CreatedBy(c, n)' = {}
  BY DEF AnswersHonest
<1>0. /\ attempt[c] \in Nat /\ attempt[c] = Len(answers[c]) + 1
      /\ DOMAIN answers[c] = 1..Len(answers[c]) /\ Len(answers[c]) \in Nat
  BY AttemptIsNext DEF TableInv
<1>1. KeptKeys(c) \subseteq Key
  BY KeptKeysFinite DEF TableInv
<1>2. CASE n \in DOMAIN answers[c]
  <2>1. n \in Nat /\ n < attempt[c]
    BY <1>0, <1>2
  <2>2. answers'[c][n] = answers[c][n] /\ CreatedBy(c, n)' = CreatedBy(c, n)
    BY <1>2, <2>1, PastStays
  <2>3. answers[c][n].code = 200 => \A k \in KeptKeys(c) : rows[k] # NoRow
    BY <1>2 DEF AnswersHonest
  <2>4. answers[c][n].code \in {404, 409} => CreatedBy(c, n) = {}
    BY <1>2 DEF AnswersHonest
  <2> QED
    BY <1>1, <2>2, <2>3, <2>4, PastStays
<1>3. CASE n \notin DOMAIN answers[c]
  <2>1. /\ n = attempt[c] /\ Fits(c, answers'[c][n]) /\ UNCHANGED <<rows, scan, batch>>
    BY <1>3, NewAnswers
  <2>2. answers'[c][n].code = 200 => \A k \in KeptKeys(c) : rows[k] # NoRow
    BY <2>1 DEF Fits, TableInv, DoneInv, KeptKeys
  <2>3. answers'[c][n].code \in {404, 409} => CreatedBy(c, n) = {}
    BY <2>1, NothingYet DEF Fits, TableInv
  <2>4. KeptKeys(c)' = KeptKeys(c) /\ CreatedBy(c, n)' = CreatedBy(c, n) /\ rows' = rows
    BY <1>0, <2>1, CreatedStays, SameKeys
  <2> QED
    BY <2>2, <2>3, <2>4
<1> QED
  BY <1>2, <1>3

\* After a 200 every kept row is stored for good, and a 404 or 409 means that the
\* upload has stored nothing (ingest.go:77-123, errors.go, server.go).
THEOREM AnswersAreHonest == Spec => []AnswersHonest
<1>1. Init => AnswersHonest
  BY DEF Init, AnswersHonest
<1>2. (TableInv /\ AnswersHonest) /\ [Next]_vars => (TableInv /\ AnswersHonest)'
  BY TableStep, HonestStep
<1> QED
  BY <1>1, <1>2, InitTable, PTL DEF Spec

LEMMA RetryStep ==
    ASSUME TableInv, AnswersHonest, RetryInsertsNothing, [Next]_vars
    PROVE  RetryInsertsNothing'
<1> SUFFICES ASSUME NEW c \in Client, NEW m \in DOMAIN answers'[c],
                    NEW n \in 1..attempt'[c], m < n, answers'[c][m].code = 200
             PROVE  CreatedBy(c, n)' = {}
  BY DEF RetryInsertsNothing
<1>0. /\ attempt[c] \in Nat /\ attempt[c] = Len(answers[c]) + 1
      /\ DOMAIN answers[c] = 1..Len(answers[c]) /\ Len(answers[c]) \in Nat
      /\ TypeInv /\ TypeInv'
  BY AttemptIsNext, TableStep DEF TableInv
<1>1. attempt'[c] \in Nat /\ m \in Nat /\ n \in Nat
  <2>1. attempt'[c] = Len(answers'[c]) + 1 /\ answers'[c] \in Seq(Answer)
    BY <1>0 DEF attempt, TypeInv, TypeOK
  <2> QED
    BY <2>1
<1>2. CASE m \notin DOMAIN answers[c]
  <2>1. m = attempt[c] /\ attempt'[c] = m + 1 /\ UNCHANGED <<rows, scan, batch>>
    BY <1>2, NewAnswers
  <2>2. n = attempt[c] + 1
    BY <1>0, <1>1, <2>1
  <2>3. CreatedBy(c, n) = {}
    BY <1>0, <2>2, NothingYet DEF TableInv
  <2> QED
    BY <1>1, <2>1, <2>3, CreatedStays
<1>3. CASE m \in DOMAIN answers[c]
  <2>1. answers[c][m].code = 200
    BY <1>3, PastStays
  <2>2. \A k \in KeptKeys(c) : rows[k] # NoRow
    BY <1>3, <2>1 DEF AnswersHonest
  <2>3. n <= attempt[c] => CreatedBy(c, n) = {}
    BY <1>1, <1>0, <1>3, <2>1 DEF RetryInsertsNothing
  <2>4. n = attempt[c] + 1 => CreatedBy(c, n) = {}
    BY <1>0, NothingYet DEF TableInv
  <2>5. CASE Quiet \/ \E d \in Client : Accepts(d)
    <3>1. rows' = rows /\ attempt' = attempt
      BY <1>0, <2>5, KindsKeep DEF Quiet, Accepts
    <3> QED
      BY <1>1, <2>3, <3>1, CreatedStays
  <2>6. ASSUME NEW d \in Client, Writes(d) PROVE CreatedBy(c, n)' = {}
    <3>1. attempt' = attempt /\ CreatedBy(c, n) = {}
      BY <1>0, <1>1, <2>3, <2>6, KindsKeep
    <3>2. CurrentKey(d) \in KeptKeys(d)
      BY <2>6, WriteEffect
    <3>3. ~(rows[CurrentKey(d)] = NoRow /\ c = d)
      BY <2>2, <3>2
    <3> QED
      BY <1>1, <2>6, <3>1, <3>3, CreatedByWrite
  <2>7. ASSUME NEW C \in SUBSET Client, NEW a, Ends(C, a) PROVE CreatedBy(c, n)' = {}
    <3>1. rows' = rows /\ attempt'[c] = IF c \in C THEN attempt[c] + 1 ELSE attempt[c]
      BY <1>0, <2>7, EndsKeep
    <3>2. CreatedBy(c, n) = {}
      BY <1>0, <1>1, <2>3, <2>4, <3>1
    <3> QED
      BY <1>1, <3>1, <3>2, CreatedStays
  <2> QED
    BY <2>5, <2>6, <2>7, StepKinds DEF TableInv
<1> QED
  BY <1>2, <1>3

\* A client that uploads its batch again after a 200 creates no row, whatever other
\* uploads and failures happen in between (gate_store.go:17-63).
THEOREM RetriesInsertNothing == Spec => []RetryInsertsNothing
<1>1. Init => AnswersHonest /\ RetryInsertsNothing
  BY DEF Init, AnswersHonest, RetryInsertsNothing
<1>2. /\ TableInv /\ AnswersHonest /\ RetryInsertsNothing
      /\ [Next]_vars
      => (TableInv /\ AnswersHonest /\ RetryInsertsNothing)'
  BY TableStep, HonestStep, RetryStep
<1> QED
  BY <1>1, <1>2, InitTable, PTL DEF Spec

\* What a complete result says of the rows that its upload has created.
LEMMA ResultAddsUp ==
    ASSUME TableInv, NEW c \in Client
    PROVE  LET a == Result(c, inserted[c]) IN
           /\ a.inserted = Cardinality(CreatedBy(c, attempt[c]))
           /\ a.inserted + a.reused + a.skipped = Len(batch[c])
           /\ a.reused >= Cardinality(Kept(batch[c])) - Cardinality(KeptKeys(c))
<1> DEFINE V == Counted(batch[c], "valid")
           M == Counted(batch[c], "missing")
           K == Counted(batch[c], "skipped")
           n == inserted[c]
           kept == Cardinality(Kept(batch[c]))
           keys == Cardinality(KeptKeys(c))
<1>1. /\ V \in Nat /\ M \in Nat /\ K \in Nat /\ Len(batch[c]) \in Nat
      /\ V + M + K = Len(batch[c]) /\ kept = V + M
  <2>1. batch[c] \in Batches
    BY DEF TableInv, TypeInv, TypeOK
  <2> QED
    BY <2>1, Counts
<1>2. n = Cardinality(CreatedBy(c, attempt[c])) /\ attempt[c] \in Nat
  BY AttemptIsNext DEF TableInv, CountInv
<1>3. n \in Nat /\ n <= keys
  BY <1>2, CreatedFinite DEF TableInv
<1>4. keys \in Nat
  BY KeptKeysFinite DEF TableInv
<1>5. /\ Result(c, n).inserted = n /\ Result(c, n).skipped = K
      /\ Result(c, n).reused = V + M - n
  BY DEF Result
<1> HIDE DEF V, M, K, n, kept, keys
<1>6. /\ n + (V + M - n) + K = Len(batch[c])
      /\ V + M - n >= kept - keys
  BY <1>1, <1>3, <1>4
<1> QED
  BY <1>2, <1>5, <1>6 DEF n, kept, keys

LEMMA AddUpStep ==
    ASSUME TableInv, AnswersAddUp, [Next]_vars PROVE AnswersAddUp'
<1> DEFINE Says(a, mine, b, keys) ==
               /\ a.inserted = Cardinality(mine)
               /\ a.inserted + a.reused + a.skipped = Len(b)
               /\ a.reused >= Cardinality(Kept(b)) - Cardinality(keys)
<1> SUFFICES ASSUME NEW c \in Client, NEW n \in DOMAIN answers'[c],
                    answers'[c][n].code = 200
             PROVE  Says(answers'[c][n], CreatedBy(c, n)', batch'[c], KeptKeys(c)')
  BY DEF AnswersAddUp
<1>0. /\ attempt[c] \in Nat /\ attempt[c] = Len(answers[c]) + 1
      /\ DOMAIN answers[c] = 1..Len(answers[c]) /\ Len(answers[c]) \in Nat
  BY AttemptIsNext DEF TableInv
<1>1. CASE n \in DOMAIN answers[c]
  <2>1. n \in Nat /\ n < attempt[c]
    BY <1>0, <1>1
  <2>2. /\ answers'[c][n] = answers[c][n] /\ CreatedBy(c, n)' = CreatedBy(c, n)
        /\ batch'[c] = batch[c] /\ KeptKeys(c)' = KeptKeys(c)
    BY <1>1, <2>1, PastStays
  <2>3. Says(answers[c][n], CreatedBy(c, n), batch[c], KeptKeys(c))
    BY <1>1, <2>2 DEF AnswersAddUp
  <2> HIDE DEF Says
  <2> QED
    BY <2>2, <2>3
<1>2. CASE n \notin DOMAIN answers[c]
  <2>1. /\ n = attempt[c] /\ Fits(c, answers'[c][n]) /\ UNCHANGED <<rows, scan, batch>>
    BY <1>2, NewAnswers
  <2>2. answers'[c][n] = Result(c, inserted[c])
    BY <2>1 DEF Fits
  <2>3. Says(Result(c, inserted[c]), CreatedBy(c, attempt[c]), batch[c], KeptKeys(c))
    BY ResultAddsUp
  <2>4. /\ KeptKeys(c)' = KeptKeys(c) /\ CreatedBy(c, n)' = CreatedBy(c, n)
        /\ batch'[c] = batch[c]
    BY <1>0, <2>1, CreatedStays, SameKeys
  <2> HIDE DEF Says
  <2> QED
    BY <2>1, <2>2, <2>3, <2>4
<1> QED
  BY <1>1, <1>2

\* An answered upload has counted the rows it created, all its rows and every repeated
\* key (ingest.go:98-119).
THEOREM CountsAreTrue == Spec => []AnswersAddUp
<1>1. Init => AnswersAddUp
  BY DEF Init, AnswersAddUp
<1>2. (TableInv /\ AnswersAddUp) /\ [Next]_vars => (TableInv /\ AnswersAddUp)'
  BY TableStep, AddUpStep
<1> QED
  BY <1>1, <1>2, InitTable, PTL DEF Spec

-----------------------------------------------------------------------------
(***************************************************************************)
(* The refinement of AtomicUploads.                                        *)
(***************************************************************************)
Active == {c \in Client : pc[c] # "idle"}

LEMMA SameData ==
    /\ Atomic!NoRow = NoRow /\ Atomic!Key = Key
    /\ \A b : Atomic!Kept(b) = Kept(b)
    /\ \A s, g : Atomic!KeyOf(s, g) = KeyOf(s, g)
    /\ \A by, g : Atomic!NewRow(by, g) = NewRow(by, g)
    /\ \A row, g : Atomic!Overwritten(row, g) = Overwritten(row, g)
<1>1. \A g : Atomic!Outcome(g) = Outcome(g)
  BY DEF Atomic!Outcome, Outcome, Atomic!BadPlace, BadPlace, Atomic!BadValues, BadValues,
         Atomic!IndexOutOfRange, IndexOutOfRange, Atomic!Incomplete, Incomplete,
         Atomic!Finite, Finite
<1>2. \A g : Atomic!Vars(g) = Vars(g)
  BY DEF Atomic!Vars, Vars, Atomic!Incomplete, Incomplete
<1> QED
  BY <1>1, <1>2 DEF Atomic!NoRow, NoRow, Atomic!Key, Key, Atomic!Kept, Kept,
     Atomic!KeyOf, KeyOf, Atomic!NewRow, NewRow, Atomic!Overwritten, Overwritten

LEMMA InitRefines == Init => Atomic!Init
<1> SUFFICES ASSUME Init PROVE Atomic!Init
  OBVIOUS
<1>1. attempt = [c \in Client |-> 1]
  BY DEF Init, attempt
<1>2. Active = {}
  BY DEF Init, Active
<1> QED
  BY <1>1, <1>2, SameData DEF Init, Closed, Atomic!Init, Active

\* A quiet step of an upload that stays under way, or stays idle, is a stutter.
LEMMA QuietRefines ==
    ASSUME TypeInv, Quiet, Active' = Active PROVE UNCHANGED Atomic!vars
<1>1. attempt' = attempt
  BY KindsKeep
<1> QED
  BY <1>1 DEF Quiet, Atomic!vars, Active

LEMMA EndRefines ==
    ASSUME TypeInv, NEW C \in SUBSET Client, NEW a, Ends(C, a), Active' = Active \ C
    PROVE  Atomic!Next
<1>1. attempt' = [c \in Client |-> IF c \in C THEN attempt[c] + 1 ELSE attempt[c]]
  <2>1. attempt' = [c \in Client |-> attempt'[c]]
    BY DEF attempt
  <2>2. \A c \in Client : attempt'[c] = IF c \in C THEN attempt[c] + 1 ELSE attempt[c]
    BY EndsKeep
  <2> QED
    BY <2>1, <2>2
<1>2. Atomic!End(C)
  BY <1>1 DEF Ends, Atomic!End, Active
<1> QED
  BY <1>2 DEF Atomic!Next

LEMMA SendRefines == ASSUME TypeInv, NEW c \in Client, Send(c) PROVE Atomic!Next
<1>1. /\ pc[c] = "idle" /\ pc' = [pc EXCEPT ![c] = "get"] /\ pc \in [Client -> PC]
      /\ UNCHANGED <<rows, scan, batch, todo, inserted, answers>>
  BY DEF Send, Goto, TypeInv, TypeOK, database, input
<1>2. Active' = Active \cup {c} /\ c \notin Active
  BY <1>1 DEF Active
<1>3. attempt' = attempt
  BY <1>1 DEF attempt
<1>4. Atomic!Begin(c)
  BY <1>1, <1>2, <1>3 DEF Atomic!Begin, Active
<1> QED
  BY <1>4 DEF Atomic!Next

LEMMA ActiveStays ==
    ASSUME TypeInv, NEW c \in Client, pc[c] # "idle", NEW next, next # "idle", Goto(c, next)
    PROVE  Active' = Active /\ c \in Active
  BY DEF Active, Goto, TypeInv, TypeOK

LEMMA ActiveEnds ==
    ASSUME TypeInv, NEW c \in Client, NEW a, EndWith(c, a)
    PROVE  Active' = Active \ {c}
  BY DEF Active, EndWith, Goto, TypeInv, TypeOK

LEMMA GetRefines == ASSUME TypeInv, NEW c \in Client, Get(c) PROVE Atomic!Next
<1>1. pc[c] = "get" /\ UNCHANGED <<rows, input>> /\ ~Open(c)
  BY GetCases DEF Open, database
<1>2. ASSUME NEW code \in {400, 404, 409}, EndWith(c, Failure(code)) PROVE Atomic!Next
  <2>1. Fits(c, Failure(code))
    BY <1>1, FailureFits
  <2>2. Active' = Active \ {c}
    BY <1>2, ActiveEnds
  <2>3. \E a : Ends({c}, a)
    BY <1>1, <1>2, <2>1, EndOfOne
  <2> QED
    BY <2>2, <2>3, EndRefines
<1>3. CASE Proceed(c, Kept(batch[c]), 0)
  <2>1. /\ Goto(c, IF Kept(batch[c]) = {} THEN "reply" ELSE "begin")
        /\ todo' = [todo EXCEPT ![c] = Kept(batch[c])]
        /\ inserted' = [inserted EXCEPT ![c] = 0] /\ answers' = answers
    BY <1>3 DEF Proceed
  <2>2. Active' = Active /\ c \in Active
    BY <1>1, <2>1, ActiveStays
  <2>3. inserted \in [Client -> Nat] /\ inserted[c] = 0
    BY <1>1 DEF TypeInv, TypeOK, PhaseInv
  <2>4. inserted' = inserted /\ attempt' = attempt
    BY <2>1, <2>3 DEF attempt
  <2>5. Atomic!Accept(c)
    BY <1>1, <2>1, <2>2, <2>4, SameData DEF Atomic!Accept, Active, input
  <2> QED
    BY <2>5 DEF Atomic!Next
<1> QED
  BY <1>2, <1>3, GetCases

LEMMA CommitRefines ==
    ASSUME TypeInv, TxInv, NEW c \in Client, CommitTx(c) PROVE Atomic!Next
<1> DEFINE x == First(c)
           g == batch[c][x]
           k == KeyOf(scan[c], g)
<1>1. Writes(c)
  BY CommitKind
<1>2. /\ x \in todo[c] /\ \A y \in todo[c] : x <= y
      /\ Current(c) = g /\ CurrentKey(c) = k
  BY <1>1, CurrentRow DEF Writes
<1>3. Active' = Active /\ c \in Active
  <2>1. /\ pc[c] # "idle"
        /\ Goto(c, IF todo[c] \ {First(c)} = {} THEN "reply" ELSE "begin")
    BY DEF CommitTx, Proceed
  <2> QED
    BY <2>1, ActiveStays
<1>4. attempt' = attempt /\ UNCHANGED <<scan, batch>>
  BY <1>1, KindsKeep
<1>5. todo' = [todo EXCEPT ![c] = @ \ {x}]
  BY <1>1 DEF Writes
<1>6. IF rows[k] = NoRow
      THEN /\ rows' = [rows EXCEPT ![k] = NewRow(<<c, attempt[c]>>, g)]
           /\ inserted' = [inserted EXCEPT ![c] = @ + 1]
      ELSE /\ rows' = [rows EXCEPT ![k] = Overwritten(@, g)]
           /\ UNCHANGED inserted
  BY <1>1, <1>2 DEF Writes, InsertedDraft, UpdatedDraft
<1> HIDE DEF x
<1>7. Atomic!Upsert(c)
  BY <1>2, <1>3, <1>4, <1>5, <1>6, SameData DEF Atomic!Upsert, Active
<1> QED
  BY <1>7 DEF Atomic!Next

LEMMA CrashRefines == ASSUME TypeInv, Crash PROVE Atomic!Next
<1> PICK C \in SUBSET Client : \E a : Ends(C, a)
  BY CrashKind
<1>1. PICK a : Ends(C, a)
  OBVIOUS
<1>2. \A c \in Client : pc'[c] = "idle" /\ (c \notin C => answers'[c] = answers[c])
  BY <1>1, EndsKeep DEF Crash
<1>3. Active' = Active \ C
  <2>1. Active' = {}
    BY <1>2 DEF Active
  <2>2. ASSUME NEW c \in Active PROVE c \in C
    <3>1. answers[c] \in Seq(Answer) /\ NoAnswer \in Answer /\ c \in Client
      BY FailuresAreAnswers DEF TypeInv, TypeOK, Active, NoAnswer
    <3>2. answers'[c] = Append(answers[c], NoAnswer)
      BY <3>1 DEF Crash, Active
    <3>3. Len(answers'[c]) # Len(answers[c])
      BY <3>1, <3>2
    <3> QED
      BY <1>2, <3>1, <3>3
  <2> QED
    BY <2>1, <2>2
<1> QED
  BY <1>1, <1>3, EndRefines

LEMMA StepRefines ==
    ASSUME TableInv, [Next]_vars PROVE Atomic!Next \/ UNCHANGED Atomic!vars
<1> USE DEF TableInv
<1>1. ASSUME NEW c \in Client, BeginTx(c) \/ Select(c) \/ Insert(c) \/ Update(c)
      PROVE  UNCHANGED Atomic!vars
  <2>1. Quiet
    BY <1>1, QuietKind
  <2>2. \E next : next # "idle" /\ Goto(c, next) /\ pc[c] # "idle"
    BY <1>1 DEF BeginTx, Select, Insert, Update
  <2>3. Active' = Active
    BY <2>2, ActiveStays
  <2> QED
    BY <2>1, <2>3, QuietRefines
<1>2. CASE Boot \/ (\E s \in Scan, st \in ScanStatus : SetStatus(s, st)) \/ UNCHANGED vars
  <2>1. Quiet
    BY <1>2, QuietKind
  <2>2. pc' = pc
    BY <1>2 DEF Boot, SetStatus, vars, upload
  <2> QED
    BY <2>1, <2>2, QuietRefines DEF Active
<1>3. ASSUME NEW c \in Client, Reply(c) PROVE Atomic!Next
  <2>1. Active' = Active \ {c}
    BY <1>3, ActiveEnds DEF Reply
  <2> QED
    BY <1>3, <2>1, ReplyKind, EndRefines
<1>4. ASSUME NEW c \in Client, Fail(c) PROVE Atomic!Next
  <2>1. Active' = Active \ {c}
    BY <1>4, ActiveEnds DEF Fail, Refuse
  <2> QED
    BY <1>4, <2>1, FailKind, EndRefines
<1> QED
  BY <1>1, <1>2, <1>3, <1>4, SendRefines, GetRefines, CommitRefines, CrashRefines
     DEF Next, Step

\* The transactions of an upload, with their failures and stops, do what AtomicUploads
\* promises: every row at once or not at all, in the order of the batch
\* (ingest.go:98-119, gate_store.go:17-63).
THEOREM UploadsAreAtomic == Spec => RowsAreAtomic
<1>1. TableInv /\ [Next]_vars => [Atomic!Next]_(Atomic!vars)
  BY StepRefines
<1> QED
  BY <1>1, InitTable, InitRefines, TableStep, PTL DEF Spec, RowsAreAtomic, Atomic!Spec
=============================================================================
