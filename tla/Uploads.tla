------------------------------ MODULE Uploads ------------------------------
(***************************************************************************)
(* Uploads of gates by clients that send their batch again, after an       *)
(* answer or after none: POST /api/scans/{id}/gates from the request to    *)
(* the answer, every row in a transaction of its own, over a database with *)
(* one connection, with failing statements and stops of the process.       *)
(*                                                                         *)
(* ScanPipeline has the same operation at the grain of one step per row,   *)
(* for what uploads do to the results of a scan; here the transactions are *)
(* taken apart, for what an upload promises its client.                    *)
(***************************************************************************)
EXTENDS Validator, Replies, Database

CONSTANTS
    Client,      \* each uploads one batch, as often as it likes
    Batches,     \* batches of gates somebody uploads
    MaxAttempts  \* bound: uploads of each client

ASSUME UploadsAssumption ==
    /\ User = Client
    /\ Batches \subseteq Seq(GateInput)
    /\ MaxAttempts \in [Client -> Nat]

VARIABLES
    status,          \* scans.status, "none" before the scan is created
    scan, batch,     \* what the client uploads
    pc,              \* what the upload executes next
    todo,            \* rows of the batch it still has to write
    inserted,        \* rows it has counted as new
    answers          \* one answer per upload that has ended

upload == <<pc, todo, inserted, answers>>
input  == <<scan, batch>>
vars   == <<database, status, input, upload>>

ScanStatus == {"none", "receiving", "pending", "marked", "sealed"}
InTx == {"select", "insert", "update", "commitNew", "commitOld"}
PC   == {"idle", "get", "begin", "reply"} \cup InTx

\* The answer a client gets; the code is 0 when none reaches it.
Answer == [code : {0, 200, 400, 404, 409, 500},
           inserted : Nat, skipped : Nat, missing : Nat, reused : Int]

Failure(code) == [code |-> code, inserted |-> 0, skipped |-> 0, missing |-> 0, reused |-> 0]
NoAnswer      == Failure(0)

Init ==
    /\ Closed([k \in Key |-> NoRow])
    /\ status = [s \in Scan |-> "none"]
    /\ scan \in [Client -> Scan]
    /\ batch \in [Client -> Batches]
    /\ pc = [c \in Client |-> "idle"]
    /\ todo = [c \in Client |-> {}]
    /\ inserted = [c \in Client |-> 0]
    /\ answers = [c \in Client |-> <<>>]

-----------------------------------------------------------------------------
attempt == [c \in Client |-> Len(answers[c]) + 1]

\* The next row of the batch, and its key.
First(c) == CHOOSE i \in todo[c] : \A j \in todo[c] : i <= j
Current(c) == batch[c][First(c)]
CurrentKey(c) == KeyOf(scan[c], Current(c))

Goto(c, next) == pc' = [pc EXCEPT ![c] = next]

EndWith(c, answer) ==
    /\ Goto(c, "idle")
    /\ todo' = [todo EXCEPT ![c] = {}]
    /\ inserted' = [inserted EXCEPT ![c] = 0]
    /\ answers' = [answers EXCEPT ![c] = Append(@, answer)]

Refuse(c, err) == EndWith(c, Failure(HandleErr(err)))

Result(c, new) ==
    [code     |-> 200,
     inserted |-> new,
     skipped  |-> Counted(batch[c], "skipped"),
     missing  |-> Counted(batch[c], "missing"),
     reused   |-> Counted(batch[c], "valid") + Counted(batch[c], "missing") - new]

\* On to the next row of S, or to the answer.
Proceed(c, S, new) ==
    /\ Goto(c, IF S = {} THEN "reply" ELSE "begin")
    /\ todo' = [todo EXCEPT ![c] = S]
    /\ inserted' = [inserted EXCEPT ![c] = new]
    /\ UNCHANGED answers

-----------------------------------------------------------------------------
(***************************************************************************)
(* handleAppendGates and Ingestor.AppendGates.                             *)
(***************************************************************************)
\* A body that cannot be decoded is answered like an empty one.
Send(c) ==
    /\ pc[c] = "idle" /\ Serving
    /\ Len(answers[c]) < MaxAttempts[c]
    /\ Goto(c, "get")
    /\ UNCHANGED <<database, status, input, todo, inserted, answers>>

Get(c) ==
    /\ pc[c] = "get"
    /\ \/ batch[c] = <<>> /\ Refuse(c, "invalid_input")
       \/ /\ batch[c] # <<>> /\ Available
          /\ \/ status[scan[c]] = "none" /\ Refuse(c, "not_found")
             \/ status[scan[c]] \in {"sealed", "marked"} /\ Refuse(c, "forbidden")
             \/ /\ status[scan[c]] \in {"receiving", "pending"}
                /\ Proceed(c, Kept(batch[c]), 0)
    /\ UNCHANGED <<database, status, input>>

BeginTx(c) ==
    /\ pc[c] = "begin"
    /\ Begin(c)
    /\ Goto(c, "select")
    /\ UNCHANGED <<status, input, todo, inserted, answers>>

Found(c) == draft[CurrentKey(c)] # NoRow

Select(c) ==
    /\ pc[c] = "select"
    /\ Goto(c, IF Found(c) THEN "update" ELSE "insert")
    /\ UNCHANGED <<database, status, input, todo, inserted, answers>>

\* The UNIQUE key refuses a second row.
Insert(c) ==
    /\ pc[c] = "insert"
    /\ draft[CurrentKey(c)] = NoRow
    /\ Write(c, [draft EXCEPT ![CurrentKey(c)] =
                    NewRow(<<c, attempt[c]>>, Current(c))])
    /\ Goto(c, "commitNew")
    /\ UNCHANGED <<status, input, todo, inserted, answers>>

\* Fault: INSERT OR REPLACE.
FaultyUpdate(c) ==
    /\ pc[c] = "update"
    /\ Write(c, [draft EXCEPT ![CurrentKey(c)] =
                    NewRow(<<c, attempt[c]>>, Current(c))])
    /\ Goto(c, "commitOld")
    /\ UNCHANGED <<status, input, todo, inserted, answers>>

Update(c) ==
    /\ pc[c] = "update"
    /\ Write(c, [draft EXCEPT ![CurrentKey(c)] = Overwritten(@, Current(c))])
    /\ Goto(c, "commitOld")
    /\ UNCHANGED <<status, input, todo, inserted, answers>>

\* Fault: the rows of the batch are counted, whether they were new or not.
FaultyNewRows(c) == 1

NewRows(c) == IF pc[c] = "commitNew" THEN 1 ELSE 0

CommitTx(c) ==
    /\ pc[c] \in {"commitNew", "commitOld"}
    /\ Commit(c)
    /\ Proceed(c, todo[c] \ {First(c)}, inserted[c] + NewRows(c))
    /\ UNCHANGED <<status, input>>

\* The answer may be lost on its way; writeJSON only logs that.
Reply(c) ==
    /\ pc[c] = "reply"
    /\ \E answer \in {Result(c, inserted[c]), NoAnswer} : EndWith(c, answer)
    /\ UNCHANGED <<database, status, input>>

-----------------------------------------------------------------------------
(***************************************************************************)
(* Failures, stops, and the other requests that change the status.         *)
(***************************************************************************)
\* A statement returns an error or the handler panics: what is open is rolled back.
Fail(c) ==
    /\ pc[c] \notin {"idle", "reply"}
    /\ Rollback(c)
    /\ Refuse(c, "sql")
    /\ UNCHANGED <<status, input>>

\* Uploads under way get no answer.
Crash ==
    /\ Stop
    /\ pc' = [c \in Client |-> "idle"]
    /\ todo' = [c \in Client |-> {}]
    /\ inserted' = [c \in Client |-> 0]
    /\ answers' = [c \in Client |-> IF pc[c] = "idle" THEN answers[c]
                                    ELSE Append(answers[c], NoAnswer)]
    /\ UNCHANGED <<status, input>>

Boot ==
    /\ Migrate
    /\ UNCHANGED <<status, input, upload>>

\* CreateScan, Finalize, Mark and Seal, in any order ScanPipeline allows.
SetStatus(s, st) ==
    /\ Available
    /\ IF status[s] = "none" THEN st = "receiving" ELSE st # "none"
    /\ status' = [status EXCEPT ![s] = st]
    /\ UNCHANGED <<database, input, upload>>

Step(c) ==
    \/ Get(c) \/ BeginTx(c) \/ Select(c) \/ Insert(c) \/ Update(c)
    \/ CommitTx(c) \/ Reply(c)

Next ==
    \/ \E c \in Client : Send(c) \/ Step(c) \/ Fail(c)
    \/ Crash \/ Boot
    \/ \E s \in Scan, st \in ScanStatus : SetStatus(s, st)

Spec == Init /\ [][Next]_vars

\* The pool hands a connection that is given back to a waiting request, so that a
\* request which can go on again and again does; a process that stopped is started
\* again.  Nothing obliges a client to send or the process to stop.
FairSpec == Spec /\ WF_vars(Boot) /\ \A c \in Client : SF_vars(Step(c))

-----------------------------------------------------------------------------
(***************************************************************************)
(* Properties.                                                             *)
(***************************************************************************)
\* Type invariant of the table, the connection, the uploads and their answers.
TypeOK ==
    /\ conn \in Client \cup {Nobody}
    /\ created \in SUBSET (1..Schema)
    /\ boot \in 1..Schema + 1
    /\ stops \in 0..MaxStops
    /\ DOMAIN rows = Key /\ DOMAIN draft = Key
    /\ status \in [Scan -> ScanStatus]
    /\ scan \in [Client -> Scan]
    /\ batch \in [Client -> Batches]
    /\ pc \in [Client -> PC]
    /\ todo \in [Client -> SUBSET Nat]
    /\ inserted \in [Client -> Nat]
    /\ answers \in [Client -> Seq(Answer)]

\* The rows the n-th upload of a client has created carry its ids (ingest.go:105).
CreatedBy(c, n) == {k \in Key : rows[k].by = <<c, n>>}

KeptKeys(c) == {KeyOf(scan[c], batch[c][i]) : i \in Kept(batch[c])}

\* An answered upload has counted exactly the rows of the table that it created, as
\* long as the table exists: no two uploads count one row, however they interleave,
\* and a row the batch repeats is counted as reused (ingest.go:114).
AnswersAddUp ==
    \A c \in Client : \A n \in DOMAIN answers[c] :
        LET a == answers[c][n] IN
        a.code = 200 =>
            /\ a.inserted = Cardinality(CreatedBy(c, n))
            /\ a.inserted + a.reused + a.skipped = Len(batch[c])
            /\ a.reused >= Cardinality(Kept(batch[c])) - Cardinality(KeptKeys(c))

\* What was answered is true for good, across stops of the process (main.go step 7):
\* after a 200 every row of the batch that was kept is stored, and a 404 or 409 means
\* that the upload has stored nothing.  A 400, which failures of the database get
\* too, and no answer at all leave that open.
AnswersHonest ==
    \A c \in Client : \A n \in DOMAIN answers[c] :
        LET a == answers[c][n] IN
        /\ a.code = 200 => \A k \in KeptKeys(c) : rows[k] # NoRow
        /\ a.code \in {404, 409} => CreatedBy(c, n) = {}

\* A client that sends its batch again after a 200 adds no row (main.go step 4),
\* whatever others upload, fail or mark in between.
RetryInsertsNothing ==
    \A c \in Client : \A m \in DOMAIN answers[c], n \in 1..attempt[c] :
        m < n /\ answers[c][m].code = 200 => CreatedBy(c, n) = {}

\* Transactions, failures and stops taken together, every row is written at once or
\* not at all, in the order of its batch.
Atomic == INSTANCE AtomicUploads WITH active <- {c \in Client : pc[c] # "idle"}

RowsAreAtomic == Atomic!Spec

\* Every upload ends, so that nobody keeps the connection, and the service comes back
\* after a stop, also one in the middle of migrate.
UploadsEnd ==
    /\ \A c \in Client : pc[c] # "idle" ~> pc[c] = "idle"
    /\ ~Serving ~> Serving
=============================================================================
