----------------------------- MODULE Database ------------------------------
(***************************************************************************)
(* The SQLite database behind the store: one pooled connection             *)
(* (store/db.go:41), transactions on it, the schema that migrate creates   *)
(* when the process starts, and what a stop of the process leaves behind.  *)
(***************************************************************************)
EXTENDS Naturals

CONSTANTS
    User,        \* goroutines that use the database
    Nobody,
    Schema,      \* number of CREATE statements of migrate
    MaxStops     \* bound: times the process stops

ASSUME DatabaseAssumption ==
    /\ Nobody \notin User
    /\ Schema \in Nat
    /\ MaxStops \in Nat

VARIABLES
    conn,        \* who holds the connection for a transaction
    rows,        \* committed content
    draft,       \* content as the open transaction sees it
    created,     \* the CREATE statements whose table or index exists
    boot,        \* the statement migrate executes next
    stops        \* times the process has stopped

database == <<conn, rows, draft, created, boot, stops>>
process  == <<created, boot, stops>>

\* Open has returned and main listens.
Serving == boot = Schema + 1

Closed(content) ==
    /\ conn = Nobody
    /\ rows = content /\ draft = content
    /\ created = {}
    /\ boot = 1
    /\ stops = 0

\* Fault: a CREATE without IF NOT EXISTS.
FaultyCreate == boot \notin created

\* IF NOT EXISTS: the statement succeeds whether or not an earlier start got to it.
Create == TRUE

Migrate ==
    /\ ~Serving
    /\ Create
    /\ created' = created \cup {boot}
    /\ boot' = boot + 1
    /\ UNCHANGED <<conn, rows, draft, stops>>

-----------------------------------------------------------------------------
(***************************************************************************)
(* A statement of its own only needs the connection for a moment.          *)
(***************************************************************************)
Available == Serving /\ conn = Nobody

Begin(u) ==
    /\ Available
    /\ conn' = u
    /\ draft' = rows
    /\ UNCHANGED <<rows, process>>

Write(u, content) ==
    /\ conn = u
    /\ draft' = content
    /\ UNCHANGED <<conn, rows, process>>

Commit(u) ==
    /\ conn = u
    /\ rows' = draft
    /\ conn' = Nobody
    /\ UNCHANGED <<draft, process>>

\* The deferred Rollback: drops the draft of the caller, if it has one.
Rollback(u) ==
    /\ conn' = IF conn = u THEN Nobody ELSE conn
    /\ draft' = IF conn = u THEN rows ELSE draft
    /\ UNCHANGED <<rows, process>>

\* Fault: the writes of the open transaction are in the file already.
FaultyStop ==
    /\ stops < MaxStops
    /\ stops' = stops + 1
    /\ boot' = 1
    /\ conn' = Nobody
    /\ rows' = draft
    /\ UNCHANGED <<created, draft>>

\* The process ends, by a crash or because migrate failed, and is started again:
\* the file keeps what was committed.
Stop ==
    /\ stops < MaxStops
    /\ stops' = stops + 1
    /\ boot' = 1
    /\ conn' = Nobody
    /\ draft' = rows
    /\ UNCHANGED <<created, rows>>
=============================================================================
