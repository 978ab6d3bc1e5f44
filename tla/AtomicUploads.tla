--------------------------- MODULE AtomicUploads ---------------------------
(***************************************************************************)
(* What an upload of gates promises: the rows it keeps are upserted in     *)
(* their order, each by one atomic step that knows whether the key is new. *)
(* An upload may end before its last row; the rows done by then stay.      *)
(***************************************************************************)
EXTENDS Validator

CONSTANTS Client, Batches

VARIABLES
    rows,        \* the table gates
    active,      \* clients with an upload under way
    todo,        \* rows of the batch that are still to be written
    inserted,    \* rows that were new
    scan, batch, \* what the client uploads
    attempt      \* number of the upload that is under way, or is the next one

vars == <<rows, active, todo, inserted, scan, batch, attempt>>

Init ==
    /\ rows = [k \in Key |-> NoRow]
    /\ scan \in [Client -> Scan]
    /\ batch \in [Client -> Batches]
    /\ active = {}
    /\ todo = [c \in Client |-> {}]
    /\ inserted = [c \in Client |-> 0]
    /\ attempt = [c \in Client |-> 1]

Begin(c) ==
    /\ c \notin active
    /\ active' = active \cup {c}
    /\ UNCHANGED <<rows, todo, inserted, scan, batch, attempt>>

Accept(c) ==
    /\ c \in active
    /\ todo' = [todo EXCEPT ![c] = Kept(batch[c])]
    /\ UNCHANGED <<rows, active, inserted, scan, batch, attempt>>

Upsert(c) ==
    /\ c \in active
    /\ \E i \in todo[c] :
          LET g == batch[c][i]
              k == KeyOf(scan[c], g)
          IN /\ \A j \in todo[c] : i <= j
             /\ todo' = [todo EXCEPT ![c] = @ \ {i}]
             /\ IF rows[k] = NoRow
                THEN /\ rows' = [rows EXCEPT ![k] = NewRow(<<c, attempt[c]>>, g)]
                     /\ inserted' = [inserted EXCEPT ![c] = @ + 1]
                ELSE /\ rows' = [rows EXCEPT ![k] = Overwritten(@, g)]
                     /\ UNCHANGED inserted
    /\ UNCHANGED <<active, scan, batch, attempt>>

\* The uploads of C end, complete or not.
End(C) ==
    /\ active' = active \ C
    /\ todo' = [c \in Client |-> IF c \in C THEN {} ELSE todo[c]]
    /\ inserted' = [c \in Client |-> IF c \in C THEN 0 ELSE inserted[c]]
    /\ attempt' = [c \in Client |-> IF c \in C THEN attempt[c] + 1 ELSE attempt[c]]
    /\ UNCHANGED <<rows, scan, batch>>

Next ==
    \/ \E c \in Client : Begin(c) \/ Accept(c) \/ Upsert(c)
    \/ \E C \in SUBSET Client : End(C)

Spec == Init /\ [][Next]_vars
=============================================================================
