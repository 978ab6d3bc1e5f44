---------------------------- MODULE MarkWorkers ----------------------------
(***************************************************************************)
(* The parallel part of one Mark (service/mark_service.go:90-119): the     *)
(* listed gates are grouped by elevation in a Go map, one goroutine per    *)
(* elevation classifies its group, and after the WaitGroup the decisions   *)
(* are merged with the gates again.  The keys of the map are collected     *)
(* twice, each time in an order of the runtime's choice, and sorted by the *)
(* insertion sort of sortedElevations.                                     *)
(*                                                                         *)
(* ScanPipeline takes the result of all this as one operator, Decisions;   *)
(* MergedAlike is what justifies it.                                       *)
(***************************************************************************)
EXTENDS Naturals, Sequences, FiniteSets, SequencesExt

CONSTANTS
    Group,        \* elevation -> the gates listed for it, in their order
    Verdict,      \* what a classifier may answer
    Classify      \* the verdict of the effective rule and calibration on a gate

Elevation == DOMAIN Group
Gate      == UNION {ToSet(Group[e]) : e \in Elevation}

ASSUME WorkersAssumption ==
    /\ Elevation \subseteq Nat /\ IsFiniteSet(Elevation)
    /\ \A e \in Elevation : Group[e] \in Seq(Gate) /\ Group[e] # <<>>
    /\ Classify \in [Gate -> Verdict]

VARIABLES
    pc,          \* of Mark: "collect", "sort", "spawn", "wait", ...
    keys, i, j,  \* the keys of the map and the cursors of the insertion sort
    spawned,     \* the elevations that have a worker, in the order of their index
    wg,          \* the counter of the WaitGroup
    work,        \* of each worker: where it stands
    dec,         \* of each worker: the decisions made so far
    results,     \* one entry per index, shared by Mark and its workers
    ordered,     \* orderedGates
    flat         \* flatDec

sorting == <<keys, i, j>>
workers == <<work, dec, results>>
merged  == <<ordered, flat>>
vars == <<pc, sorting, spawned, wg, workers, merged>>

Index == 1..Cardinality(Elevation)

Init ==
    /\ pc = "collect"
    /\ keys = <<>> /\ i = 2 /\ j = 2
    /\ spawned = <<>>
    /\ wg = 0
    /\ work = [x \in Index |-> "none"]
    /\ dec = [x \in Index |-> <<>>]
    /\ results = [x \in Index |-> <<>>]
    /\ ordered = <<>>
    /\ flat = <<>>

-----------------------------------------------------------------------------
(***************************************************************************)
(* sortedElevations, called before the workers start (pc "collect" and     *)
(* "sort") and again by flattenGates ("recollect" and "resort").           *)
(***************************************************************************)
\* All orders a range over the map may take.
MapOrders == SetToSeqs(Elevation)

Collect ==
    /\ pc \in {"collect", "recollect"}
    /\ keys' \in MapOrders
    /\ i' = 2 /\ j' = 2
    /\ pc' = IF pc = "collect" THEN "sort" ELSE "resort"
    /\ UNCHANGED <<spawned, wg, workers, merged>>

\* The condition of the inner loop, with indexes from 1.
OutOfPlace(s, k) == k > 1 /\ s[k - 1] > s[k]

SortStep ==
    /\ pc \in {"sort", "resort"}
    /\ i <= Len(keys)
    /\ IF OutOfPlace(keys, j)
       THEN /\ keys' = [keys EXCEPT ![j - 1] = keys[j], ![j] = keys[j - 1]]
            /\ j' = j - 1
            /\ UNCHANGED i
       ELSE /\ i' = i + 1
            /\ j' = i + 1
            /\ UNCHANGED keys
    /\ UNCHANGED <<pc, spawned, wg, workers, merged>>

SortDone ==
    /\ pc \in {"sort", "resort"}
    /\ i > Len(keys)
    /\ pc' = IF pc = "sort" THEN "spawn" ELSE "flatten"
    /\ UNCHANGED <<sorting, spawned, wg, workers, merged>>

-----------------------------------------------------------------------------
(***************************************************************************)
(* The workers.                                                            *)
(***************************************************************************)
\* Fault: wg.Add(1) is forgotten.
FaultyAddOne == UNCHANGED wg

AddOne == wg' = wg + 1

Spawn ==
    /\ pc = "spawn"
    /\ Len(spawned) < Len(keys)
    /\ LET x == Len(spawned) + 1
       IN /\ spawned' = Append(spawned, keys[x])
          /\ work' = [work EXCEPT ![x] = "classifying"]
    /\ AddOne
    /\ UNCHANGED <<pc, sorting, dec, results, merged>>

SpawnDone ==
    /\ pc = "spawn"
    /\ Len(spawned) = Len(keys)
    /\ pc' = "wait"
    /\ UNCHANGED <<sorting, spawned, wg, workers, merged>>

WorkerClassify(x) ==
    /\ work[x] = "classifying"
    /\ LET group == Group[spawned[x]]
       IN /\ Len(dec[x]) < Len(group)
          /\ dec' = [dec EXCEPT ![x] = Append(@, Classify[group[Len(@) + 1]])]
    /\ UNCHANGED <<pc, sorting, spawned, wg, work, results, merged>>

\* Fault: append(results, ...) in the order in which the workers end.
FaultyStore(x) ==
    LET free == CHOOSE y \in Index :
                   results[y] = <<>> /\ \A z \in Index : z < y => results[z] # <<>>
    IN results' = [results EXCEPT ![free] = dec[x]]

Store(x) == results' = [results EXCEPT ![x] = dec[x]]

WorkerStore(x) ==
    /\ work[x] = "classifying"
    /\ Len(dec[x]) = Len(Group[spawned[x]])
    /\ Store(x)
    /\ work' = [work EXCEPT ![x] = "stored"]
    /\ UNCHANGED <<pc, sorting, spawned, wg, dec, merged>>

\* Fault: the deferred call is forgotten.
FaultyReleaseOne == UNCHANGED wg

ReleaseOne == wg' = wg - 1

WorkerDone(x) ==
    /\ work[x] = "stored"
    /\ ReleaseOne
    /\ work' = [work EXCEPT ![x] = "done"]
    /\ UNCHANGED <<pc, sorting, spawned, dec, results, merged>>

-----------------------------------------------------------------------------
(***************************************************************************)
(* wg.Wait and the merge.                                                  *)
(***************************************************************************)
Wait ==
    /\ pc = "wait"
    /\ wg = 0
    /\ pc' = "recollect"
    /\ UNCHANGED <<sorting, spawned, wg, workers, merged>>

\* Both loops run in Mark's own goroutine; nothing writes what they read any more.
Flatten ==
    /\ pc = "flatten"
    /\ ordered' = FlattenSeq([k \in DOMAIN keys |-> Group[keys[k]]])
    /\ flat' = FlattenSeq([x \in Index |-> results[x]])
    /\ pc' = "merged"
    /\ UNCHANGED <<sorting, spawned, wg, workers>>

\* Mark goes on to its writes, see ScanPipeline.
Ended ==
    /\ pc = "merged"
    /\ UNCHANGED vars

MarkStep == Collect \/ SortStep \/ SortDone \/ Spawn \/ SpawnDone \/ Wait \/ Flatten
WorkerStep(x) == WorkerClassify(x) \/ WorkerStore(x) \/ WorkerDone(x)

Next == MarkStep \/ Ended \/ \E x \in Index : WorkerStep(x)

Spec == Init /\ [][Next]_vars

\* Every goroutine that can run is eventually scheduled.
FairSpec ==
    /\ Spec
    /\ WF_vars(MarkStep)
    /\ \A x \in Index : WF_vars(WorkerStep(x))

-----------------------------------------------------------------------------
(***************************************************************************)
(* Properties.                                                             *)
(***************************************************************************)
\* Type invariant of Mark, its sort and its workers.
TypeOK ==
    /\ pc \in {"collect", "sort", "spawn", "wait", "recollect", "resort", "flatten",
               "merged"}
    /\ keys \in Seq(Elevation) /\ i \in Nat /\ j \in Nat
    /\ spawned \in Seq(Elevation)
    /\ wg \in 0..Cardinality(Elevation)
    /\ work \in [Index -> {"none", "classifying", "stored", "done"}]
    /\ dec \in [Index -> Seq(Verdict)]
    /\ results \in [Index -> Seq(Verdict)]
    /\ ordered \in Seq(Gate)
    /\ flat \in Seq(Verdict)

\* Mark never reads the results while a worker may still write them, and it never
\* waits for one that has ended (mark_service.go:97, 111): once it has passed Wait
\* all the workers are done.
NoReadBeforeDone ==
    pc \in {"recollect", "resort", "flatten", "merged"} =>
        \A x \in Index : work[x] = "done"

Ascending(s) == \A a, b \in DOMAIN s : a < b => s[a] < s[b]

\* The merge gives every gate its own verdict, whatever order the map gave its keys
\* in, twice, and whatever order the workers ended in (mark_service.go:115-119): the
\* pairs that Mark writes are those of a sequential classification, all of them, in
\* ascending order of the elevations.
MergedAlike ==
    pc = "merged" =>
        /\ flat = [k \in DOMAIN ordered |-> Classify[ordered[k]]]
        /\ ToSet(ordered) = Gate
        /\ \E s \in MapOrders :
              /\ Ascending(s)
              /\ ordered = FlattenSeq([k \in Index |-> Group[s[k]]])

\* The insertion sort, the workers and Mark's wait for them all end.
MarkEnds == <>(pc = "merged")
=============================================================================
