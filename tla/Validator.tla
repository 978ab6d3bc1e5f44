----------------------------- MODULE Validator -----------------------------
(***************************************************************************)
(* What AppendGates makes of one uploaded batch before it writes anything  *)
(* (receive/validator.go), the key of a gate and the row it becomes in the *)
(* table gates.  Floats are integers, RHOHV in units of 1 / One.           *)
(***************************************************************************)
EXTENDS Integers, Sequences, FiniteSets

CONSTANTS
    Scan,                \* identifiers of volume scans
    ElevationCount, AzimuthBins, RangeGates,   \* the geometry of the scans
    One,                 \* the RHOHV value 1
    Nil,                 \* a variable left out of the upload
    NaN, Inf             \* the floats that are no numbers

ASSUME ValidatorAssumption ==
    /\ ElevationCount \in Nat /\ AzimuthBins \in Nat /\ RangeGates \in Nat
    /\ One \in Nat \ {0}
    /\ Nil \notin Int /\ NaN \notin Int /\ Inf \notin Int
    /\ Nil \notin {NaN, Inf} /\ NaN # Inf

Variable  == Int \cup {NaN, Inf, Nil}
GateInput == [elevation : Int, azimuth : Int, range : Int, meters : Int \cup {Inf},
              zh : Variable, zdr : Variable, rhohv : Variable]

-----------------------------------------------------------------------------
IndexOutOfRange(g) ==
    \/ g.elevation \notin 0..ElevationCount - 1
    \/ g.azimuth \notin 0..AzimuthBins - 1
    \/ g.range \notin 0..RangeGates - 1

Finite(x) == x \notin {NaN, Inf}

\* A missing variable is found before the values of the others are looked at.
Incomplete(g) == Nil \in {g.zh, g.zdr, g.rhohv}

BadPlace(g)  == IndexOutOfRange(g) \/ g.meters = Inf \/ g.meters < 0
BadValues(g) == \/ ~Finite(g.zh) \/ ~Finite(g.zdr) \/ ~Finite(g.rhohv)
                \/ g.rhohv \notin 0..One

Outcome(g) ==
    CASE BadPlace(g) -> "skipped"
      [] ~BadPlace(g) /\ Incomplete(g) -> "missing"
      [] ~BadPlace(g) /\ ~Incomplete(g) /\ BadValues(g) -> "skipped"
      [] OTHER -> "valid"

\* The rows of a batch that ValidateGates keeps, and its three counters.
Kept(batch)         == {i \in DOMAIN batch : Outcome(batch[i]) # "skipped"}
Counted(batch, out) == Cardinality({i \in DOMAIN batch : Outcome(batch[i]) = out})

-----------------------------------------------------------------------------
(***************************************************************************)
(* The table gates: one row per key.                                       *)
(***************************************************************************)
Key == Scan \X (0..ElevationCount - 1) \X (0..AzimuthBins - 1) \X (0..RangeGates - 1)

KeyOf(s, g) == <<s, g.elevation, g.azimuth, g.range>>

\* No row for this key.
NoRow == [by |-> <<>>, meters |-> 0, vars |-> <<>>]

\* A row with a variable missing is stored without any.
Vars(g) == IF Incomplete(g) THEN <<>> ELSE <<g.zh, g.zdr, g.rhohv>>

\* The id and the time of creation are those of the upload that inserts the row.
NewRow(by, g) == [by |-> by, meters |-> g.meters, vars |-> Vars(g)]

\* The UPDATE leaves them alone, and the distance too.
Overwritten(row, g) == [row EXCEPT !.vars = Vars(g)]
=============================================================================
