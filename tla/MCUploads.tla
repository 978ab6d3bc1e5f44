----------------------------- MODULE MCUploads -----------------------------
(***************************************************************************)
(* A small instance of Uploads: two clients, one scan with two gates.  The *)
(* batches share keys, repeat one, and have rows that are skipped or have  *)
(* a variable missing.                                                     *)
(***************************************************************************)
EXTENDS Uploads

CONSTANTS alice, bob, s1

Gate(range, zh, rhohv) ==
    [elevation |-> 0, azimuth |-> 0, range |-> range, meters |-> zh,
     zh |-> zh, zdr |-> 0, rhohv |-> rhohv]

MCBatches ==
    {<<Gate(0, 1, 1), Gate(1, 1, 1)>>,
     <<Gate(1, 2, Nil), Gate(2, 2, 1), Gate(1, 3, 0), Gate(0, 2, 2)>>,
     <<>>}

MCMaxAttempts == [c \in Client |-> IF c = alice THEN 2 ELSE 1]
=============================================================================
