------------------------------ MODULE BatchLog ------------------------------
(***************************************************************************)
(* What a session with the database promises for the batches sent in       *)
(* transactions: a batch is stored whole or not at all unless rolling it   *)
(* back failed, what is stored stays, and success is only reported of a    *)
(* batch that is stored.                                                   *)
(***************************************************************************)
CONSTANTS Batches, RowsOf(_)

VARIABLES
  stored, \* rows
  told,   \* batches whose success was reported
  botched \* batches whose rollback failed

Init == stored = {} /\ told = {} /\ botched = {}

Whole(rows, b) == RowsOf(b) \subseteq rows \/ RowsOf(b) \cap rows = {}

Store(b) ==
  /\ botched' \subseteq botched \cup {b} /\ botched \subseteq botched'
  /\ \E rows \in SUBSET UNION {RowsOf(c) : c \in Batches} : stored' = stored \cup rows
  /\ \A c \in Batches \ botched' : Whole(stored', c)
  /\ UNCHANGED told

Tell(b) ==
  /\ RowsOf(b) \subseteq stored
  /\ told' = told \cup {b}
  /\ UNCHANGED <<stored, botched>>

Next == \E b \in Batches : Store(b) \/ Tell(b)

logVars == <<stored, told, botched>>

Spec == Init /\ [][Next]_logVars
=============================================================================
