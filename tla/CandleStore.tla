---------------------------- MODULE CandleStore ----------------------------
(***************************************************************************)
(* What the insertion thread promises for option candles: a candle that    *)
(* was queued stays pending until it is stored, it is stored once, and no   *)
(* candle is stored while an earlier one is left pending.                  *)
(***************************************************************************)
EXTENDS Integers

CONSTANT OptionCandles \* records with a field "time"

VARIABLES pending, stored

Init == pending = {} /\ stored = {}

Queue(c) ==
  /\ c \notin pending \cup stored
  /\ pending' = pending \cup {c}
  /\ UNCHANGED stored

\* A batch takes everything that is earlier than its latest candle.
StoreBatch(batch) ==
  /\ batch # {}
  /\ \A c \in batch, d \in pending : d.time < c.time => d \in batch
  /\ pending' = pending \ batch
  /\ stored' = stored \cup batch

Next ==
  \/ \E c \in OptionCandles : Queue(c)
  \/ \E batch \in SUBSET pending : StoreBatch(batch)

Spec == Init /\ [][Next]_<<pending, stored>>
=============================================================================
