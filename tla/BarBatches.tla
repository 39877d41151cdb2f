----------------------------- MODULE BarBatches -----------------------------
(***************************************************************************)
(* What the scanner's buffer promises when bars arrive in time: a set of   *)
(* streams, each subscribed once, whose bars are handed over in complete   *)
(* batches only, one bar of every stream.                                  *)
(***************************************************************************)
EXTENDS Integers

CONSTANTS Streams, \* every stream that can be subscribed
          First    \* the stream subscribed from the start

VARIABLES streams, \* subscribed streams
          asked,   \* subscriptions made
          pending  \* streams with a bar waiting

batchVars == <<streams, asked, pending>>

Init == streams = {First} /\ asked = 1 /\ pending = {}

\* A stream is subscribed once.
Subscribe(s) ==
  /\ s \notin streams
  /\ streams' = streams \cup {s}
  /\ asked' = asked + 1
  /\ UNCHANGED pending

\* Only a subscribed stream delivers.
Arrive(s) ==
  /\ s \in streams
  /\ pending' = pending \cup {s}
  /\ UNCHANGED <<streams, asked>>

\* A batch is handed over complete or not at all.
HandOver ==
  /\ pending = streams
  /\ pending' = {}
  /\ UNCHANGED <<streams, asked>>

Next == (\E s \in Streams : Subscribe(s) \/ Arrive(s)) \/ HandOver

Spec == Init /\ [][Next]_batchVars
=============================================================================
