-------------------------- MODULE DatabaseManager --------------------------
(***************************************************************************)
(* OptionDB::DatabaseManager: the queues that the scanner's main thread    *)
(* and the alert thread fill, the insertion thread that empties them, and  *)
(* the four tables it fills with their UNIQUE and FOREIGN KEY constraints. *)
(*                                                                         *)
(* Bars are numbered by their time.  A candle of the underlying is its     *)
(* time and time frame, an option candle (CandleTags) its time and an id.  *)
(* A performance result is the option candle it belongs to.                *)
(***************************************************************************)
EXTENDS Integers, Sequences

CONSTANTS
  MaxTime, \* bound of the model: bars of the session, at times 1 .. MaxTime
  Frames,  \* candles of the underlying per bar, at most: 4 in the code
  Ids,     \* option candles per time
  Faults   \* what may go wrong: "db", "race", "skew"

Times == 1 .. MaxTime
ASSUME SizesAssumption == MaxTime \in Nat \ {0} /\ Frames \in Nat \ {0}
ASSUME FaultsAssumption == Faults \subseteq {"db", "race", "skew"}

UnderlyingCandles == [time : Times, frame : 1 .. Frames]
OptionCandles     == [time : Times, id : Ids]

\* An element the queue shows after a pop lost against a push: no candle is there.
Phantom == [time |-> 0, frame |-> 0]

VARIABLES
  now, mainPhase, framesPushed, \* main thread: bar, part of the batch, candles queued
  underlyingQueue,      \* queue of the underlying's candles
  candlePriorityQueue,  \* option candles, least time on top
  performanceQueue,     \* results, all taken at once
  stopInsertion,        \* set by stop()
  pc,                   \* where the insertion thread is
  prevUnixTime, unixTimeUpdated, \* its statics
  optionBatch, performanceBatch, \* its batches
  unixRows, underlyingRows, optionRows, performanceRows, \* the tables
  sqlId,                \* option candles that know the id of their row
  alerts,               \* option candles given to the alert handler
  batchOf,              \* history: the underlying's bar an option candle came with, or 0
  results               \* those whose result was sent back

mainVars   == <<now, mainPhase, framesPushed>>
queueVars  == <<underlyingQueue, candlePriorityQueue, performanceQueue>>
threadVars == <<prevUnixTime, unixTimeUpdated, optionBatch, performanceBatch>>
tableVars  == <<unixRows, underlyingRows, optionRows, performanceRows, sqlId>>
alertVars  == <<alerts, batchOf, results>>
vars == <<mainVars, queueVars, stopInsertion, pc, threadVars, tableVars, alertVars>>

TypeOK ==
  /\ now \in Times /\ mainPhase \in {"underlying", "options"} /\ framesPushed \in 0 .. Frames
  /\ underlyingQueue \in Seq(UnderlyingCandles \cup {Phantom})
  /\ candlePriorityQueue \subseteq OptionCandles /\ performanceQueue \subseteq OptionCandles
  /\ stopInsertion \in BOOLEAN
  /\ pc \in {"top", "postUnderlying", "pop", "drain", "postOptions", "takeResults",
             "postResults", "stopCheck", "ended", "crashed"}
  /\ prevUnixTime \in Times \cup {-1} /\ unixTimeUpdated \in BOOLEAN
  /\ optionBatch \subseteq OptionCandles /\ performanceBatch \subseteq OptionCandles
  /\ unixRows \subseteq Times /\ underlyingRows \subseteq UnderlyingCandles
  /\ optionRows \subseteq OptionCandles /\ sqlId \subseteq OptionCandles
  /\ performanceRows \subseteq OptionCandles
  /\ alerts \subseteq OptionCandles /\ results \subseteq OptionCandles
  /\ batchOf \in [OptionCandles -> 0 .. MaxTime]

Init ==
  /\ now = 1 /\ mainPhase = "underlying" /\ framesPushed = 0
  /\ underlyingQueue = <<>> /\ candlePriorityQueue = {} /\ performanceQueue = {}
  /\ stopInsertion = FALSE /\ pc = "top"
  /\ prevUnixTime = -1 /\ unixTimeUpdated = FALSE
  /\ optionBatch = {} /\ performanceBatch = {}
  /\ unixRows \in SUBSET {1}  \* a session restarted within a bar finds its time
  /\ underlyingRows = {} /\ optionRows = {} /\ performanceRows = {}
  /\ sqlId = {} /\ alerts = {} /\ batchOf = [c \in OptionCandles |-> 0] /\ results = {}

-----------------------------------------------------------------------------
(* The producers.  They are stopped before stop() is called.               *)

Alive == pc # "crashed"
Producing == Alive /\ ~stopInsertion

nextUnderlying == [time |-> now, frame |-> framesPushed + 1]

\* ContractData::updateData of the underlying queues its 5 second candle and then
\* those of the longer frames that end with it.
CanPushUnderlying == Producing /\ mainPhase = "underlying" /\ framesPushed < Frames

pushUnderlying ==
  /\ CanPushUnderlying
  /\ underlyingQueue' = Append(underlyingQueue, nextUnderlying)
  /\ framesPushed' = framesPushed + 1
  /\ UNCHANGED <<now, mainPhase, candlePriorityQueue, performanceQueue, stopInsertion, pc,
                 threadVars, tableVars, alertVars>>

\* The batch goes on with the options.
beginOptions ==
  /\ Producing /\ mainPhase = "underlying" /\ framesPushed > 0
  /\ mainPhase' = "options"
  /\ UNCHANGED <<now, framesPushed, queueVars, stopInsertion, pc, threadVars, tableVars, alertVars>>

\* A batch that is late has lost the underlying's bars before its last.
NextTimes == IF "skew" \in Faults THEN {t \in Times : t > now} ELSE {now + 1}

nextBar ==
  /\ Producing /\ mainPhase = "options" /\ now < MaxTime
  /\ now' \in NextTimes /\ mainPhase' = "underlying" /\ framesPushed' = 0
  /\ UNCHANGED <<queueVars, stopInsertion, pc, threadVars, tableVars, alertVars>>

\* The buffer keeps the last bar of each stream until the batch is processed: next to the
\* underlying's an option's may be of any time, a silent stream's of long ago.
BatchTimes == IF "skew" \in Faults THEN Times ELSE {now}

\* The alert callback queues the candle only at a significant price, and gives it
\* to the alert handler in any case.  A contract's bars are in order, one to a batch.
alertCallback(c, significant) ==
  /\ Producing /\ mainPhase = "options"
  /\ c.time \in BatchTimes
  /\ \A d \in alerts : d.id = c.id => d.time < c.time /\ batchOf[d] < now
  /\ candlePriorityQueue' = IF significant THEN candlePriorityQueue \cup {c}
                                           ELSE candlePriorityQueue
  /\ alerts' = alerts \cup {c}
  /\ batchOf' = [batchOf EXCEPT ![c] = now]
  /\ UNCHANGED <<mainVars, underlyingQueue, performanceQueue, stopInsertion, pc,
                 threadVars, tableVars, results>>

\* The alert thread sends the result of an alert some time later.
CanPushResult(c) == Producing /\ c \in alerts \ results

pushResult(c) ==
  /\ CanPushResult(c)
  /\ performanceQueue' = performanceQueue \cup {c}
  /\ results' = results \cup {c}
  /\ UNCHANGED <<mainVars, underlyingQueue, candlePriorityQueue, stopInsertion, pc,
                 threadVars, tableVars, alerts, batchOf>>

stop ==
  /\ Alive /\ ~stopInsertion
  /\ stopInsertion' = TRUE
  /\ UNCHANGED <<mainVars, queueVars, pc, threadVars, tableVars, alertVars>>

-----------------------------------------------------------------------------
(* The insertion thread.  Every post catches its exception, so a failed    *)
(* statement leaves the tables as they are and the thread goes on.         *)

DbOutcomes == IF "db" \in Faults THEN BOOLEAN ELSE {TRUE}

QueuesEmpty == underlyingQueue = <<>> /\ candlePriorityQueue = {} /\ performanceQueue = {}

Latest(S) == CHOOSE t \in S : \A u \in S : u <= t

\* mutant: the result of a failed post is 0, as if maxUnixTime were not set to -1
insertUnixZero(t, inserted, queried) ==
  /\ unixRows' = IF inserted THEN unixRows \cup {t} ELSE unixRows
  /\ prevUnixTime' = IF inserted /\ t \notin unixRows /\ queried THEN Latest(unixRows') ELSE 0

\* UnixTable::post: the greatest time in the table, or -1 when the insertion (a
\* duplicate, a failure) or the query fails.
insertUnix(t, inserted, queried) ==
  /\ unixRows' = IF inserted THEN unixRows \cup {t} ELSE unixRows
  /\ prevUnixTime' = IF inserted /\ t \notin unixRows /\ queried THEN Latest(unixRows') ELSE -1

\* The inner loop's test and, when the underlying has a candle, its time.
postUnix ==
  /\ pc = "top" /\ underlyingQueue # <<>> /\ Head(underlyingQueue) # Phantom
  /\ LET t == Head(underlyingQueue).time
     IN  IF t # prevUnixTime
           THEN \E inserted, queried \in DbOutcomes : insertUnix(t, inserted, queried)
           ELSE UNCHANGED <<unixRows, prevUnixTime>>
  /\ unixTimeUpdated' = TRUE
  /\ pc' = "postUnderlying"
  /\ UNCHANGED <<mainVars, queueVars, stopInsertion, optionBatch, performanceBatch,
                 underlyingRows, optionRows, performanceRows, sqlId, alertVars>>

\* Reading a phantom dereferences a block the deque never allocated.
readPhantom ==
  /\ pc = "top" /\ underlyingQueue # <<>> /\ Head(underlyingQueue) = Phantom
  /\ pc' = "crashed"
  /\ UNCHANGED <<mainVars, queueVars, stopInsertion, threadVars, tableVars, alertVars>>

noUnderlying ==
  /\ pc = "top" /\ underlyingQueue = <<>>
  /\ pc' = IF QueuesEmpty THEN "stopCheck" ELSE "drain"
  /\ UNCHANGED <<mainVars, queueVars, stopInsertion, threadVars, tableVars, alertVars>>

\* UnderlyingTable::post, with its key into UnixValues.
postUnderlying ==
  /\ pc = "postUnderlying"
  /\ \E ok \in DbOutcomes :
       LET c == Head(underlyingQueue)
       IN  underlyingRows' = IF ok /\ c.time \in unixRows THEN underlyingRows \cup {c}
                                                           ELSE underlyingRows
  /\ pc' = "pop"
  /\ UNCHANGED <<mainVars, queueVars, stopInsertion, threadVars, unixRows, optionRows,
                 performanceRows, sqlId, alertVars>>

popUnderlying ==
  /\ pc = "pop"
  /\ underlyingQueue' = Tail(underlyingQueue)
  /\ pc' = "drain"
  /\ UNCHANGED <<mainVars, candlePriorityQueue, performanceQueue, stopInsertion,
                 threadVars, tableVars, alertVars>>

\* push and pop run without the mutex.  When both update the size of the queue at
\* once, the push or the pop may be lost from it.
popAgainstPush ==
  /\ "race" \in Faults
  /\ pc = "pop" /\ CanPushUnderlying
  /\ LET rest == Tail(underlyingQueue)
     IN  underlyingQueue' \in {Append(rest, nextUnderlying), rest,
                               Append(Append(rest, nextUnderlying), Phantom)}
  /\ framesPushed' = framesPushed + 1
  /\ pc' = "drain"
  /\ UNCHANGED <<now, mainPhase, candlePriorityQueue, performanceQueue, stopInsertion,
                 threadVars, tableVars, alertVars>>

\* mutants: the time is not compared; only the candles of the bar just stored are taken
DueAlways == candlePriorityQueue
DueThisBar == {c \in candlePriorityQueue : c.time = prevUnixTime}

\* The heap gives up its candles in order of time, as long as they are due.
Due == {c \in candlePriorityQueue : c.time <= prevUnixTime}

drainOptions ==
  /\ pc = "drain"
  /\ IF candlePriorityQueue # {} /\ unixTimeUpdated
       THEN /\ optionBatch' = Due
            /\ candlePriorityQueue' = candlePriorityQueue \ Due
            /\ unixTimeUpdated' = FALSE
       ELSE UNCHANGED <<optionBatch, candlePriorityQueue, unixTimeUpdated>>
  /\ pc' = IF optionBatch' # {} THEN "postOptions" ELSE "takeResults"
  /\ UNCHANGED <<mainVars, underlyingQueue, performanceQueue, stopInsertion, prevUnixTime,
                 performanceBatch, tableVars, alertVars>>

\* The batch is one transaction: a candle without its time in UnixValues loses all.
BatchHasTimes == \A c \in optionBatch : c.time \in unixRows

\* OptionTable::post; the ids of the rows are read back by a second statement.
postOptions ==
  /\ pc = "postOptions"
  /\ \E inserted, queried \in DbOutcomes :
       /\ optionRows' = IF inserted /\ BatchHasTimes THEN optionRows \cup optionBatch
                                                     ELSE optionRows
       /\ sqlId' = IF inserted /\ BatchHasTimes /\ queried THEN sqlId \cup optionBatch
                                                           ELSE sqlId
  /\ optionBatch' = {}
  /\ pc' = "takeResults"
  /\ UNCHANGED <<mainVars, queueVars, stopInsertion, prevUnixTime, unixTimeUpdated,
                 performanceBatch, unixRows, underlyingRows, performanceRows, alertVars>>

takeResults ==
  /\ pc = "takeResults"
  /\ performanceBatch' = performanceQueue
  /\ performanceQueue' = {}
  /\ pc' = IF performanceQueue # {} THEN "postResults" ELSE "top"
  /\ UNCHANGED <<mainVars, underlyingQueue, candlePriorityQueue, stopInsertion, prevUnixTime,
                 unixTimeUpdated, optionBatch, tableVars, alertVars>>

\* The queue of results has no lock either: a push during the pops may be lost, or
\* leave an element that nobody wrote.
takeAgainstPush(c) ==
  /\ "race" \in Faults
  /\ pc = "takeResults" /\ performanceQueue # {} /\ CanPushResult(c)
  /\ results' = results \cup {c}
  /\ \/ performanceBatch' = performanceQueue /\ pc' = "postResults"
     \/ performanceBatch' = {} /\ pc' = "crashed"
  /\ performanceQueue' = {}
  /\ UNCHANGED <<mainVars, underlyingQueue, candlePriorityQueue, stopInsertion, prevUnixTime,
                 unixTimeUpdated, optionBatch, tableVars, alerts, batchOf>>

\* CandlePerformance::post: one transaction, keyed by the candle's id, which is 0
\* for a candle whose row is unknown.
postResults ==
  /\ pc = "postResults"
  /\ \E ok \in DbOutcomes :
       performanceRows' = IF ok /\ performanceBatch \subseteq sqlId
                            THEN performanceRows \cup performanceBatch ELSE performanceRows
  /\ performanceBatch' = {}
  /\ pc' = "top"
  /\ UNCHANGED <<mainVars, queueVars, stopInsertion, prevUnixTime, unixTimeUpdated,
                 optionBatch, unixRows, underlyingRows, optionRows, sqlId, alertVars>>

\* mutant: the compiler reads the flag once, before the loop
SeesStopHoisted == {FALSE}

\* stopInsertion is a plain bool: another thread's write may go unseen.
SeesStop == IF "race" \in Faults THEN {stopInsertion, FALSE} ELSE {stopInsertion}

stopCheck ==
  /\ pc = "stopCheck"
  /\ \E stopped \in SeesStop : pc' = IF stopped /\ QueuesEmpty THEN "ended" ELSE "top"
  /\ UNCHANGED <<mainVars, queueVars, stopInsertion, threadVars, tableVars, alertVars>>

-----------------------------------------------------------------------------
Producers ==
  \/ pushUnderlying \/ beginOptions \/ nextBar
  \/ \E c \in OptionCandles, significant \in BOOLEAN : alertCallback(c, significant)
  \/ \E c \in OptionCandles : pushResult(c)
  \/ stop

InsertionThread ==
  \/ postUnix \/ readPhantom \/ noUnderlying \/ postUnderlying
  \/ popUnderlying \/ popAgainstPush
  \/ drainOptions \/ postOptions
  \/ takeResults \/ (\E c \in OptionCandles : takeAgainstPush(c)) \/ postResults
  \/ stopCheck

Next == Producers \/ InsertionThread

Spec == Init /\ [][Next]_vars

FairSpec == Spec /\ WF_vars(InsertionThread)

-----------------------------------------------------------------------------
(* Properties                                                              *)

\* A candle that is due waits for one more bar at most, however old it was when it was
\* queued and however pushes, posts and failures interleave: one that the last drain left
\* came with the bar stored last or a later one, after that drain.  So the next bar that
\* is stored takes it (candleInsertionLoop's heap, DatabaseManager.cpp:98-108).
DueWaitsOneBar ==
  unixTimeUpdated \/ \A c \in candlePriorityQueue : c.time <= prevUnixTime =>
                                                     batchOf[c] >= prevUnixTime

\* Without faults the database never rejects a batch of option candles: a time is
\* in UnixValues before any candle of that time is posted (CandleRoutes.h:236).
NoBatchRejected == pc = "postOptions" => BatchHasTimes

\* The insertion thread implements a store that loses no candle and stores them in
\* order of time.
Store == INSTANCE CandleStore WITH
  pending <- candlePriorityQueue \cup optionBatch, stored <- optionRows
StoresInOrder == Store!Spec

\* A queued option candle is stored once a later bar has begun its options, without
\* faults: the late candle of a bar is not forgotten (unixTimeUpdated, lines 98, 107).
LateCandlesStored ==
  \A c \in OptionCandles :
    (c \in candlePriorityQueue /\ now > c.time /\ mainPhase = "options") ~> c \in optionRows

\* stop() joins the insertion thread (DatabaseManager.cpp:16-20): the thread ends, or spins
\* for ever behind option candles that wait for a bar nobody sends, and for nothing else.
StopWaitsForCandlesOnly ==
  stopInsertion ~> (pc = "ended" \/ [](candlePriorityQueue # {} /\ ~unixTimeUpdated))
=============================================================================
