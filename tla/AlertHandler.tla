---------------------------- MODULE AlertHandler ----------------------------
(***************************************************************************)
(* The alert handler: the main thread raises alerts while it processes a   *)
(* bar; half an hour later the alert thread looks at the bars since then   *)
(* and sends the outcome to the database queue.                            *)
(*                                                                         *)
(* The clock counts bars; prices are cents, above zero.                    *)
(***************************************************************************)
EXTENDS Integers, Sequences

CONSTANTS
  Contracts,
  BarsOf,    \* per contract, the bars it may get: high, low, close
  HalfHour,  \* bars in half an hour: 360
  MaxTime,   \* bound of the model on the clock
  MaxAlerts, \* bound of the model on the alerts
  None       \* no contract

Prices == UNION {UNION {{bar.high, bar.low, bar.close} : bar \in BarsOf[c]} : c \in Contracts}

ASSUME HandlerAssumption ==
  /\ HalfHour \in Nat \ {0} /\ MaxTime \in Nat /\ MaxAlerts \in Nat
  /\ Prices \subseteq Nat \ {0}
  /\ \A c \in Contracts : BarsOf[c] \subseteq [high : Prices, low : Prices, close : Prices]
  /\ None \notin Contracts

Times == 0 .. MaxTime
Candles == [time : Times, high : Prices, low : Prices, close : Prices]
Alerts == [id : 1 .. MaxAlerts, contract : Contracts, time : Times, close : Prices]
Phantom == [id |-> 0, contract |-> None, time |-> 0, close |-> 0] \* an element nobody wrote

VARIABLES
  now,
  bars,              \* per contract, fiveSecCandles_; empty when not in contractChain_
  handling,          \* the contract whose updateData runs, or None
  raised,            \* number of alerts so far
  alertUpdateQueue,
  doneCheckingAlerts_,
  pc,                \* where the alert thread is
  from,              \* first index of the window being copied, 0 for an empty one
  raced,             \* the vector or the map changed while it was read
  prevCandles,       \* the copied window
  reported           \* what went to the database queue

mainVars   == <<now, bars, handling, raised, doneCheckingAlerts_>>
threadVars == <<pc, from, prevCandles, reported>>
vars == <<mainVars, alertUpdateQueue, threadVars, raced>>

Init ==
  /\ now = 0
  /\ bars = [c \in Contracts |-> <<>>] /\ handling = None /\ raised = 0
  /\ alertUpdateQueue = <<>> /\ doneCheckingAlerts_ = FALSE
  /\ pc = "outer" /\ from = 0 /\ raced = FALSE /\ prevCandles = <<>> /\ reported = <<>>

-----------------------------------------------------------------------------
\* The main thread.
tick ==
  /\ now < MaxTime
  /\ now' = now + 1
  /\ UNCHANGED <<bars, handling, raised, doneCheckingAlerts_, alertUpdateQueue, threadVars, raced>>

\* A bar of this moment.  The first one of a contract puts it into contractChain_.
updateData(c, bar) ==
  /\ ~doneCheckingAlerts_ /\ handling = None
  /\ \A i \in DOMAIN bars[c] : bars[c][i].time < now
  /\ bars' = [bars EXCEPT ![c] = Append(@, [time |-> now, high |-> bar.high, low |-> bar.low,
                                            close |-> bar.close])]
  /\ handling' = c
  /\ raced' = (raced \/ (pc = "copy" /\ (bars[c] = <<>> \/ c = Head(alertUpdateQueue).contract)))
  /\ UNCHANGED <<now, raised, doneCheckingAlerts_, alertUpdateQueue, threadVars>>

NextAlert == [id |-> raised + 1, contract |-> handling, time |-> now,
              close |-> bars[handling][Len(bars[handling])].close]

\* The alert's candle is of this bar.  The last guard bounds the model: half an hour
\* is left on the clock.
CanInput ==
  /\ handling # None /\ raised < MaxAlerts
  /\ now + HalfHour <= MaxTime
  /\ bars[handling][Len(bars[handling])].time = now

inputAlert ==
  /\ CanInput
  /\ raised' = raised + 1
  /\ alertUpdateQueue' = Append(alertUpdateQueue, NextAlert)
  /\ UNCHANGED <<now, bars, handling, doneCheckingAlerts_, threadVars, raced>>

dataUpdated ==
  /\ handling # None
  /\ handling' = None
  /\ UNCHANGED <<now, bars, raised, doneCheckingAlerts_, alertUpdateQueue, threadVars, raced>>

\* The destructor; its join waits for pc = "ended".
doneCheckingAlerts ==
  /\ handling = None /\ ~doneCheckingAlerts_
  /\ doneCheckingAlerts_' = TRUE
  /\ UNCHANGED <<now, bars, handling, raised, alertUpdateQueue, threadVars, raced>>

-----------------------------------------------------------------------------
\* The alert thread.
Goto(label) == pc' = label /\ UNCHANGED <<mainVars, alertUpdateQueue, raced>>

outerTest ==
  /\ pc = "outer"
  /\ Goto(IF doneCheckingAlerts_ THEN "ended" ELSE "inner")
  /\ UNCHANGED <<from, prevCandles, reported>>

\* mutant: the inner loop waits for the next alert
innerTestWaits ==
  /\ pc = "inner"
  /\ Goto(IF alertUpdateQueue = <<>> THEN "inner" ELSE "front")
  /\ UNCHANGED <<from, prevCandles, reported>>

\* alertUpdateQueue.empty(), without the lock
innerTest ==
  /\ pc = "inner"
  /\ Goto(IF alertUpdateQueue = <<>> THEN "outer" ELSE "front")
  /\ UNCHANGED <<from, prevCandles, reported>>

\* mutant: it takes a minute less
ElapsedEarly(a) == now - a.time >= HalfHour - 1

Elapsed(a) == now - a.time >= HalfHour

ageTest ==
  /\ pc = "front"
  /\ Goto(CASE Head(alertUpdateQueue) = Phantom -> "crashed"
            [] OTHER -> IF Elapsed(Head(alertUpdateQueue)) THEN "read" ELSE "inner")
  /\ UNCHANGED <<from, prevCandles, reported>>

\* mutant: it waits until there are bars enough
candlesLast30MinutesWaits ==
  /\ pc = "read"
  /\ LET size == Len(bars[Head(alertUpdateQueue).contract])
     IN  size >= HalfHour /\ from' = size - HalfHour + 1
  /\ Goto("copy")
  /\ UNCHANGED <<prevCandles, reported>>

candlesLast30Minutes ==
  /\ pc = "read"
  /\ Goto("copy")
  /\ LET size == Len(bars[Head(alertUpdateQueue).contract])
     IN  from' = IF size >= HalfHour THEN size - HalfHour + 1 ELSE 0
  /\ UNCHANGED <<prevCandles, reported>>

\* The copy runs up to the size of then; its lock excludes inputAlert only, and a vector
\* or a map that changed meanwhile may be read after it was freed.
candlesCopied ==
  /\ pc = "copy"
  /\ LET data == bars[Head(alertUpdateQueue).contract]
     IN  prevCandles' = IF from = 0 THEN <<>> ELSE SubSeq(data, from, Len(data))
  /\ \E label \in {"check"} \cup (IF raced THEN {"crashed"} ELSE {}) : pc' = label
  /\ raced' = (raced /\ pc' = "crashed")
  /\ UNCHANGED <<mainVars, alertUpdateQueue, from, reported>>

-----------------------------------------------------------------------------
\* checkWinStats
Larger(a, b)  == IF a >= b THEN a ELSE b
Smaller(a, b) == IF a <= b THEN a ELSE b

\* The code computes with double: of two equal sides rounding may put either above, the
\* same one each time.  even says which.
AtMost(x, y, even) == x < y \/ (x = y /\ even)

\* percentChangeLow <= -30, percentChangeHigh >= 60 and maxPrice - startPrice > 0.10
Dropped(start, min, even) == AtMost(10 * (min - start), -3 * start, even)
Won(start, max, even)     == AtMost(6 * start, 10 * (max - start), even)
WorthIt(start, max, even) == AtMost(10, max - start, even)

\* mutant: the drop is tested after the bar instead of before it
ScanDropFirst(w, start, even) ==
  LET scan[i \in 0 .. Len(w)] ==
        IF i = 0 THEN [min |-> start, max |-> start, time |-> 0]
        ELSE LET s == scan[i - 1] IN
             IF Dropped(start, Smaller(s.min, w[i].low), even) THEN s
             ELSE [min  |-> Smaller(s.min, w[i].low),
                   max  |-> Larger(s.max, w[i].high),
                   time |-> IF s.max < w[i].high THEN w[i].time ELSE s.time]
  IN  scan[Len(w)]

\* The loop over the window: it breaks before the bar after the drop.
Scan(w, start, even) ==
  LET scan[i \in 0 .. Len(w)] ==
        IF i = 0 THEN [min |-> start, max |-> start, time |-> 0]
        ELSE LET s == scan[i - 1] IN
             IF Dropped(start, s.min, even) THEN s
             ELSE [min  |-> Smaller(s.min, w[i].low),
                   max  |-> Larger(s.max, w[i].high),
                   time |-> IF s.max < w[i].high THEN w[i].time ELSE s.time]
  IN  scan[Len(w)]

Outcome(a, s, even) ==
  CASE s.max <= a.close -> [winLoss |-> "loss", timeToWin |-> 0]
    [] s.max > a.close /\ ~Won(a.close, s.max, even) ->
         [winLoss |-> IF WorthIt(a.close, s.max, even) THEN "half" ELSE "loss",
          timeToWin |-> s.time - a.time]
    [] Won(a.close, s.max, even) -> [winLoss |-> "win", timeToWin |-> s.time - a.time]

\* The search stops at the first bar of the alert's time or later.
SinceAlert(a, w) ==
  LET newer == {i \in DOMAIN w : w[i].time >= a.time}
  IN  IF newer = {} THEN <<>>
      ELSE SubSeq(w, CHOOSE i \in newer : \A j \in newer : i <= j, Len(w))

\* Without a bar of the alert's time or later the search runs past the end.
checkWinStats ==
  /\ pc = "check"
  /\ LET a == Head(alertUpdateQueue)
     IN  \E w \in {SinceAlert(a, prevCandles)} :
         IF w = <<>> THEN Goto("crashed") /\ UNCHANGED reported
         ELSE /\ Goto("pop")
              /\ \E evenLow, evenHigh \in BOOLEAN :
                   reported' = Append(reported,
                     [alert |-> a, since |-> w[1].time, upTo |-> w[Len(w)].time,
                      outcome |-> Outcome(a, Scan(w, a.close, evenLow), evenHigh)])
  /\ UNCHANGED <<from, prevCandles>>

\* mutant: the alert stays in the queue
popKept ==
  /\ pc = "pop"
  /\ pc' = "inner" /\ prevCandles' = <<>> /\ from' = 0
  /\ UNCHANGED <<mainVars, alertUpdateQueue, reported, raced>>

\* The pop leaves the block, and with it the copied window.
pop ==
  /\ pc = "pop"
  /\ alertUpdateQueue' = Tail(alertUpdateQueue)
  /\ pc' = "inner" /\ prevCandles' = <<>> /\ from' = 0
  /\ UNCHANGED <<mainVars, reported, raced>>

\* The pop has no lock: against a push the new alert may be lost, or an element that
\* nobody wrote may be left, in place of it or behind it.
popAgainstPush ==
  /\ pc = "pop" /\ CanInput
  /\ raised' = raised + 1
  /\ \E pushed \in {<<>>, <<Phantom>>, <<NextAlert, Phantom>>} :
       alertUpdateQueue' = Tail(alertUpdateQueue) \o pushed
  /\ pc' = "inner" /\ prevCandles' = <<>> /\ from' = 0
  /\ UNCHANGED <<now, bars, handling, doneCheckingAlerts_, reported, raced>>

-----------------------------------------------------------------------------
MainThread ==
  \/ \E c \in Contracts : \E bar \in BarsOf[c] : updateData(c, bar)
  \/ inputAlert \/ dataUpdated \/ doneCheckingAlerts

AlertThread ==
  \/ outerTest \/ innerTest \/ ageTest
  \/ candlesLast30Minutes \/ candlesCopied \/ checkWinStats \/ pop

Next == tick \/ MainThread \/ AlertThread \/ popAgainstPush

Spec == Init /\ [][Next]_vars

\* The alert thread never blocks, and time goes on.
FairSpec == Spec /\ WF_vars(AlertThread) /\ WF_vars(tick)

-----------------------------------------------------------------------------
Labels == {"outer", "inner", "front", "read", "copy", "check", "pop", "ended", "crashed"}

\* The abstract promise.  Between checkWinStats and the pop the answered alert is still
\* in the queue.
Promise == INSTANCE AlertOutcomes WITH
  pending  <- IF pc = "pop" THEN Tail(alertUpdateQueue) ELSE alertUpdateQueue,
  answered <- [i \in DOMAIN reported |-> reported[i].alert]

\* The handler answers the alerts in their order, each at most once (checkAlertOutcomes
\* sends to the database before it pops, inputAlert pushes meanwhile).
AnswersInOrder == Promise!Spec

\* An answer comes half an hour after its alert, not earlier, and looks at bars of the
\* alert's time or later, of which it leaves out none of the last half hour.
WindowIsTheAlerts ==
  \A i \in DOMAIN reported :
    LET a == reported[i].alert
        data == bars[a.contract]
        since == reported[i].since
        upTo == reported[i].upTo
    IN  /\ a.time + HalfHour <= now /\ a.time <= since
        /\ \A j \in DOMAIN data :
             data[j].time \in a.time .. upTo /\ data[j].time > upTo - HalfHour
               => data[j].time >= since

\* The outcome in terms of the bars looked at: it is a win when a bar reached 60 per cent
\* of profit and no bar before it had lost 30, half a win when it was worth more than ten
\* cents, and the time to the highest price is counted from the alert.  Exactly there
\* rounding decides, for a loss of 30 per cent the same way for all bars.
JudgedByItsBars ==
  \A i \in DOMAIN reported : \E even \in BOOLEAN :
    LET a == reported[i].alert
        data == bars[a.contract]
        seen == {j \in DOMAIN data : data[j].time \in reported[i].since .. reported[i].upTo}
        lost == {j \in seen : AtMost(10 * data[j].low, 7 * a.close, even)}
        reached == {j \in seen : \A k \in lost : k >= j}
        best == {j \in reached : \A k \in reached :
                   data[k].high < data[j].high \/ (data[k].high = data[j].high /\ k >= j)}
        o == reported[i].outcome
    IN  \A j \in best :
          /\ o.winLoss \in {"loss", "half", "win"}
          /\ o.winLoss = "win"  => 10 * data[j].high >= 16 * a.close
          /\ o.winLoss # "win"  => 10 * data[j].high <= 16 * a.close
          /\ o.winLoss = "half" => data[j].high >= a.close + 10
          /\ o.winLoss = "loss" => data[j].high <= a.close + 10
          /\ o.timeToWin = IF data[j].high > a.close THEN data[j].time - a.time ELSE 0

\* Every outcome is that of the half hour after its alert, although the search takes the
\* last half hour of the contract's bars at the time it is answered, while the main thread
\* adds to them (checkAlertOutcomes, candlesLast30Minutes and checkWinStats).
OutcomesExact == WindowIsTheAlerts /\ JudgedByItsBars

MissedBar(c) ==
  bars[c] # <<>> /\ \E t \in bars[c][1].time .. now - 1 :
                      \A i \in DOMAIN bars[c] : bars[c][i].time # t

GarbageRead == raced \/ (alertUpdateQueue # <<>> /\ Head(alertUpdateQueue) = Phantom)

\* The search runs past the end of its window only for a contract whose stream left out
\* a bar since it began; a crash has no other cause than that or the races on the queue,
\* the vector and the map (checkWinStats on the empty vector of candlesLast30Minutes).
CrashNeedsMissedBar ==
  pc = "crashed" => GarbageRead \/ MissedBar(Head(alertUpdateQueue).contract)

Queued(n) == \E i \in DOMAIN alertUpdateQueue : alertUpdateQueue[i].id = n

\* Every alert leaves the queue, answered, unless the thread is gone
\* (the two loops of checkAlertOutcomes).
EveryAlertLeaves ==
  \A n \in 1 .. MaxAlerts : Queued(n) ~> ~Queued(n) \/ pc \in {"ended", "crashed"}

\* The destructor's join returns, although the inner loop does not test
\* doneCheckingAlerts_: it waits for the newest alert to be answered.
JoinReturns == doneCheckingAlerts_ ~> pc \in {"ended", "crashed"}
=============================================================================
