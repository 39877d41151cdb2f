------------------------- MODULE AlertHandlerProofs -------------------------
(***************************************************************************)
(* Proofs about AlertHandler, for every set of contracts and bars, every   *)
(* length of half an hour and every bound.                                 *)
(***************************************************************************)
EXTENDS AlertHandler, FiniteSetTheorems, SequenceTheorems, WellFoundedInduction, TLAPS

-----------------------------------------------------------------------------
(* The inductive invariant.                                                *)

Holding == {"front", "read", "copy", "check", "pop", "crashed"} \* there is a head
Judging == {"read", "copy", "check"}                \* half an hour after the head

QueueInv ==
  /\ alertUpdateQueue \in Seq(Alerts \cup {Phantom})
  /\ pc \in Labels
  /\ pc \in Holding => alertUpdateQueue # <<>>
  /\ pc \in Judging \cup {"pop"} => Head(alertUpdateQueue) \in Alerts
  /\ \E S : reported \in Seq(S)

\* The bars of a contract are in order of time, none is from the future.
StreamInv ==
  /\ now \in Times /\ raised \in 0 .. MaxAlerts
  /\ bars \in [Contracts -> Seq(Candles)] /\ handling \in Contracts \cup {None}
  /\ handling # None => bars[handling] # <<>>
  /\ \A c \in Contracts : \A i \in 1 .. Len(bars[c]) :
       /\ bars[c][i].time <= now
       /\ \A j \in 1 .. Len(bars[c]) : i < j => bars[c][i].time < bars[c][j].time

\* Every alert has its bar.
HasBar(a) == \E i \in 1 .. Len(bars[a.contract]) : bars[a.contract][i].time = a.time
AlertInv ==
  \A k \in 1 .. Len(alertUpdateQueue) :
    alertUpdateQueue[k] \in Alerts => HasBar(alertUpdateQueue[k])

\* An empty window means a missed bar; another one ends with a bar of the alert's time
\* or later.
WindowInv ==
  LET a == Head(alertUpdateQueue) IN
  /\ from \in Nat /\ prevCandles \in Seq(Candles)
  /\ pc \in Judging => Elapsed(a)
  /\ pc = "copy" => IF from = 0 THEN MissedBar(a.contract) ELSE from <= Len(bars[a.contract])
  /\ pc = "check" => IF prevCandles = <<>> THEN MissedBar(a.contract)
                     ELSE prevCandles[Len(prevCandles)].time >= a.time

IInv == QueueInv /\ StreamInv /\ AlertInv /\ WindowInv /\ CrashNeedsMissedBar

-----------------------------------------------------------------------------
(* Lemmas.                                                                 *)

\* What the streams consist of.
LEMMA BarsType ==
  ASSUME StreamInv, NEW c \in Contracts
  PROVE  /\ now \in Nat /\ bars[c] \in Seq(Candles) /\ Len(bars[c]) \in Nat
         /\ DOMAIN bars[c] = 1 .. Len(bars[c])
         /\ bars[c] # <<>> => Len(bars[c]) >= 1
         /\ \A i \in 1 .. Len(bars[c]) : bars[c][i] \in Candles /\ bars[c][i].time \in Nat
<1>1. bars[c] \in Seq(Candles) /\ now \in Nat
  BY HandlerAssumption DEF StreamInv, Times
<1>2. \A i \in 1 .. Len(bars[c]) : bars[c][i] \in Candles
  BY <1>1
<1>3. \A bar \in Candles : bar.time \in Nat
  BY HandlerAssumption DEF Candles, Times
<1> QED
  BY <1>1, <1>2, <1>3

\* The size of an interval that is not empty.
LEMMA IntervalSize ==
  ASSUME NEW a \in Int, NEW b \in Int, a <= b
  PROVE  IsFiniteSet(a .. b - 1) /\ Cardinality(a .. b - 1) = b - a
<1>1. b - 1 \in Int
  OBVIOUS
<1>2. /\ IsFiniteSet(a .. b - 1)
      /\ Cardinality(a .. b - 1) = IF a > b - 1 THEN 0 ELSE (b - 1) - a + 1
  BY <1>1, FS_Interval
<1> QED
  BY <1>2

\* Fewer bars than the half hour that has passed since the first one: one was missed.
LEMMA TooFewBars ==
  ASSUME StreamInv, NEW c \in Contracts, bars[c] # <<>>,
         Len(bars[c]) < now - bars[c][1].time
  PROVE  MissedBar(c)
<1> DEFINE data == bars[c]
           span == data[1].time .. now - 1
           f == [t \in span |-> CHOOSE i \in 1 .. Len(data) : data[i].time = t]
<1>1. /\ now \in Nat /\ Len(data) \in Nat \ {0} /\ data[1].time \in Nat
      /\ DOMAIN data = 1 .. Len(data)
  BY BarsType
<1>2. SUFFICES ASSUME \A t \in span : \E i \in 1 .. Len(data) : data[i].time = t
               PROVE  FALSE
  BY <1>1 DEF MissedBar
<1>3. f \in [span -> 1 .. Len(data)] /\ \A t \in span : data[f[t]].time = t
  BY <1>2
<1>4. IsFiniteSet(span) /\ Cardinality(span) = now - data[1].time
  BY <1>1, IntervalSize
<1>5. IsFiniteSet(1 .. Len(data)) /\ Cardinality(1 .. Len(data)) = Len(data)
  BY <1>1, FS_Interval
<1>6. \E x, y \in span : x # y /\ f[x] = f[y]
  <2> HIDE DEF f, span
  <2> QED BY <1>1, <1>3, <1>4, <1>5, FS_PigeonHole
<1> QED
  BY <1>3, <1>6

\* A missed bar stays missed: later bars are of later times (updateData).
LEMMA MissedStays ==
  ASSUME StreamInv, [Next]_vars, NEW c \in Contracts, MissedBar(c)
  PROVE  MissedBar(c)'
<1> USE HandlerAssumption
<1> SUFFICES bars'[c] # <<>> /\ bars'[c][1].time = bars[c][1].time
             /\ \E t \in bars[c][1].time .. now' - 1 :
                  \A i \in DOMAIN bars'[c] : bars'[c][i].time # t
  BY DEF MissedBar
<1>1. PICK t \in bars[c][1].time .. now - 1 : \A i \in DOMAIN bars[c] : bars[c][i].time # t
  BY DEF MissedBar
<1>2. /\ bars[c] \in Seq(Candles) /\ bars[c] # <<>> /\ now \in Nat /\ bars[c][1].time \in Nat
      /\ Len(bars[c]) \in Nat \ {0} /\ DOMAIN bars[c] = 1 .. Len(bars[c])
  BY BarsType DEF MissedBar
<1>3. CASE \E d \in Contracts : \E bar \in BarsOf[d] : updateData(d, bar)
  <2>0. PICK d \in Contracts : \E bar \in BarsOf[d] : updateData(d, bar)
    BY <1>3
  <2>1. PICK bar \in BarsOf[d] : updateData(d, bar)
    BY <2>0
  <2>2. now' = now /\ bars' = [bars EXCEPT ![d] = Append(@, [time |-> now, high |-> bar.high,
                                                 low |-> bar.low, close |-> bar.close])]
    BY <2>1 DEF updateData
  <2>3. CASE c = d
    <3>1. bars'[c] = Append(bars[c], [time |-> now, high |-> bar.high,
                                      low |-> bar.low, close |-> bar.close])
      BY <2>2, <2>3 DEF StreamInv
    <3>2. DOMAIN bars[c] = 1 .. Len(bars[c]) /\ DOMAIN bars'[c] = 1 .. Len(bars[c]) + 1
      BY <1>2, <3>1
    <3>3. \A i \in 1 .. Len(bars[c]) : bars'[c][i] = bars[c][i]
      BY <1>2, <3>1
    <3>4. bars'[c][Len(bars[c]) + 1].time = now
      BY <1>2, <3>1
    <3>5. Len(bars[c]) \in Nat \ {0} /\ bars'[c] # <<>>
      BY <1>2, <3>1
    <3>6. bars'[c][1].time = bars[c][1].time
      BY <3>3, <3>5
    <3>7. t \in bars[c][1].time .. now' - 1 /\ t # now
      BY <1>1, <1>2, <2>2
    <3>8. \A i \in DOMAIN bars'[c] : bars'[c][i].time # t
      <4> TAKE i \in DOMAIN bars'[c]
      <4>1. i \in 1 .. Len(bars[c]) \/ i = Len(bars[c]) + 1
        BY <3>2, <3>5
      <4> QED
        BY <1>1, <3>2, <3>3, <3>4, <3>7, <4>1
    <3> QED
      BY <3>5, <3>6, <3>7, <3>8
  <2>4. CASE c # d
    BY <1>1, <1>2, <2>2, <2>4 DEF StreamInv
  <2> QED
    BY <2>3, <2>4
<1>4. CASE tick
  <2>1. bars' = bars /\ now' = now + 1
    BY <1>4 DEF tick
  <2>2. t \in bars[c][1].time .. now' - 1
    BY <1>1, <1>2, <2>1
  <2> QED
    BY <1>1, <1>2, <2>1, <2>2
<1>5. CASE UNCHANGED <<bars, now>>
  BY <1>1, <1>2, <1>5
<1> QED
  BY <1>3, <1>4, <1>5 DEF Next, vars, mainVars, MainThread, AlertThread, inputAlert, dataUpdated,
     doneCheckingAlerts, Goto, outerTest, innerTest, ageTest, candlesLast30Minutes,
     candlesCopied, checkWinStats, pop, popAgainstPush

-----------------------------------------------------------------------------
(* The streams.                                                            *)

\* A bar appended to a contract's data keeps them in order.
LEMMA AppendBar ==
  ASSUME StreamInv, NEW c \in Contracts, NEW bar \in BarsOf[c],
         \A i \in DOMAIN bars[c] : bars[c][i].time < now,
         NEW b, b = [time |-> now, high |-> bar.high, low |-> bar.low, close |-> bar.close]
  PROVE  /\ Append(bars[c], b) \in Seq(Candles) /\ Append(bars[c], b) # <<>>
         /\ \A i \in 1 .. Len(Append(bars[c], b)) :
              /\ Append(bars[c], b)[i].time <= now
              /\ \A j \in 1 .. Len(Append(bars[c], b)) :
                   i < j => Append(bars[c], b)[i].time < Append(bars[c], b)[j].time
<1>1. b \in Candles /\ b.time = now
  BY HandlerAssumption DEF StreamInv, Candles
<1>2. /\ now \in Nat /\ bars[c] \in Seq(Candles) /\ Len(bars[c]) \in Nat
      /\ DOMAIN bars[c] = 1 .. Len(bars[c])
      /\ \A i \in 1 .. Len(bars[c]) : bars[c][i].time \in Nat
  BY BarsType
<1>3. /\ Append(bars[c], b) \in Seq(Candles) /\ Append(bars[c], b) # <<>>
      /\ Len(Append(bars[c], b)) = Len(bars[c]) + 1
      /\ \A i \in 1 .. Len(bars[c]) : Append(bars[c], b)[i] = bars[c][i]
      /\ Append(bars[c], b)[Len(bars[c]) + 1] = b
  BY <1>1, <1>2
<1>4. \A i, j \in 1 .. Len(bars[c]) : i < j => bars[c][i].time < bars[c][j].time
  BY DEF StreamInv
<1> HIDE DEF StreamInv
<1>5. \A i \in 1 .. Len(bars[c]) + 1 :
        Append(bars[c], b)[i].time <= now
  <2> TAKE i \in 1 .. Len(bars[c]) + 1
  <2>1. CASE i = Len(bars[c]) + 1
    BY <1>1, <1>2, <1>3, <2>1
  <2>2. CASE i # Len(bars[c]) + 1
    <3>1. i \in 1 .. Len(bars[c])
      BY <1>2, <2>2
    <3> QED
      BY <1>2, <1>3, <3>1
  <2> QED
    BY <2>1, <2>2
<1>6. \A i, j \in 1 .. Len(bars[c]) + 1 : 
        i < j => Append(bars[c], b)[i].time < Append(bars[c], b)[j].time
  <2> TAKE i, j \in 1 .. Len(bars[c]) + 1
  <2> HAVE i < j
  <2>1. CASE j = Len(bars[c]) + 1
    BY <1>1, <1>2, <1>3, <2>1
  <2>2. CASE j # Len(bars[c]) + 1
    BY <1>2, <1>3, <1>4, <2>2
  <2> QED
    BY <2>1, <2>2
<1> QED
  BY <1>3, <1>5, <1>6

\* The streams stay in order (updateData, tick).
LEMMA StreamStep ==
  ASSUME StreamInv, [Next]_vars
  PROVE  StreamInv'
<1>1. ASSUME NEW c \in Contracts, NEW bar \in BarsOf[c], updateData(c, bar)
      PROVE  StreamInv'
  <2> DEFINE b == [time |-> now, high |-> bar.high, low |-> bar.low, close |-> bar.close]
  <2>1. /\ now' = now /\ raised' = raised /\ handling' = c
        /\ bars' = [bars EXCEPT ![c] = Append(@, b)]
        /\ \A i \in DOMAIN bars[c] : bars[c][i].time < now
    BY <1>1 DEF updateData
  <2>2. /\ Append(bars[c], b) \in Seq(Candles) /\ Append(bars[c], b) # <<>>
        /\ \A i \in 1 .. Len(Append(bars[c], b)) :
              /\ Append(bars[c], b)[i].time <= now
              /\ \A j \in 1 .. Len(Append(bars[c], b)) :
                   i < j => Append(bars[c], b)[i].time < Append(bars[c], b)[j].time
    BY <2>1, AppendBar
  <2>3. bars' \in [Contracts -> Seq(Candles)] /\ bars'[c] = Append(bars[c], b)
        /\ \A d \in Contracts \ {c} : bars'[d] = bars[d]
    BY <2>1, <2>2 DEF StreamInv
  <2> HIDE DEF b
  <2> QED
    BY <2>1, <2>2, <2>3 DEF StreamInv
<1>2. CASE tick
  <2>1. /\ bars' = bars /\ now' = now + 1 /\ handling' = handling /\ raised' = raised
        /\ now' \in Times
    BY <1>2, HandlerAssumption DEF tick, StreamInv, Times
  <2>2. \A c \in Contracts : \A i \in 1 .. Len(bars[c]) : bars[c][i].time <= now + 1
    BY BarsType DEF StreamInv
  <2> QED
    BY <2>1, <2>2 DEF StreamInv
<1>3. CASE /\ UNCHANGED <<now, bars>>
           /\ raised' \in 0 .. MaxAlerts
           /\ handling' = handling \/ handling' = None
  BY <1>3 DEF StreamInv
<1>4. CASE inputAlert \/ popAgainstPush
  <2>1. raised' = raised + 1 /\ raised < MaxAlerts /\ UNCHANGED <<now, bars, handling>>
    BY <1>4 DEF inputAlert, popAgainstPush, CanInput
  <2>2. raised' \in 0 .. MaxAlerts
    BY <2>1, HandlerAssumption DEF StreamInv
  <2> QED
    BY <1>3, <2>1, <2>2
<1>5. CASE dataUpdated \/ doneCheckingAlerts \/ AlertThread \/ UNCHANGED vars
  <2>1. UNCHANGED <<now, bars, raised>> /\ (handling' = handling \/ handling' = None)
    BY <1>5 DEF vars, mainVars, AlertThread, dataUpdated, doneCheckingAlerts, Goto, outerTest,
       innerTest, ageTest, candlesLast30Minutes, candlesCopied, checkWinStats, pop
  <2> QED
    BY <1>3, <2>1 DEF StreamInv
<1> QED
  BY <1>1, <1>2, <1>4, <1>5 DEF Next, MainThread

\* No stream gets shorter.
LEMMA BarsLonger ==
  ASSUME StreamInv, [Next]_vars, NEW c \in Contracts
  PROVE  /\ Len(bars[c]) \in Nat /\ Len(bars'[c]) \in Nat
         /\ Len(bars[c]) <= Len(bars'[c])
<1>1. bars[c] \in Seq(Candles) /\ Len(bars[c]) \in Nat
  BY BarsType
<1>2. CASE bars' = bars
  BY <1>1, <1>2
<1>3. ASSUME NEW d \in Contracts, NEW bar \in BarsOf[d], updateData(d, bar)
      PROVE  Len(bars'[c]) \in Nat /\ Len(bars[c]) <= Len(bars'[c])
  <2>1. bars' = [bars EXCEPT ![d] = Append(@, [time |-> now, high |-> bar.high,
                                               low |-> bar.low, close |-> bar.close])]
    BY <1>3 DEF updateData
  <2> QED
    BY <1>1, <2>1 DEF StreamInv
<1> QED
  BY <1>1, <1>2, <1>3 DEF Next, vars, mainVars, MainThread, AlertThread, tick, inputAlert,
     dataUpdated, doneCheckingAlerts, Goto, outerTest, innerTest, ageTest,
     candlesLast30Minutes, candlesCopied, checkWinStats, pop, popAgainstPush

-----------------------------------------------------------------------------
(* The queue.                                                              *)

\* An element appended behind a head.
LEMMA BehindHead ==
  ASSUME NEW S, NEW s \in Seq(S), NEW e \in S, s # <<>>
  PROVE  /\ Append(s, e) \in Seq(S) /\ Append(s, e) # <<>>
         /\ Head(Append(s, e)) = Head(s) /\ Head(s) \in S
         /\ Tail(Append(s, e)) = Tail(s) \o <<e>>
  OBVIOUS

\* The alert raised next is of the right type and has its bar (inputAlert).
LEMMA NextAlertType ==
  ASSUME StreamInv, CanInput
  PROVE  NextAlert \in Alerts /\ HasBar(NextAlert)
<1>1. handling \in Contracts /\ bars[handling] # <<>>
  BY DEF StreamInv, CanInput
<1>2. /\ bars[handling] \in Seq(Candles) /\ Len(bars[handling]) \in Nat
      /\ Len(bars[handling]) >= 1
      /\ \A i \in 1 .. Len(bars[handling]) : bars[handling][i] \in Candles
  BY <1>1, BarsType
<1>3. bars[handling][Len(bars[handling])] \in Candles
  BY <1>2
<1>4. bars[handling][Len(bars[handling])].close \in Prices /\ raised + 1 \in 1 .. MaxAlerts
  BY <1>3, HandlerAssumption DEF Candles, CanInput, StreamInv
<1>5. NextAlert \in Alerts
  BY <1>1, <1>4 DEF NextAlert, Alerts, StreamInv
<1>6. NextAlert.contract = handling /\ NextAlert.time = now
  BY DEF NextAlert
<1> QED
  BY <1>2, <1>5, <1>6 DEF HasBar, CanInput

\* An alert keeps its bar.
LEMMA HasBarStays ==
  ASSUME StreamInv, [Next]_vars, NEW a \in Alerts, HasBar(a)
  PROVE  HasBar(a)'
<1>1. CASE bars' = bars
  BY <1>1 DEF HasBar
<1>2. ASSUME NEW c \in Contracts, NEW bar \in BarsOf[c], updateData(c, bar)
      PROVE  HasBar(a)'
  <2>1. a.contract \in Contracts
    BY DEF Alerts
  <2>2. bars' = [bars EXCEPT ![c] = Append(@, [time |-> now, high |-> bar.high,
                                               low |-> bar.low, close |-> bar.close])]
    BY <1>2 DEF updateData
  <2>3. bars[a.contract] \in Seq(Candles) /\ Len(bars[a.contract]) \in Nat
    BY <2>1, BarsType
  <2>4. \A i \in 1 .. Len(bars[a.contract]) :
          i \in 1 .. Len(bars'[a.contract]) /\ bars'[a.contract][i] = bars[a.contract][i]
    <3>1. CASE a.contract = c
      BY <2>1, <2>2, <2>3, <3>1 DEF StreamInv
    <3>2. CASE a.contract # c
      BY <2>1, <2>2, <2>3, <3>2 DEF StreamInv
    <3> QED
      BY <3>1, <3>2
  <2> QED
    BY <2>4 DEF HasBar
<1> QED
  BY <1>1, <1>2 DEF Next, vars, mainVars, MainThread, AlertThread, tick, inputAlert, dataUpdated,
     doneCheckingAlerts, Goto, outerTest, innerTest, ageTest, candlesLast30Minutes,
     candlesCopied, checkWinStats, pop, popAgainstPush

\* What a pop leaves.
LEMMA PopFacts ==
  ASSUME NEW S, NEW s \in Seq(S), s # <<>>
  PROVE  /\ Tail(s) \in Seq(S) /\ Len(Tail(s)) = Len(s) - 1 /\ Len(s) \in Nat \ {0}
         /\ \A i \in 1 .. Len(Tail(s)) : i + 1 \in 1 .. Len(s) /\ Tail(s)[i] = s[i + 1]
         /\ \A i \in 1 .. Len(s) : s[i] \in S
  OBVIOUS

\* Two sequences of a type make one.
LEMMA ConcatType ==
  ASSUME NEW S, NEW s \in Seq(S), NEW t \in Seq(S)
  PROVE  s \o t \in Seq(S)
OBVIOUS

\* What a pop against a push leaves.
LEMMA PopAgainstPushFacts ==
  ASSUME QueueInv, StreamInv, popAgainstPush
  PROVE  \E pushed \in {<<>>, <<Phantom>>, <<NextAlert, Phantom>>} :
           /\ pushed \in Seq(Alerts \cup {Phantom})
           /\ alertUpdateQueue' = Tail(alertUpdateQueue) \o pushed
           /\ alertUpdateQueue' \in Seq(Alerts \cup {Phantom})
<1>1. NextAlert \in Alerts /\ alertUpdateQueue # <<>>
  BY NextAlertType DEF popAgainstPush, QueueInv, Holding
<1>2. PICK pushed \in {<<>>, <<Phantom>>, <<NextAlert, Phantom>>} :
        alertUpdateQueue' = Tail(alertUpdateQueue) \o pushed
  BY DEF popAgainstPush
<1>3. pushed \in Seq(Alerts \cup {Phantom})
  <2>1. CASE pushed = <<>>
    BY <2>1
  <2>2. CASE pushed = <<Phantom>>
    BY <2>2
  <2>3. CASE pushed = <<NextAlert, Phantom>>
    BY <1>1, <2>3
  <2> QED
    BY <1>2, <2>1, <2>2, <2>3
<1>4. Tail(alertUpdateQueue) \in Seq(Alerts \cup {Phantom})
  BY <1>1, PopFacts DEF QueueInv
<1>5. alertUpdateQueue' \in Seq(Alerts \cup {Phantom})
  BY <1>2, <1>3, <1>4, ConcatType
<1> QED
  BY <1>2, <1>3, <1>5

\* The queue holds alerts or garbage, and the thread works on its head.
LEMMA QueueStep ==
  ASSUME QueueInv, StreamInv, [Next]_vars
  PROVE  QueueInv'
<1> USE DEF Holding, Judging, Labels
<1>1. CASE inputAlert
  <2>1. NextAlert \in Alerts
    BY <1>1, NextAlertType DEF inputAlert
  <2>2. /\ alertUpdateQueue' = Append(alertUpdateQueue, NextAlert)
        /\ pc' = pc /\ reported' = reported
    BY <1>1 DEF inputAlert, threadVars
  <2> QED
    BY <2>1, <2>2, BehindHead DEF QueueInv
<1>2. CASE popAgainstPush
  BY <1>2, PopAgainstPushFacts DEF QueueInv, popAgainstPush
<1>3. CASE pop
  BY <1>3, PopFacts DEF QueueInv, pop, mainVars
<1>4. CASE outerTest \/ innerTest
  BY <1>4 DEF QueueInv, outerTest, innerTest, Goto, mainVars
<1>5. CASE ageTest
  <2>1. alertUpdateQueue # <<>> /\ Head(alertUpdateQueue) \in Alerts \cup {Phantom}
    BY <1>5 DEF QueueInv, ageTest
  <2> QED
    BY <1>5, <2>1 DEF QueueInv, ageTest, Goto, mainVars
<1>6. CASE candlesLast30Minutes \/ candlesCopied
  BY <1>6 DEF QueueInv, candlesLast30Minutes, candlesCopied, Goto, mainVars
<1>7. CASE checkWinStats
  <2>1. /\ UNCHANGED alertUpdateQueue /\ pc = "check"
        /\ \/ pc' = "crashed" /\ UNCHANGED reported
           \/ pc' = "pop" /\ \E r : reported' = Append(reported, r)
    BY <1>7 DEF checkWinStats, Goto
  <2>2. \E S : reported' \in Seq(S)
    <3>1. CASE UNCHANGED reported
      BY <3>1 DEF QueueInv
    <3>2. CASE \E r : reported' = Append(reported, r)
      <4>1. PICK r : reported' = Append(reported, r)
        BY <3>2
      <4>2. PICK S : reported \in Seq(S)
        BY DEF QueueInv
      <4>3. reported \in Seq(S \cup {r})
        BY <4>2
      <4>4. reported' \in Seq(S \cup {r})
        BY <4>1, <4>3
      <4> QED
        BY <4>4
    <3> QED
      BY <2>1, <3>1, <3>2
  <2> QED
    BY <2>1, <2>2 DEF QueueInv
<1>8. CASE UNCHANGED <<alertUpdateQueue, pc, reported>>
  BY <1>8 DEF QueueInv
<1> QED
  BY <1>1, <1>2, <1>3, <1>4, <1>5, <1>6, <1>7, <1>8 DEF Next, vars, mainVars, threadVars,
     MainThread, AlertThread, tick, updateData, dataUpdated, doneCheckingAlerts

\* Every alert in the queue has its bar.
LEMMA AlertStep ==
  ASSUME QueueInv, StreamInv, AlertInv, [Next]_vars
  PROVE  AlertInv'
<1> SUFFICES ASSUME NEW k \in 1 .. Len(alertUpdateQueue'), NEW a \in Alerts,
                    alertUpdateQueue'[k] = a
             PROVE  HasBar(a)'
  <2>1. AlertInv' = \A k \in 1 .. Len(alertUpdateQueue') :
                      alertUpdateQueue'[k] \in Alerts =>
                        \E i \in 1 .. Len(bars'[alertUpdateQueue'[k].contract]) :
                          bars'[alertUpdateQueue'[k].contract][i].time = alertUpdateQueue'[k].time
    BY DEF AlertInv, HasBar
  <2> QED
    BY <2>1 DEF HasBar
<1> DEFINE q == alertUpdateQueue
<1>1. q \in Seq(Alerts \cup {Phantom}) /\ Len(q) \in Nat
  BY DEF QueueInv
<1>2. ASSUME \E j \in 1 .. Len(q) : q[j] = q'[k]
      PROVE  HasBar(a)'
  <2>1. HasBar(a)
    BY <1>2 DEF AlertInv, HasBar
  <2> QED
    BY <2>1, HasBarStays
<1>3. ASSUME CanInput, q'[k] = NextAlert
      PROVE  HasBar(a)'
  <2>1. HasBar(a)
    BY <1>3, NextAlertType DEF HasBar
  <2> QED
    BY <2>1, HasBarStays
<1>4. CASE q' = q
  BY <1>2, <1>4
<1>5. CASE inputAlert
  <2>1. q' = Append(q, NextAlert) /\ CanInput
    BY <1>5 DEF inputAlert
  <2>2. (k \in 1 .. Len(q) /\ q'[k] = q[k]) \/ q'[k] = NextAlert
    BY <1>1, <2>1
  <2> QED
    BY <1>2, <1>3, <2>1, <2>2
<1>6. CASE pop
  <2>1. q # <<>> /\ q' = Tail(q)
    BY <1>6 DEF QueueInv, Holding, pop
  <2> QED
    BY <1>1, <1>2, <2>1, PopFacts
<1>7. CASE popAgainstPush
  <2>1. PICK pushed \in {<<>>, <<Phantom>>, <<NextAlert, Phantom>>} :
          pushed \in Seq(Alerts \cup {Phantom}) /\ q' = Tail(q) \o pushed
    BY <1>7, PopAgainstPushFacts
  <2>2. q # <<>> /\ CanInput
    BY <1>7 DEF QueueInv, Holding, popAgainstPush
  <2>3. /\ Tail(q) \in Seq(Alerts \cup {Phantom}) /\ Len(Tail(q)) \in Nat
        /\ \A i \in 1 .. Len(Tail(q)) : i + 1 \in 1 .. Len(q) /\ Tail(q)[i] = q[i + 1]
    BY <1>1, <2>2, PopFacts
  <2>4. CASE k \in 1 .. Len(Tail(q))
    <3>1. q'[k] = Tail(q)[k]
      BY <2>1, <2>3, <2>4
    <3> QED
      BY <1>2, <2>3, <2>4, <3>1
  <2>5. CASE k \notin 1 .. Len(Tail(q))
    <3>1. k - Len(Tail(q)) \in 1 .. Len(pushed) /\ q'[k] = pushed[k - Len(Tail(q))]
      BY <2>1, <2>3, <2>5
    <3>2. \A i \in 1 .. Len(pushed) : pushed[i] \in {NextAlert, Phantom}
      BY <2>1
    <3>3. Phantom \notin Alerts
      BY HandlerAssumption DEF Phantom, Alerts
    <3> QED
      BY <1>3, <2>2, <3>1, <3>2, <3>3
  <2> QED
    BY <2>4, <2>5
<1> QED
  BY <1>4, <1>5, <1>6, <1>7 DEF Next, vars, mainVars, MainThread, AlertThread, tick, updateData,
     dataUpdated, doneCheckingAlerts, Goto, outerTest, innerTest, ageTest,
     candlesLast30Minutes, candlesCopied, checkWinStats

-----------------------------------------------------------------------------
(* The window.                                                             *)

\* The head of the queue has its bar, and what has to do with its contract.
LEMMA HeadFacts ==
  ASSUME QueueInv, StreamInv, AlertInv, alertUpdateQueue # <<>>,
         Head(alertUpdateQueue) \in Alerts
  PROVE  /\ Head(alertUpdateQueue).contract \in Contracts
         /\ Head(alertUpdateQueue).time \in Nat
         /\ HasBar(Head(alertUpdateQueue))
<1>1. 1 \in 1 .. Len(alertUpdateQueue) /\ alertUpdateQueue[1] = Head(alertUpdateQueue)
  BY DEF QueueInv
<1>2. HasBar(Head(alertUpdateQueue))
  BY <1>1 DEF AlertInv, HasBar
<1> QED
  BY <1>2, HandlerAssumption DEF Alerts, Times

\* The newest bar of a contract is not older than any other.
LEMMA NewestBar ==
  ASSUME StreamInv, NEW c \in Contracts, NEW i \in 1 .. Len(bars[c])
  PROVE  /\ bars[c][i].time <= bars[c][Len(bars[c])].time
         /\ bars[c][1].time <= bars[c][i].time
<1>1. /\ Len(bars[c]) \in Nat /\ bars[c][Len(bars[c])].time \in Nat /\ bars[c][i].time \in Nat
      /\ bars[c][1].time \in Nat
  BY BarsType
<1>2. i < Len(bars[c]) => bars[c][i].time < bars[c][Len(bars[c])].time
  BY <1>1 DEF StreamInv
<1>3. 1 < i => bars[c][1].time < bars[c][i].time
  BY <1>1 DEF StreamInv
<1>4. i = 1 \/ 1 < i
  BY <1>1
<1>5. i = Len(bars[c]) \/ i < Len(bars[c])
  BY <1>1
<1> QED
  BY <1>1, <1>2, <1>3, <1>4, <1>5

\* A window is empty only when a bar was missed (candlesLast30Minutes).
LEMMA EmptyWindow ==
  ASSUME IInv, candlesLast30Minutes
  PROVE  from' = 0 => MissedBar(Head(alertUpdateQueue).contract)
<1> DEFINE a == Head(alertUpdateQueue)
           c == a.contract
<1>1. /\ a \in Alerts /\ c \in Contracts /\ a.time \in Nat /\ HasBar(a)
      /\ Elapsed(a)
  BY HeadFacts DEF IInv, QueueInv, WindowInv, Holding, Judging, candlesLast30Minutes
<1>2. PICK i \in 1 .. Len(bars[c]) : bars[c][i].time = a.time
  BY <1>1 DEF HasBar
<1>3. /\ now \in Nat /\ Len(bars[c]) \in Nat /\ bars[c] # <<>>
      /\ bars[c][1].time \in Nat /\ bars[c][1].time <= a.time
  BY <1>1, <1>2, BarsType, NewestBar DEF IInv
<1>4. now - a.time >= HalfHour
  BY <1>1 DEF Elapsed
<1>5. from' = IF Len(bars[c]) >= HalfHour THEN Len(bars[c]) - HalfHour + 1 ELSE 0
  BY DEF candlesLast30Minutes
<1>6. from' = 0 => Len(bars[c]) < HalfHour
  BY <1>3, <1>5, HandlerAssumption
<1>7. from' = 0 => Len(bars[c]) < now - bars[c][1].time
  BY <1>1, <1>3, <1>4, <1>6, HandlerAssumption
<1> QED
  BY <1>1, <1>3, <1>7, TooFewBars DEF IInv

\* A copied window that is not empty ends with a bar of the alert's time or later.
LEMMA CopiedWindow ==
  ASSUME IInv, candlesCopied, from # 0
  PROVE  /\ prevCandles' \in Seq(Candles) /\ prevCandles' # <<>>
         /\ prevCandles'[Len(prevCandles')].time >= Head(alertUpdateQueue).time
<1> DEFINE a == Head(alertUpdateQueue)
           c == a.contract
           data == bars[c]
<1>1. /\ a \in Alerts /\ c \in Contracts /\ a.time \in Nat /\ HasBar(a)
      /\ from \in 1 .. Len(data)
  <2>1. /\ a \in Alerts /\ c \in Contracts /\ a.time \in Nat /\ HasBar(a)
    BY HeadFacts DEF IInv, QueueInv, Holding, Judging, candlesCopied
  <2>2. from \in Nat /\ from <= Len(data) /\ Len(data) \in Nat
    BY <2>1, BarsType DEF IInv, WindowInv, candlesCopied
  <2> QED
    BY <2>1, <2>2
<1>2. PICK i \in 1 .. Len(data) : data[i].time = a.time
  BY <1>1 DEF HasBar
<1>3. data \in Seq(Candles) /\ Len(data) \in Nat
  BY <1>1, BarsType DEF IInv
<1>4. prevCandles' = SubSeq(data, from, Len(data))
  BY DEF candlesCopied
<1> HIDE DEF data
<1>5. /\ prevCandles' \in Seq(Candles) /\ Len(prevCandles') = Len(data) - from + 1
      /\ prevCandles'[Len(data) - from + 1] = data[Len(data)]
  BY <1>1, <1>3, <1>4
<1>6. prevCandles' # <<>>
  BY <1>1, <1>3, <1>5
<1>7. data[Len(data)].time >= a.time
  BY <1>1, <1>2, <1>3, NewestBar DEF IInv, data
<1> QED
  BY <1>5, <1>6, <1>7

\* A set of naturals has a least element.
LEMMA LeastElement ==
  ASSUME NEW T \in SUBSET Nat, T # {}
  PROVE  \E x \in T : \A y \in T : x <= y
<1> DEFINE R == OpToRel(<, Nat)
<1>1. IsWellFoundedOn(R, Nat)
  BY NatLessThanWellFounded
<1>2. \A x, y \in Nat : <<x, y>> \in R <=> x < y
  BY DEF OpToRel
<1> HIDE DEF R
<1>3. \E x \in T : \A y \in T : ~ (<<y, x>> \in R)
  BY <1>1, WFMin
<1>4. \A x, y \in Nat : ~ (<<y, x>> \in R) => x <= y
  BY <1>2
<1>5. T \subseteq Nat
  OBVIOUS
<1> QED
  BY <1>3, <1>4, <1>5

\* The search finds a bar in a window that ends at the alert's time or later.
LEMMA SearchEnds ==
  ASSUME NEW a \in Alerts, NEW w \in Seq(Candles), w # <<>>, w[Len(w)].time >= a.time
  PROVE  SinceAlert(a, w) # <<>>
<1> DEFINE newer == {i \in DOMAIN w : w[i].time >= a.time}
           first == CHOOSE i \in newer : \A j \in newer : i <= j
<1>1. Len(w) \in Nat \ {0} /\ DOMAIN w = 1 .. Len(w)
  OBVIOUS
<1>2. Len(w) \in newer /\ newer \in SUBSET Nat
  BY <1>1
<1>3. first \in newer
  BY <1>2, LeastElement
<1>4. first \in 1 .. Len(w)
  BY <1>1, <1>3
<1>5. SinceAlert(a, w) = SubSeq(w, first, Len(w))
  BY <1>2 DEF SinceAlert
<1> HIDE DEF first
<1>6. Len(SubSeq(w, first, Len(w))) = Len(w) - first + 1 /\ Len(w) - first + 1 # 0
  BY <1>1, <1>4
<1>7. Len(<<>>) = 0
  OBVIOUS
<1> QED
  BY <1>5, <1>6, <1>7

\* The window and its alert go together.
LEMMA WindowStep ==
  ASSUME IInv, [Next]_vars
  PROVE  WindowInv'
<1> DEFINE q == alertUpdateQueue
           a == Head(alertUpdateQueue)
<1> USE DEF Judging
<1>1. from \in Nat /\ prevCandles \in Seq(Candles) /\ QueueInv /\ StreamInv
  BY DEF IInv, WindowInv
<1>2. ASSUME UNCHANGED <<from, prevCandles>>, pc' \notin Judging
      PROVE  WindowInv'
  BY <1>1, <1>2 DEF WindowInv
<1>3. CASE outerTest \/ innerTest
  BY <1>2, <1>3 DEF outerTest, innerTest, Goto
<1>4. CASE ageTest
  <2>1. UNCHANGED <<from, prevCandles, now, alertUpdateQueue>>
        /\ ((pc' = "read" /\ Elapsed(a)) \/ pc' \notin Judging)
    BY <1>4 DEF ageTest, Goto, mainVars
  <2> QED
    BY <1>1, <2>1 DEF WindowInv, Elapsed
<1>5. CASE candlesLast30Minutes
  <2>1. /\ pc' = "copy" /\ UNCHANGED <<mainVars, prevCandles, alertUpdateQueue>>
        /\ pc = "read" /\ Elapsed(a) /\ a \in Alerts /\ q # <<>>
    BY <1>5 DEF candlesLast30Minutes, Goto, IInv, WindowInv, QueueInv, Holding
  <2>2. from' = 0 => MissedBar(a.contract)
    BY <1>5, EmptyWindow
  <2>3. a.contract \in Contracts
    BY <2>1 DEF Alerts
  <2>4. Len(bars[a.contract]) \in Nat
    BY <1>1, <2>3, BarsType
  <2>5. from' \in Nat /\ (from' # 0 => from' <= Len(bars[a.contract]))
    BY <1>5, <2>4, HandlerAssumption DEF candlesLast30Minutes
  <2> QED
    BY <1>1, <2>1, <2>2, <2>5 DEF WindowInv, Elapsed, MissedBar, mainVars
<1>6. CASE candlesCopied
  <2>1. /\ pc' \in {"check", "crashed"} /\ UNCHANGED <<mainVars, from, alertUpdateQueue>>
        /\ pc = "copy" /\ Elapsed(a)
    BY <1>6 DEF candlesCopied, IInv, WindowInv
  <2>2. CASE from = 0
    <3>1. MissedBar(a.contract) /\ prevCandles' = <<>>
      BY <1>6, <2>1, <2>2 DEF candlesCopied, IInv, WindowInv
    <3> QED
      BY <1>1, <2>1, <2>2, <3>1 DEF WindowInv, Elapsed, MissedBar, mainVars
  <2>3. CASE from # 0
    <3>1. /\ prevCandles' \in Seq(Candles) /\ prevCandles' # <<>>
          /\ prevCandles'[Len(prevCandles')].time >= a.time
      BY <1>6, <2>3, CopiedWindow
    <3> QED
      BY <1>1, <2>1, <3>1 DEF WindowInv, Elapsed, mainVars
  <2> QED
    BY <2>2, <2>3
<1>7. CASE checkWinStats
  BY <1>2, <1>7 DEF checkWinStats, Goto
<1>8. CASE pop \/ popAgainstPush
  <2>1. from' = 0 /\ prevCandles' = <<>> /\ pc' = "inner"
    BY <1>8 DEF pop, popAgainstPush
  <2> QED
    BY <2>1 DEF WindowInv
<1>9. CASE tick \/ MainThread \/ UNCHANGED vars
  <2>1. UNCHANGED <<pc, from, prevCandles>>
    BY <1>9 DEF tick, MainThread, updateData, inputAlert, dataUpdated, doneCheckingAlerts,
       threadVars, vars
  <2>2. CASE pc \notin Judging
    BY <1>2, <2>1, <2>2
  <2>3. CASE pc \in Judging
    <3>1. a \in Alerts /\ q # <<>> /\ q \in Seq(Alerts \cup {Phantom})
      BY <2>3 DEF IInv, QueueInv, Holding
    <3>2. Head(q)' = a
      <4>1. CASE inputAlert
        <5>1. q' = Append(q, NextAlert) /\ NextAlert \in Alerts
          BY <1>1, <4>1, NextAlertType DEF inputAlert
        <5> QED
          BY <3>1, <5>1, BehindHead
      <4>2. CASE ~inputAlert
        BY <1>9, <4>2 DEF tick, MainThread, updateData, dataUpdated, doneCheckingAlerts, vars
      <4> QED
        BY <4>1, <4>2
    <3>3. a.contract \in Contracts /\ a.time \in Nat
      BY <3>1, HandlerAssumption DEF Alerts, Times
    <3>4. now \in Nat /\ now' \in Nat /\ now <= now'
      <4>1. now \in Nat
        BY <1>1, <3>3, BarsType
      <4>2. now' = now \/ now' = now + 1
        BY <1>9 DEF tick, MainThread, updateData, inputAlert, dataUpdated, doneCheckingAlerts,
           vars, mainVars
      <4> QED
        BY <4>1, <4>2
    <3>5. Elapsed(a) /\ now' - a.time >= HalfHour
      BY <2>3, <3>3, <3>4, HandlerAssumption DEF IInv, WindowInv, Elapsed
    <3>6. ASSUME NEW c \in Contracts, MissedBar(c)
          PROVE  MissedBar(c)'
      BY <1>1, <3>6, MissedStays
    <3>7. Len(bars[a.contract]) \in Nat /\ Len(bars'[a.contract]) \in Nat
          /\ Len(bars[a.contract]) <= Len(bars'[a.contract])
      BY <1>1, <3>3, BarsLonger
    <3>8. /\ pc = "copy" => IF from = 0 THEN MissedBar(a.contract)
                            ELSE from <= Len(bars[a.contract])
          /\ pc = "check" => IF prevCandles = <<>> THEN MissedBar(a.contract)
                             ELSE prevCandles[Len(prevCandles)].time >= a.time
      BY DEF IInv, WindowInv
    <3>9. MissedBar(a.contract) =>
            /\ bars'[a.contract] # <<>>
            /\ \E t \in bars'[a.contract][1].time .. now' - 1 :
                 \A i \in DOMAIN bars'[a.contract] : bars'[a.contract][i].time # t
      BY <3>3, <3>6 DEF MissedBar
    <3> HIDE DEF a, q
    <3>10. MissedBar(a.contract) => MissedBar(Head(alertUpdateQueue).contract)'
      BY <3>2, <3>9 DEF MissedBar, q
    <3>11. Elapsed(Head(alertUpdateQueue))'
      BY <3>2, <3>5 DEF Elapsed, q
    <3> QED
      BY <1>1, <2>1, <3>2, <3>7, <3>8, <3>10, <3>11 DEF WindowInv, q
  <2> QED
    BY <2>2, <2>3
<1> QED
  BY <1>3, <1>4, <1>5, <1>6, <1>7, <1>8, <1>9 DEF Next, AlertThread

\* A crash keeps its cause.
LEMMA CrashStep ==
  ASSUME IInv, [Next]_vars
  PROVE  CrashNeedsMissedBar'
<1> DEFINE q == alertUpdateQueue
           a == Head(alertUpdateQueue)
<1> USE DEF Judging
<1>1. QueueInv /\ StreamInv /\ q \in Seq(Alerts \cup {Phantom})
  BY DEF IInv, QueueInv
<1>2. ASSUME pc' # "crashed"
      PROVE  CrashNeedsMissedBar'
  BY <1>2 DEF CrashNeedsMissedBar
<1>3. CASE ageTest
  BY <1>1, <1>2, <1>3 DEF ageTest, Goto, CrashNeedsMissedBar, GarbageRead, QueueInv, Holding
<1>4. CASE candlesCopied
  <2>1. CASE raced /\ pc' = "crashed"
    BY <1>4, <2>1 DEF candlesCopied, CrashNeedsMissedBar, GarbageRead
  <2>2. CASE ~(raced /\ pc' = "crashed")
    BY <1>2, <1>4, <2>2 DEF candlesCopied
  <2> QED
    BY <2>1, <2>2
<1>5. CASE checkWinStats
  <2>1. CASE prevCandles = <<>>
    <3>1. MissedBar(a.contract) /\ UNCHANGED <<mainVars, alertUpdateQueue>>
      BY <1>5, <2>1 DEF IInv, WindowInv, checkWinStats, Goto
    <3> QED
      BY <3>1 DEF CrashNeedsMissedBar, MissedBar, mainVars
  <2>2. CASE prevCandles # <<>>
    <3>1. /\ prevCandles \in Seq(Candles) /\ a \in Alerts
          /\ prevCandles[Len(prevCandles)].time >= a.time
      BY <1>5, <2>2 DEF IInv, WindowInv, QueueInv, checkWinStats
    <3>2. SinceAlert(a, prevCandles) # <<>>
      BY <2>2, <3>1, SearchEnds
    <3> QED
      BY <1>2, <1>5, <3>2 DEF checkWinStats, Goto
  <2> QED
    BY <2>1, <2>2
<1>6. CASE outerTest \/ innerTest \/ candlesLast30Minutes \/ pop \/ popAgainstPush
  BY <1>2, <1>6 DEF outerTest, innerTest, candlesLast30Minutes, pop, popAgainstPush, Goto
<1>7. CASE tick \/ MainThread \/ UNCHANGED vars
  <2>1. pc' = pc
    BY <1>7 DEF tick, MainThread, updateData, inputAlert, dataUpdated, doneCheckingAlerts,
       threadVars, vars
  <2>2. CASE pc = "crashed"
    <3>1. q # <<>> /\ (GarbageRead \/ MissedBar(a.contract)) /\ a \in Alerts \cup {Phantom}
      BY <1>1, <2>2 DEF IInv, QueueInv, Holding, CrashNeedsMissedBar
    <3>2. q' # <<>> /\ Head(q)' = a
      <4>1. CASE inputAlert
        <5>1. q' = Append(q, NextAlert) /\ NextAlert \in Alerts
          BY <1>1, <4>1, NextAlertType DEF inputAlert
        <5> QED
          BY <1>1, <3>1, <5>1, BehindHead
      <4>2. CASE ~inputAlert
        BY <1>7, <3>1, <4>2 DEF tick, MainThread, updateData, dataUpdated, doneCheckingAlerts, vars
      <4> QED
        BY <4>1, <4>2
    <3>3. raced => raced'
      BY <1>7 DEF tick, MainThread, updateData, inputAlert, dataUpdated, doneCheckingAlerts, vars
    <3>4. CASE GarbageRead
      <4>1. GarbageRead'
        BY <3>2, <3>3, <3>4 DEF GarbageRead
      <4> QED
        BY <4>1 DEF CrashNeedsMissedBar
    <3>5. CASE ~GarbageRead
      <4>1. a \in Alerts /\ MissedBar(a.contract)
        BY <3>1, <3>5 DEF GarbageRead
      <4>2. a.contract \in Contracts
        BY <4>1 DEF Alerts
      <4>3. ASSUME NEW c \in Contracts, MissedBar(c)
            PROVE  MissedBar(c)'
        BY <1>1, <4>3, MissedStays
      <4>4. /\ bars'[a.contract] # <<>>
            /\ \E t \in bars'[a.contract][1].time .. now' - 1 :
                 \A i \in DOMAIN bars'[a.contract] : bars'[a.contract][i].time # t
        BY <4>1, <4>2, <4>3 DEF MissedBar
      <4> HIDE DEF a, q
      <4>5. MissedBar(Head(alertUpdateQueue).contract)'
        BY <3>2, <4>4 DEF MissedBar, q
      <4> QED
        BY <4>5 DEF CrashNeedsMissedBar
    <3> QED
      BY <3>4, <3>5
  <2> QED
    BY <1>2, <2>1, <2>2
<1> QED
  BY <1>3, <1>4, <1>5, <1>6, <1>7 DEF Next, AlertThread

-----------------------------------------------------------------------------
(* The theorems.                                                           *)

LEMMA Initially == Init => IInv
<1> SUFFICES ASSUME Init PROVE IInv
  OBVIOUS
<1>1. QueueInv
  <2>1. reported \in Seq({})
    BY DEF Init
  <2> QED
    BY <2>1 DEF Init, QueueInv, Labels, Holding, Judging
<1>2. StreamInv
  BY HandlerAssumption DEF Init, StreamInv, Times
<1> QED
  BY <1>1, <1>2 DEF Init, IInv, AlertInv, WindowInv, CrashNeedsMissedBar, Judging

LEMMA Inductive == IInv /\ [Next]_vars => IInv'
BY QueueStep, StreamStep, AlertStep, WindowStep, CrashStep DEF IInv

THEOREM Invariance == Spec => []IInv
BY Initially, Inductive, PTL DEF Spec

\* The search of checkWinStats runs past the end of its window only for a contract whose
\* stream left out a bar, or after a data race, whatever the bars, the contracts and the
\* length of half an hour.
THEOREM NoOtherCrash == Spec => []CrashNeedsMissedBar
<1>1. IInv => CrashNeedsMissedBar
  BY DEF IInv
<1> QED
  BY <1>1, Invariance, PTL

\* One step of the handler is a step of the abstract promise or none.
LEMMA StepKeepsPromise ==
  ASSUME IInv, [Next]_vars
  PROVE  [Promise!Next]_(Promise!promiseVars)
<1> DEFINE q == alertUpdateQueue
           alerts == [i \in DOMAIN reported |-> reported[i].alert]
           Q == Alerts \cup {Phantom}
<1>1. q \in Seq(Q) /\ QueueInv /\ StreamInv
  BY DEF IInv, QueueInv
<1>2. CASE inputAlert
  <2>1. q' = Append(q, NextAlert) /\ UNCHANGED <<pc, reported>> /\ NextAlert \in Alerts
    BY <1>1, <1>2, NextAlertType DEF inputAlert, threadVars
  <2>2. q' = q \o <<NextAlert>>
    BY <1>1, <2>1
  <2>3. pc = "pop" => Tail(q') = Tail(q) \o <<NextAlert>>
    BY <1>1, <2>1, BehindHead DEF QueueInv, Holding
  <2>4. Promise!Raise(NextAlert)
    BY <2>1, <2>2, <2>3 DEF Promise!Raise
  <2> QED
    BY <2>1, <2>4 DEF Promise!Next
<1>3. CASE popAgainstPush
  <2>1. NextAlert \in Alerts /\ pc = "pop" /\ pc' = "inner" /\ reported' = reported
    BY <1>1, <1>3, NextAlertType DEF popAgainstPush
  <2>2. PICK pushed \in {<<>>, <<Phantom>>, <<NextAlert, Phantom>>} : q' = Tail(q) \o pushed
    BY <1>3 DEF popAgainstPush
  <2>3. Tail(q) \in Seq(Q)
    BY <1>1, <2>1, PopFacts DEF QueueInv, Holding
  <2>4. CASE pushed = <<>>
    <3>1. q' = Tail(q)
      BY <2>2, <2>3, <2>4
    <3> QED
      BY <2>1, <3>1 DEF Promise!promiseVars
  <2>5. CASE pushed # <<>>
    <3>1. Promise!Raise(NextAlert)
      BY <2>1, <2>2, <2>5 DEF Promise!Raise
    <3> QED
      BY <2>1, <3>1 DEF Promise!Next
  <2> QED
    BY <2>4, <2>5
<1>4. CASE pop
  BY <1>4 DEF pop, Promise!promiseVars
<1>5. CASE checkWinStats
  <2>1. UNCHANGED q /\ pc = "check" /\ Head(q) \in Alerts /\ q # <<>>
    BY <1>1, <1>5 DEF checkWinStats, Goto, QueueInv, Holding, Judging
  <2>2. CASE pc' = "crashed"
    BY <1>5, <2>1, <2>2 DEF checkWinStats, Goto, Promise!promiseVars
  <2>3. CASE pc' # "crashed"
    <3>1. pc' = "pop"
      BY <1>5, <2>3 DEF checkWinStats, Goto
    <3>2. \E r : reported' = Append(reported, r) /\ r.alert = Head(q)
      <4>1. PICK w, o : reported' = Append(reported, [alert |-> Head(q), since |-> w[1].time,
                                                      upTo |-> w[Len(w)].time, outcome |-> o])
        BY <1>5, <2>3 DEF checkWinStats, Goto
      <4> QED
        BY <4>1
    <3>3. PICK r : reported' = Append(reported, r) /\ r.alert = Head(q)
      BY <3>2
    <3>4. PICK S : reported \in Seq(S)
      BY <1>1 DEF QueueInv
    <3>5. alerts' = Append(alerts, Head(q))
      <4>1. /\ Len(reported) \in Nat /\ DOMAIN reported = 1 .. Len(reported)
            /\ reported \in Seq(S \cup {r})
        BY <3>4
      <4>2. /\ DOMAIN reported' = 1 .. Len(reported) + 1
            /\ \A i \in 1 .. Len(reported) : reported'[i] = reported[i]
            /\ reported'[Len(reported) + 1] = r
        BY <3>3, <4>1
      <4>3. alerts = [i \in 1 .. Len(reported) |-> reported[i].alert]
        BY <4>1
      <4>4. alerts' = [i \in 1 .. Len(reported) + 1 |-> reported'[i].alert]
        BY <4>2
      <4> DEFINE T == {alerts[i] : i \in 1 .. Len(reported)} \cup {Head(q)}
      <4>5. alerts \in Seq(T) /\ Len(alerts) = Len(reported)
        BY <4>1, <4>3
      <4>6. Append(alerts, Head(q)) = [i \in 1 .. Len(reported) + 1 |->
              IF i <= Len(reported) THEN alerts[i] ELSE Head(q)]
        BY <4>1, <4>5
      <4>7. \A i \in 1 .. Len(reported) + 1 :
              reported'[i].alert = IF i <= Len(reported) THEN alerts[i] ELSE Head(q)
        BY <3>3, <4>1, <4>2, <4>3
      <4> QED
        BY <4>4, <4>6, <4>7
    <3>6. Head(q) # Phantom
      BY <2>1, HandlerAssumption DEF Alerts, Phantom
    <3>7. Promise!Answer
      BY <2>1, <3>1, <3>5, <3>6 DEF Promise!Answer
    <3> QED
      BY <3>7 DEF Promise!Next
  <2> QED
    BY <2>2, <2>3
<1>6. CASE UNCHANGED <<alertUpdateQueue, reported>> /\ (pc' = pc \/ "pop" \notin {pc, pc'})
  BY <1>6 DEF Promise!promiseVars
<1> QED
  <2>1. CASE outerTest \/ innerTest \/ ageTest \/ candlesLast30Minutes \/ candlesCopied
    BY <1>6, <2>1 DEF outerTest, innerTest, ageTest, candlesLast30Minutes, candlesCopied, Goto
  <2>2. CASE tick \/ dataUpdated \/ doneCheckingAlerts \/ UNCHANGED vars
             \/ \E c \in Contracts : \E bar \in BarsOf[c] : updateData(c, bar)
    BY <1>6, <2>2 DEF tick, dataUpdated, doneCheckingAlerts, updateData, threadVars, vars
  <2> QED
    BY <1>2, <1>3, <1>4, <1>5, <2>1, <2>2 DEF Next, MainThread, AlertThread

\* The alert handler implements the abstract promise: whatever the bars and the races of
\* the queue, alerts are answered in their order and none is answered twice.
THEOREM Refinement == Spec => AnswersInOrder
<1>1. Init => Promise!Init
  BY DEF Init, Promise!Init
<1>2. IInv /\ [Next]_vars => [Promise!Next]_(Promise!promiseVars)
  BY StepKeepsPromise
<1> QED
  BY <1>1, <1>2, Invariance, PTL DEF Spec, AnswersInOrder, Promise!Spec

-----------------------------------------------------------------------------
(* The walk over the window, by induction on its length.                   *)

Start(start) == [min |-> start, max |-> start, time |-> 0]

\* One iteration of the loop.
Advance(s, bar, start, even) ==
  IF Dropped(start, s.min, even) THEN s
  ELSE [min  |-> Smaller(s.min, bar.low),
        max  |-> Larger(s.max, bar.high),
        time |-> IF s.max < bar.high THEN bar.time ELSE s.time]

\* f is the walk over the first n bars of w.
IsWalk(f, n, w, start, even) ==
  f = [i \in 0 .. n |-> IF i = 0 THEN Start(start) ELSE Advance(f[i - 1], w[i], start, even)]

\* Some function is the walk, for every window.
LEMMA WalkExists ==
  ASSUME NEW w, NEW start, NEW even, NEW n \in Nat
  PROVE  \E f : IsWalk(f, n, w, start, even)
<1> DEFINE bad == {m \in Nat : ~ \E f : IsWalk(f, m, w, start, even)}
<1>1. SUFFICES ASSUME bad # {} PROVE FALSE
  OBVIOUS
<1>2. PICK m \in bad : \A k \in bad : m <= k
  BY <1>1, LeastElement
<1>3. CASE m = 0
  <2> DEFINE f == [i \in 0 .. 0 |-> Start(start)]
  <2>1. \A i \in 0 .. 0 : i = 0
    OBVIOUS
  <2>2. IsWalk(f, 0, w, start, even)
    BY <2>1 DEF IsWalk
  <2> QED
    BY <1>2, <1>3, <2>2
<1>4. CASE m # 0
  <2>1. m - 1 \in Nat /\ m - 1 \notin bad /\ m \in Nat
    BY <1>2, <1>4
  <2>2. PICK f : IsWalk(f, m - 1, w, start, even)
    BY <2>1
  <2> DEFINE g == [i \in 0 .. m |-> IF i = m THEN Advance(f[m - 1], w[m], start, even) ELSE f[i]]
  <2>3. \A i \in 0 .. m - 1 : g[i] = f[i] /\ i # m
    BY <2>1
  <2>4. g[m] = Advance(f[m - 1], w[m], start, even)
    BY <2>1
  <2>5. \A i \in 0 .. m - 1 :
          f[i] = IF i = 0 THEN Start(start) ELSE Advance(f[i - 1], w[i], start, even)
    BY <2>2 DEF IsWalk
  <2>6. \A i \in 0 .. m :
          g[i] = IF i = 0 THEN Start(start) ELSE Advance(g[i - 1], w[i], start, even)
    <3> TAKE i \in 0 .. m
    <3>1. CASE i = m
      BY <1>4, <2>1, <2>3, <2>4, <3>1
    <3>2. CASE i # m
      <4>1. i \in 0 .. m - 1 /\ (i # 0 => i - 1 \in 0 .. m - 1)
        BY <2>1, <3>2
      <4> HIDE DEF g
      <4> QED
        BY <2>3, <2>5, <4>1
    <3> QED
      BY <3>1, <3>2
  <2>7. IsWalk(g, m, w, start, even)
    BY <2>6 DEF IsWalk
  <2> QED
    BY <1>2, <2>7
<1> QED
  BY <1>3, <1>4

\* The loop of checkWinStats is that walk.
LEMMA ScanIsWalk ==
  ASSUME NEW w \in Seq(Candles), NEW start, NEW even
  PROVE  \E f : /\ Scan(w, start, even) = f[Len(w)] /\ f[0] = Start(start)
                /\ \A i \in 1 .. Len(w) : f[i] = Advance(f[i - 1], w[i], start, even)
<1> DEFINE f == CHOOSE g : IsWalk(g, Len(w), w, start, even)
<1>1. Len(w) \in Nat
  OBVIOUS
<1>2. IsWalk(f, Len(w), w, start, even)
  BY <1>1, WalkExists
<1>3. Scan(w, start, even) = f[Len(w)]
  BY DEF Scan, IsWalk, Start, Advance
<1> HIDE DEF f
<1>4. \A i \in 0 .. Len(w) :
        f[i] = IF i = 0 THEN Start(start) ELSE Advance(f[i - 1], w[i], start, even)
  BY <1>2 DEF IsWalk
<1> QED
  BY <1>1, <1>3, <1>4

\* A price that lost 30 per cent.
Loses(price, start, even) == AtMost(10 * price, 7 * start, even)

\* The walk looks at bar i when no bar before it lost 30 per cent.
Reaches(i, w, start, even) == \A k \in 1 .. i - 1 : ~ Loses(w[k].low, start, even)

\* What the walk knows after n bars: whether one lost 30 per cent, and the highest price
\* of those it looked at, with the first bar that reached it.
Walked(s, n, w, start, even) ==
  /\ s.min \in Nat /\ s.max \in Nat /\ s.time \in Nat /\ start <= s.max
  /\ Loses(s.min, start, even) <=> \E k \in 1 .. n : Loses(w[k].low, start, even)
  /\ \A i \in 1 .. n : Reaches(i, w, start, even) => w[i].high <= s.max
  /\ s.max > start =>
       \E i \in 1 .. n : /\ Reaches(i, w, start, even) /\ w[i].high = s.max /\ s.time = w[i].time
                         /\ \A k \in 1 .. i - 1 : w[k].high < s.max

LEMMA DroppedMeans ==
  ASSUME NEW start \in Nat, NEW min \in Nat, NEW even
  PROVE  Dropped(start, min, even) <=> Loses(min, start, even)
<1>1. 10 * (min - start) < -3 * start <=> 10 * min < 7 * start
  OBVIOUS
<1>2. 10 * (min - start) = -3 * start <=> 10 * min = 7 * start
  OBVIOUS
<1> QED
  BY <1>1, <1>2, Zenon DEF Dropped, Loses, AtMost

\* The loop looks at one more bar, or has ended.
LEMMA WalkStep ==
  ASSUME NEW w \in Seq(Candles), NEW start \in Prices, NEW even \in BOOLEAN,
         NEW n \in 1 .. Len(w), NEW s, Walked(s, n - 1, w, start, even)
  PROVE  Walked(Advance(s, w[n], start, even), n, w, start, even)
<1>1. /\ start \in Nat /\ start > 0 /\ n \in Nat /\ Len(w) \in Nat
      /\ \A i \in 1 .. Len(w) : w[i].low \in Nat /\ w[i].high \in Nat /\ w[i].time \in Nat
  <2>1. Prices \subseteq Nat \ {0} /\ \A t \in Times : t \in Nat
    BY HandlerAssumption DEF Times
  <2>2. Len(w) \in Nat /\ \A i \in 1 .. Len(w) : w[i] \in Candles
    OBVIOUS
  <2>3. \A c \in Candles : c.low \in Prices /\ c.high \in Prices /\ c.time \in Times
    BY DEF Candles
  <2>4. \A i \in 1 .. Len(w) : w[i].low \in Nat /\ w[i].high \in Nat /\ w[i].time \in Nat
    BY <2>1, <2>2, <2>3, Zenon
  <2>5. start \in Nat /\ start > 0 /\ n \in Nat
    BY <2>1
  <2> QED
    BY <2>2, <2>4, <2>5
<1>2. s.min \in Nat /\ s.max \in Nat /\ s.time \in Nat /\ start <= s.max
  BY DEF Walked
<1> DEFINE bar == w[n]
<1>3. \A k \in 1 .. n : k \in 1 .. n - 1 \/ k = n
  BY <1>1
<1>4. CASE Dropped(start, s.min, even)
  <2>1. PICK k \in 1 .. n - 1 : Loses(w[k].low, start, even)
    BY <1>1, <1>2, <1>4, DroppedMeans DEF Walked
  <2>3. ~ Reaches(n, w, start, even)
    BY <2>1 DEF Reaches
  <2>4. Advance(s, bar, start, even) = s
    BY <1>4 DEF Advance
  <2>5. Loses(s.min, start, even) <=> \E i \in 1 .. n : Loses(w[i].low, start, even)
    BY <1>1, <1>2, <1>4, <2>1, DroppedMeans
  <2>6. \A i \in 1 .. n : Reaches(i, w, start, even) => w[i].high <= s.max
    BY <1>3, <2>3 DEF Walked
  <2>7. s.max > start =>
       \E i \in 1 .. n : /\ Reaches(i, w, start, even) /\ w[i].high = s.max /\ s.time = w[i].time
                         /\ \A j \in 1 .. i - 1 : w[j].high < s.max
    BY <1>1 DEF Walked
  <2> QED
    BY <1>2, <2>4, <2>5, <2>6, <2>7 DEF Walked
<1>5. CASE ~ Dropped(start, s.min, even)
  <2> DEFINE t == Advance(s, bar, start, even)
  <2>1. /\ t.min = Smaller(s.min, bar.low) /\ t.max = Larger(s.max, bar.high)
        /\ t.time = IF s.max < bar.high THEN bar.time ELSE s.time
    BY <1>5 DEF Advance
  <2> HIDE DEF t
  <2>2. /\ t.min \in Nat /\ t.max \in Nat /\ t.time \in Nat /\ start <= t.max
        /\ s.max <= t.max /\ bar.high <= t.max /\ (t.max = s.max \/ t.max = bar.high)
    BY <1>1, <1>2, <2>1 DEF Smaller, Larger
  <2>3. ~ Loses(s.min, start, even)
    BY <1>1, <1>2, <1>5, DroppedMeans
  <2>4. \A k \in 1 .. n - 1 : ~ Loses(w[k].low, start, even)
    <3>1. ~ \E k \in 1 .. n - 1 : Loses(w[k].low, start, even)
      BY <2>3 DEF Walked
    <3> QED
      BY <3>1
  <2>5. Reaches(n, w, start, even)
    BY <2>4 DEF Reaches
  <2>6. Loses(t.min, start, even) <=> Loses(bar.low, start, even)
    <3>1. CASE s.min <= bar.low
      <4>1. t.min = s.min /\ bar.low \in Nat
        BY <1>1, <2>1, <3>1 DEF Smaller
      <4>2. ~ Loses(bar.low, start, even)
        <5>1. 10 * bar.low < 7 * start => 10 * s.min < 7 * start
          BY <1>1, <1>2, <3>1, <4>1
        <5>2. 10 * bar.low = 7 * start => 10 * s.min < 7 * start \/ 10 * s.min = 7 * start
          BY <1>1, <1>2, <3>1, <4>1
        <5> QED
          BY <2>3, <5>1, <5>2, Zenon DEF Loses, AtMost
      <4> QED
        BY <2>3, <4>1, <4>2
    <3>2. CASE ~ (s.min <= bar.low)
      BY <2>1, <3>2 DEF Smaller
    <3> QED
      BY <3>1, <3>2
  <2>7. Loses(bar.low, start, even) <=> \E k \in 1 .. n : Loses(w[k].low, start, even)
    BY <1>1, <1>3, <2>4
  <2>8. \A i \in 1 .. n : Reaches(i, w, start, even) => w[i].high <= t.max
    <3> TAKE i \in 1 .. n
    <3> HAVE Reaches(i, w, start, even)
    <3>1. CASE i = n
      BY <2>2, <3>1
    <3>2. CASE i # n
      <4>1. w[i].high <= s.max /\ w[i].high \in Nat
        BY <1>1, <1>3, <3>2 DEF Walked
      <4> QED
        BY <1>2, <2>2, <4>1
    <3> QED
      BY <3>1, <3>2
  <2>9. ASSUME t.max > start
        PROVE  \E i \in 1 .. n : /\ Reaches(i, w, start, even) /\ w[i].high = t.max
                                 /\ t.time = w[i].time
                                 /\ \A k \in 1 .. i - 1 : w[k].high < t.max
    <3>1. CASE s.max < bar.high
      <4>1. t.max = bar.high /\ t.time = bar.time
        BY <1>1, <1>2, <2>1, <3>1 DEF Larger
      <4>2. \A k \in 1 .. n - 1 : w[k].high < t.max
        <5> TAKE k \in 1 .. n - 1
        <5>1. Reaches(k, w, start, even)
          <6>1. \A j \in 1 .. k - 1 : j \in 1 .. n - 1
            BY <1>1
          <6> QED
            BY <2>4, <6>1 DEF Reaches
        <5>2. w[k].high <= s.max /\ w[k].high \in Nat
          BY <1>1, <5>1 DEF Walked
        <5> QED
          BY <1>1, <1>2, <3>1, <4>1, <5>2
      <4> QED
        BY <1>1, <2>5, <4>1, <4>2
    <3>2. CASE ~ (s.max < bar.high)
      <4>1. t.max = s.max /\ t.time = s.time
        BY <1>1, <1>2, <2>1, <3>2 DEF Larger
      <4> QED
        BY <1>1, <2>9, <4>1 DEF Walked
    <3> QED
      BY <3>1, <3>2
  <2> QED
    BY <2>2, <2>6, <2>7, <2>8, <2>9 DEF Walked, t
<1> QED
  BY <1>4, <1>5

\* What the loop knows at its end.
LEMMA ScanResult ==
  ASSUME NEW w \in Seq(Candles), NEW start \in Prices, NEW even \in BOOLEAN
  PROVE  Walked(Scan(w, start, even), Len(w), w, start, even)
<1>1. PICK f : /\ Scan(w, start, even) = f[Len(w)] /\ f[0] = Start(start)
               /\ \A i \in 1 .. Len(w) : f[i] = Advance(f[i - 1], w[i], start, even)
  BY ScanIsWalk
<1> DEFINE bad == {n \in 0 .. Len(w) : ~ Walked(f[n], n, w, start, even)}
<1>2. Len(w) \in Nat /\ start \in Nat /\ start > 0
  BY HandlerAssumption
<1>3. SUFFICES ASSUME bad # {} PROVE FALSE
  BY <1>1, <1>2
<1>4. PICK n \in bad : \A k \in bad : n <= k
  <2>1. bad \in SUBSET Nat
    BY <1>2
  <2> HIDE DEF bad
  <2> QED
    BY <1>3, <2>1, LeastElement
<1>5. n # 0
  <2>1. ~ Loses(start, start, even)
    BY <1>2 DEF Loses, AtMost
  <2>2. Walked(Start(start), 0, w, start, even)
    BY <1>2, <2>1 DEF Walked, Start
  <2> QED
    BY <1>1, <1>4, <2>2
<1>6. n \in 1 .. Len(w) /\ n - 1 \in 0 .. Len(w) /\ n - 1 \notin bad
  BY <1>2, <1>4, <1>5
<1>7. Walked(f[n - 1], n - 1, w, start, even)
  BY <1>6
<1>8. Walked(f[n], n, w, start, even)
  BY <1>1, <1>6, <1>7, WalkStep
<1> QED
  BY <1>4, <1>8

\* The three cases of an outcome.
LEMMA OutcomeCases ==
  ASSUME NEW a, NEW s, NEW even \in BOOLEAN, a.close \in Nat, a.close > 0, s.max \in Nat
  PROVE  /\ s.max <= a.close =>
              Outcome(a, s, even) = [winLoss |-> "loss", timeToWin |-> 0]
         /\ s.max > a.close /\ ~ Won(a.close, s.max, even) =>
              Outcome(a, s, even) =
                [winLoss |-> IF WorthIt(a.close, s.max, even) THEN "half" ELSE "loss",
                 timeToWin |-> s.time - a.time]
         /\ s.max > a.close /\ Won(a.close, s.max, even) =>
              Outcome(a, s, even) = [winLoss |-> "win", timeToWin |-> s.time - a.time]
<1>1. CASE s.max <= a.close
  <2>1. ~ (s.max > a.close)
    BY <1>1
  <2>2. ~ Won(a.close, s.max, even)
    <3>1. ~ (6 * a.close < 10 * (s.max - a.close)) /\ 6 * a.close # 10 * (s.max - a.close)
      BY <1>1
    <3> QED
      BY <3>1 DEF Won, AtMost
  <2> QED
    BY <1>1, <2>1, <2>2 DEF Outcome
<1>2. CASE s.max > a.close
  <2>1. ~ (s.max <= a.close)
    BY <1>2
  <2> QED
    BY <1>2, <2>1 DEF Outcome
<1> QED
  BY <1>1, <1>2

\* A rise of 60 % in the two ways the checks multiply it out.
LEMMA SixtyPerCent ==
  ASSUME NEW p \in Nat, NEW h \in Nat
  PROVE  /\ 6 * p < 10 * (h - p) => 10 * h >= 16 * p
         /\ 6 * p = 10 * (h - p) => 10 * h = 16 * p
         /\ ~ (6 * p < 10 * (h - p)) => 10 * h <= 16 * p
OBVIOUS

\* The outcome follows from the first of the highest bars the walk looks at.
LEMMA Judged ==
  ASSUME NEW w \in Seq(Candles), NEW a \in Alerts, NEW j \in 1 .. Len(w),
         NEW even \in BOOLEAN, NEW evenHigh \in BOOLEAN, Reaches(j, w, a.close, even),
         \A k \in 1 .. Len(w) : Reaches(k, w, a.close, even) =>
           w[k].high < w[j].high \/ (w[k].high = w[j].high /\ k >= j),
         NEW o, o = Outcome(a, Scan(w, a.close, even), evenHigh)
  PROVE  /\ o.winLoss \in {"loss", "half", "win"}
         /\ o.winLoss = "win"  => 10 * w[j].high >= 16 * a.close
         /\ o.winLoss # "win"  => 10 * w[j].high <= 16 * a.close
         /\ o.winLoss = "half" => w[j].high >= a.close + 10
         /\ o.winLoss = "loss" => w[j].high <= a.close + 10
         /\ o.timeToWin = IF w[j].high > a.close THEN w[j].time - a.time ELSE 0
<1> DEFINE s == Scan(w, a.close, even)
           h == w[j].high
<1>1. /\ a.close \in Prices /\ a.close \in Nat /\ a.close > 0 /\ a.time \in Nat
      /\ Len(w) \in Nat /\ w[j] \in Candles
      /\ \A k \in 1 .. Len(w) : w[k].high \in Nat /\ w[k].time \in Nat
  <2>1. Prices \subseteq Nat \ {0} /\ \A t \in Times : t \in Nat
    BY HandlerAssumption DEF Times
  <2>2. Len(w) \in Nat /\ \A i \in 1 .. Len(w) : w[i] \in Candles
    OBVIOUS
  <2>3. \A c \in Candles : c.high \in Prices /\ c.time \in Times
    BY DEF Candles
  <2>4. \A i \in 1 .. Len(w) : w[i].high \in Nat /\ w[i].time \in Nat
    BY <2>1, <2>2, <2>3, Zenon
  <2>5. a.close \in Prices /\ a.time \in Times
    BY DEF Alerts
  <2>6. a.close \in Nat \ {0} /\ a.time \in Nat
    BY <2>1, <2>5, Zenon
  <2>7. w[j] \in Candles
    BY <2>2
  <2> QED
    BY <2>2, <2>4, <2>5, <2>6, <2>7
<1>2. Walked(s, Len(w), w, a.close, even)
  BY <1>1, ScanResult
<1> HIDE DEF s
<1>3. s.max \in Nat /\ a.close <= s.max /\ h <= s.max /\ h \in Nat
  BY <1>1, <1>2 DEF Walked
<1>4. CASE h > a.close
  <2>1. PICK i \in 1 .. Len(w) : /\ Reaches(i, w, a.close, even) /\ w[i].high = s.max
                                 /\ s.time = w[i].time
                                 /\ \A k \in 1 .. i - 1 : w[k].high < s.max
    BY <1>1, <1>2, <1>3, <1>4 DEF Walked
  <2>2. w[i].high = h /\ i >= j
    BY <1>1, <1>3, <2>1
  <2>3. i = j
    BY <1>1, <2>1, <2>2
  <2>4. s.max = h /\ s.time = w[j].time
    BY <2>1, <2>2, <2>3
  <2>5. /\ Won(a.close, s.max, evenHigh) => 10 * h >= 16 * a.close
        /\ ~ Won(a.close, s.max, evenHigh) => 10 * h <= 16 * a.close
        /\ WorthIt(a.close, s.max, evenHigh) => h >= a.close + 10
        /\ ~ WorthIt(a.close, s.max, evenHigh) => h <= a.close + 10
    <3>1. /\ 6 * a.close < 10 * (h - a.close) => 10 * h >= 16 * a.close
          /\ 6 * a.close = 10 * (h - a.close) => 10 * h = 16 * a.close
          /\ ~ (6 * a.close < 10 * (h - a.close)) => 10 * h <= 16 * a.close
      BY <1>1, <1>3, SixtyPerCent
    <3>2. Won(a.close, s.max, evenHigh) =>
            6 * a.close < 10 * (h - a.close) \/ 6 * a.close = 10 * (h - a.close)
      BY <2>4 DEF Won, AtMost
    <3>3. ~ Won(a.close, s.max, evenHigh) => ~ (6 * a.close < 10 * (h - a.close))
      BY <2>4 DEF Won, AtMost
    <3>4. /\ WorthIt(a.close, s.max, evenHigh) => 10 < h - a.close \/ 10 = h - a.close
          /\ ~ WorthIt(a.close, s.max, evenHigh) => ~ (10 < h - a.close)
      BY <2>4 DEF WorthIt, AtMost
    <3>5. a.close \in Nat /\ h \in Nat
      BY <1>1, <1>3
    <3>6. /\ 10 < h - a.close \/ 10 = h - a.close => h >= a.close + 10
          /\ ~ (10 < h - a.close) => h <= a.close + 10
          /\ 10 * h = 16 * a.close => 10 * h >= 16 * a.close
      BY <3>5
    <3> QED
      BY <3>1, <3>2, <3>3, <3>4, <3>6, Zenon
  <2>6. o = Outcome(a, s, evenHigh) /\ w[j].time \in Nat
    BY <1>1 DEF s
  <2>7. CASE Won(a.close, s.max, evenHigh)
    <3>1. o = [winLoss |-> "win", timeToWin |-> s.time - a.time]
      BY <1>1, <1>3, <1>4, <2>4, <2>6, <2>7, OutcomeCases
    <3> QED
      BY <1>4, <2>4, <2>5, <2>7, <3>1
  <2>8. CASE ~ Won(a.close, s.max, evenHigh)
    <3>1. o = [winLoss |-> IF WorthIt(a.close, s.max, evenHigh) THEN "half" ELSE "loss",
               timeToWin |-> s.time - a.time]
      BY <1>1, <1>3, <1>4, <2>4, <2>6, <2>8, OutcomeCases
    <3> QED
      BY <1>1, <1>3, <1>4, <2>4, <2>5, <2>8, <3>1
  <2> QED
    BY <2>7, <2>8
<1>5. CASE ~ (h > a.close)
  <2>1. s.max = a.close
    <3>1. SUFFICES ASSUME s.max > a.close PROVE FALSE
      BY <1>1, <1>3
    <3>2. PICK i \in 1 .. Len(w) : Reaches(i, w, a.close, even) /\ w[i].high = s.max
      BY <1>2, <3>1 DEF Walked
    <3> QED
      BY <1>1, <1>3, <1>5, <3>1, <3>2
  <2>2. o = Outcome(a, s, evenHigh)
    BY DEF s
  <2>3. o = [winLoss |-> "loss", timeToWin |-> 0]
    BY <1>1, <1>3, <2>1, <2>2, OutcomeCases
  <2> QED
    BY <1>1, <1>3, <1>5, <2>3
<1> QED
  BY <1>4, <1>5

-----------------------------------------------------------------------------
(* What was reported.                                                      *)

\* Bars are a moment apart at least.
LEMMA Apart ==
  ASSUME StreamInv, NEW c \in Contracts, NEW i \in 1 .. Len(bars[c]),
         NEW j \in i .. Len(bars[c])
  PROVE  bars[c][j].time - bars[c][i].time >= j - i
<1> DEFINE data == bars[c]
           bad == {n \in i .. Len(data) : ~ (data[n].time - data[i].time >= n - i)}
<1>1. Len(data) \in Nat /\ \A n \in 1 .. Len(data) : data[n].time \in Nat
  BY BarsType
<1>2. \A m, n \in 1 .. Len(data) : m < n => data[m].time < data[n].time
  BY DEF StreamInv
<1> HIDE DEF data
<1>3. SUFFICES ASSUME bad # {} PROVE FALSE
  BY DEF data
<1>4. bad \in SUBSET Nat
  BY <1>1
<1>5. PICK n \in bad : \A k \in bad : n <= k
  <2> HIDE DEF bad
  <2> QED
    BY <1>3, <1>4, LeastElement
<1>6. n # i
  BY <1>1, <1>5 DEF data
<1>7. n - 1 \in i .. Len(data) /\ n - 1 \notin bad /\ n \in 1 .. Len(data) /\ i \in 1 .. Len(data)
  BY <1>1, <1>5, <1>6 DEF data
<1>8. n - 1 \in 1 .. Len(data) /\ n - 1 < n
  BY <1>1, <1>7
<1>9. data[n - 1].time < data[n].time
  BY <1>2, <1>7, <1>8
<1>10. data[n - 1].time - data[i].time >= n - 1 - i
  BY <1>7
<1>11. data[n].time - data[i].time >= n - i
  <2>1. data[n].time \in Nat /\ data[n - 1].time \in Nat /\ data[i].time \in Nat
    BY <1>1, <1>7, <1>8
  <2>2. n \in Int /\ i \in Int
    BY <1>7
  <2>3. \A x, y, z \in Nat : x < y /\ x - z >= n - 1 - i => y - z >= n - i
    BY <2>2
  <2> QED
    BY <1>9, <1>10, <2>1, <2>3
<1> QED
  BY <1>5, <1>11

HeadBars == bars[Head(alertUpdateQueue).contract]

\* The window is what is left of the stream's last half hour of bars and of those that
\* came while it was copied.
\* o is an outcome of the window w.
Tells(o, a, w) ==
  \E evenLow, evenHigh \in BOOLEAN : o = Outcome(a, Scan(w, a.close, evenLow), evenHigh)

CopyInv ==
  /\ pc = "copy" /\ from # 0 => from + HalfHour <= Len(HeadBars) + 1
  /\ pc = "check" /\ prevCandles # <<>> =>
       \E f, l \in 1 .. Len(HeadBars) :
         f + HalfHour <= l + 1 /\ prevCandles = SubSeq(HeadBars, f, l)

\* A report is about bars k to l of its contract, and those before bar k are older than
\* the alert, or than the half hour before bar l.
AboutBars(r, k, l) ==
  LET data == bars[r.alert.contract] IN
  /\ k <= l /\ r.since = data[k].time /\ r.upTo = data[l].time
  /\ r.alert.time <= data[k].time
  /\ \A j \in 1 .. k - 1 :
       data[j].time < r.alert.time \/ data[j].time <= data[l].time - HalfHour
  /\ Tells(r.outcome, r.alert, SubSeq(data, k, l))

IsOfItsBars(r) ==
  /\ r.alert \in Alerts /\ r.alert.time + HalfHour <= now
  /\ \E k, l \in 1 .. Len(bars[r.alert.contract]) : AboutBars(r, k, l)

ReportInv == \A i \in DOMAIN reported : IsOfItsBars(reported[i])

\* Such a report tells the outcome of its half hour.
LEMMA ReportIsExact ==
  ASSUME IInv, ReportInv
  PROVE  OutcomesExact
<1>1. SUFFICES ASSUME NEW n \in DOMAIN reported
               PROVE  LET a == reported[n].alert
                          data == bars[a.contract]
                          since == reported[n].since
                          upTo == reported[n].upTo
                          seen == {j \in DOMAIN data : data[j].time \in since .. upTo}
                          lost(even) == {j \in seen : AtMost(10 * data[j].low, 7 * a.close, even)}
                          reached(even) == {j \in seen : \A k \in lost(even) : k >= j}
                          best(even) ==
                            {j \in reached(even) : \A k \in reached(even) :
                               data[k].high < data[j].high
                                 \/ (data[k].high = data[j].high /\ k >= j)}
                          o == reported[n].outcome
                      IN  /\ a.time + HalfHour <= now /\ a.time <= since
                          /\ \A j \in DOMAIN data :
                               data[j].time \in a.time .. upTo /\ data[j].time > upTo - HalfHour
                                 => data[j].time >= since
                          /\ \E even \in BOOLEAN : \A j \in best(even) :
                               /\ o.winLoss \in {"loss", "half", "win"}
                               /\ o.winLoss = "win"  => 10 * data[j].high >= 16 * a.close
                               /\ o.winLoss # "win"  => 10 * data[j].high <= 16 * a.close
                               /\ o.winLoss = "half" => data[j].high >= a.close + 10
                               /\ o.winLoss = "loss" => data[j].high <= a.close + 10
                               /\ o.timeToWin = IF data[j].high > a.close
                                                  THEN data[j].time - a.time ELSE 0
  BY DEF OutcomesExact, WindowIsTheAlerts, JudgedByItsBars
<1> DEFINE r == reported[n]
           a == r.alert
           data == bars[a.contract]
           size == Len(data)
<1>2. /\ a \in Alerts /\ a.time + HalfHour <= now /\ a.contract \in Contracts
      /\ StreamInv
  BY DEF ReportInv, IsOfItsBars, Alerts, IInv
<1>3. PICK k, l \in 1 .. Len(bars[a.contract]) : AboutBars(r, k, l)
  BY DEF ReportInv, IsOfItsBars
<1>4. /\ data \in Seq(Candles) /\ size \in Nat /\ DOMAIN data = 1 .. size /\ HalfHour \in Nat
      /\ \A j \in 1 .. size : data[j] \in Candles /\ data[j].time \in Nat
      /\ a.time \in Nat
  BY <1>2, BarsType, HandlerAssumption DEF Alerts, Times
<1>5. /\ k \in 1 .. size /\ l \in 1 .. size
      /\ k <= l /\ r.since = data[k].time /\ r.upTo = data[l].time
      /\ a.time <= data[k].time
      /\ \A j \in 1 .. k - 1 : data[j].time < a.time \/ data[j].time <= data[l].time - HalfHour
      /\ Tells(r.outcome, a, SubSeq(data, k, l))
  BY <1>3 DEF AboutBars
<1>6. \A i, j \in 1 .. size : i < j => data[i].time < data[j].time
  BY <1>2 DEF StreamInv
<1> DEFINE seen == {j \in DOMAIN data : data[j].time \in r.since .. r.upTo}
           w == SubSeq(data, k, l)
<1> HIDE DEF data, r, a
<1>7. seen = k .. l
  <2>1. ASSUME NEW j \in 1 .. size  PROVE data[j].time \in r.since .. r.upTo <=> j \in k .. l
    <3>1. j < k => data[j].time < data[k].time
      BY <1>5, <1>6
    <3>2. k < j => data[k].time < data[j].time
      BY <1>5, <1>6
    <3>3. l < j => data[l].time < data[j].time
      BY <1>5, <1>6
    <3>4. j < l => data[j].time < data[l].time
      BY <1>5, <1>6
    <3> QED
      BY <1>4, <1>5, <3>1, <3>2, <3>3, <3>4
  <2>2. seen = {j \in 1 .. size : data[j].time \in r.since .. r.upTo}
    BY <1>4
  <2>3. k .. l \subseteq 1 .. size
    BY <1>4, <1>5
  <2> HIDE DEF seen
  <2>4. \A j : j \in seen <=> j \in k .. l
    BY <2>1, <2>2, <2>3, Zenon
  <2> QED
    BY <2>4, Zenon
<1>8. \A j \in 1 .. size :
        data[j].time \in a.time .. r.upTo /\ data[j].time > r.upTo - HalfHour
          => data[j].time >= r.since
  <2> TAKE j \in 1 .. size
  <2> HAVE data[j].time \in a.time .. r.upTo /\ data[j].time > r.upTo - HalfHour
  <2>1. ~ (j \in 1 .. k - 1)
    BY <1>4, <1>5
  <2>2. j = k \/ k < j
    BY <1>4, <2>1
  <2> QED
    BY <1>4, <1>5, <1>6, <2>2
<1>9. /\ w \in Seq(Candles) /\ Len(w) = l - k + 1
      /\ \A i \in 1 .. l - k + 1 : w[i] = data[k + i - 1]
  BY <1>4, <1>5
<1> HIDE DEF w, seen, size
<1>10. PICK even, evenHigh \in BOOLEAN : r.outcome = Outcome(a, Scan(w, a.close, even), evenHigh)
  BY <1>5 DEF Tells, w
<1> DEFINE lost == {j \in seen : AtMost(10 * data[j].low, 7 * a.close, even)}
           reached == {j \in seen : \A i \in lost : i >= j}
           best == {j \in reached : \A i \in reached :
                      data[i].high < data[j].high \/ (data[i].high = data[j].high /\ i >= j)}
<1>11. \A j \in k .. l : j \in reached <=> Reaches(j - k + 1, w, a.close, even)
  <2> TAKE j \in k .. l
  <2>1. j \in reached <=> \A i \in k .. j - 1 : ~ Loses(data[i].low, a.close, even)
    BY <1>4, <1>7 DEF Loses
  <2>2. \A i \in 1 .. j - k : i + k - 1 \in k .. j - 1 /\ w[i] = data[i + k - 1]
    BY <1>4, <1>9
  <2>3. \A i \in k .. j - 1 : i - k + 1 \in 1 .. j - k /\ w[i - k + 1] = data[i]
    BY <1>4, <1>9
  <2>4. (j - k + 1) - 1 = j - k
    OBVIOUS
  <2> HIDE DEF reached
  <2> QED
    BY <2>1, <2>2, <2>3, <2>4 DEF Reaches
<1>12. ASSUME NEW j \in best
       PROVE  LET o == r.outcome IN
              /\ o.winLoss \in {"loss", "half", "win"}
              /\ o.winLoss = "win"  => 10 * data[j].high >= 16 * a.close
              /\ o.winLoss # "win"  => 10 * data[j].high <= 16 * a.close
              /\ o.winLoss = "half" => data[j].high >= a.close + 10
              /\ o.winLoss = "loss" => data[j].high <= a.close + 10
              /\ o.timeToWin = IF data[j].high > a.close THEN data[j].time - a.time ELSE 0
  <2>1. j \in k .. l /\ j \in reached
    BY <1>7, <1>12
  <2> DEFINE m == j - k + 1
  <2>2. m \in 1 .. Len(w) /\ w[m] = data[j] /\ Reaches(m, w, a.close, even)
    BY <1>4, <1>9, <1>11, <2>1
  <2>3. \A i \in 1 .. Len(w) : Reaches(i, w, a.close, even) =>
          w[i].high < w[m].high \/ (w[i].high = w[m].high /\ i >= m)
    <3> TAKE i \in 1 .. Len(w)
    <3> HAVE Reaches(i, w, a.close, even)
    <3>1. i + k - 1 \in k .. l /\ (i + k - 1) - k + 1 = i /\ w[i] = data[i + k - 1]
      BY <1>4, <1>9
    <3>2. i + k - 1 \in reached
      BY <1>11, <3>1
    <3>3. \/ data[i + k - 1].high < data[j].high
          \/ data[i + k - 1].high = data[j].high /\ i + k - 1 >= j
      BY <1>12, <3>2
    <3> QED
      BY <1>4, <2>1, <2>2, <3>1, <3>3
  <2> DEFINE o == r.outcome
  <2>4. o = Outcome(a, Scan(w, a.close, even), evenHigh)
    BY <1>10
  <2> HIDE DEF m, o
  <2>5. /\ o.winLoss \in {"loss", "half", "win"}
        /\ o.winLoss = "win"  => 10 * w[m].high >= 16 * a.close
        /\ o.winLoss # "win"  => 10 * w[m].high <= 16 * a.close
        /\ o.winLoss = "half" => w[m].high >= a.close + 10
        /\ o.winLoss = "loss" => w[m].high <= a.close + 10
        /\ o.timeToWin = IF w[m].high > a.close THEN w[m].time - a.time ELSE 0
    <3>1. w \in Seq(Candles) /\ a \in Alerts
      BY <1>2, <1>9
    <3> HIDE DEF best, reached, lost
    <3> QED
      BY <2>2, <2>3, <2>4, <3>1, Judged
  <2> QED
    BY <2>2, <2>5 DEF o
<1> QED
  BY <1>2, <1>4, <1>5, <1>8, <1>12 DEF r, a, data, seen, size

-----------------------------------------------------------------------------
(* The reports stay about their bars.                                      *)

\* A contract's bars stay where they are (updateData).
LEMMA BarsPrefix ==
  ASSUME StreamInv, [Next]_vars, NEW c \in Contracts
  PROVE  /\ bars[c] \in Seq(Candles) /\ bars'[c] \in Seq(Candles)
         /\ Len(bars[c]) \in Nat /\ Len(bars'[c]) \in Nat /\ Len(bars[c]) <= Len(bars'[c])
         /\ \A i \in 1 .. Len(bars[c]) : bars'[c][i] = bars[c][i]
<1>1. /\ bars[c] \in Seq(Candles) /\ bars'[c] \in Seq(Candles)
      /\ Len(bars[c]) \in Nat /\ Len(bars'[c]) \in Nat /\ Len(bars[c]) <= Len(bars'[c])
  BY StreamStep, BarsLonger DEF StreamInv
<1>2. CASE bars' = bars
  BY <1>1, <1>2
<1>3. ASSUME NEW d \in Contracts, NEW bar \in BarsOf[d], updateData(d, bar)
      PROVE  \A i \in 1 .. Len(bars[c]) : bars'[c][i] = bars[c][i]
  <2>1. bars' = [bars EXCEPT ![d] = Append(@, [time |-> now, high |-> bar.high,
                                               low |-> bar.low, close |-> bar.close])]
    BY <1>3 DEF updateData
  <2> QED
    BY <1>1, <2>1 DEF StreamInv
<1> QED
  BY <1>1, <1>2, <1>3 DEF Next, vars, mainVars, MainThread, AlertThread, tick, inputAlert,
     dataUpdated, doneCheckingAlerts, Goto, outerTest, innerTest, ageTest,
     candlesLast30Minutes, candlesCopied, checkWinStats, pop, popAgainstPush

\* A range of a sequence is that of a longer one.
LEMMA SameRange ==
  ASSUME NEW S, NEW s \in Seq(S), NEW t \in Seq(S), Len(s) <= Len(t),
         \A i \in 1 .. Len(s) : t[i] = s[i],
         NEW k \in 1 .. Len(s), NEW l \in 1 .. Len(s), k <= l
  PROVE  SubSeq(t, k, l) = SubSeq(s, k, l)
<1> DEFINE u == SubSeq(s, k, l)
           v == SubSeq(t, k, l)
<1>1. Len(s) \in Nat /\ Len(t) \in Nat /\ k \in 1 .. Len(t) /\ l \in 1 .. Len(t)
  OBVIOUS
<1>2. u \in Seq(S) /\ Len(u) = l - k + 1 /\ \A i \in 1 .. l - k + 1 : u[i] = s[k + i - 1]
  BY <1>1
<1>3. v \in Seq(S) /\ Len(v) = l - k + 1 /\ \A i \in 1 .. l - k + 1 : v[i] = t[k + i - 1]
  BY <1>1
<1>4. \A i \in 1 .. l - k + 1 : k + i - 1 \in 1 .. Len(s)
  BY <1>1
<1> HIDE DEF u, v
<1> QED
  BY <1>2, <1>3, <1>4, SeqEqual DEF u, v

\* The end of a range is a range.
LEMMA RangeOfRange ==
  ASSUME NEW S, NEW s \in Seq(S), NEW f \in 1 .. Len(s), NEW l \in 1 .. Len(s), f <= l,
         NEW m \in 1 .. l - f + 1
  PROVE  SubSeq(SubSeq(s, f, l), m, l - f + 1) = SubSeq(s, f + m - 1, l)
<1>1. l - f + 1 \in 1 .. l - f + 1 /\ f + (l - f + 1) - 1 = l
  OBVIOUS
<1>2. SubSeq(SubSeq(s, f, l), m, l - f + 1) = SubSeq(s, f + m - 1, f + (l - f + 1) - 1)
  BY <1>1, SubSeqOfSubSeq
<1> QED
  BY <1>1, <1>2

\* The main thread leaves the head of the queue alone.
LEMMA HeadStays ==
  ASSUME QueueInv, StreamInv, alertUpdateQueue # <<>>, tick \/ MainThread \/ UNCHANGED vars
  PROVE  Head(alertUpdateQueue') = Head(alertUpdateQueue)
<1>1. alertUpdateQueue \in Seq(Alerts \cup {Phantom})
  BY DEF QueueInv
<1>2. CASE inputAlert
  <2>1. alertUpdateQueue' = Append(alertUpdateQueue, NextAlert) /\ NextAlert \in Alerts
    BY <1>2, NextAlertType DEF inputAlert
  <2> QED
    BY <1>1, <2>1, BehindHead
<1>3. CASE ~ inputAlert
  BY <1>3 DEF tick, MainThread, updateData, dataUpdated, doneCheckingAlerts, vars
<1> QED
  BY <1>2, <1>3

\* The window stays what is left of the last half hour.
LEMMA CopyStep ==
  ASSUME IInv, CopyInv, [Next]_vars
  PROVE  CopyInv'
<1> DEFINE q == alertUpdateQueue
           c == Head(q).contract
           data == bars[c]
<1>1. QueueInv /\ StreamInv
  BY DEF IInv
<1>2. ASSUME pc \in {"read", "copy", "check"}
      PROVE  /\ q # <<>> /\ Head(q) \in Alerts /\ c \in Contracts /\ data \in Seq(Candles)
             /\ Len(data) \in Nat /\ HalfHour \in Nat \ {0}
  <2>1. q # <<>> /\ Head(q) \in Alerts
    BY <1>1, <1>2 DEF QueueInv, Holding, Judging
  <2>2. c \in Contracts
    BY <2>1 DEF Alerts
  <2> QED
    BY <1>1, <2>1, <2>2, BarsType, HandlerAssumption
<1>3. CASE pc' \notin {"copy", "check"}
  BY <1>3 DEF CopyInv
<1>4. CASE candlesLast30Minutes
  <2>1. pc = "read" /\ pc' = "copy" /\ q' = q /\ bars' = bars
    BY <1>4 DEF candlesLast30Minutes, Goto, mainVars
  <2>2. from' # 0 => from' + HalfHour = Len(data) + 1
    BY <1>2, <1>4, <2>1 DEF candlesLast30Minutes
  <2> QED
    BY <1>2, <2>1, <2>2 DEF CopyInv, HeadBars
<1>5. CASE candlesCopied
  <2>1. pc = "copy" /\ pc' # "copy" /\ q' = q /\ bars' = bars
    BY <1>5 DEF candlesCopied, mainVars
  <2>2. prevCandles' = IF from = 0 THEN <<>> ELSE SubSeq(data, from, Len(data))
    BY <1>5 DEF candlesCopied
  <2>3. ASSUME from # 0
        PROVE  /\ from \in 1 .. Len(data) /\ Len(data) \in 1 .. Len(data)
               /\ from + HalfHour <= Len(data) + 1
    BY <1>2, <2>1, <2>3 DEF IInv, WindowInv, CopyInv, HeadBars
  <2>4. prevCandles' # <<>> =>
          \E f, l \in 1 .. Len(data) :
            f + HalfHour <= l + 1 /\ prevCandles' = SubSeq(data, f, l)
    BY <2>2, <2>3
  <2> QED
    BY <2>1, <2>4 DEF CopyInv, HeadBars
<1>6. CASE (tick \/ MainThread \/ UNCHANGED vars) /\ pc' \in {"copy", "check"}
  <2>1. UNCHANGED <<pc, from, prevCandles>>
    BY <1>6 DEF tick, MainThread, updateData, inputAlert, dataUpdated, doneCheckingAlerts,
       threadVars, vars
  <2>2. Head(q') = Head(q)
    BY <1>1, <1>2, <1>6, <2>1, HeadStays
  <2> DEFINE later == bars'[c]
  <2>3. /\ later \in Seq(Candles) /\ Len(later) \in Nat /\ Len(data) <= Len(later)
        /\ \A i \in 1 .. Len(data) : later[i] = data[i]
    BY <1>1, <1>2, <1>6, <2>1, BarsPrefix
  <2>4. HeadBars' = later
    BY <2>2 DEF HeadBars
  <2>5. CASE pc = "copy"
    BY <1>2, <2>1, <2>3, <2>4, <2>5 DEF CopyInv, HeadBars, IInv, WindowInv
  <2>6. CASE pc = "check"
    <3>1. SUFFICES ASSUME prevCandles # <<>>
                   PROVE  \E f, l \in 1 .. Len(later) :
                            f + HalfHour <= l + 1 /\ prevCandles = SubSeq(later, f, l)
      BY <2>1, <2>4, <2>6 DEF CopyInv
    <3>2. PICK f, l \in 1 .. Len(data) :
            f + HalfHour <= l + 1 /\ prevCandles = SubSeq(data, f, l)
      BY <2>6, <3>1 DEF CopyInv, HeadBars
    <3>3. f <= l /\ f \in 1 .. Len(later) /\ l \in 1 .. Len(later)
      BY <1>2, <2>3, <2>6, <3>2
    <3> HIDE DEF data, later
    <3>4. SubSeq(later, f, l) = SubSeq(data, f, l)
      BY <1>2, <2>3, <2>6, <3>2, <3>3, SameRange
    <3> QED
      BY <3>2, <3>3, <3>4
  <2> QED
    BY <1>6, <2>1, <2>5, <2>6
<1>7. CASE outerTest \/ innerTest \/ ageTest \/ checkWinStats \/ pop \/ popAgainstPush
  BY <1>3, <1>7 DEF outerTest, innerTest, ageTest, checkWinStats, pop, popAgainstPush, Goto
<1> QED
  BY <1>3, <1>4, <1>5, <1>6, <1>7 DEF Next, AlertThread

\* A report stays about its bars.
LEMMA AboutStays ==
  ASSUME StreamInv, [Next]_vars, NEW r, r.alert \in Alerts,
         NEW k \in 1 .. Len(bars[r.alert.contract]), NEW l \in 1 .. Len(bars[r.alert.contract]),
         AboutBars(r, k, l)
  PROVE  /\ k \in 1 .. Len(bars'[r.alert.contract]) /\ l \in 1 .. Len(bars'[r.alert.contract])
         /\ AboutBars(r, k, l)'
<1> DEFINE c == r.alert.contract
           data == bars[c]
           later == bars'[c]
<1>1. c \in Contracts
  BY DEF Alerts
<1>2. /\ data \in Seq(Candles) /\ later \in Seq(Candles)
      /\ Len(data) \in Nat /\ Len(later) \in Nat /\ Len(data) <= Len(later)
      /\ \A i \in 1 .. Len(data) : later[i] = data[i]
  BY <1>1, BarsPrefix
<1>3. /\ k <= l /\ r.since = data[k].time /\ r.upTo = data[l].time
      /\ r.alert.time <= data[k].time
      /\ \A j \in 1 .. k - 1 :
           data[j].time < r.alert.time \/ data[j].time <= data[l].time - HalfHour
      /\ Tells(r.outcome, r.alert, SubSeq(data, k, l))
  BY DEF AboutBars
<1>4. k \in 1 .. Len(data) /\ l \in 1 .. Len(data)
  OBVIOUS
<1>5. SubSeq(later, k, l) = SubSeq(data, k, l)
  <2> HIDE DEF data, later
  <2> QED
    BY <1>2, <1>3, <1>4, SameRange
<1>6. \A j \in 1 .. k - 1 : later[j] = data[j]
  BY <1>2, <1>4
<1>7. later[k] = data[k] /\ later[l] = data[l]
  BY <1>2, <1>4
<1>8. k \in 1 .. Len(later) /\ l \in 1 .. Len(later)
  BY <1>2, <1>4
<1>9. AboutBars(r, k, l)' =
        /\ k <= l /\ r.since = later[k].time /\ r.upTo = later[l].time
        /\ r.alert.time <= later[k].time
        /\ \A j \in 1 .. k - 1 :
             later[j].time < r.alert.time \/ later[j].time <= later[l].time - HalfHour
        /\ Tells(r.outcome, r.alert, SubSeq(later, k, l))
  BY DEF AboutBars
<1> HIDE DEF data, later
<1> QED
  BY <1>3, <1>5, <1>6, <1>7, <1>8, <1>9 DEF later

\* The report of checkWinStats is about the bars of its half hour: the search leaves out
\* older ones, and those the window leaves out are half an hour before its last.
LEMMA NewReport ==
  ASSUME IInv, CopyInv, pc = "check",
         NEW a, a = Head(alertUpdateQueue),
         NEW w, w = SinceAlert(a, prevCandles), w # <<>>,
         NEW o, Tells(o, a, w),
         NEW r, r = [alert |-> a, since |-> w[1].time, upTo |-> w[Len(w)].time, outcome |-> o]
  PROVE  /\ a \in Alerts /\ a.time + HalfHour <= now
         /\ \E k, l \in 1 .. Len(bars[a.contract]) : AboutBars(r, k, l)
<1> DEFINE data == bars[a.contract]
           newer == {i \in DOMAIN prevCandles : prevCandles[i].time >= a.time}
           m == CHOOSE i \in newer : \A j \in newer : i <= j
<1>1. /\ a \in Alerts /\ a.contract \in Contracts /\ a.time \in Nat /\ Elapsed(a)
      /\ StreamInv
  <2>1. a \in Alerts /\ Elapsed(a) /\ StreamInv
    BY DEF IInv, QueueInv, WindowInv, Judging
  <2> QED
    BY <2>1, HandlerAssumption DEF Alerts, Times
<1>2. /\ data \in Seq(Candles) /\ Len(data) \in Nat /\ now \in Nat /\ HalfHour \in Nat
      /\ \A i \in 1 .. Len(data) : data[i].time \in Nat
  BY <1>1, BarsType, HandlerAssumption
<1>3. newer # {} /\ w = SubSeq(prevCandles, m, Len(prevCandles))
  BY DEF SinceAlert
<1>4. prevCandles # <<>>
  BY <1>3
<1>5. PICK f, l \in 1 .. Len(data) :
        f + HalfHour <= l + 1 /\ prevCandles = SubSeq(data, f, l)
  BY <1>4 DEF CopyInv, HeadBars
<1> DEFINE size == l - f + 1
           k == f + m - 1
<1>6. f <= l /\ f \in 1 .. Len(data) /\ l \in 1 .. Len(data)
  BY <1>2, <1>5, HandlerAssumption
<1> HIDE DEF data
<1>7. /\ prevCandles \in Seq(Candles) /\ Len(prevCandles) = size /\ size \in Nat
      /\ DOMAIN prevCandles = 1 .. size
      /\ \A i \in 1 .. size : prevCandles[i] = data[f + i - 1]
  BY <1>2, <1>5, <1>6
<1>8. m \in newer /\ \A j \in newer : m <= j
  <2>1. newer \in SUBSET Nat
    BY <1>7
  <2> HIDE DEF newer
  <2> QED
    BY <1>3, <2>1, LeastElement
<1> HIDE DEF m
<1>9. /\ m \in 1 .. size /\ prevCandles[m].time >= a.time
      /\ \A j \in 1 .. m - 1 : ~ (prevCandles[j].time >= a.time)
  <2>1. m \in 1 .. size /\ prevCandles[m].time >= a.time
    BY <1>7, <1>8
  <2>2. ASSUME NEW j \in 1 .. m - 1  PROVE ~ (prevCandles[j].time >= a.time)
    <3>1. j \in 1 .. size /\ ~ (m <= j)
      BY <1>7, <2>1
    <3>2. j \notin newer
      BY <1>8, <3>1
    <3> QED
      BY <1>7, <3>1, <3>2
  <2> QED
    BY <2>1, <2>2
<1> HIDE DEF newer
<1>10. k \in 1 .. Len(data) /\ k <= l /\ f <= k
  BY <1>2, <1>6, <1>7, <1>9
<1>11. w = SubSeq(data, k, l)
  <2>1. m \in 1 .. l - f + 1 /\ f \in 1 .. Len(data) /\ l \in 1 .. Len(data) /\ f <= l
    BY <1>6, <1>9
  <2>2. SubSeq(SubSeq(data, f, l), m, l - f + 1) = SubSeq(data, f + m - 1, l)
    BY <1>2, <2>1, RangeOfRange
  <2>3. w = SubSeq(prevCandles, m, l - f + 1) /\ prevCandles = SubSeq(data, f, l)
    BY <1>3, <1>5, <1>7 DEF data
  <2> QED
    BY <2>2, <2>3
<1>12. w[1] = data[k] /\ w[Len(w)] = data[l]
  <2> HIDE DEF k
  <2> QED
    BY <1>2, <1>10, <1>11
<1>13. data[k].time >= a.time
  BY <1>7, <1>9
<1>14. ASSUME NEW j \in 1 .. k - 1
       PROVE  data[j].time < a.time \/ data[j].time <= data[l].time - HalfHour
  <2>1. j \in 1 .. Len(data) /\ data[j].time \in Nat /\ data[l].time \in Nat
    BY <1>2, <1>10
  <2>2. CASE j >= f
    <3>1. j - f + 1 \in 1 .. m - 1 /\ j - f + 1 \in 1 .. size /\ f + (j - f + 1) - 1 = j
      BY <1>5, <1>9, <2>2
    <3>2. ~ (data[j].time >= a.time)
      BY <1>7, <1>9, <3>1
    <3> QED
      BY <1>1, <2>1, <3>2
  <2>3. CASE ~ (j >= f)
    <3>1. l \in j .. Len(data) /\ l - j >= HalfHour
      BY <1>2, <1>5, <1>6, <2>3
    <3>2. data[l].time - data[j].time >= l - j
      BY <1>1, <2>1, <3>1, Apart DEF data
    <3> QED
      BY <1>2, <1>5, <2>1, <3>1, <3>2
  <2> QED
    BY <2>2, <2>3
<1>15. r.alert = a /\ r.since = data[k].time /\ r.upTo = data[l].time
       /\ Tells(r.outcome, a, SubSeq(data, k, l))
  BY <1>11, <1>12
<1>16. a.time <= data[k].time
  BY <1>1, <1>2, <1>10, <1>13
<1>17. AboutBars(r, k, l)
  <2> HIDE DEF k
  <2> QED
    BY <1>10, <1>14, <1>15, <1>16 DEF AboutBars, data
<1>18. a.time + HalfHour <= now
  BY <1>1, <1>2 DEF Elapsed
<1> QED
  BY <1>1, <1>5, <1>10, <1>17, <1>18 DEF data

\* Every report stays exact, and so is the next one.
LEMMA ReportStep ==
  ASSUME IInv, CopyInv, ReportInv, [Next]_vars
  PROVE  ReportInv'
<1>1. /\ StreamInv /\ now \in Nat /\ HalfHour \in Nat /\ now' \in Nat /\ now <= now'
  <2>1. StreamInv /\ now \in Nat
    BY HandlerAssumption DEF IInv, StreamInv, Times
  <2>2. now' = now \/ now' = now + 1
    BY DEF Next, vars, mainVars, MainThread, AlertThread, tick, updateData, inputAlert,
       dataUpdated, doneCheckingAlerts, Goto, outerTest, innerTest, ageTest,
       candlesLast30Minutes, candlesCopied, checkWinStats, pop, popAgainstPush
  <2> QED
    BY <2>1, <2>2, HandlerAssumption
<1>2. ASSUME NEW i \in DOMAIN reported, NEW r, r = reported[i]
      PROVE  IsOfItsBars(r)'
  <2>1. r.alert \in Alerts /\ r.alert.time + HalfHour <= now
    BY <1>2 DEF ReportInv, IsOfItsBars
  <2>2. r.alert.time \in Nat
    BY <2>1, HandlerAssumption DEF Alerts, Times
  <2>3. PICK k, l \in 1 .. Len(bars[r.alert.contract]) : AboutBars(r, k, l)
    BY <1>2 DEF ReportInv, IsOfItsBars
  <2>4. /\ k \in 1 .. Len(bars'[r.alert.contract]) /\ l \in 1 .. Len(bars'[r.alert.contract])
        /\ AboutBars(r, k, l)'
    BY <1>1, <2>1, <2>3, AboutStays
  <2> QED
    BY <1>1, <2>1, <2>2, <2>4 DEF IsOfItsBars
<1>3. ASSUME \A i \in DOMAIN reported' : \A r : r = reported'[i] => IsOfItsBars(r)'
      PROVE  ReportInv'
  BY <1>3 DEF ReportInv, IsOfItsBars, AboutBars
<1>4. CASE UNCHANGED reported
  BY <1>2, <1>3, <1>4
<1>5. CASE checkWinStats
  <2>1. PICK a, w : a = Head(alertUpdateQueue) /\ w = SinceAlert(a, prevCandles)
    OBVIOUS
  <2>2. CASE UNCHANGED reported
    BY <1>4, <2>2
  <2>3. pc = "check" /\ now' = now /\ bars' = bars
    BY <1>5 DEF checkWinStats, Goto, mainVars
  <2>4. ASSUME NEW o, NEW new, w # <<>>, Tells(o, a, w),
               new = [alert |-> a, since |-> w[1].time, upTo |-> w[Len(w)].time, outcome |-> o],
               reported' = Append(reported, new)
        PROVE  ReportInv'
    <3>1. /\ a \in Alerts /\ a.time + HalfHour <= now
          /\ \E k, l \in 1 .. Len(bars[a.contract]) : AboutBars(new, k, l)
      BY <2>1, <2>3, <2>4, NewReport
    <3>2. new.alert = a
      BY <2>4
    <3>3. IsOfItsBars(new)'
      BY <2>3, <3>1, <3>2 DEF IsOfItsBars, AboutBars
    <3>4. /\ DOMAIN reported' = DOMAIN reported \cup {Len(reported) + 1}
          /\ \A i \in DOMAIN reported : reported'[i] = reported[i]
          /\ reported'[Len(reported) + 1] = new
      <4>1. PICK S : reported \in Seq(S)
        BY DEF IInv, QueueInv
      <4> QED
        BY <2>4, <4>1
    <3> QED
      BY <1>2, <1>3, <3>3, <3>4
  <2>5. CASE ~ UNCHANGED reported
    <3>1. PICK evenLow, evenHigh \in BOOLEAN :
            /\ w # <<>>
            /\ reported' = Append(reported,
                 [alert |-> a, since |-> w[1].time, upTo |-> w[Len(w)].time,
                  outcome |-> Outcome(a, Scan(w, a.close, evenLow), evenHigh)])
      BY <1>5, <2>1, <2>5 DEF checkWinStats
    <3>2. Tells(Outcome(a, Scan(w, a.close, evenLow), evenHigh), a, w)
      BY DEF Tells
    <3> QED
      BY <2>4, <3>1, <3>2
  <2> QED
    BY <2>2, <2>5
<1> QED
  BY <1>4, <1>5 DEF Next, vars, threadVars, MainThread, AlertThread, tick, updateData, inputAlert,
     dataUpdated, doneCheckingAlerts, Goto, outerTest, innerTest, ageTest,
     candlesLast30Minutes, candlesCopied, pop, popAgainstPush

\* Every outcome is that of the half hour after its alert, whatever the bars, the
\* contracts, the length of half an hour and the interleaving of the two threads.
THEOREM OutcomesAreExact == Spec => []OutcomesExact
<1> DEFINE Inv == IInv /\ CopyInv /\ ReportInv
<1>1. Init => Inv
  BY Initially DEF Init, CopyInv, ReportInv
<1>2. Inv /\ [Next]_vars => Inv'
  BY Inductive, CopyStep, ReportStep
<1>3. Inv => OutcomesExact
  BY ReportIsExact
<1> QED
  BY <1>1, <1>2, <1>3, PTL DEF Spec
=============================================================================
