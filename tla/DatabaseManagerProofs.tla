------------------------ MODULE DatabaseManagerProofs ------------------------
(***************************************************************************)
(* Proofs about DatabaseManager, for every number of bars, frames and      *)
(* option candles: type correctness and the age of waiting candles with    *)
(* every fault, the rest without faults.                                   *)
(***************************************************************************)
EXTENDS DatabaseManager, WellFoundedInduction, TLAPS

-----------------------------------------------------------------------------
(* Lemmas.                                                                 *)

\* A set of times that is not empty has a latest one, which SELECT MAX finds.
LEMMA LatestTime ==
  ASSUME NEW S, S \subseteq Times, S # {}
  PROVE  Latest(S) \in S /\ \A t \in S : t <= Latest(S)
<1> DEFINE left == {MaxTime - t : t \in S}
<1>1. MaxTime \in Nat /\ \A t \in S : t \in Nat /\ MaxTime - t \in Nat
  BY SizesAssumption DEF Times
<1>2. left \subseteq Nat /\ left # {}
  BY <1>1
<1>3. PICK least \in left : \A m \in left : ~ (<<m, least>> \in OpToRel(<, Nat))
  BY <1>2, WFMin, NatLessThanWellFounded, Zenon
<1>4. PICK t \in S : least = MaxTime - t
  BY <1>3
<1>5. \A u \in S : u <= t
  <2> TAKE u \in S
  <2>1. MaxTime - u \in left /\ MaxTime - u \in Nat /\ least \in Nat
    BY <1>1, <1>2, <1>3
  <2>2. ~ (MaxTime - u < least)
    BY <1>3, <2>1 DEF OpToRel
  <2> QED
    BY <1>1, <1>4, <2>1, <2>2
<1> QED
  BY <1>5 DEF Latest

\* What a pop leaves of a sequence.
LEMMA PopFacts ==
  ASSUME NEW S, NEW s \in Seq(S), s # <<>>
  PROVE  /\ Tail(s) \in Seq(S) /\ Len(Tail(s)) = Len(s) - 1 /\ Len(s) \in Nat \ {0}
         /\ Head(s) = s[1] /\ s[1] \in S
         /\ \A i \in 1 .. Len(Tail(s)) : i + 1 \in 1 .. Len(s) /\ Tail(s)[i] = s[i + 1]
OBVIOUS

\* What a push leaves of a sequence.
LEMMA PushFacts ==
  ASSUME NEW S, NEW s \in Seq(S), NEW e \in S
  PROVE  /\ Append(s, e) \in Seq(S) /\ Len(Append(s, e)) = Len(s) + 1 /\ Len(s) \in Nat
         /\ Append(s, e) # <<>>
         /\ s # <<>> => Head(Append(s, e)) = Head(s)
         /\ Append(s, e)[Len(s) + 1] = e
         /\ \A i \in 1 .. Len(s) : Append(s, e)[i] = s[i] /\ s[i] \in S
<1>1. /\ Append(s, e) \in Seq(S) /\ Len(Append(s, e)) = Len(s) + 1 /\ Len(s) \in Nat
      /\ Append(s, e) # <<>>
      /\ Append(s, e)[Len(s) + 1] = e
      /\ \A i \in 1 .. Len(s) : Append(s, e)[i] = s[i] /\ s[i] \in S
  OBVIOUS
<1>2. ASSUME s # <<>>  PROVE Head(Append(s, e)) = Head(s)
  BY <1>1, <1>2
<1> QED
  BY <1>1, <1>2

\* A contract's candles come in order, so each of them comes once.
LEMMA NewCandle ==
  ASSUME NEW c \in OptionCandles, NEW significant, alertCallback(c, significant)
  PROVE  c \notin alerts
<1>1. c.time \in Int
  BY SizesAssumption DEF OptionCandles, Times
<1>2. c \in alerts => c.time < c.time
  BY DEF alertCallback
<1> QED
  BY <1>1, <1>2

-----------------------------------------------------------------------------
(* Type correctness.                                                       *)

\* Between its test and the pop the insertion thread has a candle at the head.
HeadInv ==
  pc \in {"postUnderlying", "pop"} =>
    underlyingQueue # <<>> /\ Head(underlyingQueue) \in UnderlyingCandles

\* The elements of the underlying's queue.
Elements == UnderlyingCandles \cup {Phantom}

\* The candle pushed next is of the right type.
LEMMA NextUnderlyingType ==
  ASSUME TypeOK, CanPushUnderlying
  PROVE  nextUnderlying \in UnderlyingCandles /\ framesPushed + 1 \in 1 .. Frames
BY SizesAssumption DEF TypeOK, CanPushUnderlying, nextUnderlying, UnderlyingCandles

\* UnixTable::post leaves times in the table and a time or -1 as its answer.
LEMMA InsertUnixType ==
  ASSUME TypeOK, NEW t \in Times, NEW inserted \in BOOLEAN, NEW queried \in BOOLEAN,
         insertUnix(t, inserted, queried)
  PROVE  /\ unixRows \subseteq unixRows' /\ unixRows' \subseteq unixRows \cup {t}
         /\ unixRows' \subseteq Times
         /\ prevUnixTime' = -1 \/ prevUnixTime' \in unixRows'
<1>1. unixRows' \subseteq Times /\ unixRows \subseteq unixRows'
      /\ unixRows' \subseteq unixRows \cup {t}
  BY DEF TypeOK, insertUnix
<1>2. CASE inserted /\ t \notin unixRows /\ queried
  <2>1. t \in unixRows' /\ prevUnixTime' = Latest(unixRows')
    BY <1>2 DEF insertUnix
  <2> QED
    BY <1>1, <2>1, LatestTime
<1>3. CASE ~(inserted /\ t \notin unixRows /\ queried)
  BY <1>1, <1>3 DEF insertUnix
<1> QED
  BY <1>1, <1>2, <1>3

\* The three outcomes of a pop that meets a push.
LEMMA PopAgainstPushType ==
  ASSUME TypeOK, HeadInv, popAgainstPush
  PROVE  underlyingQueue' \in Seq(Elements)
<1> DEFINE rest == Tail(underlyingQueue)
<1>1. nextUnderlying \in Elements /\ Phantom \in Elements
  BY NextUnderlyingType DEF popAgainstPush, Elements
<1>2. rest \in Seq(Elements)
  BY PopFacts DEF popAgainstPush, HeadInv, TypeOK, Elements
<1>3. /\ Append(rest, nextUnderlying) \in Seq(Elements)
      /\ Append(Append(rest, nextUnderlying), Phantom) \in Seq(Elements)
  BY <1>1, <1>2, PushFacts
<1> QED
  BY <1>2, <1>3 DEF popAgainstPush

\* A step of the producers.
LEMMA ProducersType ==
  ASSUME TypeOK, HeadInv, Producers
  PROVE  TypeOK' /\ HeadInv'
<1> USE DEF mainVars, queueVars, threadVars, tableVars, alertVars
<1>1. CASE pushUnderlying
  <2>1. nextUnderlying \in UnderlyingCandles /\ framesPushed + 1 \in 0 .. Frames
    BY <1>1, NextUnderlyingType, SizesAssumption DEF pushUnderlying
  <2>2. /\ Append(underlyingQueue, nextUnderlying) \in Seq(UnderlyingCandles \cup {Phantom})
        /\ Append(underlyingQueue, nextUnderlying) # <<>>
        /\ underlyingQueue # <<>> =>
             Head(Append(underlyingQueue, nextUnderlying)) = Head(underlyingQueue)
    BY <2>1, PushFacts DEF TypeOK
  <2> QED
    BY <1>1, <2>1, <2>2 DEF TypeOK, HeadInv, pushUnderlying
<1>2. CASE beginOptions
  BY <1>2 DEF TypeOK, HeadInv, beginOptions
<1>3. CASE nextBar
  <2>1. now' \in Times
    BY <1>3, SizesAssumption DEF TypeOK, nextBar, NextTimes, Times
  <2> QED
    BY <1>3, <2>1, SizesAssumption DEF TypeOK, HeadInv, nextBar
<1>4. ASSUME NEW c \in OptionCandles, NEW significant \in BOOLEAN,
             alertCallback(c, significant)
      PROVE  TypeOK' /\ HeadInv'
  <2>1. now \in 0 .. MaxTime
    BY SizesAssumption DEF TypeOK, Times
  <2>2. batchOf' \in [OptionCandles -> 0 .. MaxTime]
    BY <1>4, <2>1 DEF TypeOK, alertCallback
  <2> QED
    BY <1>4, <2>2 DEF TypeOK, HeadInv, alertCallback
<1>5. ASSUME NEW c \in OptionCandles, pushResult(c)  PROVE TypeOK' /\ HeadInv'
  BY <1>5 DEF TypeOK, HeadInv, pushResult
<1>6. CASE stop
  BY <1>6 DEF TypeOK, HeadInv, stop
<1> QED
  BY <1>1, <1>2, <1>3, <1>4, <1>5, <1>6 DEF Producers

\* A step of the insertion thread.
LEMMA InsertionType ==
  ASSUME TypeOK, HeadInv, InsertionThread
  PROVE  TypeOK' /\ HeadInv'
<1> USE DEF mainVars, queueVars, threadVars, tableVars, alertVars
<1>1. CASE postUnix
  <2> DEFINE t == Head(underlyingQueue).time
  <2>1. Head(underlyingQueue) \in UnderlyingCandles /\ underlyingQueue # <<>>
    BY <1>1, PopFacts DEF postUnix, TypeOK
  <2>2. t \in Times
    BY <2>1 DEF UnderlyingCandles
  <2>3. unixRows' \subseteq Times /\ prevUnixTime' \in Times \cup {-1}
    <3>1. CASE t # prevUnixTime
      <4>1. PICK inserted, queried \in DbOutcomes : insertUnix(t, inserted, queried)
        BY <1>1, <3>1 DEF postUnix
      <4>2. inserted \in BOOLEAN /\ queried \in BOOLEAN
        BY <4>1 DEF DbOutcomes
      <4> QED
        BY <2>2, <4>1, <4>2, InsertUnixType
    <3>2. CASE t = prevUnixTime
      BY <1>1, <3>2 DEF postUnix, TypeOK
    <3> QED
      BY <3>1, <3>2
  <2> QED
    BY <1>1, <2>1, <2>3 DEF TypeOK, HeadInv, postUnix
<1>2. CASE readPhantom \/ noUnderlying \/ stopCheck
  BY <1>2 DEF TypeOK, HeadInv, readPhantom, noUnderlying, stopCheck
<1>3. CASE postUnderlying
  BY <1>3 DEF TypeOK, HeadInv, postUnderlying
<1>4. CASE popUnderlying
  BY <1>4, PopFacts DEF TypeOK, HeadInv, popUnderlying
<1>5. CASE popAgainstPush
  <2>1. framesPushed' \in 0 .. Frames
    BY <1>5, NextUnderlyingType, SizesAssumption DEF popAgainstPush
  <2> QED
    BY <1>5, <2>1, PopAgainstPushType DEF TypeOK, HeadInv, popAgainstPush, Elements
<1>6. CASE drainOptions
  BY <1>6 DEF TypeOK, HeadInv, drainOptions, Due
<1>7. CASE postOptions
  BY <1>7 DEF TypeOK, HeadInv, postOptions
<1>8. CASE takeResults
  BY <1>8 DEF TypeOK, HeadInv, takeResults
<1>9. ASSUME NEW c \in OptionCandles, takeAgainstPush(c)  PROVE TypeOK' /\ HeadInv'
  BY <1>9 DEF TypeOK, HeadInv, takeAgainstPush
<1>10. CASE postResults
  BY <1>10 DEF TypeOK, HeadInv, postResults
<1> QED
  BY <1>1, <1>2, <1>3, <1>4, <1>5, <1>6, <1>7, <1>8, <1>9, <1>10 DEF InsertionThread

LEMMA NextType ==
  ASSUME TypeOK, HeadInv, [Next]_vars
  PROVE  TypeOK' /\ HeadInv'
<1>1. CASE UNCHANGED vars
  BY <1>1 DEF TypeOK, HeadInv, vars, mainVars, queueVars, threadVars, tableVars, alertVars
<1> QED
  BY <1>1, ProducersType, InsertionType DEF Next

LEMMA InitType == Init => TypeOK /\ HeadInv
<1>1. /\ 1 \in Times /\ 0 \in 0 .. Frames /\ 0 \in 0 .. MaxTime
      /\ <<>> \in Seq(UnderlyingCandles \cup {Phantom})
  BY SizesAssumption DEF Times
<1> QED
  BY <1>1 DEF Init, TypeOK, HeadInv

\* Every variable has its type, with every fault: lost pushes, elements that nobody wrote,
\* failed statements and bars of neighbouring times included.
THEOREM TypeCorrect == Spec => []TypeOK
<1>1. TypeOK /\ HeadInv /\ [Next]_vars => (TypeOK /\ HeadInv)'
  BY NextType
<1> QED
  BY InitType, <1>1, PTL DEF Spec

-----------------------------------------------------------------------------
(* The age of the candles that wait.                                       *)

\* Nothing of the underlying is newer than the bar of the main thread, so neither is the
\* time stored last; a candle that is due and waits came with no earlier bar than that.
AgeInv ==
  /\ \A i \in 1 .. Len(underlyingQueue) : underlyingQueue[i].time <= now
  /\ \A t \in unixRows : t <= now
  /\ prevUnixTime <= now
  /\ DueWaitsOneBar

IInv == TypeOK /\ HeadInv /\ AgeInv

\* The element a push adds is of this bar, and so are all that wait (updateData).
LEMMA PushAge ==
  ASSUME IInv, CanPushUnderlying, NEW q \in Seq(Elements),
         \A i \in 1 .. Len(q) : q[i].time <= now
  PROVE  \A i \in 1 .. Len(Append(q, nextUnderlying)) :
           Append(q, nextUnderlying)[i].time <= now
<1>1. nextUnderlying \in Elements /\ nextUnderlying.time = now /\ now \in Int
  BY NextUnderlyingType DEF IInv, TypeOK, Elements, nextUnderlying, Times
<1> QED
  BY <1>1, PushFacts

\* What is left after a pop is not newer.
LEMMA PopAge ==
  ASSUME IInv, pc = "pop"
  PROVE  /\ Tail(underlyingQueue) \in Seq(Elements)
         /\ \A i \in 1 .. Len(Tail(underlyingQueue)) : Tail(underlyingQueue)[i].time <= now
BY PopFacts DEF IInv, TypeOK, HeadInv, AgeInv, Elements

LEMMA PopAgainstPushAge ==
  ASSUME IInv, popAgainstPush
  PROVE  \A i \in 1 .. Len(underlyingQueue') : underlyingQueue'[i].time <= now
<1> DEFINE rest == Tail(underlyingQueue)
           longer == Append(rest, nextUnderlying)
<1>1. /\ rest \in Seq(Elements)
      /\ \A i \in 1 .. Len(rest) : rest[i].time <= now
  BY PopAge DEF popAgainstPush
<1>2. nextUnderlying \in Elements /\ Phantom \in Elements /\ Phantom.time = 0 /\ 0 <= now
  BY NextUnderlyingType DEF popAgainstPush, Elements, Phantom, IInv, TypeOK, Times
<1>3. /\ longer \in Seq(Elements)
      /\ \A i \in 1 .. Len(longer) : longer[i].time <= now
  BY <1>1, <1>2, PushFacts, PushAge DEF popAgainstPush
<1> HIDE DEF longer
<1>4. \A i \in 1 .. Len(Append(longer, Phantom)) : Append(longer, Phantom)[i].time <= now
  BY <1>2, <1>3, PushFacts
<1> QED
  BY <1>1, <1>3, <1>4 DEF popAgainstPush, longer

LEMMA ProducersAge ==
  ASSUME IInv, Producers
  PROVE  AgeInv'
<1> USE DEF mainVars, queueVars, threadVars, tableVars, alertVars
<1>1. CASE pushUnderlying
  <2>1. \A i \in 1 .. Len(underlyingQueue') : underlyingQueue'[i].time <= now
    BY <1>1, PushAge DEF pushUnderlying, IInv, TypeOK, AgeInv, Elements
  <2> QED
    BY <1>1, <2>1 DEF IInv, AgeInv, DueWaitsOneBar, pushUnderlying
<1>2. CASE beginOptions \/ stop
  BY <1>2 DEF IInv, AgeInv, DueWaitsOneBar, beginOptions, stop
<1>3. CASE nextBar
  <2>1. now' >= now /\ now \in Int /\ now' \in Int /\ prevUnixTime \in Int
    BY <1>3, SizesAssumption DEF IInv, TypeOK, nextBar, NextTimes, Times
  <2>2. \A i \in 1 .. Len(underlyingQueue) : underlyingQueue[i].time \in Int
    BY DEF IInv, TypeOK, UnderlyingCandles, Times, Phantom
  <2>3. \A t \in unixRows : t \in Int
    BY DEF IInv, TypeOK, Times
  <2> QED
    BY <1>3, <2>1, <2>2, <2>3 DEF IInv, AgeInv, DueWaitsOneBar, nextBar
<1>4. ASSUME NEW c \in OptionCandles, NEW significant \in BOOLEAN,
             alertCallback(c, significant)
      PROVE  AgeInv'
  <2>1. now \in Times /\ prevUnixTime <= now
    BY DEF IInv, TypeOK, AgeInv
  <2>2. /\ candlePriorityQueue' \subseteq candlePriorityQueue \cup {c}
        /\ batchOf' = [batchOf EXCEPT ![c] = now]
        /\ UNCHANGED <<unixTimeUpdated, prevUnixTime>>
    BY <1>4 DEF alertCallback
  <2>3. /\ batchOf'[c] = now
        /\ \A d \in candlePriorityQueue : d # c => batchOf'[d] = batchOf[d]
    BY <2>2 DEF IInv, TypeOK
  <2>4. DueWaitsOneBar'
    BY <2>1, <2>2, <2>3 DEF IInv, AgeInv, DueWaitsOneBar
  <2> QED
    BY <1>4, <2>4 DEF IInv, AgeInv, alertCallback
<1>5. ASSUME NEW c \in OptionCandles, pushResult(c)  PROVE AgeInv'
  BY <1>5 DEF IInv, AgeInv, DueWaitsOneBar, pushResult
<1> QED
  BY <1>1, <1>2, <1>3, <1>4, <1>5 DEF Producers

LEMMA InsertionAge ==
  ASSUME IInv, InsertionThread
  PROVE  AgeInv'
<1> USE DEF mainVars, queueVars, threadVars, tableVars, alertVars
<1>1. CASE postUnix
  <2> DEFINE t == Head(underlyingQueue).time
  <2>1. Head(underlyingQueue) \in UnderlyingCandles /\ Head(underlyingQueue) = underlyingQueue[1]
        /\ Len(underlyingQueue) >= 1
    BY <1>1, PopFacts DEF postUnix, IInv, TypeOK
  <2>2. t \in Times /\ t <= now
    BY <2>1 DEF UnderlyingCandles, IInv, AgeInv, TypeOK
  <2>3. (\A u \in unixRows' : u <= now) /\ prevUnixTime' <= now
    <3>1. CASE t # prevUnixTime
      <4>1. PICK inserted, queried \in DbOutcomes : insertUnix(t, inserted, queried)
        BY <1>1, <3>1 DEF postUnix
      <4>2. inserted \in BOOLEAN /\ queried \in BOOLEAN
        BY <4>1 DEF DbOutcomes
      <4>3. /\ unixRows' \subseteq unixRows \cup {t}
            /\ prevUnixTime' = -1 \/ prevUnixTime' \in unixRows'
        BY <2>2, <4>1, <4>2, InsertUnixType DEF IInv
      <4>4. \A u \in unixRows' : u <= now
        BY <2>2, <4>3 DEF IInv, AgeInv
      <4>5. now \in Int /\ -1 <= now
        BY SizesAssumption DEF IInv, TypeOK, Times
      <4> QED
        BY <4>3, <4>4, <4>5
    <3>2. CASE t = prevUnixTime
      BY <1>1, <3>2 DEF postUnix, IInv, AgeInv
    <3> QED
      BY <3>1, <3>2
  <2>4. unixTimeUpdated' /\ UNCHANGED <<now, underlyingQueue>>
    BY <1>1 DEF postUnix
  <2> QED
    BY <2>3, <2>4 DEF IInv, AgeInv, DueWaitsOneBar
<1>2. CASE readPhantom \/ noUnderlying \/ postUnderlying \/ stopCheck
  BY <1>2 DEF IInv, AgeInv, DueWaitsOneBar, readPhantom, noUnderlying, postUnderlying,
     stopCheck
<1>3. CASE popUnderlying
  BY <1>3, PopAge DEF IInv, AgeInv, DueWaitsOneBar, popUnderlying
<1>4. CASE popAgainstPush
  BY <1>4, PopAgainstPushAge DEF IInv, AgeInv, DueWaitsOneBar, popAgainstPush
<1>5. CASE drainOptions
  <2>1. CASE candlePriorityQueue # {} /\ unixTimeUpdated
    <3>1. \A c \in candlePriorityQueue' : c \in OptionCandles /\ ~ (c.time <= prevUnixTime)
      BY <1>5, <2>1 DEF drainOptions, Due, IInv, TypeOK
    <3>2. prevUnixTime' = prevUnixTime /\ prevUnixTime \in Int
      BY <1>5 DEF drainOptions, IInv, TypeOK, Times
    <3>3. DueWaitsOneBar'
      BY <3>1, <3>2 DEF DueWaitsOneBar
    <3> QED
      BY <1>5, <3>3 DEF IInv, AgeInv, drainOptions
  <2>2. CASE ~ (candlePriorityQueue # {} /\ unixTimeUpdated)
    BY <1>5, <2>2 DEF IInv, AgeInv, DueWaitsOneBar, drainOptions
  <2> QED
    BY <2>1, <2>2
<1>6. CASE postOptions \/ takeResults \/ postResults
  BY <1>6 DEF IInv, AgeInv, DueWaitsOneBar, postOptions, takeResults, postResults
<1>7. ASSUME NEW c \in OptionCandles, takeAgainstPush(c)  PROVE AgeInv'
  BY <1>7 DEF IInv, AgeInv, DueWaitsOneBar, takeAgainstPush
<1> QED
  BY <1>1, <1>2, <1>3, <1>4, <1>5, <1>6, <1>7 DEF InsertionThread

LEMMA IInvHolds == Spec => []IInv
<1>1. Init => IInv
  <2> SUFFICES ASSUME Init PROVE AgeInv
    BY InitType DEF IInv
  <2> QED
    BY DEF Init, AgeInv, DueWaitsOneBar
<1>2. IInv /\ [Next]_vars => IInv'
  <2> SUFFICES ASSUME IInv, [Next]_vars PROVE IInv'
    OBVIOUS
  <2>1. TypeOK' /\ HeadInv'
    BY NextType DEF IInv
  <2>2. AgeInv'
    <3>1. CASE UNCHANGED vars
      BY <3>1 DEF IInv, AgeInv, DueWaitsOneBar, vars, mainVars, queueVars, threadVars,
         tableVars, alertVars
    <3> QED
      BY <3>1, ProducersAge, InsertionAge DEF Next
  <2> QED
    BY <2>1, <2>2 DEF IInv
<1> QED
  BY <1>1, <1>2, PTL DEF Spec

\* An option candle that is due waits for one more bar at most, with every fault and however
\* old the candle is: the drain leaves only newer ones, and what is queued after it comes
\* with a bar of the main thread that is no earlier than the one stored last
\* (candleInsertionLoop).
THEOREM DueAlwaysWaitsOneBar == Spec => []DueWaitsOneBar
<1>1. IInv => DueWaitsOneBar
  BY DEF IInv, AgeInv
<1> QED
  BY IInvHolds, <1>1, PTL

-----------------------------------------------------------------------------
(* Without faults.                                                         *)

\* The times of the table are those up to some time.  Every bar the main thread has
\* begun is in the table or has a candle in the queue, which is in order of time; the
\* candle about to be popped has its time in the table.
RowsInv ==
  /\ mainPhase = "options" => framesPushed > 0
  /\ prevUnixTime # -1 => prevUnixTime \in unixRows
  /\ \A t \in unixRows, u \in Times : u <= t => u \in unixRows
  /\ \A i, j \in 1 .. Len(underlyingQueue) :
       i < j => underlyingQueue[i].time <= underlyingQueue[j].time
  /\ Phantom \notin {underlyingQueue[i] : i \in 1 .. Len(underlyingQueue)}
  /\ \A t \in Times \ unixRows :
       t < now \/ (t = now /\ framesPushed > 0) =>
         \E i \in 1 .. Len(underlyingQueue) : underlyingQueue[i].time = t
  /\ pc \in {"postUnderlying", "pop"} => Head(underlyingQueue).time \in unixRows

\* A batch is taken once, has its times in the table, and leaves nothing older behind;
\* a candle is queued once.
BatchInv ==
  /\ candlePriorityQueue \cup optionBatch \cup optionRows \subseteq alerts
  /\ \A c \in alerts : c.time <= now
  /\ optionBatch \cap candlePriorityQueue = {}
  /\ optionBatch # {} <=> pc = "postOptions"
  /\ \A c \in optionBatch, d \in candlePriorityQueue : c.time <= d.time
  /\ BatchHasTimes

NoFaultInv == IInv /\ RowsInv /\ BatchInv

\* The elements of the queue, without faults.
LEMMA QueueFacts ==
  ASSUME NoFaultInv
  PROVE  /\ Len(underlyingQueue) \in Nat /\ underlyingQueue \in Seq(Elements)
         /\ \A i \in 1 .. Len(underlyingQueue) :
              underlyingQueue[i] \in UnderlyingCandles /\ underlyingQueue[i].time \in Times
<1>1. underlyingQueue \in Seq(Elements) /\ Len(underlyingQueue) \in Nat
  BY DEF NoFaultInv, IInv, TypeOK, Elements
<1>2. \A i \in 1 .. Len(underlyingQueue) : underlyingQueue[i] \in Elements
  BY <1>1
<1>3. \A i \in 1 .. Len(underlyingQueue) : underlyingQueue[i] # Phantom
  BY DEF NoFaultInv, RowsInv
<1>4. \A i \in 1 .. Len(underlyingQueue) : underlyingQueue[i] \in UnderlyingCandles
  BY <1>2, <1>3 DEF Elements
<1> QED
  BY <1>1, <1>4 DEF UnderlyingCandles

\* A time earlier than the head of the queue is in the table.
LEMMA EarlierStored ==
  ASSUME NoFaultInv, underlyingQueue # <<>>, NEW t \in Times, t < Head(underlyingQueue).time
  PROVE  t \in unixRows
<1>1. /\ Head(underlyingQueue) = underlyingQueue[1] /\ Len(underlyingQueue) >= 1
      /\ underlyingQueue[1].time <= now /\ underlyingQueue[1].time \in Times /\ now \in Times
  BY QueueFacts, PopFacts DEF NoFaultInv, IInv, TypeOK, AgeInv
<1>2. t < now
  BY <1>1, SizesAssumption DEF Times
<1>3. SUFFICES ASSUME t \notin unixRows PROVE FALSE
  OBVIOUS
<1>4. PICK i \in 1 .. Len(underlyingQueue) : underlyingQueue[i].time = t
  BY <1>2, <1>3 DEF NoFaultInv, RowsInv
<1>5. i # 1
  BY <1>1, <1>4, SizesAssumption DEF Times
<1>6. underlyingQueue[1].time <= underlyingQueue[i].time
  BY <1>4, <1>5, QueueFacts DEF NoFaultInv, RowsInv
<1> QED
  BY <1>1, <1>4, <1>6, SizesAssumption DEF Times

\* A step that leaves the underlying alone.
LEMMA RowsSame ==
  ASSUME NoFaultInv, UNCHANGED <<now, framesPushed, underlyingQueue, unixRows, prevUnixTime>>,
         mainPhase' = mainPhase \/ framesPushed > 0,
         pc' = pc \/ pc' \notin {"postUnderlying", "pop"}
  PROVE  RowsInv'
BY DEF NoFaultInv, RowsInv

\* A candle of this bar is the latest of the queue.
LEMMA PushRows ==
  ASSUME NoFaultInv, pushUnderlying
  PROVE  RowsInv'
<1> USE DEF mainVars, queueVars, threadVars, tableVars, alertVars
<1> DEFINE q == underlyingQueue
           n == Len(underlyingQueue)
<1>1. nextUnderlying \in UnderlyingCandles /\ nextUnderlying \in Elements
      /\ nextUnderlying.time = now /\ now \in Times
  BY NextUnderlyingType DEF pushUnderlying, NoFaultInv, IInv, Elements, nextUnderlying, TypeOK
<1>2. /\ n \in Nat /\ underlyingQueue' = Append(q, nextUnderlying) /\ Len(underlyingQueue') = n + 1
      /\ underlyingQueue'[n + 1] = nextUnderlying
      /\ \A i \in 1 .. n : underlyingQueue'[i] = q[i]
      /\ q # <<>> => Head(underlyingQueue') = Head(q)
  BY <1>1, QueueFacts, PushFacts DEF pushUnderlying
<1>3. \A i \in 1 .. n : q[i] \in UnderlyingCandles /\ q[i].time \in Times /\ q[i].time <= now
  BY QueueFacts DEF NoFaultInv, IInv, AgeInv
<1>4. UNCHANGED <<now, mainPhase, unixRows, prevUnixTime, pc>> /\ framesPushed' > 0
      /\ mainPhase = "underlying"
  BY <1>2, SizesAssumption DEF pushUnderlying, CanPushUnderlying, NoFaultInv, IInv, TypeOK
<1>5. \A i, j \in 1 .. n + 1 :
        i < j => underlyingQueue'[i].time <= underlyingQueue'[j].time
  <2> TAKE i, j \in 1 .. n + 1
  <2> HAVE i < j
  <2>1. CASE j = n + 1
    BY <1>1, <1>2, <1>3, <2>1
  <2>2. CASE j # n + 1
    BY <1>2, <2>2 DEF NoFaultInv, RowsInv
  <2> QED
    BY <2>1, <2>2
<1>6. \A i \in 1 .. n + 1 : underlyingQueue'[i] # Phantom
  BY <1>1, <1>2, <1>3, SizesAssumption DEF Phantom, UnderlyingCandles, Times
<1>7. \A t \in Times \ unixRows : t < now \/ t = now =>
        \E i \in 1 .. n + 1 : underlyingQueue'[i].time = t
  <2> TAKE t \in Times \ unixRows
  <2>1. CASE t = now
    BY <1>1, <1>2, <2>1
  <2>2. CASE t < now
    <3>1. PICK i \in 1 .. n : q[i].time = t
      BY <2>2 DEF NoFaultInv, RowsInv
    <3> QED
      BY <1>2, <3>1
  <2> QED
    BY <2>1, <2>2
<1>8. pc' \in {"postUnderlying", "pop"} => Head(underlyingQueue').time \in unixRows'
  BY <1>2, <1>4 DEF NoFaultInv, RowsInv, IInv, HeadInv
<1> HIDE DEF q, n
<1> QED
  BY <1>2, <1>4, <1>5, <1>6, <1>7, <1>8 DEF NoFaultInv, RowsInv

\* A new bar: everything up to the last one was begun.
LEMMA NextBarRows ==
  ASSUME "skew" \notin Faults, NoFaultInv, nextBar
  PROVE  RowsInv'
<1>1. now' = now + 1 /\ now \in Times /\ framesPushed > 0 /\ framesPushed' = 0
      /\ mainPhase' = "underlying"
  BY DEF nextBar, NextTimes, NoFaultInv, RowsInv, IInv, TypeOK
<1>2. UNCHANGED <<underlyingQueue, unixRows, prevUnixTime, pc>>
  BY DEF nextBar, queueVars, threadVars, tableVars
<1>3. \A t \in Times : t < now' => t < now \/ t = now
  BY <1>1, SizesAssumption DEF Times
<1> QED
  BY <1>1, <1>2, <1>3 DEF NoFaultInv, RowsInv

\* The time of the head joins those before it.
LEMMA PostUnixRows ==
  ASSUME "db" \notin Faults, NoFaultInv, postUnix
  PROVE  RowsInv'
<1> USE DEF mainVars, queueVars, threadVars, tableVars, alertVars
<1> DEFINE t == Head(underlyingQueue).time
<1>1. underlyingQueue # <<>> /\ t \in Times
  BY QueueFacts, PopFacts DEF postUnix
<1>2. UNCHANGED <<now, framesPushed, mainPhase, underlyingQueue>>
  BY DEF postUnix
<1>3. /\ unixRows' = unixRows \cup {t}
      /\ prevUnixTime' # -1 => prevUnixTime' \in unixRows'
  <2>1. CASE t # prevUnixTime
    <3>1. insertUnix(t, TRUE, TRUE)
      BY <2>1 DEF postUnix, DbOutcomes
    <3>2. unixRows' = unixRows \cup {t}
      BY <3>1 DEF insertUnix
    <3>3. prevUnixTime' = -1 \/ prevUnixTime' \in unixRows'
      BY <1>1, <3>1, InsertUnixType DEF NoFaultInv, IInv
    <3> QED
      BY <3>2, <3>3
  <2>2. CASE t = prevUnixTime
    <3>1. t # -1
      BY <1>1, SizesAssumption DEF Times
    <3>2. UNCHANGED <<unixRows, prevUnixTime>>
      BY <2>2 DEF postUnix
    <3> QED
      BY <2>2, <3>1, <3>2 DEF NoFaultInv, RowsInv
  <2> QED
    BY <2>1, <2>2
<1> HIDE DEF t
<1>4. \A s \in unixRows', u \in Times : u <= s => u \in unixRows'
  <2> TAKE s \in unixRows', u \in Times
  <2> HAVE u <= s
  <2>1. CASE s \in unixRows
    BY <1>3, <2>1 DEF NoFaultInv, RowsInv
  <2>2. CASE s = t /\ u # t
    <3>1. u < t
      BY <1>1, <2>2, SizesAssumption DEF Times
    <3> QED
      BY <1>1, <1>3, <3>1, EarlierStored DEF t
  <2> QED
    BY <1>3, <2>1, <2>2
<1>5. Head(underlyingQueue').time \in unixRows'
  BY <1>2, <1>3 DEF t
<1> QED
  BY <1>2, <1>3, <1>4, <1>5 DEF NoFaultInv, RowsInv

\* The head that is popped has its time in the table.
LEMMA PopRows ==
  ASSUME NoFaultInv, popUnderlying
  PROVE  RowsInv'
<1> USE DEF mainVars, queueVars, threadVars, tableVars, alertVars
<1> DEFINE q == underlyingQueue
           rest == Tail(underlyingQueue)
<1>1. underlyingQueue # <<>> /\ Head(q).time \in unixRows /\ q \in Seq(Elements)
  BY QueueFacts DEF popUnderlying, NoFaultInv, RowsInv, IInv, HeadInv
<1>2. /\ Len(rest) = Len(q) - 1 /\ Len(q) \in Nat \ {0} /\ Head(q) = q[1]
      /\ \A i \in 1 .. Len(rest) : i + 1 \in 1 .. Len(q) /\ rest[i] = q[i + 1]
  BY <1>1, PopFacts
<1>3. /\ underlyingQueue' = rest /\ pc' = "drain"
      /\ UNCHANGED <<now, framesPushed, mainPhase, unixRows, prevUnixTime>>
  BY DEF popUnderlying
<1> HIDE DEF q, rest
<1>4. \A i, j \in 1 .. Len(rest) : i < j => rest[i].time <= rest[j].time
  BY <1>2 DEF NoFaultInv, RowsInv, q
<1>5. \A t \in Times \ unixRows :
        t < now \/ (t = now /\ framesPushed > 0) =>
          \E i \in 1 .. Len(rest) : rest[i].time = t
  <2> TAKE t \in Times \ unixRows
  <2> HAVE t < now \/ (t = now /\ framesPushed > 0)
  <2>1. PICK i \in 1 .. Len(q) : q[i].time = t
    BY DEF NoFaultInv, RowsInv, q
  <2>2. i # 1
    BY <1>1, <1>2, <2>1
  <2>3. i - 1 \in 1 .. Len(rest) /\ rest[i - 1] = q[i]
    BY <1>2, <2>2
  <2> QED
    BY <2>1, <2>3
<1>6. \A i \in 1 .. Len(rest) : rest[i] # Phantom
  BY <1>2 DEF NoFaultInv, RowsInv, q
<1> QED
  BY <1>3, <1>4, <1>5, <1>6 DEF NoFaultInv, RowsInv

LEMMA RowsStep ==
  ASSUME Faults = {}, NoFaultInv, [Next]_vars
  PROVE  RowsInv'
<1> USE DEF mainVars, queueVars, threadVars, tableVars, alertVars
<1>1. CASE pushUnderlying \/ nextBar \/ postUnix \/ popUnderlying
  BY <1>1, PushRows, NextBarRows, PostUnixRows, PopRows
<1>2. CASE beginOptions \/ stop \/ UNCHANGED vars
  BY <1>2, RowsSame DEF beginOptions, stop, vars
<1>3. ASSUME NEW c \in OptionCandles,
             \/ \E significant \in BOOLEAN : alertCallback(c, significant)
             \/ pushResult(c)
      PROVE  RowsInv'
  BY <1>3, RowsSame DEF alertCallback, pushResult
<1>4. CASE popAgainstPush \/ \E c \in OptionCandles : takeAgainstPush(c)
  BY <1>4 DEF popAgainstPush, takeAgainstPush
<1>5. CASE readPhantom \/ noUnderlying \/ stopCheck
  BY <1>5, RowsSame DEF readPhantom, noUnderlying, stopCheck
<1>6. CASE postUnderlying
  BY <1>6 DEF postUnderlying, NoFaultInv, RowsInv
<1>7. CASE drainOptions \/ postOptions
  BY <1>7, RowsSame DEF drainOptions, postOptions
<1>8. CASE takeResults \/ postResults
  BY <1>8, RowsSame DEF takeResults, postResults
<1> QED
  BY <1>1, <1>2, <1>3, <1>4, <1>5, <1>6, <1>7, <1>8 DEF Next, Producers, InsertionThread

-----------------------------------------------------------------------------
(* The batches of option candles, without faults.                          *)

\* A step that neither takes nor stores a batch.
LEMMA BatchSame ==
  ASSUME NoFaultInv, now' \in Int, now' >= now, unixRows \subseteq unixRows',
         UNCHANGED <<candlePriorityQueue, optionBatch, optionRows, alerts>>,
         pc' = pc \/ (pc # "postOptions" /\ pc' # "postOptions")
  PROVE  BatchInv'
<1>1. \A c \in alerts : c.time \in Int /\ now \in Int
  BY SizesAssumption DEF NoFaultInv, IInv, TypeOK, OptionCandles, Times
<1>2. \A c \in alerts : c.time <= now'
  BY <1>1 DEF NoFaultInv, BatchInv
<1> QED
  BY <1>2 DEF NoFaultInv, BatchInv, BatchHasTimes

\* A candle queued while a batch is posted is of this bar, so no older than the batch.
LEMMA CallbackBatch ==
  ASSUME "skew" \notin Faults, NoFaultInv,
         NEW c \in OptionCandles, NEW significant \in BOOLEAN, alertCallback(c, significant)
  PROVE  BatchInv'
<1> USE DEF mainVars, queueVars, threadVars, tableVars, alertVars
<1>1. /\ c.time = now /\ c \notin alerts /\ alerts' = alerts \cup {c}
      /\ candlePriorityQueue' \subseteq candlePriorityQueue \cup {c}
      /\ UNCHANGED <<now, optionBatch, optionRows, unixRows, pc>>
  BY NewCandle DEF alertCallback, BatchTimes
<1>2. now \in Int
  BY SizesAssumption DEF NoFaultInv, IInv, TypeOK, Times
<1> QED
  BY <1>1, <1>2 DEF NoFaultInv, BatchInv, BatchHasTimes

\* What is due has its time in the table, and all that is left is newer.
LEMMA DrainBatch ==
  ASSUME NoFaultInv, drainOptions
  PROVE  BatchInv'
<1> USE DEF mainVars, queueVars, threadVars, tableVars, alertVars
<1>1. optionBatch = {} /\ UNCHANGED <<now, optionRows, unixRows, alerts>>
  BY DEF drainOptions, NoFaultInv, BatchInv
<1>2. pc' = IF optionBatch' # {} THEN "postOptions" ELSE "takeResults"
  BY DEF drainOptions
<1>3. CASE candlePriorityQueue # {} /\ unixTimeUpdated
  <2>1. optionBatch' = Due /\ candlePriorityQueue' = candlePriorityQueue \ Due
    BY <1>3 DEF drainOptions
  <2>2. \A c \in candlePriorityQueue : c.time \in Times /\ c.time \in Int
    BY DEF NoFaultInv, IInv, TypeOK, OptionCandles, Times
  <2>3. prevUnixTime \in Int
    BY DEF NoFaultInv, IInv, TypeOK, Times
  <2>4. \A c \in Due : c.time \in unixRows
    <3> TAKE c \in Due
    <3>1. c.time \in Times /\ c.time <= prevUnixTime /\ prevUnixTime # -1
      BY <2>2, SizesAssumption DEF Due, Times
    <3> QED
      BY <3>1 DEF NoFaultInv, RowsInv
  <2>5. \A c \in Due, d \in candlePriorityQueue \ Due : c.time <= d.time
    BY <2>2, <2>3 DEF Due
  <2>6. Due \subseteq candlePriorityQueue
    BY DEF Due
  <2> QED
    BY <1>1, <1>2, <2>1, <2>4, <2>5, <2>6 DEF NoFaultInv, BatchInv, BatchHasTimes
<1>4. CASE ~ (candlePriorityQueue # {} /\ unixTimeUpdated)
  <2>1. UNCHANGED <<optionBatch, candlePriorityQueue>>
    BY <1>4 DEF drainOptions
  <2> QED
    BY <1>1, <1>2, <2>1 DEF NoFaultInv, BatchInv, BatchHasTimes
<1> QED
  BY <1>3, <1>4

LEMMA BatchStep ==
  ASSUME Faults = {}, NoFaultInv, [Next]_vars
  PROVE  BatchInv'
<1> USE DEF mainVars, queueVars, threadVars, tableVars, alertVars
<1>0. now \in Int
  BY SizesAssumption DEF NoFaultInv, IInv, TypeOK, Times
<1>1. CASE pushUnderlying \/ beginOptions \/ stop \/ UNCHANGED vars
  BY <1>0, <1>1, BatchSame DEF pushUnderlying, beginOptions, stop, vars
<1>2. CASE nextBar
  <2>1. now' = now + 1
    BY <1>2 DEF nextBar, NextTimes
  <2> QED
    BY <1>0, <1>2, <2>1, BatchSame DEF nextBar
<1>3. ASSUME NEW c \in OptionCandles, NEW significant \in BOOLEAN,
             alertCallback(c, significant)
      PROVE  BatchInv'
  BY <1>3, CallbackBatch
<1>4. ASSUME NEW c \in OptionCandles, pushResult(c)  PROVE BatchInv'
  BY <1>0, <1>4, BatchSame DEF pushResult
<1>5. CASE popAgainstPush \/ \E c \in OptionCandles : takeAgainstPush(c)
  BY <1>5 DEF popAgainstPush, takeAgainstPush
<1>6. CASE postUnix
  <2>1. unixRows \subseteq unixRows'
    BY <1>6 DEF postUnix, insertUnix
  <2> QED
    BY <1>0, <1>6, <2>1, BatchSame DEF postUnix
<1>7. CASE readPhantom \/ noUnderlying \/ stopCheck \/ postUnderlying \/ popUnderlying
  BY <1>0, <1>7, BatchSame DEF readPhantom, noUnderlying, stopCheck, postUnderlying, popUnderlying
<1>8. CASE drainOptions
  BY <1>8, DrainBatch
<1>9. CASE postOptions
  BY <1>9 DEF postOptions, NoFaultInv, BatchInv, BatchHasTimes
<1>10. CASE takeResults \/ postResults
  BY <1>0, <1>10, BatchSame DEF takeResults, postResults
<1> QED
  BY <1>1, <1>2, <1>3, <1>4, <1>5, <1>6, <1>7, <1>8, <1>9, <1>10
     DEF Next, Producers, InsertionThread

LEMMA NoFaultInvHolds ==
  ASSUME Faults = {}
  PROVE  Spec => []NoFaultInv
<1>1. Init => RowsInv /\ BatchInv
  <2> SUFFICES ASSUME Init PROVE RowsInv /\ BatchInv
    OBVIOUS
  <2>1. now = 1 /\ unixRows \subseteq {1} /\ Len(underlyingQueue) = 0 /\ framesPushed = 0
    BY DEF Init
  <2>2. \A t \in Times : t >= 1 /\ t \in Int
    BY SizesAssumption DEF Times
  <2> QED
    BY <2>1, <2>2 DEF Init, RowsInv, BatchInv, BatchHasTimes
<1>2. IInv /\ IInv' /\ RowsInv /\ BatchInv /\ [Next]_vars => (RowsInv /\ BatchInv)'
  BY RowsStep, BatchStep DEF NoFaultInv
<1> QED
  BY <1>1, <1>2, IInvHolds, PTL DEF Spec, NoFaultInv

\* Without faults the database never rejects a batch: every bar's time enters UnixValues
\* before a candle of that time is due, whenever the candles are queued
\* (candleInsertionLoop, the foreign key of CandleRoutes.h).
THEOREM NothingRejected ==
  ASSUME Faults = {}
  PROVE  Spec => []NoBatchRejected
<1>1. NoFaultInv => NoBatchRejected
  BY DEF NoFaultInv, BatchInv, NoBatchRejected
<1> QED
  BY NoFaultInvHolds, <1>1, PTL

-----------------------------------------------------------------------------
(* The refinement.                                                         *)

\* A step that moves no candle.
LEMMA StoreSame ==
  ASSUME UNCHANGED <<candlePriorityQueue, optionBatch, optionRows>>
  PROVE  UNCHANGED <<candlePriorityQueue \cup optionBatch, optionRows>>
OBVIOUS

\* Each step of the two threads queues a candle, stores a batch or moves none.
LEMMA StoreStep ==
  ASSUME Faults = {}, NoFaultInv, [Next]_vars
  PROVE  [Store!Next]_<<candlePriorityQueue \cup optionBatch, optionRows>>
<1> USE DEF mainVars, queueVars, threadVars, tableVars, alertVars
<1>1. CASE pushUnderlying \/ beginOptions \/ nextBar \/ stop \/ UNCHANGED vars
  BY <1>1, StoreSame DEF pushUnderlying, beginOptions, nextBar, stop, vars
<1>2. ASSUME NEW c \in OptionCandles, NEW significant \in BOOLEAN,
             alertCallback(c, significant)
      PROVE  [Store!Next]_<<candlePriorityQueue \cup optionBatch, optionRows>>
  <2>1. c \notin alerts /\ UNCHANGED <<optionBatch, optionRows>>
    BY <1>2, NewCandle DEF alertCallback
  <2>2. c \notin candlePriorityQueue \cup optionBatch \cup optionRows
    BY <2>1 DEF NoFaultInv, BatchInv
  <2>3. CASE significant
    <3>1. candlePriorityQueue' \cup optionBatch' = candlePriorityQueue \cup optionBatch \cup {c}
      BY <1>2, <2>1, <2>3 DEF alertCallback
    <3>2. Store!Queue(c)
      BY <2>1, <2>2, <3>1 DEF Store!Queue
    <3> QED
      BY <3>2 DEF Store!Next
  <2>4. CASE ~significant
    BY <1>2, <2>1, <2>4 DEF alertCallback
  <2> QED
    BY <2>3, <2>4
<1>3. ASSUME NEW c \in OptionCandles, pushResult(c)
      PROVE  [Store!Next]_<<candlePriorityQueue \cup optionBatch, optionRows>>
  BY <1>3, StoreSame DEF pushResult
<1>4. CASE popAgainstPush \/ \E c \in OptionCandles : takeAgainstPush(c)
  BY <1>4 DEF popAgainstPush, takeAgainstPush
<1>5. CASE \/ postUnix \/ readPhantom \/ noUnderlying \/ postUnderlying \/ popUnderlying
           \/ takeResults \/ postResults \/ stopCheck
  BY <1>5, StoreSame DEF postUnix, readPhantom, noUnderlying, postUnderlying, popUnderlying,
     takeResults, postResults, stopCheck
<1>6. CASE drainOptions
  <2>1. optionBatch = {} /\ optionRows' = optionRows
    BY <1>6 DEF drainOptions, NoFaultInv, BatchInv
  <2>2. candlePriorityQueue' \cup optionBatch' = candlePriorityQueue \cup optionBatch
    BY <1>6, <2>1 DEF drainOptions, Due
  <2> QED
    BY <2>1, <2>2
<1>7. CASE postOptions
  <2>1. optionRows' = optionRows \cup optionBatch /\ optionBatch' = {}
        /\ candlePriorityQueue' = candlePriorityQueue
    BY <1>7 DEF postOptions, DbOutcomes, NoFaultInv, BatchInv
  <2>2. candlePriorityQueue' \cup optionBatch'
          = (candlePriorityQueue \cup optionBatch) \ optionBatch
    BY <2>1 DEF NoFaultInv, BatchInv
  <2>3. ASSUME NEW c \in optionBatch, NEW d \in candlePriorityQueue \cup optionBatch,
               d.time < c.time
        PROVE  d \in optionBatch
    <3>1. SUFFICES ASSUME d \in candlePriorityQueue PROVE FALSE
      OBVIOUS
    <3>2. c.time <= d.time
      BY <3>1 DEF NoFaultInv, BatchInv
    <3>3. c.time \in Int /\ d.time \in Int
      BY <3>1 DEF NoFaultInv, IInv, TypeOK, OptionCandles, Times
    <3> QED
      BY <2>3, <3>2, <3>3
  <2>4. Store!StoreBatch(optionBatch)
    BY <1>7, <2>1, <2>2, <2>3 DEF Store!StoreBatch, postOptions, NoFaultInv, BatchInv
  <2> QED
    BY <2>4 DEF Store!Next
<1> QED
  BY <1>1, <1>2, <1>3, <1>4, <1>5, <1>6, <1>7 DEF Next, Producers, InsertionThread

\* Without faults the insertion thread implements a store that keeps every option candle it
\* was given until it stores it, once and in order of time (candleInsertionLoop).
THEOREM Refinement ==
  ASSUME Faults = {}
  PROVE  Spec => StoresInOrder
<1>1. Init => Store!Init
  BY DEF Init, Store!Init
<1>2. NoFaultInv /\ [Next]_vars => [Store!Next]_<<candlePriorityQueue \cup optionBatch, optionRows>>
  BY StoreStep
<1> QED
  BY <1>1, <1>2, NoFaultInvHolds, PTL DEF Spec, StoresInOrder, Store!Spec
=============================================================================
