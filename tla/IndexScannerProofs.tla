------------------------- MODULE IndexScannerProofs -------------------------
(***************************************************************************)
(* Proofs about IndexScanner, for every set of prices, every range of      *)
(* strikes, every initial capacity and every number of updates.            *)
(***************************************************************************)
EXTENDS IndexScanner, FiniteSetTheorems, TLAPS

-----------------------------------------------------------------------------
(* The inductive invariant.                                                *)

\* The strikes are asked for the price of a bar, or the first one, and the test counts
\* up to its number of updates.
PriceInv ==
  /\ Underlying \in bufferMap => quote \in Closes
  /\ mainPc # "start" => currentSPX \in Prices
  /\ seen = Updates => testPc = "join"
  /\ IsFiniteSet(currentReqs) /\ IsFiniteSet(reqQueue)

\* A stream is one of a request, and none ends before it is told to.
Streamed == {s.id : s \in streams}
StreamInv ==
  /\ Streamed \subseteq currentReqs \cup {Underlying}
  /\ ~terminateStream => currentReqs \subseteq Streamed

\* Calls and puts are requested together, and what is in scope is streamed or about to
\* be requested.
Asked == currentReqs \cup reqQueue
ScopeInv ==
  /\ reqQueue # {} => mainPc = "send"
  /\ \A r \in Asked : r \in Int /\ r % 5 \in {0, 1}
  /\ \A r \in Asked : r % 5 = 0 => r + 1 \in Asked
  /\ consInScope \subseteq Asked

\* A stream of an option keeps the values of its price.
ReferenceInv ==
  \A s \in streams : s.id # Underlying => s.ref = calculateOptionRefValues(s.id, s.spx)

IInv == TypeOK /\ PriceInv /\ StreamInv /\ ScopeInv /\ ReferenceInv

-----------------------------------------------------------------------------
(* The request ids.                                                        *)

\* The strikes of a price are finitely many multiples of 5 (getStrikes).
LEMMA StrikesType ==
  ASSUME NEW p \in Prices
  PROVE  /\ IsFiniteSet(getStrikes(p))
         /\ \A s \in getStrikes(p) : s \in Int /\ s % 5 = 0
<1> DEFINE shifted == p + Multiple \div 2
           rounded == shifted - (shifted % Multiple)
           offsets == -StrikesBelow .. numStrikes
           f == [k \in offsets |-> rounded + Multiple * k]
<1>1. p \in Nat /\ StrikesBelow \in Nat /\ numStrikes \in Nat /\ Multiple = 5
  BY PricesAssumption, SizesAssumption DEF Prices, Multiple
<1>2. rounded \in Int /\ rounded % 5 = 0
  BY <1>1
<1>3. IsFiniteSet(offsets)
  BY <1>1, FS_Interval
<1>4. f \in Surjection(offsets, getStrikes(p))
  BY DEF Surjection, getStrikes
<1>5. IsFiniteSet(getStrikes(p))
  BY <1>3, <1>4, FS_Surjection
<1>6. \A k \in offsets : rounded + 5 * k \in Int /\ (rounded + 5 * k) % 5 = 0
  BY <1>1, <1>2
<1>7. \A s \in getStrikes(p) : \E k \in offsets : s = rounded + 5 * k
  BY <1>1 DEF getStrikes
<1> QED
  BY <1>5, <1>6, <1>7

\* Adding the puts keeps a set of strikes finite.
LEMMA ContractsFinite ==
  ASSUME NEW S, IsFiniteSet(S)
  PROVE  IsFiniteSet(Contracts(S))
<1> DEFINE puts == {s + 1 : s \in S}
           f == [s \in S |-> s + 1]
<1>1. f \in Surjection(S, puts)
  BY DEF Surjection
<1>2. IsFiniteSet(puts)
  BY <1>1, FS_Surjection
<1> QED
  BY <1>2, FS_Union DEF Contracts

\* A contract is a call, whose id is its strike, or a put, whose id is one above; none
\* is requested under the underlying's id 1234 (updateOptionRequests).
LEMMA ContractIds ==
  ASSUME NEW S, \A s \in S : s \in Int /\ s % 5 = 0
  PROVE  /\ Underlying \notin Contracts(S)
         /\ \A r \in Contracts(S) : /\ r \in Int /\ r % 5 \in {0, 1}
                                    /\ r % 5 = 0 => r \in S /\ r + 1 \in Contracts(S)
<1>1. \A s \in S : (s + 1) % 5 = 1 /\ s + 1 \in Int
  OBVIOUS
<1>2. \A r \in Contracts(S) : r \in S \/ \E s \in S : r = s + 1
  BY DEF Contracts
<1>3. \A s \in S : s + 1 \in Contracts(S)
  BY DEF Contracts
<1>4. \A r \in Contracts(S) : /\ r \in Int /\ r % 5 \in {0, 1}
                              /\ r % 5 = 0 => r \in S /\ r + 1 \in Contracts(S)
  BY <1>1, <1>2, <1>3
<1> QED
  BY <1>4 DEF Underlying

\* What updateOptionRequests queues and puts in scope.
LEMMA RequestsType ==
  ASSUME NEW p \in Prices
  PROVE  /\ Contracts(getStrikes(p)) \subseteq ReqIds \ {Underlying}
         /\ NewContracts(getStrikes(p)) \subseteq Contracts(getStrikes(p))
         /\ IsFiniteSet(NewContracts(getStrikes(p)))
<1>1. NewContracts(getStrikes(p)) \subseteq Contracts(getStrikes(p))
  BY DEF NewContracts, Contracts
<1>2. IsFiniteSet(Contracts(getStrikes(p)))
  BY StrikesType, ContractsFinite
<1>3. Contracts(getStrikes(p)) \subseteq ReqIds
  BY DEF ReqIds
<1>4. Underlying \notin Contracts(getStrikes(p))
  BY StrikesType, ContractIds
<1> QED
  BY <1>1, <1>2, <1>3, <1>4, FS_Subset

-----------------------------------------------------------------------------
(* The reference values.                                                   *)

\* How far a contract is in the money, in strikes.
Depth(id, spx) == IF InTheMoney(id, spx) THEN StrikesAway(id, spx) ELSE -StrikesAway(id, spx)

LEMMA Values ==
  ASSUME NEW id \in Int, NEW spx \in Int
  PROVE  /\ Depth(id, spx) \in Int
         /\ calculateOptionRefValues(id, spx).vol >= 0
         /\ calculateOptionRefValues(id, spx).price =
              IF 5 + Depth(id, spx) < 0 THEN 0 ELSE 5 + Depth(id, spx)
<1> DEFINE d == Depth(id, spx)
           vol == 500 + 100 * d
<1>1. StrikeOf(id) \in Int
  BY DEF StrikeOf
<1>2. StrikesAway(id, spx) \in Int
  BY <1>1 DEF StrikesAway, Abs, Multiple
<1>3. d \in Int
  BY <1>2 DEF Depth
<1>4. calculateOptionRefValues(id, spx) =
        IF vol < 0 THEN [price |-> 0, vol |-> 0] ELSE [price |-> vol \div 100, vol |-> vol]
  BY <1>2 DEF calculateOptionRefValues, Depth
<1> HIDE DEF d
<1>5. vol \in Int /\ vol \div 100 = 5 + d /\ (vol < 0 <=> 5 + d < 0)
  BY <1>3
<1> HIDE DEF vol
<1>6. CASE vol < 0
  BY <1>3, <1>4, <1>5, <1>6 DEF d
<1>7. CASE ~ (vol < 0)
  BY <1>3, <1>4, <1>5, <1>7 DEF d
<1> QED
  BY <1>6, <1>7

\* The distance in strikes grows with the distance.
LEMMA AwayGrows ==
  ASSUME NEW x \in Nat, NEW y \in Nat, x <= y
  PROVE  /\ (x + Multiple - 1) \div Multiple \in Nat /\ (y + Multiple - 1) \div Multiple \in Nat
         /\ (x + Multiple - 1) \div Multiple <= (y + Multiple - 1) \div Multiple
BY DEF Multiple

\* A call is the deeper in the money the lower its strike.
LEMMA CallDepth ==
  ASSUME NEW i \in Int, NEW j \in Int, NEW spx \in Int, ~ IsPut(i), ~ IsPut(j), i <= j
  PROVE  Depth(i, spx) >= Depth(j, spx)
<1>1. StrikeOf(i) = i /\ StrikeOf(j) = j
  BY DEF StrikeOf
<1>2. (InTheMoney(i, spx) <=> spx >= i) /\ (InTheMoney(j, spx) <=> spx >= j)
  BY <1>1 DEF InTheMoney
<1>3. CASE spx >= j
  <2>1. spx - j \in Nat /\ spx - i \in Nat /\ spx - j <= spx - i
    BY <1>3
  <2>2. StrikesAway(i, spx) >= StrikesAway(j, spx)
    BY <1>1, <2>1, AwayGrows DEF StrikesAway, Abs
  <2> QED
    BY <1>2, <1>3, <2>2 DEF Depth
<1>4. CASE spx < i
  <2>1. i - spx \in Nat /\ j - spx \in Nat /\ i - spx <= j - spx
    BY <1>4
  <2>2. /\ StrikesAway(i, spx) = (i - spx + Multiple - 1) \div Multiple
        /\ StrikesAway(j, spx) = (j - spx + Multiple - 1) \div Multiple
    BY <1>1, <1>4 DEF StrikesAway, Abs
  <2>3. /\ StrikesAway(i, spx) \in Nat /\ StrikesAway(j, spx) \in Nat
        /\ StrikesAway(i, spx) <= StrikesAway(j, spx)
    BY <2>1, <2>2, AwayGrows
  <2> QED
    BY <1>2, <1>4, <2>3 DEF Depth
<1>5. CASE spx >= i /\ spx < j
  <2>1. spx - i \in Nat /\ j - spx \in Nat
    BY <1>5
  <2>2. StrikesAway(i, spx) \in Nat /\ StrikesAway(j, spx) \in Nat
    BY <1>1, <1>5, <2>1, AwayGrows DEF StrikesAway, Abs
  <2> QED
    BY <1>2, <1>5, <2>2 DEF Depth
<1> QED
  BY <1>3, <1>4, <1>5

\* A put is the deeper in the money the higher its strike.
LEMMA PutDepth ==
  ASSUME NEW i \in Int, NEW j \in Int, NEW spx \in Int, IsPut(i), IsPut(j), i <= j
  PROVE  Depth(i, spx) <= Depth(j, spx)
<1> DEFINE u == i - 1
           v == j - 1
<1>1. StrikeOf(i) = u /\ StrikeOf(j) = v /\ u \in Int /\ v \in Int /\ u <= v
  BY DEF StrikeOf
<1>2. (InTheMoney(i, spx) <=> spx < u) /\ (InTheMoney(j, spx) <=> spx < v)
  BY <1>1 DEF InTheMoney
<1> HIDE DEF u, v
<1>3. CASE spx >= v
  <2>1. spx - v \in Nat /\ spx - u \in Nat /\ spx - v <= spx - u
    BY <1>1, <1>3
  <2>2. /\ StrikesAway(i, spx) = (spx - u + Multiple - 1) \div Multiple
        /\ StrikesAway(j, spx) = (spx - v + Multiple - 1) \div Multiple
    BY <1>1, <1>3 DEF StrikesAway, Abs
  <2>3. /\ StrikesAway(i, spx) \in Nat /\ StrikesAway(j, spx) \in Nat
        /\ StrikesAway(j, spx) <= StrikesAway(i, spx)
    BY <2>1, <2>2, AwayGrows
  <2> QED
    BY <1>1, <1>2, <1>3, <2>3 DEF Depth
<1>4. CASE spx < u
  <2>1. u - spx \in Nat /\ v - spx \in Nat /\ u - spx <= v - spx
    BY <1>1, <1>4
  <2>2. /\ StrikesAway(i, spx) = (u - spx + Multiple - 1) \div Multiple
        /\ StrikesAway(j, spx) = (v - spx + Multiple - 1) \div Multiple
    BY <1>1, <1>4 DEF StrikesAway, Abs
  <2>3. /\ StrikesAway(i, spx) \in Nat /\ StrikesAway(j, spx) \in Nat
        /\ StrikesAway(i, spx) <= StrikesAway(j, spx)
    BY <2>1, <2>2, AwayGrows
  <2> QED
    BY <1>1, <1>2, <1>4, <2>3 DEF Depth
<1>5. CASE spx >= u /\ spx < v
  <2>1. spx - u \in Nat /\ v - spx \in Nat
    BY <1>1, <1>5
  <2>2. /\ StrikesAway(i, spx) = (spx - u + Multiple - 1) \div Multiple
        /\ StrikesAway(j, spx) = (v - spx + Multiple - 1) \div Multiple
    BY <1>1, <1>5 DEF StrikesAway, Abs
  <2>3. StrikesAway(i, spx) \in Nat /\ StrikesAway(j, spx) \in Nat
    BY <2>1, <2>2, AwayGrows
  <2> QED
    BY <1>1, <1>2, <1>5, <2>3 DEF Depth
<1> QED
  BY <1>1, <1>3, <1>4, <1>5

\* A call and the put of its strike are as far from the money on two sides.
LEMMA PairDepth ==
  ASSUME NEW i \in Int, NEW spx \in Int, ~ IsPut(i), IsPut(i + 1)
  PROVE  Depth(i + 1, spx) = - Depth(i, spx) /\ Depth(i, spx) \in Int
<1>1. StrikeOf(i) = i /\ StrikeOf(i + 1) = i
  BY DEF StrikeOf
<1>2. StrikesAway(i + 1, spx) = StrikesAway(i, spx) /\ StrikesAway(i, spx) \in Int
  BY <1>1 DEF StrikesAway, Abs, Multiple
<1>3. (InTheMoney(i, spx) <=> spx >= i) /\ (InTheMoney(i + 1, spx) <=> spx < i)
  BY <1>1 DEF InTheMoney
<1> QED
  BY <1>2, <1>3 DEF Depth

-----------------------------------------------------------------------------
(* Type correctness.                                                       *)

\* The sets of the buffer are finite.
LEMMA Sizes ==
  ASSUME TypeOK, PriceInv
  PROVE  /\ IsFiniteSet(activeReqs) /\ Cardinality(activeReqs) \in Nat
         /\ IsFiniteSet(bufferMap) /\ Cardinality(bufferMap) \in Nat
<1>1. IsFiniteSet(currentReqs \cup {Underlying})
  BY FS_AddElement DEF PriceInv
<1>2. IsFiniteSet(activeReqs)
  BY <1>1, FS_Subset DEF TypeOK
<1>3. IsFiniteSet(bufferMap)
  BY <1>2, FS_Subset DEF TypeOK
<1> QED
  BY <1>2, <1>3, FS_CardinalityType

\* A status check leaves a natural number in capacity_.
LEMMA StatusCapacityType ==
  ASSUME TypeOK, PriceInv
  PROVE  StatusCapacity \in Nat
BY Sizes DEF StatusCapacity, TypeOK

LEMMA InitType == Init => TypeOK /\ PriceInv
<1> SUFFICES ASSUME Init PROVE TypeOK /\ PriceInv
  OBVIOUS
<1>1. InitPrice \in Prices /\ Underlying \in ReqIds
  BY DEF Prices, ReqIds
<1>2. IsFiniteSet({})
  BY FS_EmptySet
<1>3. \A s \in streams : s.id \in ReqIds /\ s.spx \in Prices
  BY <1>1 DEF Init, NewStream
<1>4. capacity \in Nat /\ seen \in 0 .. Updates /\ seen # Updates
  BY SizesAssumption DEF Init
<1>5. TypeOK
  BY <1>1, <1>3, <1>4 DEF Init, TypeOK
<1> QED
  BY <1>2, <1>4, <1>5 DEF Init, PriceInv

LEMMA NextType ==
  ASSUME TypeOK, PriceInv, StreamInv, [Next]_vars
  PROVE  TypeOK' /\ PriceInv'
<1> USE DEF bufferVars, clientVars, handlerVars, chainVars, testVars
<1>1. ASSUME NEW close \in Closes, writePrice(close)  PROVE TypeOK' /\ PriceInv'
  BY <1>1 DEF TypeOK, PriceInv, writePrice, Prices
<1>2. ASSUME NEW s \in streams, realtimeBar(s)  PROVE TypeOK' /\ PriceInv'
  <2>1. s.id \in currentReqs \cup {Underlying}
    BY DEF StreamInv, Streamed
  <2>2. quote' \in Closes \cup {0} /\ arriving' \in Closes \cup {0}
        /\ (Underlying \in bufferMap' => quote' \in Closes)
    BY <1>2 DEF TypeOK, PriceInv, realtimeBar
  <2>3. streams' \subseteq streams
    BY <1>2 DEF realtimeBar, EndsAfterBar
  <2>4. mainPc' = mainPc \/ (mainPc = "asleep" /\ mainPc' = "woken")
    BY <1>2 DEF realtimeBar, notify_one
  <2>5. TypeOK'
    BY <1>2, <2>1, <2>2, <2>3, <2>4 DEF TypeOK, realtimeBar
  <2> QED
    BY <1>2, <2>2, <2>4, <2>5 DEF PriceInv, realtimeBar
<1>3. ASSUME NEW s \in streams, endStream(s)  PROVE TypeOK' /\ PriceInv'
  BY <1>3 DEF TypeOK, PriceInv, endStream
<1>4. ASSUME NEW p \in Prices, updateOptionRequests(p), currentSPX' \in Prices
      PROVE  TypeOK' /\ PriceInv'
  <2>1. /\ Contracts(getStrikes(p)) \subseteq ReqIds \ {Underlying}
        /\ NewContracts(getStrikes(p)) \subseteq Contracts(getStrikes(p))
        /\ IsFiniteSet(NewContracts(getStrikes(p)))
    BY RequestsType
  <2> QED
    BY <1>4, <2>1 DEF TypeOK, PriceInv, updateOptionRequests
<1>5. CASE startStream
  BY <1>4, <1>5 DEF startStream, TypeOK
<1>6. CASE refreshStrikes
  BY <1>4, <1>6 DEF refreshStrikes, PriceInv
<1>7. ASSUME NEW id \in reqQueue, reqRealTimeBars(id)  PROVE TypeOK' /\ PriceInv'
  <2>1. id \in ReqIds
    BY DEF TypeOK
  <2>2. IsFiniteSet(currentReqs') /\ IsFiniteSet(reqQueue')
    BY <1>7, FS_AddElement, FS_RemoveElement DEF PriceInv, reqRealTimeBars
  <2>3. \A s \in streams' : s.id \in ReqIds /\ s.spx \in Prices
    BY <1>7, <2>1 DEF TypeOK, reqRealTimeBars, NewStream
  <2>4. TypeOK'
    BY <1>7, <2>1, <2>3 DEF TypeOK, reqRealTimeBars
  <2> QED
    BY <1>7, <2>2, <2>4 DEF PriceInv, reqRealTimeBars
<1>8. CASE requestsSent
  BY <1>8 DEF TypeOK, PriceInv, requestsSent
<1>9. CASE loopTest
  BY <1>9 DEF TypeOK, PriceInv, loopTest
<1>10. ASSUME NEW expired \in BOOLEAN, checkBufferFull(expired)  PROVE TypeOK' /\ PriceInv'
  <2>1. capacity' \in Nat
    BY <1>10, StatusCapacityType DEF TypeOK, checkBufferFull
  <2>2. mainPc' \in {"process", "asleep"} /\ wasDataProcessed' \in BOOLEAN /\ mainPc # "start"
    BY <1>10 DEF TypeOK, checkBufferFull
  <2>3. TypeOK'
    BY <1>10, <2>1, <2>2 DEF TypeOK, checkBufferFull
  <2> QED
    BY <1>10, <2>2, <2>3 DEF PriceInv, checkBufferFull
<1>11. CASE spuriousWakeup
  BY <1>11 DEF TypeOK, PriceInv, spuriousWakeup
<1>12. CASE processBatch
  <2>1. mainPc' \in {"update", "crashed"} /\ testPc' \in {testPc, wakeTest}
    BY <1>12 DEF processBatch
  <2>2. currentSPX' \in Prices
    BY <1>12 DEF processBatch, PriceInv, Prices
  <2>3. testPc' \in {"check", "asleep", "seen", "join"} /\ (testPc = "join" => testPc' = "join")
    BY <2>1 DEF TypeOK, wakeTest
  <2>4. chain' \subseteq activeReqs'
    BY <1>12 DEF processBatch, TypeOK
  <2>5. TypeOK'
    BY <1>12, <2>1, <2>2, <2>3, <2>4 DEF TypeOK, processBatch
  <2> QED
    BY <1>12, <2>2, <2>3, <2>5 DEF PriceInv, processBatch
<1>13. CASE cancelRealTimeBars
  BY <1>13 DEF TypeOK, PriceInv, cancelRealTimeBars
<1>14. CASE joinStreams
  BY <1>14 DEF TypeOK, PriceInv, joinStreams
<1>15. CASE testWait
  BY <1>15 DEF TypeOK, PriceInv, testWait
<1>16. CASE testReset
  <2>1. seen \in 0 .. Updates /\ seen # Updates /\ Updates \in Nat
    BY <1>16, SizesAssumption DEF TypeOK, PriceInv, testReset
  <2>2. seen' \in 0 .. Updates
    BY <1>16, <2>1 DEF testReset
  <2>3. mDone' \in BOOLEAN /\ testPc' \in {"join", "check"} /\ (seen' = Updates => testPc' = "join")
    BY <1>16 DEF testReset
  <2>4. TypeOK'
    BY <1>16, <2>2, <2>3 DEF TypeOK, testReset
  <2> QED
    BY <1>16, <2>3, <2>4 DEF PriceInv, testReset
<1>17. CASE UNCHANGED vars
  BY <1>17 DEF TypeOK, PriceInv, vars
<1> QED
  BY <1>1, <1>2, <1>3, <1>5, <1>6, <1>7, <1>8, <1>9, <1>10, <1>11, <1>12, <1>13, <1>14, <1>15,
     <1>16, <1>17
  DEF Next, Streaming, MainThread, TestThread

-----------------------------------------------------------------------------
(* The scope and the references.                                           *)

\* A stream stands for its request until it is told to end.
LEMMA StreamStep ==
  ASSUME TypeOK, StreamInv, [Next]_vars
  PROVE  StreamInv'
<1> USE DEF clientVars, handlerVars
<1>1. CASE UNCHANGED <<streams, terminateStream, currentReqs>>
  BY <1>1 DEF StreamInv, Streamed
<1>2. ASSUME NEW s \in streams, realtimeBar(s) \/ endStream(s)  PROVE StreamInv'
  <2>1. /\ streams' \subseteq streams /\ (~terminateStream => streams' = streams)
        /\ UNCHANGED <<terminateStream, currentReqs>>
    BY <1>2 DEF realtimeBar, endStream, EndsAfterBar
  <2> QED
    BY <2>1 DEF StreamInv, Streamed
<1>3. ASSUME NEW id \in reqQueue, reqRealTimeBars(id)  PROVE StreamInv'
  <2>1. /\ streams' = streams \cup {NewStream(id, SPXPrice)} /\ currentReqs' = currentReqs \cup {id}
        /\ terminateStream' = terminateStream /\ NewStream(id, SPXPrice).id = id
    BY <1>3 DEF reqRealTimeBars, NewStream
  <2>2. Streamed' = Streamed \cup {id}
    BY <2>1 DEF Streamed
  <2> QED
    BY <2>1, <2>2 DEF StreamInv
<1>4. CASE cancelRealTimeBars
  BY <1>4 DEF StreamInv, Streamed, cancelRealTimeBars
<1>5. CASE \E close \in Closes : writePrice(close)
  BY <1>1, <1>5 DEF writePrice
<1>6. CASE startStream \/ refreshStrikes \/ requestsSent \/ loopTest \/ joinStreams
  BY <1>1, <1>6 DEF startStream, refreshStrikes, updateOptionRequests, requestsSent, loopTest,
     joinStreams
<1>7. CASE \/ \E expired \in BOOLEAN : checkBufferFull(expired)
           \/ processBatch \/ TestThread \/ spuriousWakeup \/ UNCHANGED vars
  BY <1>1, <1>7 DEF checkBufferFull, processBatch, TestThread, testWait, testReset,
     spuriousWakeup, vars
<1> QED
  BY <1>2, <1>3, <1>4, <1>5, <1>6, <1>7 DEF Next, Streaming, MainThread

\* The handler asks for both contracts of every strike in scope, although it looks a
\* strike up by its call.
LEMMA ScopeStep ==
  ASSUME TypeOK, PriceInv, ScopeInv, [Next]_vars
  PROVE  ScopeInv'
<1> USE DEF handlerVars
<1>1. ASSUME UNCHANGED handlerVars, mainPc' = mainPc \/ mainPc # "send" \/ reqQueue = {}
      PROVE  ScopeInv'
  BY <1>1 DEF ScopeInv, Asked
<1>2. ASSUME NEW p \in Prices, mainPc # "send", updateOptionRequests(p)  PROVE ScopeInv'
  <2> DEFINE strikes == getStrikes(p)
             missing == {s \in strikes : s \notin chain}
             new == NewContracts(strikes)
  <2>1. /\ mainPc' = "send" /\ currentReqs' = currentReqs /\ reqQueue' = new
        /\ consInScope' = Contracts(strikes)
    BY <1>2 DEF updateOptionRequests
  <2>2. reqQueue = {} /\ Asked = currentReqs /\ Asked' = currentReqs \cup new
    BY <1>2, <2>1 DEF ScopeInv, Asked
  <2>3. \A s \in strikes : s \in Int /\ s % 5 = 0
    BY StrikesType
  <2>4. new = Contracts(missing)
    BY DEF NewContracts
  <2>5. \A r \in new : r \in Int /\ r % 5 \in {0, 1} /\ (r % 5 = 0 => r + 1 \in new)
    <3>1. \A s \in missing : s \in Int /\ s % 5 = 0
      BY <2>3
    <3> HIDE DEF missing
    <3> QED
      BY <2>4, <3>1, ContractIds
  <2>6. \A r \in Asked' : r \in Int /\ r % 5 \in {0, 1}
    BY <2>2, <2>5 DEF ScopeInv
  <2>7. \A r \in Asked' : r % 5 = 0 => r + 1 \in Asked'
    BY <2>2, <2>5 DEF ScopeInv
  <2>8. ASSUME NEW s \in strikes  PROVE s \in Asked' /\ s + 1 \in Asked'
    <3>1. CASE s \in chain
      <4>1. s # Underlying
        BY <2>3 DEF Underlying
      <4>2. s \in currentReqs
        BY <3>1, <4>1 DEF TypeOK
      <4> QED
        BY <2>2, <2>3, <2>7, <4>2
    <3>2. CASE s \notin chain
      BY <2>2, <3>2 DEF NewContracts, Contracts
    <3> QED
      BY <3>1, <3>2
  <2>9. Contracts(strikes) \subseteq Asked'
    BY <2>8 DEF Contracts
  <2> QED
    BY <2>1, <2>6, <2>7, <2>9 DEF ScopeInv
<1>3. CASE startStream \/ refreshStrikes
  BY <1>2, <1>3 DEF startStream, refreshStrikes, TypeOK, PriceInv
<1>4. ASSUME NEW id \in reqQueue, reqRealTimeBars(id)  PROVE ScopeInv'
  <2>1. Asked' = Asked /\ mainPc' = "send" /\ consInScope' = consInScope
    BY <1>4 DEF reqRealTimeBars, Asked
  <2> QED
    BY <2>1 DEF ScopeInv
<1>5. CASE Streaming
  BY <1>1, <1>5 DEF Streaming, writePrice, realtimeBar, notify_one, endStream
<1>6. CASE \E expired \in BOOLEAN : checkBufferFull(expired)
  BY <1>1, <1>6 DEF checkBufferFull
<1>7. CASE requestsSent \/ loopTest \/ processBatch \/ cancelRealTimeBars \/ joinStreams
  BY <1>1, <1>7 DEF requestsSent, loopTest, processBatch, cancelRealTimeBars, joinStreams
<1>8. CASE TestThread \/ spuriousWakeup \/ UNCHANGED vars
  BY <1>1, <1>8 DEF TestThread, testWait, testReset, testVars, spuriousWakeup, vars
<1> QED
  BY <1>3, <1>4, <1>5, <1>6, <1>7, <1>8 DEF Next, MainThread

\* A stream keeps its reference values.
LEMMA ReferenceStep ==
  ASSUME ReferenceInv, [Next]_vars
  PROVE  ReferenceInv'
<1> USE DEF clientVars
<1>1. CASE streams' \subseteq streams
  BY <1>1 DEF ReferenceInv
<1>2. ASSUME NEW id \in reqQueue, reqRealTimeBars(id)  PROVE ReferenceInv'
  <2> DEFINE new == NewStream(id, SPXPrice)
  <2>1. streams' = streams \cup {new}
    BY <1>2 DEF reqRealTimeBars
  <2>2. new.id # Underlying => new.ref = calculateOptionRefValues(new.id, new.spx)
    BY DEF NewStream
  <2> HIDE DEF new
  <2> QED
    BY <2>1, <2>2 DEF ReferenceInv
<1>3. CASE Streaming
  BY <1>1, <1>3 DEF Streaming, writePrice, realtimeBar, endStream, EndsAfterBar
<1>4. CASE startStream \/ refreshStrikes \/ requestsSent \/ loopTest
  BY <1>1, <1>4 DEF startStream, refreshStrikes, updateOptionRequests, requestsSent, loopTest
<1>5. CASE \/ \E expired \in BOOLEAN : checkBufferFull(expired)
           \/ processBatch \/ cancelRealTimeBars \/ joinStreams
  BY <1>1, <1>5 DEF checkBufferFull, processBatch, cancelRealTimeBars, joinStreams
<1>6. CASE TestThread \/ spuriousWakeup \/ UNCHANGED vars
  BY <1>1, <1>6 DEF TestThread, testWait, testReset, spuriousWakeup, vars
<1> QED
  BY <1>2, <1>3, <1>4, <1>5, <1>6 DEF Next, MainThread

-----------------------------------------------------------------------------
(* The theorems.                                                           *)

LEMMA Initially == Init => IInv
<1> SUFFICES ASSUME Init PROVE IInv
  OBVIOUS
<1>1. TypeOK /\ PriceInv
  BY InitType
<1>2. \A s \in streams : s.id = Underlying
  BY DEF Init, NewStream
<1>3. StreamInv /\ ReferenceInv
  BY <1>2 DEF Init, StreamInv, Streamed, ReferenceInv
<1>4. Asked = {} /\ ScopeInv
  BY DEF Init, ScopeInv, Asked
<1> QED
  BY <1>1, <1>3, <1>4 DEF IInv

LEMMA Inductive == IInv /\ [Next]_vars => IInv'
BY NextType, StreamStep, ScopeStep, ReferenceStep DEF IInv

THEOREM Invariance == Spec => []IInv
BY Initially, Inductive, PTL DEF Spec

\* Every variable keeps its type: only requested contracts have bars or enter the chain,
\* and no option is requested under the underlying's id.
THEOREM TypeCorrect == Spec => []TypeOK
<1>1. IInv => TypeOK
  BY DEF IInv
<1> QED
  BY <1>1, Invariance, PTL

\* While the scanner waits for a batch every contract in scope has a thread that streams
\* it, whatever the prices and the range of strikes.
THEOREM ScopeAlwaysStreamed == Spec => []ScopeIsStreamed
<1>1. IInv => ScopeIsStreamed
  <2> SUFFICES ASSUME IInv, mainPc \in {"loop", "wait", "asleep", "woken"}, ~terminateStream
               PROVE  consInScope \subseteq Streamed
    BY DEF ScopeIsStreamed, Streamed
  <2> QED
    BY DEF IInv, ScopeInv, StreamInv, Asked
<1> QED
  BY <1>1, Invariance, PTL

\* The reference values of the options are consistent at every price and every strike:
\* the arithmetic of calculateOptionRefValues is monotone on each side of the money.
THEOREM ReferencesAlwaysConsistent == Spec => []ReferencesConsistent
<1>1. IInv => ReferencesConsistent
  <2> SUFFICES ASSUME IInv, NEW s \in streams, NEW t \in streams,
                      s.id # Underlying, t.id # Underlying
               PROVE  /\ s.ref.price >= 0 /\ s.ref.vol >= 0
                      /\ s.spx = t.spx =>
                           /\ ~IsPut(s.id) /\ ~IsPut(t.id) /\ s.id <= t.id =>
                                s.ref.price >= t.ref.price
                           /\ IsPut(s.id) /\ IsPut(t.id) /\ s.id <= t.id =>
                                s.ref.price <= t.ref.price
                           /\ t.id = s.id + 1 /\ IsPut(t.id) /\ ~IsPut(s.id) =>
                                s.ref.price + t.ref.price >= 10
    BY DEF ReferencesConsistent
  <2> DEFINE d == Depth(s.id, s.spx)
             e == Depth(t.id, t.spx)
  <2>1. s.id \in Int /\ t.id \in Int /\ s.spx \in Int /\ t.spx \in Int
    <3>1. s.id \in Asked /\ t.id \in Asked
      BY DEF IInv, StreamInv, Streamed, Asked
    <3>2. s.spx \in Prices /\ t.spx \in Prices
      BY DEF IInv, TypeOK
    <3>3. \A r \in Asked : r \in Int
      BY DEF IInv, ScopeInv
    <3>4. \A p \in Prices : p \in Int
      BY PricesAssumption DEF Prices
    <3> QED
      BY <3>1, <3>2, <3>3, <3>4
  <2>2. /\ s.ref = calculateOptionRefValues(s.id, s.spx)
        /\ t.ref = calculateOptionRefValues(t.id, t.spx)
    BY DEF IInv, ReferenceInv
  <2>3. /\ d \in Int /\ e \in Int /\ s.ref.vol >= 0
        /\ s.ref.price = IF 5 + d < 0 THEN 0 ELSE 5 + d
        /\ t.ref.price = IF 5 + e < 0 THEN 0 ELSE 5 + e
    BY <2>1, <2>2, Values
  <2>4. s.spx = t.spx /\ ~IsPut(s.id) /\ ~IsPut(t.id) /\ s.id <= t.id => d >= e
    BY <2>1, CallDepth
  <2>5. s.spx = t.spx /\ IsPut(s.id) /\ IsPut(t.id) /\ s.id <= t.id => d <= e
    BY <2>1, PutDepth
  <2>6. s.spx = t.spx /\ t.id = s.id + 1 /\ IsPut(t.id) /\ ~IsPut(s.id) => e = - d
    BY <2>1, PairDepth
  <2> HIDE DEF d, e
  <2> QED
    BY <2>3, <2>4, <2>5, <2>6
<1> QED
  BY <1>1, Invariance, PTL
=============================================================================
