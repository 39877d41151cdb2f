------------------------ MODULE OptionScannerProofs ------------------------
(***************************************************************************)
(* Proofs about OptionScanner, for every set of prices, every number of    *)
(* strikes on each side and every initial capacity.                        *)
(***************************************************************************)
EXTENDS OptionScanner, FiniteSetTheorems, TLAPS

-----------------------------------------------------------------------------
(* The request ids.                                                        *)

\* The strikes of a price are finitely many multiples of 5 (populateStrikes).
LEMMA StrikesType ==
  ASSUME NEW p \in Quotes
  PROVE  /\ IsFiniteSet(populateStrikes(p))
         /\ \A s \in populateStrikes(p) : s \in Int /\ s % 5 = 0
<1> DEFINE shifted == p + Multiple \div 2
           rounded == shifted - (shifted % Multiple)
           offsets == -StrikesEachSide .. StrikesEachSide
           f == [k \in offsets |-> rounded + Multiple * k]
<1>1. p \in Nat /\ StrikesEachSide \in Nat /\ Multiple = 5
  BY PricesAssumption, SizesAssumption DEF Quotes, Multiple
<1>2. rounded \in Int /\ rounded % 5 = 0
  BY <1>1
<1>3. IsFiniteSet(offsets)
  BY <1>1, FS_Interval
<1>4. f \in Surjection(offsets, populateStrikes(p))
  BY DEF Surjection, populateStrikes
<1>5. IsFiniteSet(populateStrikes(p))
  BY <1>3, <1>4, FS_Surjection
<1>6. \A k \in offsets : rounded + 5 * k \in Int /\ (rounded + 5 * k) % 5 = 0
  BY <1>1, <1>2
<1>7. \A s \in populateStrikes(p) : \E k \in offsets : s = rounded + 5 * k
  BY <1>1 DEF populateStrikes
<1> QED
  BY <1>5, <1>6, <1>7

\* Adding the puts keeps a set of strikes finite.
LEMMA ContractsFinite ==
  ASSUME NEW S, IsFiniteSet(S)
  PROVE  IsFiniteSet(Contracts(S))
<1> DEFINE puts == {s + 1 : s \in S}
           f == [s \in S |-> s + 1]
<1>1. f \in Surjection(S, puts)
  BY DEF Surjection
<1>2. IsFiniteSet(puts)
  BY <1>1, FS_Surjection
<1> QED
  BY <1>2, FS_Union DEF Contracts

\* No option is requested under the underlying's id 1234: an option's id ends
\* in 0, 1, 5 or 6 (OptionScanner::updateStrikes).
LEMMA UnderlyingIsNoOption ==
  ASSUME NEW p \in Quotes
  PROVE  Underlying \notin Contracts(populateStrikes(p))
BY StrikesType DEF Contracts, Underlying

\* What updateStrikes queues and puts in scope has the right type.
LEMMA UpdateStrikesType ==
  ASSUME NEW p \in Quotes
  PROVE  /\ Contracts(populateStrikes(p)) \subseteq ReqIds
         /\ NewContracts(populateStrikes(p)) \subseteq ReqIds \ {Underlying}
         /\ IsFiniteSet(NewContracts(populateStrikes(p)))
<1>1. NewContracts(populateStrikes(p)) \subseteq Contracts(populateStrikes(p))
  BY DEF NewContracts, Contracts
<1>2. IsFiniteSet(Contracts(populateStrikes(p)))
  BY StrikesType, ContractsFinite
<1>3. Contracts(populateStrikes(p)) \subseteq ReqIds
  BY DEF ReqIds
<1> QED
  BY <1>1, <1>2, <1>3, UnderlyingIsNoOption, FS_Subset

-----------------------------------------------------------------------------
(* Type correctness.                                                       *)

\* The sets of the buffer and the chain are finite because they are sets of
\* streamed requests, and none of them is larger.
LEMMA Sizes ==
  ASSUME TypeOK
  PROVE  /\ Cardinality(requested) \in Nat
         /\ IsFiniteSet(bufferMap) /\ Cardinality(bufferMap) \in Nat
         /\ IsFiniteSet(activeReqs) /\ Cardinality(activeReqs) \in Nat
         /\ Cardinality(bufferMap) <= Cardinality(activeReqs)
         /\ Cardinality(activeReqs) <= Cardinality(requested)
         /\ Cardinality(requested \ activeReqs) = Cardinality(requested) - Cardinality(activeReqs)
         /\ Cardinality(requested \ bufferMap) = Cardinality(requested) - Cardinality(bufferMap)
<1> USE DEF TypeOK
<1>1. IsFiniteSet(activeReqs) /\ Cardinality(activeReqs) <= Cardinality(requested)
  BY FS_Subset
<1>2. IsFiniteSet(bufferMap) /\ Cardinality(bufferMap) <= Cardinality(activeReqs)
  BY <1>1, FS_Subset
<1>3. /\ requested \cap activeReqs = activeReqs
      /\ Cardinality(requested \ activeReqs)
           = Cardinality(requested) - Cardinality(requested \cap activeReqs)
  BY <1>1, FS_Difference
<1>4. /\ requested \cap bufferMap = bufferMap
      /\ Cardinality(requested \ bufferMap)
           = Cardinality(requested) - Cardinality(requested \cap bufferMap)
  BY <1>2, FS_Difference
<1> QED
  BY <1>1, <1>2, <1>3, <1>4, FS_CardinalityType

LEMMA InitType == Init => TypeOK
<1>1. 0 \in Quotes /\ Underlying \in ReqIds /\ IsFiniteSet({Underlying})
  BY FS_Singleton DEF Quotes, ReqIds
<1>2. IsFiniteSet({})
  BY FS_EmptySet
<1>3. SUFFICES ASSUME Init PROVE TypeOK
  OBVIOUS
<1>4. /\ mainPc = "snapshot" /\ req \in {0, MarketDataReq}
      /\ capacity \in Nat /\ addedContracts \in Nat
  BY <1>3, SizesAssumption DEF Init
<1>5. /\ requested \subseteq ReqIds /\ IsFiniteSet(requested)
      /\ contractReqQueue \subseteq ReqIds \ {Underlying} /\ IsFiniteSet(contractReqQueue)
  BY <1>1, <1>2, <1>3 DEF Init
<1> QED
  BY <1>1, <1>3, <1>4, <1>5 DEF Init, TypeOK

\* A status check leaves a natural number in capacity_.
LEMMA StatusCapacityType ==
  ASSUME TypeOK
  PROVE  /\ StatusCapacity \in Nat
         /\ StatusCapacity >= Cardinality(activeReqs)
         /\ wasDataProcessed => StatusCapacity >= capacity
BY Sizes DEF StatusCapacity, TypeOK

LEMMA NextType == TypeOK /\ [Next]_vars => TypeOK'
<1> SUFFICES ASSUME TypeOK, [Next]_vars
             PROVE  TypeOK'
  OBVIOUS
<1> USE DEF wrapperVars, bufferVars, requestVars, chainVars
<1>1. ASSUME NEW price \in Prices, tickPrice(price)  PROVE TypeOK'
  BY <1>1 DEF TypeOK, tickPrice, Quotes
<1>2. CASE tickSnapshotEnd
  BY <1>2 DEF TypeOK, tickSnapshotEnd
<1>3. CASE winError
  BY <1>3 DEF TypeOK, winError
<1>4. ASSUME NEW id \in {-1, Underlying}, error(id)  PROVE TypeOK'
  BY <1>4 DEF TypeOK, error, Underlying
<1>5. ASSUME NEW r \in requested, NEW close \in Prices, realtimeBar(r, close)  PROVE TypeOK'
  BY <1>5 DEF TypeOK, realtimeBar, notify_one, Quotes
<1>6. ASSUME NEW p \in Quotes, UpdateStrikes(p)  PROVE TypeOK'
  BY <1>6, UpdateStrikesType DEF TypeOK, UpdateStrikes
<1>7. CASE startStream
  BY <1>6, <1>7 DEF TypeOK, startStream
<1>8. CASE refreshStrikes
  BY <1>6, <1>8 DEF TypeOK, refreshStrikes
<1>9. ASSUME NEW r \in contractReqQueue, sendRequest(r)  PROVE TypeOK'
  <2>1. IsFiniteSet(requested') /\ IsFiniteSet(contractReqQueue')
    BY <1>9, FS_AddElement, FS_RemoveElement DEF TypeOK, sendRequest
  <2> QED
    BY <1>9, <2>1 DEF TypeOK, sendRequest
<1>10. CASE setBufferCapacity
  BY <1>10 DEF TypeOK, setBufferCapacity
<1>11. CASE loopTest
  BY <1>11 DEF TypeOK, loopTest
<1>12. ASSUME NEW expired \in BOOLEAN, checkBufferFull(expired)  PROVE TypeOK'
  <2>1. capacity' \in Nat
    BY <1>12, StatusCapacityType DEF TypeOK, checkBufferFull
  <2>2. mainPc' \in {"process", "asleep"} /\ wasDataProcessed' \in BOOLEAN
    BY <1>12 DEF TypeOK, checkBufferFull
  <2>3. unseen' \in Nat
    BY <1>12, Sizes DEF TypeOK, checkBufferFull
  <2> QED
    BY <1>12, <2>1, <2>2, <2>3 DEF TypeOK, checkBufferFull
<1>13. CASE spuriousWakeup
  BY <1>13 DEF TypeOK, spuriousWakeup
<1>14. CASE processBuffer
  BY <1>14 DEF TypeOK, processBuffer
<1>15. ASSUME NEW r \in batch, updateQuietly(r)  PROVE TypeOK'
  BY <1>15 DEF TypeOK, updateQuietly
<1>16. ASSUME NEW r \in batch, raiseAlert(r)  PROVE TypeOK'
  BY <1>16 DEF TypeOK, raiseAlert
<1>17. CASE finishAlert
  BY <1>17 DEF TypeOK, finishAlert
<1>18. CASE unlockWrapper
  BY <1>18 DEF TypeOK, unlockWrapper
<1>19. CASE UNCHANGED vars
  BY <1>19 DEF TypeOK, vars
<1> QED
  BY <1>1, <1>2, <1>3, <1>4, <1>5, <1>7, <1>8, <1>9, <1>10, <1>11, <1>12, <1>13, <1>14,
     <1>15, <1>16, <1>17, <1>18, <1>19
  DEF Next, MessageThread, MainThread, MainStep

\* Every variable of the scanner keeps its type; in particular only streamed
\* requests have bars, and only those contracts enter the chain.
THEOREM TypeCorrect == Spec => []TypeOK
<1> QED
  BY InitType, NextType, PTL DEF Spec

-----------------------------------------------------------------------------
(* Safety of the whole specification, early status checks included.        *)

\* The underlying is first in every batch, so it is in the chain before any
\* option of the batch can raise an alert.
UnderlyingInv ==
  /\ mainPc \in {"candle", "alert"} => Underlying \in batch \cup chain
  /\ mainPc = "alert" => candle \in batch /\ candle # Underlying
  /\ UnderlyingKnown

\* Inductive strengthening of BufferCanFill: a buffer about to be processed is
\* full, and a full buffer holds no more bars than there are streams.
FillInv ==
  /\ wasDataProcessed => capacity <= Cardinality(requested)
  /\ mainPc = "process" => capacity <= Cardinality(bufferMap)

\* Calls and puts are requested together, and what is in scope is streamed or
\* about to be requested.
Asked == requested \cup contractReqQueue
ScopeInv ==
  /\ contractReqQueue # {} => mainPc = "send"
  /\ \A r \in Asked : r % 5 = 0 => r + 1 \in Asked
  /\ \A r \in Asked : r % 5 = 1 => r - 1 \in Asked
  /\ contractsInScope \subseteq Asked

\* The streams that are requested fit the capacity but for those that had no first
\* bar when a check set it; a new capacity counts every request.
UnseenInv ==
  /\ Cardinality(requested) <= addedContracts
  /\ Waiting => Cardinality(requested) <= capacity + unseen
  /\ LacksAtMostUnseen
  /\ CrashNeedsEarlyCheck

SafetyInv == TypeOK /\ NoLostWakeup /\ UnderlyingInv /\ FillInv /\ ScopeInv /\ UnseenInv

LEMMA InitSafety == Init => SafetyInv
<1> SUFFICES ASSUME Init PROVE SafetyInv
  OBVIOUS
<1>1. TypeOK
  BY InitType
<1>2. NoLostWakeup /\ UnderlyingInv /\ FillInv
  BY DEF Init, NoLostWakeup, UnderlyingInv, UnderlyingKnown, FillInv
<1>3. Asked = {1234} /\ contractReqQueue = {} /\ contractsInScope = {}
  BY DEF Init, Asked, Underlying
<1>4. ScopeInv
  BY <1>3 DEF ScopeInv
<1>5. UnseenInv
  <2>1. Cardinality(requested) = 1 /\ addedContracts = 1
    BY FS_Singleton DEF Init
  <2> QED
    BY <2>1 DEF Init, UnseenInv, Waiting, LacksAtMostUnseen, CrashNeedsEarlyCheck
<1> QED
  BY <1>1, <1>2, <1>4, <1>5 DEF SafetyInv

LEMMA NextWakeup == TypeOK /\ NoLostWakeup /\ [Next]_vars => NoLostWakeup'
<1> SUFFICES ASSUME TypeOK, NoLostWakeup, [Next]_vars
             PROVE  NoLostWakeup'
  OBVIOUS
<1> USE DEF wrapperVars, bufferVars, requestVars, chainVars
<1>1. ASSUME mainPc' = mainPc, UNCHANGED <<bufferMap, capacity>>  PROVE NoLostWakeup'
  BY <1>1 DEF NoLostWakeup
<1>2. ASSUME mainPc' # "asleep"  PROVE NoLostWakeup'
  BY <1>2 DEF NoLostWakeup
<1>3. ASSUME NEW expired \in BOOLEAN, checkBufferFull(expired)  PROVE NoLostWakeup'
  <2>1. capacity' \in Nat
    BY <1>3, StatusCapacityType DEF TypeOK, checkBufferFull
  <2> QED
    BY <1>3, <2>1, Sizes DEF NoLostWakeup, checkBufferFull
<1>4. CASE MessageThread
  BY <1>1, <1>2, <1>4
  DEF MessageThread, tickPrice, tickSnapshotEnd, winError, error, realtimeBar, notify_one
<1>5. CASE MainStep
  BY <1>1, <1>2, <1>5
  DEF MainStep, startStream, refreshStrikes, UpdateStrikes, sendRequest, setBufferCapacity,
      loopTest, processBuffer, updateQuietly, raiseAlert, finishAlert, unlockWrapper
<1>6. CASE spuriousWakeup
  BY <1>2, <1>6 DEF spuriousWakeup
<1>7. CASE UNCHANGED vars
  BY <1>1, <1>7 DEF vars
<1> QED
  BY <1>3, <1>4, <1>5, <1>6, <1>7 DEF Next, MainThread

LEMMA NextUnderlying == TypeOK /\ UnderlyingInv /\ [Next]_vars => UnderlyingInv'
<1> SUFFICES ASSUME TypeOK, UnderlyingInv, [Next]_vars
             PROVE  UnderlyingInv'
  OBVIOUS
<1> USE DEF wrapperVars, bufferVars, requestVars, chainVars, UnderlyingInv, UnderlyingKnown
<1>1. ASSUME mainPc' = mainPc, UNCHANGED chainVars  PROVE UnderlyingInv'
  BY <1>1
<1>2. ASSUME mainPc' \notin {"candle", "alert", "update"}  PROVE UnderlyingInv'
  BY <1>2
<1>3. CASE processBuffer
  BY <1>3 DEF processBuffer
<1>4. ASSUME NEW r \in batch, updateQuietly(r)  PROVE UnderlyingInv'
  BY <1>4 DEF updateQuietly
<1>5. ASSUME NEW r \in batch, raiseAlert(r)  PROVE UnderlyingInv'
  BY <1>5 DEF raiseAlert, NextInBatch
<1>6. CASE finishAlert
  BY <1>6 DEF finishAlert
<1>7. CASE unlockWrapper
  BY <1>7 DEF unlockWrapper
<1>8. CASE MessageThread
  BY <1>1, <1>2, <1>8
  DEF MessageThread, tickPrice, tickSnapshotEnd, winError, error, realtimeBar, notify_one
<1>9. CASE spuriousWakeup \/ \E expired \in BOOLEAN : checkBufferFull(expired)
  BY <1>2, <1>9 DEF spuriousWakeup, checkBufferFull
<1>10. CASE startStream \/ refreshStrikes \/ setBufferCapacity \/ loopTest
  BY <1>2, <1>10 DEF startStream, refreshStrikes, UpdateStrikes, setBufferCapacity, loopTest
<1>11. ASSUME NEW r \in contractReqQueue, sendRequest(r)  PROVE UnderlyingInv'
  BY <1>1, <1>11 DEF sendRequest
<1>12. CASE UNCHANGED vars
  BY <1>1, <1>12 DEF vars
<1> QED
  BY <1>3, <1>4, <1>5, <1>6, <1>7, <1>8, <1>9, <1>10, <1>11, <1>12 DEF Next, MainThread, MainStep

LEMMA NextFill == TypeOK /\ FillInv /\ [Next]_vars => FillInv'
<1> SUFFICES ASSUME TypeOK, FillInv, [Next]_vars
             PROVE  FillInv'
  OBVIOUS
<1> USE DEF wrapperVars, bufferVars, requestVars, chainVars
<1>1. ASSUME UNCHANGED <<capacity, wasDataProcessed, requested>>, mainPc' # "process"
      PROVE  FillInv'
  BY <1>1 DEF FillInv
<1>2. ASSUME mainPc' = mainPc, UNCHANGED <<capacity, wasDataProcessed, requested, bufferMap>>
      PROVE  FillInv'
  BY <1>2 DEF FillInv
<1>3. ASSUME NEW r \in requested, NEW close \in Prices, realtimeBar(r, close)  PROVE FillInv'
  BY <1>1, <1>3 DEF realtimeBar, MainHoldsWrapperMtx, notify_one
<1>4. ASSUME NEW r \in contractReqQueue, sendRequest(r)  PROVE FillInv'
  <2>1. requested' = requested \cup {r} /\ IsFiniteSet(requested) /\ capacity \in Nat
    BY <1>4 DEF sendRequest, TypeOK
  <2>2. Cardinality(requested') >= Cardinality(requested) /\ Cardinality(requested') \in Nat
    <3>1. Cardinality(requested \cup {r}) =
            IF r \in requested THEN Cardinality(requested) ELSE Cardinality(requested) + 1
      BY <2>1, FS_AddElement
    <3>2. Cardinality(requested) \in Nat
      BY Sizes
    <3> QED
      BY <2>1, <3>1, <3>2
  <2>3. UNCHANGED <<capacity, wasDataProcessed, bufferMap>> /\ mainPc' = "send"
    BY <1>4 DEF sendRequest
  <2>4. wasDataProcessed => capacity <= Cardinality(requested')
    BY <2>1, <2>2, Sizes DEF FillInv
  <2> QED
    BY <2>3, <2>4 DEF FillInv
<1>5. CASE setBufferCapacity
  <2>1. wasDataProcessed' => wasDataProcessed /\ addedContracts <= capacity
    BY <1>5 DEF setBufferCapacity
  <2>2. addedContracts <= capacity => capacity' = capacity
    BY <1>5 DEF setBufferCapacity, TypeOK
  <2>3. requested' = requested /\ mainPc' = "loop"
    BY <1>5 DEF setBufferCapacity
  <2> QED
    BY <2>1, <2>2, <2>3 DEF FillInv
<1>6. ASSUME NEW expired \in BOOLEAN, checkBufferFull(expired)  PROVE FillInv'
  <2>1. StatusCapacity \in Nat /\ capacity' \in Nat
    BY <1>6, StatusCapacityType DEF TypeOK, checkBufferFull
  <2>2. wasDataProcessed' => capacity' = capacity /\ wasDataProcessed
    <3>1. CASE expired
      <4>1. wasDataProcessed' => wasDataProcessed /\ Cardinality(activeReqs) <= capacity
        BY <1>6, <3>1 DEF checkBufferFull
      <4>2. wasDataProcessed /\ Cardinality(activeReqs) <= capacity => StatusCapacity = capacity
        BY Sizes DEF StatusCapacity, TypeOK
      <4> QED
        BY <1>6, <3>1, <4>1, <4>2 DEF checkBufferFull
    <3>2. CASE ~expired
      BY <1>6, <3>2 DEF checkBufferFull
    <3> QED
      BY <3>1, <3>2
  <2>3. mainPc' = "process" => capacity' <= Cardinality(bufferMap)
    BY <1>6, <2>1, Sizes DEF TypeOK, checkBufferFull
  <2>4. bufferMap' = bufferMap /\ requested' = requested
    BY <1>6 DEF checkBufferFull
  <2> QED
    BY <2>2, <2>3, <2>4 DEF FillInv
<1>7. CASE processBuffer
  BY <1>7, Sizes DEF processBuffer, FillInv, TypeOK
<1>8. ASSUME NEW price \in Prices, tickPrice(price)  PROVE FillInv'
  BY <1>2, <1>8 DEF tickPrice
<1>9. ASSUME NEW id \in {-1, Underlying}, error(id)  PROVE FillInv'
  BY <1>2, <1>9 DEF error
<1>10. CASE tickSnapshotEnd \/ winError
  BY <1>2, <1>10 DEF tickSnapshotEnd, winError
<1>11. CASE startStream \/ refreshStrikes \/ loopTest \/ spuriousWakeup \/ finishAlert \/ unlockWrapper
  BY <1>1, <1>11
  DEF startStream, refreshStrikes, UpdateStrikes, loopTest, spuriousWakeup, finishAlert, unlockWrapper
<1>12. ASSUME NEW r \in batch, updateQuietly(r) \/ raiseAlert(r)  PROVE FillInv'
  BY <1>1, <1>12 DEF updateQuietly, raiseAlert
<1>13. CASE UNCHANGED vars
  BY <1>2, <1>13 DEF vars
<1> QED
  BY <1>3, <1>4, <1>5, <1>6, <1>7, <1>8, <1>9, <1>10, <1>11, <1>12, <1>13
  DEF Next, MessageThread, MainThread, MainStep

\* The contracts updateStrikes queues come in pairs of a call (r % 5 = 0) and a
\* put (r % 5 = 1).
LEMMA NewContractsPaired ==
  ASSUME NEW p \in Quotes
  PROVE  \A r \in NewContracts(populateStrikes(p)) :
           /\ r \in Int /\ r % 5 \in {0, 1}
           /\ r % 5 = 0 => r \in populateStrikes(p) /\ r \notin chain
           /\ r % 5 = 0 => r + 1 \in NewContracts(populateStrikes(p))
           /\ r % 5 = 1 => r - 1 \in populateStrikes(p) /\ r - 1 \notin chain
           /\ r % 5 = 1 => r - 1 \in NewContracts(populateStrikes(p))
<1> DEFINE new == {s \in populateStrikes(p) : s \notin chain}
<1>1. \A s \in new : s \in Int /\ s % 5 = 0 /\ (s + 1) % 5 = 1 /\ (s + 1) - 1 = s
  BY StrikesType
<1>2. NewContracts(populateStrikes(p)) = new \cup {s + 1 : s \in new}
  BY DEF NewContracts, Contracts
<1>3. ASSUME NEW r \in NewContracts(populateStrikes(p))
      PROVE  \/ r \in new /\ r % 5 = 0 /\ r + 1 \in NewContracts(populateStrikes(p))
             \/ r - 1 \in new /\ r % 5 = 1 /\ r - 1 \in NewContracts(populateStrikes(p))
  BY <1>1, <1>2
<1>4. \A r \in NewContracts(populateStrikes(p)) : r \in Int
  BY <1>1, <1>2
<1> HIDE DEF new
<1>5. \A s \in new : s \in populateStrikes(p) /\ s \notin chain
  BY DEF new
<1> QED
  BY <1>3, <1>4, <1>5

LEMMA NextScope == TypeOK /\ ScopeInv /\ [Next]_vars => ScopeInv'
<1> SUFFICES ASSUME TypeOK, ScopeInv, [Next]_vars
             PROVE  ScopeInv'
  OBVIOUS
<1> USE DEF wrapperVars, bufferVars, requestVars, chainVars
<1>1. ASSUME UNCHANGED requestVars, mainPc' = mainPc \/ mainPc # "send" \/ contractReqQueue = {}
      PROVE  ScopeInv'
  BY <1>1 DEF ScopeInv, Asked
<1>2. ASSUME NEW p \in Quotes, mainPc # "send", UpdateStrikes(p)  PROVE ScopeInv'
  <2> DEFINE strikes == populateStrikes(p)
             new == NewContracts(strikes)
  <2>1. /\ mainPc' = "send" /\ requested' = requested /\ contractReqQueue' = new
        /\ contractsInScope' = Contracts(strikes)
    BY <1>2 DEF UpdateStrikes
  <2>2. contractReqQueue = {} /\ Asked = requested /\ Asked' = requested \cup new
    BY <1>2, <2>1 DEF ScopeInv, Asked
  <2>3. \A r \in Asked' : r % 5 = 0 => r + 1 \in Asked'
    BY <2>2, NewContractsPaired DEF ScopeInv
  <2>4. \A r \in Asked' : r % 5 = 1 => r - 1 \in Asked'
    BY <2>2, NewContractsPaired DEF ScopeInv
  <2>5. \A s \in strikes : s \in Asked' /\ s + 1 \in Asked'
    <3> SUFFICES ASSUME NEW s \in strikes PROVE s \in Asked' /\ s + 1 \in Asked'
      OBVIOUS
    <3>1. CASE s \in chain
      BY <2>2, <3>1, StrikesType DEF ScopeInv, TypeOK
    <3>2. CASE s \notin chain
      BY <2>2, <3>2 DEF NewContracts, Contracts
    <3> QED
      BY <3>1, <3>2
  <2>6. Contracts(strikes) \subseteq Asked'
    BY <2>5 DEF Contracts
  <2> QED
    BY <2>1, <2>3, <2>4, <2>6 DEF ScopeInv
<1>3. CASE startStream \/ refreshStrikes
  BY <1>2, <1>3 DEF startStream, refreshStrikes, TypeOK
<1>4. ASSUME NEW r \in contractReqQueue, sendRequest(r)  PROVE ScopeInv'
  <2>1. Asked' = Asked /\ mainPc' = "send" /\ contractsInScope' = contractsInScope
    BY <1>4 DEF sendRequest, Asked
  <2> QED
    BY <2>1 DEF ScopeInv
<1>5. CASE MessageThread
  BY <1>1, <1>5
  DEF MessageThread, tickPrice, tickSnapshotEnd, winError, error, realtimeBar, notify_one
<1>6. CASE \E expired \in BOOLEAN : checkBufferFull(expired)
  BY <1>1, <1>6 DEF checkBufferFull
<1>7. CASE setBufferCapacity \/ loopTest \/ spuriousWakeup \/ processBuffer
  BY <1>1, <1>7 DEF setBufferCapacity, loopTest, spuriousWakeup, processBuffer
<1>8. CASE finishAlert \/ unlockWrapper \/ \E r \in batch : updateQuietly(r) \/ raiseAlert(r)
  BY <1>1, <1>8 DEF finishAlert, unlockWrapper, updateQuietly, raiseAlert
<1>9. CASE UNCHANGED vars
  BY <1>1, <1>9 DEF vars
<1> QED
  BY <1>3, <1>4, <1>5, <1>6, <1>7, <1>8, <1>9 DEF Next, MainThread, MainStep

LEMMA NextUnseen == TypeOK /\ UnseenInv /\ [Next]_vars => UnseenInv'
<1> SUFFICES ASSUME TypeOK, UnseenInv, [Next]_vars
             PROVE  UnseenInv'
  OBVIOUS
<1> USE DEF wrapperVars, bufferVars, requestVars, chainVars
<1> USE DEF UnseenInv, Waiting, LacksAtMostUnseen, CrashNeedsEarlyCheck
<1>1. ASSUME UNCHANGED <<requested, addedContracts, capacity, unseen>>,
             mainPc' \in {"process", "crashed"} => mainPc' = mainPc /\ bufferMap' = bufferMap,
             mainPc' \in {"loop", "wait", "asleep", "woken"}
               => mainPc \in {"loop", "wait", "asleep", "woken"}
      PROVE  UnseenInv'
  BY <1>1
<1>2. CASE MessageThread
  BY <1>1, <1>2
  DEF MessageThread, tickPrice, tickSnapshotEnd, winError, error, realtimeBar, notify_one,
      MainHoldsWrapperMtx, Running
<1>3. CASE startStream \/ refreshStrikes \/ loopTest \/ spuriousWakeup
  BY <1>1, <1>3 DEF startStream, refreshStrikes, UpdateStrikes, loopTest, spuriousWakeup
<1>4. CASE finishAlert \/ unlockWrapper \/ \E r \in batch : updateQuietly(r) \/ raiseAlert(r)
  BY <1>1, <1>4 DEF finishAlert, unlockWrapper, updateQuietly, raiseAlert
<1>5. ASSUME NEW r \in contractReqQueue, sendRequest(r)  PROVE UnseenInv'
  <2>1. /\ requested' = requested \cup {r} /\ addedContracts' = addedContracts + 1
        /\ mainPc' = "send"
    BY <1>5 DEF sendRequest
  <2>2. Cardinality(requested \cup {r}) =
          IF r \in requested THEN Cardinality(requested) ELSE Cardinality(requested) + 1
    BY FS_AddElement DEF TypeOK
  <2>3. Cardinality(requested') <= addedContracts'
    BY <2>1, <2>2, Sizes DEF TypeOK
  <2> QED
    BY <2>1, <2>3
<1>6. CASE setBufferCapacity
  <2>1. mainPc' = "loop" /\ UNCHANGED <<requested, addedContracts>>
    BY <1>6 DEF setBufferCapacity
  <2>2. CASE addedContracts > capacity
    <3>1. capacity' = addedContracts /\ unseen' = 0
      BY <1>6, <2>2 DEF setBufferCapacity
    <3> QED
      BY <2>1, <3>1, Sizes DEF TypeOK
  <2>3. CASE ~(addedContracts > capacity)
    <3>1. capacity' = capacity /\ unseen' = unseen
      BY <1>6, <2>3 DEF setBufferCapacity
    <3>2. Cardinality(requested) <= capacity + unseen
      BY <2>3, Sizes DEF TypeOK
    <3> QED
      BY <2>1, <3>1, <3>2
  <2> QED
    BY <2>2, <2>3
<1>7. ASSUME NEW expired \in BOOLEAN, checkBufferFull(expired)  PROVE UnseenInv'
  <2>1. /\ mainPc \in {"wait", "woken"} /\ mainPc' \in {"process", "asleep"}
        /\ UNCHANGED <<requested, addedContracts, bufferMap>>
    BY <1>7 DEF checkBufferFull
  <2>2. capacity' \in Nat /\ unseen' \in Nat
    BY <1>7, StatusCapacityType, Sizes DEF checkBufferFull, TypeOK
  <2>3. Cardinality(requested) <= capacity' + unseen'
    <3>1. CASE expired /\ StatusSets
      <4>1. StatusCapacity = Cardinality(activeReqs)
        BY <3>1, Sizes DEF StatusSets, StatusCapacity, TypeOK
      <4> QED
        BY <1>7, <3>1, <4>1, Sizes DEF checkBufferFull
    <3>2. CASE expired /\ ~StatusSets
      <4>1. StatusCapacity = capacity
        BY <3>2, Sizes DEF StatusSets, StatusCapacity, TypeOK
      <4> QED
        BY <1>7, <2>1, <3>2, <4>1 DEF checkBufferFull
    <3>3. CASE ~expired
      BY <1>7, <2>1, <3>3 DEF checkBufferFull
    <3> QED
      BY <3>1, <3>2, <3>3
  <2>4. mainPc' = "process" => Cardinality(bufferMap) >= capacity'
    BY <1>7 DEF checkBufferFull
  <2>5. mainPc' = "process" => Cardinality(requested \ bufferMap) <= unseen'
    BY <2>2, <2>3, <2>4, Sizes
  <2> QED
    BY <2>1, <2>3, <2>5
<1>8. CASE processBuffer
  <2>1. UNCHANGED <<requested, addedContracts, capacity, unseen>>
    BY <1>8 DEF processBuffer
  <2>2. CASE Underlying \in bufferMap
    BY <1>8, <2>1, <2>2 DEF processBuffer
  <2>3. CASE Underlying \notin bufferMap
    <3>1. Underlying \in requested \ bufferMap /\ IsFiniteSet(requested \ bufferMap)
      BY <2>3, FS_Subset DEF TypeOK
    <3>2. Cardinality(requested \ bufferMap) # 0
      BY <3>1, FS_EmptySet
    <3>3. mainPc = "process" /\ mainPc' = "crashed"
      BY <1>8, <2>3 DEF processBuffer
    <3>4. unseen > 0
      BY <3>2, <3>3, Sizes DEF TypeOK
    <3> QED
      BY <2>1, <3>3, <3>4
  <2> QED
    BY <2>2, <2>3
<1>9. CASE UNCHANGED vars
  BY <1>1, <1>9 DEF vars
<1> QED
  BY <1>2, <1>3, <1>4, <1>5, <1>6, <1>7, <1>8, <1>9 DEF Next, MainThread, MainStep

LEMMA SafetyInvariant == Spec => []SafetyInv
<1>1. SafetyInv /\ [Next]_vars => SafetyInv'
  BY NextType, NextWakeup, NextUnderlying, NextFill, NextScope, NextUnseen DEF SafetyInv
<1> QED
  BY <1>1, InitSafety, PTL DEF Spec

\* The main thread never sleeps on a full buffer.
THEOREM NeverSleepsOnFullBuffer == Spec => []NoLostWakeup
<1>1. SafetyInv => NoLostWakeup
  BY DEF SafetyInv
<1> QED
  BY <1>1, SafetyInvariant, PTL

\* contractChain_->at(1234) finds the underlying in the alert callback and in
\* the argument of updateStrikes.
THEOREM UnderlyingAlwaysKnown == Spec => []UnderlyingKnown
<1>1. SafetyInv => UnderlyingKnown
  BY DEF SafetyInv, UnderlyingInv
<1> QED
  BY <1>1, SafetyInvariant, PTL

\* Whatever the status check did before, a buffer with the repair disarmed
\* waits for no more bars than there are streams.
THEOREM BufferAlwaysCanFill == Spec => []BufferCanFill
<1>1. SafetyInv => BufferCanFill
  BY DEF SafetyInv, FillInv, BufferCanFill
<1> QED
  BY <1>1, SafetyInvariant, PTL

\* Once the requests are out, both contracts of every strike in scope stream.
THEOREM ScopeAlwaysStreamed == Spec => []ScopeIsStreamed
<1>1. SafetyInv => ScopeIsStreamed
  BY DEF SafetyInv, ScopeInv, ScopeIsStreamed, Asked, Waiting
<1> QED
  BY <1>1, SafetyInvariant, PTL

\* Early status checks included, a batch lacks no more streams than had no first bar
\* when its capacity was set by a check; without such a check it is complete.
THEOREM LacksAlwaysAtMostUnseen == Spec => []LacksAtMostUnseen
<1>1. SafetyInv => LacksAtMostUnseen
  BY DEF SafetyInv, UnseenInv
<1> QED
  BY <1>1, SafetyInvariant, PTL

\* at(1234) of processBuffer throws only under a capacity that a check set before
\* some stream's first bar.
THEOREM CrashAlwaysNeedsEarlyCheck == Spec => []CrashNeedsEarlyCheck
<1>1. SafetyInv => CrashNeedsEarlyCheck
  BY DEF SafetyInv, UnseenInv
<1> QED
  BY <1>1, SafetyInvariant, PTL

-----------------------------------------------------------------------------
(* Settled sessions: no status check runs out before a stream's first bar.  *)

SettledInv ==
  /\ NoDuplicateRequest
  /\ contractReqQueue \cap requested = {}
  /\ Waiting => capacity >= Cardinality(requested)
  /\ mainPc = "process" => bufferMap = requested
  /\ mainPc \in {"candle", "alert"} => chain \cup batch = requested
  /\ mainPc = "alert" => candle \in batch
  /\ mainPc = "update" => chain = requested
  /\ mainPc = "snapshot" => requested = {Underlying} /\ chain = {}

LEMMA SettledIsNext == [SettledNext]_vars => [Next]_vars
BY DEF SettledNext, SettledCheck, Next, MainThread

LEMMA InitSettled == Init => SettledInv
<1>1. Cardinality({Underlying}) = 1
  BY FS_Singleton
<1> QED
  BY <1>1 DEF Init, SettledInv, NoDuplicateRequest, Waiting

\* A buffer with a bar for each of at least as many requests as are streamed
\* holds exactly the streamed requests.
LEMMA FullBufferIsComplete ==
  ASSUME TypeOK, Cardinality(bufferMap) >= Cardinality(requested)
  PROVE  bufferMap = requested
BY Sizes, FS_Subset DEF TypeOK

LEMMA NextSettled ==
  TypeOK /\ ScopeInv /\ SettledInv /\ [SettledNext]_vars => SettledInv'
<1> SUFFICES ASSUME TypeOK, ScopeInv, SettledInv, [SettledNext]_vars
             PROVE  SettledInv'
  OBVIOUS
<1> USE DEF wrapperVars, bufferVars, requestVars, chainVars
<1> USE DEF NoDuplicateRequest, Waiting
<1>1. ASSUME mainPc' = mainPc, UNCHANGED <<bufferMap, capacity, requestVars, chainVars>>
      PROVE  SettledInv'
  BY <1>1 DEF SettledInv
<1>2. ASSUME NEW r \in requested, NEW close \in Prices, realtimeBar(r, close)  PROVE SettledInv'
  BY <1>2 DEF SettledInv, realtimeBar, MainHoldsWrapperMtx, notify_one
<1>3. ASSUME NEW p \in Quotes, mainPc \in {"snapshot", "update"}, UpdateStrikes(p)
      PROVE  SettledInv'
  <2> DEFINE new == NewContracts(populateStrikes(p))
  <2>1. /\ mainPc' = "send" /\ contractReqQueue' = new
        /\ UNCHANGED <<requested, addedContracts, chainVars, bufferMap, capacity>>
    BY <1>3 DEF UpdateStrikes
  <2>2. Asked = requested
    BY <1>3 DEF ScopeInv, Asked
  <2>3. ASSUME NEW r \in new, r \in requested  PROVE FALSE
    <3>1. CASE mainPc = "snapshot"
      BY <2>3, <3>1, UpdateStrikesType DEF SettledInv
    <3>2. CASE mainPc = "update"
      <4>1. chain = requested
        BY <3>2 DEF SettledInv
      <4>2. CASE r % 5 = 0
        BY <2>3, <4>1, <4>2, NewContractsPaired
      <4>3. CASE r % 5 = 1
        <5>1. r - 1 \notin chain
          BY <4>3, NewContractsPaired
        <5>2. r - 1 \in requested
          BY <2>2, <2>3, <4>3 DEF ScopeInv
        <5> QED
          BY <4>1, <5>1, <5>2
      <4> QED
        BY <4>2, <4>3, NewContractsPaired
    <3> QED
      BY <1>3, <3>1, <3>2
  <2>4. contractReqQueue' \cap requested' = {}
    BY <2>1, <2>3
  <2> QED
    BY <2>1, <2>4 DEF SettledInv
<1>4. CASE startStream \/ refreshStrikes
  BY <1>3, <1>4 DEF startStream, refreshStrikes, TypeOK
<1>5. ASSUME NEW r \in contractReqQueue, sendRequest(r)  PROVE SettledInv'
  <2>1. r \notin requested /\ requested' = requested \cup {r} /\ IsFiniteSet(requested)
    BY <1>5 DEF sendRequest, SettledInv, TypeOK
  <2>2. Cardinality(requested \cup {r}) = Cardinality(requested) + 1
    BY <2>1, FS_AddElement
  <2>3. addedContracts' = Cardinality(requested')
    BY <1>5, <2>1, <2>2 DEF sendRequest, SettledInv
  <2> QED
    BY <1>5, <2>1, <2>3 DEF sendRequest, SettledInv
<1>6. CASE setBufferCapacity
  <2>1. capacity' >= addedContracts
    BY <1>6 DEF setBufferCapacity, TypeOK
  <2> QED
    BY <1>6, <2>1 DEF setBufferCapacity, SettledInv
<1>7. ASSUME NEW expired \in BOOLEAN, expired => wasDataProcessed \/ activeReqs = requested,
             checkBufferFull(expired)
      PROVE  SettledInv'
  <2>1. mainPc \in {"wait", "woken"} /\ mainPc' \in {"process", "asleep"}
    BY <1>7 DEF checkBufferFull
  <2>2. capacity' \in Nat
    BY <1>7, StatusCapacityType DEF checkBufferFull, TypeOK
  <2>3. capacity' >= Cardinality(requested)
    <3>1. CASE capacity' >= capacity
      BY <2>1, <2>2, <3>1, Sizes DEF SettledInv, TypeOK
    <3>2. CASE expired /\ activeReqs = requested
      BY <1>7, <3>2, StatusCapacityType DEF checkBufferFull
    <3> QED
      BY <1>7, <3>1, <3>2, StatusCapacityType DEF checkBufferFull, TypeOK
  <2>4. mainPc' = "process" => bufferMap = requested
    <3>1. mainPc' = "process" => Cardinality(bufferMap) >= capacity'
      BY <1>7 DEF checkBufferFull
    <3> QED
      BY <2>2, <2>3, <3>1, Sizes, FullBufferIsComplete
  <2> QED
    BY <1>7, <2>1, <2>3, <2>4 DEF checkBufferFull, SettledInv
<1>8. CASE processBuffer
  BY <1>8 DEF processBuffer, SettledInv, TypeOK
<1>9. ASSUME NEW r \in batch, updateQuietly(r) \/ raiseAlert(r)  PROVE SettledInv'
  BY <1>9 DEF updateQuietly, raiseAlert, SettledInv
<1>10. CASE finishAlert \/ unlockWrapper
  BY <1>10 DEF finishAlert, unlockWrapper, SettledInv
<1>11. CASE loopTest \/ spuriousWakeup
  BY <1>11 DEF loopTest, spuriousWakeup, SettledInv
<1>12. ASSUME NEW price \in Prices, tickPrice(price)  PROVE SettledInv'
  BY <1>1, <1>12 DEF tickPrice
<1>13. ASSUME NEW id \in {-1, Underlying}, error(id)  PROVE SettledInv'
  BY <1>1, <1>13 DEF error
<1>14. CASE tickSnapshotEnd \/ winError
  BY <1>1, <1>14 DEF tickSnapshotEnd, winError
<1>15. CASE UNCHANGED vars
  BY <1>1, <1>15 DEF vars
<1> QED
  BY <1>2, <1>4, <1>5, <1>6, <1>7, <1>8, <1>9, <1>10, <1>11, <1>12, <1>13, <1>14, <1>15
  DEF SettledNext, SettledCheck, MessageThread, MainStep

LEMMA SettledInvariant == SettledSpec => [](TypeOK /\ ScopeInv /\ SettledInv)
<1>1. Init => TypeOK /\ ScopeInv /\ SettledInv
  BY InitSafety, InitSettled DEF SafetyInv
<1>2. TypeOK /\ ScopeInv /\ SettledInv /\ [SettledNext]_vars => (TypeOK /\ ScopeInv /\ SettledInv)'
  BY NextType, NextScope, NextSettled, SettledIsNext
<1> QED
  BY <1>1, <1>2, PTL DEF SettledSpec

\* While no status check runs out before a stream's first bar, addedContracts counts
\* every streamed request once ...
THEOREM RequestsAreDistinct == SettledSpec => []NoDuplicateRequest
<1>1. TypeOK /\ ScopeInv /\ SettledInv => NoDuplicateRequest
  BY DEF SettledInv
<1> QED
  BY <1>1, SettledInvariant, PTL

\* ... and the wrapper, its buffer and the scanner's main loop implement the collector
\* of complete batches: a callback is an arrival, a request a subscription, and
\* processBuffer hands over.
THEOREM ImplementsBatches == SettledSpec => CollectsCompleteBatches
<1> USE DEF wrapperVars, bufferVars, requestVars, chainVars
<1>1. Init => Batches!Init
  BY DEF Init, Batches!Init
<1>2. TypeOK /\ SettledInv /\ [SettledNext]_vars => [Batches!Next]_(Batches!batchVars)
  <2> SUFFICES ASSUME TypeOK, SettledInv, [SettledNext]_vars
               PROVE  Batches!Next \/ UNCHANGED Batches!batchVars
    OBVIOUS
  <2>1. ASSUME UNCHANGED <<requested, addedContracts, bufferMap>>
        PROVE  UNCHANGED Batches!batchVars
    BY <2>1 DEF Batches!batchVars
  <2>2. ASSUME NEW r \in requested, NEW close \in Prices, realtimeBar(r, close)
        PROVE  Batches!Next
    <3>1. r \in ReqIds /\ Batches!Arrive(r)
      BY <2>2 DEF TypeOK, realtimeBar, Batches!Arrive
    <3> QED
      BY <3>1 DEF Batches!Next
  <2>3. ASSUME NEW r \in contractReqQueue, sendRequest(r)
        PROVE  Batches!Next
    <3>1. r \in ReqIds /\ Batches!Subscribe(r)
      BY <2>3 DEF TypeOK, SettledInv, sendRequest, Batches!Subscribe
    <3> QED
      BY <3>1 DEF Batches!Next
  <2>4. CASE processBuffer
    <3>1. bufferMap = requested /\ Underlying \in bufferMap
      BY <2>4 DEF processBuffer, TypeOK, SettledInv
    <3>2. Batches!HandOver
      BY <2>4, <3>1 DEF processBuffer, Batches!HandOver
    <3> QED
      BY <3>2 DEF Batches!Next
  <2>5. ASSUME NEW expired \in BOOLEAN, checkBufferFull(expired)
        PROVE  UNCHANGED Batches!batchVars
    BY <2>1, <2>5 DEF checkBufferFull
  <2>6. ASSUME NEW price \in Prices, tickPrice(price)
        PROVE  UNCHANGED Batches!batchVars
    BY <2>1, <2>6 DEF tickPrice
  <2>7. ASSUME NEW id \in {-1, Underlying}, error(id)
        PROVE  UNCHANGED Batches!batchVars
    BY <2>1, <2>7 DEF error
  <2>8. ASSUME NEW r \in batch, updateQuietly(r) \/ raiseAlert(r)
        PROVE  UNCHANGED Batches!batchVars
    BY <2>1, <2>8 DEF updateQuietly, raiseAlert
  <2>9. CASE tickSnapshotEnd \/ winError \/ startStream \/ refreshStrikes \/ setBufferCapacity
    BY <2>1, <2>9
    DEF tickSnapshotEnd, winError, startStream, refreshStrikes, UpdateStrikes, setBufferCapacity
  <2>10. CASE loopTest \/ spuriousWakeup \/ finishAlert \/ unlockWrapper \/ UNCHANGED vars
    BY <2>1, <2>10 DEF loopTest, spuriousWakeup, finishAlert, unlockWrapper, vars
  <2> QED
    BY <2>2, <2>3, <2>4, <2>5, <2>6, <2>7, <2>8, <2>9, <2>10
    DEF SettledNext, SettledCheck, MessageThread, MainStep
<1> QED
  BY <1>1, <1>2, SettledInvariant, PTL DEF SettledSpec, Batches!Spec, CollectsCompleteBatches
=============================================================================
