--------------------------- MODULE OptionScanner ---------------------------
(***************************************************************************)
(* The streaming core of the scanner: the TWS callbacks of tWrapper, which *)
(* run on the message thread, the CandleBuffer they fill, and the main     *)
(* thread of OptionScanner::streamOptionData, which waits for a full       *)
(* buffer, hands every bar to its contract and requests the strikes that   *)
(* have come into scope.                                                   *)
(*                                                                         *)
(* A bar is its request id; the underlying's bar also carries its close,   *)
(* which chooses the strikes.  Tags, prices of options, logging and the    *)
(* queues behind the alert callback belong to other modules.               *)
(***************************************************************************)
EXTENDS Integers, FiniteSets

CONSTANTS
  Prices,          \* the underlying's prices, in whole points
  StrikesEachSide, \* strikes kept on each side of the money: 5 in the code
  InitBufferSize,  \* the wrapper's initial capacity: 23 in App.cpp
  MaxAdded         \* bound of the model on the length of addedContracts

ASSUME PricesAssumption == Prices \subseteq Nat
ASSUME SizesAssumption ==
  StrikesEachSide \in Nat /\ InitBufferSize \in Nat /\ MaxAdded \in Nat

VARIABLES
  mainPc,           \* where the main thread is
  req,              \* tWrapper::Req_, the last finished one-off request
  tickPriceLast,    \* tWrapper::tickPriceLast_
  errorForRequest,  \* tWrapper::m_ErrorForRequest
  bufferMap,        \* CandleBuffer: requests with a bar in the buffer
  quote,            \* close of the underlying's bar in the buffer
  capacity,         \* CandleBuffer::capacity_
  wasDataProcessed, \* CandleBuffer::wasDataProcessed_
  activeReqs,       \* tWrapper::activeReqs_, requests that delivered a bar
  requested,        \* requests TWS is streaming
  addedContracts,   \* addedContracts.size()
  contractReqQueue, \* requests waiting in contractReqQueue
  contractsInScope, \* OptionScanner::contractsInScope
  chain,            \* keys of contractChain_
  underlyingPrice,  \* currentPrice() of the underlying's contract
  batch,            \* bars of the batch not yet handed to a contract
  candle,           \* the bar whose alert callback is running
  unseen            \* history: how many streams had no first bar yet at the
                    \* status check that set the capacity, 0 for any other capacity

wrapperVars == <<req, tickPriceLast, errorForRequest>>
bufferVars  == <<bufferMap, quote, capacity, wasDataProcessed, activeReqs, unseen>>
requestVars == <<requested, addedContracts, contractReqQueue, contractsInScope>>
chainVars   == <<chain, underlyingPrice, batch, candle>>
vars == <<mainPc, wrapperVars, bufferVars, requestVars, chainVars>>

-----------------------------------------------------------------------------
(* Request ids.  A call is requested under its strike and a put under its  *)
(* strike plus one, so an id ends in 0 or 5 or in 1 or 6.                  *)

Underlying == 1234
MarketDataReq == 111
Multiple == 5

populateStrikes(price) ==
  LET shifted == price + Multiple \div 2
      rounded == shifted - (shifted % Multiple)
  IN  {rounded + Multiple * k : k \in -StrikesEachSide .. StrikesEachSide}

Contracts(strikes) == strikes \cup {s + 1 : s \in strikes}

\* A snapshot that ends without a LAST tick leaves the price at 0.
Quotes == Prices \cup {0}
ReqIds == {Underlying} \cup UNION {Contracts(populateStrikes(p)) : p \in Quotes}

-----------------------------------------------------------------------------
Running == mainPc \notin {"done", "crashed"}

\* The main thread holds wrapperMtx_ from the full buffer to the end of the
\* batch; in cv_.wait it holds it only while it evaluates the predicate.
MainHoldsWrapperMtx == mainPc \in {"process", "candle", "alert"}

notDone == ~errorForRequest

TypeOK ==
  /\ mainPc \in {"snapshot", "send", "loop", "wait", "asleep", "woken", "process",
                 "candle", "alert", "update", "done", "crashed"}
  /\ req \in {0, MarketDataReq}
  /\ tickPriceLast \in Quotes /\ quote \in Quotes /\ underlyingPrice \in Quotes
  /\ errorForRequest \in BOOLEAN /\ wasDataProcessed \in BOOLEAN
  /\ requested \subseteq ReqIds /\ IsFiniteSet(requested)
  /\ bufferMap \subseteq activeReqs /\ activeReqs \subseteq requested
  /\ chain \subseteq requested /\ batch \subseteq requested
  /\ contractReqQueue \subseteq ReqIds \ {Underlying} /\ IsFiniteSet(contractReqQueue)
  /\ contractsInScope \subseteq ReqIds
  /\ Underlying \in requested /\ candle \in requested
  /\ capacity \in Nat /\ addedContracts \in Nat /\ unseen \in Nat

Init ==
  /\ mainPc = "snapshot"
  /\ req = 0 /\ tickPriceLast = 0 /\ errorForRequest = FALSE
  /\ bufferMap = {} /\ quote = 0 /\ capacity = InitBufferSize
  /\ wasDataProcessed = FALSE /\ activeReqs = {}
  /\ requested = {Underlying} /\ addedContracts = 1
  /\ contractReqQueue = {} /\ contractsInScope = {}
  /\ chain = {} /\ underlyingPrice = 0 /\ batch = {} /\ candle = Underlying
  /\ unseen = 0

-----------------------------------------------------------------------------
(* The message thread: one action per callback.                            *)

\* A snapshot delivers its ticks before it ends.
tickPrice(price) ==
  /\ Running /\ req # MarketDataReq
  /\ tickPriceLast' = price
  /\ UNCHANGED <<mainPc, req, errorForRequest, bufferVars, requestVars, chainVars>>

tickSnapshotEnd ==
  /\ Running /\ req # MarketDataReq
  /\ req' = MarketDataReq
  /\ UNCHANGED <<mainPc, tickPriceLast, errorForRequest, bufferVars, requestVars, chainVars>>

winError ==
  /\ Running
  /\ errorForRequest' = TRUE
  /\ UNCHANGED <<mainPc, req, tickPriceLast, bufferVars, requestVars, chainVars>>

\* Code 2176 is ignored; any other code overwrites the flag.
error(id) ==
  /\ Running
  /\ errorForRequest' = (id > 0)
  /\ UNCHANGED <<mainPc, req, tickPriceLast, bufferVars, requestVars, chainVars>>

\* mutant: the notification is lost
notify_none == mainPc

notify_one == IF mainPc = "asleep" THEN "woken" ELSE mainPc

\* mutant: the request is not counted as active
realtimeBarUncounted(r, close) ==
  /\ Running /\ ~MainHoldsWrapperMtx
  /\ r \in requested
  /\ bufferMap' = bufferMap \cup {r}
  /\ quote' = IF r = Underlying THEN close ELSE quote
  /\ mainPc' = notify_one
  /\ UNCHANGED <<wrapperVars, activeReqs, capacity, wasDataProcessed, unseen,
                 requestVars, chainVars>>

\* The whole callback runs under wrapperMtx_.  A second bar of the same
\* request replaces the first.
realtimeBar(r, close) ==
  /\ Running /\ ~MainHoldsWrapperMtx
  /\ r \in requested
  /\ activeReqs' = activeReqs \cup {r}
  /\ bufferMap' = bufferMap \cup {r}
  /\ quote' = IF r = Underlying THEN close ELSE quote
  /\ mainPc' = notify_one
  /\ UNCHANGED <<wrapperVars, capacity, wasDataProcessed, unseen, requestVars, chainVars>>

-----------------------------------------------------------------------------
(* The main thread: updateStrikes, from its entry to the first request,    *)
(* then one action per request sent, then the new capacity.                *)

\* mutant: the put is not queued with its call
NewCallsOnly(strikes) == {s \in strikes : s \notin chain}

\* The chain is looked up by the call's id; the put is queued with it.
NewContracts(strikes) == Contracts({s \in strikes : s \notin chain})

UpdateStrikes(price) ==
  LET strikes == populateStrikes(price)
      queued  == NewContracts(strikes)
  IN  /\ addedContracts + Cardinality(queued) <= MaxAdded
      /\ contractReqQueue' = queued
      /\ contractsInScope' = Contracts(strikes)
      /\ mainPc' = "send"
      /\ UNCHANGED <<wrapperVars, bufferVars, requested, addedContracts, chainVars>>

startStream ==
  /\ mainPc = "snapshot" /\ req = MarketDataReq
  /\ UpdateStrikes(tickPriceLast)

refreshStrikes ==
  /\ mainPc = "update"
  /\ UpdateStrikes(underlyingPrice)

\* mutant: the request is not recorded in addedContracts
sendRequestUncounted(r) ==
  /\ mainPc = "send"
  /\ r \in contractReqQueue /\ \A other \in contractReqQueue : r <= other
  /\ contractReqQueue' = contractReqQueue \ {r}
  /\ requested' = requested \cup {r}
  /\ UNCHANGED <<mainPc, addedContracts, wrapperVars, bufferVars, contractsInScope, chainVars>>

\* contractReqQueue is filled in increasing order of id, so its front is its minimum.
sendRequest(r) ==
  /\ mainPc = "send"
  /\ r \in contractReqQueue /\ \A other \in contractReqQueue : r <= other
  /\ contractReqQueue' = contractReqQueue \ {r}
  /\ requested' = requested \cup {r}
  /\ addedContracts' = addedContracts + 1
  /\ UNCHANGED <<mainPc, wrapperVars, bufferVars, contractsInScope, chainVars>>

\* mutant: the capacity is set once and never follows the requests
setBufferCapacityOnce ==
  /\ mainPc = "send" /\ contractReqQueue = {}
  /\ mainPc' = "loop"
  /\ UNCHANGED <<wrapperVars, bufferVars, requestVars, chainVars>>

\* mutant: a new capacity leaves wasDataProcessed_ set
setBufferCapacityDisarmed ==
  /\ mainPc = "send" /\ contractReqQueue = {}
  /\ capacity' = IF addedContracts > capacity THEN addedContracts ELSE capacity
  /\ mainPc' = "loop"
  /\ UNCHANGED <<wrapperVars, bufferMap, quote, wasDataProcessed, activeReqs, unseen,
                 requestVars, chainVars>>

setBufferCapacity ==
  /\ mainPc = "send" /\ contractReqQueue = {}
  /\ capacity' = IF addedContracts > capacity THEN addedContracts ELSE capacity
  /\ unseen' = IF addedContracts > capacity THEN 0 ELSE unseen
  /\ wasDataProcessed' = (wasDataProcessed /\ addedContracts <= capacity)
  /\ mainPc' = "loop"
  /\ UNCHANGED <<wrapperVars, bufferMap, quote, activeReqs, requestVars, chainVars>>

loopTest ==
  /\ mainPc = "loop"
  /\ mainPc' = IF notDone THEN "wait" ELSE "done"
  /\ UNCHANGED <<wrapperVars, bufferVars, requestVars, chainVars>>

-----------------------------------------------------------------------------
(* cv_.wait: the predicate under wrapperMtx_, then sleep or go on.         *)

\* mutant: the capacity never grows to the active requests
StatusCapacityPresent == IF wasDataProcessed THEN capacity ELSE Cardinality(bufferMap)

\* What checkBufferStatus leaves in capacity_: without a processed batch it
\* first shrinks to the bars present, then grows to the active requests.
StatusCapacity ==
  LET present == IF wasDataProcessed THEN capacity ELSE Cardinality(bufferMap)
      active  == Cardinality(activeReqs)
  IN  IF active > present THEN active ELSE present

\* The check sets the capacity unless a batch was processed and it covers the
\* active requests.
StatusSets == ~wasDataProcessed \/ Cardinality(activeReqs) > capacity

\* expired: more than 60 seconds have passed since the last status check.
checkBufferFull(expired) ==
  /\ mainPc \in {"wait", "woken"}
  /\ capacity' = IF expired THEN StatusCapacity ELSE capacity
  /\ wasDataProcessed' = IF expired
       THEN wasDataProcessed /\ Cardinality(activeReqs) <= capacity
       ELSE wasDataProcessed
  /\ unseen' = IF expired /\ StatusSets THEN Cardinality(requested \ activeReqs) ELSE unseen
  /\ mainPc' = IF Cardinality(bufferMap) >= capacity' THEN "process" ELSE "asleep"
  /\ UNCHANGED <<wrapperVars, bufferMap, quote, activeReqs, requestVars, chainVars>>

\* A condition variable may wake without a notification.
spuriousWakeup ==
  /\ mainPc = "asleep"
  /\ mainPc' = "woken"
  /\ UNCHANGED <<wrapperVars, bufferVars, requestVars, chainVars>>

\* mutant: the buffer is not cleared, only the underlying's bar is erased
processBufferNoClear ==
  /\ mainPc = "process"
  /\ IF Underlying \in bufferMap
       THEN /\ batch' = bufferMap
            /\ bufferMap' = bufferMap \ {Underlying}
            /\ wasDataProcessed' = TRUE
            /\ mainPc' = "candle"
       ELSE /\ mainPc' = "crashed"
            /\ UNCHANGED <<batch, bufferMap, wasDataProcessed>>
  /\ UNCHANGED <<wrapperVars, quote, capacity, activeReqs, requestVars,
                 chain, underlyingPrice, candle, unseen>>

\* bufferMap.at(1234) throws in the main thread when the underlying's bar is missing.
processBuffer ==
  /\ mainPc = "process"
  /\ IF Underlying \in bufferMap
       THEN /\ batch' = bufferMap
            /\ bufferMap' = {}
            /\ wasDataProcessed' = TRUE
            /\ mainPc' = "candle"
       ELSE /\ mainPc' = "crashed"
            /\ UNCHANGED <<batch, bufferMap, wasDataProcessed>>
  /\ UNCHANGED <<wrapperVars, quote, capacity, activeReqs, requestVars,
                 chain, underlyingPrice, candle, unseen>>

-----------------------------------------------------------------------------
(* The loop over the batch: the underlying first, then the options in the  *)
(* order of an unordered map.                                              *)

\* mutant: the batch in the order of the map
NextInMapOrder(r) == r \in batch

NextInBatch(r) == r \in batch /\ (Underlying \in batch => r = Underlying)

\* updateData without an alert; a contract seen for the first time enters the chain.
updateQuietly(r) ==
  /\ mainPc = "candle" /\ NextInBatch(r)
  /\ chain' = chain \cup {r}
  /\ underlyingPrice' = IF r = Underlying THEN quote ELSE underlyingPrice
  /\ batch' = batch \ {r}
  /\ UNCHANGED <<mainPc, wrapperVars, bufferVars, requestVars, candle>>

\* updateData of an option calls the alert callback, before the contract is in the chain.
raiseAlert(r) ==
  /\ mainPc = "candle" /\ NextInBatch(r) /\ r # Underlying
  /\ candle' = r
  /\ mainPc' = "alert"
  /\ UNCHANGED <<wrapperVars, bufferVars, requestVars, chain, underlyingPrice, batch>>

\* mutant: a contract that raised an alert is not inserted
finishAlertNoInsert ==
  /\ mainPc = "alert"
  /\ batch' = batch \ {candle}
  /\ candle' = Underlying
  /\ mainPc' = "candle"
  /\ UNCHANGED <<wrapperVars, bufferVars, requestVars, chain, underlyingPrice>>

finishAlert ==
  /\ mainPc = "alert"
  /\ chain' = chain \cup {candle}
  /\ batch' = batch \ {candle}
  /\ candle' = Underlying
  /\ mainPc' = "candle"
  /\ UNCHANGED <<wrapperVars, bufferVars, requestVars, underlyingPrice>>

unlockWrapper ==
  /\ mainPc = "candle" /\ batch = {}
  /\ mainPc' = "update"
  /\ UNCHANGED <<wrapperVars, bufferVars, requestVars, chainVars>>

-----------------------------------------------------------------------------
MessageThread ==
  \/ \E price \in Prices : tickPrice(price)
  \/ tickSnapshotEnd
  \/ winError
  \/ \E id \in {-1, Underlying} : error(id)
  \/ \E r \in requested, close \in Prices : realtimeBar(r, close)

\* Every step of the main thread but the evaluation of the wait predicate.
MainStep ==
  \/ startStream \/ refreshStrikes
  \/ \E r \in contractReqQueue : sendRequest(r)
  \/ setBufferCapacity \/ loopTest
  \/ processBuffer
  \/ \E r \in batch : updateQuietly(r) \/ raiseAlert(r)
  \/ finishAlert \/ unlockWrapper

MainThread == MainStep \/ \E expired \in BOOLEAN : checkBufferFull(expired)

Next == MessageThread \/ MainThread \/ spuriousWakeup

Spec == Init /\ [][Next]_vars

\* A session whose status checks all find the requested streams delivering: the
\* 60 seconds may run out in the middle of a batch, but not between a request and
\* its first bar.
SettledCheck ==
  \E expired \in BOOLEAN :
    /\ expired => wasDataProcessed \/ activeReqs = requested
    /\ checkBufferFull(expired)
SettledNext == MessageThread \/ MainStep \/ SettledCheck \/ spuriousWakeup
SettledSpec == Init /\ [][SettledNext]_vars

\* The scheduler runs the main thread; a wake-up is not left for ever before the
\* status timer runs out; TWS keeps streaming every request but those in Silent.
ThreadFairness ==
  /\ WF_vars(MainThread)
  /\ SF_vars(checkBufferFull(TRUE))
SnapshotFairness == WF_vars(tickSnapshotEnd)
StreamFairness(Silent) ==
  \A r \in ReqIds \ Silent : WF_vars(\E close \in Prices : realtimeBar(r, close))

FairSpec == Spec /\ ThreadFairness /\ SnapshotFairness /\ StreamFairness({})

\* All streams share one connection and one message thread, so none is passed
\* over while the others deliver batch after batch.
StreamsInTurn == \A r \in ReqIds : SF_vars(\E close \in Prices : realtimeBar(r, close))

-----------------------------------------------------------------------------
Waiting == mainPc \in {"loop", "wait", "asleep", "woken"}

\* The main thread never sleeps on a full buffer: every bar that could fill it
\* notifies under the mutex (realtimeBar, checkBufferFull).
NoLostWakeup == mainPc = "asleep" => Cardinality(bufferMap) < capacity

\* The underlying's contract is in the chain whenever the alert callback or
\* updateStrikes looks it up with at(1234).
UnderlyingKnown == mainPc \in {"alert", "update"} => Underlying \in chain

\* While the repair by checkBufferStatus is disarmed (wasDataProcessed_), the
\* buffer never waits for more bars than there are streams, whatever was
\* requested twice or counted by a status check before.
BufferCanFill == Waiting /\ wasDataProcessed => capacity <= Cardinality(requested)

\* Every contract that updateStrikes put in scope is being streamed once the
\* requests are out: a strike is skipped only because its call is in the chain,
\* and its put was requested with it.
ScopeIsStreamed == Waiting => contractsInScope \subseteq requested

\* Whatever the status checks did, a batch lacks no more streams than had no first
\* bar yet when the check that set its capacity ran out (checkBufferStatus,
\* setBufferCapacity); after checks that found every stream delivering, or none
\* that set the capacity, it has a bar of every stream.
LacksAtMostUnseen == mainPc = "process" => Cardinality(requested \ bufferMap) <= unseen

\* The main thread dies of a missing underlying (processBuffer's at(1234)) only
\* under a capacity that a check set before some stream's first bar.
CrashNeedsEarlyCheck == mainPc = "crashed" => unseen > 0

\* As long as no status check runs out before a stream's first bar, no contract is
\* requested twice (OptionScanner::addedContracts, updateStrikes) ...
NoDuplicateRequest == addedContracts = Cardinality(requested)

\* ... and the buffer implements the abstract collector of complete batches.
Batches == INSTANCE BarBatches
  WITH Streams <- ReqIds, First <- Underlying,
       streams <- requested, asked <- addedContracts, pending <- bufferMap
CollectsCompleteBatches == Batches!Spec

\* With every stream delivering, the main thread finishes batch after batch
\* until an error ends the loop or a missing underlying ends the process.
KeepsProcessing == []<>(mainPc = "update" \/ ~Running)

\* The model stops when repeated requests have used up its bound on addedContracts.
AtBound ==
  /\ mainPc = "update"
  /\ addedContracts + Cardinality(NewContracts(populateStrikes(underlyingPrice))) > MaxAdded

\* Partial batches heal: after any status check, with no stream passed over by the
\* others, complete batches come again and again (checkBufferStatus grows the
\* capacity to the active requests).
CompleteBatchesRecur ==
  StreamsInTurn => []<>((mainPc = "process" /\ bufferMap = requested) \/ ~Running \/ AtBound)

-----------------------------------------------------------------------------
(* What the repository says of this code and the code does not do.         *)

\* tWrapper.h:55: the status check frees a buffer that does not fill.
StallRepaired ==
  mainPc = "asleep" /\ bufferMap # {} ~> mainPc = "process" \/ ~Running
=============================================================================
