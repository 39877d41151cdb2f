---------------------------- MODULE IndexScanner ----------------------------
(***************************************************************************)
(* The index's request handler (Securities::Index and its copy in the test *)
(* harness, SecurityRequestHandler) under the harness that drives it: one  *)
(* stream thread per request (MockClient), the wrapper and its buffer      *)
(* (MockWrapper, MockCandleBuffer), the scanning loop (MockOptionScanner)  *)
(* and the thread of the integration test, which counts updates and then   *)
(* stops the loop.                                                         *)
(*                                                                         *)
(* A bar is its request id; the underlying's also carries its close.  A    *)
(* stream keeps the reference values its random bars are drawn around.     *)
(***************************************************************************)
EXTENDS Integers, FiniteSets

CONSTANTS
  Closes,       \* closes of the underlying's bars, in whole points
  InitPrice,    \* MockWrapper::SPXPrice at the start: 4581 in the code
  StrikesBelow, \* strikes requested below the money: 5 in the code
  numStrikes,   \* strikes requested above it: 4 in MockOptionScanner
  InitCapacity, \* the buffer's first capacity: 19 in MockWrapper
  Updates       \* updates the test waits for: 10 in option_scanner_tests.cpp

ASSUME PricesAssumption == Closes \subseteq Nat \ {0} /\ InitPrice \in Nat \ {0}
ASSUME SizesAssumption ==
  {StrikesBelow, numStrikes, InitCapacity} \subseteq Nat /\ Updates \in Nat \ {0}

VARIABLES
  mainPc,           \* where the scanning thread is
  SPXPrice,         \* MockWrapper::SPXPrice, also read outside wrapperMtx
  arriving,         \* close written to SPXPrice whose bar waits for wrapperMtx, or 0
  bufferMap,        \* MockCandleBuffer: requests with a bar in the buffer
  quote,            \* close of the underlying's bar in the buffer
  capacity,         \* MockCandleBuffer::capacity_
  wasDataProcessed, \* MockCandleBuffer::wasDataProcessed_
  activeReqs,       \* MockWrapper::activeReqs
  streams,          \* the running stream threads of MockClient
  terminateStream,  \* MockClient::terminateStream
  reqQueue,         \* ids updateOptionRequests has still to request
  currentReqs,      \* ids in currentReqs_
  consInScope,      \* SecurityRequestHandler::consInScope_
  chain,            \* keys of contractChain_
  currentSPX,       \* MockOptionScanner::currentSPX_
  strikesUpdated,   \* MockOptionScanner::strikesUpdated
  testPc,           \* where the test thread is
  seen,             \* updates the test thread has seen
  mDone             \* MockWrapper::m_done

bufferVars  == <<bufferMap, quote, capacity, wasDataProcessed, activeReqs>>
clientVars  == <<streams, terminateStream>>
handlerVars == <<reqQueue, currentReqs, consInScope>>
chainVars   == <<chain, currentSPX>>
testVars    == <<testPc, seen, mDone>>
vars == <<mainPc, SPXPrice, arriving, bufferVars, clientVars, handlerVars, chainVars,
          strikesUpdated, testVars>>

-----------------------------------------------------------------------------
Underlying == 1234
Multiple == 5

\* The rounding is the scanner's; the range below the money is fixed, above it
\* follows numStrikes_.
getStrikes(price) ==
  LET shifted == price + Multiple \div 2
      rounded == shifted - (shifted % Multiple)
  IN  {rounded + Multiple * k : k \in -StrikesBelow .. numStrikes}

Contracts(strikes) == strikes \cup {s + 1 : s \in strikes}
Prices == Closes \cup {InitPrice}
ReqIds == {Underlying} \cup UNION {Contracts(getStrikes(p)) : p \in Prices}

Abs(x) == IF x < 0 THEN -x ELSE x
IsPut(id) == id % Multiple # 0
StrikeOf(id) == IF IsPut(id) THEN id - 1 ELSE id

\* std::ceil of the distance in strikes
StrikesAway(id, spx) == (Abs(spx - StrikeOf(id)) + Multiple - 1) \div Multiple

\* mutant: a put is tested like a call
InTheMoneyAsCall(id, spx) == spx >= StrikeOf(id)

InTheMoney(id, spx) == IF IsPut(id) THEN spx < StrikeOf(id) ELSE spx >= StrikeOf(id)

calculateOptionRefValues(id, spx) ==
  LET away == StrikesAway(id, spx)
      vol  == 500 + 100 * (IF InTheMoney(id, spx) THEN away ELSE -away)
  IN  IF vol < 0 THEN [price |-> 0, vol |-> 0] ELSE [price |-> vol \div 100, vol |-> vol]

\* The stream reqRealTimeBars starts; the underlying's bars are drawn around SPXPrice.
NewStream(id, spx) ==
  [id |-> id, spx |-> spx,
   ref |-> IF id = Underlying THEN [price |-> spx, vol |-> 50000000]
                              ELSE calculateOptionRefValues(id, spx)]

-----------------------------------------------------------------------------
Running == mainPc # "crashed"

\* The constructor has requested the underlying.
Init ==
  /\ mainPc = "start"
  /\ SPXPrice = InitPrice /\ arriving = 0
  /\ bufferMap = {} /\ quote = 0 /\ capacity = InitCapacity
  /\ wasDataProcessed = FALSE /\ activeReqs = {}
  /\ streams = {NewStream(Underlying, InitPrice)} /\ terminateStream = FALSE
  /\ reqQueue = {} /\ currentReqs = {} /\ consInScope = {}
  /\ chain = {} /\ currentSPX = 0 /\ strikesUpdated = FALSE
  /\ testPc = "check" /\ seen = 0 /\ mDone = FALSE

-----------------------------------------------------------------------------
(* The stream threads.  streamRealTimeData tests terminateStream before it *)
(* sleeps, so a thread may deliver one bar after the flag is set.          *)

EndsAfterBar(s) == IF terminateStream THEN streams \ {s} ELSE streams

notify_one == IF mainPc = "asleep" THEN "woken" ELSE mainPc

\* The underlying's close is written before wrapperMtx is taken.
writePrice(close) ==
  /\ Running /\ arriving = 0
  /\ \E s \in streams : s.id = Underlying
  /\ SPXPrice' = close /\ arriving' = close
  /\ UNCHANGED <<mainPc, bufferVars, clientVars, handlerVars, chainVars,
                 strikesUpdated, testVars>>

realtimeBar(s) ==
  /\ Running /\ s \in streams
  /\ s.id = Underlying => arriving # 0
  /\ activeReqs' = activeReqs \cup {s.id}
  /\ bufferMap' = bufferMap \cup {s.id}
  /\ quote' = IF s.id = Underlying THEN arriving ELSE quote
  /\ arriving' = IF s.id = Underlying THEN 0 ELSE arriving
  /\ mainPc' = notify_one
  /\ streams' = EndsAfterBar(s)
  /\ UNCHANGED <<SPXPrice, capacity, wasDataProcessed, terminateStream, handlerVars,
                 chainVars, strikesUpdated, testVars>>

endStream(s) ==
  /\ Running /\ terminateStream /\ s \in streams
  /\ s.id = Underlying => arriving = 0
  /\ streams' = streams \ {s}
  /\ UNCHANGED <<mainPc, SPXPrice, arriving, bufferVars, terminateStream, handlerVars,
                 chainVars, strikesUpdated, testVars>>

-----------------------------------------------------------------------------
(* updateOptionRequests: the queue and the scope, then one request a step. *)

\* mutant: the put is not queued with its call
NewCallsOnly(strikes) == {s \in strikes : s \notin chain}

\* A strike is known by its call; the put goes with it.
NewContracts(strikes) == Contracts({s \in strikes : s \notin chain})

updateOptionRequests(price) ==
  /\ reqQueue' = NewContracts(getStrikes(price))
  /\ consInScope' = Contracts(getStrikes(price))
  /\ mainPc' = "send"
  /\ UNCHANGED <<SPXPrice, arriving, bufferVars, clientVars, currentReqs, chain,
                 strikesUpdated, testVars>>

startStream ==
  /\ mainPc = "start"
  /\ currentSPX' = SPXPrice
  /\ updateOptionRequests(SPXPrice)

refreshStrikes ==
  /\ mainPc = "update"
  /\ currentSPX' = currentSPX
  /\ updateOptionRequests(currentSPX)

\* mutant: the request is not recorded
reqRealTimeBarsUnrecorded(id) ==
  /\ mainPc = "send" /\ id \in reqQueue
  /\ \A other \in reqQueue : id <= other
  /\ reqQueue' = reqQueue \ {id}
  /\ streams' = streams \cup {NewStream(id, SPXPrice)}
  /\ UNCHANGED <<mainPc, SPXPrice, arriving, bufferVars, terminateStream, currentReqs,
                 consInScope, chainVars, strikesUpdated, testVars>>

\* reqRealTimeBars reads SPXPrice again for each contract and starts its thread.
reqRealTimeBars(id) ==
  /\ mainPc = "send" /\ id \in reqQueue
  /\ \A other \in reqQueue : id <= other
  /\ reqQueue' = reqQueue \ {id}
  /\ currentReqs' = currentReqs \cup {id}
  /\ streams' = streams \cup {NewStream(id, SPXPrice)}
  /\ UNCHANGED <<mainPc, SPXPrice, arriving, bufferVars, terminateStream, consInScope,
                 chainVars, strikesUpdated, testVars>>

\* The first call, before the loop, does not tell the test.
requestsSent ==
  /\ mainPc = "send" /\ reqQueue = {}
  /\ mainPc' = "loop"
  /\ strikesUpdated' = (strikesUpdated \/ chain # {})
  /\ UNCHANGED <<SPXPrice, arriving, bufferVars, clientVars, handlerVars, chainVars, testVars>>

-----------------------------------------------------------------------------
(* The scanning loop.                                                      *)

loopTest ==
  /\ mainPc = "loop"
  /\ mainPc' = IF mDone THEN "cancel" ELSE "wait"
  /\ UNCHANGED <<SPXPrice, arriving, bufferVars, clientVars, handlerVars, chainVars,
                 strikesUpdated, testVars>>

StatusCapacity ==
  LET present == IF wasDataProcessed THEN capacity ELSE Cardinality(bufferMap)
      active  == Cardinality(activeReqs)
  IN  IF active > present THEN active ELSE present

\* expired: more than 3 seconds since the last status check.
checkBufferFull(expired) ==
  /\ mainPc \in {"wait", "woken"}
  /\ capacity' = IF expired THEN StatusCapacity ELSE capacity
  /\ wasDataProcessed' = IF expired
       THEN wasDataProcessed /\ Cardinality(activeReqs) <= capacity
       ELSE wasDataProcessed
  /\ mainPc' = IF Cardinality(bufferMap) >= capacity' THEN "process" ELSE "asleep"
  /\ UNCHANGED <<SPXPrice, arriving, bufferMap, quote, activeReqs, clientVars, handlerVars,
                 chainVars, strikesUpdated, testVars>>

spuriousWakeup ==
  /\ mainPc = "asleep"
  /\ mainPc' = "woken"
  /\ UNCHANGED <<SPXPrice, arriving, bufferVars, clientVars, handlerVars, chainVars,
                 strikesUpdated, testVars>>

wakeTest == IF testPc = "asleep" THEN "check" ELSE testPc

\* The batch, in any order, under wrapperMtx, then the notification of the test,
\* which precedes the flag it waits for.  at(1234) throws when the underlying
\* has not been seen; an alert, which looks it up too, is raised by a contract that
\* an earlier batch brought, and that batch would have thrown.
processBatch ==
  /\ mainPc = "process"
  /\ bufferMap' = {} /\ wasDataProcessed' = TRUE
  /\ chain' = chain \cup bufferMap
  /\ IF Underlying \in chain'
       THEN /\ currentSPX' = IF Underlying \in bufferMap THEN quote ELSE currentSPX
            /\ mainPc' = "update"
            /\ testPc' = wakeTest
       ELSE mainPc' = "crashed" /\ UNCHANGED <<currentSPX, testPc>>
  /\ UNCHANGED <<SPXPrice, arriving, quote, capacity, activeReqs, clientVars, handlerVars,
                 strikesUpdated, seen, mDone>>

\* mutant: the join is left waiting for threads nobody stops
cancelRealTimeBarsUnflagged ==
  /\ mainPc = "cancel"
  /\ mainPc' = "join"
  /\ UNCHANGED <<SPXPrice, arriving, bufferVars, clientVars, handlerVars, chainVars,
                 strikesUpdated, testVars>>

cancelRealTimeBars ==
  /\ mainPc = "cancel"
  /\ terminateStream' = TRUE
  /\ mainPc' = "join"
  /\ UNCHANGED <<SPXPrice, arriving, bufferVars, streams, handlerVars, chainVars,
                 strikesUpdated, testVars>>

joinStreams ==
  /\ mainPc = "join" /\ streams = {}
  /\ mainPc' = "done"
  /\ UNCHANGED <<SPXPrice, arriving, bufferVars, clientVars, handlerVars, chainVars,
                 strikesUpdated, testVars>>

-----------------------------------------------------------------------------
(* The test thread: wait for strikesUpdated, reset it, and after the last  *)
(* update tell the wrapper that the stream is done.                        *)

testWait ==
  /\ Running /\ testPc = "check"
  /\ testPc' = IF strikesUpdated THEN "seen" ELSE "asleep"
  /\ UNCHANGED <<mainPc, SPXPrice, arriving, bufferVars, clientVars, handlerVars, chainVars,
                 strikesUpdated, seen, mDone>>

testReset ==
  /\ Running /\ testPc = "seen"
  /\ strikesUpdated' = FALSE
  /\ seen' = seen + 1
  /\ mDone' = (seen' = Updates)
  /\ testPc' = IF mDone' THEN "join" ELSE "check"
  /\ UNCHANGED <<mainPc, SPXPrice, arriving, bufferVars, clientVars, handlerVars, chainVars>>

-----------------------------------------------------------------------------
Streaming ==
  \/ \E close \in Closes : writePrice(close)
  \/ \E s \in streams : realtimeBar(s) \/ endStream(s)

MainThread ==
  \/ startStream \/ refreshStrikes
  \/ \E id \in reqQueue : reqRealTimeBars(id)
  \/ requestsSent \/ loopTest
  \/ \E expired \in BOOLEAN : checkBufferFull(expired)
  \/ processBatch \/ cancelRealTimeBars \/ joinStreams

TestThread == testWait \/ testReset

Next == Streaming \/ MainThread \/ TestThread \/ spuriousWakeup

Spec == Init /\ [][Next]_vars

\* Every thread is scheduled; a stream thread either delivers or ends; a wake-up is
\* not left for ever before the three seconds have passed.
FairSpec ==
  /\ Spec
  /\ WF_vars(MainThread) /\ WF_vars(TestThread)
  /\ WF_vars(\E close \in Closes : writePrice(close))
  /\ \A id \in ReqIds :
       WF_vars(\E s \in streams : s.id = id /\ (realtimeBar(s) \/ endStream(s)))
  /\ SF_vars(checkBufferFull(TRUE))

-----------------------------------------------------------------------------
TypeOK ==
  /\ mainPc \in {"start", "send", "loop", "wait", "asleep", "woken", "process", "update", "cancel", "join", "done", "crashed"}
  /\ SPXPrice \in Prices /\ arriving \in Closes \cup {0} /\ quote \in Closes \cup {0}
  /\ currentSPX \in Prices \cup {0}
  /\ bufferMap \subseteq activeReqs /\ chain \subseteq activeReqs
  /\ activeReqs \subseteq currentReqs \cup {Underlying}
  /\ reqQueue \subseteq consInScope /\ consInScope \subseteq ReqIds \ {Underlying}
  /\ currentReqs \subseteq ReqIds
  /\ \A s \in streams : s.id \in ReqIds /\ s.spx \in Prices
  /\ capacity \in Nat /\ seen \in 0 .. Updates
  /\ {wasDataProcessed, terminateStream, strikesUpdated, mDone} \subseteq BOOLEAN
  /\ testPc \in {"check", "asleep", "seen", "join"}

\* While the scanner waits for a batch every contract in scope has a thread that
\* streams it, although a strike is looked up by its call alone
\* (updateOptionRequests).
ScopeIsStreamed ==
  mainPc \in {"loop", "wait", "asleep", "woken"} /\ ~terminateStream =>
    consInScope \subseteq {s.id : s \in streams}

\* The reference values of two option streams started at the same price of the
\* underlying are consistent (calculateOptionRefValues): nothing is negative, the
\* contract further in the money is not cheaper, and a call and a put of one strike
\* together cost at least 10.
ReferencesConsistent ==
  \A s, t \in streams : s.id # Underlying /\ t.id # Underlying =>
    /\ s.ref.price >= 0 /\ s.ref.vol >= 0
    /\ s.spx = t.spx =>
         /\ ~IsPut(s.id) /\ ~IsPut(t.id) /\ s.id <= t.id => s.ref.price >= t.ref.price
         /\ IsPut(s.id) /\ IsPut(t.id) /\ s.id <= t.id => s.ref.price <= t.ref.price
         /\ t.id = s.id + 1 /\ IsPut(t.id) /\ ~IsPut(s.id) => s.ref.price + t.ref.price >= 10

\* The test sees its updates although each notification precedes the flag, and then
\* the loop ends and every stream thread is joined, unless a batch without the
\* underlying ended the process (streamOptionData, cancelRealTimeBars).
StreamsEnd == <>(mainPc = "done" \/ ~Running)
=============================================================================
