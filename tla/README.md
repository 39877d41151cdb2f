# OptionScannerTWS in TLA+

OptionScannerTWS streams five second bars of an index and of the options around its
price from Interactive Brokers' TWS, builds longer candles from them, raises alerts and
stores candles and the outcome of alerts in a SQL database.  This directory specifies
the parts of it that are concurrent or stateful, checks them with TLC on small instances
and proves the central invariants with TLAPS.  Paths below are relative to
`OptionScannerTWS/` in the repository.

## The system

Four threads share the state:

| thread | code | what it does |
| --- | --- | --- |
| message thread | `OptionScanner::checkClientMessages` | `EC->checkMessages()` runs the callbacks of `tWrapper` |
| main thread | `OptionScanner::streamOptionData` | waits for a full buffer, updates the contracts, requests new strikes |
| insertion thread | `DatabaseManager::candleInsertionLoop` | empties three queues into four tables |
| alert thread | `AlertHandler::checkAlertOutcomes` | half an hour after an alert computes its outcome and queues it for the database |

| component | state | operations | what makes it correct |
| --- | --- | --- | --- |
| `tWrapper`, `CandleBuffer` | `bufferMap`, `capacity_`, `wasDataProcessed_`, `activeReqs_`, error flag, last tick | callbacks `realtimeBar`, `tickPrice`, `tickSnapshotEnd`, `error`, `winError`; `checkBufferFull`, `processBuffer`, `setNewBufferCapacity` | a full buffer is noticed, holds one bar of every stream and always the underlying's |
| `OptionScanner` | `contractChain_`, `addedContracts`, `contractReqQueue`, `contractsInScope` | start-up, batch loop, `updateStrikes`, alert callback | the strikes in scope are streamed, none twice; look-ups of the underlying succeed |
| `ContractData` | candles of four time frames, extremes, comparisons, running statistics, tags | `updateData` | every candle is the aggregate of its bars; extremes, comparisons and tags mean what they say |
| `DatabaseManager`, `CandleRoutes.h` | three queues, `prevUnixTime`, `unixTimeUpdated`, tables | `addToInsertionQueue` (three), `start`, `stop`, the insertion loop, four posts | every candle is stored once, in order, and no batch is rejected for a missing key |
| `AlertHandler` | queue of alerts, done flag | `inputAlert`, the alert thread, `checkWinStats`, the destructor | every alert gets one outcome, from the bars after it, and the thread ends |
| `AlertTags`, `AlertTagDBInterface`, `Enums`, `Candle` | statistics per combination and per tag; names, ids and bitmaps of tags | `updateStats`, `logAllTagStats`, `convertAlert`, a candle's row written and read | counts are exact, combinations are told apart, what is written is read back |
| nanodbc | connection, transaction, statement, result | connect to commit; bind, execute, move, read | a batch is stored whole; reads return the row asked for; buffers are live |
| `Securities::Index` and the test harness | scope and requests of an index, stream threads, mock buffer, scanning loop | `updateOptionRequests`, `reqRealTimeBars`, `cancelRealTimeBars`, the integration test | the scope is streamed, every thread ends |
| `AlertRoutes.h`, `App`, `Logger` | tables made once, connection, log | - | - |

Interaction: a callback stores a bar in the buffer under `wrapperMtx_` and notifies the
condition variable; the main thread holds that mutex from the full buffer to the end of
the batch.  `ContractData::updateData` of the underlying queues candles for the database;
that of an option calls the alert callback, which queues the candle for the database when
the price is above 0.05 and gives it to the alert handler in any case.  The alert thread
reads the chain of contracts and queues results.  Two of the three database queues and the
alert queue are used partly without their mutex.  The insertion thread is the only user of
the database connection while the program runs.

What is hard: lost wake-ups between the callbacks and `cv_.wait`; a 60 second status check
that changes the capacity in the middle of a batch; a chain of contracts that lags behind
the requests; bars that never come; option candles queued after their bar was stored;
transactions that lose a whole batch or store part of it; failing statements and a lost
link; unlocked queues; a vector copied while it grows; buffers the driver still points at;
flags that decide whether threads ever end.  `PROJECT.json` lists each at its line under
"hazards".

## The modules

**`OptionScanner.tla`** models the message thread, the buffer and the main thread.  `mainPc`
is where the main thread is: `snapshot` (spinning on `getReqId`), `send` (in
`updateStrikes`), `loop` (testing `notDone`), `wait`/`asleep`/`woken` (in `cv_.wait`),
`process`, `candle` and `alert` (the batch, with `wrapperMtx_` held), `update`, and the ends
`done` (an error) and `crashed` (`bufferMap.at(1234)` threw).  A callback is one action, as
it runs under one lock; `realtimeBar` is disabled while the main thread holds the mutex.
The request loop is one action per request, since bars of earlier requests arrive in
between.  `checkBufferFull(expired)` is one evaluation of the wait's predicate, including
the status check when 60 seconds have passed since the last one; time is a choice, so a
check may come at any evaluation.  A bar is its request id; only the underlying's bar
carries a price.  `addedContracts` is a counter because the code uses only its size.
`unseen` is a history variable: how many streams had no first bar when a status check set the
present capacity, and 0 if `setNewBufferCapacity` set it to all requests.  The 60 second timer
knows nothing of batches, so a check may run out inside any of them.  One that finds every
stream active does no harm, wherever it runs out; only one before a stream's first bar makes
batches partial.  `SettledSpec` leaves out the latter alone: once `activeReqs` is `requested`,
checks run out at any evaluation.

**`BarBatches.tla`** is what the buffer promises: each stream is subscribed once, bars
arrive for subscribed streams, and a batch is handed over only when it has a bar of every
stream.

**`ContractData.tla`** models `updateData` as one action: the bar, the candles it
completes, cumulative volume, extremes, comparisons, the running deviations, the tags of
each frame, the hour of the session and the candles it sends (`emitted`).  The ratios 6, 2,
5 and 6 of the code and the 60 minutes of a slot are constants.  Prices are integers and a
deviation is kept as count, sum and sum of squares.  The code compares doubles (`Formulas.h`),
so each comparison that rounding can turn has both outcomes: `Rounding` bounds what it adds, one
part in `Precision` of the sum of squares, a comparison closer than that goes either way, and a
sample whose spread is lost in it (not `Steady`) has any tag or none, since its variance may be
negative and `sqrt` not a number.  At a distance of exactly 10 % `isWithinXPercent` goes either
way too.

**`AlertHandler.tla`** models the alert thread at the granularity of its accesses to shared
state (`pc`: `outer`, `inner`, `front`, `read`, `copy`, `check`, `pop`), against the main
thread's bars, alerts and destructor.  `inputAlert` pushes under the mutex and `pop` runs
without it; a collision may lose the pushed alert or leave an element nobody wrote.  A
vector or map that changes while it is read (`raced`) may make the thread read freed memory
and crash (`pc = "crashed"`).  Prices are whole cents; `checkWinStats` compares doubles, so at a
difference of exactly 10 cents, a rise of exactly 60 % or a fall of exactly 30 % it decides
either way (`AtMost`).
**`AlertOutcomes.tla`** is the promise: alerts are answered in their order, each once.

**`AlertTags.tla`** holds the values: twelve tags of an alert, `operator<`, names in both
directions, ids and bitmaps, the row of an option candle.  **`TagStatistics.tla`** is the
statistics object and the table of candles over it.

**`DatabaseManager.tla`** models the three queues, the insertion thread at the granularity
of its statements, and the tables with the keys that matter: the unique time, the time of
candles and the id of results.  The producers follow the order of a batch, the underlying
first.  `Faults` selects what may go wrong: `"db"`, any statement fails (each post catches
it); `"race"`, the unlocked `push`/`pop` of `std::queue` and the unlocked `stopInsertion`
behave as data races do: an element is lost, an element appears that nobody wrote, a write
is not seen; `"skew"`, a batch mixes bars of any times and the underlying may miss some: the
buffer keeps a stream's last bar until the batch is processed, so the candle of a silent stream
may be many bars old.  `batchOf` is a history variable: the underlying's bar an option candle
came with, whatever its own time.  **`CandleStore.tla`** is what
the insertion thread promises for option candles: what is queued stays pending until
stored, once, and never while an earlier candle is pending.

**`OdbcSession.tla`** opens the posts that `DatabaseManager` takes as one step: the calls of
`CandleRoutes.h` on one connection, the counters and flags of `connection_impl` and
`transaction_impl`, the temporary table of ids, and the session at the server.  Any call may
fail, and the link may be lost between two calls.  **`BatchLog.tla`** is the promise: a batch
of rows is stored whole or not at all, and what is reported as stored is stored.

**`OdbcResult.tla`** models a statement with its parameter, its executions and its newest
result: what the driver knows of the handle (cursor, rowset size, addresses of buffers),
what the result object has, and what a caller may expect of the row by the documentation of
`first`, `next`, `move` and the rest.  Columns are numbers and texts, which are bound, and
long texts, which are read with `SQLGetData`; a value is the row it belongs to.  `move` and
`skip` also count backwards, as their `long` allows.  What a read in front of the buffers finds,
and what the driver sends from the freed strings and indicators of a batch whose replacement
failed to be bound, is any value: both are undefined in the code.

**`IndexScanner.tla`** composes the request handler of an index (`Index` and its copy in the
harness) with stream threads, the mock wrapper and its buffer, the scanning loop and the
thread of `option_scanner_tests.cpp` that waits for updates.

`MC*.tla` give the constants their values.  Definitions marked "mutant" are broken
variants used to test that a property can fail; no specification uses them.

## The runs

| run | what it shows | bounds |
| --- | --- | --- |
| `scanner_safety` | type correctness, no lost wake-up, the underlying is known when looked up, a disarmed buffer can fill, the scope is streamed, a batch lacks at most the streams a status check passed over and only such a check lets the process end - with checks, errors and price moves at any time | one strike per price, prices 100 and 105 and the start price 0, 7 requests counted |
| `scanner_settled` | distinct requests and refinement of `BarBatches`, when no status check runs out between a request and its first bar | three strikes on two sides, one price and the start price, 20 requests |
| `scanner_live` | with checks at any time, the main thread finishes batch after batch until an error or a missing underlying, and complete batches come again and again | one strike, one price and the start price, 7 requests counted |
| `scanner_silent_stream` | violated, see below | the same |
| `contract_candles` | aggregates, volume and shared times of candles, local window, tags and hour of the session, and that tags are not given on less history than they need | ratios 2, 2, 2, 2; `MaxBars` 40, at most two of them unlike the others; a start before the opening, in the session and after the close; `Precision` 10^9, as TLC's integers have 32 bits (less than the 2^40 and more of a double: more comparisons are left open) |
| `alert_outcomes` | outcomes are those of the half hour after the alert, the walk leaves its vector only for a contract that missed bars, refinement of `AlertOutcomes`, every alert leaves the queue, the join returns | two contracts, one of which gets every other bar, after the other's; two alerts, four moments, half an hour of two bars |
| `alert_tags` | statistics against a recount, combinations and bitmaps, rows read back | three combinations at both ends of the enums, three outcomes, three calls |
| `database_safety` | no batch rejected, refinement of `CandleStore`, late candles are stored, after `stop` only waiting candles keep the loop | three bars, two candles of the underlying and one option candle per bar |
| `database_faults` | types, and a candle that is due waits for one more bar at most, with all three faults | three bars, one candle of the underlying and one option candle per bar |
| `odbc_session` | the counters and the mode of the session are restored, ids name rows, refinement of `BatchLog` | two batches of candles and one of results, one or two rows each, one time, one bar, three failing calls |
| `odbc_result` | rows and values read are the ones asked for wherever the row is known, fetches write into live buffers, executions read the last batch unless its bind failed | two result sets of three and one rows whose columns change kind, an insertion with a parameter, rowsets of one and two rows, three results, one failing call; `move` to -2 .. N + 1, `skip` of -2 .. 2 and at most two rows in front of a rowset (`MaxBack`) |
| `index_scanner` | the scope is streamed, reference values are consistent, the test and all threads end | one strike per price, a price that moves by eight strikes, one update, first capacity 2; the first bars of options arrive in the order of their requests, and after the end of the streams only the underlying's last bar does |

The bounds are small but let the interesting cases happen: a start price of 0 chooses
strikes that no later price needs, so the scope moves in every scanner run; two prices one
strike apart make scopes overlap, leave and return; a contract can be requested twice
before its first bar.  `MaxAdded` stops a run that keeps re-requesting; it is reached only
after the second request of a contract, and `CompleteBatchesRecur` excepts the states it has
stopped (`AtBound`).  In `contract_candles` 40 bars hold two refreshes of
the local extremes; two odd bars suffice to tell apart any window and its neighbours.  Three
bars in the database runs allow a candle to be queued late, to wait and to be stored with a
batch of the next bar.  In `alert_outcomes` the second alert is raised while the first is
being judged, and the second contract has windows that are empty, short and full.  Three
failing calls in `odbc_session` are a statement, its rollback and the return to autocommit.
In `odbc_result` a result is read after an older one was destroyed, the second result set
binds what the first unbound, and a long text needs one, two or no calls.  Deadlock is
checked in `odbc_session` only: elsewhere the program may end (`done`, `crashed`, `ended`,
a joined thread), or the model of a session ends at its bound.

One run is violated: `scanner_silent_stream`.  "Periodically check to ensure buffer is
processing and not in an unfilled state" says `tWrapper.h:55`, but after the first batch
`wasDataProcessed_` stays set, so one silent stream stops the scanner for good.

## Fairness

`FairSpec` of `OptionScanner` assumes that the operating system runs the main thread
(weak fairness of its steps), that a thread woken again and again is at some time woken more
than 60 seconds after the last status check (strong fairness of an expired check: real time
passes), that TWS ends the snapshot request and that it delivers bars for every requested
contract (weak fairness per stream; `SilentSpec` leaves one out).  `realtimeBar` is disabled
only while the main thread holds the mutex for a batch, and between two batches the main
thread gives it up.  Nothing is assumed of prices, errors or spurious wake-ups.
`CompleteBatchesRecur` has a premise of its own, `StreamsInTurn`, strong fairness per stream: all
streams come over one connection to one message thread, so none is passed over while the others
deliver batch after batch.  Without it a batch that a check made partial could leave the same
stream out for ever.

`FairSpec` of `DatabaseManager` assumes that the insertion thread runs; the producers may
stop at any time.  `FairSpec` of `AlertHandler` assumes that the alert thread runs - it polls
and sleeps, and never waits for another thread but for a mutex held for one push - and that
the clock goes on.  `FairSpec` of `IndexScanner` assumes that each stream thread, the loop
and the test run, that the underlying's thread writes prices, and, as above, that a loop
that evaluates its condition for ever does so after the status check's three seconds.

## The proofs

Every theorem holds for all values of the constants that satisfy the named assumption of
its module.

`OptionScannerProofs.tla` (`PricesAssumption`, `SizesAssumption`) proves

- of `Spec`: `TypeOK`, `NoLostWakeup`, `UnderlyingKnown`, `BufferCanFill`, `ScopeIsStreamed`,
  `LacksAtMostUnseen` and `CrashNeedsEarlyCheck`;
- of `SettledSpec`: `NoDuplicateRequest`, and that the scanner implements `BarBatches`.

`TypeOK` carries the inclusions bars <= active requests <= requested that everything else
needs.  The safety invariant of `Spec` strengthens the other six by what they rest on:
the chain holds the underlying from the first bar of a batch on, a request in the chain was
requested in pairs (`ScopeIsStreamed` needs that a call in the chain has its put requested),
a disarmed buffer's capacity came from a count of streams, and the requests fit the capacity
but for the `unseen` ones (`UnseenInv`), so that a batch lacks no more than those and, if there
are none, has the underlying.  In settled sessions the central fact is that a full buffer is
complete (`FullBufferIsComplete`): bars are distinct members of `requested`, requests are
distinct, and the capacity is at least their number.

`AlertHandlerProofs.tla` (`HandlerAssumption`) proves `CrashNeedsMissedBar` and that the two
threads implement `AlertOutcomes`.  `IInv` says that an alert in the queue has a bar of its
own time (`AlertInv`), that the bars of a contract are in order of time and not from the
future (`StreamInv`), and what a copied window contains (`WindowInv`): its last bar is of the
alert's time or later, unless it is empty.  From that the walk finds its end, except for a
contract that got fewer than half an hour of bars in half an hour.  `OutcomesExact` needs to
know where a window came from: `CopyInv` says that it is a stretch of the contract's bars at
least half an hour long, although bars are added while it is copied, and `ReportInv` that each
report is about bars k to l of its contract and that every earlier bar is older than the alert
or than the half hour before bar l.  The walk of `checkWinStats` is described by the first bar
at which it stops.  An outcome is exact but for the thresholds: there the theorem allows the
two that rounding can give.

`TagStatisticsProofs.tla` proves that `operator<` is a strict total order - without which
`std::map` would merge or lose combinations -, that bitmaps of different combinations differ
(each enum's ids start where the last one's end, so an id tells its field).
`AnswersExact` follows from `CountInv`: the entry of every
combination and of every tag, asked for or not, has the count, the sums and the running mean of
exactly the updates it takes part in (`Exact`), which one more update keeps.  A rate is a
fraction in the model: the theorem is about the formulas of `updateStats`, not their rounding.
`ReadBack` follows from `TableInv` (row i is that of the i-th candle posted) and from
`RowIsRead`: a row gives its tags back, and is understood exactly when its distance from the
price is ATM.

`OdbcSessionProofs.tla` (`SessionAssumption`) proves `SessionClean`, `IdsNameRows` and that
the session implements `BatchLog`, for all batches and any number of failures.  `TxInv`
follows the transaction's count and flags from call to call, `StoreInv` says that only the
batch about to be rolled back can be open in part, `IdInv` that identities are unique and the
temporary table holds those of the batch just inserted.

`OdbcResultProofs.tla` (`OdbcAssumption`) proves `BuffersAreLive`, `ReadsExact` and
`ParametersArrive`, for all queries, rowset sizes and numbers of failing calls, with the
exceptions those properties name: no claim is made of the row after a `skip` that fetched
nothing, after `prior`, `skip`, `last` or a move from the end with rowsets of several rows (until
`first`, `last` or `move` makes it known again), nor of an execution after a bind that failed
(until one succeeds).  `LiveInv`
follows the addresses at the driver from call to call: whenever the newest result can be
fetched from, each column's address is that of its own buffers for the current result set, or
none.  `CursorInv` relates the cursor of the driver, the position in the rowset and the row the
calls promise (`Before`, `On` and `After` the rows) and says that a position in front of the
rowset is one the client does not know, `ReadInv` adds the value read last and
`ParamInv` the batch with its indicators.  That a long text is read whole is an argument about
the loop of `SQLGetData` (`WholeText`): each piece ends where the next begins.

`DatabaseManagerProofs.tla` (`SizesAssumption`, `FaultsAssumption`) has two parts.  Under every
fault `TypeOK` and `DueWaitsOneBar` hold: a candle left behind although it was due came with the
bar stored last or a later one, however old it is itself.  The inductive invariant adds that the
insertion thread has an element at the head between its test and its `pop` (`HeadInv`), and that
nothing of the underlying in the queues or tables is newer than the main thread's bar (`AgeInv`).
With `Faults = {}` `NoBatchRejected` holds and the thread implements `CandleStore`.  The two
theorems say so in their hypothesis because each fault really breaks them: a lost element leaves
its time out of the table, a failed statement loses its batch, and with skew the underlying can
miss the bar whose time a candle needs.  `RowsInv` is the heart: the times in the table are those
up to some bar, and each later bar that the main thread has begun still has a candle in the queue.
`BatchInv` keeps a batch apart from what waits, and leaves nothing older than the batch behind.

`IndexScannerProofs.tla` (`PricesAssumption`, `SizesAssumption`) proves `TypeOK`,
`ScopeIsStreamed` and `ReferencesConsistent`.  As in the main program a strike is looked up by
its call alone, so `ScopeInv` says that calls and puts are requested in pairs; `StreamInv` ties
the requests to the stream threads, and `ReferenceInv` the values of a stream to the price it
was started at.

`ContractDataProofs.tla` (`RatiosAssumption`, `BarsAssumption`) proves `TypeOK`,
`AggregatesExact`, `LocalWindowExact`, `TagsAreOfTheCandle` and `TagsNeedHistory`, for all
ratios of the frames and any length of the session.

- Aggregates: `Layer(candles, per, s)` says that candle k is the aggregate of elements
  (k - 1) * per + 1 to k * per of `s`.  A bar keeps the three layers (`ExtendStep`), and two
  layers are one with the product of their ratios (`LayerCompose`), so that all candles are
  those of the five second bars (`CandleInv`, `VolumeInv`).
- Local extremes: `LocalInv` says which candles the provisional extremes cover between two
  refreshes and which the published ones, with the first window one candle longer.
- Tags: `StatInv` says that the running statistics are the sums over all candles of the frame
  and that the spread n * sumSq - sum * sum is not negative.  Of n values, none has a distance
  n * x - sum whose square exceeds n - 1 times the spread (`SampleStep`): no value is far from a
  mean it is part of, hence `TagsNeedHistory`.  Rounding can reach k deviations with k * k + 1
  values but not with fewer, so two, three and four need 5, 10 and 17 candles of a sample whose
  spread exceeds the rounding.  `TagInv` says that tags other than the first
  ones were computed with the newest candle, `HourInv` follows the hour of the session.

The assumptions name what the code takes for granted: of a session, that a minute has more than
one bar, so that the first one lies in the minute the session began in, and that prices lie
above the 0 and not above the 10000 that stand for an unset high and low; of a query, that it
has a result set and its long texts a length.

Sums, greatest and least elements are folds in the model.  Their laws - a fold over one more
element, over a split set, over an interval - are lemmas at the head of `ContractDataProofs`
and, as far as needed there, of `TagStatisticsProofs`.  Induction over numbers is done by least
counterexample: the set of numbers where a claim fails has a least element
(`NatLessThanWellFounded`, `WFMin`), and the step contradicts it.

Only model-checked: liveness (`KeepsProcessing`, `CompleteBatchesRecur`, `LateCandlesStored`,
`StopWaitsForCandlesOnly`, `EveryAlertLeaves`, `JoinReturns`, `StreamsEnd`), since fairness and
ENABLED are outside the prover.  Every other property of a passing run is also a theorem.

## Also seen, without a run

The scanner
- `processBuffer` is to "ensure that the underlying is inserted first" (`tWrapper.cpp:159`) and
  looks it up with `at(1234)`: a status check before its first bar lets a buffer without it
  count as full, and the exception ends the process.  `CrashNeedsEarlyCheck` says that nothing
  else does.
- `error` withdraws the error flag on a system message; alerts are raised out of scope;
  `pauseMessages` pauses nothing; a repeated request can raise the capacity above the number
  of streams until the next status check that finds nothing processed.

Candles and alerts
- "Only update stdev tags after 30 minutes of data" says `ContractData.cpp:280`, but the tags of
  five second candles wait for 360 five minute candles; `TagsAreOfTheCandle` states which
  candles are untagged (`TaggedFrom`).
- The local extremes are unset (0) for the first comparisons, although the comment at
  `ContractData.cpp:77` says that these wait.
- `updateComparisons` says it "will use 0.1% difference" (`ContractData.cpp:362`); `percentDiff`
  is 0.1 of the value, ten percent.
- `distFromPrice` labels the two sides of the price the other way round than `Enums.h:26`.
- `checkWinStats` walks past the end of a short or empty window, although
  `AlertHandler.cpp:75` and `AlertHandler.h:46` promise to handle alerts near the close.  The
  alert's own bar counts as part of its half hour.
- An alert raised between the thread's last test of the queue and the done flag is not
  answered.

The database
- An option candle queued after the last bar was stored is never due, and the join of
  `stop()` waits for it.
- Alerts at a price of at most 0.05 are not stored, but their results are, with id 0; the
  foreign key rejects every result of the same batch.
- A candle of a bar the underlying missed takes its batch down.
- A batch whose commit was reported as failed can still be committed when autocommit is
  switched on again.
- The ids of a batch are read back in the order a `SELECT` without `ORDER BY` gives
  (`CandleRoutes.h:342`); `OdbcSession` takes it to be that of the insertion.
- `SELECT MAX(Time)` on an empty table throws `null_access_error`.
- `setAlertTable` references a table "Candles" that is never created, so it and
  `setTagMappingTable` fail, and `setAlertCombinationTable` never executes its statement.

nanodbc, where `OdbcResult` gives up or excepts a case
- A sentry is the "value which should represent a null value" (`nanodbc.h:539`), but `bind` of
  numbers sends it as a value.  The program binds without one.
- `skip` "skips a number of rows and then fetches the resulting row" (`nanodbc.h:1698`), but with
  a count below zero it leaves the rowset at its beginning, fetches nothing and answers true.
  The program does not skip.
- After `next_result` the count and the position of the last rowset remain until the next
  fetch.  With rowsets of several rows `prior`, `last` and `skip` over an edge land on the
  first row of the rowset; `at_end` compares the row of the set with the rows of the rowset.
- An unbound NULL read without a fallback is empty instead of an exception; a second read of
  an unbound text is empty; with rowsets of several rows unbound columns are those of the
  first row.
- A single string that is marked NULL is sent as a value.
- A bind that fails after it replaced the strings and indicators of the last one leaves the
  driver with the addresses of freed memory, which an execution then reads.
- After a failed `next_result` or construction the driver keeps addresses of freed buffers;
  nothing reads them until the statement is executed again.

The harness
- The handler requests 21 streams at four strikes, the buffer and the tests expect 19;
  `getStrikes` gives five strikes below the money whatever `numStrikes` is.
- A batch that filled without the underlying ends the loop with an exception of `at(1234)`.

## Not modelled

Historical data and tick callbacks that only print, connection and shutdown of the client,
the cancellation after the close, logging and the driver program `OptionScannerTWS.cpp`: I/O
without state that the rest depends on.  `AlertRoutes.h` and the creation of tables: SQL text
run once.  Of nanodbc, which is vendored, what the program does not use: table-valued
parameters, catalogs, variants, output parameters, the asynchronous calls, data sources.  Of
the harness, historical data, the random values of candles and the benchmarks.

## Plan

1. Proofs beyond what the runs ask: which candles each single fault of `DatabaseManager` can
   lose, and that the stream threads of `IndexScanner` are those requested after any number of
   updates.
2. A composition of the alert callback, the alert handler and the database manager: which
   alerts end up with a stored outcome.
3. Table-valued parameters and output parameters of nanodbc, if the program comes to use
   them.
