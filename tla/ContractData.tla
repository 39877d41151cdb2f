---------------------------- MODULE ContractData ----------------------------
(***************************************************************************)
(* One contract: ContractData::updateData takes a five second bar, builds  *)
(* the candles of the longer time frames from it, keeps the daily and the  *)
(* local extremes and compares the price with them.                        *)
(*                                                                         *)
(* The time of a bar is its number.  Prices are in whole cents.  The code  *)
(* computes with double: where rounding can decide a comparison, the model *)
(* has both outcomes (Within, MayExceed, MayStayWithin).                   *)
(***************************************************************************)
EXTENDS Integers, Sequences, FiniteSets, Functions

CONSTANTS
  Bars,      \* five second bars, without their time (0)
  PerThirty, \* five second bars in a 30 second candle: 6
  PerMinute, \* 30 second candles in a minute: 2
  PerFive,   \* one minute candles in a five minute candle: 5
  HalfHour,  \* five minute candles in half an hour: 6
  SlotMinutes, \* minutes in an hour of the TimeOfDay tag: 60
  Precision, \* rounding is one part in so many of a sum of squares: 2^40 and more
  Starts,    \* when a session may begin, in minutes after 8:30, negative before
  MaxBars    \* bound of the model on the bars of a session

ASSUME RatiosAssumption ==
  /\ {PerThirty, PerMinute, PerFive, HalfHour, SlotMinutes, Precision, MaxBars} \subseteq Nat \ {0}
  /\ PerThirty > 1
  /\ Starts \subseteq Int

HalfHourBars == PerThirty * PerMinute * PerFive * HalfHour

NoLow == 10000  \* dailyLow_ and its like before any candle

\* A high of 0 and a low of 10000 are what the code takes for extremes that are not set:
\* prices lie between them.
ASSUME BarsAssumption ==
  Bars \subseteq [time : {0}, open : Nat, high : Nat \ {0}, low : 0 .. NoLow,
                  close : Nat \ {0}, volume : Nat]

MinVolume == 100 \* volume up to which a five second candle raises no alert

VARIABLES
  isUnderlying,
  start,            \* the minute the session began
  fiveSec, thirtySec, oneMin, fiveMin, \* the candles, as in fiveSecCandles_
  cumulativeVolume, \* the session's volume, minute by minute
  dailyHigh, dailyLow, localHigh, localLow, tempHigh, tempLow,
  DHL, LHL,         \* the daily and the local comparison
  tod,              \* the hour, 1 .. 7
  sdPrice, sdVol,   \* per time frame, the sums behind mean and deviation
  VPT,              \* per time frame, the tags of its newest candle
  emitted           \* candles this bar sent: to the database or to the alert callback

candleVars == <<fiveSec, thirtySec, oneMin, fiveMin, cumulativeVolume>>
priceVars  == <<dailyHigh, dailyLow, localHigh, localLow, tempHigh, tempLow>>
tagVars    == <<DHL, LHL, tod, sdPrice, sdVol, VPT>>
vars == <<isUnderlying, start, candleVars, priceVars, tagVars, emitted>>

Frames == {"5s", "30s", "1m", "5m"}

NoStats == [n |-> 0, sum |-> 0, sumSq |-> 0]
FirstTags == [volStDev |-> "LowVol", volThresh |-> "LowVol", priceDelta |-> "Under1"]

Init ==
  /\ isUnderlying \in BOOLEAN /\ start \in Starts
  /\ fiveSec = <<>> /\ thirtySec = <<>> /\ oneMin = <<>> /\ fiveMin = <<>>
  /\ cumulativeVolume = <<>>
  /\ dailyHigh = 0 /\ dailyLow = NoLow
  /\ localHigh = 0 /\ localLow = NoLow /\ tempHigh = 0 /\ tempLow = NoLow
  /\ DHL = "Inside" /\ LHL = "Inside"
  /\ tod = 1
  /\ sdPrice = [f \in Frames |-> NoStats] /\ sdVol = [f \in Frames |-> NoStats]
  /\ VPT = [f \in Frames |-> FirstTags]
  /\ emitted = {}

-----------------------------------------------------------------------------
Last(s) == s[Len(s)]
Larger(a, b)  == IF a >= b THEN a ELSE b
Smaller(a, b) == IF a <= b THEN a ELSE b
MaxHigh(s, span) == FoldFunctionOnSet(Larger, 0, [i \in span |-> s[i].high], span)
MinLow(s, span)  ==
  FoldFunctionOnSet(Smaller, 2147483647, [i \in span |-> s[i].low], span)
Volume(s, span)  == SumFunctionOnSet([i \in span |-> s[i].volume], span)

\* mutant: the loop over the bars starts one too late
createNewBarsShort(increment, data) ==
  LET span == Len(data) - increment + 2 .. Len(data)
  IN  [time |-> Last(data).time, open |-> data[Len(data) - increment + 1].open,
       high |-> MaxHigh(data, span), low |-> MinLow(data, span), close |-> Last(data).close,
       volume |-> Volume(data, span)]

createNewBars(increment, data) ==
  LET span == Len(data) - increment + 1 .. Len(data)
  IN  [time |-> Last(data).time, open |-> data[Len(data) - increment + 1].open,
       high |-> MaxHigh(data, span), low |-> MinLow(data, span), close |-> Last(data).close,
       volume |-> Volume(data, span)]

\* What isWithinXPercent may answer: percentDiff is 0.1, a tenth of the value, and at
\* exactly a tenth rounding decides.
Within(value, other) ==
  LET diff == IF value >= other THEN value - other ELSE other - value
  IN  IF 10 * diff = value THEN BOOLEAN ELSE {10 * diff < value}

\* mutant: a new candle with every bar, over the last ones
ExtendSliding(candles, per, before, after) ==
  IF Len(after) > Len(before) /\ Len(after) >= per
    THEN Append(candles, createNewBars(per, after)) ELSE candles

\* The candles of a frame after its shorter one went from before to after.
Extend(candles, per, before, after) ==
  IF Len(after) > Len(before) /\ Len(after) % per = 0
    THEN Append(candles, createNewBars(per, after)) ELSE candles

addValue(s, x) == [n |-> s.n + 1, sum |-> s.sum + x, sumSq |-> s.sumSq + x * x]

\* The variance, the square of numStDev and what rounding may add to either, all times
\* n*n.  A sample whose spread is lost in the rounding has any variance, a negative one
\* included, of which sqrt is not a number.
Spread(s) == s.n * s.sumSq - s.sum * s.sum
Rounding(s) == 16 * ((s.n * s.sumSq) \div Precision)
Steady(s) == Spread(s) > Rounding(s)

\* The outcomes of comparing numStDev(x) with k > 0; at a tie > and >= may both go
\* either way.
MayExceed(s, x, k) ==
  LET d == s.n * x - s.sum IN d > 0 /\ d * d + Rounding(s) >= k * k * Spread(s)
MayStayWithin(s, x, k) ==
  LET d == s.n * x - s.sum IN d <= 0 \/ d * d <= k * k * Spread(s) + Rounding(s)

\* How many whole deviations up to most the value may be found above the mean.
Deviations(s, x, most) ==
  {k \in 0 .. most : /\ k > 0 => MayExceed(s, x, k)
                     /\ k < most => MayStayWithin(s, x, k + 1)}

PriceDeltas == <<"Under1", "Under2", "Over2">>
VolumeStDevs == <<"LowVol", "Over1", "Over2", "Over3", "Over4">>

\* What a tag function may return.  No comparison holds of what is not a number: the
\* function then ends without a return, with any tag or none of them.
updatePriceDelta(s, x) ==
  IF Steady(s) THEN {PriceDeltas[k + 1] : k \in Deviations(s, x, 2)}
               ELSE Range(PriceDeltas) \cup {"Undefined"}

\* Equal volumes are whole numbers and have exactly no deviation.
updateVolStDev(s, x) ==
  CASE Spread(s) = 0 -> {"LowVol"}
    [] Steady(s) -> {VolumeStDevs[k + 1] : k \in Deviations(s, x, 4)}
    [] OTHER -> Range(VolumeStDevs) \cup {"Undefined"}

updateVolThreshold(volume) ==
  CASE volume < 100 -> "LowVol"
    [] volume >= 100 /\ volume < 250 -> "Vol100"
    [] volume >= 250 /\ volume < 500 -> "Vol250"
    [] volume >= 500 /\ volume < 1000 -> "Vol500"
    [] volume >= 1000 -> "Vol1000"

\* How many candles of a frame come before its tags are computed.  The five second
\* frame counts the five minute candles, before this bar's.
TagsDue(frame, count) ==
  CASE frame = "5s"  -> Len(fiveMin) >= HalfHourBars
    [] frame = "30s" -> count >= PerMinute * PerFive * HalfHour
    [] frame = "1m"  -> count >= PerFive * HalfHour
    [] frame = "5m"  -> count > HalfHour

\* mutant: the threshold tag is set with the five minute candles only
NewTagsKept(frame, c, price, vol, count) ==
  IF ~TagsDue(frame, count) THEN {VPT[frame]}
  ELSE [volStDev   : updateVolStDev(vol, c.volume),
        volThresh  : {IF frame = "5m" THEN updateVolThreshold(c.volume) ELSE VPT[frame].volThresh},
        priceDelta : updatePriceDelta(price, c.high - c.low)]

\* The tags a frame may have after its new candle.
NewTags(frame, c, price, vol, count) ==
  IF ~TagsDue(frame, count) THEN {VPT[frame]}
  ELSE [volStDev   : updateVolStDev(vol, c.volume),
        volThresh  : {updateVolThreshold(c.volume)},
        priceDelta : updatePriceDelta(price, c.high - c.low)]

\* One choice for every frame.
SetTags(tags) ==
  \E five \in tags["5s"], thirty \in tags["30s"], one \in tags["1m"], long \in tags["5m"] :
    VPT' = [f \in Frames |-> CASE f = "5s" -> five [] f = "30s" -> thirty
                               [] f = "1m" -> one  [] f = "5m"  -> long]

\* mutant: a candle is judged before it is counted
updateContainersStale(candlesOf, newFrames) ==
  /\ sdPrice' = [f \in Frames |-> IF f \notin newFrames THEN sdPrice[f]
                   ELSE addValue(sdPrice[f], Last(candlesOf[f]).high - Last(candlesOf[f]).low)]
  /\ sdVol' = [f \in Frames |-> IF f \notin newFrames THEN sdVol[f]
                   ELSE addValue(sdVol[f], Last(candlesOf[f]).volume)]
  /\ SetTags([f \in Frames |-> IF f \notin newFrames THEN {VPT[f]}
                ELSE NewTags(f, Last(candlesOf[f]), sdPrice[f], sdVol[f], Len(candlesOf[f]))])

\* updateContainers for every frame that has a new candle with this bar.
updateContainers(candlesOf, newFrames) ==
  /\ sdPrice' = [f \in Frames |-> IF f \notin newFrames THEN sdPrice[f]
                   ELSE addValue(sdPrice[f], Last(candlesOf[f]).high - Last(candlesOf[f]).low)]
  /\ sdVol' = [f \in Frames |-> IF f \notin newFrames THEN sdVol[f]
                   ELSE addValue(sdVol[f], Last(candlesOf[f]).volume)]
  /\ SetTags([f \in Frames |-> IF f \notin newFrames THEN {VPT[f]}
                ELSE NewTags(f, Last(candlesOf[f]), sdPrice'[f], sdVol'[f], Len(candlesOf[f]))])

MinuteOf(time) == start + time \div (PerThirty * PerMinute)

\* Division in C rounds towards zero.
CDiv(a, b) == IF a >= 0 THEN a \div b ELSE -((-a) \div b)

\* Outside 1 .. 7 the tag stays what it was.
updateTimeOfDay(time) ==
  LET slotNumber == CDiv(MinuteOf(time), SlotMinutes) + 1
  IN  tod' = IF slotNumber \in 1 .. 7 THEN slotNumber ELSE tod

updateCumulativeVolume(minute) ==
  LET before == IF cumulativeVolume = <<>> THEN 0 ELSE Last(cumulativeVolume).total
  IN  Append(cumulativeVolume, [time |-> minute.time, total |-> minute.volume + before])

\* mutant: the temporary extremes are not reset
updateLocalMinMaxNoReset(c) ==
  LET high == Larger(tempHigh, c.high)
      low  == Smaller(tempLow, c.low)
      due  == Len(fiveMin) > 0 /\ Len(fiveMin) % HalfHour = 0
  IN  /\ tempHigh' = high /\ tempLow' = low
      /\ localHigh' = IF due THEN high ELSE localHigh
      /\ localLow'  = IF due THEN low ELSE localLow

\* Called before the five minute candle enters fiveMinCandles_.
updateLocalMinMax(c) ==
  LET high == Larger(tempHigh, c.high)
      low  == Smaller(tempLow, c.low)
      due  == Len(fiveMin) > 0 /\ Len(fiveMin) % HalfHour = 0
  IN  /\ localHigh' = IF due THEN high ELSE localHigh
      /\ localLow'  = IF due THEN low ELSE localLow
      /\ tempHigh'  = IF due THEN 0 ELSE high
      /\ tempLow'   = IF due THEN NoLow ELSE low

\* The local extremes are those of before this bar.
updateComparisons(price) ==
  /\ \E nearHigh \in Within(price, dailyHigh'), nearLow \in Within(price, dailyLow') :
       DHL' = CASE nearHigh -> "NDH" [] ~nearHigh /\ nearLow -> "NDL" [] OTHER -> "Inside"
  /\ \E nearHigh \in Within(price, localHigh), nearLow \in Within(price, localLow) :
       LHL' = CASE nearHigh \/ price > localHigh -> "NLH"
                [] ~(nearHigh \/ price > localHigh) /\ (nearLow \/ price < localLow) -> "NLL"
                [] OTHER -> "Inside"

\* The candles of this bar that go out: the underlying's to the database, an
\* option's with its tags to the alert callback, the five second ones only with
\* large volume.
Emits(frame, candles) ==
  IF frame # "5s" \/ isUnderlying \/ Last(candles).volume > MinVolume
    THEN {[frame |-> frame, candle |-> Last(candles), tags |-> VPT'[frame],
           tod |-> tod', DHL |-> DHL', LHL |-> LHL']}
    ELSE {}

updateData(bar) ==
  /\ Len(fiveSec) < MaxBars
  /\ fiveSec'   = Append(fiveSec, [bar EXCEPT !.time = Len(fiveSec) + 1])
  /\ thirtySec' = Extend(thirtySec, PerThirty, fiveSec, fiveSec')
  /\ oneMin'    = Extend(oneMin, PerMinute, thirtySec, thirtySec')
  /\ fiveMin'   = Extend(fiveMin, PerFive, oneMin, oneMin')
  /\ updateTimeOfDay(Len(fiveSec'))
  /\ dailyHigh' = Larger(dailyHigh, bar.high) /\ dailyLow' = Smaller(dailyLow, bar.low)
  /\ IF Len(fiveSec') >= HalfHourBars THEN updateComparisons(bar.close)
                                      ELSE UNCHANGED <<DHL, LHL>>
  /\ cumulativeVolume' = IF oneMin' # oneMin THEN updateCumulativeVolume(Last(oneMin'))
                                             ELSE cumulativeVolume
  /\ IF fiveMin' # fiveMin THEN updateLocalMinMax(Last(fiveMin'))
                           ELSE UNCHANGED <<localHigh, localLow, tempHigh, tempLow>>
  /\ LET after == [f \in Frames |-> CASE f = "5s" -> fiveSec' [] f = "30s" -> thirtySec'
                                       [] f = "1m" -> oneMin'  [] f = "5m"  -> fiveMin']
         new   == {"5s"} \cup (IF thirtySec' # thirtySec THEN {"30s"} ELSE {})
                  \cup (IF oneMin' # oneMin THEN {"1m"} ELSE {})
                  \cup (IF fiveMin' # fiveMin THEN {"5m"} ELSE {})
     IN  /\ updateContainers(after, new)
         /\ emitted' = UNION {Emits(f, after[f]) : f \in new}
  /\ UNCHANGED <<isUnderlying, start>>

Next == \E bar \in Bars : updateData(bar)

Spec == Init /\ [][Next]_vars

-----------------------------------------------------------------------------
TypeOK ==
  /\ isUnderlying \in BOOLEAN
  /\ Len(fiveSec) \in 0 .. MaxBars
  /\ {Len(thirtySec), Len(oneMin), Len(fiveMin)} \subseteq 0 .. MaxBars \div PerThirty
  /\ {dailyHigh, dailyLow, localHigh, localLow, tempHigh, tempLow} \subseteq Nat
  /\ DHL \in {"NDH", "NDL", "Inside"} /\ LHL \in {"NLH", "NLL", "Inside"}
  /\ tod \in 1 .. 7
  /\ VPT \in [Frames -> [volStDev : Range(VolumeStDevs) \cup {"Undefined"},
                         volThresh : {"LowVol", "Vol100", "Vol250", "Vol500", "Vol1000"},
                         priceDelta : Range(PriceDeltas) \cup {"Undefined"}]]
  /\ {e.frame : e \in emitted} \subseteq Frames

\* What the candles of a longer frame have to be: each the aggregate of its own bars
\* of five seconds, none left out and none counted twice, through all three levels
\* (createNewBars and the nested tests of updateData).  All candles one bar sends carry
\* the bar's time, so those of the underlying share one row of UnixValues; and the total
\* volume is that of all bars in finished minutes (updateCumulativeVolume).
AggregateOf(candles, per) ==
  /\ Len(candles) = Len(fiveSec) \div per
  /\ \A k \in DOMAIN candles :
       LET span == (k - 1) * per + 1 .. k * per
       IN  candles[k] = [time   |-> fiveSec[k * per].time,
                         open   |-> fiveSec[(k - 1) * per + 1].open,
                         high   |-> MaxHigh(fiveSec, span),
                         low    |-> MinLow(fiveSec, span),
                         close  |-> fiveSec[k * per].close,
                         volume |-> Volume(fiveSec, span)]
AggregatesExact ==
  /\ \A e \in emitted : e.candle.time = Len(fiveSec)
  /\ AggregateOf(thirtySec, PerThirty)
  /\ AggregateOf(oneMin, PerThirty * PerMinute)
  /\ AggregateOf(fiveMin, PerThirty * PerMinute * PerFive)
  /\ Len(cumulativeVolume) = Len(oneMin)
  /\ \A m \in DOMAIN cumulativeVolume :
       cumulativeVolume[m].total = Volume(fiveSec, 1 .. m * PerThirty * PerMinute)

\* The local extremes are those of the candles since the refresh before, up to and
\* with the candle of the last refresh: the first window is one candle longer than
\* half an hour, the others half an hour (updateLocalMinMax).
LocalWindowExact ==
  LET refreshes == IF fiveMin = <<>> THEN 0 ELSE (Len(fiveMin) - 1) \div HalfHour
      last  == refreshes * HalfHour + 1
      first == IF refreshes = 1 THEN 1 ELSE last - HalfHour + 1
  IN  refreshes > 0 => /\ localHigh = MaxHigh(fiveMin, first .. last)
                       /\ localLow  = MinLow(fiveMin, first .. last)

CandlesOf(frame) == CASE frame = "5s" -> fiveSec [] frame = "30s" -> thirtySec
                      [] frame = "1m" -> oneMin  [] frame = "5m"  -> fiveMin

\* The hour is that of the newest bar while the market is open, the first hour before, and
\* after the close the last one, unless the session began after it (updateTimeOfDay, whose
\* division rounds towards zero and whose default keeps the tag).
TimeOfDayExact ==
  fiveSec # <<>> =>
    LET minute == MinuteOf(Len(fiveSec)) IN
      tod = IF minute < 0 THEN 1
            ELSE IF minute < 7 * SlotMinutes THEN minute \div SlotMinutes + 1
            ELSE IF start < 7 * SlotMinutes THEN 7 ELSE 1

\* From which bar of the session on a frame's candles are tagged: half an hour of bars for
\* the 30 second and one minute candles, one five minute candle more for that frame, and
\* HalfHourBars candles of five minutes for the five second frame.
TaggedFrom(frame) ==
  LET fiveMinBars == PerThirty * PerMinute * PerFive
  IN  CASE frame = "5s" -> HalfHourBars * fiveMinBars + 1
        [] frame \in {"30s", "1m"} -> HalfHourBars
        [] frame = "5m" -> HalfHourBars + fiveMinBars

\* The tags a candle goes out with are its own: none before its frame has the history for
\* them, and then tags that all candles of its frame up to and with it allow, each counted
\* once, never those of an earlier candle; and the hour is that of its session (the order
\* of updateContainers, updateTimeOfDay and the CandleTags in updateData,
\* StandardDeviation::addValue).
TagsAreOfTheCandle ==
  TimeOfDayExact /\ \A e \in emitted :
    LET data == CandlesOf(e.frame)
        n == Len(data)
        Stats(Value(_)) ==
          [n     |-> n,
           sum   |-> SumFunctionOnSet([i \in 1 .. n |-> Value(data[i])], 1 .. n),
           sumSq |-> SumFunctionOnSet([i \in 1 .. n |-> Value(data[i]) * Value(data[i])], 1 .. n)]
        Width(c) == c.high - c.low
        Size(c)  == c.volume
    IN  IF Len(fiveSec) < TaggedFrom(e.frame) THEN e.tags = FirstTags
        ELSE /\ e.tags.volThresh = updateVolThreshold(e.candle.volume)
             /\ e.tags.volStDev \in updateVolStDev(Stats(Size), e.candle.volume)
             /\ e.tags.priceDelta \in updatePriceDelta(Stats(Width), e.candle.high - e.candle.low)

\* A tag is not given on less than it says.  A value that is part of its own sample of n
\* lies at most the square root of n - 1 deviations from the mean, and rounding may take
\* one that lies just there for further: two, three and four deviations need a 5th, 10th
\* and 17th candle (numStDev after addValue), unless the sample has no spread to speak of.
\* And a price is near the local low only when the local extremes are set; near the high
\* it is from half an hour on, since the unset local high is 0, although
\* ContractData.cpp:77 says that the comparisons wait (updateComparisons,
\* updateLocalMinMax).
TagsNeedHistory ==
  /\ \A f \in Frames :
       LET n == Len(CandlesOf(f)) IN
         /\ Steady(sdVol[f]) => /\ VPT[f].volStDev = "Over2" => n >= 5
                                /\ VPT[f].volStDev = "Over3" => n >= 10
                                /\ VPT[f].volStDev = "Over4" => n >= 17
         /\ Steady(sdPrice[f]) => (VPT[f].priceDelta = "Over2" => n >= 5)
  /\ LHL = "NLL" => localHigh # 0
=============================================================================
