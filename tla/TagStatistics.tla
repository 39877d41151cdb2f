--------------------------- MODULE TagStatistics ---------------------------
(***************************************************************************)
(* AlertTagStats counts the outcomes of alerts for each combination of     *)
(* tags and for each tag; the table OptionCandles holds candles with their *)
(* tags and gives them back.                                               *)
(*                                                                         *)
(* A win counts 2 halves, a small one 1.  Averages are exact fractions.    *)
(***************************************************************************)
EXTENDS AlertTags, Functions

CONSTANTS
  Alerts,     \* the combinations of tags alerts have
  Outcomes,   \* <<halves, percent>>: what an alert may come to
  Asked,      \* <<field, value>>: the tags a caller asks for
  MaxCalls    \* bound on the outcomes and the candles posted

ASSUME AlertsAssumption ==
  /\ Alerts \subseteq AlertTags
  /\ Outcomes \subseteq {0, 1, 2} \X Int
  /\ Asked \subseteq {p \in Fields \X Nat : p[2] < Count[p[1]]}
  /\ MaxCalls \in Nat

VARIABLES
  alertSpecificStats_, \* by combination, a std::map
  tagStats,            \* by field, then by value
  OptionCandles,       \* rows of tag ids
  updates,             \* the outcomes so far
  posted,              \* the tags of the candles posted
  got                  \* what the last call read from the table

statVars  == <<alertSpecificStats_, tagStats, updates>>
tableVars == <<OptionCandles, posted>>
vars == <<statVars, tableVars, got>>

NoStats == [winRate |-> <<0, 1>>, averageWin |-> <<0, 1>>,
            unweightedWins |-> 0, weightedWins |-> 0, total |-> 0]
NotRead == [read |-> FALSE, candles |-> <<>>]

Init ==
  /\ alertSpecificStats_ = [t \in {} |-> NoStats]
  /\ tagStats = [k \in Fields |-> [v \in {} |-> NoStats]]
  /\ OptionCandles = <<>> /\ updates = <<>> /\ posted = <<>>
  /\ got = NotRead

-----------------------------------------------------------------------------
\* mutant: the running mean divides by the alerts, not by the wins
updateAlertStatsAll(s, o) ==
  LET avg == s.averageWin
  IN  [winRate |-> <<s.weightedWins + o[1], s.total + 1>>,
       averageWin |-> IF o[1] = 0 THEN avg
                      ELSE <<avg[1] * s.total + o[2] * avg[2], avg[2] * (s.total + 1)>>,
       unweightedWins |-> s.unweightedWins + IF o[1] = 0 THEN 0 ELSE 1,
       weightedWins |-> s.weightedWins + o[1],
       total |-> s.total + 1]

\* One more outcome: the mean moves by its distance over the number of wins.
updateAlertStats(s, o) ==
  LET wins == s.unweightedWins + IF o[1] = 0 THEN 0 ELSE 1
      avg  == s.averageWin
  IN  [winRate |-> <<s.weightedWins + o[1], s.total + 1>>,
       averageWin |-> IF o[1] = 0 THEN avg
                      ELSE <<avg[1] * wins + (o[2] * avg[2] - avg[1]), avg[2] * wins>>,
       unweightedWins |-> wins,
       weightedWins |-> s.weightedWins + o[1],
       total |-> s.total + 1]

\* std::map takes two keys for one when neither is less.
Found(m, t) == {u \in DOMAIN m : ~ Less(u, t) /\ ~ Less(t, u)}
KeyOf(m, t) == IF Found(m, t) = {} THEN t ELSE CHOOSE u \in Found(m, t) : TRUE

StatsAt(m, key) == IF key \in DOMAIN m THEN m[key] ELSE NoStats
With(m, key, s) == [u \in DOMAIN m \cup {key} |-> IF u = key THEN s ELSE m[u]]

updateStatsMap(m, key, o) == With(m, key, updateAlertStats(StatsAt(m, key), o))
\* The accessors leave an entry behind.
checkStatsMap(m, key) == With(m, key, StatsAt(m, key))

updateStats(t, o) ==
  /\ Len(updates) + Len(posted) < MaxCalls
  /\ alertSpecificStats_' =
       updateStatsMap(alertSpecificStats_, KeyOf(alertSpecificStats_, t), o)
  /\ tagStats' = [k \in Fields |-> updateStatsMap(tagStats[k], t[k], o)]
  /\ updates' = Append(updates, [tags |-> t, outcome |-> o])
  /\ got' = NotRead
  /\ UNCHANGED tableVars

alertSpecificStats(t) ==
  LET key == KeyOf(alertSpecificStats_, t)
  IN  /\ alertSpecificStats_' = checkStatsMap(alertSpecificStats_, key)
      /\ got' = NotRead
      /\ UNCHANGED <<tagStats, updates, tableVars>>

\* optionTypeStats, timeFrameStats and the ten others.
singleTagStats(k, v) ==
  /\ tagStats' = [tagStats EXCEPT ![k] = checkStatsMap(tagStats[k], v)]
  /\ got' = NotRead
  /\ UNCHANGED <<alertSpecificStats_, updates, tableVars>>

\* The log asks for every value of five fields.
Logged == {OptType, Frame, Rtm, 5, 6}
EveryTag(m, k) ==
  [v \in DOMAIN m \cup 0 .. Count[k] - 1 |-> StatsAt(m, v)]
logAllTagStats ==
  /\ tagStats' = [k \in Fields |->
       IF k \in Logged THEN EveryTag(tagStats[k], k) ELSE tagStats[k]]
  /\ got' = NotRead
  /\ UNCHANGED <<alertSpecificStats_, updates, tableVars>>

-----------------------------------------------------------------------------
\* OptionTable::post: a batch of candles, encoded.
post(batch) ==
  /\ Len(updates) + Len(posted) + Len(batch) <= MaxCalls
  /\ OptionCandles' = OptionCandles \o [i \in 1 .. Len(batch) |-> Row(batch[i])]
  /\ posted' = posted \o batch
  /\ got' = NotRead
  /\ UNCHANGED statVars

\* OptionTable::get returns what it read before the first row it cannot read.
get ==
  LET ids  == [i \in DOMAIN OptionCandles |-> ReadOrder(OptionCandles[i])]
      fine == {n \in 0 .. Len(ids) : \A i \in 1 .. n : Understood(ids[i])}
      last == CHOOSE n \in fine : \A m \in fine : m <= n
  IN  /\ got' = [read |-> TRUE, candles |-> [i \in 1 .. last |-> Decoded(ids[i])]]
      /\ UNCHANGED <<statVars, tableVars>>

Next ==
  \/ \E t \in Alerts, o \in Outcomes : updateStats(t, o)
  \/ \E t \in Alerts : alertSpecificStats(t)
  \/ \E p \in Asked : singleTagStats(p[1], p[2])
  \/ logAllTagStats
  \/ \E t \in Alerts : post(<<t>>)
  \/ \E t, u \in Alerts : post(<<t, u>>)
  \/ get

Spec == Init /\ [][Next]_vars

-----------------------------------------------------------------------------
Among(chosen(_)) == {i \in DOMAIN updates : chosen(updates[i].tags)}
Sum(f) == SumFunction(f)
\* The statistics of the outcomes numbered in S, from their definition.
Expected(s, S) ==
  LET won   == {i \in S : updates[i].outcome[1] > 0}
      halves  == Sum([i \in S |-> updates[i].outcome[1]])
      percent == Sum([i \in won |-> updates[i].outcome[2]])
  IN  /\ s.total = Cardinality(S)
      /\ s.winRate[1] * Cardinality(S) = halves * s.winRate[2]
      /\ s.averageWin[1] * Cardinality(won) = percent * s.averageWin[2]
      /\ won = {} => s.averageWin[1] = 0

\* What the accessors answer for a combination or a tag is the count, the win rate and the
\* average win of exactly the alerts that had it, whatever was asked or logged before, with
\* the combinations told apart by operator< and the mean kept as a running one
\* (AlertTags.cpp 24-34, 44-91, 161-181, 183-221).
AnswersExact ==
  /\ \A t \in Alerts :
       Expected(StatsAt(alertSpecificStats_, KeyOf(alertSpecificStats_, t)), Among(LAMBDA u : u = t))
  /\ \A k \in Fields : \A v \in 0 .. Count[k] - 1 :
       Expected(StatsAt(tagStats[k], v), Among(LAMBDA u : u[k] = v))

\* Combinations with statistics of their own have bitmaps of their own, from which their
\* twelve ids can be read again: the column CombinationBitmap is unique
\* (AlertTagDBInterface.h 30-84, AlertRoutes.h 128).
CombinationsUnique ==
  \A t, u \in DOMAIN alertSpecificStats_ :
    LET mask(w) == convertToBitmask(convertAlert(w))
    IN  /\ Cardinality(bitmaskToTags(mask(t))) = 12
        /\ bitmaskToTags(mask(t)) = convertAlert(t)
        /\ mask(t) = mask(u) => t = u

\* The candles read back are those posted, in their order and with their tags, up to the first
\* whose distance from the price is not ATM: its name is not one that str_to_rtm knows, and
\* the exception ends the reading (CandleRoutes.h 308-319, 377-399, Enums.cpp 240-254).
ReadBack ==
  got.read =>
    LET n == Len(got.candles)
    IN  /\ n <= Len(posted)
        /\ \A i \in 1 .. n : got.candles[i] = posted[i] /\ posted[i][Rtm] = ATM
        /\ n < Len(posted) => posted[n + 1][Rtm] # ATM
=============================================================================
