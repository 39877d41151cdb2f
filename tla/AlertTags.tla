----------------------------- MODULE AlertTags -----------------------------
(***************************************************************************)
(* The twelve tags of an alert: their order, their ids in the database and *)
(* the names that stand between the two.                                   *)
(*                                                                         *)
(* A field is its place in operator<, a value its place in the enum.       *)
(***************************************************************************)
EXTENDS Integers, Sequences, FiniteSets

OptType == 1
Frame   == 2
Rtm     == 3
Fields  == 1 .. 12 \* 4 TimeOfDay, 5 VolumeStDev, 6 VolumeThreshold, 7 and 8 the
                   \* price deltas of underlying and option, 9 and 10 the daily and
                   \* the local comparison of the underlying, 11 and 12 the option's

\* mutant: the fields of the option follow those of the underlying, but start one early
FirstIdShifted == <<1, 3, 7, 17, 25, 30, 35, 38, 41, 47, 44, 50>>
\* How many values each enum has, and the id of its first.
Count   == <<2, 4, 11, 7, 5, 5, 3, 3, 3, 3, 3, 3>>
FirstId == <<1, 3, 7, 18, 25, 30, 35, 38, 41, 47, 44, 50>>

AlertTags == {t \in [Fields -> 0 .. 10] : \A k \in Fields : t[k] < Count[k]}

ATM == 0

-----------------------------------------------------------------------------
\* operator<, field by field.
Less(left, right) ==
  \E k \in Fields :
    /\ left[k] < right[k]
    /\ \A j \in 1 .. k - 1 : left[j] = right[j]

-----------------------------------------------------------------------------
\* The label of an option at a distance from the underlying's price.
distFromPrice(optType, strike, spxPrice) ==
  LET distance  == IF spxPrice > strike THEN spxPrice - strike ELSE strike - spxPrice
      strikesOTM == IF distance > 20 THEN 5 ELSE (distance + 4) \div 5
      otm == (spxPrice > strike) = (optType = 0)
  IN  IF distance = 0 THEN ATM ELSE strikesOTM + IF otm THEN 5 ELSE 0

\* A request id is a call's strike, or a put's strike and one.
TypeOf(reqId) == IF reqId % 5 = 0 THEN 0 ELSE 1

\* The tags of a contract's candle once the underlying's are added.
addUnderlyingTags(candleTags, reqId, spxPrice) ==
  [candleTags EXCEPT ![OptType] = TypeOf(reqId),
                     ![Rtm] = distFromPrice(TypeOf(reqId), reqId, spxPrice)]

-----------------------------------------------------------------------------
Id(k, v) == FirstId[k] + v

\* The name of an id: some fields share their names.
NameKind == <<"type", "frame", "rtm", "hour", "stdev", "volume",
              "delta", "delta", "daily", "local", "daily", "local">>
Name(k, v) == <<NameKind[k], v>>
intToTag(id) ==
  LET at == CHOOSE p \in Fields \X (0 .. 10) : p[2] < Count[p[1]] /\ Id(p[1], p[2]) = id
  IN  Name(at[1], at[2])

\* The names a field can be read from: str_to_rtm knows none of those that
\* relative_to_money writes but ATM.
Readable(k, name) == name[1] = NameKind[k] /\ (k = Rtm => name[2] = ATM)

\* mutant: the two comparisons of the option change places
ColumnsSwapped == <<2, 1, 4, 3, 5, 6, 8, 12, 11, 7, 9, 10>>
\* The columns of OptionCandles in the order they are read.
Columns == <<2, 1, 4, 3, 5, 6, 8, 11, 12, 7, 9, 10>>

\* A candle's row, by column, and the ids in the order a row is read.
Row(t) == [k \in Fields |-> Id(k, t[k])]
ReadOrder(row) == [i \in 1 .. 12 |-> row[Columns[i]]]

\* The constructor of CandleTags from ids: they are taken as the type of each place.
Placed == <<2, 1, 4, 3, 5, 6, 8, 11, 12, 7, 9, 10>>
Understood(ids) == \A i \in 1 .. 12 : Readable(Placed[i], intToTag(ids[i]))
Decoded(ids) ==
  [k \in Fields |-> intToTag(ids[CHOOSE i \in 1 .. 12 : Placed[i] = k])[2]]

-----------------------------------------------------------------------------
convertAlert(t)        == {Id(k, t[k]) : k \in Fields}
convertToBitmask(tags) == [bit \in 0 .. 63 |-> bit \in tags]
bitmaskToTags(mask)    == {bit \in 0 .. 63 : mask[bit]}
=============================================================================
