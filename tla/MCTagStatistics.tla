-------------------------- MODULE MCTagStatistics --------------------------
(***************************************************************************)
(* Three combinations: two differ in the last field only, the third is a   *)
(* put far from the price, at the other end of nearly every field.         *)
(***************************************************************************)
EXTENDS TagStatistics

Plain  == addUnderlyingTags([k \in Fields |-> 0], 4500, 4500)
Alike  == [Plain EXCEPT ![12] = 1]
Far   == addUnderlyingTags([k \in Fields |-> IF k = 4 THEN 0 ELSE Count[k] - 1], 4501, 4480)

MCAlerts   == {Plain, Alike, Far}
MCOutcomes == {<<0, -40>>, <<1, 25>>, <<2, 90>>}
MCAsked    == {<<OptType, 1>>}
=============================================================================
