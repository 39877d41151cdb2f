---------------------------- MODULE MCOdbcSession ---------------------------
(* Two batches of option candles, one of results, one time and one bar.    *)
EXTENDS OdbcSession

CONSTANTS o1, o2, r1, t1, u1

MCOptionBatches == {o1, o2}
MCResultBatches == {r1}
MCTimes == {t1}
MCBars  == {u1}
MCSize  == [p \in {o1, o2, r1, t1, u1} |-> IF p \in {o1, r1} THEN 2 ELSE 1]
=============================================================================
