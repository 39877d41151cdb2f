-------------------------- MODULE MCOptionScanner --------------------------
(* Small instances of OptionScanner: one or three strikes per price, two   *)
(* price levels one strike apart.                                          *)
EXTENDS OptionScanner

MCPrices == {100, 105}
MCOnePrice == {100}

\* App.cpp:3 sizes the buffer for one batch of strikes and the underlying.
MCInitBufferSize == 1 + 2 * (2 * StrikesEachSide + 1)

\* The call of the strike at 100 delivers bars for as long as it likes, then none.
SilentSpec == Spec /\ ThreadFairness /\ SnapshotFairness /\ StreamFairness({100})
=============================================================================
