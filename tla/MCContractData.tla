--------------------------- MODULE MCContractData ---------------------------
(* A small instance of ContractData: sessions of quiet bars with a few     *)
(* that are far away in price and loud enough for a five second alert.     *)
EXTENDS ContractData

CONSTANT MaxLoud \* loud bars in a session

Quiet == [time |-> 0, open |-> 100, high |-> 110, low |-> 90, close |-> 105, volume |-> 50]
Loud  == [time |-> 0, open |-> 200, high |-> 215, low |-> 180, close |-> 190, volume |-> 150]
Crash == [time |-> 0, open |-> 40, high |-> 45, low |-> 20, close |-> 35, volume |-> 200]
MCBars == {Quiet, Loud, Crash}

FewLoud == Cardinality({i \in DOMAIN fiveSec : fiveSec[i].volume > MinVolume}) <= MaxLoud

MCStarts == {-5, 9, 14} \* with the small slots: before the opening, late, after the close

\* One start for the underlying, which is streamed from the first minute on.
MCInit == Init /\ (isUnderlying <=> start = -5)

MCSpec == MCInit /\ [][\E bar \in Bars : updateData(bar) /\ FewLoud']_vars
=============================================================================
