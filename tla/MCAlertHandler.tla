--------------------------- MODULE MCAlertHandler ---------------------------
(* A small instance of AlertHandler with bars on the thresholds.  A mild  *)
(* bar gains ten cents and falls to 70 per cent of its close, a wild one   *)
(* wins and loses after it; after an alert on a wild bar a mild one loses, *)
(* and a wild one behind it comes too late.  A fair bar gains 60 per cent. *)
EXTENDS AlertHandler, TLC

CONSTANTS c1, c2

Mild == [high |-> 110, low |-> 70, close |-> 100]
Fair == [high |-> 160, low |-> 90, close |-> 100]
Wild == [high |-> 290, low |-> 60, close |-> 170]
MCContracts == {c1, c2}
MCBarsOf == (c1 :> {Mild, Wild}) @@ (c2 :> {Fair})

\* The second contract is streamed from the second bar on and gets every other bar,
\* after the first one's; no more bars are of interest when no alert is left.
BarsOfInterest ==
  /\ \A i \in DOMAIN bars[c2] : bars[c2][i].time % 2 = 1
  /\ bars[c2] # <<>> /\ bars[c2][Len(bars[c2])].time = now =>
       bars[c1] # <<>> /\ bars[c1][Len(bars[c1])].time = now
  /\ raised = MaxAlerts /\ alertUpdateQueue = <<>> => handling = None

MCSpec == Init /\ [][Next /\ BarsOfInterest']_vars /\ WF_vars(AlertThread) /\ WF_vars(tick)
=============================================================================
