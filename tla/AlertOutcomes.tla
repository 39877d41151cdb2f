--------------------------- MODULE AlertOutcomes ---------------------------
(***************************************************************************)
(* What the alert handler promises: alerts are answered in the order in    *)
(* which they were raised, each at most once.  The unlocked queue may       *)
(* corrupt itself while an alert is raised; nothing is answered behind such *)
(* a place.                                                                *)
(***************************************************************************)
EXTENDS Sequences

CONSTANTS Alerts, Phantom

VARIABLES pending, answered

promiseVars == <<pending, answered>>

Init == pending = <<>> /\ answered = <<>>

\* An alert enters the queue, is lost, or leaves an element that nobody wrote.
Raise(a) ==
  /\ \E pushed \in {<<a>>, <<Phantom>>, <<a, Phantom>>} : pending' = pending \o pushed
  /\ UNCHANGED answered

Answer ==
  /\ pending # <<>> /\ Head(pending) # Phantom
  /\ answered' = Append(answered, Head(pending))
  /\ pending' = Tail(pending)

Next == Answer \/ \E a \in Alerts : Raise(a)

Spec == Init /\ [][Next]_promiseVars
=============================================================================
