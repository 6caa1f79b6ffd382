---------------------------- MODULE OrderPromise ----------------------------
(***************************************************************************)
(* What the trading service promises about each order intent, whatever     *)
(* threads, crashes and late reports do: it is sent to the broker at most  *)
(* once, its fills are only ever added to the ledger while it is out, and  *)
(* once its outcome is recorded neither the outcome nor the ledger moves.  *)
(***************************************************************************)
EXTENDS Naturals

CONSTANTS Intents, Qty

VARIABLES
  stage,   \* "unsent", "sent" or "final"
  booked   \* units of the intent in the strategy ledger

vars == <<stage, booked>>

Init ==
  /\ stage = [i \in Intents |-> "unsent"]
  /\ booked = [i \in Intents |-> 0]

\* One reconciliation may move several intents, so a step moves each of them.
Unsent(i) == stage[i] = "unsent" /\ booked'[i] = 0

Sent(i) ==
  /\ stage[i] = "sent" /\ stage'[i] \in {"sent", "final"}
  /\ booked'[i] \in booked[i] .. Qty[i]

Final(i) ==
  /\ stage[i] = "final" /\ stage'[i] = "final"
  /\ booked'[i] = booked[i]

Next ==
  /\ stage' \in [Intents -> {"unsent", "sent", "final"}]
  /\ booked' \in [Intents -> Nat]
  /\ \A i \in Intents : Unsent(i) \/ Sent(i) \/ Final(i)

Spec == Init /\ [][Next]_vars
=============================================================================
