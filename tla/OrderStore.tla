----------------------------- MODULE OrderStore -----------------------------
(***************************************************************************)
(* What the live state database does to one order intent and to one broker *)
(* order row: the conditional status update every mark_intent_* method     *)
(* shares, and the merge of an incoming broker report into the saved row.  *)
(* Pure operators; the state machines that use the database extend this    *)
(* module.                                                                 *)
(***************************************************************************)
EXTENDS Naturals

\* Statuses of an intent.  ABSENT is "no such row": nothing planned yet.
\* ABANDONED is declared by the code but no method ever writes it.
IntentStatus == {"ABSENT", "PLANNED", "SUBMITTING", "SUBMITTED",
                 "SUBMIT_UNKNOWN", "COMPLETED", "INCOMPLETE", "REJECTED"}

OrderStatus == {"PENDING", "PARTIALLY_FILLED", "FILLED", "CANCELED",
                "REJECTED", "UNKNOWN"}

IsActive(status) == status \in {"PENDING", "PARTIALLY_FILLED"}

\* Neither active nor UNKNOWN: the broker will not change the order again.
IsTerminal(status) == status \in OrderStatus /\ ~IsActive(status) /\ status # "UNKNOWN"

\* The statuses an intent may hold just before each status is written.
AllowedFrom ==
  [SUBMITTING     |-> {"PLANNED"},
   SUBMITTED      |-> {"PLANNED", "SUBMITTING", "SUBMIT_UNKNOWN", "SUBMITTED"},
   SUBMIT_UNKNOWN |-> {"SUBMITTING", "SUBMIT_UNKNOWN"},
   REJECTED       |-> {"PLANNED", "SUBMITTING", "REJECTED"},
   COMPLETED      |-> {"SUBMITTED", "COMPLETED"},
   INCOMPLETE     |-> {"SUBMITTED", "INCOMPLETE"}]

\* Variants: the guard of the update is dropped; SUBMITTING is never written.
SetIntentStatus_Unguarded(current, target) == target
SetIntentStatus_NoMark(current, target) ==
  IF target # "SUBMITTING" /\ current \in AllowedFrom[target] THEN target ELSE current

\* UPDATE ... WHERE status IN allowed: no row matched is not an error.
SetIntentStatus(current, target) ==
  IF current \in AllowedFrom[target] THEN target ELSE current

\* The intents whose submission has no known result.
Unresolved_UnknownOnly(status) == status = "SUBMIT_UNKNOWN"  \* variant
Unresolved(status) == status \in {"SUBMITTING", "SUBMIT_UNKNOWN"}

Larger(a, b) == IF a >= b THEN a ELSE b

\* The status saved when a report meets a saved row.  newer: the report's
\* time is not before the row's.
MergedStatus(saved, report, newer) ==
  LET filled == Larger(saved.filled, report.filled) IN
  CASE IsTerminal(saved.status) ->
         IF report.status = "FILLED" /\ filled >= saved.requested THEN "FILLED"
         ELSE IF IsTerminal(report.status) /\ newer THEN report.status
         ELSE saved.status
    [] ~IsTerminal(saved.status) /\ IsTerminal(report.status) -> report.status
    [] OTHER ->
         IF "PARTIALLY_FILLED" \in {saved.status, report.status} \/ filled > 0
           THEN "PARTIALLY_FILLED"
         ELSE IF report.status = "PENDING" THEN "PENDING"
         ELSE saved.status

\* Variant: the report's fills are added to the saved ones.
MergeReport_Additive(saved, report, newer) ==
  [status    |-> MergedStatus(saved, report, newer),
   filled    |-> saved.filled + report.filled,
   requested |-> saved.requested]

\* upsert_broker_order on a row that exists.
MergeReport(saved, report, newer) ==
  [status    |-> MergedStatus(saved, report, newer),
   filled    |-> Larger(saved.filled, report.filled),
   requested |-> IF newer THEN report.requested ELSE saved.requested]
=============================================================================
