----------------------------- MODULE LiveTrading -----------------------------
(***************************************************************************)
(* One trading day of the paper-trading service: the engine thread that    *)
(* runs the rebalance and end-of-day jobs, the thread that persists broker *)
(* callbacks, the state database they share, and the broker.               *)
(*                                                                         *)
(* The process may crash and restart between any two steps.  Everything    *)
(* under "database" survives; everything under "engine" does not.  A       *)
(* callback is a report of any state the broker's order has been in, or of *)
(* any trade it has made: the consumer may see them late, twice, out of    *)
(* order or never.                                                         *)
(***************************************************************************)
EXTENDS OrderStore, FiniteSets

CONSTANTS
  Intents,     \* the order intents the day's decision can give rise to
  SideOf,      \* SideOf[i]: "SELL" or "BUY"
  Qty,         \* Qty[i]: requested quantity, in units of one fill
  MaxCrashes,  \* bound: crashes of the process in a behaviour
  MaxFaults    \* bound: unhealthy callbacks, failed connections and failed quotes

Sides == {"SELL", "BUY"}

ASSUME SideAssumption  == SideOf \in [Intents -> Sides]
ASSUME QtyAssumption   == Qty \in [Intents -> Nat \ {0}]
ASSUME BoundAssumption == MaxCrashes \in Nat /\ MaxFaults \in Nat

NoIntent == "no intent"
ASSUME NoIntentAssumption == NoIntent \notin Intents

VARIABLES
  \* database
  account,     \* live_account.status
  overdrawn,   \* live_strategy.virtual_cash is negative
  intent,      \* live_order_intent.status of each intent
  row,         \* live_broker_order: the saved broker order of each intent
  applied,     \* live_broker_trade: the trades booked to the strategy ledger
  frozen,      \* the decision's execution targets are frozen
  stepDone,    \* sides whose strategy_sell/strategy_buy step is terminal
  rebalance,   \* terminal status of the day's rebalance job, or "none"
  eodDone,     \* the day's eod job has succeeded
  \* broker
  book,        \* the broker's own view of the order of each intent
  transit,     \* submissions on their way to the broker
  cancelReq,   \* orders whose cancellation was accepted
  sends,       \* how often order_stock was called for each intent
  \* engine
  pc, at,      \* where the engine thread is, and which reconciliation it runs
  job,         \* the broker job of the session
  phase,       \* side being executed
  open,        \* this phase may still submit
  todo,        \* intents this phase has still to submit
  cur,         \* the intent being submitted
  toCancel,    \* orders this phase has still to cancel
  seenOrders,  \* result of the last query_orders
  seenTrades,  \* result of the last query_trades
  wasPaused,   \* account status read at the start of startup_reconcile
  connected,   \* _broker_connected
  unhealthy,   \* _broker_unhealthy
  handled,     \* the scheduler's _handled set
  \* callback consumer and environment
  breach,      \* the consumer has booked a cash breach it has not reported yet
  clock, crashes, faults

dbVars      == <<account, overdrawn, intent, row, applied, frozen, stepDone,
                 rebalance, eodDone>>
brokerVars  == <<book, transit, cancelReq, sends>>
sessionVars == <<at, job, phase, open, todo, cur, toCancel, seenOrders,
                 seenTrades, wasPaused>>
flagVars    == <<connected, unhealthy>>
envVars     == <<clock, crashes, faults>>
vars == <<dbVars, brokerVars, pc, sessionVars, flagVars, handled, breach, envVars>>
-----------------------------------------------------------------------------
(* The schedule of the day, in the order LiveConfig enforces. *)
BeforeStart == 0
SellWindow  == 1  \* from submit_start
SellClosed  == 2  \* from sell_phase_deadline
NoNewOrders == 3  \* from stop_new_orders
CancelTime  == 4  \* from cancel_open_orders
Close       == 5  \* from eod.run_time

Deadline_Unbounded(side) == Close + 1  \* variant: the wait never expires
Deadline(side) == IF side = "SELL" THEN SellClosed ELSE CancelTime

NoOrder  == [status |-> "NONE", filled |-> 0]
Orders   == {NoOrder} \cup [status : OrderStatus, filled : Nat]
NoRow    == [status |-> "NONE", filled |-> 0, requested |-> 0]
Rows     == {NoRow} \cup [status : OrderStatus, filled : Nat, requested : Nat]

Known(order) == order.status # "NONE"
Report(i, order) ==
  [status |-> order.status, filled |-> order.filled, requested |-> Qty[i]]

\* bind_broker_order: upsert the row, then mark the intent SUBMITTED.
Bound(i, saved, order, newer) ==
  IF Known(saved) THEN MergeReport(saved, Report(i, order), newer) ELSE Report(i, order)

\* Every state of the order a callback may still report.
Reported(order) ==
  {[status |-> "PENDING", filled |-> 0], order} \cup
  {[status |-> "PARTIALLY_FILLED", filled |-> k] : k \in 1 .. order.filled - 1}

OpenAtBroker(i) == IsActive(book[i].status)
Existing(side)  == {i \in Intents : SideOf[i] = side /\ intent[i] # "ABSENT"}
HasActivity     == frozen \/ \E i \in Intents : intent[i] # "ABSENT"

\* Earlier days may have left the account paused or the ledger overdrawn.
Init ==
  /\ account \in {"ACTIVE", "PAUSED"} /\ overdrawn \in BOOLEAN
  /\ intent = [i \in Intents |-> "ABSENT"]
  /\ row = [i \in Intents |-> NoRow]
  /\ applied = [i \in Intents |-> {}]
  /\ frozen = FALSE /\ stepDone = {} /\ rebalance = "none" /\ eodDone = FALSE
  /\ book = [i \in Intents |-> NoOrder]
  /\ transit = {} /\ cancelReq = {}
  /\ sends = [i \in Intents |-> 0]
  /\ pc = "down"
  /\ at = "none" /\ job = "none" /\ phase = "SELL" /\ open = FALSE
  /\ todo = {} /\ cur = NoIntent /\ toCancel = {}
  /\ seenOrders = [i \in Intents |-> NoOrder]
  /\ seenTrades = [i \in Intents |-> 0]
  /\ wasPaused = FALSE
  /\ connected = FALSE /\ unhealthy = FALSE /\ handled = {}
  /\ breach = FALSE
  /\ clock = BeforeStart /\ crashes = 0 /\ faults = 0
-----------------------------------------------------------------------------
(* Helper formulae. *)

ForgetSession ==
  /\ at' = "none" /\ job' = "none" /\ phase' = "SELL" /\ open' = FALSE
  /\ todo' = {} /\ cur' = NoIntent /\ toCancel' = {}
  /\ seenOrders' = [i \in Intents |-> NoOrder]
  /\ seenTrades' = [i \in Intents |-> 0]
  /\ wasPaused' = FALSE

\* The finally of _run_broker_job: disconnect, clear the health flag.  The
\* scheduler logs the exception and goes on.
EndSession ==
  /\ pc' = "idle"
  /\ ForgetSession
  /\ connected' = FALSE /\ unhealthy' = FALSE
  /\ UNCHANGED handled

Fail == EndSession /\ UNCHANGED dbVars

\* pause_account, then the exception that ends the job.
PauseAndFail ==
  /\ EndSession
  /\ account' = "PAUSED"
  /\ UNCHANGED <<overdrawn, intent, row, applied, frozen, stepDone, rebalance, eodDone>>

Goto(label) == pc' = label /\ UNCHANGED <<flagVars, handled>>

\* Where the engine goes when it is about to query, reconcile and go on as `site`.
StartReconcile(site) == at' = site /\ Goto("orders")

OnlyIntent  == UNCHANGED <<account, overdrawn, row, applied, frozen, stepDone,
                           rebalance, eodDone>>

-----------------------------------------------------------------------------
(* The process and its scheduler. *)

\* A new process: every in-memory fact starts afresh.
Restart ==
  /\ pc = "down"
  /\ pc' = "idle" /\ handled' = {}
  /\ UNCHANGED <<dbVars, brokerVars, sessionVars, flagVars, breach, envVars>>

\* The process dies; the database and the broker do not.
Crash ==
  /\ pc # "down" /\ crashes < MaxCrashes
  /\ crashes' = crashes + 1
  /\ pc' = "down" /\ ForgetSession
  /\ connected' = FALSE /\ unhealthy' = FALSE /\ handled' = {}
  /\ breach' = FALSE
  /\ UNCHANGED <<dbVars, brokerVars, clock, faults>>

OpenSession(name) ==
  /\ pc' = "connect" /\ job' = name
  /\ handled' = handled \cup {name}
  /\ connected' = TRUE /\ unhealthy' = FALSE
  /\ UNCHANGED <<dbVars, brokerVars, at, phase, open, todo, cur, toCancel,
                 seenOrders, seenTrades, wasPaused, breach, envVars>>

\* tick() finds the day's rebalance already terminal.
RebalanceHandled ==
  /\ pc = "idle" /\ clock >= SellWindow /\ "rebalance" \notin handled
  /\ rebalance # "none"
  /\ handled' = handled \cup {"rebalance"}
  /\ UNCHANGED <<dbVars, brokerVars, pc, sessionVars, flagVars, breach, envVars>>

\* tick() after stop_new_orders with nothing to resume: MISSED_ORDER_WINDOW.
RebalanceMissed ==
  /\ pc = "idle" /\ clock >= NoNewOrders /\ "rebalance" \notin handled
  /\ rebalance = "none" /\ ~HasActivity
  /\ rebalance' = "SKIPPED"
  /\ handled' = handled \cup {"rebalance"}
  /\ UNCHANGED <<account, overdrawn, intent, row, applied, frozen, stepDone, eodDone,
                 brokerVars, pc, sessionVars, flagVars, breach, envVars>>

\* tick() runs the rebalance in a broker session of its own.
RebalanceDue ==
  /\ pc = "idle" /\ clock >= SellWindow /\ "rebalance" \notin handled
  /\ rebalance = "none"
  /\ clock < NoNewOrders \/ HasActivity
  /\ OpenSession("rebalance")

EodDue ==
  /\ pc = "idle" /\ clock >= Close
  /\ "rebalance" \in handled /\ "eod" \notin handled /\ ~eodDone
  /\ OpenSession("eod")
-----------------------------------------------------------------------------
(* A broker session: connect, startup_reconcile, then the job. *)

\* connect and subscribe_account; a healthy session reads the account row.
Connect ==
  /\ pc = "connect" /\ ~unhealthy
  /\ wasPaused' = (account = "PAUSED")
  /\ StartReconcile("startup")
  /\ UNCHANGED <<dbVars, brokerVars, job, phase, open, todo, cur, toCancel,
                 seenOrders, seenTrades, breach, envVars>>

\* connect raises: nothing is paused and the job is not retried.
ConnectFails ==
  /\ pc = "connect" /\ faults < MaxFaults
  /\ faults' = faults + 1
  /\ Fail
  /\ UNCHANGED <<brokerVars, breach, clock, crashes>>

\* The health checks around every broker call, and failed queries: pause.
BrokerCallFails ==
  /\ \/ pc \in {"orders", "trades", "cancel"}
     \/ pc \in {"connect", "admit", "answer"} /\ unhealthy
     \/ pc = "submit" /\ open /\ todo # {} /\ unhealthy
     \/ pc = "cancelling" /\ toCancel # {} /\ unhealthy
  /\ PauseAndFail
  /\ UNCHANGED <<brokerVars, breach, envVars>>

QueryOrders ==
  /\ pc = "orders" /\ ~unhealthy
  /\ seenOrders' = book
  /\ Goto("trades")
  /\ UNCHANGED <<dbVars, brokerVars, at, job, phase, open, todo, cur, toCancel,
                 seenTrades, wasPaused, breach, envVars>>

\* The SDK reports a status the mapper does not know.
QueryOrdersUnknown ==
  /\ pc = "orders" /\ ~unhealthy /\ faults < MaxFaults
  /\ \E i \in Intents :
       /\ Known(book[i])
       /\ seenOrders' = [book EXCEPT ![i].status = "UNKNOWN"]
  /\ faults' = faults + 1
  /\ Goto("trades")
  /\ UNCHANGED <<dbVars, brokerVars, at, job, phase, open, todo, cur, toCancel,
                 seenTrades, wasPaused, breach, clock, crashes>>

\* A second query: fills made since the first one show, and the last trade of
\* an order may not be listed yet although the order already counts it.
QueryTrades ==
  /\ pc = "trades" /\ ~unhealthy
  /\ \E late \in SUBSET {i \in Intents : book[i].filled > 0} :
       seenTrades' = [i \in Intents |-> book[i].filled - (IF i \in late THEN 1 ELSE 0)]
  /\ Goto("reconcile")
  /\ UNCHANGED <<dbVars, brokerVars, at, job, phase, open, todo, cur, toCancel,
                 seenOrders, wasPaused, breach, envVars>>

\* The signs of virtual_cash that booking these new trades can leave behind.
\* A buy was planned with cash for its price and one fee: only a second fill,
\* with a second minimum fee, can overdraw the ledger.
CashAfter(new) ==
  LET bought == {i \in Intents : SideOf[i] = "BUY" /\ new[i] # {}}
      sold   == {i \in Intents : SideOf[i] = "SELL" /\ new[i] # {}}
  IN  IF bought \cup sold = {} THEN {overdrawn}
      ELSE IF overdrawn THEN IF sold = {} THEN {TRUE} ELSE BOOLEAN
      ELSE IF \E i \in bought : Cardinality(applied[i] \cup new[i]) > 1 THEN BOOLEAN
      ELSE {FALSE}

Mismatch_Ignored(i) == FALSE  \* variant: quantities are not compared
Mismatch(i) == Known(seenOrders[i]) /\ seenTrades[i] # seenOrders[i].filled

\* Variants: the broker's status is saved as the intent's; a cancelled order
\* leaves its intent as it was.
Reconciled_RawStatus(i) ==
  IF IsTerminal(seenOrders[i].status) THEN seenOrders[i].status ELSE intent[i]
Reconciled_FillsOnly(i) ==
  IF ~Known(seenOrders[i]) THEN intent[i]
  ELSE SetIntentStatus(SetIntentStatus(intent[i], "SUBMITTED"),
         IF seenOrders[i].status = "FILLED" THEN "COMPLETED" ELSE "SUBMITTED")

\* What one reconciliation leaves in the status of an intent.
Reconciled(i) ==
  LET order == seenOrders[i]
      bound == IF Known(order) THEN SetIntentStatus(intent[i], "SUBMITTED") ELSE intent[i]
  IN  IF Mismatch(i) \/ ~IsTerminal(order.status) THEN bound
      ELSE IF order.status = "FILLED" /\ order.filled = Qty[i]
        THEN SetIntentStatus(bound, "COMPLETED")
      ELSE SetIntentStatus(bound, "INCOMPLETE")

\* ReconciliationService.reconcile, one transaction over the two snapshots.
Reconcile ==
  LET new == [i \in Intents |-> (1 .. seenTrades[i]) \ applied[i]] IN
  /\ pc = "reconcile"
  /\ \E newer \in BOOLEAN :
       row' = [i \in Intents |->
                 IF Known(seenOrders[i]) THEN Bound(i, row[i], seenOrders[i], newer)
                                         ELSE row[i]]
  /\ intent' = [i \in Intents |-> Reconciled(i)]
  /\ applied' = [i \in Intents |-> applied[i] \cup new[i]]
  /\ overdrawn' \in CashAfter(new)
  /\ LET breached   == overdrawn' /\ \E i \in Intents : new[i] # {}
         unresolved == \/ breached
                       \/ \E i \in Intents : \/ Mismatch(i)
                                             \/ seenOrders[i].status = "UNKNOWN"
                                             \/ Unresolved(intent'[i])
     IN  /\ account' = IF breached THEN "PAUSED" ELSE account
         /\ Goto(IF unresolved THEN "pause" ELSE "after")
  /\ UNCHANGED <<frozen, stepDone, rebalance, eodDone, brokerVars, sessionVars,
                 breach, envVars>>

\* The pause_account that follows the decision to stop, in its own transaction.
Pause ==
  /\ pc = "pause"
  /\ PauseAndFail
  /\ UNCHANGED <<brokerVars, breach, envVars>>

\* startup_reconcile resumes whatever paused the account.
ResumeAccount ==
  /\ pc = "after" /\ at = "startup"
  /\ account' = IF wasPaused THEN "ACTIVE" ELSE account
  /\ Goto("admit")
  /\ UNCHANGED <<overdrawn, intent, row, applied, frozen, stepDone, rebalance, eodDone,
                 brokerVars, sessionVars, breach, envVars>>

\* The health check, then _execute_pending_target up to its reconciliation.
AdmitRebalance ==
  /\ pc = "admit" /\ job = "rebalance" /\ ~unhealthy
  /\ account = "ACTIVE" /\ (clock < NoNewOrders \/ HasActivity)
  /\ StartReconcile("begin")
  /\ UNCHANGED <<dbVars, brokerVars, job, phase, open, todo, cur, toCancel,
                 seenOrders, seenTrades, wasPaused, breach, envVars>>

\* The window closed while the session was starting.
RebalanceTooLate ==
  /\ pc = "admit" /\ job = "rebalance" /\ ~unhealthy
  /\ account = "ACTIVE" /\ clock >= NoNewOrders /\ ~HasActivity
  /\ rebalance' = "SKIPPED"
  /\ EndSession
  /\ UNCHANGED <<account, overdrawn, intent, row, applied, frozen, stepDone, eodDone,
                 brokerVars, breach, envVars>>

\* _active_account raises: the account was paused behind the engine's back.
AccountNotActive ==
  /\ account = "PAUSED"
  /\ \/ pc = "admit" /\ job = "rebalance" /\ ~unhealthy
     \/ pc = "after" /\ at \in {"wait", "confirm"}
     \/ pc = "cancel"
  /\ Fail
  /\ UNCHANGED <<brokerVars, breach, envVars>>

\* end-of-day accepts a paused account.
AdmitEod ==
  /\ pc = "admit" /\ job = "eod" /\ ~unhealthy
  /\ StartReconcile("eod")
  /\ UNCHANGED <<dbVars, brokerVars, job, phase, open, todo, cur, toCancel,
                 seenOrders, seenTrades, wasPaused, breach, envVars>>

BeginPhases ==
  /\ pc = "after" /\ at = "begin"
  /\ Goto(IF \E i \in Intents : Unresolved(intent[i]) THEN "pause" ELSE "side")
  /\ UNCHANGED <<dbVars, brokerVars, sessionVars, breach, envVars>>
-----------------------------------------------------------------------------
(* One side of the rebalance: a recoverable strategy step. *)

AfterPhase ==
  /\ phase' = "BUY"
  /\ Goto(IF phase = "SELL" THEN "side" ELSE "done")

StepDone ==
  /\ stepDone' = stepDone \cup {phase}
  /\ AfterPhase
  /\ UNCHANGED <<account, overdrawn, intent, row, applied, frozen, rebalance, eodDone,
                 brokerVars, at, job, open, todo, cur, toCancel, seenOrders, seenTrades,
                 wasPaused, breach, envVars>>

PhaseAlreadyDone ==
  /\ pc = "side" /\ phase \in stepDone
  /\ AfterPhase
  /\ UNCHANGED <<dbVars, brokerVars, at, job, open, todo, cur, toCancel, seenOrders,
                 seenTrades, wasPaused, breach, envVars>>

MissedBuyWindow == phase = "BUY" /\ clock >= NoNewOrders
ToRun == pc = "side" /\ phase \notin stepDone

\* MISSED_BUY_WINDOW: the step is recorded as skipped and never runs again.
SkipBuy == ToRun /\ MissedBuyWindow /\ StepDone

\* latest_quotes failed: a plain exception, no pause.
QuotesFail ==
  /\ ToRun /\ ~MissedBuyWindow /\ faults < MaxFaults
  /\ faults' = faults + 1
  /\ Fail
  /\ UNCHANGED <<brokerVars, breach, clock, crashes>>

WindowOpen == phase = "BUY" \/ clock < SellClosed

\* Intents of this side exist: resume the PLANNED ones.
ResumePhase ==
  /\ ToRun /\ ~MissedBuyWindow /\ Existing(phase) # {}
  /\ open' = WindowOpen
  /\ todo' = {i \in Existing(phase) : intent[i] = "PLANNED"}
  /\ Goto(IF \E i \in Existing(phase) : Unresolved(intent[i]) THEN "pause" ELSE "submit")
  /\ UNCHANGED <<dbVars, brokerVars, at, job, phase, cur, toCancel, seenOrders,
                 seenTrades, wasPaused, breach, envVars>>

\* First run of this side: the sell phase freezes the target quantities.
FreezeTargets ==
  /\ ToRun /\ ~MissedBuyWindow /\ Existing(phase) = {}
  /\ phase = "SELL" \/ frozen
  /\ frozen' = TRUE
  /\ open' = WindowOpen
  /\ Goto("plan")
  /\ UNCHANGED <<account, overdrawn, intent, row, applied, stepDone, rebalance, eodDone,
                 brokerVars, at, job, phase, todo, cur, toCancel, seenOrders, seenTrades,
                 wasPaused, breach, envVars>>

\* VIRTUAL_CASH_NEGATIVE_AFTER_FEES.
PlanRefused ==
  /\ pc = "plan" /\ overdrawn
  /\ Goto("pause")
  /\ UNCHANGED <<dbVars, brokerVars, sessionVars, breach, envVars>>

\* One transaction saves every intent of the side, the risk-rejected ones too.
Plan ==
  /\ pc = "plan" /\ ~overdrawn
  /\ \E planned \in SUBSET {i \in Intents : SideOf[i] = phase} :
       \E approved \in SUBSET planned :
         /\ open \/ approved = {}
         /\ intent' = [i \in Intents |-> IF i \in approved THEN "PLANNED"
                                         ELSE IF i \in planned THEN "REJECTED"
                                         ELSE intent[i]]
         /\ todo' = approved
  /\ Goto("submit")
  /\ OnlyIntent
  /\ UNCHANGED <<brokerVars, at, job, phase, open, cur, toCancel, seenOrders,
                 seenTrades, wasPaused, breach, envVars>>

\* MISSED_SELL_WINDOW rejects a plan found after the sell deadline.
RejectLatePlan(i) ==
  /\ pc = "submit" /\ i \in todo /\ ~open
  /\ intent' = [intent EXCEPT ![i] = SetIntentStatus(@, "REJECTED")]
  /\ todo' = todo \ {i}
  /\ OnlyIntent
  /\ UNCHANGED <<brokerVars, pc, at, job, phase, open, cur, toCancel, seenOrders,
                 seenTrades, wasPaused, flagVars, handled, breach, envVars>>

\* _submit_intent: the SUBMITTING mark commits before the broker is called.
MarkSubmitting(i) ==
  /\ pc = "submit" /\ i \in todo /\ open /\ ~unhealthy
  /\ intent' = [intent EXCEPT ![i] = SetIntentStatus(@, "SUBMITTING")]
  /\ todo' = todo \ {i}
  /\ cur' = i
  /\ Goto("send")
  /\ OnlyIntent
  /\ UNCHANGED <<brokerVars, at, job, phase, open, toCancel, seenOrders, seenTrades,
                 wasPaused, breach, envVars>>

\* order_stock leaves for the broker.
Send ==
  /\ pc = "send"
  /\ transit' = transit \cup {cur}
  /\ sends' = [sends EXCEPT ![cur] = @ + 1]
  /\ Goto("answer")
  /\ UNCHANGED <<dbVars, book, cancelReq, sessionVars, breach, envVars>>

\* A broker order id came back: bind it as a PENDING order.
Accepted ==
  /\ pc = "answer" /\ ~unhealthy /\ Known(book[cur])
  /\ \E newer \in BOOLEAN :
       row' = [row EXCEPT ![cur] =
                 Bound(cur, @, [status |-> "PENDING", filled |-> 0], newer)]
  /\ intent' = [intent EXCEPT ![cur] = SetIntentStatus(@, "SUBMITTED")]
  /\ cur' = NoIntent
  /\ Goto("submit")
  /\ UNCHANGED <<account, overdrawn, applied, frozen, stepDone, rebalance, eodDone,
                 brokerVars, at, job, phase, open, todo, toCancel, seenOrders,
                 seenTrades, wasPaused, breach, envVars>>

\* order_stock returned -1: the broker has no such order.
Refused ==
  /\ pc = "answer" /\ ~unhealthy /\ cur \in transit
  /\ transit' = transit \ {cur}
  /\ intent' = [intent EXCEPT ![cur] = SetIntentStatus(@, "REJECTED")]
  /\ cur' = NoIntent
  /\ Goto("submit")
  /\ OnlyIntent
  /\ UNCHANGED <<book, cancelReq, sends, at, job, phase, open, todo, toCancel, seenOrders,
                 seenTrades, wasPaused, breach, envVars>>

\* No usable answer, or the binding failed: the order may or may not exist.
ResultUnknown ==
  /\ pc = "answer"
  /\ intent' = [intent EXCEPT ![cur] = SetIntentStatus(@, "SUBMIT_UNKNOWN")]
  /\ Goto("pause")
  /\ OnlyIntent
  /\ UNCHANGED <<brokerVars, sessionVars, breach, envVars>>

\* Nothing left to submit: _wait_for_phase.
WaitForPhase ==
  /\ pc = "submit" /\ todo = {}
  /\ StartReconcile("wait")
  /\ UNCHANGED <<dbVars, brokerVars, job, phase, open, todo, cur, toCancel,
                 seenOrders, seenTrades, wasPaused, breach, envVars>>
-----------------------------------------------------------------------------
(* Waiting for the side's orders to close, and cancelling them. *)

\* Variant: a partly filled order counts as closed.
StillActive_PendingOnly ==
  {i \in Intents : SideOf[i] = phase /\ seenOrders[i].status = "PENDING"}
StillActive == {i \in Intents : SideOf[i] = phase /\ IsActive(seenOrders[i].status)}
Waited      == pc = "after" /\ at \in {"wait", "confirm"} /\ account = "ACTIVE"

\* The sell side reconciles once more before its step succeeds.
SellsClosed ==
  /\ Waited /\ phase = "SELL" /\ StillActive = {}
  /\ StartReconcile("sold")
  /\ UNCHANGED <<dbVars, brokerVars, job, phase, open, todo, cur, toCancel,
                 seenOrders, seenTrades, wasPaused, breach, envVars>>

PhaseEnds ==
  /\ \/ Waited /\ phase = "BUY" /\ StillActive = {}
     \/ pc = "after" /\ at = "sold"
  /\ StepDone

\* Poll again until the phase's deadline, or the cancel confirmation's.
PollAgain ==
  /\ Waited /\ StillActive # {}
  /\ at = "wait" => clock < Deadline(phase)
  /\ StartReconcile(at)
  /\ UNCHANGED <<dbVars, brokerVars, job, phase, open, todo, cur, toCancel,
                 seenOrders, seenTrades, wasPaused, breach, envVars>>

WaitExpires ==
  /\ Waited /\ StillActive # {} /\ at = "wait" /\ clock >= Deadline(phase)
  /\ Goto("cancel")
  /\ UNCHANGED <<dbVars, brokerVars, sessionVars, breach, envVars>>

\* _cancel_open_orders asks the broker which orders are still active.
ListOpenOrders ==
  /\ pc = "cancel" /\ ~unhealthy /\ account = "ACTIVE"
  /\ toCancel' = {i \in Intents : SideOf[i] = phase /\ OpenAtBroker(i)}
  /\ Goto("cancelling")
  /\ UNCHANGED <<dbVars, brokerVars, at, job, phase, open, todo, cur, seenOrders,
                 seenTrades, wasPaused, breach, envVars>>

CancelOrder(i) ==
  /\ pc = "cancelling" /\ i \in toCancel /\ ~unhealthy
  /\ toCancel' = toCancel \ {i}
  /\ cancelReq' = cancelReq \cup {i}
  /\ UNCHANGED <<dbVars, book, transit, sends, pc, at, job, phase, open, todo, cur,
                 seenOrders, seenTrades, wasPaused, flagVars, handled, breach, envVars>>

\* CANCEL_RESULT_UNKNOWN: refused, as for an order filled in the meantime.
CancelRefused ==
  /\ pc = "cancelling" /\ toCancel # {} /\ ~unhealthy
  /\ Goto("pause")
  /\ UNCHANGED <<dbVars, brokerVars, sessionVars, breach, envVars>>

AwaitCancels ==
  /\ pc = "cancelling" /\ toCancel = {}
  /\ StartReconcile("confirm")
  /\ UNCHANGED <<dbVars, brokerVars, job, phase, open, todo, cur, toCancel,
                 seenOrders, seenTrades, wasPaused, breach, envVars>>

\* CANCEL_CONFIRM_TIMEOUT.
CancelNotConfirmed ==
  /\ Waited /\ StillActive # {} /\ at = "confirm"
  /\ Goto("pause")
  /\ UNCHANGED <<dbVars, brokerVars, sessionVars, breach, envVars>>
-----------------------------------------------------------------------------
(* The end of a job: its terminal row, then the session's last health check. *)

LastHealthCheck == account' = IF unhealthy THEN "PAUSED" ELSE account

FinishRebalance ==
  /\ pc = "done"
  /\ rebalance' = "SUCCEEDED"
  /\ LastHealthCheck
  /\ EndSession
  /\ UNCHANGED <<overdrawn, intent, row, applied, frozen, stepDone, eodDone,
                 brokerVars, breach, envVars>>

\* EOD_UNRESOLVED: an order is still active at the broker.
EodUnresolved ==
  /\ pc = "after" /\ at = "eod"
  /\ \E i \in Intents : IsActive(seenOrders[i].status)
  /\ Goto("pause")
  /\ UNCHANGED <<dbVars, brokerVars, sessionVars, breach, envVars>>

FinishEod ==
  /\ pc = "after" /\ at = "eod"
  /\ \A i \in Intents : ~IsActive(seenOrders[i].status)
  /\ eodDone' = TRUE
  /\ LastHealthCheck
  /\ EndSession
  /\ UNCHANGED <<overdrawn, intent, row, applied, frozen, stepDone, rebalance,
                 brokerVars, breach, envVars>>
-----------------------------------------------------------------------------
(* The callback consumer thread. *)

ConsumeOrder(i) ==
  /\ pc # "down" /\ ~breach /\ Known(book[i])
  /\ \E order \in Reported(book[i]), newer \in BOOLEAN :
       row' = [row EXCEPT ![i] = Bound(i, @, order, newer)]
  /\ intent' = [intent EXCEPT ![i] = SetIntentStatus(@, "SUBMITTED")]
  /\ UNCHANGED <<account, overdrawn, applied, frozen, stepDone, rebalance, eodDone,
                 brokerVars, pc, sessionVars, flagVars, handled, breach, envVars>>

\* A breach pauses the account inside the trade's transaction.
ConsumeTrade(i) ==
  /\ pc # "down" /\ ~breach
  /\ \E k \in 1 .. book[i].filled :
       LET new == [j \in Intents |-> IF j = i THEN {k} \ applied[i] ELSE {}] IN
       /\ applied' = [applied EXCEPT ![i] = @ \cup {k}]
       /\ overdrawn' \in CashAfter(new)
       /\ breach' = (overdrawn' /\ new[i] # {})
       /\ account' = IF breach' THEN "PAUSED" ELSE account
  /\ UNCHANGED <<intent, row, frozen, stepDone, rebalance, eodDone, brokerVars, pc,
                 sessionVars, flagVars, handled, envVars>>

\* Variant: the breach is booked but the engine is not told.
ReportBreach_Silent ==
  /\ breach
  /\ breach' = FALSE
  /\ UNCHANGED <<dbVars, brokerVars, pc, sessionVars, flagVars, handled, envVars>>

\* on_unhealthy: ignored between sessions.
ReportBreach ==
  /\ breach
  /\ breach' = FALSE
  /\ unhealthy' = (connected \/ unhealthy)
  /\ UNCHANGED <<dbVars, brokerVars, pc, sessionVars, connected, handled, envVars>>

\* A disconnection, a bad account status, an order or cancel error, or a
\* callback that could not be persisted.
BrokerUnhealthy ==
  /\ connected /\ ~unhealthy /\ faults < MaxFaults
  /\ faults' = faults + 1
  /\ unhealthy' = TRUE
  /\ UNCHANGED <<dbVars, brokerVars, pc, sessionVars, connected, handled, breach,
                 clock, crashes>>
-----------------------------------------------------------------------------
(* The broker and the clock. *)

\* A submission reaches the broker, which queues or rejects the order.
Arrive(i) ==
  /\ i \in transit
  /\ transit' = transit \ {i}
  /\ \E status \in IF clock < Close THEN {"PENDING", "REJECTED"} ELSE {"REJECTED"} :
       book' = [book EXCEPT ![i] = [status |-> status, filled |-> 0]]
  /\ UNCHANGED <<dbVars, cancelReq, sends, pc, sessionVars, flagVars, handled, breach,
                 envVars>>

\* A submission nobody answered never arrives.
Lost(i) ==
  /\ i \in transit /\ ~(pc = "answer" /\ cur = i)
  /\ transit' = transit \ {i}
  /\ UNCHANGED <<dbVars, book, cancelReq, sends, pc, sessionVars, flagVars, handled,
                 breach, envVars>>

Fill(i) ==
  /\ OpenAtBroker(i) /\ clock < Close
  /\ LET filled == book[i].filled + 1 IN
       book' = [book EXCEPT ![i] =
                  [status |-> IF filled = Qty[i] THEN "FILLED" ELSE "PARTIALLY_FILLED",
                   filled |-> filled]]
  /\ UNCHANGED <<dbVars, transit, cancelReq, sends, pc, sessionVars, flagVars, handled,
                 breach, envVars>>

\* A requested cancellation takes effect, or the day order expires.
CloseOrder(i) ==
  /\ OpenAtBroker(i) /\ (i \in cancelReq \/ clock >= Close)
  /\ book' = [book EXCEPT ![i].status = "CANCELED"]
  /\ UNCHANGED <<dbVars, transit, cancelReq, sends, pc, sessionVars, flagVars, handled,
                 breach, envVars>>

Tick ==
  /\ clock < Close
  /\ clock' = clock + 1
  /\ UNCHANGED <<dbVars, brokerVars, pc, sessionVars, flagVars, handled, breach, crashes,
                 faults>>
-----------------------------------------------------------------------------
Scheduler == RebalanceHandled \/ RebalanceMissed \/ RebalanceDue \/ EodDue

Session ==
  \/ Connect \/ ConnectFails \/ BrokerCallFails
  \/ QueryOrders \/ QueryOrdersUnknown \/ QueryTrades \/ Reconcile \/ Pause
  \/ ResumeAccount \/ AdmitRebalance \/ RebalanceTooLate \/ AccountNotActive
  \/ AdmitEod \/ BeginPhases \/ FinishRebalance \/ EodUnresolved \/ FinishEod

Phase ==
  \/ PhaseAlreadyDone \/ SkipBuy \/ QuotesFail \/ ResumePhase \/ FreezeTargets
  \/ PlanRefused \/ Plan \/ WaitForPhase
  \/ \E i \in Intents : RejectLatePlan(i) \/ MarkSubmitting(i)
  \/ Send \/ Accepted \/ Refused \/ ResultUnknown

Waiting ==
  \/ SellsClosed \/ PhaseEnds \/ PollAgain \/ WaitExpires
  \/ ListOpenOrders \/ CancelRefused \/ AwaitCancels \/ CancelNotConfirmed
  \/ \E i \in Intents : CancelOrder(i)

Engine == Scheduler \/ Session \/ Phase \/ Waiting

Consumer ==
  \/ \E i \in Intents : ConsumeOrder(i) \/ ConsumeTrade(i)
  \/ ReportBreach \/ BrokerUnhealthy

Broker ==
  \E i \in Intents : Arrive(i) \/ Lost(i) \/ Fill(i) \/ CloseOrder(i)

Next == Restart \/ Crash \/ Engine \/ Consumer \/ Broker \/ Tick

Spec == Init /\ [][Next]_vars

\* The engine loop, the consumer thread, the service manager that restarts the
\* process and the clock keep going; a cancel confirmation cannot be polled
\* for ever.  Nothing is assumed of the broker.
Fairness ==
  /\ WF_vars(Restart) /\ WF_vars(Engine) /\ WF_vars(ReportBreach) /\ WF_vars(Tick)
  /\ SF_vars(CancelNotConfirmed)

FairSpec == Spec /\ Fairness
-----------------------------------------------------------------------------
(* Properties. *)

PCs == {"down", "idle", "connect", "orders", "trades", "reconcile", "after", "pause",
        "admit", "side", "plan", "submit", "send", "answer", "cancel", "cancelling",
        "done"}

DatabaseTypes ==
  /\ account \in {"ACTIVE", "PAUSED"} /\ overdrawn \in BOOLEAN
  /\ intent \in [Intents -> IntentStatus]
  /\ row \in [Intents -> Rows]
  /\ applied \in [Intents -> SUBSET Nat]
  /\ frozen \in BOOLEAN /\ stepDone \subseteq Sides
  /\ rebalance \in {"none", "SUCCEEDED", "SKIPPED"} /\ eodDone \in BOOLEAN

BrokerTypes ==
  /\ book \in [Intents -> Orders]
  /\ transit \subseteq Intents /\ cancelReq \subseteq Intents
  /\ sends \in [Intents -> Nat]

SessionTypes ==
  /\ pc \in PCs
  /\ at \in {"none", "startup", "begin", "wait", "confirm", "sold", "eod"}
  /\ job \in {"none", "rebalance", "eod"} /\ phase \in Sides /\ open \in BOOLEAN
  /\ todo \subseteq Intents /\ toCancel \subseteq Intents
  /\ cur \in Intents \cup {NoIntent}
  /\ pc \in {"send", "answer"} => cur \in Intents
  /\ seenOrders \in [Intents -> Orders] /\ seenTrades \in [Intents -> Nat]
  /\ wasPaused \in BOOLEAN

FlagTypes ==
  /\ connected \in BOOLEAN /\ unhealthy \in BOOLEAN
  /\ handled \subseteq {"rebalance", "eod"} /\ breach \in BOOLEAN

EnvTypes == clock \in 0 .. Close /\ crashes \in Nat /\ faults \in Nat

\* Every variable holds a value of its kind, and an intent is being submitted
\* whenever the engine is about to call order_stock or waits for its answer.
TypeOK == DatabaseTypes /\ BrokerTypes /\ SessionTypes /\ FlagTypes /\ EnvTypes

\* order_stock is called at most once for an intent, over any number of
\* crashes, restarts, unknown results and resumed phases.
SubmittedAtMostOnce == \A i \in Intents : sends[i] <= 1

\* Why: an intent still ABSENT or PLANNED has not been sent, only such intents
\* are queued for submission, and the status leaves PLANNED before order_stock
\* is called, never to return.  SubmittedAtMostOnce alone is not inductive.
Unsent == {"ABSENT", "PLANNED"}

NotSentYet       == \A i \in Intents : intent[i] \in Unsent => sends[i] = 0
QueuedAreUnsent  == \A i \in todo : sends[i] = 0 /\ intent[i] # "ABSENT"
PlansAreNew      == pc = "plan" => \A i \in Intents : SideOf[i] = phase => intent[i] = "ABSENT"
MarkedBeforeSent == pc = "send" => cur \notin todo /\ sends[cur] = 0 /\ intent[cur] \notin Unsent

SendInv ==
  SubmittedAtMostOnce /\ NotSentYet /\ QueuedAreUnsent /\ PlansAreNew /\ MarkedBeforeSent

\* A recorded outcome is the broker's final one and every trade behind it is
\* in the ledger: COMPLETED needs all fills, INCOMPLETE a closed order.
OutcomeIsConfirmed ==
  \A i \in Intents :
    /\ intent[i] = "COMPLETED" =>
         book[i].status = "FILLED" /\ applied[i] = 1 .. Qty[i]
    /\ intent[i] = "INCOMPLETE" =>
         IsTerminal(book[i].status) /\ applied[i] = 1 .. book[i].filled

\* Once a buy has left for the broker, no sell is open or on its way.
SellsCloseBeforeBuys ==
  \A b, s \in Intents :
    (SideOf[b] = "BUY" /\ SideOf[s] = "SELL" /\ sends[b] > 0) =>
      ~OpenAtBroker(s) /\ s \notin transit

\* The saved order never runs ahead of the broker, and a saved final status is
\* the broker's, whatever order the reports came in.
SavedOrderIsTruthful ==
  \A i \in Intents :
    /\ row[i].filled <= book[i].filled
    /\ IsTerminal(row[i].status) => row[i].status = book[i].status

\* A successful end of day leaves nothing open or unexplained, and the ledger
\* it snapshots holds every trade the broker made.
EodIsComplete ==
  eodDone => \A i \in Intents :
    /\ ~OpenAtBroker(i) /\ intent[i] \notin {"SUBMITTING", "SUBMIT_UNKNOWN"}
    /\ applied[i] = 1 .. book[i].filled

\* A rebalance is recorded as successful only when each submission has a
\* known result.
SuccessIsResolved ==
  rebalance = "SUCCEEDED" =>
    \A i \in Intents : intent[i] \notin {"SUBMITTING", "SUBMIT_UNKNOWN"}

\* Each intent keeps the promise of the abstract specification.
Promise == INSTANCE OrderPromise WITH
  stage  <- [i \in Intents |->
               IF intent[i] \in {"COMPLETED", "INCOMPLETE", "REJECTED"} THEN "final"
               ELSE IF sends[i] = 0 THEN "unsent" ELSE "sent"],
  booked <- [i \in Intents |-> Cardinality(applied[i])]

KeepsPromise == Promise!Spec

\* A buy plan is not submitted on an overdrawn ledger, except for the instant
\* between the booking of the breach and its report to the engine.
BuysNeedCash ==
  [][\A i \in Intents :
       (SideOf[i] = "BUY" /\ intent[i] = "PLANNED" /\ intent'[i] = "SUBMITTING")
         => ~overdrawn \/ breach]_vars

\* The same for as long as no crash has reset the process: its restart resumes
\* the account whatever it was paused for.
BuysNeedCashUntilRestart ==
  [][crashes = 0 => \A i \in Intents :
       (SideOf[i] = "BUY" /\ intent[i] = "PLANNED" /\ intent'[i] = "SUBMITTING")
         => ~overdrawn \/ breach]_vars

\* When the rebalance is recorded as successful no order of the day is still
\* open at the broker: the wait for fills ends in a cancellation.
SuccessLeavesNothingOpen ==
  rebalance = "SUCCEEDED" => \A i \in Intents : ~OpenAtBroker(i)

\* When the rebalance is over the plans it did not submit have been rejected.
NoPlanOutlivesItsWindow ==
  rebalance # "none" => \A i \in Intents : intent[i] # "PLANNED"

\* As long as no connection and no session fails, every submission ends up with
\* a recorded outcome, or the account stops.
SubmissionsAreSettled ==
  <>[](\/ account = "PAUSED" \/ faults > 0
       \/ \A i \in Intents :
            sends[i] > 0 => intent[i] \in {"COMPLETED", "INCOMPLETE", "REJECTED"})

\* And every order the broker still has open is closed, or the account stops.
OpenOrdersAreDealtWith ==
  \A i \in Intents :
    OpenAtBroker(i) ~> (~OpenAtBroker(i) \/ account = "PAUSED" \/ faults > 0)
=============================================================================
