--------------------------- MODULE BrokerSession ---------------------------
(***************************************************************************)
(* One live process seen from its broker connection: the engine thread runs *)
(* jobs in sessions of a fresh trader each, the SDK's thread puts callbacks *)
(* into a queue, and the consumer thread takes them out, writes them and    *)
(* raises the unhealthy flag that the engine looks at around every order.   *)
(*                                                                         *)
(* The flag, its reason and the connected flag are plain attributes of the  *)
(* engine: notify_broker_unhealthy is three steps here, and so are the      *)
(* assignments that open a session.                                        *)
(***************************************************************************)
EXTENDS Naturals, Sequences

CONSTANTS
  Sessions,    \* bound: sessions of one process, 1 .. n
  MaxEvents,   \* bound: callbacks the SDK makes
  MaxOrders,   \* bound: orders a job submits
  Kinds,       \* kinds of callback besides DISCONNECTED
  Interrupts   \* may Ctrl-C arrive while a session runs?

ASSUME SessionAssumption == Sessions \subseteq Nat /\ 1 \in Sessions
ASSUME BoundAssumption == {MaxEvents, MaxOrders} \subseteq Nat /\ Interrupts \in BOOLEAN
\* FINE stands for what persists or is ignored without an alarm, RAISES for a
\* callback whose processing raises, ERROR for order and cancel errors.
ASSUME KindAssumption ==
  Kinds \subseteq {"FINE", "RAISES", "ERROR", "ACCOUNT_STATUS", "UNKNOWN_LOCAL", "BREACH"}

VARIABLES
  pc, session, outcome, shutdown, locked, \* engine thread and its process
  connected, unhealthy, reason,           \* _broker_connected, _broker_unhealthy(_reason)
  trader, subscribed,                     \* MiniQmtBrokerGateway: _trader, _subscribed
  sdk, due, expected, landing,            \* the SDK: traders, callbacks to make, being made
  queue, consumer, event, stop,           \* the event queue and the consumer thread
  account,                                \* live_account: active, or what paused it
  orders,                                 \* orders submitted in this session
  alarmed, late, broken, made             \* history, see below

engine  == <<pc, session, outcome, shutdown, locked>>
flags   == <<connected, unhealthy, reason>>
gateway == <<trader, subscribed>>
world   == <<sdk, due, expected, landing>>
worker  == <<queue, consumer, event, stop>>
history == <<alarmed, late, broken, made>>
vars == <<engine, flags, gateway, world, worker, account, orders, history>>

Active    == [status |-> "ACTIVE"]
Nobody    == [none |-> TRUE]
Event     == [kind : Kinds \cup {"DISCONNECTED"}, from : Sessions]
Why(text) == [why |-> text]
Pause(by) == [status |-> "PAUSED", by |-> by]

Closing  == {"disable", "unsubscribe", "stop", "leave", "wipe"}
Running  == {"connect", "connecting", "subscribe", "healthy", "reconcile", "ready",
             "job", "submit", "recheck", "last"}
Opening  == {"clear", "forget"}
Leaving  == {"stopping", "join", "unlock", "exited"}
Labels   == {"idle"} \cup Opening \cup Running \cup Closing \cup Leaving

Init ==
  /\ pc = "idle" /\ session = 0 /\ outcome = "none" /\ shutdown = FALSE /\ locked = TRUE
  /\ connected = FALSE /\ unhealthy = FALSE /\ reason = Nobody
  /\ trader = 0 /\ subscribed = FALSE
  /\ sdk = [s \in Sessions |-> "none"] /\ due = {} /\ expected = {} /\ landing = Nobody
  /\ queue = <<>> /\ consumer = "waiting" /\ event = Nobody /\ stop = FALSE
  /\ account = Active /\ orders = 0
  /\ alarmed = {} /\ late = 0 /\ broken = {} /\ made = 0
-----------------------------------------------------------------------------
(* The engine thread: _run_broker_job. *)
Go(from, to) ==
  /\ pc = from /\ pc' = to
  /\ UNCHANGED <<session, shutdown, locked>>

\* A job raised or ended: the finally block comes next.
Finish(from, how) == Go(from, "disable") /\ outcome' = how

Begin ==
  /\ pc = "idle" /\ ~shutdown /\ session + 1 \in Sessions
  /\ session' = session + 1 /\ pc' = "clear" /\ outcome' = "none"
  /\ connected' = TRUE
  /\ orders' = 0 /\ late' = 0
  /\ UNCHANGED <<shutdown, locked, unhealthy, reason, gateway, world, worker, account,
                 alarmed, broken, made>>

Clear ==
  /\ Go("clear", "forget") /\ unhealthy' = FALSE
  /\ UNCHANGED <<outcome, connected, reason, gateway, world, worker, account, orders, history>>

Forget ==
  /\ Go("forget", "connect") /\ reason' = Nobody
  /\ UNCHANGED <<outcome, connected, unhealthy, gateway, world, worker, account, orders, history>>

\* connect(): a new trader with its own callback object and expected flag.
StartTrader ==
  /\ Go("connect", "connecting")
  /\ sdk' = [sdk EXCEPT ![session] = "up"]
  /\ UNCHANGED <<outcome, flags, gateway, due, expected, landing, worker, account, orders, history>>

\* trader.stop(): a trader that was up reports its disconnection from now on.
Stop(s) ==
  /\ sdk' = [sdk EXCEPT ![s] = "stopped"]
  /\ due' = IF sdk[s] = "up" THEN due \cup {s} ELSE due

FailedConnect ==
  /\ expected' = expected \cup {session}
  /\ Stop(session)

FlagsOnConnect_Cleared == unhealthy' = FALSE /\ UNCHANGED <<connected, reason>> \* variant
FlagsOnConnect == UNCHANGED flags

\* The five attempts succeed or fail as a whole; a raising attempt fails too.
Connect ==
  \/ /\ Go("connecting", "subscribe") /\ trader' = session
     /\ UNCHANGED <<outcome, subscribed, sdk, due, expected>>
  \/ /\ Finish("connecting", "failed")
     /\ FailedConnect
     /\ UNCHANGED gateway

ConnectTrader ==
  /\ Connect /\ FlagsOnConnect
  /\ UNCHANGED <<landing, worker, account, orders, history>>

Subscribe ==
  /\ \/ Go("subscribe", "healthy") /\ subscribed' = TRUE /\ UNCHANGED outcome
     \/ Finish("subscribe", "failed") /\ UNCHANGED subscribed
  /\ UNCHANGED <<flags, trader, world, worker, account, orders, history>>

Healthy == ~unhealthy

\* _require_broker_healthy: go on, or pause the account and raise.
Require(from, to) ==
  /\ \/ Healthy /\ Go(from, to) /\ UNCHANGED <<outcome, account>>
     \/ ~Healthy /\ Finish(from, "failed") /\ account' = Pause(reason)
  /\ UNCHANGED <<flags, gateway, world, worker, orders, history>>

\* startup_reconcile: resume the account, or pause it and raise, or raise.
Reconcile ==
  /\ \/ Go("reconcile", "ready") /\ account' = Active /\ UNCHANGED outcome
     \/ Finish("reconcile", "failed") /\ account' \in {account, Pause(Why("RECONCILIATION"))}
  /\ UNCHANGED <<flags, gateway, world, worker, orders, history>>

\* The job proper: orders one at a time, and an end, good or bad.
Job ==
  \/ orders < MaxOrders /\ Require("job", "submit")
  \/ /\ \/ Go("job", "last") /\ UNCHANGED outcome
        \/ Finish("job", "failed")
     /\ UNCHANGED <<account, flags, gateway, world, worker, orders, history>>

\* _submit_intent between its two checks: the order leaves; the answer may
\* be an exception, and the result unknown.
Submit ==
  /\ \/ Go("submit", "recheck") /\ UNCHANGED <<outcome, account>>
     \/ Finish("submit", "failed") /\ account' = Pause(Why("SUBMIT_RESULT_UNKNOWN"))
  /\ orders' = orders + 1
  /\ late' = IF unhealthy THEN late + 1 ELSE late
  /\ UNCHANGED <<flags, gateway, world, worker, alarmed, broken, made>>

Last ==
  /\ \/ Healthy /\ Finish("last", "ok") /\ UNCHANGED account
     \/ ~Healthy /\ Finish("last", "failed") /\ account' = Pause(reason)
  /\ UNCHANGED <<flags, gateway, world, worker, orders, history>>

\* disconnect(): no more orders, the trader is told that it is deliberate.
Disable == expected' = IF trader = 0 THEN expected ELSE expected \cup {trader}

Disarm ==
  /\ Go("disable", "unsubscribe") /\ Disable
  /\ UNCHANGED <<outcome, flags, gateway, sdk, due, landing, worker, account, orders, history>>

AfterUnsubscribe == "stop"

\* unsubscribe may be refused: the trader is stopped all the same.
Unsubscribe ==
  /\ \/ Go("unsubscribe", "stop") /\ UNCHANGED outcome
     \/ /\ subscribed /\ Go("unsubscribe", AfterUnsubscribe) /\ outcome' = "raised"
  /\ UNCHANGED <<flags, gateway, world, worker, account, orders, history>>

StopTrader ==
  /\ Go("stop", "leave")
  /\ IF trader = 0 THEN UNCHANGED <<sdk, due>> ELSE Stop(trader)
  /\ trader' = 0 /\ subscribed' = FALSE
  /\ UNCHANGED <<outcome, flags, expected, landing, worker, account, orders, history>>

\* _disconnect_broker's finally; when disconnect() raised, the flag and its
\* reason stay as they are until the next session opens.
Leave ==
  /\ Go("leave", IF outcome = "raised" THEN "idle" ELSE "wipe")
  /\ connected' = FALSE
  /\ UNCHANGED <<outcome, unhealthy, reason, gateway, world, worker, account, orders, history>>

Wipe ==
  /\ Go("wipe", "idle") /\ unhealthy' = FALSE /\ reason' = Nobody
  /\ UNCHANGED <<outcome, connected, gateway, world, worker, account, orders, history>>

\* Ctrl-C in a session: the exception is no Exception, so only the finally
\* blocks see it; connect() has none that stops the trader it started.
Interrupt ==
  /\ Interrupts /\ ~shutdown /\ pc \in Running
  /\ pc' = "disable" /\ shutdown' = TRUE /\ outcome' = "failed"
  /\ UNCHANGED <<session, locked, flags, gateway, world, worker, account, orders, history>>
-----------------------------------------------------------------------------
(* The engine thread: the end of run_forever, stop(). *)
Shutdown ==
  /\ pc = "idle" /\ pc' = "stopping" /\ shutdown' = TRUE
  /\ UNCHANGED <<session, outcome, locked, flags, gateway, world, worker, account, orders, history>>

StopConsumer ==
  /\ Go("stopping", "join") /\ stop' = TRUE
  /\ UNCHANGED <<outcome, flags, gateway, world, queue, consumer, event, account, orders, history>>

\* thread.join(timeout=2.0): the thread is gone, or the two seconds are.
JoinConsumer ==
  /\ Go("join", "unlock")
  /\ UNCHANGED <<outcome, flags, gateway, world, worker, account, orders, history>>

Unlock ==
  /\ pc = "unlock" /\ pc' = "exited" /\ locked' = FALSE
  /\ UNCHANGED <<session, outcome, shutdown, flags, gateway, world, worker, account, orders, history>>

Engine ==
  \/ Begin \/ Clear \/ Forget \/ StartTrader \/ ConnectTrader \/ Subscribe
  \/ Require("healthy", "reconcile") \/ Reconcile \/ Require("ready", "job")
  \/ Job \/ Submit \/ Require("recheck", "job") \/ Last
  \/ Disarm \/ Unsubscribe \/ StopTrader \/ Leave \/ Wipe
  \/ StopConsumer \/ JoinConsumer \/ Unlock
-----------------------------------------------------------------------------
(* The SDK's thread. *)
LoseConnection(s) ==
  /\ sdk[s] = "up" /\ made < MaxEvents
  /\ sdk' = [sdk EXCEPT ![s] = "down"] /\ due' = due \cup {s}
  /\ broken' = broken \cup {s} /\ made' = made + 1
  /\ UNCHANGED <<engine, flags, gateway, expected, landing, worker, account, orders, alarmed, late>>

\* on_disconnected: the test of the expected flag, and the event that is
\* put into the queue a moment later.
OnDisconnected(s) ==
  /\ s \in due /\ landing = Nobody /\ pc # "exited"
  /\ due' = due \ {s}
  /\ landing' = IF s \in expected THEN Nobody ELSE [kind |-> "DISCONNECTED", from |-> s]
  /\ UNCHANGED <<engine, flags, gateway, sdk, expected, worker, account, orders, history>>

\* on_account_status, on_stock_order, on_stock_trade and the error callbacks.
OnCallback(s, k) ==
  /\ sdk[s] = "up" /\ landing = Nobody /\ made < MaxEvents
  /\ landing' = [kind |-> k, from |-> s] /\ made' = made + 1
  /\ UNCHANGED <<engine, flags, gateway, sdk, due, expected, worker, account, orders, alarmed, late, broken>>

Put ==
  /\ landing # Nobody /\ pc # "exited"
  /\ queue' = Append(queue, landing) /\ landing' = Nobody
  /\ UNCHANGED <<engine, flags, gateway, sdk, due, expected, consumer, event, stop, account, orders, history>>
-----------------------------------------------------------------------------
(* The consumer thread. *)
Consume(from, to) ==
  /\ consumer = from /\ consumer' = to /\ pc # "exited"
  /\ UNCHANGED <<engine, gateway, world, stop, orders>>

\* get() may hand out an event though stop() was called while it waited.
Take ==
  /\ Consume("waiting", "taken") /\ queue # <<>>
  /\ event' = Head(queue) /\ queue' = Tail(queue)
  /\ UNCHANGED <<flags, account, history>>

\* The test of the loop: what follows a processed event.
Again == IF stop THEN "off" ELSE "waiting"

Quit ==
  /\ Consume("waiting", "off") /\ stop
  /\ UNCHANGED <<flags, queue, event, account, history>>

\* What is left in the database by the time the alarm is raised: a callback
\* nobody can relate, or one that overdraws the ledger, pauses the account.
PausedBy(e) == IF e.kind \in {"UNKNOWN_LOCAL", "BREACH"} THEN Pause(e) ELSE account

AfterProcess_Die(e) == CASE e.kind = "FINE" -> Again [] e.kind = "RAISES" -> "off" [] OTHER -> "notify" \* variant
AfterProcess(e) == IF e.kind = "FINE" THEN Again ELSE "notify"

\* process(): an exception is an alarm too, and the loop goes on.
Process ==
  /\ Consume("taken", AfterProcess(event))
  /\ account' = PausedBy(event)
  /\ UNCHANGED <<flags, queue, event, history>>

\* notify_broker_unhealthy, three steps: look at the connected flag, keep
\* the first reason, raise the flag.
NotifyConnected ==
  /\ Consume("notify", IF connected THEN "reason" ELSE Again)
  /\ UNCHANGED <<flags, queue, event, account, history>>

NotifyReason ==
  /\ Consume("reason", "flag")
  /\ reason' = IF reason = Nobody THEN event ELSE reason
  /\ UNCHANGED <<connected, unhealthy, queue, event, account, history>>

NotifyFlag ==
  /\ Consume("flag", Again) /\ unhealthy' = TRUE
  /\ alarmed' = IF pc \in Running \cup {"forget"} THEN alarmed \cup {session} ELSE alarmed
  /\ UNCHANGED <<connected, reason, queue, event, account, late, broken, made>>

Consumer == Take \/ Quit \/ Process \/ NotifyConnected \/ NotifyReason \/ NotifyFlag

Next ==
  \/ Engine \/ Shutdown \/ Interrupt \/ Consumer \/ Put
  \/ \E s \in Sessions :
       LoseConnection(s) \/ OnDisconnected(s) \/ \E k \in Kinds : OnCallback(s, k)

\* The three threads run; nothing makes the broker or the user do anything.
Fairness == WF_vars(Engine) /\ WF_vars(Consumer) /\ WF_vars(Put)
Spec == Init /\ [][Next]_vars /\ Fairness
-----------------------------------------------------------------------------
Accounts == {Active, Pause(Why("RECONCILIATION")), Pause(Why("SUBMIT_RESULT_UNKNOWN"))}
            \cup {Pause(e) : e \in Event \cup {Nobody}}

FlagTypes ==
  /\ shutdown \in BOOLEAN /\ locked \in BOOLEAN /\ stop \in BOOLEAN
  /\ connected \in BOOLEAN /\ unhealthy \in BOOLEAN /\ subscribed \in BOOLEAN

TypeOK ==
  /\ pc \in Labels
  /\ session \in Sessions \cup {0} /\ outcome \in {"none", "ok", "failed", "raised"}
  /\ FlagTypes
  /\ reason \in Event \cup {Nobody} /\ event \in Event \cup {Nobody}
  /\ landing \in Event \cup {Nobody}
  /\ trader \in Sessions \cup {0}
  /\ sdk \in [Sessions -> {"none", "up", "down", "stopped"}]
  /\ due \subseteq Sessions /\ expected \subseteq Sessions
  /\ alarmed \subseteq Sessions /\ broken \subseteq Sessions
  /\ queue \in Seq(Event) /\ made \in 0 .. MaxEvents
  /\ consumer \in {"waiting", "taken", "notify", "reason", "flag", "off"}
  /\ account \in Accounts
  /\ orders \in 0 .. MaxOrders /\ late \in 0 .. MaxOrders

Loose == {s \in Sessions : sdk[s] \in {"up", "down"}}

\* Every trader that was started is stopped, whichever call of the session
\* fails (miniqmt.py connect and disconnect): none is left when the engine
\* is between sessions, and there are never two.  Ctrl-C while a trader
\* connects does leave it.
NoStrayTrader ==
  /\ pc \in {"idle", "clear", "forget", "connect"} /\ ~shutdown => Loose = {}
  /\ \A s, t \in Loose : s = t

\* A disconnection reported to the engine is one the engine did not ask for
\* (callbacks.py on_disconnected, miniqmt.py disconnect): the flag is set
\* before the trader is stopped, however late the SDK calls back.
DisconnectIsReal ==
  \A e \in {landing, event} \cup {queue[i] : i \in DOMAIN queue} :
    e # Nobody /\ e.kind = "DISCONNECTED" => e.from \in broken

\* An alarm raised while a session runs stays up until the session is over
\* (engine.py _run_broker_job): neither the opening of the session nor
\* another callback takes it down again.
AlarmKept == session \in alarmed /\ pc \in Running => unhealthy

\* Once the alarm is raised at most one more order leaves in the session:
\* the one that was checked just before (jobs.py _submit_intent).
AlarmStopsTrading == late <= 1

\* No session succeeds over an alarm that was raised in it (engine.py, the
\* last check before the job's result is returned).
AlarmFailsSession == session \in alarmed /\ pc = "idle" => outcome # "ok"

\* What holds at every moment of a session, its alarms above all.
SessionInv ==
  TypeOK /\ NoStrayTrader /\ DisconnectIsReal /\ AlarmKept /\ AlarmStopsTrading /\ AlarmFailsSession

\* A session always comes to its end, whatever the broker answers.
InSession == pc \in Running
OutOfSession == pc \in {"idle", "exited"}
SessionsEnd == InSession ~> OutOfSession

\* Callbacks do not stay in the queue while the process lives: one that
\* raises does not take the consumer thread with it (callbacks.py _run).
Waiting == queue # <<>>
EventsAreConsumed == Waiting ~> ~Waiting \/ stop
=============================================================================
