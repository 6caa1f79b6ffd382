---------------------------- MODULE ThreadsProofs -----------------------------
(***************************************************************************)
(* Theorems about what the two threads of the service do to each other.     *)
(* BrokerSession, for any number of sessions, callbacks and orders: no       *)
(* trader is left running, a disconnection reported is real, and an alarm    *)
(* stops the orders of its session and fails it.  RowLocks, for any number   *)
(* of transactions, orders and trades: the cash is the sum of the trades,    *)
(* and the only deadlocks are the two that are known.                       *)
(***************************************************************************)
EXTENDS BrokerSession, RowLocks, Sums, SequenceTheorems, TLAPS

-----------------------------------------------------------------------------
(* The invariant.                                                          *)

\* A trader lives in the session that started it.  The gateway knows it from
\* the end of connect() to the end of disconnect(), unless Ctrl-C arrived while
\* it was connecting.
Known == {"subscribe", "healthy", "reconcile", "ready", "job", "submit", "recheck",
          "last", "disable", "unsubscribe", "stop"}

TraderInv ==
  /\ pc \in Opening \cup Running \cup Closing => session \in Sessions \ {0}
  /\ trader \in {0, session}
  /\ pc \notin Known => trader = 0
  /\ Loose \subseteq {session}
  /\ pc \in Known /\ trader = 0 /\ ~shutdown => Loose = {}
  /\ pc \notin Known \cup {"connecting"} /\ ~shutdown => Loose = {}

\* A disconnection still to be reported is one that happened, or the trader has
\* been told to expect it.
Real(e) == e # Nobody /\ e.kind = "DISCONNECTED" => e.from \in broken

ExpectInv ==
  /\ due \subseteq expected \cup broken
  /\ pc \in {"unsubscribe", "stop"} /\ trader # 0 => trader \in expected

ReportInv == Real(landing) /\ Real(event) /\ \A i \in 1 .. Len(queue) : Real(queue[i])

\* An alarm counts for the session in which it was raised, from the moment the
\* flag of the session before has been cleared.
AlarmInv ==
  /\ \A s \in alarmed : s <= session
  /\ pc = "clear" => session \notin alarmed
  /\ session \in alarmed /\ pc \in Running \cup {"forget"} => unhealthy
  /\ outcome = "ok" => session \notin alarmed /\ pc \notin Opening \cup Running

\* An order that left under an alarm is found out by the check that follows it.
OrderInv ==
  /\ late <= 1
  /\ pc \in Opening \cup Running => late = 0 \/ (pc = "recheck" /\ unhealthy)
  /\ pc = "submit" => orders < MaxOrders

AlarmedInv == TypeOK /\ TraderInv /\ ExpectInv /\ ReportInv /\ AlarmInv /\ OrderInv
-----------------------------------------------------------------------------
(* The proof that every step keeps it.                                     *)

\* What the account may become.
LEMMA AccountFacts ==
  /\ Active \in Accounts /\ Pause(Why("RECONCILIATION")) \in Accounts
  /\ Pause(Why("SUBMIT_RESULT_UNKNOWN")) \in Accounts
  /\ \A e \in Event \cup {Nobody} : Pause(e) \in Accounts
BY DEF Accounts

\* The events that the SDK's thread makes.
LEMMA EventFacts ==
  ASSUME NEW s \in Sessions
  PROVE  /\ [kind |-> "DISCONNECTED", from |-> s] \in Event
         /\ \A c \in Kinds : /\ [kind |-> c, from |-> s] \in Event
                             /\ c # "DISCONNECTED"
BY KindAssumption DEF Event

\* Where each step takes the engine thread.
LEMMA LabelFacts ==
  /\ {"idle", "clear", "forget", "connect", "connecting", "subscribe", "healthy",
      "reconcile", "ready", "job", "submit", "recheck", "last", "disable",
      "unsubscribe", "stop", "leave", "wipe", "stopping", "join", "unlock", "exited"}
     \subseteq Labels
  /\ \A label \in {"connect", "connecting", "forget", "subscribe"} :
       label \in Opening \cup Running \cup Closing
BY DEF Labels, Opening, Running, Closing, Leaving

\* The flags of the consumer, of the engine and of the SDK stay Booleans
\* through every step.
LEMMA FlagStep == FlagTypes /\ Next => FlagTypes'
<1> SUFFICES ASSUME FlagTypes, Next PROVE FlagTypes'
  OBVIOUS
<1> USE DEF FlagTypes
<1>1. CASE Begin \/ Clear \/ Forget \/ StartTrader \/ ConnectTrader \/ Subscribe
  BY <1>1, Zenon DEF Begin, gateway, world, worker, Clear, Go, history, Forget,
     StartTrader, flags, ConnectTrader, FlagsOnConnect, Connect, Finish, FailedConnect,
     Stop, Subscribe
<1>2. CASE Require("healthy", "reconcile") \/ Require("ready", "job")
           \/ Require("recheck", "job") \/ Reconcile \/ Job \/ Submit \/ Last
  BY <1>2, Zenon DEF Require, Go, Finish, Healthy, flags, gateway, world, worker, history,
     Reconcile, Job, Submit, Last
<1>3. CASE Disarm \/ Unsubscribe \/ StopTrader \/ Leave \/ Wipe
  BY <1>3, Zenon DEF Disarm, Go, Disable, flags, gateway, worker, history, Unsubscribe,
     AfterUnsubscribe, world, StopTrader, Stop, Leave, Wipe
<1>4. CASE StopConsumer \/ JoinConsumer \/ Unlock \/ Shutdown \/ Interrupt
  BY <1>4, Zenon DEF StopConsumer, Go, flags, gateway, world, history, JoinConsumer,
     worker, Unlock, Shutdown, Interrupt
<1>5. CASE Take \/ Quit \/ Process \/ NotifyConnected \/ NotifyReason \/ NotifyFlag
  BY <1>5, Zenon DEF Take, Consume, flags, history, engine, gateway, world, Quit, Process,
     PausedBy, AfterProcess, Again, NotifyConnected, NotifyReason, NotifyFlag
<1>6. CASE Put
  BY <1>6, Zenon DEF Put, engine, flags, gateway, history
<1>7. ASSUME NEW s \in Sessions, LoseConnection(s) \/ OnDisconnected(s) PROVE FlagTypes'
  BY <1>7, Zenon DEF LoseConnection, engine, flags, gateway, worker, OnDisconnected,
     history
<1>8. ASSUME NEW s \in Sessions, NEW c \in Kinds, OnCallback(s, c) PROVE FlagTypes'
  BY <1>8, Zenon DEF OnCallback, engine, flags, gateway, worker
<1> QED
  BY <1>1, <1>2, <1>3, <1>4, <1>5, <1>6, <1>7, <1>8 DEF Next, Engine, Consumer

\* Every step keeps the types; what takes the invariant is the queue, whose
\* elements are events, and the session the engine runs in.
LEMMA TypeStep == AlarmedInv /\ Next => TypeOK'
<1> SUFFICES ASSUME AlarmedInv, Next PROVE TypeOK'
  OBVIOUS
<1>0. /\ TypeOK /\ OrderInv /\ FlagTypes'
      /\ pc \in {"forget", "connect", "connecting"} \cup Running => session \in Sessions
  BY LabelFacts, FlagStep DEF AlarmedInv, TraderInv, TypeOK
<1> USE <1>0, BoundAssumption DEF TypeOK
<1>1. CASE Begin
  BY <1>1, LabelFacts, SessionAssumption DEF Begin, gateway, world, worker
<1>2. CASE Clear
  BY <1>2, LabelFacts DEF Clear, Go, gateway, world, worker, history
<1>3. CASE Forget
  BY <1>3, LabelFacts DEF Forget, Go, gateway, world, worker, history
<1>4. CASE StartTrader
  BY <1>4, LabelFacts DEF StartTrader, Go, flags, gateway, worker, history
<1>5. CASE ConnectTrader
  BY <1>5, LabelFacts DEF ConnectTrader, FlagsOnConnect, Connect, worker, history, Go,
     Finish, FailedConnect, gateway, Stop, flags
<1>6. CASE Subscribe
  BY <1>6, LabelFacts DEF Subscribe, Go, Finish, flags, world, worker, history
<1>7. CASE Require("healthy", "reconcile") \/ Require("ready", "job")
           \/ Require("recheck", "job")
  BY <1>7, LabelFacts, AccountFacts DEF Require, Go, Finish, Healthy, flags, gateway,
     world, worker, history
<1>8. CASE Reconcile
  BY <1>8, LabelFacts, AccountFacts DEF Reconcile, Go, Finish, flags, gateway, world,
     worker, history
<1>9. CASE Job
  BY <1>9, LabelFacts, AccountFacts DEF Job, Go, Finish, Require, flags, gateway, world,
     worker, history, Healthy
<1>10. CASE Submit
  <2>1. orders < MaxOrders /\ late = 0
    BY <1>10 DEF Submit, Go, Finish, OrderInv, Opening, Running
  <2>2. orders' \in 0 .. MaxOrders /\ late' \in 0 .. MaxOrders
    BY <1>10, <2>1 DEF Submit
  <2> QED
    BY <1>10, <2>2, LabelFacts, AccountFacts DEF Submit, Go, Finish, flags, gateway, world, worker
<1>11. CASE Last
  BY <1>11, LabelFacts, AccountFacts DEF Last, Finish, Healthy, flags, gateway, world,
     worker, history, Go
<1>12. CASE Disarm
  BY <1>12, LabelFacts DEF Disarm, Go, Disable, flags, gateway, worker, history
<1>13. CASE Unsubscribe
  BY <1>13, LabelFacts DEF Unsubscribe, Go, AfterUnsubscribe, flags, gateway, world,
     worker, history
<1>14. CASE StopTrader
  BY <1>14, LabelFacts DEF StopTrader, Go, Stop, flags, worker, history
<1>15. CASE Leave
  BY <1>15, LabelFacts DEF Leave, Go, gateway, world, worker, history
<1>16. CASE Wipe
  BY <1>16, LabelFacts DEF Wipe, Go, gateway, world, worker, history
<1>17. CASE StopConsumer \/ JoinConsumer \/ Unlock \/ Shutdown
  BY <1>17, LabelFacts DEF StopConsumer, Go, flags, gateway, world, history, JoinConsumer,
     worker, Unlock, Shutdown
<1>18. CASE Interrupt
  BY <1>18, LabelFacts DEF Interrupt, flags, gateway, world, worker, history
<1>19. CASE Take
  BY <1>19 DEF Take, Consume, flags, history, engine, gateway, world
<1>20. CASE Quit
  BY <1>20 DEF Quit, Consume, flags, history, engine, gateway, world
<1>21. CASE Process
  BY <1>21, AccountFacts DEF Process, Consume, PausedBy, AfterProcess, flags, history,
     Again, engine, gateway, world
<1>22. CASE NotifyConnected
  BY <1>22 DEF NotifyConnected, Consume, Again, flags, history, engine, gateway, world
<1>23. CASE NotifyReason
  BY <1>23 DEF NotifyReason, Consume, history, engine, gateway, world
<1>24. CASE NotifyFlag
  BY <1>24 DEF NotifyFlag, Consume, Again, engine, gateway, world
<1>25. CASE Put
  BY <1>25 DEF Put, engine, flags, gateway, history
<1>26. ASSUME NEW s \in Sessions, LoseConnection(s) PROVE TypeOK'
  BY <1>26 DEF LoseConnection, engine, flags, gateway, worker
<1>27. ASSUME NEW s \in Sessions, OnDisconnected(s) PROVE TypeOK'
  BY <1>27, EventFacts DEF OnDisconnected, engine, flags, gateway, worker, history
<1>28. ASSUME NEW s \in Sessions, NEW c \in Kinds, OnCallback(s, c) PROVE TypeOK'
  <2>1. landing' \in Event
    BY <1>28, EventFacts DEF OnCallback
  <2>2. made' \in 0 .. MaxEvents
    BY <1>28 DEF OnCallback
  <2> QED
    BY <1>28, <2>1, <2>2 DEF OnCallback, engine, flags, gateway, worker
<1> QED
  BY <1>1, <1>2, <1>3, <1>4, <1>5, <1>6, <1>7, <1>8, <1>9, <1>10, <1>11, <1>12, <1>13,
     <1>14, <1>15, <1>16, <1>17, <1>18, <1>19, <1>20, <1>21, <1>22, <1>23, <1>24, <1>25,
     <1>26, <1>27, <1>28 DEF Next, Engine, Consumer

\* A trader that was started is the one the engine will stop, in every phase of
\* connecting and of the way out.
LEMMA TraderStep == AlarmedInv /\ Next => TraderInv'
<1> SUFFICES ASSUME AlarmedInv, Next PROVE TraderInv'
  OBVIOUS
<1>0. /\ TypeOK /\ TraderInv
  BY DEF AlarmedInv
<1> USE <1>0, SessionAssumption
    DEF TypeOK, FlagTypes, TraderInv, Loose, Known, Opening, Running, Closing, Leaving
<1>1. CASE Begin
  BY <1>1 DEF Begin, gateway, world, worker
<1>2. CASE Clear
  BY <1>2 DEF Clear, Go, gateway, world, worker, history
<1>3. CASE Forget
  BY <1>3 DEF Forget, Go, gateway, world, worker, history
<1>4. CASE StartTrader
  BY <1>4 DEF StartTrader, Go, flags, gateway, worker, history
<1>5. CASE ConnectTrader
  BY <1>5 DEF ConnectTrader, FlagsOnConnect, Connect, worker, history, Go, Finish,
     FailedConnect, gateway, Stop, flags
<1>6. CASE Subscribe
  BY <1>6 DEF Subscribe, Go, Finish, flags, world, worker, history
<1>7. CASE Require("healthy", "reconcile") \/ Require("ready", "job")
           \/ Require("recheck", "job")
  BY <1>7 DEF Require, Go, Finish, Healthy, flags, gateway, world, worker, history
<1>8. CASE Reconcile
  BY <1>8 DEF Reconcile, Go, Finish, flags, gateway, world, worker, history
<1>9. CASE Job
  BY <1>9 DEF Job, Go, Finish, Require, flags, gateway, world, worker, history, Healthy
<1>10. CASE Submit
  BY <1>10 DEF Submit, Go, Finish, flags, gateway, world, worker
<1>11. CASE Last
  BY <1>11 DEF Last, Finish, Healthy, flags, gateway, world, worker, history, Go
<1>12. CASE Disarm
  BY <1>12 DEF Disarm, Go, Disable, flags, gateway, worker, history
<1>13. CASE Unsubscribe
  BY <1>13 DEF Unsubscribe, Go, AfterUnsubscribe, flags, gateway, world, worker, history
<1>14. CASE StopTrader
  BY <1>14 DEF StopTrader, Go, Stop, flags, worker, history
<1>15. CASE Leave
  BY <1>15 DEF Leave, Go, gateway, world, worker, history
<1>16. CASE Wipe
  BY <1>16 DEF Wipe, Go, gateway, world, worker, history
<1>17. CASE StopConsumer \/ JoinConsumer \/ Unlock \/ Shutdown
  BY <1>17 DEF StopConsumer, Go, flags, gateway, world, history, JoinConsumer, worker,
     Unlock, Shutdown
<1>18. CASE Interrupt
  BY <1>18 DEF Interrupt, flags, gateway, world, worker, history
<1>19. CASE Take
  BY <1>19 DEF Take, Consume, flags, history, engine, gateway, world
<1>20. CASE Quit
  BY <1>20 DEF Quit, Consume, flags, history, engine, gateway, world
<1>21. CASE Process
  BY <1>21 DEF Process, Consume, PausedBy, AfterProcess, flags, history, Again, engine,
     gateway, world
<1>22. CASE NotifyConnected
  BY <1>22 DEF NotifyConnected, Consume, Again, flags, history, engine, gateway, world
<1>23. CASE NotifyReason
  BY <1>23 DEF NotifyReason, Consume, history, engine, gateway, world
<1>24. CASE NotifyFlag
  BY <1>24 DEF NotifyFlag, Consume, Again, engine, gateway, world
<1>25. CASE Put
  BY <1>25 DEF Put, engine, flags, gateway, history
<1>26. ASSUME NEW s \in Sessions, LoseConnection(s) PROVE TraderInv'
  BY <1>26 DEF LoseConnection, engine, flags, gateway, worker
<1>27. ASSUME NEW s \in Sessions, OnDisconnected(s) PROVE TraderInv'
  BY <1>27 DEF OnDisconnected, engine, flags, gateway, worker, history
<1>28. ASSUME NEW s \in Sessions, NEW c \in Kinds, OnCallback(s, c) PROVE TraderInv'
  BY <1>28 DEF OnCallback, engine, flags, gateway, worker
<1> QED
  BY <1>1, <1>2, <1>3, <1>4, <1>5, <1>6, <1>7, <1>8, <1>9, <1>10, <1>11, <1>12, <1>13,
     <1>14, <1>15, <1>16, <1>17, <1>18, <1>19, <1>20, <1>21, <1>22, <1>23, <1>24, <1>25,
     <1>26, <1>27, <1>28 DEF Next, Engine, Consumer

\* A session is expected to end only from the moment the engine disarms it.
LEMMA ExpectStep == AlarmedInv /\ Next => ExpectInv'
<1> SUFFICES ASSUME AlarmedInv, Next PROVE ExpectInv'
  OBVIOUS
<1>0. TypeOK /\ TraderInv /\ ExpectInv
  BY DEF AlarmedInv
<1> USE <1>0 DEF TypeOK, TraderInv, ExpectInv, Known, Opening, Running, Closing
<1>1. CASE Begin
  BY <1>1 DEF Begin, gateway, world, worker
<1>2. CASE Clear
  BY <1>2 DEF Clear, Go, gateway, world, worker, history
<1>3. CASE Forget
  BY <1>3 DEF Forget, Go, gateway, world, worker, history
<1>4. CASE StartTrader
  BY <1>4 DEF StartTrader, Go, flags, gateway, worker, history
<1>5. CASE ConnectTrader
  BY <1>5 DEF ConnectTrader, FlagsOnConnect, Connect, worker, history, Go, Finish,
     FailedConnect, gateway, Stop, flags
<1>6. CASE Subscribe
  BY <1>6 DEF Subscribe, Go, Finish, flags, world, worker, history
<1>7. CASE Require("healthy", "reconcile") \/ Require("ready", "job")
           \/ Require("recheck", "job")
  BY <1>7 DEF Require, Go, Finish, Healthy, flags, gateway, world, worker, history
<1>8. CASE Reconcile
  BY <1>8 DEF Reconcile, Go, Finish, flags, gateway, world, worker, history
<1>9. CASE Job
  BY <1>9 DEF Job, Go, Finish, Require, flags, gateway, world, worker, history, Healthy
<1>10. CASE Submit
  BY <1>10 DEF Submit, Go, Finish, flags, gateway, world, worker
<1>11. CASE Last
  BY <1>11 DEF Last, Finish, Healthy, flags, gateway, world, worker, history, Go
<1>12. CASE Disarm
  BY <1>12 DEF Disarm, Go, Disable, flags, gateway, worker, history
<1>13. CASE Unsubscribe
  BY <1>13 DEF Unsubscribe, Go, AfterUnsubscribe, flags, gateway, world, worker, history
<1>14. CASE StopTrader
  BY <1>14 DEF StopTrader, Go, Stop, flags, worker, history
<1>15. CASE Leave
  BY <1>15 DEF Leave, Go, gateway, world, worker, history
<1>16. CASE Wipe
  BY <1>16 DEF Wipe, Go, gateway, world, worker, history
<1>17. CASE StopConsumer \/ JoinConsumer \/ Unlock \/ Shutdown
  BY <1>17 DEF StopConsumer, Go, flags, gateway, world, history, JoinConsumer, worker,
     Unlock, Shutdown
<1>18. CASE Interrupt
  BY <1>18 DEF Interrupt, flags, gateway, world, worker, history
<1>19. CASE Take
  BY <1>19 DEF Take, Consume, flags, history, engine, gateway, world
<1>20. CASE Quit
  BY <1>20 DEF Quit, Consume, flags, history, engine, gateway, world
<1>21. CASE Process
  BY <1>21 DEF Process, Consume, PausedBy, AfterProcess, flags, history, Again, engine,
     gateway, world
<1>22. CASE NotifyConnected
  BY <1>22 DEF NotifyConnected, Consume, Again, flags, history, engine, gateway, world
<1>23. CASE NotifyReason
  BY <1>23 DEF NotifyReason, Consume, history, engine, gateway, world
<1>24. CASE NotifyFlag
  BY <1>24 DEF NotifyFlag, Consume, Again, engine, gateway, world
<1>25. CASE Put
  BY <1>25 DEF Put, engine, flags, gateway, history
<1>26. ASSUME NEW s \in Sessions, LoseConnection(s) PROVE ExpectInv'
  BY <1>26 DEF LoseConnection, engine, flags, gateway, worker
<1>27. ASSUME NEW s \in Sessions, OnDisconnected(s) PROVE ExpectInv'
  BY <1>27 DEF OnDisconnected, engine, flags, gateway, worker, history
<1>28. ASSUME NEW s \in Sessions, NEW c \in Kinds, OnCallback(s, c) PROVE ExpectInv'
  BY <1>28 DEF OnCallback, engine, flags, gateway, worker
<1> QED
  BY <1>1, <1>2, <1>3, <1>4, <1>5, <1>6, <1>7, <1>8, <1>9, <1>10, <1>11, <1>12, <1>13,
     <1>14, <1>15, <1>16, <1>17, <1>18, <1>19, <1>20, <1>21, <1>22, <1>23, <1>24, <1>25,
     <1>26, <1>27, <1>28 DEF Next, Engine, Consumer

\* What was a real disconnection remains one.
LEMMA SameReports ==
  ASSUME ReportInv, broken \subseteq broken', UNCHANGED <<landing, event, queue>>
  PROVE  ReportInv'
BY DEF ReportInv, Real

\* An alarm that is due is on its way: in the queue, with the consumer, or in
\* the flags of the engine.
LEMMA ReportStep == AlarmedInv /\ Next => ReportInv'
<1> SUFFICES ASSUME AlarmedInv, Next PROVE ReportInv'
  OBVIOUS
<1>0. /\ ReportInv /\ queue \in Seq(Event) /\ landing \in Event \cup {Nobody}
      /\ due \subseteq expected \cup broken
  BY DEF AlarmedInv, TypeOK, ExpectInv
<1>1. CASE Engine \/ Shutdown \/ Interrupt
  <2>1. UNCHANGED <<landing, event, queue, broken>>
    BY <1>1 DEF Engine, Shutdown, Interrupt, Begin, world, worker, Clear, Go, history,
       Forget, StartTrader, ConnectTrader, Connect, Finish, Subscribe, Require, Reconcile,
       Job, Submit, Last, Disarm, Unsubscribe, StopTrader, Leave, Wipe, StopConsumer,
       JoinConsumer, Unlock
  <2> QED
    BY <1>0, <2>1, SameReports
<1>2. CASE Quit \/ Process \/ NotifyConnected \/ NotifyReason \/ NotifyFlag
  <2>1. UNCHANGED <<landing, event, queue, broken>>
    BY <1>2 DEF Quit, Process, NotifyConnected, NotifyReason, NotifyFlag, Consume, world, history
  <2> QED
    BY <1>0, <2>1, SameReports
<1>3. CASE Take
  <2>1. UNCHANGED <<landing, broken>> /\ queue # <<>> /\ event' = Head(queue) /\ queue' = Tail(queue)
    BY <1>3 DEF Take, Consume, world, history
  <2>2. /\ Head(queue) = queue[1] /\ 1 \in 1 .. Len(queue)
        /\ \A i \in 1 .. Len(queue') : i + 1 \in 1 .. Len(queue) /\ queue'[i] = queue[i + 1]
    BY <1>0, <2>1, HeadTailProperties
  <2> QED
    BY <1>0, <2>1, <2>2 DEF ReportInv, Real
<1>4. CASE Put
  <2>1. /\ UNCHANGED <<event, broken>> /\ landing \in Event
        /\ queue' = Append(queue, landing) /\ landing' = Nobody
    BY <1>0, <1>4 DEF Put, history
  <2>2. \A i \in 1 .. Len(queue') : \/ i \in 1 .. Len(queue) /\ queue'[i] = queue[i]
                                    \/ queue'[i] = landing
    BY <1>0, <2>1, AppendProperties
  <2> QED
    BY <1>0, <2>1, <2>2 DEF ReportInv, Real
<1>5. ASSUME NEW s \in Sessions, LoseConnection(s) PROVE ReportInv'
  <2>1. UNCHANGED <<landing, event, queue>> /\ broken \subseteq broken'
    BY <1>5 DEF LoseConnection, worker
  <2> QED
    BY <1>0, <2>1, SameReports
<1>6. ASSUME NEW s \in Sessions, OnDisconnected(s) PROVE ReportInv'
  <2>1. /\ UNCHANGED <<event, queue, broken>> /\ (s \in expected \/ s \in broken)
        /\ \/ landing' = Nobody
           \/ s \notin expected /\ landing' = [kind |-> "DISCONNECTED", from |-> s]
    BY <1>0, <1>6 DEF OnDisconnected, worker, history
  <2>2. Real(landing)'
    BY <2>1 DEF Real
  <2> QED
    BY <1>0, <2>1, <2>2 DEF ReportInv, Real
<1>7. ASSUME NEW s \in Sessions, NEW c \in Kinds, OnCallback(s, c) PROVE ReportInv'
  <2>1. UNCHANGED <<event, queue, broken>> /\ landing' = [kind |-> c, from |-> s]
    BY <1>7 DEF OnCallback, worker
  <2>2. Real(landing)'
    BY <2>1, EventFacts DEF Real
  <2> QED
    BY <1>0, <2>1, <2>2 DEF ReportInv, Real
<1> QED
  BY <1>1, <1>2, <1>3, <1>4, <1>5, <1>6, <1>7 DEF Next, Consumer

\* An alarm that reached the engine stays until the engine obeys it, and no
\* order is sent after it.
LEMMA AlarmStep == AlarmedInv /\ Next => AlarmInv' /\ OrderInv'
<1> SUFFICES ASSUME AlarmedInv, Next PROVE AlarmInv' /\ OrderInv'
  OBVIOUS
<1>0. /\ TypeOK /\ AlarmInv /\ OrderInv /\ (pc \in Opening \cup Running => session \in Sessions)
  BY DEF AlarmedInv, TraderInv
<1> USE <1>0, SessionAssumption, BoundAssumption
    DEF TypeOK, FlagTypes, AlarmInv, OrderInv, Opening, Running, Closing, Leaving
<1>1. CASE Begin
  BY <1>1 DEF Begin, gateway, world, worker
<1>2. CASE Clear
  BY <1>2 DEF Clear, Go, gateway, world, worker, history
<1>3. CASE Forget
  BY <1>3 DEF Forget, Go, gateway, world, worker, history
<1>4. CASE StartTrader
  BY <1>4 DEF StartTrader, Go, flags, gateway, worker, history
<1>5. CASE ConnectTrader
  BY <1>5 DEF ConnectTrader, FlagsOnConnect, Connect, worker, history, Go, Finish,
     FailedConnect, gateway, Stop, flags
<1>6. CASE Subscribe
  BY <1>6 DEF Subscribe, Go, Finish, flags, world, worker, history
<1>7. CASE Require("healthy", "reconcile") \/ Require("ready", "job")
           \/ Require("recheck", "job")
  BY <1>7 DEF Require, Go, Finish, Healthy, flags, gateway, world, worker, history
<1>8. CASE Reconcile
  BY <1>8 DEF Reconcile, Go, Finish, flags, gateway, world, worker, history
<1>9. CASE Job
  BY <1>9 DEF Job, Go, Finish, Require, flags, gateway, world, worker, history, Healthy
<1>10. CASE Submit
  BY <1>10 DEF Submit, Go, Finish, flags, gateway, world, worker
<1>11. CASE Last
  BY <1>11 DEF Last, Finish, Healthy, flags, gateway, world, worker, history, Go
<1>12. CASE Disarm
  BY <1>12 DEF Disarm, Go, Disable, flags, gateway, worker, history
<1>13. CASE Unsubscribe
  BY <1>13 DEF Unsubscribe, Go, AfterUnsubscribe, flags, gateway, world, worker, history
<1>14. CASE StopTrader
  BY <1>14 DEF StopTrader, Go, Stop, flags, worker, history
<1>15. CASE Leave
  BY <1>15 DEF Leave, Go, gateway, world, worker, history
<1>16. CASE Wipe
  BY <1>16 DEF Wipe, Go, gateway, world, worker, history
<1>17. CASE StopConsumer \/ JoinConsumer \/ Unlock \/ Shutdown
  BY <1>17 DEF StopConsumer, Go, flags, gateway, world, history, JoinConsumer, worker,
     Unlock, Shutdown
<1>18. CASE Interrupt
  BY <1>18 DEF Interrupt, flags, gateway, world, worker, history
<1>19. CASE Take
  BY <1>19 DEF Take, Consume, flags, history, engine, gateway, world
<1>20. CASE Quit
  BY <1>20 DEF Quit, Consume, flags, history, engine, gateway, world
<1>21. CASE Process
  BY <1>21 DEF Process, Consume, PausedBy, AfterProcess, flags, history, Again, engine,
     gateway, world
<1>22. CASE NotifyConnected
  BY <1>22 DEF NotifyConnected, Consume, Again, flags, history, engine, gateway, world
<1>23. CASE NotifyReason
  BY <1>23 DEF NotifyReason, Consume, history, engine, gateway, world
<1>24. CASE NotifyFlag
  BY <1>24 DEF NotifyFlag, Consume, Again, engine, gateway, world
<1>25. CASE Put
  BY <1>25 DEF Put, engine, flags, gateway, history
<1>26. ASSUME NEW s \in Sessions, LoseConnection(s) PROVE AlarmInv' /\ OrderInv'
  BY <1>26 DEF LoseConnection, engine, flags, gateway, worker
<1>27. ASSUME NEW s \in Sessions, OnDisconnected(s) PROVE AlarmInv' /\ OrderInv'
  BY <1>27 DEF OnDisconnected, engine, flags, gateway, worker, history
<1>28. ASSUME NEW s \in Sessions, NEW c \in Kinds, OnCallback(s, c) PROVE AlarmInv' /\ OrderInv'
  BY <1>28 DEF OnCallback, engine, flags, gateway, worker
<1> QED
  BY <1>1, <1>2, <1>3, <1>4, <1>5, <1>6, <1>7, <1>8, <1>9, <1>10, <1>11, <1>12, <1>13,
     <1>14, <1>15, <1>16, <1>17, <1>18, <1>19, <1>20, <1>21, <1>22, <1>23, <1>24, <1>25,
     <1>26, <1>27, <1>28 DEF Next, Engine, Consumer
-----------------------------------------------------------------------------
\* The invariant holds when the process starts.
LEMMA AlarmedInit == Init => AlarmedInv
<1> SUFFICES ASSUME Init PROVE AlarmedInv
  OBVIOUS
<1> USE DEF Init
<1>1. TypeOK
  <2>1. FlagTypes
    BY Zenon DEF FlagTypes
  <2>2. account \in Accounts /\ pc \in Labels
    BY AccountFacts, LabelFacts
  <2>3. queue \in Seq(Event) /\ orders \in 0 .. MaxOrders /\ late \in 0 .. MaxOrders /\ made \in 0 .. MaxEvents
    BY EmptySeq, BoundAssumption
  <2> QED
    BY <2>1, <2>2, <2>3 DEF TypeOK
<1>2. TraderInv /\ ExpectInv
  BY DEF TraderInv, ExpectInv, Loose, Known, Opening, Running, Closing
<1>3. ReportInv
  BY EmptySeq DEF ReportInv, Real
<1>4. AlarmInv /\ OrderInv
  BY DEF AlarmInv, OrderInv, Opening, Running
<1> QED
  BY <1>1, <1>2, <1>3, <1>4 DEF AlarmedInv

\* The invariant is inductive.
LEMMA AlarmedStep == AlarmedInv /\ [Next]_vars => AlarmedInv'
<1> SUFFICES ASSUME AlarmedInv, [Next]_vars PROVE AlarmedInv'
  OBVIOUS
<1>1. CASE Next
  BY <1>1, TypeStep, TraderStep, ExpectStep, ReportStep, AlarmStep DEF AlarmedInv
<1>2. CASE UNCHANGED vars
  BY <1>2 DEF vars, engine, flags, gateway, world, worker, history, AlarmedInv, TypeOK, FlagTypes,
     TraderInv, Loose, ExpectInv, ReportInv, Real, AlarmInv, OrderInv
<1> QED
  BY <1>1, <1>2

\* The invariant implies the property that the run threads checks.
LEMMA Implied == AlarmedInv => SessionInv
<1> SUFFICES ASSUME AlarmedInv PROVE SessionInv
  OBVIOUS
<1>1. TypeOK /\ AlarmStopsTrading
  BY DEF AlarmedInv, OrderInv, AlarmStopsTrading
<1>2. NoStrayTrader
  BY DEF AlarmedInv, TraderInv, Known, NoStrayTrader
<1>3. DisconnectIsReal
  <2>1. DOMAIN queue = 1 .. Len(queue)
    BY LenProperties DEF AlarmedInv, TypeOK
  <2> QED
    BY <2>1 DEF AlarmedInv, ReportInv, Real, DisconnectIsReal
<1>4. AlarmKept /\ AlarmFailsSession
  BY DEF AlarmedInv, AlarmInv, AlarmKept, AlarmFailsSession
<1> QED
  BY <1>1, <1>2, <1>3, <1>4 DEF SessionInv

\* Over any sessions and callbacks: no trader is left running, no disconnection
\* is reported that the engine asked for, an alarm stays up until its session is
\* over, lets at most one more order out and fails the session.
THEOREM SessionsSafe == Spec => []SessionInv
BY AlarmedInit, AlarmedStep, Implied, PTL DEF Spec
-----------------------------------------------------------------------------
(* The row locks.  What a connection holds and knows, by its transaction.    *)

Base      == {Account, Strategy} \cup {Intent(o) : o \in Orders}
XLock(row)   == [mode |-> "X", row |-> row]
SLock(row)   == [mode |-> "S", row |-> row]
GapLock(row) == [mode |-> "gap", row |-> row]
Worth(T)  == Total(Amount, T)
Fresh(c)  == {t \in Trades : Trade(t) \in fresh[c]}
Booked    == {t \in Trades : Trade(t) \in rows}
Owns(c)   == XLock(Strategy) \in held[c]

Request ==
  [kind : {"probe", "write", "plain", "nested"}, row : Rows] \cup [kind : {"share"}, row : {Account, Strategy}]
    \cup [kind : {"pay"}, row : {Strategy}, trade : Trades]

\* What is left of a transaction, request by request.
Sync1     == Tail(SyncAccount)
Sync2     == Tail(Sync1)
Sync3     == Tail(Sync2)
Step1     == Tail(StartStep)
Bind1(o)  == Tail(BindOrder(o))
Bind2(o)  == Tail(Bind1(o))
Rest1(t) == Tail(BookTrade(t))
Rest2(t) == Tail(Rest1(t))
Rest3(t) == Tail(Rest2(t))
Rest4(t) == Tail(Rest3(t))
Rest5(t) == Tail(Rest4(t))
Rest6(t) == Tail(Rest5(t))

\* The cash a transaction will write is that of the table and of its own trades.
Settled(c) ==
  /\ Fresh(c) \cap Booked = {}
  /\ IF newCash[c] = {} THEN Fresh(c) = {} ELSE Owns(c) /\ newCash[c] = {cash + Worth(Fresh(c))}

\* Orders before intents, and the strategy before trades, positions, account.
Keeps(c) ==
  /\ \A l \in held[c] : l.mode # "S"
  /\ (\E l \in held[c] : l.row[1] \notin {"order", "intent"}) => Owns(c)
  /\ \A o \in Orders : XLock(Intent(o)) \in held[c] => XLock(Order(o)) \in held[c]

BindStage(c, o) ==
  \/ todo[c] = BindOrder(o)
  \/ todo[c] = Bind1(o)
  \/ todo[c] = Bind2(o) /\ XLock(Order(o)) \in held[c]

BookStage(c, t) ==
  \/ todo[c] = BookTrade(t) /\ Settled(c)
  \/ /\ Owns(c) /\ Settled(c) /\ readCash[c] = cash + Worth(Fresh(c))
     /\ \/ todo[c] = Rest1(t)
        \/ t \notin Booked \cup Fresh(c) /\ todo[c] \in {Rest2(t), Rest3(t)}
  \/ /\ Owns(c) /\ Fresh(c) \cap Booked = {} /\ t \notin Booked \cup Fresh(c)
     /\ newCash[c] = {cash + Amount[t] + Worth(Fresh(c))}
     /\ todo[c] \in {Rest4(t), Rest5(t)}
  \/ Owns(c) /\ Settled(c) /\ t \in Breaching /\ todo[c] = Rest6(t)

Simple(c) == ahead[c] = Nothing /\ fresh[c] = {} /\ newCash[c] = {}

Resting(c) == op[c] = "none" /\ Simple(c) /\ todo[c] = <<>> /\ held[c] = {}
Syncing(c) ==
  /\ op[c] = "sync" /\ Simple(c)
  /\ \/ todo[c] = SyncAccount /\ held[c] = {}
     \/ todo[c] \in {Sync1, Sync2} /\ held[c] = {XLock(Account)}
     \/ todo[c] \in {Sync3, <<>>} /\ held[c] = {XLock(Account), XLock(Strategy)}
Stepping(c) ==
  /\ op[c] = "step" /\ Simple(c)
  /\ \/ todo[c] = StartStep /\ held[c] = {}
     \/ todo[c] = Step1 /\ held[c] = {SLock(Account)}
     \/ todo[c] = <<>> /\ held[c] = {SLock(Account), SLock(Strategy)}
Settling(c) ==
  /\ op[c] = "settle" /\ Simple(c)
  /\ \/ todo[c] = SettlePositions /\ held[c] = {}
     \/ todo[c] = <<>> /\ held[c] \in {{XLock(Position)}, {GapLock(Position)}}
Pausing(c) ==
  /\ op[c] = "pause" /\ Simple(c)
  /\ \/ todo[c] = PauseAccount /\ held[c] = {}
     \/ todo[c] = <<>> /\ held[c] = {XLock(Account)}
Telling(c) == op[c] = "unknown" /\ Simple(c) /\ held[c] = {} /\ todo[c] \in {UnknownReport, <<>>}
Ordering(c) ==
  /\ op[c] = "order" /\ Keeps(c) /\ ahead[c] = Nothing /\ newCash[c] = {} /\ Fresh(c) = {}
  /\ todo[c] # <<>> =>
       \E o \in Orders : /\ BindStage(c, o) /\ held[c] \subseteq {XLock(Order(o)), GapLock(Order(o))}
                         /\ todo[c] = BindOrder(o) => held[c] = {}
Trading(c) ==
  /\ op[c] = "trade" /\ Keeps(c) /\ ahead[c] = Nothing
  /\ IF todo[c] = <<>> THEN Settled(c)
     ELSE \E t \in Trades : /\ BookStage(c, t) /\ (todo[c] = BookTrade(t) => held[c] = {})
                            /\ \A l \in held[c] : l.row # Account
Reconciling(c) ==
  /\ op[c] = "reconcile" /\ Keeps(c)
  /\ \/ todo[c] = <<>> /\ Settled(c)
     \/ \E o \in Orders : BindStage(c, o) /\ Settled(c)
     \/ \E t \in Trades : BookStage(c, t)

Fine(c) == \/ Resting(c) \/ Syncing(c) \/ Stepping(c) \/ Settling(c) \/ Pausing(c) \/ Telling(c)
           \/ Ordering(c) \/ Trading(c) \/ Reconciling(c)

LockTypes ==
  /\ rows \subseteq Rows /\ Base \subseteq rows /\ cash \in Int
  /\ op \in [Connections -> {"none", "sync", "step", "settle", "pause", "reconcile", "order", "unknown", "trade"}]
  /\ todo \in [Connections -> Seq(Request)]
  /\ ahead \in [Connections -> [orders : SUBSET Orders, trades : SUBSET Trades]]
  /\ held \in [Connections -> SUBSET Locks] /\ fresh \in [Connections -> SUBSET Rows]
  /\ readCash \in [Connections -> Int] /\ newCash \in [Connections -> SUBSET Int]

\* Who does what: only the engine reconciles, and the second connection works
\* while the report that opened it waits.
Roles ==
  /\ op["engine"] \notin {"unknown", "trade"} /\ op["second"] \in {"none", "pause"}
  /\ op["consumer"] \in {"none", "unknown", "order", "trade"}
  /\ op["second"] # "none" => op["consumer"] = "unknown" /\ todo["consumer"] = UnknownReport

\* The lock table: exclusive locks exclude, a locked row is there or is being
\* inserted by the one who locks it.
Exclusive ==
  \A c \in Connections, d \in Connections, row \in Rows :
    c # d /\ XLock(row) \in held[c] => XLock(row) \notin held[d] /\ SLock(row) \notin held[d]
Backed ==
  \A c \in Connections, row \in Rows :
    /\ XLock(row) \in held[c] => row \in rows \cup fresh[c]
    /\ row \in fresh[c] => XLock(row) \in held[c]
    /\ SLock(row) \in held[c] => row \in {Account, Strategy}

TransactionsInv ==
  /\ LockTypes /\ Roles /\ Exclusive /\ Backed
  /\ \A c \in Connections : Fine(c)
  /\ cash = Worth(Booked)

-----------------------------------------------------------------------------
(* Requests and rows.                                                      *)

\* Rows of different tables, and of different keys, are different.
LEMMA RowFacts ==
  /\ {Account, Strategy, Position} \subseteq Rows
  /\ \A o \in Orders : Order(o) \in Rows /\ Intent(o) \in Rows
  /\ \A t \in Trades : Trade(t) \in Rows
  /\ Account[1] = "account" /\ Strategy[1] = "strategy" /\ Position[1] = "position"
  /\ \A n : Order(n)[1] = "order" /\ Intent(n)[1] = "intent" /\ Trade(n)[1] = "trade"
  /\ \A m, n : Order(m) = Order(n) \/ Intent(m) = Intent(n) \/ Trade(m) = Trade(n) => m = n
<1>1. \A m, n : Order(m) = Order(n) \/ Intent(m) = Intent(n) \/ Trade(m) = Trade(n) => m = n
  BY DEF Order, Intent, Trade
<1>2. /\ Account[1] = "account" /\ Strategy[1] = "strategy" /\ Position[1] = "position"
      /\ \A n : Order(n)[1] = "order" /\ Intent(n)[1] = "intent" /\ Trade(n)[1] = "trade"
  BY DEF Account, Strategy, Position, Order, Intent, Trade
<1>3. /\ {Account, Strategy, Position} \subseteq Rows
      /\ \A o \in Orders : Order(o) \in Rows /\ Intent(o) \in Rows
      /\ \A t \in Trades : Trade(t) \in Rows
  BY Zenon DEF Rows
<1> QED
  BY <1>1, <1>2, <1>3

\* The requests are of six kinds, each with its row.
LEMMA RequestFacts ==
  /\ \A row \in Rows : {Probe(row), Write(row), Plain(row)} \subseteq Request
  /\ {Share(Account), Share(Strategy), Nested} \subseteq Request
  /\ \A t \in Trades : Pay(t) \in Request
  /\ \A row : /\ Probe(row).kind = "probe" /\ Probe(row).row = row
              /\ Write(row).kind = "write" /\ Write(row).row = row
              /\ Plain(row).kind = "plain" /\ Plain(row).row = row
              /\ Share(row).kind = "share" /\ Share(row).row = row
  /\ \A t : Pay(t).kind = "pay" /\ Pay(t).row = Strategy /\ Pay(t).trade = t
  /\ Nested.kind = "nested" /\ Nested.row = Account
  /\ \A r \in Request :
       /\ r.kind \in {"probe", "write", "plain", "nested", "share", "pay"} /\ r.row \in Rows
       /\ r.kind = "share" => r.row \in {Account, Strategy}
       /\ r.kind = "pay" => r.row = Strategy /\ r.trade \in Trades
<1> USE RowFacts DEF Request, Probe, Write, Plain, Share, Pay, Nested, Ask
<1>1. /\ \A row \in Rows : {Probe(row), Write(row), Plain(row)} \subseteq Request
      /\ {Share(Account), Share(Strategy), Nested} \subseteq Request
  OBVIOUS
<1>2. \A t \in Trades : Pay(t) \in Request
  OBVIOUS
<1>3. /\ \A row : /\ Probe(row).kind = "probe" /\ Probe(row).row = row
                  /\ Write(row).kind = "write" /\ Write(row).row = row
                  /\ Plain(row).kind = "plain" /\ Plain(row).row = row
                  /\ Share(row).kind = "share" /\ Share(row).row = row
      /\ \A t : Pay(t).kind = "pay" /\ Pay(t).row = Strategy /\ Pay(t).trade = t
      /\ Nested.kind = "nested" /\ Nested.row = Account
  OBVIOUS
<1>4. \A r \in Request :
       /\ r.kind \in {"probe", "write", "plain", "nested", "share", "pay"} /\ r.row \in Rows
       /\ r.kind = "share" => r.row \in {Account, Strategy}
       /\ r.kind = "pay" => r.row = Strategy /\ r.trade \in Trades
  OBVIOUS
<1> QED
  BY <1>1, <1>2, <1>3, <1>4

\* What the engine's transactions ask for, request by request.
LEMMA EngineRequests ==
  /\ {SyncAccount, Sync1, Sync2, Sync3, StartStep, Step1, SettlePositions, PauseAccount,
      UnknownReport} \subseteq Seq(Request) \ {<<>>}
  /\ Head(SyncAccount) = Probe(Account) /\ Head(Sync1) = Write(Account)
  /\ Head(Sync2) = Probe(Strategy) /\ Head(Sync3) = Write(Strategy) /\ Tail(Sync3) = <<>>
  /\ Head(StartStep) = Share(Account) /\ Head(Step1) = Share(Strategy) /\ Tail(Step1) = <<>>
  /\ Head(SettlePositions) = Probe(Position) /\ Tail(SettlePositions) = <<>>
  /\ Head(PauseAccount) = Write(Account) /\ Tail(PauseAccount) = <<>>
  /\ Head(UnknownReport) = Nested /\ Tail(UnknownReport) = <<>>
<1>1. \A row \in Rows : Probe(row) \in Request /\ Write(row) \in Request
  BY RequestFacts
<1>2. Share(Account) \in Request /\ Share(Strategy) \in Request /\ Nested \in Request
  BY RequestFacts
<1>3. Account \in Rows /\ Strategy \in Rows /\ Position \in Rows
  BY RowFacts
<1> USE <1>1, <1>2, <1>3
<1>4. /\ {SyncAccount, Sync1, Sync2, Sync3} \subseteq Seq(Request) \ {<<>>}
      /\ Head(SyncAccount) = Probe(Account) /\ Head(Sync1) = Write(Account)
      /\ Head(Sync2) = Probe(Strategy) /\ Head(Sync3) = Write(Strategy) /\ Tail(Sync3) = <<>>
  BY DEF SyncAccount, Sync1, Sync2, Sync3
<1>5. /\ {StartStep, Step1} \subseteq Seq(Request) \ {<<>>}
      /\ Head(StartStep) = Share(Account) /\ Head(Step1) = Share(Strategy) /\ Tail(Step1) = <<>>
  BY DEF StartStep, Step1
<1>6. /\ {SettlePositions, PauseAccount, UnknownReport} \subseteq Seq(Request) \ {<<>>}
      /\ Head(SettlePositions) = Probe(Position) /\ Tail(SettlePositions) = <<>>
      /\ Head(PauseAccount) = Write(Account) /\ Tail(PauseAccount) = <<>>
      /\ Head(UnknownReport) = Nested /\ Tail(UnknownReport) = <<>>
  BY DEF SettlePositions, PauseAccount, UnknownReport
<1> QED
  BY <1>4, <1>5, <1>6

\* What the binding of an order asks for.
LEMMA BindRequests ==
  ASSUME NEW o \in Orders
  PROVE  /\ {BindOrder(o), Bind1(o), Bind2(o)} \subseteq Seq(Request) \ {<<>>}
         /\ Head(BindOrder(o)) = Probe(Order(o)) /\ Head(Bind1(o)) = Write(Order(o))
         /\ Head(Bind2(o)) = Write(Intent(o)) /\ Tail(Bind2(o)) = <<>>
<1>1. /\ Probe(Order(o)) \in Request /\ Write(Order(o)) \in Request
      /\ Write(Intent(o)) \in Request
  BY RowFacts, RequestFacts
<1> QED
  BY <1>1 DEF BindOrder, Bind1, Bind2

\* A request more at the end of six.
LEMMA SixAndOne ==
  ASSUME NEW a, NEW b, NEW c, NEW d, NEW e, NEW f, NEW g
  PROVE  Append(<<a, b, c, d, e, f>>, g) = <<a, b, c, d, e, f, g>>
<1> DEFINE six == <<a, b, c, d, e, f>>
           longer == Append(six, g)
           seven == <<a, b, c, d, e, f, g>>
           V == {a, b, c, d, e, f, g}
<1>1. six \in Seq(V) /\ g \in V /\ seven \in Seq(V) /\ Len(six) = 6 /\ Len(seven) = 7
  OBVIOUS
<1>2. longer \in Seq(V) /\ Len(longer) = 7 /\ \A i \in 1 .. 6 : longer[i] = six[i]
  BY <1>1, AppendProperties
<1>3. longer[7] = g
  BY <1>1, AppendProperties
<1>4. \A i \in 1 .. 7 : longer[i] = seven[i]
  <2>1. six[1] = a /\ six[2] = b /\ six[3] = c /\ six[4] = d /\ six[5] = e /\ six[6] = f
    OBVIOUS
  <2>2. /\ seven[1] = a /\ seven[2] = b /\ seven[3] = c /\ seven[4] = d /\ seven[5] = e
        /\ seven[6] = f /\ seven[7] = g
    OBVIOUS
  <2> HIDE DEF longer, seven, six
  <2> QED
    BY <1>2, <1>3, <2>1, <2>2
<1> HIDE DEF longer, seven, six, V
<1>5. longer = seven
  BY <1>1, <1>2, <1>4, SeqEqual
<1> QED
  BY <1>5 DEF longer, seven, six

\* What the booking of a trade asks for.
LEMMA BookRequests ==
  ASSUME NEW t \in Trades
  PROVE  /\ {BookTrade(t), Rest1(t), Rest2(t), Rest3(t), Rest4(t), Rest5(t)} \subseteq Seq(Request) \ {<<>>}
         /\ Head(BookTrade(t)) = Probe(Strategy) /\ Head(Rest1(t)) = Probe(Trade(t))
         /\ Head(Rest2(t)) = Probe(Position) /\ Head(Rest3(t)) = Pay(t)
         /\ Head(Rest4(t)) = Write(Position) /\ Head(Rest5(t)) = Write(Trade(t))
         /\ t \in Breaching => /\ Rest6(t) \in Seq(Request) \ {<<>>}
                               /\ Head(Rest6(t)) = Write(Account) /\ Tail(Rest6(t)) = <<>>
         /\ t \notin Breaching => Rest6(t) = <<>>
<1> USE DEF Rest1, Rest2, Rest3, Rest4, Rest5, Rest6
<1>1. PICK a, b, c, d, e, f, g :
        /\ a = Probe(Strategy) /\ b = Probe(Trade(t)) /\ c = Probe(Position) /\ d = Pay(t)
        /\ e = Write(Position) /\ f = Write(Trade(t)) /\ g = Write(Account)
  OBVIOUS
<1>2. {a, b, c, d, e, f, g} \subseteq Request
  BY <1>1, RowFacts, RequestFacts
<1>3. CASE t \in Breaching
  <2>1. BookTrade(t) = <<a, b, c, d, e, f, g>>
    <3>1. Booking(t) = <<a, b, c, d, e, f>>
      BY <1>1 DEF Booking, StrategyRead
    <3> QED
      BY <1>1, <1>3, <3>1, SixAndOne DEF BookTrade
  <2> QED
    BY <1>1, <1>2, <1>3, <2>1
<1>4. CASE t \notin Breaching
  <2>1. BookTrade(t) = <<a, b, c, d, e, f>>
    BY <1>1, <1>4 DEF BookTrade, Booking, StrategyRead
  <2> QED
    BY <1>1, <1>2, <1>4, <2>1
<1> QED
  BY <1>3, <1>4

-----------------------------------------------------------------------------
(* What a step does.                                                       *)

Asks(c) == Head(todo[c])

\* The locks that a granted request brings.
Brought(r) ==
  IF r.kind \in {"plain", "nested"} THEN {}
  ELSE IF r.kind = "share" THEN {SLock(r.row)}
  ELSE IF r.kind = "probe" /\ ~Present(r.row) THEN {GapLock(r.row)}
  ELSE {XLock(r.row)}

\* The private state of a connection.
Own(c) == <<op[c], todo[c], ahead[c], held[c], fresh[c], readCash[c], newCash[c]>>

\* A granted request changes the transaction it belongs to, and nothing else.
LEMMA Grants ==
  ASSUME LockTypes, NEW c \in Connections, Granted(c)
  PROVE  /\ todo[c] # <<>> /\ Asks(c) \in Request /\ Asks(c).kind # "nested" /\ Blockers(c) = {}
         /\ \A d \in Connections : d # c => Own(d)' = Own(d)
         /\ rows' = rows /\ cash' = cash /\ op' = op /\ ahead' = ahead
         /\ held'[c] = held[c] \cup Brought(Asks(c))
         /\ todo'[c] = AfterRequest(c, Asks(c)) /\ todo'[c] \in {<<>>, Tail(todo[c])}
         /\ IF Asks(c).kind = "write" /\ ~Present(Asks(c).row)
            THEN fresh'[c] = fresh[c] \cup {Asks(c).row} ELSE fresh'[c] = fresh[c]
         /\ IF Asks(c).kind = "pay"
            THEN newCash'[c] = {readCash[c] + Amount[Asks(c).trade]} ELSE newCash'[c] = newCash[c]
         /\ IF Asks(c).row = Strategy /\ Asks(c).kind \in {"plain", "probe"}
            THEN /\ newCash[c] = {} => readCash'[c] = cash
                 /\ newCash[c] # {} => readCash'[c] \in newCash[c]
            ELSE readCash'[c] = readCash[c]
         /\ LockTypes'
<1>1. PICK r : r = Head(todo[c])
  OBVIOUS
<1>2. /\ todo[c] # <<>> /\ Blockers(c) = {} /\ r.kind # "nested" /\ Effect(c, r)
      /\ todo' = [todo EXCEPT ![c] = AfterRequest(c, r)]
      /\ UNCHANGED <<rows, cash, op, ahead>>
  BY <1>1 DEF Granted
<1>3. todo[c] \in Seq(Request) /\ todo \in [Connections -> Seq(Request)]
  BY DEF LockTypes
<1>4. r \in Request /\ Tail(todo[c]) \in Seq(Request) /\ <<>> \in Seq(Request)
  BY <1>1, <1>2, <1>3
<1>5. todo'[c] = AfterRequest(c, r) /\ todo'[c] \in {<<>>, Tail(todo[c])}
  BY <1>2, <1>3 DEF AfterRequest
<1>6. r.row \in Rows /\ (r.kind = "pay" => r.trade \in Trades)
  BY <1>4, RequestFacts
<1>7. /\ held' = [held EXCEPT ![c] = held[c] \cup Brought(r)]
      /\ Brought(r) \subseteq Locks
  BY <1>2, <1>6 DEF Effect, Lock, Brought, XLock, SLock, GapLock, Locks, LockTypes
<1>8. /\ fresh' = [fresh EXCEPT ![c] = IF r.kind = "write" /\ ~Present(r.row)
                                       THEN fresh[c] \cup {r.row} ELSE fresh[c]]
      /\ newCash' = [newCash EXCEPT ![c] = IF r.kind = "pay" THEN {readCash[c] + Amount[r.trade]}
                                           ELSE newCash[c]]
  BY <1>2 DEF Effect, LockTypes
<1>9. PICK v : /\ readCash' = [readCash EXCEPT ![c] = v]
               /\ IF r.row = Strategy /\ r.kind \in {"plain", "probe"}
                  THEN (newCash[c] = {} => v = cash) /\ (newCash[c] # {} => v \in newCash[c])
                  ELSE v = readCash[c]
  BY <1>2 DEF Effect, LockTypes
<1>10. v \in Int /\ newCash[c] \subseteq Int
  BY <1>9 DEF LockTypes
<1>11. r.kind = "pay" => readCash[c] + Amount[r.trade] \in Int
  <2>1. readCash[c] \in Int
    BY DEF LockTypes
  <2>2. r.kind = "pay" => Amount[r.trade] \in Int
    BY <1>6, TradeAssumption
  <2> QED
    BY <2>1, <2>2
<1>12. LockTypes'
  <2>1. todo' \in [Connections -> Seq(Request)]
    BY <1>2, <1>3, <1>4 DEF AfterRequest
  <2>2. held' \in [Connections -> SUBSET Locks]
    BY <1>7 DEF LockTypes
  <2>3. fresh' \in [Connections -> SUBSET Rows]
    BY <1>6, <1>8 DEF LockTypes
  <2>4. newCash' \in [Connections -> SUBSET Int] /\ readCash' \in [Connections -> Int]
    BY <1>8, <1>9, <1>10, <1>11 DEF LockTypes
  <2> QED
    BY <1>2, <2>1, <2>2, <2>3, <2>4 DEF LockTypes
<1>13. \A d \in Connections : d # c => Own(d)' = Own(d)
  BY <1>2, <1>7, <1>8, <1>9 DEF Own, LockTypes
<1>14. held'[c] = held[c] \cup Brought(r)
  BY <1>7 DEF LockTypes
<1>15. /\ IF r.kind = "write" /\ ~Present(r.row)
          THEN fresh'[c] = fresh[c] \cup {r.row} ELSE fresh'[c] = fresh[c]
       /\ IF r.kind = "pay"
          THEN newCash'[c] = {readCash[c] + Amount[r.trade]} ELSE newCash'[c] = newCash[c]
       /\ readCash'[c] = v
  BY <1>8, <1>9 DEF LockTypes
<1> QED
  BY <1>1, <1>2, <1>4, <1>5, <1>9, <1>12, <1>13, <1>14, <1>15 DEF Asks

\* What one connection does leaves the others as they were, if it does not
\* change the cash of those who hold it.
LEMMA Elsewhere ==
  ASSUME NEW c \in Connections, Fine(c), Own(c)' = Own(c), rows \subseteq rows',
         (cash' = cash /\ Booked' = Booked) \/ ~Owns(c)
  PROVE  Fine(c)'
<1>1. /\ op'[c] = op[c] /\ todo'[c] = todo[c] /\ ahead'[c] = ahead[c] /\ held'[c] = held[c]
      /\ fresh'[c] = fresh[c] /\ readCash'[c] = readCash[c] /\ newCash'[c] = newCash[c]
  BY DEF Own
<1>2. CASE Resting(c) \/ Syncing(c) \/ Stepping(c) \/ Settling(c) \/ Pausing(c) \/ Telling(c)
  <2>1. (Resting(c) \/ Syncing(c) \/ Stepping(c) \/ Settling(c) \/ Pausing(c) \/ Telling(c))'
    BY <1>1, <1>2 DEF Resting, Syncing, Stepping, Settling, Pausing, Telling, Simple
  <2> QED
    BY <2>1 DEF Fine
<1>3. /\ Fresh(c)' = Fresh(c) /\ Owns(c)' = Owns(c) /\ Keeps(c)' = Keeps(c)
      /\ \A o \in Orders : BindStage(c, o)' = BindStage(c, o)
  BY <1>1 DEF Fresh, Owns, Keeps, BindStage
<1>4. Settled(c) => Settled(c)'
  BY <1>1, <1>3 DEF Settled
<1>5. ASSUME NEW t \in Trades, BookStage(c, t)
      PROVE  BookStage(c, t)'
  BY <1>1, <1>3, <1>4, <1>5 DEF BookStage
<1>6. CASE Ordering(c)
  <2>1. Ordering(c)'
    BY <1>1, <1>3, <1>6 DEF Ordering
  <2> QED
    BY <2>1 DEF Fine
<1>7. CASE Trading(c)
  <2>1. Trading(c)'
    BY <1>1, <1>3, <1>4, <1>5, <1>7 DEF Trading
  <2> QED
    BY <2>1 DEF Fine
<1>8. CASE Reconciling(c)
  <2>1. Reconciling(c)'
    BY <1>1, <1>3, <1>4, <1>5, <1>8 DEF Reconciling
  <2> QED
    BY <2>1 DEF Fine
<1> QED
  BY <1>2, <1>6, <1>7, <1>8 DEF Fine

\* A lock that is granted is held by nobody else, and is that of a row which
\* is there or which its holder inserts.
LEMMA GrantsExclude ==
  ASSUME TransactionsInv, NEW c \in Connections, Granted(c)
  PROVE  Exclusive' /\ Backed'
<1>1. PICK r : r = Asks(c)
  OBVIOUS
<1>2. /\ r \in Request /\ todo[c] # <<>> /\ Blockers(c) = {}
      /\ \A d \in Connections : d # c => held'[d] = held[d] /\ fresh'[d] = fresh[d]
      /\ rows' = rows /\ held'[c] = held[c] \cup Brought(r)
      /\ IF r.kind = "write" /\ ~Present(r.row)
         THEN fresh'[c] = fresh[c] \cup {r.row} ELSE fresh'[c] = fresh[c]
  BY <1>1, Grants DEF Own, TransactionsInv
<1>3. /\ r.kind \in {"probe", "write", "plain", "nested", "share", "pay"} /\ r.row \in Rows
      /\ r.kind = "share" => r.row \in {Account, Strategy}
      /\ r.kind = "pay" => r.row = Strategy
  BY <1>2, RequestFacts
<1>4. Exclusive /\ Backed /\ Account \in rows /\ Strategy \in rows
  BY DEF TransactionsInv, LockTypes, Base
\* A row that is not there is locked by nobody, and what an inserter holds is
\* its own.
<1>5. \A row \in Rows : ~Present(row) =>
        \A d \in Connections : XLock(row) \notin held[d] /\ SLock(row) \notin held[d]
  BY <1>4 DEF Backed, Present
<1>6. ASSUME NEW d \in Connections, d # c, XLock(r.row) \in Brought(r)
      PROVE  XLock(r.row) \notin held[d] /\ SLock(r.row) \notin held[d]
  <2>1. r.kind \in {"probe", "write", "pay"} /\ (r.kind = "probe" => Present(r.row))
    BY <1>3, <1>6 DEF Brought, XLock, SLock, GapLock
  <2>2. CASE r.kind = "write" /\ ~Present(r.row)
    BY <1>3, <1>5, <2>2
  <2>3. CASE ~(r.kind = "write" /\ ~Present(r.row))
    <3>1. Blockers(c) = {e \in Others(c) : Holds(e, "X", r.row) \/ Holds(e, "S", r.row)}
      BY <1>1, <1>2, <2>1, <2>3 DEF Blockers, Asks
    <3>2. d \in Others(c)
      BY <1>6 DEF Others
    <3> QED
      BY <1>2, <3>1, <3>2 DEF Holds, XLock, SLock
  <2> QED
    BY <2>2, <2>3
<1>7. ASSUME NEW d \in Connections, d # c, SLock(r.row) \in Brought(r)
      PROVE  XLock(r.row) \notin held[d]
  <2>1. r.kind = "share"
    BY <1>3, <1>7 DEF Brought, XLock, SLock, GapLock
  <2>2. Blockers(c) = {e \in Others(c) : Holds(e, "X", r.row)}
    BY <1>1, <1>2, <2>1 DEF Blockers, Asks
  <2>3. d \in Others(c)
    BY <1>7 DEF Others
  <2> QED
    BY <1>2, <2>2, <2>3 DEF Holds, XLock
<1>8. \A row \in Rows : /\ XLock(row) \in Brought(r) => row = r.row
                        /\ SLock(row) \in Brought(r) => row = r.row /\ r.kind = "share"
  BY <1>3 DEF Brought, XLock, SLock, GapLock
<1>9. Exclusive'
  <2> SUFFICES ASSUME NEW d \in Connections, NEW e \in Connections, NEW row \in Rows,
                      d # e, XLock(row) \in held'[d]
               PROVE  XLock(row) \notin held'[e] /\ SLock(row) \notin held'[e]
    BY DEF Exclusive, XLock, SLock
  <2>1. CASE d = c
    <3>1. held'[e] = held[e]
      BY <1>2, <2>1
    <3> QED
      BY <1>2, <1>4, <1>6, <1>8, <2>1, <3>1 DEF Exclusive
  <2>2. CASE e = c
    <3>1. held'[d] = held[d]
      BY <1>2, <2>2
    <3> QED
      BY <1>2, <1>4, <1>6, <1>7, <1>8, <2>2, <3>1 DEF Exclusive
  <2>3. CASE d # c /\ e # c
    BY <1>2, <1>4, <2>3 DEF Exclusive
  <2> QED
    BY <2>1, <2>2, <2>3
<1>10. Backed'
  <2> SUFFICES ASSUME NEW d \in Connections, NEW row \in Rows
               PROVE  /\ XLock(row) \in held'[d] => row \in rows' \cup fresh'[d]
                      /\ row \in fresh'[d] => XLock(row) \in held'[d]
                      /\ SLock(row) \in held'[d] => row \in {Account, Strategy}
    BY DEF Backed, XLock, SLock
  <2>1. CASE d # c
    BY <1>2, <1>4, <2>1 DEF Backed
  <2>2. CASE d = c
    <3>1. fresh[c] \subseteq fresh'[c] /\ held[c] \subseteq held'[c]
      BY <1>2
    <3>2. ASSUME XLock(row) \in Brought(r) PROVE row \in rows \cup fresh'[c]
      <4>1. row = r.row
        BY <1>8, <3>2
      <4>2. \A e \in Connections : e # c => row \notin fresh[e]
        BY <1>4, <1>6, <3>2, <4>1 DEF Backed
      <4>3. CASE Present(row)
        BY <3>1, <4>2, <4>3 DEF Present
      <4>4. CASE ~Present(row)
        <5>1. r.kind \in {"write", "pay"}
          BY <1>3, <3>2, <4>1, <4>4 DEF Brought, XLock, SLock, GapLock
        <5>2. r.kind # "pay"
          BY <1>3, <1>4, <4>1, <4>4 DEF Present
        <5> QED
          BY <1>2, <4>1, <4>4, <5>1, <5>2
      <4> QED
        BY <4>3, <4>4
    <3>3. ASSUME row \in fresh'[c], row \notin fresh[c] PROVE XLock(row) \in Brought(r)
      <4>1. r.kind = "write" /\ row = r.row
        BY <1>2, <3>3
      <4> QED
        BY <4>1 DEF Brought
    <3>4. SLock(row) \in Brought(r) => row \in {Account, Strategy}
      BY <1>3, <1>8
    <3> QED
      BY <1>2, <1>4, <2>2, <3>1, <3>2, <3>3, <3>4 DEF Backed
  <2> QED
    BY <2>1, <2>2
<1> QED
  BY <1>9, <1>10

\* The rows that are there from the start.
LEMMA BaseRows ==
  ASSUME LockTypes
  PROVE  Present(Account) /\ Present(Strategy) /\ \A o \in Orders : Present(Intent(o))
BY DEF LockTypes, Base, Present

\* The transactions of the engine that insert nothing.
LEMMA SimpleGrants ==
  ASSUME TransactionsInv, NEW c \in Connections, Granted(c),
         Resting(c) \/ Syncing(c) \/ Stepping(c) \/ Settling(c) \/ Pausing(c) \/ Telling(c)
  PROVE  Fine(c)'
<1>1. PICK r : r = Asks(c)
  OBVIOUS
<1>2. /\ r = Head(todo[c]) /\ r \in Request /\ todo[c] # <<>> /\ r.kind # "nested"
      /\ op' = op /\ ahead' = ahead /\ held'[c] = held[c] \cup Brought(r)
      /\ todo'[c] = AfterRequest(c, r)
      /\ (r.kind # "write" \/ Present(r.row)) => fresh'[c] = fresh[c]
      /\ r.kind # "pay" => newCash'[c] = newCash[c]
  BY <1>1, Grants DEF Asks, TransactionsInv
<1>3. Present(Account) /\ Present(Strategy)
  BY BaseRows DEF TransactionsInv
<1>4. /\ Account[1] # "trade" /\ Strategy[1] # "trade" /\ Position[1] # "trade"
  BY RowFacts
<1>5. ASSUME Simple(c), r.kind \in {"probe", "write", "share"}, r.row \in {Account, Strategy, Position},
             r.kind = "write" => r.row \in {Account, Strategy}
      PROVE  Simple(c)' /\ todo'[c] = Tail(todo[c])
  BY <1>2, <1>3, <1>4, <1>5 DEF Simple, AfterRequest
<1>6. CASE Resting(c) \/ Telling(c)
  BY <1>2, <1>6, EngineRequests, RequestFacts DEF Resting, Telling
<1>7. CASE Syncing(c)
  <2>1. CASE todo[c] = SyncAccount /\ held[c] = {}
    <3>1. r.kind = "probe" /\ r.row = Account
      BY <1>2, <2>1, EngineRequests, RequestFacts
    <3>2. held'[c] = {XLock(Account)} /\ todo'[c] = Sync1 /\ Simple(c)'
      BY <1>2, <1>3, <1>5, <1>7, <2>1, <3>1 DEF Brought, Sync1, Syncing
    <3> QED
      BY <1>2, <1>7, <3>2 DEF Fine, Syncing
  <2>2. CASE todo[c] = Sync1 /\ held[c] = {XLock(Account)}
    <3>1. r.kind = "write" /\ r.row = Account
      BY <1>2, <2>2, EngineRequests, RequestFacts
    <3>2. held'[c] = {XLock(Account)} /\ todo'[c] = Sync2 /\ Simple(c)'
      BY <1>2, <1>3, <1>5, <1>7, <2>2, <3>1 DEF Brought, Sync2, Syncing
    <3> QED
      BY <1>2, <1>7, <3>2 DEF Fine, Syncing
  <2>3. CASE todo[c] = Sync2 /\ held[c] = {XLock(Account)}
    <3>1. r.kind = "probe" /\ r.row = Strategy
      BY <1>2, <2>3, EngineRequests, RequestFacts
    <3>2. /\ held'[c] = {XLock(Account), XLock(Strategy)}
          /\ todo'[c] = Sync3 /\ Simple(c)'
      BY <1>2, <1>3, <1>5, <1>7, <2>3, <3>1 DEF Brought, Sync3, Syncing
    <3> QED
      BY <1>2, <1>7, <3>2 DEF Fine, Syncing
  <2>4. CASE todo[c] = Sync3 /\ held[c] = {XLock(Account), XLock(Strategy)}
    <3>1. r.kind = "write" /\ r.row = Strategy
      BY <1>2, <2>4, EngineRequests, RequestFacts
    <3>2. /\ held'[c] = {XLock(Account), XLock(Strategy)}
          /\ todo'[c] = <<>> /\ Simple(c)'
      BY <1>2, <1>3, <1>5, <1>7, <2>4, <3>1, EngineRequests DEF Brought, Syncing
    <3> QED
      BY <1>2, <1>7, <3>2 DEF Fine, Syncing
  <2> QED
    BY <1>2, <1>7, <2>1, <2>2, <2>3, <2>4 DEF Syncing
<1>8. CASE Stepping(c)
  <2>1. CASE todo[c] = StartStep /\ held[c] = {}
    <3>1. r.kind = "share" /\ r.row = Account
      BY <1>2, <2>1, EngineRequests, RequestFacts
    <3>2. held'[c] = {SLock(Account)} /\ todo'[c] = Step1 /\ Simple(c)'
      BY <1>2, <1>5, <1>8, <2>1, <3>1 DEF Brought, Step1, Stepping
    <3> QED
      BY <1>2, <1>8, <3>2 DEF Fine, Stepping
  <2>2. CASE todo[c] = Step1 /\ held[c] = {SLock(Account)}
    <3>1. r.kind = "share" /\ r.row = Strategy
      BY <1>2, <2>2, EngineRequests, RequestFacts
    <3>2. /\ held'[c] = {SLock(Account), SLock(Strategy)}
          /\ todo'[c] = <<>> /\ Simple(c)'
      BY <1>2, <1>5, <1>8, <2>2, <3>1, EngineRequests DEF Brought, Stepping
    <3> QED
      BY <1>2, <1>8, <3>2 DEF Fine, Stepping
  <2> QED
    BY <1>2, <1>8, <2>1, <2>2 DEF Stepping
<1>9. CASE Settling(c)
  <2>1. todo[c] = SettlePositions /\ held[c] = {} /\ Simple(c)
    BY <1>2, <1>9 DEF Settling
  <2>2. r.kind = "probe" /\ r.row = Position
    BY <1>2, <2>1, EngineRequests, RequestFacts
  <2>3. /\ held'[c] \in {{XLock(Position)}, {GapLock(Position)}}
        /\ todo'[c] = <<>> /\ Simple(c)'
    BY <1>2, <1>5, <2>1, <2>2, EngineRequests DEF Brought
  <2> QED
    BY <1>2, <1>9, <2>3 DEF Fine, Settling
<1>10. CASE Pausing(c)
  <2>1. todo[c] = PauseAccount /\ held[c] = {} /\ Simple(c)
    BY <1>2, <1>10 DEF Pausing
  <2>2. r.kind = "write" /\ r.row = Account
    BY <1>2, <2>1, EngineRequests, RequestFacts
  <2>3. held'[c] = {XLock(Account)} /\ todo'[c] = <<>> /\ Simple(c)'
    BY <1>2, <1>3, <1>5, <2>1, <2>2, EngineRequests DEF Brought
  <2> QED
    BY <1>2, <1>10, <2>3 DEF Fine, Pausing
<1> QED
  BY <1>6, <1>7, <1>8, <1>9, <1>10

\* The binding of an order goes on with its next request, and takes no lock but
\* those of the order and, after it, of the intent.
LEMMA BindGrants ==
  ASSUME TransactionsInv, NEW c \in Connections, Granted(c), Keeps(c),
         NEW o \in Orders, BindStage(c, o)
  PROVE  /\ Keeps(c)' /\ (todo'[c] = <<>> \/ BindStage(c, o)') /\ todo'[c] # BindOrder(o)
         /\ newCash'[c] = newCash[c] /\ Fresh(c)' = Fresh(c) /\ Owns(c)' = Owns(c)
         /\ todo'[c] = <<>> \/ held'[c] \subseteq held[c] \cup {XLock(Order(o)), GapLock(Order(o))}
<1>1. PICK r : r = Asks(c)
  OBVIOUS
<1>2. /\ r = Head(todo[c]) /\ todo[c] # <<>>
      /\ held'[c] = held[c] \cup Brought(r)
      /\ todo'[c] = AfterRequest(c, r)
      /\ fresh'[c] \in {fresh[c], fresh[c] \cup {r.row}}
      /\ r.kind # "pay" => newCash'[c] = newCash[c]
  BY <1>1, Grants DEF Asks, TransactionsInv
<1>3. /\ Order(o)[1] = "order" /\ Intent(o)[1] = "intent" /\ Strategy[1] = "strategy"
      /\ \A t \in Trades : Trade(t)[1] = "trade"
  BY RowFacts
<1>4. /\ r.row \in {Order(o), Intent(o)} /\ r.kind \in {"probe", "write"}
      /\ todo[c] = BindOrder(o) => r = Probe(Order(o))
      /\ todo[c] = Bind1(o) => r = Write(Order(o))
      /\ todo[c] = Bind2(o) => r = Write(Intent(o))
  BY <1>2, BindRequests, RequestFacts DEF BindStage
<1>5. r.row[1] \in {"order", "intent"} /\ todo'[c] = Tail(todo[c]) /\ newCash'[c] = newCash[c]
  BY <1>2, <1>3, <1>4 DEF AfterRequest
<1>6. Brought(r) \in {{XLock(r.row)}, {GapLock(r.row)}}
  BY <1>4 DEF Brought
<1>7. r.kind = "write" => Brought(r) = {XLock(r.row)}
  BY DEF Brought
<1>8. Fresh(c)' = Fresh(c)
  BY <1>2, <1>3, <1>5 DEF Fresh
<1>9. Owns(c)' = Owns(c)
  <2>1. XLock(Strategy) \notin Brought(r)
    BY <1>3, <1>5, <1>6 DEF XLock, GapLock
  <2>2. Owns(c)' = (XLock(Strategy) \in held'[c])
    BY DEF Owns, XLock
  <2> QED
    BY <1>2, <2>1, <2>2 DEF Owns
<1>10. ASSUME XLock(Intent(o)) \in Brought(r) PROVE XLock(Order(o)) \in held[c]
  <2>1. r.row = Intent(o)
    BY <1>6, <1>10 DEF XLock, GapLock
  <2>2. todo[c] = Bind2(o)
    BY <1>3, <1>4, <2>1, RequestFacts DEF BindStage
  <2> QED
    BY <1>3, <2>2, <1>4, BindRequests, RequestFacts DEF BindStage
<1>11. Keeps(c)'
  <2>1. \A l \in Brought(r) : l.mode # "S" /\ l.row = r.row
    BY <1>6 DEF XLock, GapLock
  <2>2. \A l \in held'[c] : l.mode # "S"
    BY <1>2, <2>1 DEF Keeps
  <2>3. (\E l \in held'[c] : l.row[1] \notin {"order", "intent"}) => Owns(c)'
    BY <1>2, <1>5, <1>9, <2>1 DEF Keeps
  <2>4. ASSUME NEW p \in Orders, XLock(Intent(p)) \in held'[c]
        PROVE  XLock(Order(p)) \in held'[c]
    <3>1. CASE XLock(Intent(p)) \in held[c]
      BY <1>2, <3>1 DEF Keeps
    <3>2. CASE XLock(Intent(p)) \in Brought(r)
      <4>1. r.row = Intent(p)
        BY <2>1, <3>2 DEF XLock
      <4>2. p = o
        BY <1>3, <1>4, <4>1, RowFacts
      <4> QED
        BY <1>2, <1>10, <3>2, <4>2
    <3> QED
      BY <1>2, <2>4, <3>1, <3>2
  <2> QED
    BY <2>2, <2>3, <2>4 DEF Keeps, XLock
<1>12. /\ todo'[c] = <<>> \/ BindStage(c, o)'
       /\ todo'[c] = <<>> \/ held'[c] \subseteq held[c] \cup {XLock(Order(o)), GapLock(Order(o))}
       /\ todo'[c] # BindOrder(o)
  <2>0. BindOrder(o) \notin {Bind1(o), Bind2(o), <<>>}
    BY BindRequests, RequestFacts
  <2>1. CASE todo[c] = BindOrder(o)
    <3>1. todo'[c] = Bind1(o) /\ r.row = Order(o)
      BY <1>4, <1>5, <2>1, RequestFacts DEF Bind1
    <3> QED
      BY <1>2, <1>6, <2>0, <3>1 DEF BindStage
  <2>2. CASE todo[c] = Bind1(o)
    <3>1. todo'[c] = Bind2(o) /\ r.row = Order(o) /\ r.kind = "write"
      BY <1>4, <1>5, <2>2, RequestFacts DEF Bind2
    <3>2. XLock(Order(o)) \in held'[c]
      BY <1>2, <1>7, <3>1
    <3> QED
      BY <1>2, <1>6, <2>0, <3>1, <3>2 DEF BindStage, XLock
  <2>3. CASE todo[c] = Bind2(o)
    BY <1>5, <2>0, <2>3, BindRequests
  <2> QED
    BY <2>1, <2>2, <2>3 DEF BindStage
<1> QED
  BY <1>5, <1>8, <1>9, <1>11, <1>12

\* What a set of trades is worth.
LEMMA WorthFacts ==
  /\ Worth({}) = 0 /\ \A T \in SUBSET Trades : Worth(T) \in Int
  /\ \A T \in SUBSET Trades : \A t \in Trades \ T : Worth(T \cup {t}) = Amount[t] + Worth(T)
  /\ \A T, U \in SUBSET Trades : T \cap U = {} => Worth(T \cup U) = Worth(T) + Worth(U)
<1>1. \A t \in Trades : Amount[t] \in Int
  BY TradeAssumption
<1>2. \A T \in SUBSET Trades : IsFiniteSet(T) /\ \A t \in T : Amount[t] \in Int
  BY <1>1, TradeAssumption, FS_Subset
<1>3. Worth({}) = 0
  BY TotalEmpty DEF Worth
<1>4. \A T \in SUBSET Trades : Worth(T) \in Int
  BY <1>2, TotalInt DEF Worth
<1>5. ASSUME NEW T \in SUBSET Trades, NEW t \in Trades \ T
      PROVE  Worth(T \cup {t}) = Amount[t] + Worth(T)
  <2>1. IsFiniteSet(T) /\ t \notin T /\ \A x \in T \cup {t} : Amount[x] \in Int
    BY <1>1, <1>2
  <2> QED
    BY <2>1, TotalWith DEF Worth
<1>6. ASSUME NEW T \in SUBSET Trades, NEW U \in SUBSET Trades, T \cap U = {}
      PROVE  Worth(T \cup U) = Worth(T) + Worth(U)
  <2>1. PICK V : V = T \cup U
    OBVIOUS
  <2>2. IsFiniteSet(V) /\ \A x \in V : Amount[x] \in Int
    BY <1>2, <2>1
  <2>3. Total(Amount, V) = Total(Amount, T) + Total(Amount, U)
    BY <1>6, <2>1, <2>2, TotalUnion
  <2> QED
    BY <2>1, <2>3 DEF Worth
<1> QED
  BY <1>3, <1>4, <1>5, <1>6

\* The trade that is being booked is the only one that comes to a table.
LEMMA OwnersInsert ==
  ASSUME TransactionsInv, NEW c \in Connections, Owns(c), NEW t \in Trades,
         t \notin Booked \cup Fresh(c)
  PROVE  ~Present(Trade(t))
<1>1. ASSUME NEW d \in Connections, d # c PROVE Trade(t) \notin fresh[d]
  <2>1. ~Owns(d)
    BY <1>1, RowFacts DEF TransactionsInv, Exclusive, Owns
  <2>2. Fine(d) /\ Backed
    BY DEF TransactionsInv
  <2>3. ASSUME Trade(t) \in fresh[d] PROVE FALSE
    <3>1. XLock(Trade(t)) \in held[d]
      BY <2>2, <2>3, RowFacts DEF Backed
    <3>2. Keeps(d)
      BY <2>2, <2>3 DEF Fine, Resting, Syncing, Stepping, Settling, Pausing, Telling, Simple,
         Ordering, Trading, Reconciling
    <3>3. XLock(Trade(t)).row[1] \notin {"order", "intent"}
      BY RowFacts DEF XLock
    <3> QED
      BY <2>1, <3>1, <3>2, <3>3 DEF Keeps
  <2> QED
    BY <2>3
<1>2. Trade(t) \notin fresh[c] /\ Trade(t) \notin rows
  BY DEF Booked, Fresh
<1> QED
  BY <1>1, <1>2 DEF Present

\* The booking of a trade takes the strategy's row before it looks for the
\* trade, reads and writes the cash under that lock and inserts the trade
\* under it too.
LEMMA BookGrants ==
  ASSUME TransactionsInv, NEW c \in Connections, Granted(c), Keeps(c),
         NEW t \in Trades, BookStage(c, t)
  PROVE  /\ Keeps(c)' /\ todo'[c] # BookTrade(t)
         /\ IF todo'[c] = <<>> THEN Settled(c)' ELSE BookStage(c, t)'
         /\ todo'[c] = <<>> \/ \A l \in held'[c] : l \in held[c] \/ l.row # Account
<1>1. PICK r : r = Asks(c)
  OBVIOUS
<1>2. /\ r = Head(todo[c]) /\ r \in Request /\ todo[c] # <<>>
      /\ rows' = rows /\ cash' = cash /\ held'[c] = held[c] \cup Brought(r)
      /\ todo'[c] = AfterRequest(c, r)
      /\ IF r.kind = "write" /\ ~Present(r.row)
         THEN fresh'[c] = fresh[c] \cup {r.row} ELSE fresh'[c] = fresh[c]
      /\ IF r.kind = "pay"
         THEN newCash'[c] = {readCash[c] + Amount[r.trade]} ELSE newCash'[c] = newCash[c]
      /\ IF r.row = Strategy /\ r.kind \in {"plain", "probe"}
         THEN /\ newCash[c] = {} => readCash'[c] = cash
              /\ newCash[c] # {} => readCash'[c] \in newCash[c]
         ELSE readCash'[c] = readCash[c]
  BY <1>1, Grants DEF Asks, TransactionsInv
<1>3. /\ Account[1] = "account" /\ Strategy[1] = "strategy" /\ Position[1] = "position"
      /\ \A u \in Trades : Trade(u)[1] = "trade" /\ (Trade(u) = Trade(t) => u = t)
  BY RowFacts
<1>4. Fresh(c) \in SUBSET Trades /\ Booked \in SUBSET Trades /\ Amount[t] \in Int /\ cash \in Int
  BY TradeAssumption DEF Fresh, Booked, TransactionsInv, LockTypes
<1>5. r.kind \in {"probe", "write", "pay"}
  BY <1>2, BookRequests, RequestFacts DEF BookStage
<1>6. Brought(r) \in {{XLock(r.row)}, {GapLock(r.row)}}
  BY <1>5 DEF Brought
<1>7. /\ BookTrade(t) \notin {Rest1(t), Rest2(t), Rest3(t), Rest4(t), Rest5(t), Rest6(t), <<>>}
      /\ Rest1(t) \notin {Rest2(t), Rest3(t), Rest4(t), Rest5(t), Rest6(t)}
      /\ {Rest2(t), Rest3(t)} \cap {Rest4(t), Rest5(t), Rest6(t)} = {} /\ Rest2(t) # Rest3(t)
      /\ Rest4(t) # Rest5(t) /\ Rest6(t) \notin {Rest4(t), Rest5(t)}
  <2>1. /\ Probe(Strategy) \notin {Probe(Trade(t)), Probe(Position), Pay(t), Write(Position),
                                   Write(Trade(t)), Write(Account)}
        /\ Probe(Trade(t)) \notin {Probe(Position), Pay(t), Write(Position),
                                   Write(Trade(t)), Write(Account)}
        /\ Probe(Position) \notin {Pay(t), Write(Position), Write(Trade(t)), Write(Account)}
    BY <1>3, RequestFacts
  <2>2. /\ Pay(t) \notin {Write(Position), Write(Trade(t)), Write(Account)}
        /\ Write(Position) \notin {Write(Trade(t)), Write(Account)}
        /\ Write(Trade(t)) # Write(Account)
    BY <1>3, RequestFacts
  <2> QED
    BY <2>1, <2>2, BookRequests
<1>8. Booked' = Booked
  BY <1>2 DEF Booked
\* The locks of others than orders and intents are the owner's.
<1>9. ASSUME Owns(c)' PROVE Keeps(c)'
  <2>1. \A l \in Brought(r) : l.mode # "S" /\ l.row = r.row
    BY <1>6 DEF XLock, GapLock
  <2>2. r.row[1] \in {"strategy", "trade", "position", "account"}
    BY <1>2, <1>3, BookRequests, RequestFacts DEF BookStage
  <2>3. ASSUME NEW o \in Orders, XLock(Intent(o)) \in held'[c]
        PROVE  XLock(Order(o)) \in held'[c]
    <3>1. XLock(Intent(o)) \notin Brought(r)
      BY <2>1, <2>2, RowFacts DEF XLock
    <3> QED
      BY <1>2, <2>3, <3>1 DEF Keeps
  <2> QED
    BY <1>2, <1>9, <2>1, <2>3 DEF Keeps, XLock
<1>10. ASSUME Owns(c) PROVE Owns(c)'
  BY <1>2, <1>10 DEF Owns, XLock
<1>11. CASE todo[c] = BookTrade(t)
  <2>1. r.kind = "probe" /\ r.row = Strategy /\ Settled(c)
    BY <1>2, <1>7, <1>11, BookRequests, RequestFacts DEF BookStage
  <2>2. held'[c] = held[c] \cup {XLock(Strategy)} /\ todo'[c] = Rest1(t)
    BY <1>2, <1>3, <1>11, <2>1, BaseRows DEF Brought, AfterRequest, Rest1, TransactionsInv
  <2>3. Owns(c)'
    BY <2>2 DEF Owns, XLock
  <2>4. fresh'[c] = fresh[c] /\ newCash'[c] = newCash[c] /\ Fresh(c)' = Fresh(c)
    BY <1>2, <2>1 DEF Fresh
  <2>5. Settled(c)'
    BY <1>2, <1>8, <2>1, <2>3, <2>4 DEF Settled
  <2>6. readCash'[c] = cash + Worth(Fresh(c))
    <3>1. CASE newCash[c] = {}
      <4>1. Fresh(c) = {}
        BY <2>1, <3>1 DEF Settled
      <4>2. Worth(Fresh(c)) = 0
        BY <4>1, WorthFacts
      <4> QED
        BY <1>2, <1>4, <2>1, <3>1, <4>2
    <3>2. CASE newCash[c] # {}
      BY <1>2, <2>1, <3>2 DEF Settled
    <3> QED
      BY <3>1, <3>2
  <2>7. BookStage(c, t)'
    BY <1>2, <2>2, <2>3, <2>4, <2>5, <2>6 DEF BookStage
  <2> QED
    BY <1>3, <1>7, <1>9, <2>2, <2>3, <2>7, BookRequests DEF XLock
<1>12. CASE todo[c] = Rest1(t)
  <2>1. /\ r.kind = "probe" /\ r.row = Trade(t) /\ Settled(c) /\ Owns(c)
        /\ readCash[c] = cash + Worth(Fresh(c))
    BY <1>2, <1>7, <1>12, BookRequests, RequestFacts DEF BookStage
  <2>2. Trade(t) # Strategy
    BY <1>3
  <2>3. /\ Owns(c)' /\ fresh'[c] = fresh[c] /\ newCash'[c] = newCash[c] /\ Fresh(c)' = Fresh(c)
        /\ readCash'[c] = readCash[c]
    BY <1>2, <1>10, <2>1, <2>2 DEF Fresh
  <2>4. Settled(c)'
    BY <1>2, <1>8, <2>1, <2>3 DEF Settled
  <2>5. CASE Present(Trade(t))
    <3>1. todo'[c] = <<>>
      BY <1>2, <1>3, <2>1, <2>5 DEF AfterRequest
    <3> QED
      BY <1>7, <1>9, <2>3, <2>4, <3>1
  <2>6. CASE ~Present(Trade(t))
    <3>1. todo'[c] = Rest2(t)
      BY <1>2, <1>12, <2>1, <2>6 DEF AfterRequest, Rest2
    <3>2. t \notin Booked \cup Fresh(c)
      BY <2>6 DEF Present, Booked, Fresh
    <3>3. BookStage(c, t)'
      BY <1>2, <1>8, <2>1, <2>3, <2>4, <3>1, <3>2 DEF BookStage
    <3> QED
      BY <1>2, <1>3, <1>6, <1>7, <1>9, <2>1, <2>3, <3>1, <3>3, BookRequests DEF XLock, GapLock
  <2> QED
    BY <2>5, <2>6
<1>13. CASE todo[c] = Rest2(t)
  <2>1. /\ r.kind = "probe" /\ r.row = Position /\ Settled(c) /\ Owns(c)
        /\ readCash[c] = cash + Worth(Fresh(c)) /\ t \notin Booked \cup Fresh(c)
    BY <1>2, <1>7, <1>13, BookRequests, RequestFacts DEF BookStage
  <2>2. /\ Owns(c)' /\ fresh'[c] = fresh[c] /\ newCash'[c] = newCash[c] /\ Fresh(c)' = Fresh(c)
        /\ readCash'[c] = readCash[c] /\ todo'[c] = Rest3(t)
    BY <1>2, <1>3, <1>10, <1>13, <2>1 DEF Fresh, AfterRequest, Rest3
  <2>3. Settled(c)'
    BY <1>2, <1>8, <2>1, <2>2 DEF Settled
  <2>4. BookStage(c, t)'
    BY <1>2, <1>8, <2>1, <2>2, <2>3 DEF BookStage
  <2> QED
    BY <1>2, <1>3, <1>6, <1>7, <1>9, <2>1, <2>2, <2>4, BookRequests DEF XLock, GapLock
<1>14. CASE todo[c] = Rest3(t)
  <2>1. /\ r.kind = "pay" /\ r.row = Strategy /\ r.trade = t /\ Settled(c) /\ Owns(c)
        /\ readCash[c] = cash + Worth(Fresh(c)) /\ t \notin Booked \cup Fresh(c)
    BY <1>2, <1>7, <1>14, BookRequests, RequestFacts DEF BookStage
  <2>2. /\ Owns(c)' /\ fresh'[c] = fresh[c] /\ Fresh(c)' = Fresh(c) /\ todo'[c] = Rest4(t)
        /\ newCash'[c] = {readCash[c] + Amount[t]}
    BY <1>2, <1>10, <1>14, <2>1 DEF Fresh, AfterRequest, Rest4
  <2>3. newCash'[c] = {cash + Amount[t] + Worth(Fresh(c))}
    <3>1. PICK n \in Int : n = Worth(Fresh(c))
      BY <1>4, WorthFacts
    <3> QED
      BY <1>4, <2>1, <2>2, <3>1
  <2>4. Fresh(c) \cap Booked = {}
    BY <2>1 DEF Settled
  <2>5. BookStage(c, t)'
    BY <1>2, <1>8, <2>1, <2>2, <2>3, <2>4 DEF BookStage
  <2> QED
    BY <1>2, <1>3, <1>6, <1>7, <1>9, <2>1, <2>2, <2>5, BookRequests DEF XLock, GapLock
<1>15. CASE todo[c] = Rest4(t)
  <2>1. /\ r.kind = "write" /\ r.row = Position /\ Owns(c)
        /\ Fresh(c) \cap Booked = {} /\ t \notin Booked \cup Fresh(c)
        /\ newCash[c] = {cash + Amount[t] + Worth(Fresh(c))}
    BY <1>2, <1>7, <1>15, BookRequests, RequestFacts DEF BookStage
  <2>2. /\ Owns(c)' /\ newCash'[c] = newCash[c] /\ Fresh(c)' = Fresh(c) /\ todo'[c] = Rest5(t)
    BY <1>2, <1>3, <1>10, <1>15, <2>1 DEF Fresh, AfterRequest, Rest5
  <2>3. BookStage(c, t)'
    BY <1>2, <1>8, <2>1, <2>2 DEF BookStage
  <2> QED
    BY <1>2, <1>3, <1>6, <1>7, <1>9, <2>1, <2>2, <2>3, BookRequests DEF XLock, GapLock
<1>16. CASE todo[c] = Rest5(t)
  <2>1. /\ r.kind = "write" /\ r.row = Trade(t) /\ Owns(c)
        /\ Fresh(c) \cap Booked = {} /\ t \notin Booked \cup Fresh(c)
        /\ newCash[c] = {cash + Amount[t] + Worth(Fresh(c))}
    BY <1>2, <1>7, <1>16, BookRequests, RequestFacts DEF BookStage
  <2>2. ~Present(Trade(t))
    BY <2>1, OwnersInsert
  <2>3. fresh'[c] = fresh[c] \cup {Trade(t)} /\ Fresh(c)' = Fresh(c) \cup {t}
    BY <1>2, <1>3, <2>1, <2>2 DEF Fresh
  <2>4. Owns(c)' /\ newCash'[c] = newCash[c] /\ todo'[c] = Rest6(t)
    BY <1>2, <1>10, <1>16, <2>1 DEF AfterRequest, Rest6
  <2>5. Settled(c)'
    <3>1. Worth(Fresh(c) \cup {t}) = Amount[t] + Worth(Fresh(c)) /\ Worth(Fresh(c)) \in Int
      BY <1>4, <2>1, WorthFacts
    <3>2. newCash'[c] = {cash + Worth(Fresh(c) \cup {t})}
      BY <1>4, <2>1, <2>4, <3>1
    <3> QED
      BY <1>2, <1>8, <2>1, <2>3, <2>4, <3>2 DEF Settled
  <2>6. CASE t \in Breaching
    <3>1. BookStage(c, t)' /\ todo'[c] # <<>>
      BY <2>4, <2>5, <2>6, BookRequests DEF BookStage
    <3> QED
      BY <1>2, <1>3, <1>6, <1>7, <1>9, <2>1, <2>4, <3>1 DEF XLock, GapLock
  <2>7. CASE t \notin Breaching
    <3>1. todo'[c] = <<>>
      BY <2>4, <2>7, BookRequests
    <3> QED
      BY <1>7, <1>9, <2>4, <2>5, <3>1
  <2> QED
    BY <2>6, <2>7
<1>17. CASE todo[c] = Rest6(t) /\ t \in Breaching
  <2>1. /\ r.kind = "write" /\ r.row = Account /\ Owns(c) /\ Settled(c)
    BY <1>2, <1>7, <1>17, BookRequests, RequestFacts DEF BookStage
  <2>2. fresh'[c] = fresh[c] /\ Fresh(c)' = Fresh(c) /\ newCash'[c] = newCash[c] /\ Owns(c)'
    BY <1>2, <1>10, <2>1, BaseRows DEF Fresh, TransactionsInv
  <2>3. todo'[c] = <<>>
    BY <1>2, <1>17, <2>1, BookRequests DEF AfterRequest
  <2>4. Settled(c)'
    BY <1>2, <1>8, <2>1, <2>2 DEF Settled
  <2> QED
    BY <1>7, <1>9, <2>2, <2>3, <2>4
<1> QED
  BY <1>11, <1>12, <1>13, <1>14, <1>15, <1>16, <1>17 DEF BookStage

\* A granted request keeps the invariant.
LEMMA GrantedStep ==
  ASSUME TransactionsInv, NEW c \in Connections, Granted(c)
  PROVE  TransactionsInv'
<1>1. /\ todo[c] # <<>> /\ rows' = rows /\ cash' = cash /\ op' = op /\ ahead' = ahead
      /\ \A d \in Connections : d # c => Own(d)' = Own(d)
      /\ LockTypes' /\ Exclusive' /\ Backed' /\ Asks(c).kind # "nested"
  BY Grants, GrantsExclude DEF TransactionsInv
<1>2. Fine(c) /\ Roles /\ cash = Worth(Booked)
  BY DEF TransactionsInv
<1>3. Booked' = Booked
  BY <1>1 DEF Booked
<1>4. Fine(c)'
  <2>1. CASE Resting(c) \/ Syncing(c) \/ Stepping(c) \/ Settling(c) \/ Pausing(c) \/ Telling(c)
    BY <2>1, SimpleGrants
  <2>2. CASE Ordering(c)
    <3>1. PICK o \in Orders : /\ BindStage(c, o)
                              /\ held[c] \subseteq {XLock(Order(o)), GapLock(Order(o))}
      BY <1>1, <2>2 DEF Ordering
    <3>2. /\ Keeps(c)' /\ (todo'[c] = <<>> \/ BindStage(c, o)') /\ todo'[c] # BindOrder(o)
          /\ newCash'[c] = newCash[c] /\ Fresh(c)' = Fresh(c)
          /\ todo'[c] = <<>> \/ held'[c] \subseteq held[c] \cup {XLock(Order(o)), GapLock(Order(o))}
      BY <2>2, <3>1, BindGrants DEF Ordering
    <3>3. Ordering(c)'
      BY <1>1, <2>2, <3>1, <3>2 DEF Ordering, XLock, GapLock
    <3> QED
      BY <3>3 DEF Fine
  <2>3. CASE Trading(c)
    <3>1. PICK t \in Trades : BookStage(c, t) /\ \A l \in held[c] : l.row # Account
      BY <1>1, <2>3 DEF Trading
    <3>2. /\ Keeps(c)' /\ todo'[c] # BookTrade(t)
          /\ IF todo'[c] = <<>> THEN Settled(c)' ELSE BookStage(c, t)'
          /\ todo'[c] = <<>> \/ \A l \in held'[c] : l \in held[c] \/ l.row # Account
      BY <2>3, <3>1, BookGrants DEF Trading
    <3>3. Trading(c)'
      BY <1>1, <2>3, <3>1, <3>2 DEF Trading
    <3> QED
      BY <3>3 DEF Fine
  <2>4. CASE Reconciling(c)
    <3>1. CASE \E o \in Orders : BindStage(c, o) /\ Settled(c)
      <4>1. PICK o \in Orders : BindStage(c, o) /\ Settled(c)
        BY <3>1
      <4>2. /\ Keeps(c)' /\ (todo'[c] = <<>> \/ BindStage(c, o)')
            /\ newCash'[c] = newCash[c] /\ Fresh(c)' = Fresh(c) /\ Owns(c)' = Owns(c)
        BY <2>4, <4>1, BindGrants DEF Reconciling
      <4>3. Settled(c)'
        BY <1>1, <1>3, <4>1, <4>2 DEF Settled
      <4>4. Reconciling(c)'
        BY <1>1, <2>4, <4>2, <4>3 DEF Reconciling
      <4> QED
        BY <4>4 DEF Fine
    <3>2. CASE \E t \in Trades : BookStage(c, t)
      <4>1. PICK t \in Trades : BookStage(c, t)
        BY <3>2
      <4>2. Keeps(c)' /\ IF todo'[c] = <<>> THEN Settled(c)' ELSE BookStage(c, t)'
        BY <2>4, <4>1, BookGrants DEF Reconciling
      <4>3. Reconciling(c)'
        BY <1>1, <2>4, <4>2 DEF Reconciling
      <4> QED
        BY <4>3 DEF Fine
    <3> QED
      BY <1>1, <2>4, <3>1, <3>2 DEF Reconciling
  <2> QED
    BY <1>2, <2>1, <2>2, <2>3, <2>4 DEF Fine
<1>5. \A d \in Connections : Fine(d)'
  BY <1>1, <1>3, <1>4, Elsewhere DEF TransactionsInv
<1>6. Roles'
  <2>1. c = "consumer" => todo["consumer"] # UnknownReport
    BY <1>1, EngineRequests, RequestFacts DEF Asks
  <2>2. c # "consumer" => todo'["consumer"] = todo["consumer"]
    BY <1>1 DEF Own, Connections
  <2> QED
    BY <1>1, <1>2, <2>1, <2>2 DEF Roles
<1> QED
  BY <1>1, <1>2, <1>3, <1>5, <1>6 DEF TransactionsInv

\* Reconciliation comes to the next order or trade of the broker's answer.
LEMMA AnswerStep ==
  ASSUME TransactionsInv, NEW c \in Connections, NextAnswer(c)
  PROVE  TransactionsInv'
<1>1. /\ LockTypes /\ Roles /\ Exclusive /\ Backed /\ cash = Worth(Booked) /\ Fine(c)
  BY DEF TransactionsInv
<1>2. /\ rows' = rows /\ cash' = cash /\ op' = op /\ held' = held /\ fresh' = fresh
      /\ readCash' = readCash /\ newCash' = newCash /\ todo[c] = <<>>
      /\ ahead[c].orders # {} \/ ahead[c].trades # {}
      /\ \A d \in Connections : d # c => todo'[d] = todo[d] /\ ahead'[d] = ahead[d]
  BY <1>1 DEF NextAnswer, LockTypes
<1>0. /\ todo \in [Connections -> Seq(Request)]
      /\ ahead \in [Connections -> [orders : SUBSET Orders, trades : SUBSET Trades]]
  BY <1>1 DEF LockTypes
<1>3. PICK o, t : \/ /\ o \in Orders /\ todo' = [todo EXCEPT ![c] = BindOrder(o)]
                     /\ ahead' = [ahead EXCEPT ![c].orders = @ \ {o}]
                  \/ /\ t \in Trades /\ todo' = [todo EXCEPT ![c] = BookTrade(t)]
                     /\ ahead' = [ahead EXCEPT ![c].trades = @ \ {t}]
  BY <1>1 DEF NextAnswer, LockTypes
<1>4. LockTypes'
  <2>1. todo' \in [Connections -> Seq(Request)]
    <3>1. /\ o \in Orders => BindOrder(o) \in Seq(Request)
          /\ t \in Trades => BookTrade(t) \in Seq(Request)
      BY BindRequests, BookRequests
    <3> QED
      BY <1>0, <1>3, <3>1
  <2>2. ahead' \in [Connections -> [orders : SUBSET Orders, trades : SUBSET Trades]]
    <3>1. ahead[c] \in [orders : SUBSET Orders, trades : SUBSET Trades]
      BY <1>0
    <3>2. PICK a : /\ ahead' = [ahead EXCEPT ![c] = a]
                   /\ a \in [orders : SUBSET Orders, trades : SUBSET Trades]
      BY <1>3, <3>1
    <3> QED
      BY <1>0, <3>2
  <2> QED
    BY <1>1, <1>2, <2>1, <2>2 DEF LockTypes
<1>5. Booked' = Booked /\ Owns(c)' = Owns(c) /\ Fresh(c)' = Fresh(c) /\ Keeps(c)' = Keeps(c)
  BY <1>2 DEF Booked, Owns, Fresh, Keeps
<1>6. ahead[c] # Nothing
  BY <1>2 DEF Nothing
<1>7. Reconciling(c) /\ Settled(c)
  <2>1. \A p \in Orders : BindOrder(p) # <<>> /\ Bind1(p) # <<>> /\ Bind2(p) # <<>>
    BY BindRequests
  <2>2. \A u \in Trades : /\ BookTrade(u) # <<>> /\ Rest1(u) # <<>> /\ Rest2(u) # <<>>
                          /\ Rest3(u) # <<>> /\ Rest4(u) # <<>> /\ Rest5(u) # <<>>
                          /\ u \in Breaching => Rest6(u) # <<>>
    BY BookRequests
  <2>3. Reconciling(c)
    BY <1>1, <1>6 DEF Fine, Resting, Syncing, Stepping, Settling, Pausing, Telling, Simple,
       Ordering, Trading
  <2> QED
    BY <1>2, <2>1, <2>2, <2>3 DEF Reconciling, BindStage, BookStage
<1>8. Settled(c)'
  BY <1>2, <1>5, <1>7 DEF Settled
<1>9. Fine(c)'
  <2>1. (\E p \in Orders : BindStage(c, p)' /\ Settled(c)') \/ (\E u \in Trades : BookStage(c, u)')
    <3>1. todo \in [Connections -> Seq(Request)]
      BY <1>1 DEF LockTypes
    <3>2. CASE o \in Orders /\ todo'[c] = BindOrder(o)
      BY <1>8, <3>2 DEF BindStage
    <3>3. CASE t \in Trades /\ todo'[c] = BookTrade(t)
      BY <1>8, <3>3 DEF BookStage
    <3> QED
      BY <1>3, <3>1, <3>2, <3>3
  <2>2. Reconciling(c)'
    BY <1>2, <1>5, <1>7, <2>1 DEF Reconciling
  <2> QED
    BY <2>2 DEF Fine
<1>10. \A d \in Connections : Fine(d)'
  <2>1. \A d \in Connections : d # c => Own(d)' = Own(d)
    BY <1>2 DEF Own
  <2> QED
    BY <1>2, <1>5, <1>9, <2>1, Elsewhere DEF TransactionsInv
<1>11. Roles'
  <2>1. c # "consumer"
    BY <1>1, <1>7 DEF Roles, Reconciling
  <2> QED
    BY <1>1, <1>2, <2>1 DEF Roles, Connections
<1>12. Exclusive' /\ Backed'
  BY <1>1, <1>2 DEF Exclusive, Backed, XLock, SLock
<1> QED
  BY <1>1, <1>2, <1>4, <1>5, <1>10, <1>11, <1>12 DEF TransactionsInv

\* A transaction begins with nothing: no lock, nothing read or inserted.
LEMMA BeginStep ==
  ASSUME TransactionsInv, NEW c \in Connections,
         NEW x \in EngineTransactions \cup ConsumerTransactions, BeginTx(c, x),
         c = "engine" => x \in EngineTransactions,
         c = "consumer" => x \in ConsumerTransactions /\ op["second"] = "none",
         c = "second" => x = Transaction("pause", PauseAccount, Nothing)
                         /\ op["consumer"] = "unknown" /\ todo["consumer"] = UnknownReport
  PROVE  TransactionsInv'
<1>1. /\ LockTypes /\ Roles /\ Exclusive /\ Backed /\ cash = Worth(Booked) /\ Fine(c)
  BY DEF TransactionsInv
<1>2. /\ op[c] = "none" /\ op' = [op EXCEPT ![c] = x.name]
      /\ todo' = [todo EXCEPT ![c] = x.program] /\ ahead' = [ahead EXCEPT ![c] = x.ahead]
      /\ UNCHANGED <<rows, cash, held, fresh, readCash, newCash>>
  BY DEF BeginTx
<1>3. Resting(c)
  BY <1>1, <1>2 DEF Fine, Syncing, Stepping, Settling, Pausing, Telling, Ordering, Trading, Reconciling
<1>4. /\ op'[c] = x.name /\ todo'[c] = x.program /\ ahead'[c] = x.ahead /\ held'[c] = {}
      /\ fresh'[c] = {} /\ newCash'[c] = {}
      /\ \A d \in Connections : d # c => Own(d)' = Own(d)
  BY <1>1, <1>2, <1>3 DEF Resting, Simple, LockTypes, Own
<1>5. Keeps(c)' /\ Fresh(c)' = {} /\ Settled(c)' /\ (x.ahead = Nothing => Simple(c)')
  BY <1>4 DEF Keeps, Fresh, Settled, Simple, XLock
\* What the transactions are.
<1>6. \/ x = Transaction("sync", SyncAccount, Nothing) \/ x = Transaction("step", StartStep, Nothing)
      \/ x = Transaction("settle", SettlePositions, Nothing)
      \/ x = Transaction("pause", PauseAccount, Nothing)
      \/ x = Transaction("unknown", UnknownReport, Nothing)
      \/ x = Transaction("reconcile", <<>>, Answers)
      \/ \E o \in Orders : x = Transaction("order", BindOrder(o), Nothing)
      \/ \E t \in Trades : x = Transaction("trade", BookTrade(t), Nothing)
  BY DEF EngineTransactions, ConsumerTransactions, Bindings
<1>7. /\ x.name \in {"sync", "step", "settle", "pause", "reconcile", "order", "unknown", "trade"}
      /\ x.program \in Seq(Request) /\ x.ahead \in [orders : SUBSET Orders, trades : SUBSET Trades]
      /\ Fine(c)'
  <2>1. CASE x = Transaction("sync", SyncAccount, Nothing)
    <3>1. x.name = "sync" /\ x.program = SyncAccount /\ x.ahead = Nothing
      BY <2>1 DEF Transaction
    <3>2. Syncing(c)'
      BY <1>4, <1>5, <3>1 DEF Syncing
    <3> QED
      BY <3>1, <3>2, EngineRequests DEF Fine, Nothing
  <2>2. CASE x = Transaction("step", StartStep, Nothing)
    <3>1. x.name = "step" /\ x.program = StartStep /\ x.ahead = Nothing
      BY <2>2 DEF Transaction
    <3>2. Stepping(c)'
      BY <1>4, <1>5, <3>1 DEF Stepping
    <3> QED
      BY <3>1, <3>2, EngineRequests DEF Fine, Nothing
  <2>3. CASE x = Transaction("settle", SettlePositions, Nothing)
    <3>1. x.name = "settle" /\ x.program = SettlePositions /\ x.ahead = Nothing
      BY <2>3 DEF Transaction
    <3>2. Settling(c)'
      BY <1>4, <1>5, <3>1 DEF Settling
    <3> QED
      BY <3>1, <3>2, EngineRequests DEF Fine, Nothing
  <2>4. CASE x = Transaction("pause", PauseAccount, Nothing)
    <3>1. x.name = "pause" /\ x.program = PauseAccount /\ x.ahead = Nothing
      BY <2>4 DEF Transaction
    <3>2. Pausing(c)'
      BY <1>4, <1>5, <3>1 DEF Pausing
    <3> QED
      BY <3>1, <3>2, EngineRequests DEF Fine, Nothing
  <2>5. CASE x = Transaction("unknown", UnknownReport, Nothing)
    <3>1. x.name = "unknown" /\ x.program = UnknownReport /\ x.ahead = Nothing
      BY <2>5 DEF Transaction
    <3>2. Telling(c)'
      BY <1>4, <1>5, <3>1 DEF Telling
    <3> QED
      BY <3>1, <3>2, EngineRequests DEF Fine, Nothing
  <2>6. CASE x = Transaction("reconcile", <<>>, Answers)
    <3>1. x.name = "reconcile" /\ x.program = <<>> /\ x.ahead = Answers
      BY <2>6 DEF Transaction
    <3>2. Reconciling(c)'
      BY <1>4, <1>5, <3>1 DEF Reconciling
    <3> QED
      BY <3>1, <3>2 DEF Fine, Answers
  <2>7. ASSUME NEW o \in Orders, x = Transaction("order", BindOrder(o), Nothing)
        PROVE  /\ x.name \in {"sync", "step", "settle", "pause", "reconcile", "order", "unknown", "trade"}
              /\ x.program \in Seq(Request) /\ x.ahead \in [orders : SUBSET Orders, trades : SUBSET Trades]
              /\ Fine(c)'
    <3>1. x.name = "order" /\ x.program = BindOrder(o) /\ x.ahead = Nothing
      BY <2>7 DEF Transaction
    <3>2. BindStage(c, o)'
      BY <1>4, <3>1 DEF BindStage
    <3>3. Ordering(c)'
      BY <1>4, <1>5, <3>1, <3>2 DEF Ordering
    <3> QED
      BY <3>1, <3>3, BindRequests DEF Fine, Nothing
  <2>8. ASSUME NEW t \in Trades, x = Transaction("trade", BookTrade(t), Nothing)
        PROVE  /\ x.name \in {"sync", "step", "settle", "pause", "reconcile", "order", "unknown", "trade"}
              /\ x.program \in Seq(Request) /\ x.ahead \in [orders : SUBSET Orders, trades : SUBSET Trades]
              /\ Fine(c)'
    <3>1. x.name = "trade" /\ x.program = BookTrade(t) /\ x.ahead = Nothing
      BY <2>8 DEF Transaction
    <3>2. BookStage(c, t)'
      BY <1>4, <1>5, <3>1 DEF BookStage
    <3>3. Trading(c)'
      BY <1>4, <1>5, <3>1, <3>2 DEF Trading
    <3> QED
      BY <3>1, <3>3, BookRequests DEF Fine, Nothing
  <2> QED
    BY <1>6, <2>1, <2>2, <2>3, <2>4, <2>5, <2>6, <2>7, <2>8
<1>8. LockTypes'
  BY <1>1, <1>2, <1>7 DEF LockTypes
<1>9. \A d \in Connections : Fine(d)'
  <2>1. Booked' = Booked
    BY <1>2 DEF Booked
  <2> QED
    BY <1>2, <1>4, <1>7, <2>1, Elsewhere DEF TransactionsInv
<1>10. Exclusive' /\ Backed' /\ (cash = Worth(Booked))'
  BY <1>1, <1>2 DEF Exclusive, Backed, XLock, SLock, Booked
<1>11. Roles'
  <2>1. c = "engine" => x.name \notin {"unknown", "trade"}
    BY DEF EngineTransactions, Bindings, Transaction
  <2>2. c = "consumer" => x.name \in {"unknown", "order", "trade"}
    BY DEF ConsumerTransactions, Bindings, Transaction
  <2>3. c = "second" => x.name = "pause"
    BY DEF Transaction
  <2>4. \A d \in Connections : d # c => op'[d] = op[d] /\ todo'[d] = todo[d]
    BY <1>4 DEF Own
  <2>5. Connections = {"engine", "consumer", "second"}
    BY DEF Connections
  <2>6. CASE c = "engine"
    BY <1>1, <1>4, <2>1, <2>4, <2>5, <2>6 DEF Roles
  <2>7. CASE c = "consumer"
    BY <1>1, <1>4, <2>2, <2>4, <2>5, <2>7 DEF Roles
  <2>8. CASE c = "second"
    BY <1>1, <1>4, <2>3, <2>4, <2>5, <2>8 DEF Roles
  <2> QED
    BY <2>5, <2>6, <2>7, <2>8
<1> QED
  BY <1>8, <1>9, <1>10, <1>11 DEF TransactionsInv

\* The second connection is opened by a report of something unknown.
LEMMA OpenStep ==
  ASSUME TransactionsInv, OpenSecond
  PROVE  TransactionsInv'
<1>1. /\ todo["consumer"] # <<>> /\ Head(todo["consumer"]).kind = "nested"
      /\ BeginTx("second", Transaction("pause", PauseAccount, Nothing))
  BY DEF OpenSecond
<1>2. Fine("consumer") /\ Roles
  BY DEF TransactionsInv, Connections
<1>3. \A o \in Orders : ~BindStage("consumer", o)
  BY <1>1, BindRequests, RequestFacts DEF BindStage
<1>4. \A t \in Trades : ~BookStage("consumer", t)
  BY <1>1, BookRequests, RequestFacts DEF BookStage
<1>5. Telling("consumer")
  BY <1>1, <1>2, <1>3, <1>4 DEF Fine, Roles, Resting, Syncing, Stepping, Settling, Pausing, Ordering,
     Trading, Reconciling
<1>6. op["consumer"] = "unknown" /\ todo["consumer"] = UnknownReport
  BY <1>1, <1>5 DEF Telling
<1> QED
  BY <1>1, <1>6, BeginStep DEF Connections, EngineTransactions

\* A transaction ends with its locks let go, whatever becomes of its writes, if
\* the cash goes with the trades.
LEMMA EndStep ==
  ASSUME TransactionsInv, NEW c \in Connections, EndTx(c), op[c] # "none",
         c = "consumer" => op["second"] = "none",
         rows \subseteq rows', rows' \subseteq Rows, cash' \in Int, cash' = Worth(Booked'),
         (cash' = cash /\ Booked' = Booked) \/ Owns(c)
  PROVE  TransactionsInv'
<1>1. /\ LockTypes /\ Roles /\ Exclusive /\ Backed
  BY DEF TransactionsInv
<1>2. /\ op' = [op EXCEPT ![c] = "none"] /\ ahead' = [ahead EXCEPT ![c] = Nothing]
      /\ held' = [held EXCEPT ![c] = {}] /\ fresh' = [fresh EXCEPT ![c] = {}]
      /\ newCash' = [newCash EXCEPT ![c] = {}] /\ readCash' = readCash
      /\ todo' = [d \in Connections |-> IF d = c THEN <<>>
                                        ELSE IF c = "second" /\ d = "consumer" THEN Tail(todo[d])
                                        ELSE todo[d]]
  BY DEF EndTx
<1>3. /\ op'[c] = "none" /\ todo'[c] = <<>> /\ ahead'[c] = Nothing /\ held'[c] = {}
      /\ fresh'[c] = {} /\ newCash'[c] = {}
      /\ \A d \in Connections : d # c => held'[d] = held[d] /\ fresh'[d] = fresh[d]
      /\ \A d \in Connections : d # c /\ ~(c = "second" /\ d = "consumer") => Own(d)' = Own(d)
  BY <1>1, <1>2 DEF LockTypes, Own
<1>4. c = "second" => op["consumer"] = "unknown" /\ todo["consumer"] = UnknownReport
  BY <1>1 DEF Roles
<1>5. LockTypes'
  <2>1. todo' \in [Connections -> Seq(Request)]
    <3>1. c = "second" => Tail(todo["consumer"]) \in Seq(Request)
      BY <1>4, EngineRequests
    <3>2. todo \in [Connections -> Seq(Request)] /\ <<>> \in Seq(Request)
      BY <1>1 DEF LockTypes
    <3> QED
      BY <1>2, <3>1, <3>2
  <2>2. ahead' \in [Connections -> [orders : SUBSET Orders, trades : SUBSET Trades]]
    BY <1>1, <1>2 DEF LockTypes, Nothing
  <2>3. Base \subseteq rows'
    BY <1>1 DEF LockTypes
  <2> QED
    BY <1>1, <1>2, <2>1, <2>2, <2>3 DEF LockTypes
<1>6. Exclusive' /\ Backed'
  BY <1>1, <1>3 DEF Exclusive, Backed, XLock, SLock
<1>7. Resting(c)'
  BY <1>3 DEF Resting, Simple
<1>8. c = "second" => Telling("consumer")'
  <2> SUFFICES ASSUME c = "second" PROVE Telling("consumer")'
    OBVIOUS
  <2>1. Fine("consumer") /\ op["consumer"] = "unknown"
    BY <1>4 DEF TransactionsInv, Connections
  <2>2. Telling("consumer")
    BY <2>1 DEF Fine, Resting, Syncing, Stepping, Settling, Pausing, Ordering, Trading, Reconciling
  <2>3. todo'["consumer"] = <<>>
    BY <1>2, <1>4, EngineRequests DEF Connections
  <2>4. /\ op'["consumer"] = op["consumer"] /\ ahead'["consumer"] = ahead["consumer"]
        /\ held'["consumer"] = held["consumer"] /\ fresh'["consumer"] = fresh["consumer"]
        /\ newCash'["consumer"] = newCash["consumer"]
    BY <1>1, <1>2 DEF LockTypes, Connections
  <2> QED
    BY <2>2, <2>3, <2>4 DEF Telling, Simple
<1>9. ASSUME NEW d \in Connections PROVE Fine(d)'
  <2>1. CASE d = c
    BY <1>7, <2>1 DEF Fine
  <2>2. CASE c = "second" /\ d = "consumer"
    BY <1>8, <2>2 DEF Fine
  <2>3. CASE d # c /\ ~(c = "second" /\ d = "consumer")
    <3>1. Owns(c) => ~Owns(d)
      BY <1>1, <2>3, RowFacts DEF Exclusive, Owns
    <3>2. Fine(d) /\ Own(d)' = Own(d)
      BY <1>3, <2>3 DEF TransactionsInv
    <3> QED
      BY <3>1, <3>2, Elsewhere
  <2> QED
    BY <2>1, <2>2, <2>3
<1>10. Roles'
  <2>1. /\ Connections = {"engine", "consumer", "second"}
        /\ \A d \in Connections : op'[d] = IF d = c THEN "none" ELSE op[d]
    BY <1>1, <1>2 DEF Connections, LockTypes
  <2>2. c # "second" => todo'["consumer"] \in {<<>>, todo["consumer"]}
                        /\ (c = "engine" => todo'["consumer"] = todo["consumer"])
    BY <1>2, <2>1
  <2>3. CASE c = "second"
    BY <1>1, <1>2, <2>1, <2>3 DEF Roles
  <2>4. CASE c = "engine"
    BY <1>1, <1>2, <2>1, <2>2, <2>4 DEF Roles
  <2>5. CASE c = "consumer"
    BY <1>1, <1>2, <2>1, <2>5 DEF Roles
  <2> QED
    BY <2>1, <2>3, <2>4, <2>5
<1> QED
  BY <1>5, <1>6, <1>9, <1>10 DEF TransactionsInv

\* What a transaction that has made its requests will write: the cash of the
\* table and of the trades it inserted.
LEMMA Complete ==
  ASSUME TransactionsInv, NEW c \in Connections, todo[c] = <<>>
  PROVE  Settled(c)
<1>1. Fine(c)
  BY DEF TransactionsInv
<1>2. CASE Resting(c) \/ Syncing(c) \/ Stepping(c) \/ Settling(c) \/ Pausing(c) \/ Telling(c)
  BY <1>2 DEF Resting, Syncing, Stepping, Settling, Pausing, Telling, Simple, Settled, Fresh
<1>3. CASE Ordering(c) \/ Trading(c)
  BY <1>3 DEF Ordering, Trading, Settled
<1>4. CASE Reconciling(c)
  <2>1. \A o \in Orders : ~BindStage(c, o)
    BY BindRequests DEF BindStage
  <2>2. \A t \in Trades : BookStage(c, t) => Settled(c)
    BY BookRequests DEF BookStage
  <2> QED
    BY <1>4, <2>1, <2>2 DEF Reconciling
<1> QED
  BY <1>1, <1>2, <1>3, <1>4 DEF Fine

\* A commit keeps the invariant.
LEMMA CommitStep ==
  ASSUME TransactionsInv, NEW c \in Connections, CommitTx(c)
  PROVE  TransactionsInv'
<1>1. /\ op[c] # "none" /\ todo[c] = <<>> /\ EndTx(c) /\ rows' = rows \cup fresh[c]
      /\ cash' = IF newCash[c] = {} THEN cash ELSE CHOOSE v \in newCash[c] : TRUE
  BY DEF CommitTx
<1>2. /\ LockTypes /\ Roles /\ cash = Worth(Booked) /\ fresh[c] \subseteq Rows
  BY DEF TransactionsInv, LockTypes
<1>3. Settled(c)
  BY <1>1, Complete
<1>4. Booked' = Booked \cup Fresh(c) /\ Booked \in SUBSET Trades /\ Fresh(c) \in SUBSET Trades
  BY <1>1 DEF Booked, Fresh
<1>5. c = "consumer" => op["second"] = "none"
  BY <1>1, <1>2, EngineRequests DEF Roles
<1>6. CASE newCash[c] = {}
  <2>1. cash' = cash /\ Booked' = Booked
    BY <1>1, <1>3, <1>4, <1>6 DEF Settled
  <2> QED
    BY <1>1, <1>2, <1>5, <2>1, EndStep DEF LockTypes
<1>7. CASE newCash[c] # {}
  <2>1. Owns(c) /\ cash' = cash + Worth(Fresh(c))
    BY <1>1, <1>3, <1>7 DEF Settled
  <2>2. Worth(Booked \cup Fresh(c)) = Worth(Booked) + Worth(Fresh(c))
    BY <1>3, <1>4, WorthFacts DEF Settled
  <2>3. Worth(Booked \cup Fresh(c)) \in Int
    <3>1. Booked \cup Fresh(c) \in SUBSET Trades
      BY <1>4
    <3> QED
      BY <3>1, WorthFacts
  <2>4. cash' = Worth(Booked')
    BY <1>2, <1>4, <2>1, <2>2
  <2>5. cash' \in Int
    BY <1>4, <2>3, <2>4
  <2> QED
    BY <1>1, <1>2, <1>5, <2>1, <2>4, <2>5, EndStep DEF LockTypes
<1> QED
  BY <1>6, <1>7

\* A rollback does, and the second connection has none of its transactions
\* taken from under the report that waits for it.
LEMMA RollbackStep ==
  ASSUME TransactionsInv, NEW c \in Connections, Rollback(c)
  PROVE  TransactionsInv'
<1>1. /\ EndTx(c) /\ rows' = rows /\ cash' = cash /\ todo[c] # <<>> /\ Blockers(c) # {}
  BY DEF Rollback, Cycle, Blockers
<1>2. /\ LockTypes /\ Roles /\ cash = Worth(Booked) /\ Fine(c)
  BY DEF TransactionsInv
<1>3. op[c] # "none"
  BY <1>1, <1>2 DEF Fine, Resting, Syncing, Stepping, Settling, Pausing, Telling, Ordering, Trading,
     Reconciling
<1>4. c = "consumer" => op["second"] = "none"
  <2> SUFFICES ASSUME c = "consumer", op["second"] # "none" PROVE FALSE
    OBVIOUS
  <2>1. todo[c] = UnknownReport
    BY <1>2 DEF Roles
  <2>2. Head(todo[c]).kind = "nested"
    BY <2>1, EngineRequests, RequestFacts
  <2> QED
    BY <1>1, <2>2 DEF Blockers
<1>5. Booked' = Booked
  BY <1>1 DEF Booked
<1> QED
  BY <1>1, <1>2, <1>3, <1>4, <1>5, EndStep DEF LockTypes

-----------------------------------------------------------------------------
(* What the invariant says about deadlocks.                                *)

\* Whoever is in a deadlock waits and holds a lock that the other one asks for;
\* the second connection never is.
LEMMA CycleFacts ==
  ASSUME TransactionsInv, NEW c \in Connections, NEW d \in Connections, Cycle(c, d)
  PROVE  /\ c # d /\ {c, d} = {"engine", "consumer"}
         /\ todo[c] # <<>> /\ Asks(c) \in Request /\ held[c] # {}
         /\ \/ Asks(c).kind = "write" /\ ~Present(Asks(c).row)
               /\ \E l \in held[d] : l.mode = "gap" /\ l.row[1] = Asks(c).row[1]
            \/ XLock(Asks(c).row) \in held[d]
            \/ Asks(c).kind # "share" /\ SLock(Asks(c).row) \in held[d]
<1>1. d \in Blockers(c) /\ c \in Blockers(d)
  BY DEF Cycle
<1>2. ASSUME NEW x \in Connections, NEW y \in Connections, y \in Blockers(x)
      PROVE  /\ y # x /\ todo[x] # <<>> /\ Asks(x) \in Request /\ held[y] # {}
             /\ \/ Asks(x).kind = "write" /\ ~Present(Asks(x).row)
                   /\ \E l \in held[y] : l.mode = "gap" /\ l.row[1] = Asks(x).row[1]
                \/ XLock(Asks(x).row) \in held[y]
                \/ Asks(x).kind # "share" /\ SLock(Asks(x).row) \in held[y]
  <2>1. todo[x] \in Seq(Request) /\ todo[x] # <<>>
    BY <1>2 DEF TransactionsInv, LockTypes, Blockers
  <2>2. Asks(x) \in Request
    BY <2>1 DEF Asks
  <2>3. /\ y # x
        /\ \/ Asks(x).kind = "write" /\ ~Present(Asks(x).row)
              /\ \E l \in held[y] : l.mode = "gap" /\ l.row[1] = Asks(x).row[1]
           \/ XLock(Asks(x).row) \in held[y]
           \/ Asks(x).kind # "share" /\ SLock(Asks(x).row) \in held[y]
    BY <1>2, <2>1 DEF Blockers, Asks, Others, Holds, XLock, SLock, SameGap
  <2> QED
    BY <2>1, <2>2, <2>3
<1>3. ASSUME NEW x \in Connections, todo[x] # <<>>, held[x] # {} PROVE x # "second"
  <2>1. Fine(x) /\ Roles
    BY DEF TransactionsInv
  <2> QED
    BY <1>3, <2>1 DEF Roles, Fine, Resting, Syncing, Stepping, Settling, Pausing, Telling,
       Ordering, Trading, Reconciling
<1> QED
  BY <1>1, <1>2, <1>3 DEF Connections

\* What the consumer deadlocks over, and with whom.
LEMMA ConsumerDeadlocks ==
  ASSUME TransactionsInv, Cycle("consumer", "engine")
  PROVE  \/ Inserting("consumer") /\ Inserting("engine")
         \/ AccountFirst("engine") /\ PausesLast("consumer")
<1> DEFINE c == "consumer"
           e == "engine"
           q == Asks(c)
           r == Asks(e)
<1>1. /\ Fine(c) /\ Fine(e) /\ Roles /\ Exclusive /\ Backed /\ LockTypes
      /\ c \in Connections /\ e \in Connections
  BY DEF TransactionsInv, Connections
<1>2. /\ todo[c] # <<>> /\ q \in Request /\ held[c] # {}
      /\ todo[e] # <<>> /\ r \in Request /\ held[e] # {}
      /\ \/ q.kind = "write" /\ ~Present(q.row)
            /\ \E l \in held[e] : l.mode = "gap" /\ l.row[1] = q.row[1]
         \/ XLock(q.row) \in held[e]
         \/ q.kind # "share" /\ SLock(q.row) \in held[e]
      /\ \/ r.kind = "write" /\ ~Present(r.row)
            /\ \E l \in held[c] : l.mode = "gap" /\ l.row[1] = r.row[1]
         \/ XLock(r.row) \in held[c]
         \/ r.kind # "share" /\ SLock(r.row) \in held[c]
  <2>1. Cycle(e, c)
    BY DEF Cycle
  <2> QED
    BY <1>1, <2>1, CycleFacts
<1>3. q.row \in Rows /\ r.row \in Rows /\ Strategy \in Rows /\ Account \in Rows
  BY <1>2, RequestFacts, RowFacts
<1>4. Ordering(c) \/ Trading(c)
  BY <1>1, <1>2 DEF Fine, Roles, Resting, Syncing, Stepping, Settling, Pausing, Telling, Reconciling
\* What the engine holds, and what it may be waiting for.
<1>5. \/ Syncing(e) /\ todo[e] \in {Sync1, Sync2} /\ held[e] = {XLock(Account)}
      \/ Syncing(e) /\ todo[e] = Sync3 /\ Owns(e)
      \/ Stepping(e) /\ todo[e] = Step1 /\ held[e] = {SLock(Account)}
      \/ Keeps(e)
  BY <1>1, <1>2 DEF Fine, Roles, Resting, Syncing, Stepping, Settling, Pausing, Telling, Ordering,
     Trading, Reconciling, Owns
<1> HIDE DEF c, e, q, r
<1>6. CASE Ordering(c)
  <2>1. PICK o \in Orders : /\ BindStage(c, o) /\ held[c] \subseteq {XLock(Order(o)), GapLock(Order(o))}
                            /\ todo[c] # BindOrder(o)
    BY <1>2, <1>6 DEF Ordering
  <2>2. CASE todo[c] = Bind2(o) /\ XLock(Order(o)) \in held[c]
    <3>1. q = Write(Intent(o)) /\ q.kind = "write" /\ q.row = Intent(o) /\ Present(q.row)
      BY <1>1, <2>2, BindRequests, RequestFacts, BaseRows DEF q, Asks
    <3>2. Intent(o) # Account /\ Intent(o) # Strategy /\ Order(o) \in Rows /\ Intent(o) \in Rows
      BY RowFacts
    <3>3. XLock(Intent(o)) \in held[e]
      BY <1>1, <1>2, <3>1, <3>2 DEF Backed
    <3>4. Keeps(e)
      <4>1. Owns(e) /\ Syncing(e) /\ todo[e] = Sync3 => held[e] = {XLock(Account), XLock(Strategy)}
        BY EngineRequests, RequestFacts, RowFacts DEF Syncing, Owns, XLock
      <4> QED
        BY <1>5, <3>2, <3>3, <4>1 DEF XLock, SLock
    <3>5. XLock(Order(o)) \in held[e]
      BY <3>3, <3>4 DEF Keeps
    <3> QED
      BY <1>1, <2>2, <3>2, <3>5 DEF Exclusive, c, e
  <2>3. CASE todo[c] = Bind1(o)
    <3>1. q = Write(Order(o)) /\ q.kind = "write" /\ q.row = Order(o)
      BY <2>3, BindRequests, RequestFacts DEF q, Asks
    <3>2. Inserting(c)
      BY <3>1, RowFacts DEF Inserting, q, Asks
    <3>3. \A l \in held[c] : l.row = Order(o) /\ l.mode # "S"
      BY <2>1 DEF XLock, GapLock
    <3>4. CASE r.kind = "write" /\ r.row[1] = "order"
      BY <3>2, <3>4 DEF Inserting, r, Asks, c, e
    <3>5. CASE ~(r.kind = "write" /\ r.row[1] = "order")
      <4>1. XLock(r.row) \in held[c] /\ r.row = Order(o)
        BY <1>2, <3>3, <3>5, RowFacts DEF XLock, SLock
      <4>2. Present(Order(o)) /\ Order(o) # Account /\ Order(o) # Strategy
        BY <1>1, <1>3, <4>1, RowFacts DEF Backed, Present
      <4>3. XLock(Order(o)) \in held[e] \/ SLock(Order(o)) \in held[e]
        BY <1>2, <3>1, <4>2
      <4> QED
        BY <1>1, <1>3, <4>1, <4>3 DEF Exclusive, c, e
    <3> QED
      BY <3>4, <3>5
  <2> QED
    BY <2>1, <2>2, <2>3 DEF BindStage
<1>7. CASE Trading(c)
  <2>1. PICK t \in Trades : /\ BookStage(c, t) /\ todo[c] # BookTrade(t)
                            /\ \A l \in held[c] : l.row # Account
    BY <1>2, <1>7 DEF Trading
  <2>2. Owns(c) /\ ~Owns(e)
    BY <1>1, <1>3, <2>1 DEF BookStage, Exclusive, Owns, c, e
  <2>3. q.row \in {Account, Strategy, Position, Trade(t)}
    BY <2>1, BookRequests, RequestFacts DEF BookStage, q, Asks
  <2>4. q.row[1] \in {"account", "strategy", "position", "trade"}
    BY <2>3, RowFacts
  <2>5. ~Keeps(e)
    <3>1. \E l \in held[e] : l.row[1] = q.row[1]
      BY <1>2 DEF XLock, SLock
    <3> QED
      BY <2>2, <2>4, <3>1 DEF Keeps
  <2>6. /\ held[e] \in {{XLock(Account)}, {SLock(Account)}}
        /\ \/ Syncing(e) /\ todo[e] \in {Sync1, Sync2}
           \/ Stepping(e) /\ todo[e] = Step1
    BY <1>5, <2>2, <2>5
  <2>7. q.row = Account
    BY <1>2, <2>6 DEF XLock, SLock
  <2>8. PausesLast(c)
    <3>1. q = Write(Account)
      BY <2>1, <2>7, BookRequests, RequestFacts, RowFacts DEF BookStage, q, Asks
    <3> QED
      BY <1>7, <3>1 DEF PausesLast, Trading, q, Asks
  <2>9. AccountFirst(e)
    <3>1. r.row # Account
      BY <1>1, <1>2, <2>1, BaseRows DEF XLock, SLock
    <3>2. r.row = Strategy /\ op[e] \in {"sync", "step"}
      BY <2>6, <3>1, EngineRequests, RequestFacts DEF r, Asks, Syncing, Stepping
    <3> QED
      BY <3>2 DEF AccountFirst, r, Asks
  <2> QED
    BY <2>8, <2>9 DEF c, e
<1> QED
  BY <1>4, <1>6, <1>7

\* Every deadlock is one of the two.
LEMMA DeadlocksKnown == TransactionsInv => DeadlocksAreKnown
<1> SUFFICES ASSUME TransactionsInv, NEW c \in Connections, NEW d \in Connections, Cycle(c, d)
             PROVE  \/ Inserting(c) /\ Inserting(d)
                    \/ AccountFirst(c) /\ PausesLast(d)
                    \/ AccountFirst(d) /\ PausesLast(c)
  BY DEF DeadlocksAreKnown
<1>1. c # d /\ {c, d} = {"engine", "consumer"} /\ Cycle(d, c)
  BY CycleFacts DEF Cycle
<1>2. CASE c = "consumer" /\ d = "engine"
  BY <1>2, ConsumerDeadlocks
<1>3. CASE c = "engine" /\ d = "consumer"
  BY <1>1, <1>3, ConsumerDeadlocks
<1> QED
  BY <1>1, <1>2, <1>3

-----------------------------------------------------------------------------
(* The theorem about the row locks.                                        *)

\* The sum of the model is that of the lemmas about sums.
LEMMA SumIsWorth == ASSUME NEW T \in SUBSET Trades PROVE MapThenSumSet(LAMBDA t : Amount[t], T) = Worth(T)
<1>1. PICK g : IsFold(g, Amount, SUBSET T)
  <2>1. IsFiniteSet(T)
    BY TradeAssumption, FS_Subset
  <2> QED
    BY <2>1, FoldExists
<1> DEFINE body(h) == [s \in SUBSET T |-> IF s = {} THEN 0
                         ELSE Amount[CHOOSE x \in s : TRUE] + h[s \ {CHOOSE x \in s : TRUE}]]
           fold == CHOOSE h : h = body(h)
<1>2. g = body(g)
  BY <1>1 DEF IsFold, Pick
<1>3. MapThenSumSet(LAMBDA t : Amount[t], T) = fold[T]
  BY DEF MapThenSumSet, MapThenFoldSet
<1>4. fold = body(fold)
  <2> HIDE DEF body
  <2> QED
    BY <1>2, Zenon
<1>5. IsFold(fold, Amount, SUBSET T)
  <2> HIDE DEF fold
  <2> QED
    BY <1>4 DEF IsFold, Pick
<1>6. IsFiniteSet(T)
  BY TradeAssumption, FS_Subset
<1>7. PICK h : IsFold(h, Amount, SUBSET T) /\ Total(Amount, T) = h[T]
  BY <1>6, TotalIsFold
<1> HIDE DEF fold, body
<1>8. fold[T] = h[T]
  BY <1>5, <1>6, <1>7, FoldsAgree
<1> QED
  BY <1>3, <1>7, <1>8 DEF Worth

\* Nothing is booked, held or under way at the start.
LEMMA LocksStart == LocksInit => TransactionsInv
<1> SUFFICES ASSUME LocksInit PROVE TransactionsInv
  OBVIOUS
<1>1. rows = {Account, Strategy} \cup {Intent(o) : o \in Orders} \cup {Order(o) : o \in OldOrders} /\ cash = 0
      /\ op = [c \in Connections |-> "none"]
      /\ todo = [c \in Connections |-> <<>>] /\ ahead = [c \in Connections |-> Nothing]
      /\ held = [c \in Connections |-> {}] /\ fresh = [c \in Connections |-> {}]
      /\ readCash = [c \in Connections |-> 0] /\ newCash = [c \in Connections |-> {}]
  BY DEF LocksInit
<1>2. rows \subseteq Rows /\ Base \subseteq rows
  BY <1>1, OrderAssumption, Zenon DEF Rows, Base
<1>3. Booked = {}
  <2>1. \A t \in Trades : Trade(t) \notin rows
    BY <1>1, RowFacts
  <2> QED
    BY <2>1 DEF Booked
<1>4. \A c \in Connections : Fine(c)
  BY <1>1 DEF Fine, Resting, Simple
<1>5. LockTypes
  BY <1>1, <1>2 DEF LockTypes, Nothing
<1>6. Roles /\ Exclusive /\ Backed
  BY <1>1 DEF Roles, Exclusive, Backed, Connections
<1>7. cash = Worth(Booked)
  BY <1>1, <1>3, WorthFacts
<1> QED
  BY <1>4, <1>5, <1>6, <1>7 DEF TransactionsInv

\* Every step keeps the invariant.
LEMMA LocksStep == TransactionsInv /\ [LocksNext]_locksVars => TransactionsInv'
<1> SUFFICES ASSUME TransactionsInv, [LocksNext]_locksVars PROVE TransactionsInv'
  OBVIOUS
<1>1. CASE StartEngine
  <2>1. PICK x \in EngineTransactions : BeginTx("engine", x)
    BY <1>1 DEF StartEngine
  <2> QED
    BY <2>1, BeginStep DEF Connections
<1>2. CASE StartConsumer
  <2>1. PICK x \in ConsumerTransactions : BeginTx("consumer", x)
    BY <1>2 DEF StartConsumer
  <2>2. op["second"] = "none"
    BY <2>1 DEF BeginTx, TransactionsInv, Roles
  <2> QED
    BY <2>1, <2>2, BeginStep DEF Connections
<1>3. CASE OpenSecond
  BY <1>3, OpenStep
<1>4. ASSUME NEW c \in Connections, Step(c) PROVE TransactionsInv'
  BY <1>4, GrantedStep, AnswerStep, CommitStep, RollbackStep DEF Step
<1>5. CASE UNCHANGED locksVars
  <2>1. /\ rows' = rows /\ cash' = cash /\ op' = op /\ todo' = todo /\ ahead' = ahead /\ held' = held
        /\ fresh' = fresh /\ readCash' = readCash /\ newCash' = newCash
    BY <1>5 DEF locksVars, tx
  <2>2. Booked' = Booked /\ \A c \in Connections : Own(c)' = Own(c)
    BY <2>1 DEF Booked, Own
  <2>3. \A c \in Connections : Fine(c)'
    BY <2>1, <2>2, Elsewhere DEF TransactionsInv
  <2> QED
    BY <2>1, <2>2, <2>3 DEF TransactionsInv, LockTypes, Roles, Exclusive, Backed, XLock, SLock
<1> QED
  BY <1>1, <1>2, <1>3, <1>4, <1>5 DEF LocksNext

\* The invariant says what the run checks.
LEMMA LocksMeet == TransactionsInv => LocksInv
<1> SUFFICES ASSUME TransactionsInv PROVE LocksInv
  OBVIOUS
<1>1. LocksTypes
  <2>1. /\ rows \subseteq Rows /\ cash \in Int
        /\ \A c \in Connections :
             held[c] \subseteq Locks /\ fresh[c] \subseteq Rows /\ todo[c] \in Seq(Request)
    BY DEF TransactionsInv, LockTypes
  <2>2. \A c \in Connections : \A i \in DOMAIN todo[c] : todo[c][i] \in Request
    BY <2>1
  <2> QED
    BY <2>1, <2>2, RequestFacts DEF LocksTypes
<1>2. CashIsTheTrades
  BY SumIsWorth DEF CashIsTheTrades, TransactionsInv, Booked
<1> QED
  BY <1>1, <1>2, DeadlocksKnown DEF LocksInv

\* Whatever the two threads' transactions do to each other: the cash is the sum
\* of the trades that have a row, so that no trade is booked twice and no update
\* of the cash is lost, and the only deadlocks are the two that are known
\* (repository.py record_strategy_trade_if_absent, which locks the strategy's row
\* before it looks for the trade; sync_account, start_job_run,
\* bind_broker_order).
THEOREM LocksSafe == LocksSpec => []LocksInv
<1>1. LocksInit => TransactionsInv
  BY LocksStart
<1>2. TransactionsInv /\ [LocksNext]_locksVars => TransactionsInv'
  BY LocksStep
<1>3. TransactionsInv => LocksInv
  BY LocksMeet
<1> QED
  BY <1>1, <1>2, <1>3, PTL DEF LocksSpec
=============================================================================
