-------------------------- MODULE LiveTradingProofs --------------------------
(***************************************************************************)
(* Theorems about LiveTrading, for any set of intents, quantities and      *)
(* bounds, in three parts: type correctness, and that an intent is         *)
(* submitted at most once; that what the database says of an order is what *)
(* the broker says, and each intent keeps the promise of OrderPromise;     *)
(* that the sells are closed before a buy leaves, and a job recorded as    *)
(* successful leaves nothing unexplained.                                  *)
(***************************************************************************)
EXTENDS LiveTrading, FiniteSetTheorems, TLAPS

\* A conditional status update writes a status.
LEMMA StatusType ==
  ASSUME NEW current \in IntentStatus,
         NEW target \in {"SUBMITTING", "SUBMITTED", "SUBMIT_UNKNOWN", "REJECTED",
                         "COMPLETED", "INCOMPLETE"}
  PROVE  SetIntentStatus(current, target) \in IntentStatus
BY DEF SetIntentStatus, IntentStatus

\* Merging a report into a saved order row yields an order row.
LEMMA MergeType ==
  ASSUME NEW saved \in Rows, Known(saved),
         NEW report \in Rows, Known(report),
         NEW newer \in BOOLEAN
  PROVE  MergeReport(saved, report, newer) \in Rows
<1>1. /\ saved.status \in OrderStatus /\ saved.filled \in Nat /\ saved.requested \in Nat
      /\ report.status \in OrderStatus /\ report.filled \in Nat /\ report.requested \in Nat
  BY DEF Rows, Known, NoRow
<1>2. MergedStatus(saved, report, newer) \in OrderStatus
  BY <1>1 DEF MergedStatus, OrderStatus
<1>3. Larger(saved.filled, report.filled) \in Nat
  BY <1>1 DEF Larger
<1> QED
  BY <1>1, <1>2, <1>3 DEF MergeReport, Rows

\* Binding an order of the broker yields an order row, new or merged.
LEMMA BoundType ==
  ASSUME NEW i \in Intents, NEW saved \in Rows,
         NEW order \in Orders, Known(order),
         NEW newer \in BOOLEAN
  PROVE  Bound(i, saved, order, newer) \in Rows
<1>1. Report(i, order) \in Rows /\ Known(Report(i, order))
  BY QtyAssumption DEF Report, Rows, Orders, Known, NoOrder
<1> QED
  BY <1>1, MergeType DEF Bound

\* The null order is an order.
LEMMA NoOrderType == NoOrder \in Orders
BY DEF Orders

\* What belongs to the order and row types, and what their members are.
LEMMA OrderTypes ==
  /\ NoOrder \in Orders
  /\ NoRow \in Rows
  /\ \A status \in OrderStatus, filled \in Nat :
       [status |-> status, filled |-> filled] \in Orders
  /\ \A order \in Orders : order.filled \in Nat
  /\ \A order \in Orders, status \in OrderStatus :
       Known(order) => [order EXCEPT !.status = status] \in Orders
  /\ \A order \in Orders : IsActive(order.status) => Known(order)
BY DEF Orders, Rows, NoOrder, Known, IsActive, NoRow

\* A part of the state that a step leaves alone keeps its type.
LEMMA Kept ==
  ASSUME TypeOK
  PROVE  /\ UNCHANGED dbVars => DatabaseTypes'
         /\ UNCHANGED brokerVars => BrokerTypes'
         /\ UNCHANGED <<pc, sessionVars>> => SessionTypes'
         /\ UNCHANGED <<flagVars, handled, breach>> => FlagTypes'
         /\ UNCHANGED envVars => EnvTypes'
         /\ DatabaseTypes' /\ BrokerTypes' /\ SessionTypes' /\ FlagTypes' /\ EnvTypes'
              => TypeOK'
<1>1. UNCHANGED dbVars => DatabaseTypes'
  BY DEF TypeOK, DatabaseTypes, dbVars
<1>2. UNCHANGED brokerVars => BrokerTypes'
  BY DEF TypeOK, BrokerTypes, brokerVars
<1>3. UNCHANGED <<pc, sessionVars>> => SessionTypes'
  BY DEF TypeOK, SessionTypes, sessionVars, PCs
<1>4. UNCHANGED <<flagVars, handled, breach>> => FlagTypes'
  BY DEF TypeOK, FlagTypes, flagVars
<1>5. UNCHANGED envVars => EnvTypes'
  BY DEF TypeOK, EnvTypes, envVars
<1> QED
  BY <1>1, <1>2, <1>3, <1>4, <1>5 DEF TypeOK

\* Every step of the service, the broker and the clock preserves TypeOK.
LEMMA TypeStep == TypeOK /\ Next => TypeOK'
<1> SUFFICES ASSUME TypeOK, Next PROVE TypeOK'
  OBVIOUS
<1> USE NoOrderType DEF TypeOK, PCs, Sides
<1>1. CASE Restart
  <2>1. SessionTypes'
    BY <1>1 DEF Restart, sessionVars, SessionTypes
  <2>2. FlagTypes'
    BY <1>1 DEF Restart, flagVars, FlagTypes
  <2> QED
    BY <1>1, <2>1, <2>2, Kept DEF Restart
<1>2. CASE Crash
  <2>1. SessionTypes'
    BY <1>2 DEF Crash, ForgetSession, SessionTypes
  <2>2. FlagTypes'
    BY <1>2 DEF Crash, ForgetSession, FlagTypes
  <2>3. EnvTypes'
    BY <1>2 DEF Crash, ForgetSession, EnvTypes
  <2> QED
    BY <1>2, <2>1, <2>2, <2>3, Kept DEF Crash, ForgetSession
<1>3. CASE RebalanceHandled
  <2>1. FlagTypes'
    BY <1>3 DEF RebalanceHandled, flagVars, FlagTypes
  <2> QED
    BY <1>3, <2>1, Kept DEF RebalanceHandled
<1>4. CASE RebalanceMissed
  <2>1. DatabaseTypes'
    BY <1>4 DEF RebalanceMissed, DatabaseTypes
  <2>2. FlagTypes'
    BY <1>4 DEF RebalanceMissed, flagVars, FlagTypes
  <2> QED
    BY <1>4, <2>1, <2>2, Kept DEF RebalanceMissed
<1>5. CASE RebalanceDue
  <2>1. SessionTypes'
    BY <1>5 DEF RebalanceDue, OpenSession, SessionTypes
  <2>2. FlagTypes'
    BY <1>5 DEF RebalanceDue, OpenSession, FlagTypes
  <2> QED
    BY <1>5, <2>1, <2>2, Kept DEF RebalanceDue, OpenSession
<1>6. CASE EodDue
  <2>1. SessionTypes'
    BY <1>6 DEF EodDue, OpenSession, SessionTypes
  <2>2. FlagTypes'
    BY <1>6 DEF EodDue, OpenSession, FlagTypes
  <2> QED
    BY <1>6, <2>1, <2>2, Kept DEF EodDue, OpenSession
<1>7. CASE Connect
  <2>1. wasPaused' \in BOOLEAN
    BY <1>7 DEF Connect
  <2>2. SessionTypes'
    BY <1>7, <2>1 DEF Connect, SessionTypes, StartReconcile, Goto
  <2> QED
    BY <1>7, <2>2, Kept DEF Connect, StartReconcile, Goto
<1>8. CASE ConnectFails
  <2>1. SessionTypes'
    BY <1>8 DEF ConnectFails, Fail, EndSession, ForgetSession, SessionTypes
  <2>2. FlagTypes'
    BY <1>8 DEF ConnectFails, Fail, EndSession, ForgetSession, FlagTypes
  <2>3. EnvTypes'
    BY <1>8 DEF ConnectFails, Fail, EndSession, ForgetSession, EnvTypes
  <2> QED
    BY <1>8, <2>1, <2>2, <2>3, Kept DEF ConnectFails, Fail, EndSession,
       ForgetSession
<1>9. CASE BrokerCallFails
  <2>1. DatabaseTypes'
    BY <1>9 DEF BrokerCallFails, PauseAndFail, EndSession, ForgetSession,
       DatabaseTypes
  <2>2. SessionTypes'
    BY <1>9 DEF BrokerCallFails, PauseAndFail, EndSession, ForgetSession,
       SessionTypes
  <2>3. FlagTypes'
    BY <1>9 DEF BrokerCallFails, PauseAndFail, EndSession, ForgetSession, FlagTypes
  <2> QED
    BY <1>9, <2>1, <2>2, <2>3, Kept DEF BrokerCallFails, PauseAndFail,
       EndSession, ForgetSession
<1>10. CASE QueryOrders
  <2>1. SessionTypes'
    BY <1>10 DEF QueryOrders, SessionTypes, BrokerTypes, Goto
  <2> QED
    BY <1>10, <2>1, Kept DEF QueryOrders, Goto
<1>11. CASE QueryOrdersUnknown
  <2>1. PICK i \in Intents :
          Known(book[i]) /\ seenOrders' = [book EXCEPT ![i].status = "UNKNOWN"]
    BY <1>11 DEF QueryOrdersUnknown
  <2>2. [book[i] EXCEPT !.status = "UNKNOWN"] \in Orders
    BY <2>1, OrderTypes DEF BrokerTypes, OrderStatus
  <2>3. seenOrders' \in [Intents -> Orders]
    BY <2>1, <2>2 DEF BrokerTypes
  <2>4. SessionTypes'
    BY <1>11, <2>3 DEF QueryOrdersUnknown, SessionTypes, Goto
  <2>5. EnvTypes'
    BY <1>11 DEF QueryOrdersUnknown, EnvTypes
  <2> QED
    BY <1>11, <2>4, <2>5, Kept DEF QueryOrdersUnknown, Goto
<1>12. CASE QueryTrades
  <2>1. PICK late \in SUBSET {i \in Intents : book[i].filled > 0} :
          seenTrades' = [i \in Intents |-> book[i].filled - (IF i \in late THEN 1 ELSE 0)]
    BY <1>12 DEF QueryTrades
  <2>2. ASSUME NEW i \in Intents
        PROVE  book[i].filled - (IF i \in late THEN 1 ELSE 0) \in Nat
    <3>1. book[i].filled \in Nat
      BY OrderTypes DEF BrokerTypes
    <3>2. i \in late => book[i].filled > 0
      BY <2>1
    <3> QED
      BY <3>1, <3>2
  <2>3. seenTrades' \in [Intents -> Nat]
    BY <2>1, <2>2
  <2>4. SessionTypes'
    BY <1>12, <2>3 DEF QueryTrades, SessionTypes, Goto
  <2> QED
    BY <1>12, <2>4, Kept DEF QueryTrades, Goto
<1>13. CASE Reconcile
  <2>1. row' \in [Intents -> Rows]
    <3>1. PICK newer \in BOOLEAN :
            row' = [i \in Intents |->
                      IF Known(seenOrders[i]) THEN Bound(i, row[i], seenOrders[i], newer)
                                              ELSE row[i]]
      BY <1>13 DEF Reconcile
    <3>2. ASSUME NEW i \in Intents, Known(seenOrders[i])
          PROVE  Bound(i, row[i], seenOrders[i], newer) \in Rows
      BY <3>2, BoundType DEF SessionTypes, DatabaseTypes
    <3> QED
      BY <3>1, <3>2 DEF DatabaseTypes
  <2>2. intent' \in [Intents -> IntentStatus]
    <3>1. ASSUME NEW i \in Intents
          PROVE  Reconciled(i) \in IntentStatus
      <4>1. intent[i] \in IntentStatus
        BY DEF DatabaseTypes
      <4>2. SetIntentStatus(intent[i], "SUBMITTED") \in IntentStatus
        BY <4>1, StatusType
      <4> QED
        BY <4>1, <4>2, StatusType DEF Reconciled
    <3> QED
      BY <1>13, <3>1 DEF Reconcile
  <2>3. applied' \in [Intents -> SUBSET Nat]
    BY <1>13 DEF Reconcile, DatabaseTypes, SessionTypes
  <2>4. overdrawn' \in BOOLEAN
    BY <1>13 DEF Reconcile, DatabaseTypes, CashAfter
  <2>5. account' \in {"ACTIVE", "PAUSED"} /\ pc' \in {"pause", "after"}
    BY <1>13 DEF Reconcile, DatabaseTypes, Goto
  <2>6. DatabaseTypes'
    BY <1>13, <2>1, <2>2, <2>3, <2>4, <2>5 DEF Reconcile, DatabaseTypes
  <2>7. SessionTypes'
    BY <1>13, <2>5 DEF Reconcile, SessionTypes, sessionVars
  <2> QED
    BY <1>13, <2>6, <2>7, Kept DEF Reconcile, Goto
<1>14. CASE Pause
  <2>1. DatabaseTypes'
    BY <1>14 DEF Pause, PauseAndFail, EndSession, ForgetSession, DatabaseTypes
  <2>2. SessionTypes'
    BY <1>14 DEF Pause, PauseAndFail, EndSession, ForgetSession, SessionTypes
  <2>3. FlagTypes'
    BY <1>14 DEF Pause, PauseAndFail, EndSession, ForgetSession, FlagTypes
  <2> QED
    BY <1>14, <2>1, <2>2, <2>3, Kept DEF Pause, PauseAndFail, EndSession,
       ForgetSession
<1>15. CASE ResumeAccount
  <2>1. DatabaseTypes'
    BY <1>15 DEF ResumeAccount, Goto, DatabaseTypes
  <2>2. SessionTypes'
    BY <1>15 DEF ResumeAccount, Goto, sessionVars, SessionTypes
  <2> QED
    BY <1>15, <2>1, <2>2, Kept DEF ResumeAccount, Goto
<1>16. CASE AdmitRebalance
  <2>1. SessionTypes'
    BY <1>16 DEF AdmitRebalance, StartReconcile, Goto, SessionTypes
  <2> QED
    BY <1>16, <2>1, Kept DEF AdmitRebalance, StartReconcile, Goto
<1>17. CASE RebalanceTooLate
  <2>1. DatabaseTypes'
    BY <1>17 DEF RebalanceTooLate, EndSession, ForgetSession, DatabaseTypes
  <2>2. SessionTypes'
    BY <1>17 DEF RebalanceTooLate, EndSession, ForgetSession, SessionTypes
  <2>3. FlagTypes'
    BY <1>17 DEF RebalanceTooLate, EndSession, ForgetSession, FlagTypes
  <2> QED
    BY <1>17, <2>1, <2>2, <2>3, Kept DEF RebalanceTooLate, EndSession, ForgetSession
<1>18. CASE AccountNotActive
  <2>1. SessionTypes'
    BY <1>18 DEF AccountNotActive, Fail, EndSession, ForgetSession, SessionTypes
  <2>2. FlagTypes'
    BY <1>18 DEF AccountNotActive, Fail, EndSession, ForgetSession, FlagTypes
  <2> QED
    BY <1>18, <2>1, <2>2, Kept DEF AccountNotActive, Fail, EndSession, ForgetSession
<1>19. CASE AdmitEod
  <2>1. SessionTypes'
    BY <1>19 DEF AdmitEod, StartReconcile, Goto, SessionTypes
  <2> QED
    BY <1>19, <2>1, Kept DEF AdmitEod, StartReconcile, Goto
<1>20. CASE BeginPhases
  <2>1. SessionTypes'
    BY <1>20 DEF BeginPhases, Goto, sessionVars, SessionTypes
  <2> QED
    BY <1>20, <2>1, Kept DEF BeginPhases, Goto
<1>21. CASE FinishRebalance
  <2>1. DatabaseTypes'
    BY <1>21 DEF FinishRebalance, EndSession, ForgetSession, LastHealthCheck,
       DatabaseTypes
  <2>2. SessionTypes'
    BY <1>21 DEF FinishRebalance, EndSession, ForgetSession, LastHealthCheck,
       SessionTypes
  <2>3. FlagTypes'
    BY <1>21 DEF FinishRebalance, EndSession, ForgetSession, LastHealthCheck,
       FlagTypes
  <2> QED
    BY <1>21, <2>1, <2>2, <2>3, Kept DEF FinishRebalance, EndSession,
       ForgetSession, LastHealthCheck
<1>22. CASE EodUnresolved
  <2>1. SessionTypes'
    BY <1>22 DEF EodUnresolved, Goto, sessionVars, SessionTypes
  <2> QED
    BY <1>22, <2>1, Kept DEF EodUnresolved, Goto
<1>23. CASE FinishEod
  <2>1. DatabaseTypes'
    BY <1>23 DEF FinishEod, EndSession, ForgetSession, LastHealthCheck,
       DatabaseTypes
  <2>2. SessionTypes'
    BY <1>23 DEF FinishEod, EndSession, ForgetSession, LastHealthCheck, SessionTypes
  <2>3. FlagTypes'
    BY <1>23 DEF FinishEod, EndSession, ForgetSession, LastHealthCheck, FlagTypes
  <2> QED
    BY <1>23, <2>1, <2>2, <2>3, Kept DEF FinishEod, EndSession, ForgetSession,
       LastHealthCheck
<1>24. CASE PhaseAlreadyDone
  <2>1. SessionTypes'
    BY <1>24 DEF PhaseAlreadyDone, AfterPhase, Goto, SessionTypes
  <2> QED
    BY <1>24, <2>1, Kept DEF PhaseAlreadyDone, AfterPhase, Goto
<1>25. CASE SkipBuy
  <2>1. DatabaseTypes'
    <3>1. stepDone' \subseteq Sides
      BY <1>25 DEF SkipBuy, StepDone, DatabaseTypes, SessionTypes
    <3> QED
      BY <1>25, <3>1 DEF SkipBuy, StepDone, DatabaseTypes
  <2>2. SessionTypes'
    BY <1>25 DEF SkipBuy, StepDone, AfterPhase, SessionTypes, Goto
  <2> QED
    BY <1>25, <2>1, <2>2, Kept DEF SkipBuy, StepDone, AfterPhase, Goto
<1>26. CASE QuotesFail
  <2>1. SessionTypes'
    BY <1>26 DEF QuotesFail, Fail, EndSession, ForgetSession, SessionTypes
  <2>2. FlagTypes'
    BY <1>26 DEF QuotesFail, Fail, EndSession, ForgetSession, FlagTypes
  <2>3. EnvTypes'
    BY <1>26 DEF QuotesFail, Fail, EndSession, ForgetSession, EnvTypes
  <2> QED
    BY <1>26, <2>1, <2>2, <2>3, Kept DEF QuotesFail, Fail, EndSession, ForgetSession
<1>27. CASE ResumePhase
  <2>1. SessionTypes'
    BY <1>27 DEF ResumePhase, Goto, Existing, WindowOpen, SessionTypes
  <2> QED
    BY <1>27, <2>1, Kept DEF ResumePhase, Goto, Existing, WindowOpen
<1>28. CASE FreezeTargets
  <2>1. DatabaseTypes'
    BY <1>28 DEF FreezeTargets, Goto, WindowOpen, DatabaseTypes
  <2>2. SessionTypes'
    BY <1>28 DEF FreezeTargets, Goto, WindowOpen, SessionTypes
  <2> QED
    BY <1>28, <2>1, <2>2, Kept DEF FreezeTargets, Goto, WindowOpen
<1>29. CASE PlanRefused
  <2>1. SessionTypes'
    BY <1>29 DEF PlanRefused, Goto, sessionVars, SessionTypes
  <2> QED
    BY <1>29, <2>1, Kept DEF PlanRefused, Goto
<1>30. CASE Plan
  <2>1. PICK planned \in SUBSET {i \in Intents : SideOf[i] = phase} :
          \E approved \in SUBSET planned :
            /\ intent' = [i \in Intents |-> IF i \in approved THEN "PLANNED"
                                            ELSE IF i \in planned THEN "REJECTED"
                                            ELSE intent[i]]
            /\ todo' = approved
    BY <1>30 DEF Plan
  <2>2. intent' \in [Intents -> IntentStatus] /\ todo' \subseteq Intents
    BY <2>1 DEF DatabaseTypes, IntentStatus
  <2>3. DatabaseTypes'
    BY <1>30, <2>2 DEF Plan, DatabaseTypes, OnlyIntent
  <2>4. SessionTypes'
    BY <1>30, <2>2 DEF Plan, SessionTypes, Goto
  <2> QED
    BY <1>30, <2>3, <2>4, Kept DEF Plan, Goto
<1>31. CASE WaitForPhase
  <2>1. SessionTypes'
    BY <1>31 DEF WaitForPhase, StartReconcile, Goto, SessionTypes
  <2> QED
    BY <1>31, <2>1, Kept DEF WaitForPhase, StartReconcile, Goto
<1>32. ASSUME NEW i \in Intents, RejectLatePlan(i) PROVE TypeOK'
  <2>1. intent' \in [Intents -> IntentStatus]
    BY <1>32, StatusType DEF RejectLatePlan, DatabaseTypes
  <2>2. DatabaseTypes'
    BY <1>32, <2>1 DEF RejectLatePlan, DatabaseTypes, OnlyIntent
  <2>3. SessionTypes'
    BY <1>32 DEF RejectLatePlan, SessionTypes
  <2> QED
    BY <1>32, <2>2, <2>3, Kept DEF RejectLatePlan
<1>33. ASSUME NEW i \in Intents, MarkSubmitting(i) PROVE TypeOK'
  <2>1. intent' \in [Intents -> IntentStatus]
    BY <1>33, StatusType DEF MarkSubmitting, DatabaseTypes
  <2>2. DatabaseTypes'
    BY <1>33, <2>1 DEF MarkSubmitting, DatabaseTypes, OnlyIntent
  <2>3. SessionTypes'
    BY <1>33 DEF MarkSubmitting, SessionTypes, Goto
  <2> QED
    BY <1>33, <2>2, <2>3, Kept DEF MarkSubmitting, Goto
<1>34. CASE Send
  <2>1. cur \in Intents
    BY <1>34 DEF Send, SessionTypes
  <2>2. sends' \in [Intents -> Nat]
    BY <1>34, <2>1 DEF Send, BrokerTypes
  <2>3. BrokerTypes'
    BY <1>34, <2>1, <2>2 DEF Send, BrokerTypes
  <2>4. SessionTypes'
    BY <1>34 DEF Send, SessionTypes, sessionVars, Goto
  <2> QED
    BY <1>34, <2>3, <2>4, Kept DEF Send, Goto
<1>35. CASE Accepted
  <2>1. cur \in Intents /\ Known(book[cur])
    BY <1>35 DEF Accepted, SessionTypes
  <2>2. row' \in [Intents -> Rows]
    <3>1. PICK newer \in BOOLEAN :
            row' = [row EXCEPT ![cur] =
                      Bound(cur, row[cur], [status |-> "PENDING", filled |-> 0], newer)]
      BY <1>35 DEF Accepted
    <3>2. LET order == [status |-> "PENDING", filled |-> 0]
          IN  order \in Orders /\ Known(order)
      BY DEF Orders, OrderStatus, Known
    <3>3. Bound(cur, row[cur], [status |-> "PENDING", filled |-> 0], newer) \in Rows
      BY <2>1, <3>2, BoundType DEF DatabaseTypes
    <3> QED
      BY <3>1, <3>3 DEF DatabaseTypes
  <2>3. intent' \in [Intents -> IntentStatus]
    BY <1>35, <2>1, StatusType DEF Accepted, DatabaseTypes
  <2>4. DatabaseTypes'
    BY <1>35, <2>2, <2>3 DEF Accepted, DatabaseTypes
  <2>5. SessionTypes'
    BY <1>35 DEF Accepted, SessionTypes, Goto
  <2> QED
    BY <1>35, <2>4, <2>5, Kept DEF Accepted, Goto
<1>36. CASE Refused
  <2>1. intent' \in [Intents -> IntentStatus]
    BY <1>36, StatusType DEF Refused, DatabaseTypes
  <2>2. DatabaseTypes'
    BY <1>36, <2>1 DEF Refused, DatabaseTypes, OnlyIntent
  <2>3. BrokerTypes' /\ SessionTypes'
    BY <1>36 DEF Refused, BrokerTypes, SessionTypes, Goto
  <2> QED
    BY <1>36, <2>2, <2>3, Kept DEF Refused, Goto
<1>37. CASE ResultUnknown
  <2>1. intent' \in [Intents -> IntentStatus]
    BY <1>37, StatusType DEF ResultUnknown, DatabaseTypes
  <2>2. DatabaseTypes'
    BY <1>37, <2>1 DEF ResultUnknown, DatabaseTypes, OnlyIntent
  <2>3. SessionTypes'
    BY <1>37 DEF ResultUnknown, SessionTypes, sessionVars, Goto
  <2> QED
    BY <1>37, <2>2, <2>3, Kept DEF ResultUnknown, Goto
<1>38. CASE SellsClosed
  <2>1. SessionTypes'
    BY <1>38 DEF SellsClosed, StartReconcile, Goto, SessionTypes
  <2> QED
    BY <1>38, <2>1, Kept DEF SellsClosed, StartReconcile, Goto
<1>39. CASE PhaseEnds
  <2>1. DatabaseTypes'
    <3>1. stepDone' \subseteq Sides
      BY <1>39 DEF PhaseEnds, StepDone, DatabaseTypes, SessionTypes
    <3> QED
      BY <1>39, <3>1 DEF PhaseEnds, StepDone, DatabaseTypes
  <2>2. SessionTypes'
    BY <1>39 DEF PhaseEnds, StepDone, AfterPhase, SessionTypes, Goto
  <2> QED
    BY <1>39, <2>1, <2>2, Kept DEF PhaseEnds, StepDone, AfterPhase, Goto
<1>40. CASE PollAgain
  <2>1. SessionTypes'
    BY <1>40 DEF PollAgain, StartReconcile, Goto, SessionTypes
  <2> QED
    BY <1>40, <2>1, Kept DEF PollAgain, StartReconcile, Goto
<1>41. CASE WaitExpires
  <2>1. SessionTypes'
    BY <1>41 DEF WaitExpires, Goto, sessionVars, SessionTypes
  <2> QED
    BY <1>41, <2>1, Kept DEF WaitExpires, Goto
<1>42. CASE ListOpenOrders
  <2>1. SessionTypes'
    BY <1>42 DEF ListOpenOrders, Goto, SessionTypes
  <2> QED
    BY <1>42, <2>1, Kept DEF ListOpenOrders, Goto
<1>43. CASE CancelRefused
  <2>1. SessionTypes'
    BY <1>43 DEF CancelRefused, Goto, sessionVars, SessionTypes
  <2> QED
    BY <1>43, <2>1, Kept DEF CancelRefused, Goto
<1>44. CASE AwaitCancels
  <2>1. SessionTypes'
    BY <1>44 DEF AwaitCancels, StartReconcile, Goto, SessionTypes
  <2> QED
    BY <1>44, <2>1, Kept DEF AwaitCancels, StartReconcile, Goto
<1>45. CASE CancelNotConfirmed
  <2>1. SessionTypes'
    BY <1>45 DEF CancelNotConfirmed, Goto, sessionVars, SessionTypes
  <2> QED
    BY <1>45, <2>1, Kept DEF CancelNotConfirmed, Goto
<1>46. ASSUME NEW i \in Intents, CancelOrder(i) PROVE TypeOK'
  <2>1. BrokerTypes'
    BY <1>46 DEF CancelOrder, BrokerTypes
  <2>2. SessionTypes'
    BY <1>46 DEF CancelOrder, SessionTypes
  <2> QED
    BY <1>46, <2>1, <2>2, Kept DEF CancelOrder
<1>47. ASSUME NEW i \in Intents, ConsumeOrder(i) PROVE TypeOK'
  <2>1. Known(book[i]) /\ book[i] \in Orders
    BY <1>47 DEF ConsumeOrder, BrokerTypes
  <2>2. PICK order \in Reported(book[i]), newer \in BOOLEAN :
          row' = [row EXCEPT ![i] = Bound(i, row[i], order, newer)]
    BY <1>47 DEF ConsumeOrder
  <2>3. order \in Orders /\ Known(order)
    BY <2>1, <2>2 DEF Reported, Orders, OrderStatus, Known
  <2>4. row' \in [Intents -> Rows]
    <3>1. Bound(i, row[i], order, newer) \in Rows
      BY <2>2, <2>3, BoundType DEF DatabaseTypes
    <3> QED
      BY <2>2, <3>1 DEF DatabaseTypes
  <2>5. intent' \in [Intents -> IntentStatus]
    BY <1>47, StatusType DEF ConsumeOrder, DatabaseTypes
  <2>6. DatabaseTypes'
    BY <1>47, <2>4, <2>5 DEF ConsumeOrder, DatabaseTypes
  <2> QED
    BY <1>47, <2>6, Kept DEF ConsumeOrder
<1>48. ASSUME NEW i \in Intents, ConsumeTrade(i) PROVE TypeOK'
  <2>1. PICK t \in 1 .. book[i].filled :
          /\ applied' = [applied EXCEPT ![i] = applied[i] \cup {t}]
          /\ overdrawn' \in CashAfter([j \in Intents |-> IF j = i THEN {t} \ applied[i]
                                                                   ELSE {}])
    BY <1>48 DEF ConsumeTrade
  <2>2. applied' \in [Intents -> SUBSET Nat]
    <3>1. t \in Nat
      BY OrderTypes DEF BrokerTypes
    <3>2. applied[i] \cup {t} \in SUBSET Nat
      BY <3>1 DEF DatabaseTypes
    <3> QED
      BY <2>1, <3>2 DEF DatabaseTypes
  <2>3. overdrawn' \in BOOLEAN
    BY <2>1 DEF DatabaseTypes, CashAfter
  <2>4. breach' \in BOOLEAN
    BY <1>48 DEF ConsumeTrade
  <2>5. account' \in {"ACTIVE", "PAUSED"}
    BY <1>48 DEF ConsumeTrade, DatabaseTypes
  <2>6. DatabaseTypes'
    BY <1>48, <2>2, <2>3, <2>5 DEF ConsumeTrade, DatabaseTypes
  <2>7. FlagTypes'
    BY <1>48, <2>4 DEF ConsumeTrade, FlagTypes, flagVars
  <2> QED
    BY <1>48, <2>6, <2>7, Kept DEF ConsumeTrade
<1>49. CASE ReportBreach
  <2>1. FlagTypes'
    BY <1>49 DEF ReportBreach, FlagTypes
  <2> QED
    BY <1>49, <2>1, Kept DEF ReportBreach
<1>50. CASE BrokerUnhealthy
  <2>1. FlagTypes'
    BY <1>50 DEF BrokerUnhealthy, FlagTypes
  <2>2. EnvTypes'
    BY <1>50 DEF BrokerUnhealthy, EnvTypes
  <2> QED
    BY <1>50, <2>1, <2>2, Kept DEF BrokerUnhealthy
<1>51. ASSUME NEW i \in Intents, Arrive(i) PROVE TypeOK'
  <2>1. PICK status \in {"PENDING", "REJECTED"} :
          book' = [book EXCEPT ![i] = [status |-> status, filled |-> 0]]
    BY <1>51 DEF Arrive
  <2>2. [status |-> status, filled |-> 0] \in Orders
    BY DEF Orders, OrderStatus
  <2>3. BrokerTypes'
    BY <1>51, <2>1, <2>2 DEF Arrive, BrokerTypes
  <2> QED
    BY <1>51, <2>3, Kept DEF Arrive
<1>52. ASSUME NEW i \in Intents, Lost(i) PROVE TypeOK'
  <2>1. BrokerTypes'
    BY <1>52 DEF Lost, BrokerTypes
  <2> QED
    BY <1>52, <2>1, Kept DEF Lost
<1>53. ASSUME NEW i \in Intents, Fill(i) PROVE TypeOK'
  <2>1. PICK status \in OrderStatus :
          book' = [book EXCEPT ![i] = [status |-> status, filled |-> book[i].filled + 1]]
    BY <1>53 DEF Fill, OrderStatus
  <2>2. [status |-> status, filled |-> book[i].filled + 1] \in Orders
    BY OrderTypes DEF BrokerTypes, Orders
  <2>3. BrokerTypes'
    BY <1>53, <2>1, <2>2 DEF Fill, BrokerTypes
  <2> QED
    BY <1>53, <2>3, Kept DEF Fill
<1>54. ASSUME NEW i \in Intents, CloseOrder(i) PROVE TypeOK'
  <2>1. [book[i] EXCEPT !.status = "CANCELED"] \in Orders
    BY <1>54, OrderTypes DEF CloseOrder, OpenAtBroker, BrokerTypes, OrderStatus
  <2>2. BrokerTypes'
    BY <1>54, <2>1 DEF CloseOrder, BrokerTypes
  <2> QED
    BY <1>54, <2>2, Kept DEF CloseOrder
<1>55. CASE Tick
  <2>1. EnvTypes'
    BY <1>55 DEF Tick, EnvTypes, Close
  <2> QED
    BY <1>55, <2>1, Kept DEF Tick
<1> QED
  BY <1>1, <1>2, <1>3, <1>4, <1>5, <1>6, <1>7, <1>8, <1>9, <1>10, <1>11, <1>12,
     <1>13, <1>14, <1>15, <1>16, <1>17, <1>18, <1>19, <1>20, <1>21, <1>22, <1>23,
     <1>24, <1>25, <1>26, <1>27, <1>28, <1>29, <1>30, <1>31, <1>32, <1>33, <1>34,
     <1>35, <1>36, <1>37, <1>38, <1>39, <1>40, <1>41, <1>42, <1>43, <1>44, <1>45,
     <1>46, <1>47, <1>48, <1>49, <1>50, <1>51, <1>52, <1>53, <1>54, <1>55
     DEF Next, Engine, Scheduler, Session, Phase, Waiting, Consumer, Broker

\* Every variable of a trading day holds a value of its kind, and the engine calls
\* order_stock, or waits for its answer, only with an intent in hand.
THEOREM TypeCorrect == Spec => []TypeOK
<1>1. Init => TypeOK
  <2> SUFFICES ASSUME Init PROVE TypeOK
    OBVIOUS
  <2>1. DatabaseTypes
    BY NoOrderType, OrderTypes DEF Init, DatabaseTypes, IntentStatus
  <2>2. BrokerTypes
    BY NoOrderType DEF Init, BrokerTypes
  <2>3. SessionTypes
    BY NoOrderType DEF Init, SessionTypes, PCs, Sides
  <2>4. FlagTypes
    BY DEF Init, FlagTypes
  <2>5. EnvTypes
    BY DEF Init, EnvTypes, BeforeStart, Close
  <2> QED
    BY <2>1, <2>2, <2>3, <2>4, <2>5 DEF TypeOK
<1>2. TypeOK /\ [Next]_vars => TypeOK'
  <2>1. CASE Next
    BY <2>1, TypeStep
  <2>2. CASE UNCHANGED vars
    BY <2>2, Kept DEF vars
  <2> QED
    BY <2>1, <2>2
<1> QED
  BY <1>1, <1>2, PTL DEF Spec

(***************************************************************************)
(* An intent is submitted at most once.                                    *)
(***************************************************************************)

\* What every step but Plan does to a status: it leaves ABSENT and PLANNED at
\* most, and never returns to them.
Advances(old, new) ==
  (new \in Unsent => new = old) /\ (old = "ABSENT" => new = "ABSENT")

\* A conditional status update never goes back to ABSENT or PLANNED.
LEMMA StatusAdvances ==
  ASSUME NEW current \in IntentStatus,
         NEW target \in {"SUBMITTING", "SUBMITTED", "SUBMIT_UNKNOWN", "REJECTED",
                         "COMPLETED", "INCOMPLETE"}
  PROVE  Advances(current, SetIntentStatus(current, target))
BY DEF Advances, SetIntentStatus, AllowedFrom, Unsent

\* A step that calls order_stock for nobody, queues nobody and starts neither
\* a plan nor a submission.
Calm ==
  /\ \A i \in Intents : Advances(intent[i], intent'[i])
  /\ sends' = sends /\ todo' \subseteq todo
  /\ pc' \notin {"plan", "send"} \/ UNCHANGED <<pc, phase, cur>>

\* A calm step preserves the invariant.
LEMMA CalmStep == TypeOK /\ SendInv /\ Calm => SendInv'
<1> SUFFICES ASSUME TypeOK, SendInv, Calm PROVE SendInv'
  OBVIOUS
<1> USE DEF Calm, Advances, Unsent, SendInv
<1>1. SubmittedAtMostOnce' /\ NotSentYet'
  BY DEF SubmittedAtMostOnce, NotSentYet
<1>2. QueuedAreUnsent'
  BY DEF QueuedAreUnsent, TypeOK, SessionTypes
<1>3. PlansAreNew'
  BY DEF PlansAreNew
<1>4. MarkedBeforeSent'
  BY DEF MarkedBeforeSent, TypeOK, SessionTypes
<1> QED
  BY <1>1, <1>2, <1>3, <1>4

\* Every step preserves the invariant.
LEMMA SendStep == TypeOK /\ SendInv /\ Next => SendInv'
<1> SUFFICES ASSUME TypeOK, SendInv, Next PROVE SendInv'
  OBVIOUS
<1>1. CASE Restart
  BY <1>1, CalmStep DEF Restart, dbVars, brokerVars, sessionVars, Calm, Advances
<1>2. CASE Crash
  BY <1>2, CalmStep DEF Crash, ForgetSession, dbVars, brokerVars, Calm, Advances
<1>3. CASE RebalanceHandled
  BY <1>3, CalmStep DEF RebalanceHandled, dbVars, brokerVars, sessionVars, Calm,
     Advances
<1>4. CASE RebalanceMissed
  BY <1>4, CalmStep DEF RebalanceMissed, brokerVars, sessionVars, Calm, Advances
<1>5. CASE RebalanceDue
  BY <1>5, CalmStep DEF RebalanceDue, OpenSession, dbVars, brokerVars, Calm,
     Advances
<1>6. CASE EodDue
  BY <1>6, CalmStep DEF EodDue, OpenSession, dbVars, brokerVars, Calm, Advances
<1>7. CASE Connect
  BY <1>7, CalmStep DEF Connect, StartReconcile, Goto, dbVars, brokerVars, Calm,
     Advances
<1>8. CASE ConnectFails
  BY <1>8, CalmStep DEF ConnectFails, Fail, EndSession, ForgetSession, dbVars,
     brokerVars, Calm, Advances
<1>9. CASE BrokerCallFails
  BY <1>9, CalmStep DEF BrokerCallFails, PauseAndFail, EndSession, ForgetSession,
     brokerVars, Calm, Advances
<1>10. CASE QueryOrders
  BY <1>10, CalmStep DEF QueryOrders, Goto, dbVars, brokerVars, Calm, Advances
<1>11. CASE QueryOrdersUnknown
  BY <1>11, CalmStep DEF QueryOrdersUnknown, Goto, dbVars, brokerVars, Calm,
     Advances
<1>12. CASE QueryTrades
  BY <1>12, CalmStep DEF QueryTrades, Goto, dbVars, brokerVars, Calm, Advances
<1>13. CASE Reconcile
  <2>1. \A i \in Intents : intent'[i] = Reconciled(i)
    BY <1>13 DEF Reconcile
  <2>2. ASSUME NEW i \in Intents
        PROVE  Advances(intent[i], Reconciled(i))
    <3>1. intent[i] \in IntentStatus
      BY DEF TypeOK, DatabaseTypes
    <3>2. SetIntentStatus(intent[i], "SUBMITTED") \in IntentStatus
      BY <3>1, StatusType
    <3> QED
      BY <3>1, <3>2, StatusAdvances DEF Reconciled, Advances
  <2> QED
    BY <1>13, <2>1, <2>2, CalmStep DEF Reconcile, Calm, Goto, sessionVars,
       brokerVars
<1>14. CASE Pause
  BY <1>14, CalmStep DEF Pause, PauseAndFail, EndSession, ForgetSession,
     brokerVars, Calm, Advances
<1>15. CASE ResumeAccount
  BY <1>15, CalmStep DEF ResumeAccount, Goto, brokerVars, sessionVars, Calm,
     Advances
<1>16. CASE AdmitRebalance
  BY <1>16, CalmStep DEF AdmitRebalance, StartReconcile, Goto, dbVars,
     brokerVars, Calm, Advances
<1>17. CASE RebalanceTooLate
  BY <1>17, CalmStep DEF RebalanceTooLate, EndSession, ForgetSession, brokerVars,
     Calm, Advances
<1>18. CASE AccountNotActive
  BY <1>18, CalmStep DEF AccountNotActive, Fail, EndSession, ForgetSession,
     dbVars, brokerVars, Calm, Advances
<1>19. CASE AdmitEod
  BY <1>19, CalmStep DEF AdmitEod, StartReconcile, Goto, dbVars, brokerVars,
     Calm, Advances
<1>20. CASE BeginPhases
  BY <1>20, CalmStep DEF BeginPhases, Goto, dbVars, brokerVars, sessionVars,
     Calm, Advances
<1>21. CASE FinishRebalance
  BY <1>21, CalmStep DEF FinishRebalance, EndSession, ForgetSession,
     LastHealthCheck, brokerVars, Calm, Advances
<1>22. CASE EodUnresolved
  BY <1>22, CalmStep DEF EodUnresolved, Goto, dbVars, brokerVars, sessionVars,
     Calm, Advances
<1>23. CASE FinishEod
  BY <1>23, CalmStep DEF FinishEod, EndSession, ForgetSession, LastHealthCheck,
     brokerVars, Calm, Advances
<1>24. CASE PhaseAlreadyDone
  BY <1>24, CalmStep DEF PhaseAlreadyDone, AfterPhase, Goto, dbVars, brokerVars,
     Calm, Advances
<1>25. CASE SkipBuy
  BY <1>25, CalmStep DEF SkipBuy, StepDone, AfterPhase, Goto, brokerVars, Calm,
     Advances
<1>26. CASE QuotesFail
  BY <1>26, CalmStep DEF QuotesFail, Fail, EndSession, ForgetSession, dbVars,
     brokerVars, Calm, Advances
<1>27. CASE ResumePhase
  <2>1. /\ pc' \in {"pause", "submit"} /\ UNCHANGED <<intent, sends>>
        /\ \A i \in todo' : i \in Intents /\ intent[i] = "PLANNED"
    BY <1>27 DEF ResumePhase, Existing, Goto, dbVars, brokerVars
  <2> QED
    BY <2>1 DEF SendInv, SubmittedAtMostOnce, NotSentYet, QueuedAreUnsent,
       PlansAreNew,
                MarkedBeforeSent, Unsent
<1>28. CASE FreezeTargets
  <2>1. pc' = "plan" /\ UNCHANGED <<intent, sends, todo, phase>>
    BY <1>28 DEF FreezeTargets, Goto, brokerVars
  <2>2. PlansAreNew'
    BY <1>28, <2>1 DEF FreezeTargets, Existing, PlansAreNew
  <2> QED
    BY <2>1, <2>2 DEF SendInv, SubmittedAtMostOnce, NotSentYet, QueuedAreUnsent,
                      MarkedBeforeSent
<1>29. CASE PlanRefused
  BY <1>29, CalmStep DEF PlanRefused, Goto, dbVars, brokerVars, sessionVars,
     Calm, Advances
<1>30. CASE Plan
  <2>1. \A i \in Intents : SideOf[i] = phase => intent[i] = "ABSENT" /\ sends[i] = 0
    BY <1>30 DEF Plan, SendInv, PlansAreNew, NotSentYet, Unsent
  <2>2. PICK planned \in SUBSET {i \in Intents : SideOf[i] = phase} :
          \E approved \in SUBSET planned :
            /\ intent' = [i \in Intents |-> IF i \in approved THEN "PLANNED"
                                            ELSE IF i \in planned THEN "REJECTED"
                                            ELSE intent[i]]
            /\ todo' = approved
    BY <1>30 DEF Plan
  <2>3. pc' = "submit" /\ sends' = sends
    BY <1>30 DEF Plan, Goto, brokerVars
  <2>4. NotSentYet'
    BY <2>1, <2>2, <2>3 DEF SendInv, NotSentYet, Unsent
  <2>5. QueuedAreUnsent'
    BY <2>1, <2>2, <2>3 DEF QueuedAreUnsent
  <2> QED
    BY <2>3, <2>4, <2>5 DEF SendInv, SubmittedAtMostOnce, PlansAreNew,
       MarkedBeforeSent
<1>31. CASE WaitForPhase
  BY <1>31, CalmStep DEF WaitForPhase, StartReconcile, Goto, dbVars, brokerVars,
     Calm, Advances
<1>32. ASSUME NEW i \in Intents, RejectLatePlan(i) PROVE SendInv'
  <2>1. intent' = [intent EXCEPT ![i] = SetIntentStatus(intent[i], "REJECTED")]
    BY <1>32 DEF RejectLatePlan
  <2>2. \A j \in Intents : Advances(intent[j], intent'[j])
    BY <2>1, StatusAdvances DEF TypeOK, DatabaseTypes, SessionTypes, Advances
  <2> QED
    BY <1>32, <2>2, CalmStep DEF RejectLatePlan, brokerVars, flagVars, Calm
<1>33. ASSUME NEW i \in Intents, MarkSubmitting(i) PROVE SendInv'
  <2>1. /\ i \in todo /\ todo' = todo \ {i} /\ cur' = i /\ pc' = "send" /\ sends' = sends
        /\ intent' = [intent EXCEPT ![i] = SetIntentStatus(intent[i], "SUBMITTING")]
    BY <1>33 DEF MarkSubmitting, Goto, brokerVars
  <2>2. sends[i] = 0 /\ intent[i] \in IntentStatus \ {"ABSENT"}
    BY <2>1 DEF SendInv, QueuedAreUnsent, TypeOK, DatabaseTypes
  <2>3. SetIntentStatus(intent[i], "SUBMITTING") \notin Unsent
    BY <2>2 DEF SetIntentStatus, AllowedFrom, Unsent, IntentStatus
  <2>4. intent'[i] \notin Unsent /\ \A j \in Intents \ {i} : intent'[j] = intent[j]
    BY <2>1, <2>3 DEF TypeOK, DatabaseTypes
  <2>5. NotSentYet' /\ MarkedBeforeSent'
    BY <2>1, <2>2, <2>4 DEF SendInv, NotSentYet, MarkedBeforeSent
  <2>6. QueuedAreUnsent'
    BY <2>1, <2>4 DEF SendInv, QueuedAreUnsent, TypeOK, SessionTypes
  <2> QED
    BY <2>1, <2>5, <2>6 DEF SendInv, SubmittedAtMostOnce, PlansAreNew
<1>34. CASE Send
  <2>1. /\ cur \in Intents /\ cur \notin todo /\ sends[cur] = 0 /\ intent[cur] \notin Unsent
        /\ sends \in [Intents -> Nat] /\ todo \subseteq Intents
    BY <1>34 DEF Send, SendInv, MarkedBeforeSent, TypeOK, SessionTypes, BrokerTypes
  <2>2. /\ sends' = [sends EXCEPT ![cur] = sends[cur] + 1] /\ pc' = "answer"
        /\ UNCHANGED <<intent, todo>>
    BY <1>34 DEF Send, Goto, dbVars, sessionVars
  <2>3. sends'[cur] = 1 /\ \A i \in Intents \ {cur} : sends'[i] = sends[i]
    BY <2>1, <2>2
  <2>4. SubmittedAtMostOnce'
    BY <2>3 DEF SendInv, SubmittedAtMostOnce
  <2>5. NotSentYet' /\ QueuedAreUnsent'
    BY <2>1, <2>2, <2>3 DEF SendInv, NotSentYet, QueuedAreUnsent
  <2> QED
    BY <2>2, <2>4, <2>5 DEF SendInv, PlansAreNew, MarkedBeforeSent
<1>35. CASE Accepted
  <2>1. intent' = [intent EXCEPT ![cur] = SetIntentStatus(intent[cur], "SUBMITTED")]
    BY <1>35 DEF Accepted
  <2>2. \A j \in Intents : Advances(intent[j], intent'[j])
    BY <2>1, StatusAdvances DEF TypeOK, DatabaseTypes, SessionTypes, Advances
  <2> QED
    BY <1>35, <2>2, CalmStep DEF Accepted, Goto, flagVars, brokerVars, Calm
<1>36. CASE Refused
  <2>1. intent' = [intent EXCEPT ![cur] = SetIntentStatus(intent[cur], "REJECTED")]
    BY <1>36 DEF Refused
  <2>2. \A j \in Intents : Advances(intent[j], intent'[j])
    BY <2>1, StatusAdvances DEF TypeOK, DatabaseTypes, SessionTypes, Advances
  <2> QED
    BY <1>36, <2>2, CalmStep DEF Refused, Goto, flagVars, Calm
<1>37. CASE ResultUnknown
  <2>1. intent' = [intent EXCEPT ![cur] = SetIntentStatus(intent[cur], "SUBMIT_UNKNOWN")]
    BY <1>37 DEF ResultUnknown
  <2>2. \A j \in Intents : Advances(intent[j], intent'[j])
    BY <2>1, StatusAdvances DEF TypeOK, DatabaseTypes, SessionTypes, Advances
  <2> QED
    BY <1>37, <2>2, CalmStep DEF ResultUnknown, Goto, flagVars, brokerVars,
       sessionVars, Calm
<1>38. CASE SellsClosed
  BY <1>38, CalmStep DEF SellsClosed, StartReconcile, Goto, dbVars, brokerVars,
     Calm, Advances
<1>39. CASE PhaseEnds
  BY <1>39, CalmStep DEF PhaseEnds, StepDone, AfterPhase, Goto, brokerVars, Calm,
     Advances
<1>40. CASE PollAgain
  BY <1>40, CalmStep DEF PollAgain, StartReconcile, Goto, dbVars, brokerVars,
     Calm, Advances
<1>41. CASE WaitExpires
  BY <1>41, CalmStep DEF WaitExpires, Goto, dbVars, brokerVars, sessionVars,
     Calm, Advances
<1>42. CASE ListOpenOrders
  BY <1>42, CalmStep DEF ListOpenOrders, Goto, dbVars, brokerVars, Calm, Advances
<1>43. CASE CancelRefused
  BY <1>43, CalmStep DEF CancelRefused, Goto, dbVars, brokerVars, sessionVars,
     Calm, Advances
<1>44. CASE AwaitCancels
  BY <1>44, CalmStep DEF AwaitCancels, StartReconcile, Goto, dbVars, brokerVars,
     Calm, Advances
<1>45. CASE CancelNotConfirmed
  BY <1>45, CalmStep DEF CancelNotConfirmed, Goto, dbVars, brokerVars,
     sessionVars, Calm, Advances
<1>46. ASSUME NEW i \in Intents, CancelOrder(i) PROVE SendInv'
  BY <1>46, CalmStep DEF CancelOrder, dbVars, Calm, Advances
<1>47. ASSUME NEW i \in Intents, ConsumeOrder(i) PROVE SendInv'
  <2>1. intent' = [intent EXCEPT ![i] = SetIntentStatus(intent[i], "SUBMITTED")]
    BY <1>47 DEF ConsumeOrder
  <2>2. \A j \in Intents : Advances(intent[j], intent'[j])
    BY <2>1, StatusAdvances DEF TypeOK, DatabaseTypes, SessionTypes, Advances
  <2> QED
    BY <1>47, <2>2, CalmStep DEF ConsumeOrder, brokerVars, sessionVars, flagVars,
       Calm
<1>48. ASSUME NEW i \in Intents, ConsumeTrade(i) PROVE SendInv'
  BY <1>48, CalmStep DEF ConsumeTrade, brokerVars, sessionVars, Calm, Advances
<1>49. CASE ReportBreach
  BY <1>49, CalmStep DEF ReportBreach, dbVars, brokerVars, sessionVars, Calm,
     Advances
<1>50. CASE BrokerUnhealthy
  BY <1>50, CalmStep DEF BrokerUnhealthy, dbVars, brokerVars, sessionVars, Calm,
     Advances
<1>51. ASSUME NEW i \in Intents, Arrive(i) PROVE SendInv'
  BY <1>51, CalmStep DEF Arrive, dbVars, sessionVars, Calm, Advances
<1>52. ASSUME NEW i \in Intents, Lost(i) PROVE SendInv'
  BY <1>52, CalmStep DEF Lost, dbVars, sessionVars, Calm, Advances
<1>53. ASSUME NEW i \in Intents, Fill(i) PROVE SendInv'
  BY <1>53, CalmStep DEF Fill, dbVars, sessionVars, Calm, Advances
<1>54. ASSUME NEW i \in Intents, CloseOrder(i) PROVE SendInv'
  BY <1>54, CalmStep DEF CloseOrder, dbVars, sessionVars, Calm, Advances
<1>55. CASE Tick
  BY <1>55, CalmStep DEF Tick, dbVars, brokerVars, sessionVars, Calm, Advances
<1> QED
  BY <1>1, <1>2, <1>3, <1>4, <1>5, <1>6, <1>7, <1>8, <1>9, <1>10, <1>11, <1>12,
     <1>13, <1>14, <1>15, <1>16, <1>17, <1>18, <1>19, <1>20, <1>21, <1>22, <1>23,
     <1>24, <1>25, <1>26, <1>27, <1>28, <1>29, <1>30, <1>31, <1>32, <1>33, <1>34,
     <1>35, <1>36, <1>37, <1>38, <1>39, <1>40, <1>41, <1>42, <1>43, <1>44, <1>45,
     <1>46, <1>47, <1>48, <1>49, <1>50, <1>51, <1>52, <1>53, <1>54, <1>55
     DEF Next, Engine, Scheduler, Session, Phase, Waiting, Consumer, Broker

\* Why an intent is submitted once holds in every state of the day.
THEOREM SendSafety == Spec => []SendInv
<1>1. Init => SendInv
  BY DEF Init, SendInv, SubmittedAtMostOnce, NotSentYet, QueuedAreUnsent, PlansAreNew,
     MarkedBeforeSent
<1>2. TypeOK /\ SendInv /\ [Next]_vars => SendInv'
  <2>1. CASE Next
    BY <2>1, SendStep
  <2>2. CASE UNCHANGED vars
    BY <2>2, CalmStep DEF vars, Calm, Advances, dbVars, brokerVars, sessionVars
  <2> QED
    BY <2>1, <2>2
<1> QED
  BY <1>1, <1>2, TypeCorrect, PTL DEF Spec

\* order_stock is called at most once for an intent, whatever the interleaving
\* of the engine, the callbacks, the broker, crashes and restarts.
THEOREM AtMostOnce == Spec => []SubmittedAtMostOnce
<1>1. SendInv => SubmittedAtMostOnce
  BY DEF SendInv
<1> QED
  BY <1>1, SendSafety, PTL
--------------------------------------------------------------------------------
(* What the database and the ledger may say. *)

(***************************************************************************)
(* The invariant.  A final status at the broker never changes, so a final  *)
(* report is true whenever it arrives; every other report, query result    *)
(* and booked trade is about a past state of the same order, and can only  *)
(* fall short of the present one.                                          *)
(***************************************************************************)

\* The broker knows only what was sent, once it arrived, and never overfills.
BrokerInv ==
  \A i \in Intents :
    /\ Known(book[i]) => sends[i] > 0
    /\ i \in transit => ~Known(book[i]) /\ sends[i] > 0
    /\ book[i].filled <= Qty[i]
    /\ OpenAtBroker(i) => book[i].filled < Qty[i]

\* A query result is a past of the broker's book.
SnapshotInv ==
  \A i \in Intents :
    /\ Known(seenOrders[i]) => Known(book[i])
    /\ seenOrders[i].filled <= book[i].filled
    /\ IsTerminal(seenOrders[i].status) => seenOrders[i] = book[i]
    /\ seenTrades[i] <= book[i].filled

\* The ledger holds no trade the broker did not make.
LedgerInv == \A i \in Intents : applied[i] \subseteq 1 .. book[i].filled

\* A rejected intent has no order and never will; the ones to submit are still
\* plans, and the one about to leave is marked.
RejectedInv ==
  /\ \A i \in Intents : intent[i] = "REJECTED" => ~Known(book[i]) /\ i \notin transit
  /\ \A i \in todo : intent[i] = "PLANNED"
  /\ pc = "send" => intent[cur] = "SUBMITTING"

OutcomeInv ==
  BrokerInv /\ SnapshotInv /\ LedgerInv /\ RejectedInv /\ SavedOrderIsTruthful /\ OutcomeIsConfirmed

-----------------------------------------------------------------------------
(* Lemmas about statuses, orders and rows. *)

Targets == {"SUBMITTING", "SUBMITTED", "SUBMIT_UNKNOWN", "REJECTED", "COMPLETED", "INCOMPLETE"}
FinalStatus == {"COMPLETED", "INCOMPLETE", "REJECTED"}

\* A final status is never left, and every update writes its target or nothing.
LEMMA FinalStays ==
  ASSUME NEW current \in IntentStatus, NEW target \in Targets
  PROVE  /\ current \in FinalStatus => SetIntentStatus(current, target) = current
         /\ SetIntentStatus(current, target) \in {current, target}
BY DEF SetIntentStatus, AllowedFrom, FinalStatus, Targets

\* What is known of an order from its type.
LEMMA OrderFacts ==
  ASSUME NEW order \in Orders
  PROVE  /\ order.filled \in Nat
         /\ ~Known(order) => order = NoOrder /\ order.filled = 0
         /\ order.status \in OrderStatus \cup {"NONE"}
         /\ IsActive(order.status) => Known(order) /\ ~IsTerminal(order.status)
         /\ IsTerminal(order.status) => Known(order)
BY DEF Orders, NoOrder, Known, IsActive, IsTerminal, OrderStatus

\* A report of a past state of an order, merged into a row that tells the
\* truth about the order, leaves a row that does.
Truthful(saved, order) ==
  /\ saved.filled <= order.filled
  /\ IsTerminal(saved.status) => saved.status = order.status

\* A saved order merged with a report is not ahead of the broker's order when
\* neither of the two is (repository.py:1084-1190).
LEMMA BoundIsTruthful ==
  ASSUME NEW i \in Intents, NEW saved \in Rows, NEW order \in Orders, NEW newer \in BOOLEAN,
         NEW report \in Orders, Known(report), Truthful(saved, order), Truthful(report, order)
  PROVE  Truthful(Bound(i, saved, report, newer), order)
<1> DEFINE sent == Report(i, report)
<1>1. /\ saved.filled \in Nat /\ report.filled \in Nat /\ order.filled \in Nat
  BY DEF Rows, NoRow, Orders, NoOrder
<1>2. sent.status = report.status /\ sent.filled = report.filled
  BY DEF Report
<1>3. CASE ~Known(saved)
  BY <1>2, <1>3 DEF Bound, Truthful
<1>4. CASE Known(saved)
  <2> DEFINE merged == MergeReport(saved, sent, newer)
  <2>1. /\ merged.status = MergedStatus(saved, sent, newer)
        /\ merged.filled = Larger(saved.filled, sent.filled)
    BY DEF MergeReport
  <2>2. merged.filled <= order.filled
    BY <1>1, <1>2, <2>1 DEF Larger, Truthful
  <2>3. IsTerminal(merged.status) => merged.status = order.status
    <3>1. CASE IsTerminal(saved.status)
      BY <1>2, <2>1, <3>1 DEF MergedStatus, Truthful, IsTerminal, IsActive, OrderStatus
    <3>2. CASE ~IsTerminal(saved.status) /\ IsTerminal(sent.status)
      BY <1>2, <2>1, <3>2 DEF MergedStatus, Truthful
    <3>3. CASE ~IsTerminal(saved.status) /\ ~IsTerminal(sent.status)
      <4>1. MergedStatus(saved, sent, newer) \in {"PARTIALLY_FILLED", "PENDING", saved.status}
        BY <3>3 DEF MergedStatus
      <4>2. ~IsTerminal("PARTIALLY_FILLED") /\ ~IsTerminal("PENDING")
        BY DEF IsTerminal, IsActive
      <4> QED
        BY <2>1, <3>3, <4>1, <4>2
    <3> QED
      BY <3>1, <3>2, <3>3
  <2> QED
    BY <1>4, <2>2, <2>3 DEF Bound, Truthful
<1> QED
  BY <1>3, <1>4

\* Every report of an order a callback may deliver is of a past of the order.
LEMMA ReportsAreTruthful ==
  ASSUME NEW order \in Orders, Known(order), NEW report \in Reported(order)
  PROVE  report \in Orders /\ Known(report) /\ Truthful(report, order)
BY DEF Reported, Orders, NoOrder, Known, Truthful, IsTerminal, IsActive, OrderStatus
-----------------------------------------------------------------------------
(* The invariant is kept, and what is recorded only grows. *)

\* What no step undoes: an outcome, a submission, a booked trade and the final
\* state of an order that was sent.
Grows ==
  \A i \in Intents :
    /\ intent[i] \in FinalStatus => intent'[i] = intent[i]
    /\ sends[i] <= sends'[i]
    /\ applied[i] \subseteq applied'[i]
    /\ book'[i] # book[i] => sends[i] > 0 /\ ~IsTerminal(book[i].status)

\* A step that changes no order, no status and no booked trade.
Quiet ==
  /\ UNCHANGED <<book, transit, sends, intent, applied, row>>
  /\ seenOrders' = seenOrders \/ seenOrders' = [i \in Intents |-> NoOrder]
  /\ seenTrades' = seenTrades \/ seenTrades' = [i \in Intents |-> 0]
  /\ \A i \in todo' : i \in todo \/ (i \in Intents /\ intent[i] = "PLANNED")
  /\ pc' # "send" \/ UNCHANGED <<pc, cur>>

\* A step that leaves the broker and the database alone keeps the invariant.
LEMMA QuietStep == TypeOK /\ OutcomeInv /\ Quiet => OutcomeInv' /\ Grows
<1> SUFFICES ASSUME TypeOK, OutcomeInv, Quiet PROVE OutcomeInv' /\ Grows
  OBVIOUS
<1> USE DEF Quiet, OutcomeInv
<1>1. BrokerInv'
  BY DEF BrokerInv, OpenAtBroker
<1>2. SnapshotInv'
  <2> SUFFICES ASSUME NEW i \in Intents
               PROVE  /\ Known(seenOrders'[i]) => Known(book[i])
                      /\ seenOrders'[i].filled <= book[i].filled
                      /\ IsTerminal(seenOrders'[i].status) => seenOrders'[i] = book[i]
                      /\ seenTrades'[i] <= book[i].filled
    BY DEF SnapshotInv
  <2>1. book[i].filled \in Nat
    BY OrderFacts DEF TypeOK, BrokerTypes
  <2>2. NoOrder.filled = 0 /\ ~Known(NoOrder) /\ ~IsTerminal(NoOrder.status)
    BY DEF NoOrder, Known, IsTerminal, OrderStatus
  <2>3. seenOrders'[i] = seenOrders[i] \/ seenOrders'[i] = NoOrder
    OBVIOUS
  <2>4. seenTrades'[i] = seenTrades[i] \/ seenTrades'[i] = 0
    OBVIOUS
  <2> QED
    BY <2>1, <2>2, <2>3, <2>4 DEF SnapshotInv
<1>3. LedgerInv' /\ SavedOrderIsTruthful' /\ OutcomeIsConfirmed'
  BY DEF LedgerInv, SavedOrderIsTruthful, OutcomeIsConfirmed
<1>4. RejectedInv'
  BY DEF RejectedInv
<1>5. Grows
  BY DEF Grows, TypeOK, BrokerTypes
<1> QED
  BY <1>1, <1>2, <1>3, <1>4, <1>5

\* A step of the broker: an order moves only while it is not final.
BookMoves ==
  \A i \in Intents :
    \/ book'[i] = book[i]
    \/ /\ ~IsTerminal(book[i].status) /\ Known(book'[i])
       /\ book[i].filled <= book'[i].filled

\* Booking a trade that the broker has made keeps the invariant.
LEMMA BookStep ==
  ASSUME TypeOK, TypeOK', OutcomeInv, BookMoves,
         UNCHANGED <<intent, row, applied, seenOrders, seenTrades>>
  PROVE  SnapshotInv' /\ LedgerInv' /\ SavedOrderIsTruthful' /\ OutcomeIsConfirmed'
<1>1. \A i \in Intents : /\ book[i].filled \in Nat /\ book'[i].filled \in Nat
                         /\ book[i].filled <= book'[i].filled
  BY OrderFacts DEF TypeOK, BrokerTypes, BookMoves
<1>2. \A i \in Intents : seenOrders[i].filled \in Nat /\ seenTrades[i] \in Nat /\ row[i].filled \in Nat
  BY OrderFacts DEF TypeOK, SessionTypes, DatabaseTypes, Rows, NoRow
<1>3. SnapshotInv'
  <2>1. ASSUME NEW i \in Intents, IsTerminal(seenOrders[i].status) PROVE book'[i] = book[i]
    BY <2>1 DEF BookMoves, OutcomeInv, SnapshotInv
  <2> QED
    BY <1>1, <1>2, <2>1 DEF OutcomeInv, SnapshotInv, BookMoves
<1>4. LedgerInv'
  BY <1>1 DEF OutcomeInv, LedgerInv
<1>5. SavedOrderIsTruthful'
  <2>1. ASSUME NEW i \in Intents, IsTerminal(row[i].status) PROVE book'[i] = book[i]
    BY <2>1 DEF BookMoves, OutcomeInv, SavedOrderIsTruthful
  <2> QED
    BY <1>1, <1>2, <2>1 DEF OutcomeInv, SavedOrderIsTruthful
<1>6. OutcomeIsConfirmed'
  <2>1. ASSUME NEW i \in Intents, intent[i] \in {"COMPLETED", "INCOMPLETE"} PROVE book'[i] = book[i]
    <3>1. IsTerminal(book[i].status)
      BY <2>1 DEF OutcomeInv, OutcomeIsConfirmed, IsTerminal, IsActive, OrderStatus
    <3> QED
      BY <3>1 DEF BookMoves
  <2> QED
    BY <2>1 DEF OutcomeInv, OutcomeIsConfirmed
<1> QED
  BY <1>3, <1>4, <1>5, <1>6

\* A step that changes a status but records no outcome.
LEMMA StatusStep ==
  ASSUME TypeOK, TypeOK', OutcomeInv,
         UNCHANGED <<book, transit, sends, applied, seenOrders, seenTrades>>,
         \A i \in Intents : intent'[i] \in {"COMPLETED", "INCOMPLETE"} => intent'[i] = intent[i]
  PROVE  BrokerInv' /\ SnapshotInv' /\ LedgerInv' /\ OutcomeIsConfirmed'
<1>1. BrokerInv' /\ SnapshotInv' /\ LedgerInv'
  BY DEF OutcomeInv, BrokerInv, OpenAtBroker, SnapshotInv, LedgerInv
<1>2. OutcomeIsConfirmed'
  BY DEF OutcomeInv, OutcomeIsConfirmed
<1> QED
  BY <1>1, <1>2

\* An order the broker knows is not one to submit.
LEMMA KnownIsSent ==
  ASSUME TypeOK, SendInv, OutcomeInv, NEW i \in Intents
  PROVE  /\ Known(book[i]) => i \notin todo /\ ~(pc = "send" /\ cur = i) /\ intent[i] # "REJECTED"
         /\ sends[i] = 0 => ~Known(book[i]) /\ i \notin transit
BY DEF SendInv, QueuedAreUnsent, MarkedBeforeSent, OutcomeInv, BrokerInv, RejectedInv,
   TypeOK, BrokerTypes
-----------------------------------------------------------------------------

\* A row of one order takes in a report of a past of that order.
LEMMA RowStep ==
  ASSUME TypeOK, OutcomeInv, NEW i \in Intents, Known(book[i]), book' = book,
         NEW report \in Reported(book[i]), NEW newer \in BOOLEAN,
         row' = [row EXCEPT ![i] = Bound(i, row[i], report, newer)]
  PROVE  SavedOrderIsTruthful'
<1>1. row \in [Intents -> Rows] /\ book[i] \in Orders
  BY DEF TypeOK, DatabaseTypes, BrokerTypes
<1>2. report \in Orders /\ Known(report) /\ Truthful(report, book[i])
  BY <1>1, ReportsAreTruthful
<1>3. Truthful(row[i], book[i])
  BY DEF OutcomeInv, SavedOrderIsTruthful, Truthful
<1>4. Truthful(Bound(i, row[i], report, newer), book[i])
  BY <1>1, <1>2, <1>3, BoundIsTruthful
<1> QED
  BY <1>1, <1>4 DEF OutcomeInv, SavedOrderIsTruthful, Truthful

\* Nothing is missing from the ledger of an intent with an outcome.
LEMMA LedgerIsComplete ==
  ASSUME TypeOK, OutcomeInv, NEW i \in Intents, intent[i] \in {"COMPLETED", "INCOMPLETE"}
  PROVE  applied[i] = 1 .. book[i].filled /\ IsTerminal(book[i].status)
<1>1. /\ book[i].filled \in Nat /\ Qty[i] \in Nat /\ book[i].filled <= Qty[i]
      /\ applied[i] \subseteq 1 .. book[i].filled
  BY OrderFacts, QtyAssumption DEF TypeOK, BrokerTypes, OutcomeInv, BrokerInv, LedgerInv
<1>2. CASE intent[i] = "COMPLETED"
  BY <1>1, <1>2 DEF OutcomeInv, OutcomeIsConfirmed, IsTerminal, IsActive, OrderStatus
<1>3. CASE intent[i] = "INCOMPLETE"
  BY <1>3 DEF OutcomeInv, OutcomeIsConfirmed
<1> QED
  BY <1>2, <1>3

\* One reconciliation: what it books, binds and records is confirmed by the two
\* query results, which are pasts of the book.
LEMMA ReconcileStep ==
  ASSUME TypeOK, TypeOK', SendInv, OutcomeInv, Reconcile
  PROVE  OutcomeInv' /\ Grows
<1>1. /\ UNCHANGED <<book, transit, sends, seenOrders, seenTrades, todo, cur>>
      /\ pc' \in {"pause", "after"}
      /\ \A i \in Intents : intent'[i] = Reconciled(i)
      /\ \A i \in Intents : applied'[i] = applied[i] \cup 1 .. seenTrades[i]
  BY DEF Reconcile, Goto, brokerVars, sessionVars
<1>2. \A i \in Intents : /\ book[i].filled \in Nat /\ seenTrades[i] \in Nat
                         /\ intent[i] \in IntentStatus /\ Qty[i] \in Nat
                         /\ seenOrders[i] \in Orders /\ book[i] \in Orders /\ row[i] \in Rows
  BY OrderFacts, QtyAssumption DEF TypeOK, BrokerTypes, SessionTypes, DatabaseTypes
<1>3. BrokerInv' /\ SnapshotInv'
  BY <1>1 DEF OutcomeInv, BrokerInv, OpenAtBroker, SnapshotInv
<1>4. LedgerInv'
  BY <1>1, <1>2 DEF OutcomeInv, SnapshotInv, LedgerInv
<1>5. SavedOrderIsTruthful'
  <2>1. PICK newer \in BOOLEAN :
          row' = [i \in Intents |->
                    IF Known(seenOrders[i]) THEN Bound(i, row[i], seenOrders[i], newer) ELSE row[i]]
    BY DEF Reconcile
  <2>2. ASSUME NEW i \in Intents PROVE Truthful(row'[i], book[i])
    <3>1. Truthful(row[i], book[i])
      BY DEF OutcomeInv, SavedOrderIsTruthful, Truthful
    <3>2. Truthful(seenOrders[i], book[i])
      BY DEF OutcomeInv, SnapshotInv, Truthful
    <3>3. Known(seenOrders[i]) => Truthful(Bound(i, row[i], seenOrders[i], newer), book[i])
      BY <1>2, <3>1, <3>2, BoundIsTruthful
    <3> QED
      BY <2>1, <3>1, <3>3
  <2> QED
    BY <1>1, <2>2 DEF SavedOrderIsTruthful, Truthful
<1>6. ASSUME NEW i \in Intents
      PROVE  /\ intent[i] \in FinalStatus => intent'[i] = intent[i]
             /\ ~Known(seenOrders[i]) => intent'[i] = intent[i]
             /\ intent'[i] = "REJECTED" => intent[i] = "REJECTED"
             /\ intent'[i] \in {"COMPLETED", "INCOMPLETE"} /\ intent'[i] # intent[i] =>
                  /\ IsTerminal(seenOrders[i].status) /\ seenTrades[i] = seenOrders[i].filled
                  /\ intent'[i] = "COMPLETED" =>
                       seenOrders[i].status = "FILLED" /\ seenOrders[i].filled = Qty[i]
  <2>1. ~Known(seenOrders[i]) => ~IsTerminal(seenOrders[i].status)
    BY <1>2, OrderFacts
  <2>2. SetIntentStatus(intent[i], "SUBMITTED") \in IntentStatus
    BY <1>2, StatusType
  <2> DEFINE bound == IF Known(seenOrders[i]) THEN SetIntentStatus(intent[i], "SUBMITTED") ELSE intent[i]
  <2>3. /\ bound \in IntentStatus /\ bound \in {intent[i], "SUBMITTED"}
        /\ intent[i] \in FinalStatus => bound = intent[i]
    BY <1>2, <2>2, FinalStays DEF Targets
  <2>4. \/ intent'[i] = bound
        \/ /\ ~Mismatch(i) /\ IsTerminal(seenOrders[i].status)
           /\ \/ /\ seenOrders[i].status = "FILLED" /\ seenOrders[i].filled = Qty[i]
                 /\ intent'[i] = SetIntentStatus(bound, "COMPLETED")
              \/ intent'[i] = SetIntentStatus(bound, "INCOMPLETE")
    BY <1>1 DEF Reconciled
  <2>5. /\ SetIntentStatus(bound, "COMPLETED") \in {bound, "COMPLETED"}
        /\ SetIntentStatus(bound, "INCOMPLETE") \in {bound, "INCOMPLETE"}
        /\ bound \in FinalStatus => /\ SetIntentStatus(bound, "COMPLETED") = bound
                                    /\ SetIntentStatus(bound, "INCOMPLETE") = bound
    BY <2>3, FinalStays DEF Targets
  <2>6. ~Mismatch(i) /\ Known(seenOrders[i]) => seenTrades[i] = seenOrders[i].filled
    BY DEF Mismatch
  <2> HIDE DEF bound
  <2>7. ~Known(seenOrders[i]) => bound = intent[i]
    BY DEF bound
  <2> QED
    BY <2>1, <2>3, <2>4, <2>5, <2>6, <2>7 DEF FinalStatus
<1>7. OutcomeIsConfirmed'
  <2> SUFFICES ASSUME NEW i \in Intents, intent'[i] \in {"COMPLETED", "INCOMPLETE"}
               PROVE  /\ intent'[i] = "COMPLETED" => book[i].status = "FILLED" /\ applied'[i] = 1 .. Qty[i]
                      /\ intent'[i] = "INCOMPLETE" =>
                           IsTerminal(book[i].status) /\ applied'[i] = 1 .. book[i].filled
    BY <1>1 DEF OutcomeIsConfirmed
  <2>1. CASE intent'[i] = intent[i]
    <3>1. applied[i] = 1 .. book[i].filled
      BY <2>1, LedgerIsComplete
    <3>2. applied'[i] = applied[i] \cup 1 .. seenTrades[i] /\ seenTrades[i] <= book[i].filled
      BY <1>1 DEF OutcomeInv, SnapshotInv
    <3>3. 1 .. seenTrades[i] \subseteq 1 .. book[i].filled
      BY <1>2, <3>2
    <3>4. applied'[i] = applied[i]
      BY <3>1, <3>2, <3>3
    <3> QED
      BY <2>1, <3>4 DEF OutcomeInv, OutcomeIsConfirmed
  <2>2. CASE intent'[i] # intent[i]
    <3>1. /\ IsTerminal(seenOrders[i].status) /\ seenTrades[i] = seenOrders[i].filled
          /\ intent'[i] = "COMPLETED" => seenOrders[i].status = "FILLED" /\ seenOrders[i].filled = Qty[i]
      BY <1>6, <2>2
    <3>2. seenOrders[i] = book[i]
      BY <3>1 DEF OutcomeInv, SnapshotInv
    <3>3. applied'[i] = 1 .. book[i].filled
      BY <1>1, <1>2, <3>1, <3>2 DEF OutcomeInv, LedgerInv
    <3> QED
      BY <3>1, <3>2, <3>3
  <2> QED
    BY <2>1, <2>2
<1>8. RejectedInv'
  <2>1. \A i \in todo : i \in Intents /\ ~Known(seenOrders[i])
    BY KnownIsSent DEF OutcomeInv, SnapshotInv, TypeOK, SessionTypes
  <2> QED
    BY <1>1, <1>6, <2>1 DEF OutcomeInv, RejectedInv
<1>9. Grows
  BY <1>1, <1>6 DEF Grows, TypeOK, BrokerTypes
<1> QED
  BY <1>3, <1>4, <1>5, <1>7, <1>8, <1>9 DEF OutcomeInv

\* Every step of the service, the broker and the clock preserves the invariant.
LEMMA OutcomeStep == TypeOK /\ SendInv /\ OutcomeInv /\ Next => OutcomeInv' /\ Grows
<1> SUFFICES ASSUME TypeOK, SendInv, OutcomeInv, Next PROVE OutcomeInv' /\ Grows
  OBVIOUS
<1>0. TypeOK'
  BY TypeStep
<1>1. CASE Restart
  BY <1>1, QuietStep DEF Restart, dbVars, brokerVars, sessionVars, Quiet
<1>2. CASE Crash
  BY <1>2, QuietStep DEF Crash, ForgetSession, dbVars, brokerVars, Quiet
<1>3. CASE RebalanceHandled
  BY <1>3, QuietStep DEF RebalanceHandled, dbVars, brokerVars, sessionVars, Quiet
<1>4. CASE RebalanceMissed
  BY <1>4, QuietStep DEF RebalanceMissed, brokerVars, sessionVars, Quiet
<1>5. CASE RebalanceDue
  BY <1>5, QuietStep DEF RebalanceDue, OpenSession, dbVars, brokerVars, Quiet
<1>6. CASE EodDue
  BY <1>6, QuietStep DEF EodDue, OpenSession, dbVars, brokerVars, Quiet
<1>7. CASE Connect
  BY <1>7, QuietStep DEF Connect, StartReconcile, dbVars, brokerVars, Goto, Quiet
<1>8. CASE ConnectFails
  BY <1>8, QuietStep DEF ConnectFails, Fail, brokerVars, EndSession, dbVars,
     ForgetSession, Quiet
<1>9. CASE BrokerCallFails
  BY <1>9, QuietStep DEF BrokerCallFails, PauseAndFail, brokerVars, EndSession,
     ForgetSession, Quiet
<1>10. CASE QueryOrders
  <2>1. seenOrders' = book
    BY <1>10 DEF QueryOrders
  <2>2. SnapshotInv'
    BY <1>10, <2>1, OrderFacts DEF QueryOrders, dbVars, brokerVars, OutcomeInv, SnapshotInv,
       TypeOK, BrokerTypes
  <2>3. Grows
    BY <1>10 DEF QueryOrders, Grows, dbVars, brokerVars, TypeOK, BrokerTypes
  <2> QED
    BY <2>3, <1>10, <2>2 DEF QueryOrders, Goto, dbVars, brokerVars, OutcomeInv, BrokerInv,
       OpenAtBroker,
       LedgerInv, RejectedInv, SavedOrderIsTruthful, OutcomeIsConfirmed
<1>11. CASE QueryOrdersUnknown
  <2>1. PICK x \in Intents : Known(book[x]) /\ seenOrders' = [book EXCEPT ![x].status = "UNKNOWN"]
    BY <1>11 DEF QueryOrdersUnknown
  <2>2. \A i \in Intents : book[i] \in Orders /\ book[i].filled \in Nat
    BY OrderFacts DEF TypeOK, BrokerTypes
  <2>3. ~IsTerminal("UNKNOWN")
    BY DEF IsTerminal
  <2>4. \A i \in Intents :
          \/ i # x /\ seenOrders'[i] = book[i]
          \/ i = x /\ seenOrders'[i] = [book[i] EXCEPT !.status = "UNKNOWN"]
    BY <2>1 DEF TypeOK, BrokerTypes
  <2>5. /\ [book[x] EXCEPT !.status = "UNKNOWN"].status = "UNKNOWN"
        /\ [book[x] EXCEPT !.status = "UNKNOWN"].filled = book[x].filled
    BY <2>1, <2>2 DEF Orders, NoOrder, Known
  <2>6. SnapshotInv'
    BY <1>11, <2>1, <2>2, <2>3, <2>4, <2>5 DEF QueryOrdersUnknown, brokerVars, OutcomeInv,
       SnapshotInv
  <2>7. Grows
    BY <1>11 DEF QueryOrdersUnknown, Grows, dbVars, brokerVars, TypeOK, BrokerTypes
  <2> QED
    BY <2>7, <1>11, <2>6 DEF QueryOrdersUnknown, Goto, dbVars, brokerVars, OutcomeInv,
       BrokerInv, OpenAtBroker,
       LedgerInv, RejectedInv, SavedOrderIsTruthful, OutcomeIsConfirmed
<1>12. CASE QueryTrades
  <2>1. PICK late \in SUBSET {i \in Intents : book[i].filled > 0} :
          seenTrades' = [i \in Intents |-> book[i].filled - (IF i \in late THEN 1 ELSE 0)]
    BY <1>12 DEF QueryTrades
  <2>2. \A i \in Intents : book[i].filled \in Nat
    BY OrderFacts DEF TypeOK, BrokerTypes
  <2>3. \A i \in Intents : seenTrades'[i] <= book[i].filled
    BY <2>1, <2>2
  <2>4. SnapshotInv'
    BY <1>12, <2>3 DEF QueryTrades, brokerVars, OutcomeInv, SnapshotInv
  <2>5. Grows
    BY <1>12 DEF QueryTrades, Grows, dbVars, brokerVars, TypeOK, BrokerTypes
  <2> QED
    BY <2>5, <1>12, <2>4 DEF QueryTrades, Goto, dbVars, brokerVars, OutcomeInv, BrokerInv,
       OpenAtBroker,
       LedgerInv, RejectedInv, SavedOrderIsTruthful, OutcomeIsConfirmed
<1>13. CASE Reconcile
  BY <1>0, <1>13, ReconcileStep
<1>14. CASE Pause
  BY <1>14, QuietStep DEF Pause, PauseAndFail, brokerVars, EndSession, ForgetSession,
     Quiet
<1>15. CASE ResumeAccount
  BY <1>15, QuietStep DEF ResumeAccount, Goto, brokerVars, sessionVars, Quiet
<1>16. CASE AdmitRebalance
  BY <1>16, QuietStep DEF AdmitRebalance, StartReconcile, dbVars, brokerVars, Goto,
     Quiet
<1>17. CASE RebalanceTooLate
  BY <1>17, QuietStep DEF RebalanceTooLate, EndSession, brokerVars, ForgetSession,
     Quiet
<1>18. CASE AccountNotActive
  BY <1>18, QuietStep DEF AccountNotActive, Fail, brokerVars, EndSession, dbVars,
     ForgetSession, Quiet
<1>19. CASE AdmitEod
  BY <1>19, QuietStep DEF AdmitEod, StartReconcile, dbVars, brokerVars, Goto, Quiet
<1>20. CASE BeginPhases
  BY <1>20, QuietStep DEF BeginPhases, Goto, dbVars, brokerVars, sessionVars, Quiet
<1>21. CASE FinishRebalance
  BY <1>21, QuietStep DEF FinishRebalance, EndSession, LastHealthCheck, brokerVars,
     ForgetSession, Quiet
<1>22. CASE EodUnresolved
  BY <1>22, QuietStep DEF EodUnresolved, Goto, dbVars, brokerVars, sessionVars, Quiet
<1>23. CASE FinishEod
  BY <1>23, QuietStep DEF FinishEod, EndSession, LastHealthCheck, brokerVars,
     ForgetSession, Quiet
<1>24. CASE PhaseAlreadyDone
  BY <1>24, QuietStep DEF PhaseAlreadyDone, AfterPhase, dbVars, brokerVars, Goto, Quiet
<1>25. CASE SkipBuy
  BY <1>25, QuietStep DEF SkipBuy, StepDone, AfterPhase, brokerVars, Goto, Quiet
<1>26. CASE QuotesFail
  BY <1>26, QuietStep DEF QuotesFail, Fail, brokerVars, EndSession, dbVars,
     ForgetSession, Quiet
<1>27. CASE ResumePhase
  <2>1. \A i \in todo' : i \in Intents /\ intent[i] = "PLANNED"
    BY <1>27 DEF ResumePhase, Existing
  <2> QED
    BY <1>27, <2>1, QuietStep DEF ResumePhase, Goto, dbVars, brokerVars, Quiet
<1>28. CASE FreezeTargets
  BY <1>28, QuietStep DEF FreezeTargets, Goto, brokerVars, Quiet
<1>29. CASE PlanRefused
  BY <1>29, QuietStep DEF PlanRefused, Goto, dbVars, brokerVars, sessionVars, Quiet
<1>30. CASE Plan
  <2>1. \A i \in Intents : SideOf[i] = phase => intent[i] = "ABSENT" /\ sends[i] = 0
    BY <1>30 DEF Plan, SendInv, PlansAreNew, NotSentYet, Unsent
  <2>2. PICK planned \in SUBSET {i \in Intents : SideOf[i] = phase} :
          \E approved \in SUBSET planned :
            /\ intent' = [i \in Intents |-> IF i \in approved THEN "PLANNED"
                                            ELSE IF i \in planned THEN "REJECTED"
                                            ELSE intent[i]]
            /\ todo' = approved
    BY <1>30 DEF Plan
  <2>3. /\ \A i \in Intents : intent'[i] \in {"PLANNED", "REJECTED", intent[i]}
        /\ \A i \in Intents : intent'[i] # intent[i] => sends[i] = 0
        /\ \A i \in todo' : intent'[i] = "PLANNED"
    BY <2>1, <2>2
  <2>4. UNCHANGED <<book, transit, sends, applied, row, seenOrders, seenTrades>> /\ pc' = "submit"
    BY <1>30 DEF Plan, Goto, OnlyIntent, brokerVars
  <2>5. RejectedInv'
    BY <2>3, <2>4, KnownIsSent DEF OutcomeInv, RejectedInv
  <2>6. BrokerInv' /\ SnapshotInv' /\ LedgerInv' /\ OutcomeIsConfirmed'
    BY <1>0, <2>3, <2>4, StatusStep
  <2>7. Grows
    BY <2>1, <2>2, <2>4 DEF Grows, FinalStatus, TypeOK, BrokerTypes
  <2> QED
    BY <2>7, <2>4, <2>5, <2>6 DEF OutcomeInv, SavedOrderIsTruthful
<1>31. CASE WaitForPhase
  BY <1>31, QuietStep DEF WaitForPhase, StartReconcile, dbVars, brokerVars, Goto, Quiet
<1>32. ASSUME NEW i \in Intents, RejectLatePlan(i) PROVE OutcomeInv' /\ Grows
  <2>1. /\ intent' = [intent EXCEPT ![i] = SetIntentStatus(intent[i], "REJECTED")]
        /\ i \in Intents /\ intent \in [Intents -> IntentStatus]
    BY <1>32 DEF RejectLatePlan, TypeOK, DatabaseTypes, SessionTypes
  <2>2. /\ intent'[i] \in {intent[i], "REJECTED"}
        /\ intent[i] \in FinalStatus => intent'[i] = intent[i]
        /\ \A j \in Intents \ {i} : intent'[j] = intent[j]
    BY <2>1, FinalStays DEF Targets

  <2>3. /\ UNCHANGED <<book, transit, sends, applied, row, seenOrders, seenTrades, pc>>
        /\ pc = "submit" /\ i \in todo /\ todo' = todo \ {i}
    BY <1>32 DEF RejectLatePlan, OnlyIntent, brokerVars
  <2>4. ~Known(book[i]) /\ i \notin transit
    BY <2>3, KnownIsSent DEF SendInv, QueuedAreUnsent
  <2>5. RejectedInv'
    BY <2>2, <2>3, <2>4 DEF OutcomeInv, RejectedInv, TypeOK, SessionTypes
  <2>6. BrokerInv' /\ SnapshotInv' /\ LedgerInv' /\ OutcomeIsConfirmed'
    BY <1>0, <2>2, <2>3, StatusStep
  <2>7. Grows
    BY <2>2, <2>3 DEF Grows, TypeOK, BrokerTypes
  <2> QED
    BY <2>7, <2>3, <2>5, <2>6 DEF OutcomeInv, SavedOrderIsTruthful
<1>33. ASSUME NEW i \in Intents, MarkSubmitting(i) PROVE OutcomeInv' /\ Grows
  <2>1. /\ intent' = [intent EXCEPT ![i] = SetIntentStatus(intent[i], "SUBMITTING")]
        /\ i \in Intents /\ intent \in [Intents -> IntentStatus]
    BY <1>33 DEF MarkSubmitting, TypeOK, DatabaseTypes, SessionTypes
  <2>2. /\ intent'[i] \in {intent[i], "SUBMITTING"}
        /\ intent[i] \in FinalStatus => intent'[i] = intent[i]
        /\ \A j \in Intents \ {i} : intent'[j] = intent[j]
    BY <2>1, FinalStays DEF Targets

  <2>3. /\ UNCHANGED <<book, transit, sends, applied, row, seenOrders, seenTrades>>
        /\ pc' = "send" /\ cur' = i /\ i \in todo /\ todo' = todo \ {i}
    BY <1>33 DEF MarkSubmitting, OnlyIntent, Goto, brokerVars
  <2>4. intent'[i] = "SUBMITTING"
    BY <2>1, <2>3 DEF OutcomeInv, RejectedInv, SetIntentStatus, AllowedFrom
  <2>5. RejectedInv'
    BY <2>2, <2>3, <2>4 DEF OutcomeInv, RejectedInv, TypeOK, SessionTypes
  <2>6. BrokerInv' /\ SnapshotInv' /\ LedgerInv' /\ OutcomeIsConfirmed'
    BY <1>0, <2>2, <2>3, StatusStep
  <2>7. Grows
    BY <2>2, <2>3 DEF Grows, TypeOK, BrokerTypes
  <2> QED
    BY <2>7, <2>3, <2>5, <2>6 DEF OutcomeInv, SavedOrderIsTruthful
<1>34. CASE Send
  <2>1. /\ cur \in Intents /\ sends[cur] = 0 /\ intent[cur] = "SUBMITTING"
        /\ sends \in [Intents -> Nat]
    BY <1>34 DEF Send, SendInv, MarkedBeforeSent, OutcomeInv, RejectedInv, TypeOK,
       SessionTypes, BrokerTypes
  <2>2. /\ sends' = [sends EXCEPT ![cur] = sends[cur] + 1] /\ transit' = transit \cup {cur}
        /\ UNCHANGED <<book, intent, applied, row, seenOrders, seenTrades, todo>> /\ pc' = "answer"
    BY <1>34 DEF Send, Goto, dbVars, sessionVars
  <2>3. sends'[cur] = 1 /\ \A i \in Intents \ {cur} : sends'[i] = sends[i]
    BY <2>1, <2>2
  <2>4. ~Known(book[cur])
    BY <2>1, KnownIsSent
  <2>5. BrokerInv'
    BY <2>1, <2>2, <2>3, <2>4 DEF OutcomeInv, BrokerInv, OpenAtBroker
  <2>6. RejectedInv'
    BY <2>1, <2>2 DEF OutcomeInv, RejectedInv
  <2>7. Grows
    BY <2>1, <2>2, <2>3 DEF Grows
  <2> QED
    BY <2>7, <2>2, <2>5, <2>6 DEF OutcomeInv, SnapshotInv, LedgerInv, SavedOrderIsTruthful,
       OutcomeIsConfirmed
<1>35. CASE Accepted
  <2>1. /\ intent' = [intent EXCEPT ![cur] = SetIntentStatus(intent[cur], "SUBMITTED")]
        /\ cur \in Intents /\ intent \in [Intents -> IntentStatus]
    BY <1>35 DEF Accepted, TypeOK, DatabaseTypes, SessionTypes
  <2>2. /\ intent'[cur] \in {intent[cur], "SUBMITTED"}
        /\ intent[cur] \in FinalStatus => intent'[cur] = intent[cur]
        /\ \A j \in Intents \ {cur} : intent'[j] = intent[j]
    BY <2>1, FinalStays DEF Targets

  <2>3. /\ UNCHANGED <<book, transit, sends, applied, seenOrders, seenTrades, todo>>
        /\ pc' = "submit" /\ Known(book[cur])
    BY <1>35 DEF Accepted, Goto, brokerVars
  <2>4. RejectedInv'
    BY <2>1, <2>2, <2>3, KnownIsSent DEF OutcomeInv, RejectedInv, TypeOK, SessionTypes
  <2>5. BrokerInv' /\ SnapshotInv' /\ LedgerInv' /\ OutcomeIsConfirmed'
    BY <1>0, <2>2, <2>3, StatusStep
  <2>6. SavedOrderIsTruthful'
    <3> DEFINE placed == [status |-> "PENDING", filled |-> 0]
    <3>1. PICK newer \in BOOLEAN :
            row' = [row EXCEPT ![cur] = Bound(cur, row[cur], placed, newer)]
      BY <1>35 DEF Accepted
    <3>2. placed \in Reported(book[cur])
      BY DEF Reported
    <3> QED
      BY <2>1, <2>3, <3>1, <3>2, RowStep
  <2>7. Grows
    BY <2>2, <2>3 DEF Grows, TypeOK, BrokerTypes
  <2> QED
    BY <2>7, <2>4, <2>5, <2>6 DEF OutcomeInv
<1>36. CASE Refused
  <2>1. /\ intent' = [intent EXCEPT ![cur] = SetIntentStatus(intent[cur], "REJECTED")]
        /\ cur \in Intents /\ intent \in [Intents -> IntentStatus]
    BY <1>36 DEF Refused, TypeOK, DatabaseTypes, SessionTypes
  <2>2. /\ intent'[cur] \in {intent[cur], "REJECTED"}
        /\ intent[cur] \in FinalStatus => intent'[cur] = intent[cur]
        /\ \A j \in Intents \ {cur} : intent'[j] = intent[j]
    BY <2>1, FinalStays DEF Targets

  <2>3. /\ UNCHANGED <<book, sends, applied, row, seenOrders, seenTrades, todo>>
        /\ pc' = "submit" /\ cur \in transit /\ transit' = transit \ {cur}
    BY <1>36 DEF Refused, Goto, OnlyIntent
  <2>4. ~Known(book[cur]) /\ cur \notin todo
    BY <2>1, <2>3 DEF OutcomeInv, BrokerInv, SendInv, QueuedAreUnsent, TypeOK, BrokerTypes
  <2>5. RejectedInv'
    BY <2>2, <2>3, <2>4 DEF OutcomeInv, RejectedInv, TypeOK, SessionTypes
  <2>6. BrokerInv'
    BY <2>3 DEF OutcomeInv, BrokerInv, OpenAtBroker
  <2>7. OutcomeIsConfirmed'
    BY <2>2, <2>3 DEF OutcomeInv, OutcomeIsConfirmed
  <2>8. Grows
    BY <2>2, <2>3 DEF Grows, TypeOK, BrokerTypes
  <2> QED
    BY <2>8, <2>3, <2>5, <2>6, <2>7 DEF OutcomeInv, SnapshotInv, LedgerInv, SavedOrderIsTruthful
<1>37. CASE ResultUnknown
  <2>1. /\ intent' = [intent EXCEPT ![cur] = SetIntentStatus(intent[cur], "SUBMIT_UNKNOWN")]
        /\ cur \in Intents /\ intent \in [Intents -> IntentStatus]
    BY <1>37 DEF ResultUnknown, TypeOK, DatabaseTypes, SessionTypes
  <2>2. /\ intent'[cur] \in {intent[cur], "SUBMIT_UNKNOWN"}
        /\ intent[cur] \in FinalStatus => intent'[cur] = intent[cur]
        /\ \A j \in Intents \ {cur} : intent'[j] = intent[j]
    BY <2>1, FinalStays DEF Targets

  <2>3. /\ UNCHANGED <<book, transit, sends, applied, row, seenOrders, seenTrades, todo>>
        /\ pc' = "pause"
    BY <1>37 DEF ResultUnknown, Goto, OnlyIntent, brokerVars, sessionVars
  <2>4. intent[cur] = "PLANNED" => intent'[cur] = "PLANNED"
    BY <2>1 DEF SetIntentStatus, AllowedFrom
  <2>5. RejectedInv'
    BY <2>2, <2>3, <2>4 DEF OutcomeInv, RejectedInv, TypeOK, SessionTypes
  <2>6. BrokerInv' /\ SnapshotInv' /\ LedgerInv' /\ OutcomeIsConfirmed'
    BY <1>0, <2>2, <2>3, StatusStep
  <2>7. Grows
    BY <2>2, <2>3 DEF Grows, TypeOK, BrokerTypes
  <2> QED
    BY <2>7, <2>3, <2>5, <2>6 DEF OutcomeInv, SavedOrderIsTruthful
<1>38. CASE SellsClosed
  BY <1>38, QuietStep DEF SellsClosed, StartReconcile, dbVars, brokerVars, Goto, Quiet
<1>39. CASE PhaseEnds
  BY <1>39, QuietStep DEF PhaseEnds, StepDone, AfterPhase, brokerVars, Goto, Quiet
<1>40. CASE PollAgain
  BY <1>40, QuietStep DEF PollAgain, StartReconcile, dbVars, brokerVars, Goto, Quiet
<1>41. CASE WaitExpires
  BY <1>41, QuietStep DEF WaitExpires, Goto, dbVars, brokerVars, sessionVars, Quiet
<1>42. CASE ListOpenOrders
  BY <1>42, QuietStep DEF ListOpenOrders, Goto, dbVars, brokerVars, Quiet
<1>43. CASE CancelRefused
  BY <1>43, QuietStep DEF CancelRefused, Goto, dbVars, brokerVars, sessionVars, Quiet
<1>44. CASE AwaitCancels
  BY <1>44, QuietStep DEF AwaitCancels, StartReconcile, dbVars, brokerVars, Goto, Quiet
<1>45. CASE CancelNotConfirmed
  BY <1>45, QuietStep DEF CancelNotConfirmed, Goto, dbVars, brokerVars, sessionVars,
     Quiet
<1>46. ASSUME NEW i \in Intents, CancelOrder(i) PROVE OutcomeInv' /\ Grows
  BY <1>46, QuietStep DEF CancelOrder, dbVars, Quiet
<1>47. ASSUME NEW i \in Intents, ConsumeOrder(i) PROVE OutcomeInv' /\ Grows
  <2>1. /\ intent' = [intent EXCEPT ![i] = SetIntentStatus(intent[i], "SUBMITTED")]
        /\ i \in Intents /\ intent \in [Intents -> IntentStatus]
    BY <1>47 DEF ConsumeOrder, TypeOK, DatabaseTypes, SessionTypes
  <2>2. /\ intent'[i] \in {intent[i], "SUBMITTED"}
        /\ intent[i] \in FinalStatus => intent'[i] = intent[i]
        /\ \A j \in Intents \ {i} : intent'[j] = intent[j]
    BY <2>1, FinalStays DEF Targets

  <2>3. /\ UNCHANGED <<book, transit, sends, applied, seenOrders, seenTrades, todo, pc, cur>>
        /\ Known(book[i])
    BY <1>47 DEF ConsumeOrder, brokerVars, sessionVars
  <2>4. RejectedInv'
    BY <2>2, <2>3, KnownIsSent DEF OutcomeInv, RejectedInv, TypeOK, SessionTypes
  <2>5. BrokerInv' /\ SnapshotInv' /\ LedgerInv' /\ OutcomeIsConfirmed'
    BY <1>0, <2>2, <2>3, StatusStep
  <2>6. SavedOrderIsTruthful'
    <3>1. PICK order \in Reported(book[i]), newer \in BOOLEAN :
            row' = [row EXCEPT ![i] = Bound(i, row[i], order, newer)]
      BY <1>47 DEF ConsumeOrder
    <3> QED
      BY <2>3, <3>1, RowStep
  <2>7. Grows
    BY <2>2, <2>3 DEF Grows, TypeOK, BrokerTypes
  <2> QED
    BY <2>7, <2>4, <2>5, <2>6 DEF OutcomeInv
<1>48. ASSUME NEW i \in Intents, ConsumeTrade(i) PROVE OutcomeInv' /\ Grows
  <2>1. PICK k \in 1 .. book[i].filled : applied' = [applied EXCEPT ![i] = applied[i] \cup {k}]
    BY <1>48 DEF ConsumeTrade
  <2>2. /\ UNCHANGED <<intent, row, book, transit, sends, seenOrders, seenTrades, todo, pc, cur>>
        /\ applied \in [Intents -> SUBSET Nat]
    BY <1>48 DEF ConsumeTrade, brokerVars, sessionVars, TypeOK, DatabaseTypes
  <2>3. applied'[i] = applied[i] \cup {k} /\ \A j \in Intents \ {i} : applied'[j] = applied[j]
    BY <2>1, <2>2
  <2>4. LedgerInv'
    BY <2>2, <2>3 DEF OutcomeInv, LedgerInv
  <2>5. intent[i] \in {"COMPLETED", "INCOMPLETE"} => applied'[i] = applied[i]
    <3>1. intent[i] \in {"COMPLETED", "INCOMPLETE"} => 1 .. book[i].filled \subseteq applied[i]
      BY LedgerIsComplete
    <3> QED
      BY <2>3, <3>1
  <2>6. OutcomeIsConfirmed'
    BY <2>2, <2>3, <2>5 DEF OutcomeInv, OutcomeIsConfirmed
  <2>7. Grows
    BY <2>2, <2>3 DEF Grows, TypeOK, BrokerTypes
  <2> QED
    BY <2>7, <2>2, <2>4, <2>6 DEF OutcomeInv, BrokerInv, OpenAtBroker, SnapshotInv,
       RejectedInv, SavedOrderIsTruthful
<1>49. CASE ReportBreach
  BY <1>49, QuietStep DEF ReportBreach, dbVars, brokerVars, sessionVars, Quiet
<1>50. CASE BrokerUnhealthy
  BY <1>50, QuietStep DEF BrokerUnhealthy, dbVars, brokerVars, sessionVars, Quiet
<1>51. ASSUME NEW i \in Intents, Arrive(i) PROVE OutcomeInv' /\ Grows
  <2>1. /\ i \in transit /\ transit' = transit \ {i}
        /\ ~Known(book[i]) /\ book[i].filled = 0 /\ ~IsTerminal(book[i].status)
        /\ sends[i] > 0
    BY <1>51, OrderFacts DEF Arrive, OutcomeInv, BrokerInv, TypeOK, BrokerTypes
  <2>2. /\ book'[i].status \in {"PENDING", "REJECTED"} /\ book'[i].filled = 0
        /\ \A j \in Intents \ {i} : book'[j] = book[j]
    BY <1>51 DEF Arrive, TypeOK, BrokerTypes
  <2>3. UNCHANGED <<intent, row, applied, seenOrders, seenTrades, sends, todo, pc, cur>>
    BY <1>51 DEF Arrive, dbVars, sessionVars
  <2>4. BookMoves
    BY <2>1, <2>2, OrderFacts DEF BookMoves, Known, TypeOK, BrokerTypes
  <2>5. SnapshotInv' /\ LedgerInv' /\ SavedOrderIsTruthful' /\ OutcomeIsConfirmed'
    BY <1>0, <2>3, <2>4, BookStep
  <2>6. BrokerInv'
    <3>1. /\ i \notin transit' /\ transit' \subseteq transit /\ Qty[i] \in Nat \ {0}
      BY <2>1, QtyAssumption DEF OutcomeInv, BrokerInv
    <3>2. book'[i].filled <= Qty[i] /\ (OpenAtBroker(i)' => book'[i].filled < Qty[i])
      BY <2>1, <2>2, <3>1 DEF OpenAtBroker, IsActive
    <3>3. \A j \in Intents \ {i} :
            book'[j] = book[j] /\ sends'[j] = sends[j] /\ (j \in transit' => j \in transit)
      BY <2>2, <2>3, <3>1
    <3> QED
      BY <2>1, <2>3, <3>1, <3>2, <3>3 DEF OutcomeInv, BrokerInv, OpenAtBroker
  <2>7. RejectedInv'
    BY <1>51, <2>1, <2>2, <2>3 DEF Arrive, OutcomeInv, RejectedInv, BrokerInv, Known
  <2>8. Grows
    BY <2>1, <2>2, <2>3 DEF Grows, TypeOK, BrokerTypes
  <2> QED
    BY <2>8, <2>5, <2>6, <2>7 DEF OutcomeInv
<1>52. ASSUME NEW i \in Intents, Lost(i) PROVE OutcomeInv' /\ Grows
  <2>1. OutcomeInv'
    BY <1>52 DEF Lost, dbVars, sessionVars, OutcomeInv, BrokerInv, OpenAtBroker,
       SnapshotInv, LedgerInv,
       RejectedInv, SavedOrderIsTruthful, OutcomeIsConfirmed
  <2>2. Grows
    BY <1>52 DEF Lost, dbVars, Grows, TypeOK, BrokerTypes
  <2> QED
    BY <2>2, <2>1
<1>53. ASSUME NEW i \in Intents, Fill(i) PROVE OutcomeInv' /\ Grows
  <2>1. /\ Known(book[i]) /\ ~IsTerminal(book[i].status) /\ transit' = transit /\ OpenAtBroker(i)
        /\ book[i].filled \in Nat /\ book[i].filled < Qty[i] /\ sends[i] > 0
    BY <1>53, OrderFacts DEF Fill, OpenAtBroker, OutcomeInv, BrokerInv, TypeOK, BrokerTypes
  <2>2. /\ book'[i].status = IF book[i].filled + 1 = Qty[i] THEN "FILLED" ELSE "PARTIALLY_FILLED"
        /\ book'[i].filled = book[i].filled + 1
        /\ \A j \in Intents \ {i} : book'[j] = book[j]
    BY <1>53 DEF Fill, TypeOK, BrokerTypes
  <2>3. UNCHANGED <<intent, row, applied, seenOrders, seenTrades, sends, todo, pc, cur>>
    BY <1>53 DEF Fill, dbVars, sessionVars
  <2>4. BookMoves
    BY <2>1, <2>2, OrderFacts DEF BookMoves, Known, TypeOK, BrokerTypes
  <2>5. SnapshotInv' /\ LedgerInv' /\ SavedOrderIsTruthful' /\ OutcomeIsConfirmed'
    BY <1>0, <2>3, <2>4, BookStep
  <2>6. BrokerInv'
    <3>1. /\ i \notin transit' /\ transit' \subseteq transit /\ Qty[i] \in Nat \ {0}
      BY <2>1, QtyAssumption DEF OutcomeInv, BrokerInv
    <3>2. book'[i].filled <= Qty[i] /\ (OpenAtBroker(i)' => book'[i].filled < Qty[i])
      BY <2>1, <2>2, <3>1 DEF OpenAtBroker, IsActive
    <3>3. \A j \in Intents \ {i} :
            book'[j] = book[j] /\ sends'[j] = sends[j] /\ (j \in transit' => j \in transit)
      BY <2>2, <2>3, <3>1
    <3> QED
      BY <2>1, <2>3, <3>1, <3>2, <3>3 DEF OutcomeInv, BrokerInv, OpenAtBroker
  <2>7. RejectedInv'
    BY <1>53, <2>1, <2>2, <2>3 DEF Fill, OutcomeInv, RejectedInv, BrokerInv, Known
  <2>8. Grows
    BY <2>1, <2>2, <2>3 DEF Grows, TypeOK, BrokerTypes
  <2> QED
    BY <2>8, <2>5, <2>6, <2>7 DEF OutcomeInv
<1>54. ASSUME NEW i \in Intents, CloseOrder(i) PROVE OutcomeInv' /\ Grows
  <2>1. /\ Known(book[i]) /\ ~IsTerminal(book[i].status) /\ transit' = transit
        /\ book[i].filled \in Nat /\ book[i].filled < Qty[i] /\ sends[i] > 0 /\ book[i] \in Orders
    BY <1>54, OrderFacts DEF CloseOrder, OpenAtBroker, OutcomeInv, BrokerInv, TypeOK,
       BrokerTypes
  <2>2. /\ book'[i].status = "CANCELED" /\ book'[i].filled = book[i].filled
        /\ \A j \in Intents \ {i} : book'[j] = book[j]
    BY <1>54, <2>1 DEF CloseOrder, TypeOK, BrokerTypes, Orders, NoOrder, Known
  <2>3. UNCHANGED <<intent, row, applied, seenOrders, seenTrades, sends, todo, pc, cur>>
    BY <1>54 DEF CloseOrder, dbVars, sessionVars
  <2>4. BookMoves
    BY <2>1, <2>2, OrderFacts DEF BookMoves, Known, TypeOK, BrokerTypes
  <2>5. SnapshotInv' /\ LedgerInv' /\ SavedOrderIsTruthful' /\ OutcomeIsConfirmed'
    BY <1>0, <2>3, <2>4, BookStep
  <2>6. BrokerInv'
    <3>1. /\ i \notin transit' /\ transit' \subseteq transit /\ Qty[i] \in Nat \ {0}
      BY <2>1, QtyAssumption DEF OutcomeInv, BrokerInv
    <3>2. book'[i].filled <= Qty[i] /\ (OpenAtBroker(i)' => book'[i].filled < Qty[i])
      BY <2>1, <2>2, <3>1 DEF OpenAtBroker, IsActive
    <3>3. \A j \in Intents \ {i} :
            book'[j] = book[j] /\ sends'[j] = sends[j] /\ (j \in transit' => j \in transit)
      BY <2>2, <2>3, <3>1
    <3> QED
      BY <2>1, <2>3, <3>1, <3>2, <3>3 DEF OutcomeInv, BrokerInv, OpenAtBroker
  <2>7. RejectedInv'
    BY <1>54, <2>1, <2>2, <2>3 DEF CloseOrder, OutcomeInv, RejectedInv, BrokerInv, Known
  <2>8. Grows
    BY <2>1, <2>2, <2>3 DEF Grows, TypeOK, BrokerTypes
  <2> QED
    BY <2>8, <2>5, <2>6, <2>7 DEF OutcomeInv
<1>55. CASE Tick
  BY <1>55, QuietStep DEF Tick, dbVars, brokerVars, sessionVars, Quiet
<1> QED
  BY <1>1, <1>2, <1>3, <1>4, <1>5, <1>6, <1>7, <1>8, <1>9, <1>10, <1>11, <1>12, <1>13,
     <1>14, <1>15, <1>16, <1>17, <1>18, <1>19, <1>20, <1>21, <1>22, <1>23, <1>24,
     <1>25, <1>26, <1>27, <1>28, <1>29, <1>30, <1>31, <1>32, <1>33, <1>34, <1>35,
     <1>36, <1>37, <1>38, <1>39, <1>40, <1>41, <1>42, <1>43, <1>44, <1>45, <1>46,
     <1>47, <1>48, <1>49, <1>50, <1>51, <1>52, <1>53, <1>54, <1>55 DEF Next, Engine,
     Scheduler, Session, Phase, Waiting, Consumer, Broker

\* The invariant holds in the morning.
LEMMA OutcomeInit == Init => OutcomeInv
<1> SUFFICES ASSUME Init PROVE OutcomeInv
  OBVIOUS
<1>1. /\ ~Known(NoOrder) /\ NoOrder.filled = 0 /\ ~IsTerminal(NoOrder.status) /\ ~IsActive(NoOrder.status)
      /\ NoRow.filled = 0 /\ ~IsTerminal(NoRow.status)
  BY DEF NoOrder, NoRow, Known, IsTerminal, IsActive, OrderStatus
<1>2. \A i \in Intents : Qty[i] >= 0
  BY QtyAssumption
<1> QED
  BY <1>1, <1>2 DEF Init, OutcomeInv, BrokerInv, OpenAtBroker, SnapshotInv, LedgerInv,
     RejectedInv,
     SavedOrderIsTruthful, OutcomeIsConfirmed

\* The invariant holds of every behaviour, with those it rests on.
LEMMA OutcomesHold == Spec => [](TypeOK /\ SendInv /\ OutcomeInv)
<1>1. TypeOK /\ SendInv /\ OutcomeInv /\ [Next]_vars => OutcomeInv'
  <2>1. CASE Next
    BY <2>1, OutcomeStep
  <2>2. CASE UNCHANGED vars
    BY <2>2, QuietStep DEF vars, dbVars, brokerVars, sessionVars, Quiet
  <2> QED
    BY <2>1, <2>2
<1> QED
  BY <1>1, OutcomeInit, TypeCorrect, SendSafety, PTL DEF Spec

\* A recorded outcome is the broker's final word on the order, and every trade
\* behind it is in the ledger, however late, often or out of order the callbacks
\* arrive and wherever the process crashes.
THEOREM ConfirmedOutcomes == Spec => []OutcomeIsConfirmed
<1>1. OutcomeInv => OutcomeIsConfirmed
  BY DEF OutcomeInv
<1> QED
  BY <1>1, OutcomesHold, PTL

\* The saved order never runs ahead of the broker, and a final status it holds
\* is the broker's, in whatever order the reports are merged.
THEOREM TruthfulOrders == Spec => []SavedOrderIsTruthful
<1>1. OutcomeInv => SavedOrderIsTruthful
  BY DEF OutcomeInv
<1> QED
  BY <1>1, OutcomesHold, PTL
-----------------------------------------------------------------------------
(* The refinement. *)

Final(i) == intent[i] \in FinalStatus
Stage  == [i \in Intents |-> IF Final(i) THEN "final" ELSE IF sends[i] = 0 THEN "unsent" ELSE "sent"]
Booked == [i \in Intents |-> Cardinality(applied[i])]

\* The trades of an order are finitely many, no more than were asked for.
LEMMA TradesBound ==
  ASSUME NEW filled \in Nat, NEW wanted \in Nat, filled <= wanted,
         NEW trades, trades \subseteq 1 .. filled
  PROVE  IsFiniteSet(trades) /\ Cardinality(trades) \in 0 .. wanted
<1>1. IsFiniteSet(1 .. filled) /\ Cardinality(1 .. filled) = filled
  <2>1. CASE filled = 0
    <3>1. 1 .. filled = {}
      BY <2>1
    <3> QED
      BY <2>1, <3>1, FS_EmptySet
  <2>2. CASE filled # 0
    BY <2>2, FS_Interval
  <2> QED
    BY <2>1, <2>2
<1>2. /\ IsFiniteSet(trades) /\ Cardinality(trades) <= Cardinality(1 .. filled)
      /\ Cardinality(trades) \in Nat
  BY <1>1, FS_Subset, FS_CardinalityType
<1> QED
  BY <1>1, <1>2

\* The ledger of an intent, before and after a step.
LEMMA BookedBound ==
  ASSUME TypeOK, TypeOK', OutcomeInv, OutcomeInv', NEW i \in Intents
  PROVE  /\ IsFiniteSet(applied[i]) /\ Cardinality(applied[i]) \in 0 .. Qty[i]
         /\ IsFiniteSet(applied'[i]) /\ Cardinality(applied'[i]) \in 0 .. Qty[i]
<1>1. Qty[i] \in Nat
  BY QtyAssumption
<1>2. book[i].filled \in Nat /\ book[i].filled <= Qty[i] /\ applied[i] \subseteq 1 .. book[i].filled
  BY OrderFacts DEF TypeOK, BrokerTypes, OutcomeInv, BrokerInv, LedgerInv
<1>3. book'[i].filled \in Nat /\ book'[i].filled <= Qty[i] /\ applied'[i] \subseteq 1 .. book'[i].filled
  BY OrderFacts DEF TypeOK, BrokerTypes, OutcomeInv, BrokerInv, LedgerInv
<1> QED
  BY <1>1, <1>2, <1>3, TradesBound

\* An unsent intent has no trade, and a step that sends it books none.
LEMMA UnsentStep ==
  ASSUME TypeOK, OutcomeInv, OutcomeInv', Grows, NEW i \in Intents, sends[i] = 0
  PROVE  applied'[i] = {}
<1>1. book[i] \in Orders /\ ~Known(book[i])
  BY DEF TypeOK, BrokerTypes, OutcomeInv, BrokerInv
<1>2. book'[i] = book[i]
  BY DEF Grows
<1>3. book'[i].filled = 0
  BY <1>1, <1>2, OrderFacts
<1> QED
  BY <1>3 DEF OutcomeInv, LedgerInv

\* Nothing is booked to an intent whose outcome is recorded.
LEMMA FinalStep ==
  ASSUME TypeOK, TypeOK', OutcomeInv, OutcomeInv', Grows, NEW i \in Intents, Final(i)
  PROVE  Final(i)' /\ applied'[i] = applied[i]
<1>1. intent'[i] = intent[i] /\ applied[i] \subseteq applied'[i]
  BY DEF Grows, Final
<1>2. CASE intent[i] = "REJECTED"
  <2>1. book'[i] \in Orders /\ ~Known(book'[i])
    BY <1>1, <1>2 DEF TypeOK, BrokerTypes, OutcomeInv, RejectedInv
  <2>2. book'[i].filled = 0
    BY <2>1, OrderFacts
  <2> QED
    <3>1. applied'[i] \subseteq 1 .. 0
      BY <2>2 DEF OutcomeInv, LedgerInv
    <3>2. 1 .. 0 = {}
      OBVIOUS
    <3> QED
      BY <1>1, <3>1, <3>2 DEF Final
<1>3. CASE intent[i] \in {"COMPLETED", "INCOMPLETE"}
  <2>1. applied[i] = 1 .. book[i].filled /\ IsTerminal(book[i].status)
    BY <1>3, LedgerIsComplete
  <2>2. book'[i] = book[i]
    BY <2>1 DEF Grows
  <2>3. applied'[i] \subseteq 1 .. book[i].filled
    BY <2>2 DEF OutcomeInv, LedgerInv
  <2> QED
    BY <1>1, <1>3, <2>1, <2>3 DEF Final
<1> QED
  BY <1>2, <1>3 DEF Final, FinalStatus

\* An intent that is out only gains trades.
LEMMA SentStep ==
  ASSUME TypeOK, TypeOK', OutcomeInv, OutcomeInv', Grows, NEW i \in Intents, sends[i] # 0
  PROVE  sends'[i] # 0 /\ Cardinality(applied'[i]) \in Cardinality(applied[i]) .. Qty[i]
<1>1. sends'[i] # 0
  BY DEF Grows, TypeOK, BrokerTypes
<1>2. /\ IsFiniteSet(applied[i]) /\ Cardinality(applied[i]) \in 0 .. Qty[i]
      /\ IsFiniteSet(applied'[i]) /\ Cardinality(applied'[i]) \in 0 .. Qty[i]
  BY BookedBound
<1>3. Cardinality(applied[i]) <= Cardinality(applied'[i])
  BY <1>2, FS_Subset DEF Grows
<1>4. Qty[i] \in Nat
  BY QtyAssumption
<1> QED
  BY <1>1, <1>2, <1>3, <1>4

\* Each step is a step of the abstract specification.
LEMMA PromiseStep ==
  ASSUME TypeOK, TypeOK', OutcomeInv, OutcomeInv', Grows
  PROVE  Promise!Next
<1>1. ASSUME NEW i \in Intents
      PROVE  Promise!Unsent(i) \/ Promise!Sent(i) \/ Promise!Final(i)
  <2>1. CASE Final(i)
    <3>1. Stage[i] = "final" /\ Stage'[i] = "final" /\ Booked'[i] = Booked[i]
      BY <2>1, FinalStep DEF Stage, Booked
    <3> QED
      BY <3>1 DEF Promise!Final, Stage, Booked, Final, FinalStatus
  <2>2. CASE ~Final(i) /\ sends[i] = 0
    <3>1. Stage[i] = "unsent" /\ Booked'[i] = 0
      BY <2>2, UnsentStep, FS_EmptySet DEF Stage, Booked
    <3> QED
      BY <3>1 DEF Promise!Unsent, Stage, Booked, Final, FinalStatus
  <2>3. CASE ~Final(i) /\ sends[i] # 0
    <3>1. Stage[i] = "sent" /\ Stage'[i] \in {"sent", "final"} /\ Booked'[i] \in Booked[i] .. Qty[i]
      BY <2>3, SentStep DEF Stage, Booked
    <3> QED
      BY <3>1 DEF Promise!Sent, Stage, Booked, Final, FinalStatus
  <2> QED
    BY <2>1, <2>2, <2>3
<1>2. Stage' \in [Intents -> {"unsent", "sent", "final"}]
  BY DEF Stage
<1>3. Booked' \in [Intents -> Nat]
  <2>1. \A i \in Intents : Cardinality(applied'[i]) \in Nat
    BY BookedBound, QtyAssumption
  <2> QED
    BY <2>1 DEF Booked
<1> QED
  BY <1>1, <1>2, <1>3 DEF Promise!Next, Stage, Booked, Final, FinalStatus

\* The morning of the service is the start of the promise.
LEMMA PromiseInit == Init => Promise!Init
BY FS_EmptySet DEF Init, Promise!Init

\* The service implements OrderPromise: an intent is sent at most once, the
\* ledger takes in its fills only while it is out and never more than were
\* asked for, and a recorded outcome and its ledger never move again.
THEOREM ImplementsPromise == Spec => KeepsPromise
<1>1. TypeOK /\ SendInv /\ OutcomeInv /\ [Next]_vars => [Promise!Next]_(Promise!vars)
  <2>1. TypeOK /\ SendInv /\ OutcomeInv /\ Next => Promise!Next
    BY TypeStep, OutcomeStep, PromiseStep
  <2>2. CASE UNCHANGED vars
    BY <2>2 DEF vars, dbVars, brokerVars, Promise!vars
  <2> QED
    BY <2>1, <2>2
<1> QED
  BY <1>1, PromiseInit, OutcomesHold, PTL DEF Spec, KeepsPromise, Promise!Spec
--------------------------------------------------------------------------------
(* The phases of a session. *)

(***************************************************************************)
(* The invariant: what the engine may rely on at each point of a session,  *)
(* while the callbacks, the broker and the clock go on.                    *)
(***************************************************************************)

\* The job of the session, and what admits it.
InRebalance == {"side", "plan", "submit", "send", "answer", "cancel", "cancelling", "done"}

JobInv ==
  /\ pc \in {"down", "idle"} => job = "none"
  /\ pc \in InRebalance \/ at \in {"begin", "wait", "confirm", "sold"} => job = "rebalance"
  /\ at = "eod" => job = "eod"
  /\ job = "rebalance" => rebalance = "none"
  /\ job = "eod" => clock = Close

\* A submission on its way has no known result.  The startup reconciliation
\* ends the session unless every result is known; from then on only the intent
\* being submitted is in doubt.
Settled == \A i \in Intents : ~Unresolved(intent[i])

Reconciling == pc \in {"orders", "trades", "reconcile"} /\ at # "startup"

ResolvedInv ==
  /\ \A i \in transit : Unresolved(intent[i])
  /\ \/ pc \in {"after", "admit"} \/ pc \in InRebalance \ {"send", "answer"} \/ Reconciling
     => Settled
  /\ pc \in {"send", "answer"} => \A i \in Intents \ {cur} : ~Unresolved(intent[i])
  /\ pc = "answer" => intent[cur] \in {"SUBMITTING", "SUBMITTED"}

\* With no submission on its way the query misses no order, and when the
\* reconciliation is over the ledger holds every trade it showed.
AfterInv ==
  /\ pc \in {"trades", "reconcile", "after"} /\ at # "startup" =>
       \A i \in Intents : Known(book[i]) => Known(seenOrders[i])
  /\ pc = "after" => \A i \in Intents :
       /\ seenOrders[i].status # "UNKNOWN"
       /\ Known(seenOrders[i]) => 1 .. seenOrders[i].filled \subseteq applied[i]

\* The buys are the second phase; a phase submits only its own side.
SellsAreClosed == \A i \in Intents : SideOf[i] = "SELL" => ~OpenAtBroker(i) /\ i \notin transit

PhaseInv ==
  /\ phase = "BUY" => "SELL" \in stepDone
  /\ pc \in {"plan", "submit", "send", "answer"} => phase \notin stepDone
  /\ pc \notin {"submit", "send", "answer", "pause"} => todo = {}
  /\ \A i \in todo : SideOf[i] = phase
  /\ pc \in {"send", "answer"} => SideOf[cur] = phase
  /\ at = "sold" /\ phase = "SELL" => pc \in {"orders", "trades", "reconcile", "after", "pause"}
  /\ "SELL" \in stepDone \/ at = "sold" => SellsAreClosed
  /\ \A i \in Intents : SideOf[i] = "BUY" /\ sends[i] > 0 => "SELL" \in stepDone

\* After a successful end of day the market is closed and no phase opens again.
EodInv ==
  eodDone => clock = Close /\ ~open /\ pc \notin {"send", "answer"} /\ EodIsComplete

PhasesInv == JobInv /\ ResolvedInv /\ AfterInv /\ PhaseInv /\ EodInv /\ SuccessIsResolved
-----------------------------------------------------------------------------
(* Lemmas. *)

\* Only the SUBMITTING mark puts a status in doubt, and a bound order ends the
\* doubt.
LEMMA StatusDoubt ==
  ASSUME NEW current \in IntentStatus
  PROVE  /\ \A target \in Targets \ {"SUBMITTING"} :
              Unresolved(SetIntentStatus(current, target)) => Unresolved(current)
         /\ ~Unresolved(SetIntentStatus(current, "SUBMITTED"))
BY DEF SetIntentStatus, AllowedFrom, Targets, Unresolved

\* A reconciliation raises no doubt, and leaves an order it did not see alone.
LEMMA ReconciledDoubt ==
  ASSUME TypeOK, NEW i \in Intents
  PROVE  /\ Unresolved(Reconciled(i)) => Unresolved(intent[i])
         /\ ~Known(seenOrders[i]) => Reconciled(i) = intent[i]
<1>1. intent[i] \in IntentStatus /\ SetIntentStatus(intent[i], "SUBMITTED") \in IntentStatus
  BY StatusType DEF TypeOK, DatabaseTypes
<1> DEFINE bound == IF Known(seenOrders[i]) THEN SetIntentStatus(intent[i], "SUBMITTED") ELSE intent[i]
<1>2. bound \in IntentStatus /\ (Unresolved(bound) => Unresolved(intent[i]))
  BY <1>1, StatusDoubt
<1>3. /\ Unresolved(SetIntentStatus(bound, "COMPLETED")) => Unresolved(bound)
      /\ Unresolved(SetIntentStatus(bound, "INCOMPLETE")) => Unresolved(bound)
  BY <1>2, StatusDoubt DEF Targets
<1>4. Reconciled(i) \in {bound, SetIntentStatus(bound, "COMPLETED"), SetIntentStatus(bound, "INCOMPLETE")}
  BY DEF Reconciled
<1>5. ~Known(seenOrders[i]) => Reconciled(i) = bound
  BY OrderFacts DEF Reconciled, TypeOK, SessionTypes
<1> QED
  BY <1>2, <1>3, <1>4, <1>5

\* After a successful end of day no order is on its way or open.
LEMMA EodIsFinal ==
  ASSUME PhasesInv, eodDone, NEW i \in Intents
  PROVE  i \notin transit /\ ~OpenAtBroker(i) /\ ~Unresolved(intent[i]) /\ applied[i] = 1 .. book[i].filled
BY DEF PhasesInv, EodInv, EodIsComplete, ResolvedInv, Unresolved

\* A step that raises no doubt and moves no order keeps the end of day complete.
LEMMA EodKept ==
  ASSUME TypeOK, OutcomeInv', Grows, PhasesInv, eodDone, book' = book,
         \A i \in Intents : Unresolved(intent'[i]) => Unresolved(intent[i])
  PROVE  EodIsComplete'
<1>1. ASSUME NEW i \in Intents
      PROVE  /\ ~OpenAtBroker(i)' /\ intent'[i] \notin {"SUBMITTING", "SUBMIT_UNKNOWN"}
             /\ applied'[i] = 1 .. book'[i].filled
  <2>1. ~OpenAtBroker(i) /\ ~Unresolved(intent[i]) /\ applied[i] = 1 .. book[i].filled
    BY EodIsFinal
  <2>2. applied[i] \subseteq applied'[i] /\ applied'[i] \subseteq 1 .. book[i].filled
    BY DEF Grows, OutcomeInv, LedgerInv
  <2> QED
    BY <2>1, <2>2 DEF OpenAtBroker, Unresolved
<1> QED
  BY <1>1 DEF EodIsComplete

\* An order the reconciliation saw closed is closed, and one it did not see does
\* not exist, once no submission is on its way.
LEMMA SeenIsBook ==
  ASSUME TypeOK, OutcomeInv, PhasesInv, pc = "after", at # "startup",
         NEW i \in Intents, ~IsActive(seenOrders[i].status)
  PROVE  /\ ~OpenAtBroker(i) /\ i \notin transit
         /\ applied[i] = 1 .. book[i].filled
<1>1. seenOrders[i] \in Orders /\ book[i] \in Orders
  BY DEF TypeOK, SessionTypes, BrokerTypes
<1>2. Settled /\ i \notin transit
  BY DEF PhasesInv, ResolvedInv, Settled
<1>3. /\ Known(book[i]) => Known(seenOrders[i])
      /\ seenOrders[i].status # "UNKNOWN"
      /\ Known(seenOrders[i]) => 1 .. seenOrders[i].filled \subseteq applied[i]
  BY DEF PhasesInv, AfterInv
<1>4. applied[i] \subseteq 1 .. book[i].filled
  BY DEF OutcomeInv, LedgerInv
<1>5. CASE Known(seenOrders[i])
  <2>1. IsTerminal(seenOrders[i].status)
    BY <1>1, <1>3, <1>5, OrderFacts DEF IsTerminal, Known
  <2>2. seenOrders[i] = book[i]
    BY <2>1 DEF OutcomeInv, SnapshotInv
  <2> QED
    BY <1>2, <1>3, <1>4, <1>5, <2>2 DEF OpenAtBroker
<1>6. CASE ~Known(seenOrders[i])
  <2>1. ~Known(book[i]) /\ book[i].filled = 0 /\ ~OpenAtBroker(i)
    BY <1>1, <1>3, <1>6, OrderFacts DEF OpenAtBroker
  <2>2. 1 .. 0 = {}
    OBVIOUS
  <2> QED
    BY <1>2, <1>4, <2>1, <2>2
<1> QED
  BY <1>5, <1>6

\* Every step of the service, the broker and the clock preserves the invariant.
LEMMA PhasesStep == TypeOK /\ SendInv /\ OutcomeInv /\ PhasesInv /\ Next => PhasesInv'
<1> SUFFICES ASSUME TypeOK, SendInv, OutcomeInv, PhasesInv, Next PROVE PhasesInv'
  OBVIOUS
<1>0. TypeOK' /\ OutcomeInv' /\ Grows
  BY TypeStep, OutcomeStep
<1> USE DEF PhasesInv, JobInv, InRebalance, ResolvedInv, Settled, Reconciling, AfterInv,
            PhaseInv, SellsAreClosed, EodInv, EodIsComplete, SuccessIsResolved,
            TypeOK, SessionTypes, OpenAtBroker
<1>1. CASE Restart
  BY <1>1 DEF Restart, dbVars, brokerVars, sessionVars, envVars, EnvTypes, Close,
     NoNewOrders, SellClosed
<1>2. CASE Crash
  BY <1>2 DEF Crash, ForgetSession, dbVars, brokerVars, EnvTypes, Close, NoNewOrders,
     SellClosed
<1>3. CASE RebalanceHandled
  BY <1>3 DEF RebalanceHandled, dbVars, brokerVars, sessionVars, envVars, EnvTypes,
     Close, NoNewOrders, SellClosed
<1>4. CASE RebalanceMissed
  BY <1>4 DEF RebalanceMissed, brokerVars, sessionVars, envVars, EnvTypes, Close,
     NoNewOrders, SellClosed
<1>5. CASE RebalanceDue
  BY <1>5 DEF RebalanceDue, OpenSession, dbVars, brokerVars, envVars, EnvTypes, Close,
     NoNewOrders, SellClosed
<1>6. CASE EodDue
  BY <1>6 DEF EodDue, OpenSession, dbVars, brokerVars, envVars, EnvTypes, Close,
     NoNewOrders, SellClosed
<1>7. CASE Connect
  BY <1>7 DEF Connect, StartReconcile, dbVars, brokerVars, Goto, envVars, EnvTypes,
     Close, NoNewOrders, SellClosed
<1>8. CASE ConnectFails
  BY <1>8 DEF ConnectFails, Fail, brokerVars, EndSession, dbVars, ForgetSession,
     EnvTypes, Close, NoNewOrders, SellClosed
<1>9. CASE BrokerCallFails
  BY <1>9 DEF BrokerCallFails, PauseAndFail, brokerVars, EndSession, ForgetSession,
     envVars, EnvTypes, Close, NoNewOrders, SellClosed
<1>10. CASE QueryOrders
  BY <1>10 DEF QueryOrders, Goto, dbVars, brokerVars, envVars, EnvTypes, Close,
     NoNewOrders, SellClosed
<1>11. CASE QueryOrdersUnknown
  <2>1. PICK x \in Intents : Known(book[x]) /\ seenOrders' = [book EXCEPT ![x].status = "UNKNOWN"]
    BY <1>11 DEF QueryOrdersUnknown
  <2>2. \A i \in Intents : Known(book[i]) => Known(seenOrders'[i])
    BY <2>1 DEF BrokerTypes, Orders, NoOrder, Known
  <2>3. JobInv' /\ ResolvedInv' /\ PhaseInv' /\ EodInv' /\ SuccessIsResolved'
    BY <1>11 DEF QueryOrdersUnknown, Goto, dbVars, brokerVars, EnvTypes, Close,
       NoNewOrders, SellClosed
  <2>4. AfterInv'
    BY <1>11, <2>2 DEF QueryOrdersUnknown, Goto, dbVars, brokerVars
  <2> QED
    BY <2>3, <2>4
<1>12. CASE QueryTrades
  BY <1>12 DEF QueryTrades, Goto, dbVars, brokerVars, envVars, EnvTypes, Close,
     NoNewOrders, SellClosed
<1>13. CASE Reconcile
  <2>1. \A i \in Intents :
          /\ intent'[i] = Reconciled(i)
          /\ Unresolved(intent'[i]) => Unresolved(intent[i])
          /\ ~Known(seenOrders[i]) => intent'[i] = intent[i]
    BY <1>13, ReconciledDoubt DEF Reconcile
  <2>2. /\ UNCHANGED <<book, transit, sends, seenOrders, seenTrades, cur, at>> /\ pc = "reconcile"
        /\ UNCHANGED <<stepDone, rebalance, eodDone, clock, open>>
        /\ \A i \in Intents : applied'[i] = applied[i] \cup 1 .. seenTrades[i]
    BY <1>13 DEF Reconcile, brokerVars, sessionVars, envVars
  <2>3. \/ pc' = "pause"
        \/ /\ pc' = "after"
           /\ \A i \in Intents : /\ ~Mismatch(i) /\ seenOrders[i].status # "UNKNOWN"
                                 /\ ~Unresolved(intent'[i])
    BY <1>13 DEF Reconcile, Goto
  <2>4. \A i \in transit : ~Known(seenOrders[i])
    BY DEF OutcomeInv, BrokerInv, SnapshotInv, BrokerTypes
  <2>5. JobInv' /\ PhaseInv'
    BY <1>13 DEF Reconcile, Goto, brokerVars, sessionVars, envVars, EnvTypes, Close,
       NoNewOrders, SellClosed
  <2>6. ResolvedInv'
    BY <2>1, <2>2, <2>3, <2>4 DEF BrokerTypes
  <2>7. AfterInv'
    BY <2>2, <2>3 DEF Mismatch
  <2>8. EodInv'
    BY <1>0, <2>1, <2>2, <2>3, EodKept
  <2>9. SuccessIsResolved'
    BY <2>1, <2>2 DEF Unresolved
  <2> QED
    BY <2>5, <2>6, <2>7, <2>8, <2>9
<1>14. CASE Pause
  BY <1>14 DEF Pause, PauseAndFail, brokerVars, EndSession, ForgetSession, envVars,
     EnvTypes, Close, NoNewOrders, SellClosed
<1>15. CASE ResumeAccount
  BY <1>15 DEF ResumeAccount, Goto, brokerVars, sessionVars, envVars, EnvTypes, Close,
     NoNewOrders, SellClosed
<1>16. CASE AdmitRebalance
  BY <1>16 DEF AdmitRebalance, StartReconcile, dbVars, brokerVars, Goto, envVars,
     EnvTypes, Close, NoNewOrders, SellClosed
<1>17. CASE RebalanceTooLate
  BY <1>17 DEF RebalanceTooLate, EndSession, brokerVars, ForgetSession, envVars,
     EnvTypes, Close, NoNewOrders, SellClosed
<1>18. CASE AccountNotActive
  BY <1>18 DEF AccountNotActive, Fail, brokerVars, EndSession, dbVars, ForgetSession,
     envVars, EnvTypes, Close, NoNewOrders, SellClosed
<1>19. CASE AdmitEod
  BY <1>19 DEF AdmitEod, StartReconcile, dbVars, brokerVars, Goto, envVars, EnvTypes,
     Close, NoNewOrders, SellClosed
<1>20. CASE BeginPhases
  BY <1>20 DEF BeginPhases, Goto, dbVars, brokerVars, sessionVars, envVars, EnvTypes,
     Close, NoNewOrders, SellClosed
<1>21. CASE FinishRebalance
  <2>1. JobInv' /\ ResolvedInv' /\ AfterInv' /\ PhaseInv' /\ EodInv'
    BY <1>21 DEF FinishRebalance, EndSession, LastHealthCheck, brokerVars,
       ForgetSession, envVars, EnvTypes, Close, NoNewOrders, SellClosed
  <2>2. SuccessIsResolved'
    BY <1>21 DEF FinishRebalance, Unresolved
  <2> QED
    BY <2>1, <2>2
<1>22. CASE EodUnresolved
  BY <1>22 DEF EodUnresolved, Goto, dbVars, brokerVars, sessionVars, envVars, EnvTypes,
     Close, NoNewOrders, SellClosed
<1>23. CASE FinishEod
  <2>1. pc = "after" /\ at = "eod" /\ UNCHANGED <<book, intent, applied, clock>> /\ Settled
    BY <1>23 DEF FinishEod, brokerVars, envVars
  <2>2. \A i \in Intents : ~OpenAtBroker(i) /\ applied[i] = 1 .. book[i].filled
    BY <1>23, <2>1, SeenIsBook DEF FinishEod
  <2>3. JobInv' /\ ResolvedInv' /\ AfterInv' /\ PhaseInv' /\ SuccessIsResolved'
    BY <1>23 DEF FinishEod, EndSession, LastHealthCheck, brokerVars, ForgetSession,
       envVars, EnvTypes, Close, NoNewOrders, SellClosed
  <2>4. EodInv'
    BY <1>23, <2>1, <2>2 DEF FinishEod, EndSession, ForgetSession, Unresolved
  <2> QED
    BY <2>3, <2>4
<1>24. CASE PhaseAlreadyDone
  BY <1>24 DEF PhaseAlreadyDone, AfterPhase, dbVars, brokerVars, Goto, envVars,
     EnvTypes, Close, NoNewOrders, SellClosed, Sides
<1>25. CASE SkipBuy
  BY <1>25 DEF SkipBuy, StepDone, AfterPhase, brokerVars, Goto, envVars, ToRun,
     MissedBuyWindow, EnvTypes, Close, NoNewOrders, SellClosed, Sides
<1>26. CASE QuotesFail
  BY <1>26 DEF QuotesFail, Fail, brokerVars, EndSession, dbVars, ForgetSession, ToRun,
     MissedBuyWindow, EnvTypes, Close, NoNewOrders, SellClosed
<1>27. CASE ResumePhase
  BY <1>27 DEF ResumePhase, Goto, dbVars, brokerVars, envVars, WindowOpen, ToRun,
     MissedBuyWindow, Existing, EnvTypes, Close, NoNewOrders, SellClosed
<1>28. CASE FreezeTargets
  BY <1>28 DEF FreezeTargets, Goto, brokerVars, envVars, WindowOpen, ToRun,
     MissedBuyWindow, Existing, EnvTypes, Close, NoNewOrders, SellClosed
<1>29. CASE PlanRefused
  BY <1>29 DEF PlanRefused, Goto, dbVars, brokerVars, sessionVars, envVars, EnvTypes,
     Close, NoNewOrders, SellClosed
<1>30. CASE Plan
  <2>1. \A i \in Intents : SideOf[i] = phase => intent[i] = "ABSENT" /\ sends[i] = 0
    BY <1>30 DEF Plan, SendInv, PlansAreNew, NotSentYet, Unsent
  <2>2. /\ \A i \in Intents : intent'[i] \in {"PLANNED", "REJECTED", intent[i]}
        /\ \A i \in Intents : intent'[i] # intent[i] => sends[i] = 0
    BY <1>30, <2>1 DEF Plan
  <2>3. \A i \in transit : intent'[i] = intent[i]
    BY <2>2, KnownIsSent DEF BrokerTypes
  <2>4. JobInv' /\ AfterInv' /\ PhaseInv' /\ EodInv' /\ SuccessIsResolved'
    BY <1>30 DEF Plan, Goto, brokerVars, envVars, OnlyIntent, EnvTypes, Close,
       NoNewOrders, SellClosed
  <2>5. ResolvedInv'
    BY <1>30, <2>2, <2>3 DEF Plan, Goto, brokerVars, Unresolved, BrokerTypes
  <2> QED
    BY <2>4, <2>5
<1>31. CASE WaitForPhase
  BY <1>31 DEF WaitForPhase, StartReconcile, dbVars, brokerVars, Goto, envVars,
     EnvTypes, Close, NoNewOrders, SellClosed
<1>32. ASSUME NEW i \in Intents, RejectLatePlan(i) PROVE PhasesInv'
  <2>1. /\ intent' = [intent EXCEPT ![i] = SetIntentStatus(intent[i], "REJECTED")]
        /\ i \in Intents /\ intent \in [Intents -> IntentStatus]
    BY <1>32 DEF RejectLatePlan, DatabaseTypes
  <2>2. /\ intent'[i] = SetIntentStatus(intent[i], "REJECTED")
        /\ \A j \in Intents \ {i} : intent'[j] = intent[j]
    BY <2>1
  <2>3. \A j \in Intents : Unresolved(intent'[j]) => Unresolved(intent[j])
    BY <2>1, <2>2, StatusDoubt DEF Targets
  <2>4. i \notin transit
    BY <1>32, KnownIsSent DEF RejectLatePlan, SendInv, QueuedAreUnsent
  <2>5. JobInv' /\ AfterInv' /\ PhaseInv' /\ SuccessIsResolved'
    BY <1>32 DEF RejectLatePlan, brokerVars, envVars, OnlyIntent, EnvTypes, Close,
       NoNewOrders, SellClosed
  <2>6. ResolvedInv'
    BY <1>32, <2>2, <2>3, <2>4 DEF RejectLatePlan, brokerVars, BrokerTypes
  <2>7. EodInv'
    BY <1>0, <1>32, <2>3, EodKept DEF RejectLatePlan, OnlyIntent, brokerVars, envVars
  <2> QED
    BY <2>5, <2>6, <2>7
<1>33. ASSUME NEW i \in Intents, MarkSubmitting(i) PROVE PhasesInv'
  BY <1>33 DEF MarkSubmitting, Goto, brokerVars, envVars, OnlyIntent, EnvTypes, Close,
     NoNewOrders, SellClosed
<1>34. CASE Send
  <2>1. Unresolved(intent[cur])
    BY <1>34 DEF Send, OutcomeInv, RejectedInv, Unresolved
  <2>2. intent[cur] = "SUBMITTING"
    BY <1>34 DEF Send, OutcomeInv, RejectedInv
  <2>3. JobInv' /\ AfterInv' /\ PhaseInv' /\ EodInv' /\ SuccessIsResolved'
    BY <1>34 DEF Send, Goto, dbVars, sessionVars, envVars, EnvTypes, Close,
       NoNewOrders, SellClosed
  <2>4. ResolvedInv'
    BY <1>34, <2>1, <2>2 DEF Send, Goto, dbVars, sessionVars
  <2> QED
    BY <2>3, <2>4
<1>35. CASE Accepted
  <2>1. /\ intent' = [intent EXCEPT ![cur] = SetIntentStatus(intent[cur], "SUBMITTED")]
        /\ cur \in Intents /\ intent \in [Intents -> IntentStatus]
    BY <1>35 DEF Accepted, DatabaseTypes
  <2>2. /\ intent'[cur] = SetIntentStatus(intent[cur], "SUBMITTED")
        /\ \A j \in Intents \ {cur} : intent'[j] = intent[j]
    BY <2>1
  <2>3. \A j \in Intents : Unresolved(intent'[j]) => Unresolved(intent[j])
    BY <2>1, <2>2, StatusDoubt DEF Targets
  <2>4. cur \notin transit
    BY <1>35 DEF Accepted, OutcomeInv, BrokerInv
  <2>5. ~Unresolved(intent'[cur])
    BY <2>1, <2>2, StatusDoubt
  <2>6. JobInv' /\ AfterInv' /\ PhaseInv' /\ EodInv' /\ SuccessIsResolved'
    BY <1>35 DEF Accepted, Goto, brokerVars, envVars, EnvTypes, Close, NoNewOrders,
       SellClosed
  <2>7. ResolvedInv'
    BY <1>35, <2>2, <2>3, <2>4, <2>5 DEF Accepted, Goto, brokerVars, BrokerTypes
  <2> QED
    BY <2>6, <2>7
<1>36. CASE Refused
  <2>1. /\ intent' = [intent EXCEPT ![cur] = SetIntentStatus(intent[cur], "REJECTED")]
        /\ cur \in Intents /\ intent \in [Intents -> IntentStatus]
    BY <1>36 DEF Refused, DatabaseTypes
  <2>2. /\ intent'[cur] = SetIntentStatus(intent[cur], "REJECTED")
        /\ \A j \in Intents \ {cur} : intent'[j] = intent[j]
    BY <2>1
  <2>3. \A j \in Intents : Unresolved(intent'[j]) => Unresolved(intent[j])
    BY <2>1, <2>2, StatusDoubt DEF Targets
  <2>4. ~Unresolved(intent'[cur])
    BY <1>36, <2>2 DEF Refused, SetIntentStatus, AllowedFrom, Unresolved
  <2>5. JobInv' /\ AfterInv' /\ PhaseInv' /\ EodInv' /\ SuccessIsResolved'
    BY <1>36 DEF Refused, Goto, envVars, OnlyIntent, EnvTypes, Close, NoNewOrders,
       SellClosed
  <2>6. ResolvedInv'
    BY <1>36, <2>2, <2>3, <2>4 DEF Refused, Goto, BrokerTypes
  <2> QED
    BY <2>5, <2>6
<1>37. CASE ResultUnknown
  <2>1. /\ intent' = [intent EXCEPT ![cur] = SetIntentStatus(intent[cur], "SUBMIT_UNKNOWN")]
        /\ cur \in Intents /\ intent \in [Intents -> IntentStatus]
    BY <1>37 DEF ResultUnknown, DatabaseTypes
  <2>2. /\ intent'[cur] = SetIntentStatus(intent[cur], "SUBMIT_UNKNOWN")
        /\ \A j \in Intents \ {cur} : intent'[j] = intent[j]
    BY <2>1
  <2>3. \A j \in Intents : Unresolved(intent'[j]) => Unresolved(intent[j])
    BY <2>1, <2>2, StatusDoubt DEF Targets
  <2>4. cur \in transit => Unresolved(intent'[cur])
    BY <1>37, <2>2 DEF ResultUnknown, SetIntentStatus, AllowedFrom, Unresolved
  <2>5. JobInv' /\ AfterInv' /\ PhaseInv' /\ EodInv' /\ SuccessIsResolved'
    BY <1>37 DEF ResultUnknown, Goto, brokerVars, sessionVars, envVars, OnlyIntent,
       EnvTypes, Close, NoNewOrders, SellClosed
  <2>6. ResolvedInv'
    BY <1>37, <2>2, <2>4 DEF ResultUnknown, Goto, brokerVars, sessionVars, BrokerTypes
  <2> QED
    BY <2>5, <2>6
<1>38. CASE SellsClosed
  <2>1. \A i \in Intents : SideOf[i] = "SELL" => ~IsActive(seenOrders[i].status)
    BY <1>38 DEF SellsClosed, StillActive
  <2>2. SellsAreClosed
    BY <1>38, <2>1, SeenIsBook DEF SellsClosed, Waited
  <2>3. JobInv' /\ ResolvedInv' /\ AfterInv' /\ EodInv' /\ SuccessIsResolved'
    BY <1>38 DEF SellsClosed, StartReconcile, dbVars, brokerVars, Goto, envVars,
       Waited, StillActive, EnvTypes, Close, NoNewOrders, SellClosed
  <2>4. PhaseInv'
    BY <1>38, <2>2 DEF SellsClosed, StartReconcile, Goto, Waited, dbVars, brokerVars
  <2> QED
    BY <2>3, <2>4
<1>39. CASE PhaseEnds
  BY <1>39 DEF PhaseEnds, StepDone, AfterPhase, brokerVars, Goto, envVars, Waited,
     StillActive, EnvTypes, Close, NoNewOrders, SellClosed, Sides
<1>40. CASE PollAgain
  BY <1>40 DEF PollAgain, StartReconcile, dbVars, brokerVars, Goto, envVars, Waited,
     StillActive, EnvTypes, Close, NoNewOrders, SellClosed
<1>41. CASE WaitExpires
  BY <1>41 DEF WaitExpires, Goto, dbVars, brokerVars, sessionVars, envVars, Waited,
     StillActive, EnvTypes, Close, NoNewOrders, SellClosed
<1>42. CASE ListOpenOrders
  BY <1>42 DEF ListOpenOrders, Goto, dbVars, brokerVars, envVars, EnvTypes, Close,
     NoNewOrders, SellClosed
<1>43. CASE CancelRefused
  BY <1>43 DEF CancelRefused, Goto, dbVars, brokerVars, sessionVars, envVars, EnvTypes,
     Close, NoNewOrders, SellClosed
<1>44. CASE AwaitCancels
  BY <1>44 DEF AwaitCancels, StartReconcile, dbVars, brokerVars, Goto, envVars,
     EnvTypes, Close, NoNewOrders, SellClosed
<1>45. CASE CancelNotConfirmed
  BY <1>45 DEF CancelNotConfirmed, Goto, dbVars, brokerVars, sessionVars, envVars,
     Waited, StillActive, EnvTypes, Close, NoNewOrders, SellClosed
<1>46. ASSUME NEW i \in Intents, CancelOrder(i) PROVE PhasesInv'
  BY <1>46 DEF CancelOrder, dbVars, envVars, EnvTypes, Close, NoNewOrders, SellClosed
<1>47. ASSUME NEW i \in Intents, ConsumeOrder(i) PROVE PhasesInv'
  <2>1. /\ intent' = [intent EXCEPT ![i] = SetIntentStatus(intent[i], "SUBMITTED")]
        /\ i \in Intents /\ intent \in [Intents -> IntentStatus]
    BY <1>47 DEF ConsumeOrder, DatabaseTypes
  <2>2. /\ intent'[i] = SetIntentStatus(intent[i], "SUBMITTED")
        /\ \A j \in Intents \ {i} : intent'[j] = intent[j]
    BY <2>1
  <2>3. \A j \in Intents : Unresolved(intent'[j]) => Unresolved(intent[j])
    BY <2>1, <2>2, StatusDoubt DEF Targets
  <2>4. i \notin transit
    BY <1>47 DEF ConsumeOrder, OutcomeInv, BrokerInv
  <2>5. intent[i] \in {"SUBMITTING", "SUBMITTED"} => intent'[i] = "SUBMITTED"
    BY <2>2 DEF SetIntentStatus, AllowedFrom
  <2>6. JobInv' /\ AfterInv' /\ PhaseInv'
    BY <1>47 DEF ConsumeOrder, brokerVars, sessionVars, envVars, EnvTypes, Close,
       NoNewOrders, SellClosed
  <2>7. ResolvedInv'
    BY <1>47, <2>2, <2>3, <2>4, <2>5 DEF ConsumeOrder, brokerVars, sessionVars,
       BrokerTypes
  <2>8. EodInv'
    BY <1>0, <1>47, <2>3, EodKept DEF ConsumeOrder, brokerVars, sessionVars, envVars
  <2>9. SuccessIsResolved'
    BY <1>47, <2>3 DEF ConsumeOrder, Unresolved
  <2> QED
    BY <2>6, <2>7, <2>8, <2>9
<1>48. ASSUME NEW i \in Intents, ConsumeTrade(i) PROVE PhasesInv'
  <2>1. JobInv' /\ ResolvedInv' /\ AfterInv' /\ PhaseInv' /\ SuccessIsResolved'
    BY <1>48 DEF ConsumeTrade, brokerVars, sessionVars, envVars, EnvTypes, Close,
       NoNewOrders, SellClosed
  <2>2. EodInv'
    BY <1>0, <1>48, EodKept DEF ConsumeTrade, brokerVars, sessionVars, envVars
  <2> QED
    BY <2>1, <2>2
<1>49. CASE ReportBreach
  BY <1>49 DEF ReportBreach, dbVars, brokerVars, sessionVars, envVars, EnvTypes, Close,
     NoNewOrders, SellClosed
<1>50. CASE BrokerUnhealthy
  BY <1>50 DEF BrokerUnhealthy, dbVars, brokerVars, sessionVars, EnvTypes, Close,
     NoNewOrders, SellClosed
<1>51. ASSUME NEW i \in Intents, Arrive(i) PROVE PhasesInv'
  <2>1. JobInv' /\ ResolvedInv' /\ AfterInv' /\ PhaseInv' /\ SuccessIsResolved'
    BY <1>51 DEF Arrive, dbVars, sessionVars, envVars, EnvTypes, Close, NoNewOrders,
       SellClosed
  <2>2. EodInv'
    BY <1>51, EodIsFinal DEF Arrive, dbVars, sessionVars, envVars
  <2> QED
    BY <2>1, <2>2
<1>52. ASSUME NEW i \in Intents, Lost(i) PROVE PhasesInv'
  BY <1>52 DEF Lost, dbVars, sessionVars, envVars, EnvTypes, Close, NoNewOrders,
     SellClosed
<1>53. ASSUME NEW i \in Intents, Fill(i) PROVE PhasesInv'
  <2>1. \A j \in Intents : Known(book'[j]) => Known(book[j])
    BY <1>53, OrderFacts DEF Fill, BrokerTypes
  <2>2. JobInv' /\ ResolvedInv' /\ PhaseInv' /\ EodInv' /\ SuccessIsResolved'
    BY <1>53 DEF Fill, dbVars, sessionVars, envVars, EnvTypes, Close, NoNewOrders,
       SellClosed
  <2>3. AfterInv'
    BY <1>53, <2>1 DEF Fill, dbVars, sessionVars
  <2> QED
    BY <2>2, <2>3
<1>54. ASSUME NEW i \in Intents, CloseOrder(i) PROVE PhasesInv'
  <2>1. \A j \in Intents : Known(book'[j]) => Known(book[j])
    BY <1>54, OrderFacts DEF CloseOrder, BrokerTypes
  <2>2. JobInv' /\ ResolvedInv' /\ PhaseInv' /\ EodInv' /\ SuccessIsResolved'
    BY <1>54 DEF CloseOrder, dbVars, sessionVars, envVars, EnvTypes, Close,
       NoNewOrders, SellClosed
  <2>3. AfterInv'
    BY <1>54, <2>1 DEF CloseOrder, dbVars, sessionVars
  <2> QED
    BY <2>2, <2>3
<1>55. CASE Tick
  BY <1>55 DEF Tick, dbVars, brokerVars, sessionVars, EnvTypes, Close, NoNewOrders,
     SellClosed
<1> QED
  BY <1>1, <1>2, <1>3, <1>4, <1>5, <1>6, <1>7, <1>8, <1>9, <1>10, <1>11, <1>12, <1>13,
     <1>14, <1>15, <1>16, <1>17, <1>18, <1>19, <1>20, <1>21, <1>22, <1>23, <1>24,
     <1>25, <1>26, <1>27, <1>28, <1>29, <1>30, <1>31, <1>32, <1>33, <1>34, <1>35,
     <1>36, <1>37, <1>38, <1>39, <1>40, <1>41, <1>42, <1>43, <1>44, <1>45, <1>46,
     <1>47, <1>48, <1>49, <1>50, <1>51, <1>52, <1>53, <1>54, <1>55 DEF Next, Engine,
     Scheduler, Session, Phase, Waiting, Consumer, Broker

\* The invariant of the phases holds of every behaviour, with those it rests on.
LEMMA PhasesHold == Spec => [](TypeOK /\ SendInv /\ OutcomeInv /\ PhasesInv)
<1>1. Init => PhasesInv
  BY DEF Init, PhasesInv, JobInv, InRebalance, ResolvedInv, Settled, Reconciling, AfterInv,
     PhaseInv,
     SellsAreClosed, EodInv, SuccessIsResolved, Sides
<1>2. TypeOK /\ SendInv /\ OutcomeInv /\ PhasesInv /\ [Next]_vars => PhasesInv'
  <2>1. CASE Next
    BY <2>1, PhasesStep
  <2>2. CASE UNCHANGED vars
    BY <2>2 DEF vars, dbVars, brokerVars, sessionVars, flagVars, envVars, PhasesInv, JobInv,
       InRebalance,
       ResolvedInv, Settled, Reconciling, AfterInv, PhaseInv, SellsAreClosed, OpenAtBroker, EodInv,
       EodIsComplete, SuccessIsResolved
  <2> QED
    BY <2>1, <2>2
<1> QED
  BY <1>1, <1>2, OutcomesHold, PTL DEF Spec

\* Once a buy has left for the broker no sell is open or on its way, over any
\* number of sessions and crashes.
THEOREM SellsFirst == Spec => []SellsCloseBeforeBuys
<1>1. PhasesInv => SellsCloseBeforeBuys
  BY DEF PhasesInv, PhaseInv, SellsAreClosed, SellsCloseBeforeBuys
<1> QED
  BY <1>1, PhasesHold, PTL

\* A successful end of day leaves no order open and no submission in doubt, and
\* the ledger it takes its snapshot of holds every trade of the day.
THEOREM CompleteEod == Spec => []EodIsComplete
<1>1. PhasesInv => EodIsComplete
  BY DEF PhasesInv, EodInv, EodIsComplete
<1> QED
  BY <1>1, PhasesHold, PTL

\* A rebalance recorded as successful has no submission in doubt, then or later.
THEOREM ResolvedSuccess == Spec => []SuccessIsResolved
<1>1. PhasesInv => SuccessIsResolved
  BY DEF PhasesInv
<1> QED
  BY <1>1, PhasesHold, PTL
-----------------------------------------------------------------------------
(***************************************************************************)
(* The cash guard of the buys.  While no crash has reset the process there  *)
(* is one rebalance session, so a buy is submitted by the phase that        *)
(* planned it on a ledger that was not overdrawn; whatever overdraws it     *)
(* later stops the session, or is about to.                                 *)
(***************************************************************************)
NoBuyYet == \A i \in Intents : SideOf[i] = "BUY" => intent[i] = "ABSENT"

\* The session has not reached its phases.
Starting ==
  \/ pc \in {"down", "idle", "connect", "admit"}
  \/ pc \in {"orders", "trades", "reconcile", "after"} /\ at \in {"startup", "begin"}

Submitting == pc \in {"submit", "send", "answer"}

CashInv ==
  crashes = 0 =>
    /\ pc \notin {"down", "idle"} => connected
    /\ Starting => phase = "SELL"
    /\ "rebalance" \notin handled \/ pc = "down" => NoBuyYet /\ job # "rebalance"
    /\ job = "rebalance" /\ (phase = "SELL" \/ pc \in {"side", "plan"}) => NoBuyYet
    /\ Submitting /\ phase = "BUY" => ~overdrawn \/ breach \/ unhealthy

\* The step that BuysNeedCashUntilRestart allows.
CashStep ==
  crashes = 0 => \A i \in Intents :
    (SideOf[i] = "BUY" /\ intent[i] = "PLANNED" /\ intent'[i] = "SUBMITTING")
      => ~overdrawn \/ breach

\* No update creates an intent, nor does a reconciliation.
LEMMA AbsentStays ==
  /\ \A target \in Targets : SetIntentStatus("ABSENT", target) = "ABSENT"
  /\ \A i \in Intents : intent[i] = "ABSENT" => Reconciled(i) = "ABSENT"
<1>1. \A target \in Targets : SetIntentStatus("ABSENT", target) = "ABSENT"
  BY DEF SetIntentStatus, AllowedFrom, Targets
<1> QED
  BY <1>1 DEF Reconciled, Targets

\* Every step keeps what is known of the cash, and lets a buy leave only while
\* it is there.
LEMMA CashKept ==
  TypeOK /\ SendInv /\ OutcomeInv /\ PhasesInv /\ CashInv /\ Next => CashInv' /\ CashStep
<1> SUFFICES ASSUME TypeOK, SendInv, OutcomeInv, PhasesInv, CashInv, Next
             PROVE  CashInv' /\ CashStep
  OBVIOUS
<1> USE DEF PhasesInv, JobInv, InRebalance, PhaseInv, TypeOK, SessionTypes, EnvTypes, FlagTypes,
            CashInv, NoBuyYet, Starting, Submitting, CashStep
<1>1. CASE Restart
  BY <1>1 DEF Restart, dbVars, brokerVars, sessionVars, envVars, flagVars
<1>2. CASE Crash
  BY <1>2 DEF Crash, ForgetSession, dbVars, brokerVars
<1>3. CASE RebalanceHandled
  BY <1>3 DEF RebalanceHandled, dbVars, brokerVars, sessionVars, envVars, flagVars
<1>4. CASE RebalanceMissed
  BY <1>4 DEF RebalanceMissed, brokerVars, sessionVars, envVars, flagVars
<1>5. CASE RebalanceDue
  BY <1>5 DEF RebalanceDue, OpenSession, dbVars, brokerVars, envVars
<1>6. CASE EodDue
  BY <1>6 DEF EodDue, OpenSession, dbVars, brokerVars, envVars
<1>7. CASE Connect
  BY <1>7 DEF Connect, StartReconcile, dbVars, brokerVars, Goto, envVars, flagVars
<1>8. CASE ConnectFails
  BY <1>8 DEF ConnectFails, Fail, brokerVars, EndSession, dbVars, ForgetSession
<1>9. CASE BrokerCallFails
  BY <1>9 DEF BrokerCallFails, PauseAndFail, brokerVars, EndSession, ForgetSession,
     envVars
<1>10. CASE QueryOrders
  BY <1>10 DEF QueryOrders, Goto, dbVars, brokerVars, envVars, flagVars
<1>11. CASE QueryOrdersUnknown
  BY <1>11 DEF QueryOrdersUnknown, Goto, dbVars, brokerVars, flagVars
<1>12. CASE QueryTrades
  BY <1>12 DEF QueryTrades, Goto, dbVars, brokerVars, envVars, flagVars
<1>13. CASE Reconcile
  <2>1. \A i \in Intents :
          /\ intent[i] = "ABSENT" => intent'[i] = "ABSENT"
          /\ Unresolved(intent'[i]) => Unresolved(intent[i])
    BY <1>13, ReconciledDoubt, AbsentStays DEF Reconcile
  <2>2. /\ UNCHANGED <<job, phase, at, handled, connected, crashes>>
        /\ pc = "reconcile" /\ pc' \in {"pause", "after"}
    BY <1>13 DEF Reconcile, Goto, sessionVars, flagVars, envVars
  <2> QED
    BY <2>1, <2>2 DEF Unresolved
<1>14. CASE Pause
  BY <1>14 DEF Pause, PauseAndFail, brokerVars, EndSession, ForgetSession, envVars
<1>15. CASE ResumeAccount
  BY <1>15 DEF ResumeAccount, Goto, brokerVars, sessionVars, envVars, flagVars
<1>16. CASE AdmitRebalance
  BY <1>16 DEF AdmitRebalance, StartReconcile, dbVars, brokerVars, Goto, envVars,
     flagVars
<1>17. CASE RebalanceTooLate
  BY <1>17 DEF RebalanceTooLate, EndSession, brokerVars, ForgetSession, envVars
<1>18. CASE AccountNotActive
  BY <1>18 DEF AccountNotActive, Fail, brokerVars, EndSession, dbVars, ForgetSession,
     envVars
<1>19. CASE AdmitEod
  BY <1>19 DEF AdmitEod, StartReconcile, dbVars, brokerVars, Goto, envVars, flagVars
<1>20. CASE BeginPhases
  <2> QED
    BY <1>20 DEF BeginPhases, Goto, dbVars, brokerVars, sessionVars, envVars, flagVars
<1>21. CASE FinishRebalance
  BY <1>21 DEF FinishRebalance, EndSession, LastHealthCheck, brokerVars, ForgetSession,
     envVars
<1>22. CASE EodUnresolved
  BY <1>22 DEF EodUnresolved, Goto, dbVars, brokerVars, sessionVars, envVars, flagVars
<1>23. CASE FinishEod
  BY <1>23 DEF FinishEod, EndSession, LastHealthCheck, brokerVars, ForgetSession,
     envVars
<1>24. CASE PhaseAlreadyDone
  BY <1>24 DEF PhaseAlreadyDone, AfterPhase, dbVars, brokerVars, Goto, envVars,
     flagVars
<1>25. CASE SkipBuy
  BY <1>25 DEF SkipBuy, StepDone, AfterPhase, brokerVars, Goto, envVars, ToRun,
     MissedBuyWindow, flagVars
<1>26. CASE QuotesFail
  BY <1>26 DEF QuotesFail, Fail, brokerVars, EndSession, dbVars, ForgetSession, ToRun,
     MissedBuyWindow
<1>27. CASE ResumePhase
  BY <1>27 DEF ResumePhase, Goto, dbVars, brokerVars, envVars, WindowOpen, ToRun,
     MissedBuyWindow, Existing, flagVars
<1>28. CASE FreezeTargets
  BY <1>28 DEF FreezeTargets, Goto, brokerVars, envVars, WindowOpen, ToRun,
     MissedBuyWindow, Existing, flagVars
<1>29. CASE PlanRefused
  BY <1>29 DEF PlanRefused, Goto, dbVars, brokerVars, sessionVars, envVars, flagVars
<1>30. CASE Plan
  BY <1>30 DEF Plan, Goto, brokerVars, envVars, OnlyIntent, flagVars
<1>31. CASE WaitForPhase
  BY <1>31 DEF WaitForPhase, StartReconcile, dbVars, brokerVars, Goto, envVars,
     flagVars
<1>32. ASSUME NEW i \in Intents, RejectLatePlan(i) PROVE CashInv' /\ CashStep
  <2>1. /\ intent' = [intent EXCEPT ![i] = SetIntentStatus(intent[i], "REJECTED")]
        /\ i \in Intents /\ intent \in [Intents -> IntentStatus]
    BY <1>32 DEF RejectLatePlan, DatabaseTypes
  <2>2. /\ intent'[i] = SetIntentStatus(intent[i], "REJECTED")
        /\ \A j \in Intents \ {i} : intent'[j] = intent[j]
    BY <2>1
  <2>3. \A j \in Intents : Unresolved(intent'[j]) => Unresolved(intent[j])
    BY <2>1, <2>2, StatusDoubt DEF Targets
  <2>4. intent[i] = "ABSENT" => intent'[i] = "ABSENT"
    BY <2>2, AbsentStays DEF Targets
  <2> QED
    BY <1>32, <2>2, <2>3, <2>4 DEF RejectLatePlan, OnlyIntent, brokerVars, envVars,
       flagVars, Unresolved
<1>33. ASSUME NEW i \in Intents, MarkSubmitting(i) PROVE CashInv' /\ CashStep
  BY <1>33 DEF MarkSubmitting, Goto, brokerVars, envVars, OnlyIntent, flagVars
<1>34. CASE Send
  BY <1>34 DEF Send, Goto, dbVars, sessionVars, envVars, flagVars
<1>35. CASE Accepted
  <2>1. /\ intent' = [intent EXCEPT ![cur] = SetIntentStatus(intent[cur], "SUBMITTED")]
        /\ cur \in Intents /\ intent \in [Intents -> IntentStatus]
    BY <1>35 DEF Accepted, DatabaseTypes
  <2>2. /\ intent'[cur] = SetIntentStatus(intent[cur], "SUBMITTED")
        /\ \A j \in Intents \ {cur} : intent'[j] = intent[j]
    BY <2>1
  <2>3. \A j \in Intents : Unresolved(intent'[j]) => Unresolved(intent[j])
    BY <2>1, <2>2, StatusDoubt DEF Targets
  <2>4. intent[cur] = "ABSENT" => intent'[cur] = "ABSENT"
    BY <2>2, AbsentStays DEF Targets
  <2> QED
    BY <1>35, <2>2, <2>3, <2>4 DEF Accepted, Goto, brokerVars, envVars, flagVars,
       Unresolved
<1>36. CASE Refused
  <2>1. /\ intent' = [intent EXCEPT ![cur] = SetIntentStatus(intent[cur], "REJECTED")]
        /\ cur \in Intents /\ intent \in [Intents -> IntentStatus]
    BY <1>36 DEF Refused, DatabaseTypes
  <2>2. /\ intent'[cur] = SetIntentStatus(intent[cur], "REJECTED")
        /\ \A j \in Intents \ {cur} : intent'[j] = intent[j]
    BY <2>1
  <2>3. \A j \in Intents : Unresolved(intent'[j]) => Unresolved(intent[j])
    BY <2>1, <2>2, StatusDoubt DEF Targets
  <2>4. intent[cur] = "ABSENT" => intent'[cur] = "ABSENT"
    BY <2>2, AbsentStays DEF Targets
  <2> QED
    BY <1>36, <2>2, <2>3, <2>4 DEF Refused, Goto, OnlyIntent, envVars, flagVars,
       Unresolved
<1>37. CASE ResultUnknown
  <2>1. intent[cur] \notin {"ABSENT", "PLANNED"}
    BY <1>37 DEF ResultUnknown, ResolvedInv
  <2>2. /\ intent' = [intent EXCEPT ![cur] = SetIntentStatus(intent[cur], "SUBMIT_UNKNOWN")]
        /\ cur \in Intents /\ intent \in [Intents -> IntentStatus]
    BY <1>37 DEF ResultUnknown, DatabaseTypes
  <2>3. \A j \in Intents \ {cur} : intent'[j] = intent[j]
    BY <2>2
  <2> QED
    BY <1>37, <2>1, <2>3 DEF ResultUnknown, Goto, OnlyIntent, brokerVars, sessionVars,
       envVars, flagVars
<1>38. CASE SellsClosed
  BY <1>38 DEF SellsClosed, StartReconcile, dbVars, brokerVars, Goto, envVars, Waited,
     StillActive, flagVars
<1>39. CASE PhaseEnds
  BY <1>39 DEF PhaseEnds, StepDone, AfterPhase, brokerVars, Goto, envVars, Waited,
     StillActive, flagVars
<1>40. CASE PollAgain
  BY <1>40 DEF PollAgain, StartReconcile, dbVars, brokerVars, Goto, envVars, Waited,
     StillActive, flagVars
<1>41. CASE WaitExpires
  BY <1>41 DEF WaitExpires, Goto, dbVars, brokerVars, sessionVars, envVars, Waited,
     StillActive, flagVars
<1>42. CASE ListOpenOrders
  BY <1>42 DEF ListOpenOrders, Goto, dbVars, brokerVars, envVars, flagVars
<1>43. CASE CancelRefused
  BY <1>43 DEF CancelRefused, Goto, dbVars, brokerVars, sessionVars, envVars, flagVars
<1>44. CASE AwaitCancels
  BY <1>44 DEF AwaitCancels, StartReconcile, dbVars, brokerVars, Goto, envVars,
     flagVars
<1>45. CASE CancelNotConfirmed
  BY <1>45 DEF CancelNotConfirmed, Goto, dbVars, brokerVars, sessionVars, envVars,
     Waited, StillActive, flagVars
<1>46. ASSUME NEW i \in Intents, CancelOrder(i) PROVE CashInv' /\ CashStep
  BY <1>46 DEF CancelOrder, dbVars, envVars, flagVars
<1>47. ASSUME NEW i \in Intents, ConsumeOrder(i) PROVE CashInv' /\ CashStep
  <2>1. /\ intent' = [intent EXCEPT ![i] = SetIntentStatus(intent[i], "SUBMITTED")]
        /\ i \in Intents /\ intent \in [Intents -> IntentStatus]
    BY <1>47 DEF ConsumeOrder, DatabaseTypes
  <2>2. /\ intent'[i] = SetIntentStatus(intent[i], "SUBMITTED")
        /\ \A j \in Intents \ {i} : intent'[j] = intent[j]
    BY <2>1
  <2>3. \A j \in Intents : Unresolved(intent'[j]) => Unresolved(intent[j])
    BY <2>1, <2>2, StatusDoubt DEF Targets
  <2>4. intent[i] = "ABSENT" => intent'[i] = "ABSENT"
    BY <2>2, AbsentStays DEF Targets
  <2> QED
    BY <1>47, <2>2, <2>3, <2>4 DEF ConsumeOrder, brokerVars, sessionVars, envVars,
       flagVars, Unresolved
<1>48. ASSUME NEW i \in Intents, ConsumeTrade(i) PROVE CashInv' /\ CashStep
  <2>1. overdrawn' => overdrawn \/ breach'
    BY <1>48 DEF ConsumeTrade, CashAfter
  <2> QED
    BY <1>48, <2>1 DEF ConsumeTrade, brokerVars, sessionVars, envVars, flagVars
<1>49. CASE ReportBreach
  BY <1>49 DEF ReportBreach, dbVars, brokerVars, sessionVars, envVars
<1>50. CASE BrokerUnhealthy
  BY <1>50 DEF BrokerUnhealthy, dbVars, brokerVars, sessionVars
<1>51. ASSUME NEW i \in Intents, Arrive(i) PROVE CashInv' /\ CashStep
  BY <1>51 DEF Arrive, dbVars, sessionVars, envVars, flagVars
<1>52. ASSUME NEW i \in Intents, Lost(i) PROVE CashInv' /\ CashStep
  BY <1>52 DEF Lost, dbVars, sessionVars, envVars, flagVars
<1>53. ASSUME NEW i \in Intents, Fill(i) PROVE CashInv' /\ CashStep
  BY <1>53 DEF Fill, dbVars, sessionVars, envVars, flagVars
<1>54. ASSUME NEW i \in Intents, CloseOrder(i) PROVE CashInv' /\ CashStep
  BY <1>54 DEF CloseOrder, dbVars, sessionVars, envVars, flagVars
<1>55. CASE Tick
  BY <1>55 DEF Tick, dbVars, brokerVars, sessionVars, flagVars
<1> QED
  BY <1>1, <1>2, <1>3, <1>4, <1>5, <1>6, <1>7, <1>8, <1>9, <1>10, <1>11, <1>12, <1>13,
     <1>14, <1>15, <1>16, <1>17, <1>18, <1>19, <1>20, <1>21, <1>22, <1>23, <1>24,
     <1>25, <1>26, <1>27, <1>28, <1>29, <1>30, <1>31, <1>32, <1>33, <1>34, <1>35,
     <1>36, <1>37, <1>38, <1>39, <1>40, <1>41, <1>42, <1>43, <1>44, <1>45, <1>46,
     <1>47, <1>48, <1>49, <1>50, <1>51, <1>52, <1>53, <1>54, <1>55 DEF Next, Engine,
     Scheduler, Session, Phase, Waiting, Consumer, Broker

\* What is known of the cash holds of every behaviour.
LEMMA CashHolds == Spec => [](TypeOK /\ SendInv /\ OutcomeInv /\ PhasesInv /\ CashInv)
<1>1. Init => CashInv
  BY DEF Init, CashInv, NoBuyYet, Starting, Submitting
<1>2. TypeOK /\ SendInv /\ OutcomeInv /\ PhasesInv /\ CashInv /\ [Next]_vars => CashInv'
  <2>1. CASE Next
    BY <2>1, CashKept
  <2>2. CASE UNCHANGED vars
    BY <2>2 DEF vars, dbVars, sessionVars, flagVars, envVars, CashInv, NoBuyYet, Starting,
       Submitting
  <2> QED
    BY <2>1, <2>2
<1> QED
  BY <1>1, <1>2, PhasesHold, PTL DEF Spec

\* Until a crash, no buy plan is submitted on a ledger already overdrawn, unless
\* the breach has been booked and not yet reported: the startup reconciliation
\* that resumes a paused account cannot run between the plan and its submission.
THEOREM BuysFunded == Spec => BuysNeedCashUntilRestart
<1>1. TypeOK /\ SendInv /\ OutcomeInv /\ PhasesInv /\ CashInv /\ [Next]_vars => [CashStep]_vars
  BY CashKept
<1>2. [CashStep]_vars =>
        [crashes = 0 => \A i \in Intents :
           (SideOf[i] = "BUY" /\ intent[i] = "PLANNED" /\ intent'[i] = "SUBMITTING")
             => ~overdrawn \/ breach]_vars
  BY DEF CashStep
<1> QED
  BY <1>1, <1>2, CashHolds, PTL DEF Spec, BuysNeedCashUntilRestart
================================================================================
