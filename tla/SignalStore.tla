------------------------------ MODULE SignalStore ------------------------------
(***************************************************************************)
(* A strategy's decision from the evening it is made to the end of the     *)
(* session it is executed in: prepare_signal evaluates the strategy and    *)
(* commits the decision with its weights, the next session's rebalance     *)
(* reads them back, freezes the quantities before the first sell, and      *)
(* orders from the frozen quantities.  The process may die between any two *)
(* transactions and starts again from the tables.                          *)
(*                                                                         *)
(* Weights are integers, One of them the weight 1; a stored weight is      *)
(* rounded to the column's scale, StoreStep units.  Quantities are lots.   *)
(***************************************************************************)
EXTENDS Integers, Sequences, FiniteSets, FiniteSetsExt, Functions

CONSTANTS
  Symbols,      \* the universe of the strategy
  Outputs,      \* what the strategy may return: functions from some symbols to
                \* weights, the empty one <<>> for NO_REBALANCE
  Opens,        \* trading days
  Every,        \* rebalance_every_trading_days
  One, StoreStep, \* units of the weight 1, and of Numeric(18, 10)
  Prices,       \* prices of a lot
  Assets,       \* initial virtual cash
  LastDay, MaxCrashes, MaxRevisions  \* bounds

ASSUME SymbolsAssumption == IsFiniteSet(Symbols)
ASSUME DaysAssumption == LastDay \in Nat /\ Opens \subseteq 0 .. LastDay /\ Every \in Nat \ {0}
ASSUME UnitsAssumption == One \in Nat \ {0} /\ StoreStep \in Nat \ {0} /\ One % StoreStep = 0
ASSUME BoundsAssumption ==
  MaxCrashes \in Nat /\ MaxRevisions \in Nat /\ Assets \in Nat /\ Prices \subseteq Nat \ {0}

\* What TargetPortfolio accepts: some weights between 0 and 1, together 1 at most.
ASSUME OutputsAssumption ==
  \A o \in Outputs \ {<<>>} :
    \E S \in (SUBSET Symbols) \ {{}} : o \in [S -> 0 .. One] /\ SumFunction(o) <= One

VARIABLES
  \* MySQL
  decisions,  \* live_decision: rows [signal, execution, status]
  weights,    \* live_target_position: rows [signal, symbol, weight]
  plan,       \* their frozen quantities: rows [signal, symbol, quantity]
  orders,     \* order intents: rows [signal, day, symbol, side, quantity, target]
  runs,       \* terminal job and step rows [job, day]
  held, cash, \* the virtual account
  \* the process
  pc,         \* where it is in which job
  handled,    \* _handled, of this day
  result,     \* the evaluated decision, not yet saved: a set of at most one
  refused,    \* how the last refusal read
  \* environment
  today, phase, output, crashes, revisions

dbVars   == <<decisions, weights, plan, orders, runs, held, cash>>
procVars == <<pc, handled, result, refused>>
envVars  == <<today, phase, output, crashes, revisions>>
vars == <<dbVars, procVars, envVars>>
--------------------------------------------------------------------------------
(* Values. *)

Phases == <<"before", "window", "closed", "evening">>

NextOpen(d) == {e \in Opens : e > d /\ \A x \in Opens : x > d => e <= x}

ScheduleIndex(d) == Cardinality({e \in Opens : e < d})

\* MySQL rounds a value to the scale of its column, half away from zero.
Stored(w) == ((2 * w + StoreStep) \div (2 * StoreStep)) * StoreStep

RowsOf(table, d) == {r \in table : r.signal = d}

\* load_target_positions.
Loaded(d) == [s \in {r.symbol : r \in RowsOf(weights, d)} |->
                (CHOOSE r \in RowsOf(weights, d) : r.symbol = s).weight]

\* pending_decision_for_date.
Pending == {d \in decisions : d.status = "TARGET_CREATED" /\ d.execution = today}

\* The strategy's answer on day d, if a session follows to execute it.
Answers(out, d) ==
  IF d \in Opens /\ NextOpen(d) # {} THEN {[out EXCEPT ![d] = o] : o \in Outputs} ELSE {out}

Init ==
  /\ decisions = {} /\ weights = {} /\ plan = {} /\ orders = {} /\ runs = {}
  /\ held = [s \in Symbols |-> 0] /\ cash = Assets
  /\ pc = "idle" /\ handled = {} /\ result = {} /\ refused = "no"
  /\ today = 0 /\ phase = 1 /\ crashes = 0 /\ revisions = 0
  /\ output \in Answers([d \in Opens |-> <<>>], 0)

Terminal(job) == [job |-> job, day |-> today] \in runs

Record(job) == runs' = runs \cup {[job |-> job, day |-> today]}

At(name) == Phases[phase] = name

\* tick: a job is tried once, unless an earlier process completed it.
Due(job) == pc = "idle" /\ today \in Opens /\ job \notin handled

Try(job) == handled' = handled \cup {job}
--------------------------------------------------------------------------------
(* prepare_signal. *)

StartSignal ==
  /\ Due("prepare_signal") /\ At("evening") /\ Try("prepare_signal")
  /\ pc' = IF Terminal("prepare_signal") THEN "idle"
           ELSE IF Terminal("strategy_signal") THEN "signal:finish" ELSE "signal:evaluate"
  /\ UNCHANGED <<dbVars, result, refused, envVars>>

\* evaluate_daily_decision: on the schedule, the strategy's answer.
Decision ==
  IF ScheduleIndex(today) % Every # 0 THEN "NOT_SCHEDULED"
  ELSE IF output[today] = <<>> THEN "NO_REBALANCE" ELSE "TARGET_CREATED"

Evaluate ==
  /\ pc = "signal:evaluate" /\ NextOpen(today) # {}
  /\ LET status == Decision
     IN  result' = {[signal |-> today, execution |-> CHOOSE e \in NextOpen(today) : TRUE,
                     status |-> status,
                     weights |-> IF status = "TARGET_CREATED" THEN output[today] ELSE <<>>]}
  /\ pc' = "signal:save"
  /\ UNCHANGED <<dbVars, handled, refused, envVars>>

WeightRows(r) == {[signal |-> r.signal, symbol |-> s, weight |-> Stored(r.weights[s])] :
                    s \in DOMAIN r.weights}

Row(r) == [signal |-> r.signal, execution |-> r.execution, status |-> r.status]

\* create_or_get_decision: the day's row has other content; save_target_positions:
\* the saved weights are not the requested ones.
Differs(r) ==
  \/ \E d \in decisions : d.signal = r.signal /\ d # Row(r)
  \/ RowsOf(weights, r.signal) # {} /\ Loaded(r.signal) # r.weights

\* One transaction: the decision and its weights, or neither.
Save ==
  /\ pc = "signal:save"
  /\ \E r \in result :
       \/ /\ Differs(r) /\ pc' = "idle" /\ refused' = "differs"
          /\ UNCHANGED <<decisions, weights>>
       \/ /\ ~Differs(r) /\ pc' = "signal:step" /\ UNCHANGED refused
          /\ decisions' = decisions \cup {Row(r)}
          /\ weights' = IF RowsOf(weights, r.signal) = {}
                        THEN weights \cup WeightRows(r) ELSE weights
  /\ result' = {}
  /\ UNCHANGED <<plan, orders, runs, held, cash, handled, envVars>>

FinishSignalStep ==
  /\ pc = "signal:step" /\ Record("strategy_signal") /\ pc' = "signal:finish"
  /\ UNCHANGED <<decisions, weights, plan, orders, held, cash, handled, result, refused, envVars>>

FinishSignal ==
  /\ pc = "signal:finish" /\ Record("prepare_signal") /\ pc' = "idle"
  /\ UNCHANGED <<decisions, weights, plan, orders, held, cash, handled, result, refused, envVars>>
--------------------------------------------------------------------------------
(* rebalance. *)

Started == \E d \in Pending : RowsOf(plan, d.signal) # {} \/ RowsOf(orders, d.signal) # {}

\* The window opens; past it only a rebalance that has started goes on.
StartRebalance ==
  /\ Due("rebalance") /\ (At("window") \/ At("closed") \/ At("evening")) /\ Try("rebalance")
  /\ \/ /\ Terminal("rebalance") /\ pc' = "idle" /\ UNCHANGED runs
     \/ /\ ~Terminal("rebalance") /\ ~At("window") /\ ~Started
        /\ Record("rebalance") /\ pc' = "idle"
     \/ /\ ~Terminal("rebalance") /\ (At("window") \/ Started)
        /\ pc' = IF Pending = {} \/ Terminal("strategy_buy") THEN "rebalance:finish"
                 ELSE IF Terminal("strategy_sell") THEN "buy" ELSE "sell"
        /\ UNCHANGED runs
  /\ UNCHANGED <<decisions, weights, plan, orders, held, cash, result, refused, envVars>>

\* TargetPortfolio refuses weights that add up to more than one.
Unreadable(d) == SumFunction(Loaded(d)) > One

Fail(why) == pc' = "idle" /\ refused' = why

ReadTargets ==
  /\ \/ pc = "sell"
     \/ pc = "buy" /\ At("window")
  /\ \E d \in Pending : Unreadable(d.signal) /\ Fail("unreadable")
  /\ UNCHANGED <<dbVars, handled, result, envVars>>

Asset(price) == cash + price * SumFunction(held)

\* calculate_target_quantities.
Quantity(w, price) == (Asset(price) * w) \div (One * price)

SideRows(d, side) == {o \in RowsOf(orders, d.signal) : o.side = side}

\* freeze_execution_targets, at the prices of the first sell phase.
Freezes_Again(d) == TRUE  \* variant: frozen anew by a retry
Freezes(d) == RowsOf(plan, d.signal) = {}
Freeze ==
  /\ pc = "sell"
  /\ \E d \in Pending, price \in Prices :
       /\ ~Unreadable(d.signal) /\ Freezes(d)
       /\ SideRows(d, "SELL") = {}
       /\ plan' = (plan \ RowsOf(plan, d.signal)) \cup
                  {[signal |-> d.signal, symbol |-> s,
                    quantity |-> Quantity(Loaded(d.signal)[s], price)] : s \in DOMAIN Loaded(d.signal)}
  /\ UNCHANGED <<decisions, weights, orders, runs, held, cash, procVars, envVars>>

Frozen(d) == [s \in {r.symbol : r \in RowsOf(plan, d.signal)} |->
                (CHOOSE r \in RowsOf(plan, d.signal) : r.symbol = s).quantity]

\* The quantities the buy phase works towards.
Aim_Fresh(d, price) == [s \in DOMAIN Loaded(d.signal) |-> Quantity(Loaded(d.signal)[s], price)]  \* variant
Aim(d, price) == Frozen(d)

NewOrder(d, s, side, q, aim) ==
  [signal |-> d.signal, day |-> today, symbol |-> s, side |-> side, quantity |-> q,
   target |-> aim[s]]

\* Whichever of its orders fill before the deadline; past it all are rejected.
Sell ==
  /\ pc = "sell"
  /\ \E d \in Pending, price \in Prices :
       /\ ~Unreadable(d.signal)
       /\ SideRows(d, "SELL") = {} /\ RowsOf(plan, d.signal) # {}
       /\ LET aim    == Aim(d, price)
              excess == {s \in DOMAIN aim : held[s] > aim[s]}
          IN  /\ orders' = orders \cup {NewOrder(d, s, "SELL", held[s] - aim[s], aim) : s \in excess}
              /\ \E sold \in SUBSET (IF At("window") THEN excess ELSE {}) :
                   /\ held' = [s \in Symbols |-> IF s \in sold THEN aim[s] ELSE held[s]]
                   /\ cash' = cash + price * SumFunction([s \in sold |-> held[s] - aim[s]])
  /\ pc' = "sell:step" /\ UNCHANGED <<decisions, weights, plan, runs, handled, result, refused, envVars>>

\* An interrupted phase resumes its intents and sends nothing new.
Resume ==
  /\ \E d \in Pending : /\ ~Unreadable(d.signal)
                        /\ \/ pc = "sell" /\ SideRows(d, "SELL") # {}
                           \/ pc = "buy" /\ At("window") /\ SideRows(d, "BUY") # {}
  /\ pc' = IF pc = "sell" THEN "sell:step" ELSE "buy:step"
  /\ UNCHANGED <<dbVars, handled, result, refused, envVars>>

FinishSell ==
  /\ pc = "sell:step" /\ Record("strategy_sell") /\ pc' = "buy"
  /\ UNCHANGED <<decisions, weights, plan, orders, held, cash, handled, result, refused, envVars>>

MissBuy ==
  /\ pc = "buy" /\ ~At("window") /\ pc' = "buy:step"
  /\ UNCHANGED <<dbVars, handled, result, refused, envVars>>

\* The buys are those the cash allows.
Buy ==
  /\ pc = "buy" /\ At("window")
  /\ \E d \in Pending, price \in Prices :
       /\ ~Unreadable(d.signal) /\ SideRows(d, "BUY") = {} /\ RowsOf(plan, d.signal) # {}
       /\ LET aim     == Aim(d, price)
              missing == {s \in DOMAIN aim : held[s] < aim[s]}
          IN  \E bought \in SUBSET missing :
                /\ price * SumFunction([s \in bought |-> aim[s] - held[s]]) <= cash
                /\ orders' = orders \cup {NewOrder(d, s, "BUY", aim[s] - held[s], aim) : s \in bought}
                /\ held' = [s \in Symbols |-> IF s \in bought THEN aim[s] ELSE held[s]]
                /\ cash' = cash - price * SumFunction([s \in bought |-> aim[s] - held[s]])
  /\ pc' = "buy:step" /\ UNCHANGED <<decisions, weights, plan, runs, handled, result, refused, envVars>>

FinishBuy ==
  /\ pc = "buy:step" /\ Record("strategy_buy") /\ pc' = "rebalance:finish"
  /\ UNCHANGED <<decisions, weights, plan, orders, held, cash, handled, result, refused, envVars>>

FinishRebalance ==
  /\ pc = "rebalance:finish" /\ Record("rebalance") /\ pc' = "idle"
  /\ UNCHANGED <<decisions, weights, plan, orders, held, cash, handled, result, refused, envVars>>
--------------------------------------------------------------------------------
(* Environment. *)

Crash ==
  /\ pc # "off" /\ crashes < MaxCrashes /\ crashes' = crashes + 1
  /\ pc' = "off" /\ result' = {} /\ handled' = {}
  /\ UNCHANGED <<dbVars, refused, today, phase, output, revisions>>

Restart ==
  /\ pc = "off" /\ pc' = "idle" /\ handled' = {}
  /\ UNCHANGED <<dbVars, result, refused, envVars>>

\* The vendor publishes other bars for the day: the strategy answers otherwise.
Revise ==
  /\ revisions < MaxRevisions /\ revisions' = revisions + 1 /\ At("evening")
  /\ output' \in Answers(output, today)
  /\ UNCHANGED <<dbVars, procVars, today, phase, crashes>>

Advance ==
  /\ \/ /\ phase < Len(Phases) /\ phase' = phase + 1 /\ UNCHANGED <<today, handled, output>>
     \/ /\ phase = Len(Phases) /\ today < LastDay /\ pc \in {"idle", "off"}
        /\ phase' = 1 /\ today' = today + 1 /\ handled' = {}
        /\ output' \in Answers(output, today + 1)
  /\ UNCHANGED <<dbVars, pc, result, refused, crashes, revisions>>

Next ==
  \/ StartSignal \/ Evaluate \/ Save \/ FinishSignalStep \/ FinishSignal
  \/ StartRebalance \/ ReadTargets \/ Freeze \/ Sell \/ Resume \/ FinishSell
  \/ MissBuy \/ Buy \/ FinishBuy \/ FinishRebalance
  \/ Crash \/ Restart \/ Revise \/ Advance

Spec == Init /\ [][Next]_vars
--------------------------------------------------------------------------------
(* Properties. *)

Labels == {"idle", "off", "signal:evaluate", "signal:save", "signal:step", "signal:finish",
           "sell", "sell:step", "buy", "buy:step", "rebalance:finish"}

TypeOK ==
  /\ \A d \in decisions : d.signal \in Opens /\ d.execution \in Opens
  /\ \A r \in weights : r.symbol \in Symbols /\ r.weight \in 0 .. One /\ r.weight % StoreStep = 0
  /\ \A r \in plan : r.symbol \in Symbols /\ r.quantity \in Nat
  /\ held \in [Symbols -> Nat] /\ cash \in Nat
  /\ pc \in Labels /\ Cardinality(result) <= 1
  /\ refused \in {"no", "differs", "unreadable"}

\* Whatever the moment of a crash, a decision with a target has its weights, a
\* decision without one has none, and a day has one decision (jobs.py:410-430).
StatusIsTheTargets ==
  /\ \A d \in decisions : d.status = "TARGET_CREATED" <=> RowsOf(weights, d.signal) # {}
  /\ \A d, e \in decisions : d.signal = e.signal => d = e
  /\ \A r \in weights : \E d \in decisions : d.signal = r.signal

\* What an evening decided stays: no retry, revision or restart changes a row of
\* the decision or its weights (repository.py:570-665).
DecisionsAreKept == [][decisions \subseteq decisions' /\ weights \subseteq weights']_vars

\* Quantities are frozen once per decision, all its securities together, and no
\* later price or restart moves them (repository.py:724-785).
PlanIsKept ==
  [][/\ plan \subseteq plan'
     /\ \A r \in plan' \ plan : RowsOf(plan, r.signal) = {}]_vars

\* Sells and buys of a decision work towards the same frozen quantities, however
\* far apart and in whichever process they are planned; a security the decision
\* omits is never ordered (jobs.py:605-616, 666-683).
OrdersFollowThePlan ==
  \A o \in orders :
    [signal |-> o.signal, symbol |-> o.symbol, quantity |-> o.target] \in plan

\* A decision is executed in the session after its signal or never: one that was
\* missed is not made up for later (repository.py:668-677, jobs.py:461-476).
ExecutedOnItsDay == \A o \in orders : NextOpen(o.signal) = {o.day}

\* A retry is refused only if the data changed or a weight lost digits in the
\* table, and a saved target only if one did: weights that fit the column and
\* data that stand are accepted again and read back.
RefusalsAreExplained ==
  refused # "no" =>
    \/ revisions > 0
    \/ \E d \in decisions : output[d.signal] # Loaded(d.signal)

\* What the tables say at every moment.
StoreInv == TypeOK /\ StatusIsTheTargets /\ OrdersFollowThePlan /\ ExecutedOnItsDay /\ RefusalsAreExplained

\* What is decided and what is frozen stays (repository.py:570-785).
StoredIsKept == DecisionsAreKept /\ PlanIsKept
================================================================================
