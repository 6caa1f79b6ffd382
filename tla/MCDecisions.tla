----------------------------- MODULE MCDecisions ------------------------------
(* Finite instances of SignalStore and of ExecutionPlan: how a decision is kept *)
(* between an evening and the next day, and how its orders are sized and priced. *)
(* The initial state chooses the part that runs; the other rests where it begins. *)
EXTENDS SignalStore, ExecutionPlan

CONSTANTS a, b, c

VARIABLE part  \* the part that runs
-----------------------------------------------------------------------------
(* Decisions. *)
MCSymbols == {a, b, c}

\* No rebalance, a security omitted, an explicit zero, weights between two steps
\* of the column that it rounds to their sum or past it.
MCOutputs ==
  {<<>>, [x \in {a, b} |-> IF x = a THEN 24 ELSE 0],
   [x \in {a, b, c} |-> IF x = c THEN 10 ELSE 13],
   [x \in {a, b, c} |-> IF x = c THEN 8 ELSE 14]}

MCOpens == {0, 2, 3}
-----------------------------------------------------------------------------
(* Plans: a stock ETF and a gold ETF, a few lots of each, two days whose price *)
(* limits do not overlap entirely.                                             *)
Detail(lower, upper, tick) == [lower |-> lower, upper |-> upper, tick |-> tick, status |-> 0]
Tick(last, bid, ask, age)  == [last |-> last, bid |-> bid, ask |-> ask, age |-> age, status |-> 3]

\* A quiet book and one without an offer; a quote that is one second too old,
\* one from the future, and one symbol missing.
CalmDay == [details |-> <<Detail(9, 11, 1), Detail(18, 22, 2)>>,
            ticks |-> {<<Tick(10, 10, 11, 3), Tick(20, 18, 20, 0)>>,
                       <<Tick(11, 11, 0, 0), Tick(19, 0, 20, 2)>>,
                       <<Tick(10, 9, 10, 4), Tick(20, 18, 20, 0)>>}]
\* Prices jump: the limits of the day before are no longer theirs.
JumpDay == [details |-> <<Detail(10, 14, 1), Detail(14, 20, 2)>>,
            ticks |-> {<<Tick(13, 13, 14, 1), Tick(16, 16, 18, 1)>>,
                       <<Tick(10, 10, 11, 1), Tick(18, 16, 18, 0)>>,
                       <<Tick(10, 10, 11, -1), Tick(18, 16, 18, 0)>>,
                       [s \in {1} |-> Tick(11, 10, 11, 0)],
                       <<Tick(11, 10, 12, 0), [Tick(18, 16, 18, 0) EXCEPT !.status = 1]>>}]
Days == {CalmDay, JumpDay}

Weights == {<<6, 4>>, <<0, 10>>, [s \in {1} |-> 5]}
Configured == {[cash |-> 46, held |-> <<8, 0>>], [cash |-> 92, held |-> <<1, 0>>]}
-----------------------------------------------------------------------------
\* Plans rest at the start of the calm day.
PlansRest ==
  /\ day = 1 /\ session = CalmDay /\ cached = <<>> /\ stage = "SELL" /\ target = <<6, 4>> /\ frozen = {}
  /\ funds = 46 /\ position = <<8, 0>> /\ sellable = <<8, 0>> /\ opening = <<8, 0>>
  /\ settled = 0 /\ intents = {} /\ paused = FALSE

PartInit == \/ part = "store" /\ Init /\ PlansRest
            \/ part = "plans" /\ PlanInit /\ Init /\ output = [d \in Opens |-> <<>>]

PartNext == \/ part = "store" /\ Next /\ UNCHANGED <<part, planVars>>
            \/ part = "plans" /\ PlanNext /\ UNCHANGED <<part, vars>>

PartSpec == PartInit /\ [][PartNext]_<<part, vars, planVars>>
=============================================================================
