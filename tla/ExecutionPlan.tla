--------------------------- MODULE ExecutionPlan ---------------------------
(***************************************************************************)
(* What the two phases of a rebalance decide to trade: the quotes they read,  *)
(* the quantities the first phase freezes, the orders the planner derives,    *)
(* the risk check, and what is left when orders are filled in part, quotes    *)
(* move between the phases or the service restarts.                          *)
(*                                                                         *)
(* A phase plans in one step here: LiveTrading has the submissions and the    *)
(* threads, StrategyLedger the reads that go stale under a plan.             *)
(***************************************************************************)
EXTENDS Integers, FiniteSets, FiniteSetsExt, Functions

CONSTANTS
  Etfs,         \* the universe of the strategy, numbered in sorted order
  GoldEtfs,     \* those that may be sold on the day they were bought
  Sessions,        \* trading days: the instruments' details and the ticks of the day
  Targets,         \* weights of a decision: [some symbols -> 0 .. WeightUnit]
  WeightUnit,
  Lot, OffsetTicks, StaleSeconds,     \* execution configuration
  CommissionRate, RateUnit, MinimumCommission,
  MaxOrder, MaxDaily, MinOrder, MaxWeight,   \* risk configuration
  Accounts,        \* virtual accounts to start from: cash and positions
  FillSizes,       \* bound: what one fill may be, beside all that remains
  MaxDays          \* bound

ASSUME EtfAssumption ==
  IsFiniteSet(Etfs) /\ Etfs \subseteq Nat \ {0} /\ GoldEtfs \subseteq Etfs /\ Etfs # {}
ASSUME ConfigAssumption ==
  /\ {WeightUnit, Lot, RateUnit, StaleSeconds} \subseteq Nat \ {0}
  /\ {OffsetTicks, CommissionRate, MinimumCommission, MaxOrder, MaxDaily, MinOrder, MaxWeight} \subseteq Nat
ASSUME AccountAssumption == Accounts \subseteq [cash : Nat, held : [Etfs -> Nat]] /\ MaxDays \in Nat \ {0}
ASSUME TargetAssumption ==
  \A w \in Targets : DOMAIN w \subseteq Etfs /\ \A s \in DOMAIN w : w[s] \in 0 .. WeightUnit

\* The details hold for a day; a tick may lack a symbol, never leave its limits.
Details == [lower : Int, upper : Int, tick : Int, status : Int]
Ticks   == [last : Int, bid : Int, ask : Int, age : Int, status : Int]
ASSUME SessionAssumption ==
  \A d \in Sessions :
    /\ d.details \in [Etfs -> Details]
    /\ \A k \in d.ticks : DOMAIN k \subseteq Etfs /\ \A s \in DOMAIN k : k[s] \in Ticks

VARIABLES
  day,      \* the execution day
  session,  \* the exchange's data of the day
  cached,   \* XtDataQuoteProvider._instrument_cache
  stage,    \* "SELL", "BUY", or "CLOSED"
  target,   \* live_target_position: the target of the day's decision
  frozen,   \* its execution_valuation_price and target_quantity, as {it} or {}
  funds,    \* virtual_cash
  position, sellable, settled,  \* the ledger's positions and the day they were settled
  intents,  \* live_order_intent, with what its broker order has filled
  paused,   \* the account was paused by a plan
  opening   \* history: the positions when the quantities were frozen

planVars == <<day, session, cached, stage, target, frozen, funds, position, sellable, settled, intents, paused, opening>>

IsFrozen == frozen # {}
Goal   == CHOOSE goal \in frozen : TRUE

Least(a, b)    == IF a <= b THEN a ELSE b
Greatest(a, b) == IF a >= b THEN a ELSE b
Ceil(n, d)     == (n + d - 1) \div d
WholeLots(q)   == Greatest(0, (q \div Lot) * Lot)

\* FeeModel.calculate; the stamp duty of an ETF is zero.
Fee(amount) ==
  IF amount = 0 THEN 0
  ELSE Greatest((2 * amount * CommissionRate + RateUnit) \div (2 * RateUnit), MinimumCommission)
WithFee(amount) == amount + Fee(amount)

PlanInit ==
  /\ day = 1 /\ session \in Sessions /\ cached = <<>>
  /\ stage = "SELL" /\ target \in Targets
  /\ frozen = {} /\ settled = 0
  /\ \E a \in Accounts : funds = a.cash /\ position = a.held /\ sellable = a.held /\ opening = a.held
  /\ intents = {} /\ paused = FALSE
-----------------------------------------------------------------------------
(* Quotes. *)

\* latest_quotes asks for the details of a symbol once in the life of the
\* process, in the order of the symbols up to the first without a tick.
Seen(ticks) == {s \in Etfs : \A t \in Etfs : t <= s => t \in DOMAIN ticks}
Cached(ticks) ==
  [s \in DOMAIN cached \cup Seen(ticks) |-> IF s \in DOMAIN cached THEN cached[s] ELSE session.details[s]]

\* map_quote: the tick's stock status and the instrument's say whether it trades.
TradableStatuses == {3, 5, 11, 12, 13, 18, 19, 22}
QuoteOf(tick, detail) ==
  [last |-> tick.last, bid |-> tick.bid, ask |-> tick.ask, age |-> tick.age,
   lower |-> detail.lower, upper |-> detail.upper, tick |-> IF detail.tick > 0 THEN detail.tick ELSE 1,
   suspended |-> tick.status \notin TradableStatuses \/ detail.status >= 1]

\* NearCloseLimitPolicy.calculate refuses these; zero stands for no price.
Refused(q) ==
  \/ q.age < 0 \/ q.age > StaleSeconds \/ q.suspended
  \/ q.last <= 0 \/ q.lower <= 0 \/ q.upper <= 0 \/ q.lower > q.upper

LimitPrice(side, q) ==
  IF side = "BUY"
  THEN LET base == IF q.ask > 0 THEN q.ask ELSE q.last
       IN Ceil(Least(base + q.tick * OffsetTicks, q.upper), q.tick) * q.tick
  ELSE LET base == IF q.bid > 0 THEN q.bid ELSE q.last
       IN (Greatest(base - q.tick * OffsetTicks, q.lower) \div q.tick) * q.tick

Priced(side, q) ==
  ~Refused(q) /\ LimitPrice(side, q) > 0 /\ LimitPrice(side, q) \in q.lower .. q.upper

\* _prices_for_strategy: one price that is missing fails the whole phase.
PricesAvailable(side, ticks) ==
  \A s \in Etfs : s \in DOMAIN ticks /\ Priced(side, QuoteOf(ticks[s], Cached(ticks)[s]))
-----------------------------------------------------------------------------
(* Reservations, projections and sizes. *)

Today(side) == {i \in intents : i.day = day /\ i.side = side}
Active      == {i \in intents : i.status \in {"PLANNED", "SUBMITTED"}}
Remaining(i) == Greatest(0, i.quantity - i.filled)
Open(side, s) == SumFunction([i \in {j \in Active : j.side = side /\ j.symbol = s} |-> Remaining(i)])

\* strategy_reservations, and the fee of each remainder.
ReservedCash ==
  SumFunction([i \in {j \in Active : j.side = "BUY"} |-> WithFee(i.limit * Remaining(i))])
Projected(s) == position[s] + Open("BUY", s) - Open("SELL", s)

\* strategy_order_notional_for_date.
Notional(d) ==
  SumFunction([i \in {j \in intents : j.day = d /\ j.status # "REJECTED"} |-> i.limit * i.quantity])

\* freeze_execution_targets, calculate_target_quantities.
TargetQuantity(w, total, price) == ((total * w) \div (WeightUnit * price * Lot)) * Lot
FrozenTargets_Again(total, value) ==                                  \* variant
  [s \in DOMAIN target |-> [price |-> value[s], quantity |-> TargetQuantity(target[s], total, value[s])]]
FrozenTargets(total, value) ==
  IF IsFrozen THEN Goal
  ELSE [s \in DOMAIN target |->
          [price |-> value[s], quantity |-> TargetQuantity(target[s], total, value[s])]]

\* The largest number of whole lots that the money pays for, fee included.
Affordable_LotForFee(limit, money) == Greatest(0, money \div (limit * Lot) - 1) * Lot   \* variant
Affordable(limit, money) ==
  Max({k * Lot : k \in {n \in 0 .. money \div (limit * Lot) : n = 0 \/ WithFee(limit * n * Lot) <= money}})

\* The security before s in sorted order; before the first, zero.
Previous(s) == LET before == {t \in Etfs : t < s} IN IF before = {} THEN 0 ELSE Max(before)

\* LiveRebalancePlanner.plan for one side: [security -> quantity] of the orders,
\* the buys in sorted order, each from what the earlier ones leave.
SellSize(goal, free, s) == Least(WholeLots(Projected(s) - goal[s].quantity), WholeLots(free[s]))
SellQuantities(goal, free) ==
  [s \in {t \in DOMAIN goal : SellSize(goal, free, t) > 0} |-> SellSize(goal, free, s)]

BuySize(goal, limit, money, s) ==
  LET gap == IF s \in DOMAIN goal THEN goal[s].quantity - Projected(s) ELSE 0
  IN IF gap <= 0 THEN 0 ELSE Least(WholeLots(gap), Affordable(limit[s], money))
BuyQuantities_SameCash(goal, limit, money) ==                         \* variant
  [s \in {t \in DOMAIN goal : BuySize(goal, limit, money, t) > 0} |-> BuySize(goal, limit, money, s)]
Bought(goal, limit, money, s) ==
  LET q == BuySize(goal, limit, money, s)
  IN [left |-> money - WithFee(q * limit[s]), quantity |-> q]
BuyQuantities(goal, limit, money) ==
  LET Plan[s \in {0} \cup Etfs] ==
        IF s = 0 THEN [left |-> money, quantity |-> 0]
        ELSE Bought(goal, limit, Plan[Previous(s)].left, s)
  IN [s \in {t \in Etfs : Plan[t].quantity > 0} |-> Plan[s].quantity]
-----------------------------------------------------------------------------
(* One phase: LiveDailyJobs._execute_strategy_side. *)

\* LiveRiskManager.check, in the order of the planner: the notional of what was
\* approved before, sum, counts against the daily limit.
Passes(side, quantity, value, sum, money, free, weight) ==
  /\ value \in MinOrder .. MaxOrder /\ sum + value <= MaxDaily
  /\ side = "BUY" => weight <= MaxWeight /\ WithFee(value) <= money
  /\ side = "SELL" => quantity <= free
Approved(side, batch, limit, money, free, weight) ==
  LET Check[s \in {0} \cup Etfs] ==
        IF s = 0 THEN [sum |-> Notional(day), ok |-> FALSE]
        ELSE LET sum == Check[Previous(s)].sum
                 ok  == s \in DOMAIN batch
                        /\ Passes(side, batch[s], batch[s] * limit[s], sum, money, free[s], weight)
             IN [sum |-> IF ok THEN sum + batch[s] * limit[s] ELSE sum, ok |-> ok]
  IN {s \in DOMAIN batch : Check[s].ok}

\* settle_strategy_positions: the first plan of a day frees what was held.
Settled == IF settled < day THEN position ELSE sellable

Overcommitted(free) == ReservedCash > funds \/ \E s \in Etfs : Open("SELL", s) > free[s]

\* The orders of one side, those the risk check refuses included; late is "the
\* sell window has closed".
Planned(quote, goal, late, free, total) ==
  LET value == [s \in Etfs |-> quote[s].last]
      limit == [s \in Etfs |-> LimitPrice(stage, quote[s])]
      money == funds - ReservedCash
      left  == [s \in Etfs |-> free[s] - Open("SELL", s)]
      batch == IF stage = "SELL" THEN SellQuantities(goal, left) ELSE BuyQuantities(goal, limit, money)
      \* _projected_weights, scaled by the total asset
      exposure == SumFunction([s \in Etfs |-> value[s] * (Projected(s) + IF s \in DOMAIN batch THEN batch[s] ELSE 0)])
      weight == IF stage = "SELL" THEN 0 ELSE Ceil(exposure * WeightUnit, total)
      good  == IF stage = "SELL" /\ late THEN {} ELSE Approved(stage, batch, limit, money, left, weight)
      New(s) == [day |-> day, side |-> stage, symbol |-> s, quantity |-> batch[s], limit |-> limit[s],
                 quote |-> quote[s], filled |-> 0, status |-> IF s \in good THEN "PLANNED" ELSE "REJECTED"]
  IN {New(s) : s \in DOMAIN batch}

\* The quantities are frozen in a transaction of their own before the rest, not
\* from a total asset below zero.
ExecuteSide(ticks, late) ==
  LET free  == Settled
      quote == [s \in Etfs |-> QuoteOf(ticks[s], Cached(ticks)[s])]
      total == funds + SumFunction([s \in Etfs |-> quote[s].last * position[s]])
      goal  == FrozenTargets(total, [s \in Etfs |-> quote[s].last])
  IN /\ stage \in {"SELL", "BUY"} /\ ~paused /\ Today(stage) = {}
     /\ stage = "BUY" => IsFrozen
     /\ PricesAvailable(stage, ticks) /\ (IsFrozen \/ total >= 0)
     /\ frozen' = {goal} /\ opening' = IF IsFrozen THEN opening ELSE position
     /\ sellable' = free /\ settled' = day
     /\ \/ /\ Overcommitted(free)
           /\ paused' = TRUE /\ cached' = Cached(ticks) /\ UNCHANGED intents
        \/ /\ ~Overcommitted(free) /\ total > 0
           /\ intents' = intents \cup Planned(quote, goal, late, free, total)
           /\ cached' = Cached(ticks) /\ UNCHANGED paused
        \/ \* a crash before the intents are saved
           /\ cached' = <<>> /\ UNCHANGED <<intents, paused>>
     /\ UNCHANGED <<day, session, stage, target, funds, position>>

\* No quotes, or one that is refused: the phase fails and nothing is planned.
QuotesMissing(ticks) ==
  /\ stage \in {"SELL", "BUY"} /\ ~paused /\ Today(stage) = {}
  /\ ~PricesAvailable(stage, ticks)
  /\ cached' = Cached(ticks)
  /\ UNCHANGED <<day, session, stage, target, frozen, funds, position, sellable, settled, intents, paused, opening>>

Becomes(i, j) == intents' = (intents \ {i}) \cup {j}
Set(i, status) == Becomes(i, [i EXCEPT !.status = status])

\* _submit_intent and _resume_persisted_intents: an intent of the phase is sent
\* with the price it was planned at, or refused when the sell window has closed.
Submit(i) ==
  /\ i.status = "PLANNED" /\ i.side = stage /\ i.day = day /\ ~paused
  /\ Set(i, "SUBMITTED")
  /\ UNCHANGED <<day, session, cached, stage, target, frozen, funds, position, sellable, settled, paused, opening>>
ResumeLate ==
  LET planned == {i \in Today("SELL") : i.status = "PLANNED"}
  IN /\ stage = "SELL" /\ ~paused /\ planned # {}
     /\ intents' = (intents \ planned) \cup {[i EXCEPT !.status = "REJECTED"] : i \in planned}
     /\ UNCHANGED <<day, session, cached, stage, target, frozen, funds, position, sellable, settled, paused, opening>>

\* A restart loses what the quote provider has cached.
LoseCache ==
  /\ cached # <<>> /\ cached' = <<>>
  /\ UNCHANGED <<day, session, stage, target, frozen, funds, position, sellable, settled, intents, paused, opening>>
-----------------------------------------------------------------------------
(* The broker fills and closes orders; the phases follow each other. *)

\* A fill at the limit, booked: record_strategy_trade_if_absent.
Fill(i, q) ==
  LET s == i.symbol
  IN /\ i.status = "SUBMITTED" /\ i.day = day /\ q \in 1 .. Remaining(i)
     /\ Becomes(i, [i EXCEPT !.filled = @ + q, !.status = IF i.filled + q = i.quantity THEN "FILLED" ELSE @])
     /\ IF i.side = "BUY"
        THEN /\ funds' = funds - WithFee(q * i.limit)
             /\ position' = [position EXCEPT ![s] = @ + q]
             /\ sellable' = [sellable EXCEPT ![s] = @ + IF s \in GoldEtfs THEN q ELSE 0]
        ELSE /\ funds' = funds + q * i.limit - Fee(q * i.limit)
             /\ position' = [position EXCEPT ![s] = @ - q]
             /\ sellable' = [sellable EXCEPT ![s] = @ - q]
     /\ UNCHANGED <<day, session, cached, stage, target, frozen, settled, paused, opening>>

\* Canceled at the deadline of its phase, or refused by the broker.
Close(i) ==
  /\ i.status = "SUBMITTED" /\ i.day = day /\ Set(i, "CLOSED")
  /\ UNCHANGED <<day, session, cached, stage, target, frozen, funds, position, sellable, settled, paused, opening>>

\* The sell step has succeeded: planned, sent, and closed.
StartBuying ==
  /\ stage = "SELL" /\ IsFrozen /\ ~paused
  /\ {i \in Today("SELL") : i \in Active} = {}
  /\ stage' = "BUY"
  /\ UNCHANGED <<day, session, cached, target, frozen, funds, position, sellable, settled, intents, paused, opening>>

\* eod reconciles the orders the market closed.  An intent that was never sent
\* stays PLANNED: nothing in the program abandons it.
EndDay ==
  /\ stage # "CLOSED" /\ stage' = "CLOSED"
  /\ intents' = {IF i.status = "SUBMITTED" /\ i.day = day THEN [i EXCEPT !.status = "CLOSED"] ELSE i : i \in intents}
  /\ UNCHANGED <<day, session, cached, target, frozen, funds, position, sellable, settled, paused, opening>>

\* The next day has a decision, prices and limits of its own.  The service may
\* have been down at the time of the day's eod.
NextDay ==
  /\ day < MaxDays
  /\ day' = day + 1 /\ stage' = "SELL" /\ session' \in Sessions /\ target' \in Targets
  /\ frozen' = {} /\ opening' = position
  /\ UNCHANGED <<cached, funds, position, sellable, settled, intents, paused>>

PlanNext ==
  \/ \E ticks \in session.ticks, late \in BOOLEAN : ExecuteSide(ticks, late)
  \/ \E ticks \in session.ticks : QuotesMissing(ticks)
  \/ \E i \in intents : Submit(i) \/ Close(i) \/ \E q \in FillSizes \cup {Remaining(i)} : Fill(i, q)
  \/ ResumeLate \/ LoseCache \/ StartBuying \/ EndDay \/ NextDay

PlanSpec == PlanInit /\ [][PlanNext]_planVars
-----------------------------------------------------------------------------
(* Properties. *)

IntentStatuses == {"PLANNED", "SUBMITTED", "FILLED", "CLOSED", "REJECTED"}

\* The ledger stays in its bounds: no short position, no more lots for sale
\* than are held, no order filled beyond what it asked for (repository.py:1254).
PlanTypes ==
  /\ day \in 1 .. MaxDays /\ settled \in 0 .. day /\ stage \in {"SELL", "BUY", "CLOSED"}
  /\ session \in Sessions /\ target \in Targets /\ paused \in BOOLEAN
  /\ position \in [Etfs -> Nat] /\ \A s \in Etfs : sellable[s] \in 0 .. position[s]
  /\ funds \in Int
  /\ \A i \in intents : i.status \in IntentStatuses /\ i.filled \in 0 .. i.quantity /\ i.limit > 0

\* A rebalance moves every position towards the quantity frozen for it and
\* never past it, counting what its open orders may still do: in both phases,
\* after partial fills, with prices that moved and after restarts, as long as
\* no intent of an earlier day is still taken for an order
\* (planner.py:167-217, repository.py:724).
NeverPastTarget ==
  IsFrozen /\ (\A i \in Active : i.day = day) =>
    \A s \in DOMAIN Goal :
      LET goal == Goal[s].quantity
      IN /\ position[s] + Open("BUY", s) <= Greatest(opening[s], goal)
         /\ position[s] - Open("SELL", s) >= Least(opening[s], goal)

\* The orders of a day, of both phases together, stay within the daily limit;
\* one that was refused does not count (risk.py:67, repository.py:1419).
WithinDailyNotional ==
  \A d \in 1 .. day : Notional(d) <= MaxDaily

\* What a price is for an order of its side.
PricedWell(i) ==
  LET q == i.quote
  IN  /\ q.age \in 0 .. StaleSeconds /\ ~q.suspended
      /\ i.limit % q.tick = 0 /\ i.limit \in q.lower .. q.upper
      /\ i.side = "BUY" => i.limit >= q.ask \/ i.limit + q.tick > q.upper
      /\ i.side = "SELL" => q.bid <= 0 \/ i.limit <= q.bid \/ i.limit - q.tick < q.lower

\* An order goes out on a fresh quote of an ETF that trades, on a tick, inside
\* the limits the quote carries, and at a price that meets the other side of
\* the book unless the limit forbids it (near_close_limit.py:29).
PricedToTrade == \A i \in intents : PricedWell(i)

\* When every buy of a day was filled, no whole lot is missing that the cash
\* left over and not reserved could still pay for in the same order (planner.py:201-217).
NoLotForgotten ==
  stage = "BUY" /\ Today("BUY") # {} /\ (\A i \in Today("BUY") : i.status = "FILLED") =>
    \A i \in Today("BUY") :
      \/ Goal[i.symbol].quantity - Projected(i.symbol) < Lot
      \/ WithFee(i.limit * (i.quantity + Lot)) - WithFee(i.limit * i.quantity) > funds - ReservedCash

\* Everything a plan must be, on every day and in both phases.
PlansInv == PlanTypes /\ NeverPastTarget /\ WithinDailyNotional /\ PricedToTrade

\* The buys a plan adds are paid for by the cash that is there when it is made,
\* fees included, beside the orders already open (planner.py:244, jobs.py:620).
PlansArePaidFor ==
  [][Cardinality(intents') > Cardinality(intents) => ReservedCash' <= funds']_planVars
=============================================================================
