------------------------------- MODULE HuijinRule ------------------------------
(***************************************************************************)
(* The example strategy huijin_multi_example: every evening it looks at    *)
(* what the share counts of its ETFs did, decides to buy in stages, to     *)
(* reduce or to do nothing, and the targets are executed the next day at   *)
(* that day's prices.                                                      *)
(*                                                                         *)
(* A day is what _flow_metrics_at and _drawdown_at make of it: a record    *)
(* per ETF and the zone the index's fall from its high is in.  Weights     *)
(* are exact fractions, Whole of them to one; a share count is relative to *)
(* that of the last report, no new report comes, and Huijin's part of it   *)
(* is Ratio.  Fees and lots of more than one share are left out.           *)
(***************************************************************************)
EXTENDS Integers, Sequences, FiniteSets, SequencesExt, FiniteSetsExt, Functions

CONSTANTS
  Etfs, Anchor,
  Ratio,       \* symbol -> a set of at most one part, in units of 1 / Whole
  Markets,     \* days: [zone, flow: [symbol -> [valid, change, tenfold, diverges, share]]]
  Whole, SmallMax, BigMax, Base, BuyCap, SellCap,   \* weights
  BigConfirm, BigDays, SmallDays, DeclineDays,
  Prices, Cash,
  MaxDays      \* bound

ASSUME RuleAssumption ==
  /\ IsFiniteSet(Etfs) /\ Anchor \in Etfs
  /\ {Whole, SmallMax, BigMax, Base, BuyCap, SellCap} \subseteq Nat /\ Prices \subseteq Nat \ {0}
  /\ {BigConfirm, BigDays, SmallDays, DeclineDays} \subseteq Nat \ {0}
  /\ Cash \in Nat /\ MaxDays \in Nat

\* A part is known exactly or not at all.
Known(set) == set \subseteq Nat /\ \A x, y \in set : x = y

ASSUME MarketAssumption ==
  /\ \A s \in Etfs : Known(Ratio[s])
  /\ \A m \in Markets, s \in Etfs : Known(m.flow[s].share)

VARIABLES
  history,     \* the days so far
  holding, funds, quote,
  decision,    \* [kind, stage, target: weight of each symbol in parts of den, den]
  phase,       \* what comes next: the day's close, the decision, its execution
  reductions   \* ghost: [count, from]: reductions of everything, executed in a row at
               \* equal prices, and the value held before them

ruleVars == <<history, holding, funds, quote, decision, phase, reductions>>
--------------------------------------------------------------------------------
(* What a day shows. *)

Today == Last(history)

Half(set) == 2 * Cardinality(set) >= Cardinality(Etfs)
Most(set) == 4 * Cardinality(set) >= 3 * Cardinality(Etfs)

Valid(m) == {s \in Etfs : m.flow[s].valid}
AllValid(m) == Valid(m) = Etfs

Subscribed(m) == {s \in Valid(m) : m.flow[s].change > 0}
Redeemed(m) == {s \in Valid(m) : m.flow[s].change < 0}
Diverging(m) == {s \in Valid(m) : m.flow[s].diverges}
Flooded(m) == {s \in Valid(m) : m.flow[s].tenfold}

\* The least that may be Huijin's: a set of at most one.
Ymin(m, s) == {Max({0, x - (Whole - r)}) : x \in m.flow[s].share, r \in Ratio[s]}

Ymins(m) == [s \in Etfs |-> Max({0} \cup Ymin(m, s))]

\* The k-th smallest of the known, and the middle of them.
Ranked(m, known, k) ==
  Min({x \in {Ymins(m)[s] : s \in known} : Cardinality({s \in known : Ymins(m)[s] <= x}) >= k})

Median(m) ==
  LET known == {s \in Etfs : Ymin(m, s) # {}}
      n     == Cardinality(known)
  IN  IF known = {} THEN {}
      ELSE {(Ranked(m, known, (n + 1) \div 2) + Ranked(m, known, n \div 2 + 1)) \div 2}

AnchorYmin(m) == IF Ymin(m, Anchor) # {} THEN Ymin(m, Anchor) ELSE Median(m)

AnchorDeclines ==
  /\ Len(history) > DeclineDays
  /\ \A i \in Len(history) - DeclineDays + 1 .. Len(history) :
       \E x \in Ymin(history[i - 1], Anchor), y \in Ymin(history[i], Anchor) : y < x

\* How many of these days end with today, at most so many.
Streak(days, most) ==
  Max({n \in 0 .. Min({most, Len(history)}) : Len(history) - n + 1 .. Len(history) \subseteq days})

Change(m) == SumFunction([s \in Etfs |-> IF m.flow[s].valid THEN m.flow[s].change ELSE 0])

SmallCondition(m) == m.zone = "small" /\ AllValid(m) /\ Half(Subscribed(m)) /\ Change(m) > 0
FloodCondition(m) == AllValid(m) /\ Most(Flooded(m))

Reducing == Half(Redeemed(Today)) \/ Half(Diverging(Today)) \/ AnchorDeclines

FloodStreak ==
  Streak({i \in DOMAIN history : FloodCondition(history[i])}, BigConfirm + BigDays - 1)

SmallStreak == Streak({i \in DOMAIN history : SmallCondition(history[i])}, SmallDays)

BigBuying ==
  /\ Today.zone = "big" /\ AllValid(Today) /\ Most(Subscribed(Today))
  /\ FloodStreak >= BigConfirm
--------------------------------------------------------------------------------
(* Targets. *)

Value == [s \in Etfs |-> holding[s] * quote[s]]
Asset == funds + SumFunction(Value)

Nothing == [kind |-> "none", stage |-> 0, target |-> [s \in Etfs |-> 0], den |-> 1]

\* What may be bought today, in parts of Whole * days * raw * Asset, like the gaps.
Capacity_Uncapped(due, held, whole, cap) == Min({Max({0, due - held}), Max({0, whole - held})})  \* variant
Capacity(due, held, whole, cap) == Min({Max({0, due - held}), Max({0, whole - held}), cap})

BuyTargets(most, turn, days, floor) ==
  LET anchor  == AnchorYmin(Today)
      cap     == Max({0} \cup anchor \cup (IF floor THEN Median(Today) ELSE {}))
      full    == Min({SumFunction(Ymins(Today)), most, cap})
      raw     == SumFunction(Ymins(Today))
      held    == [s \in Etfs |-> Value[s] * Whole * days * raw]
      gap     == [s \in Etfs |-> Max({0, full * Min({turn, days}) * Ymins(Today)[s] * Asset - held[s]})]
      room    == Capacity(full * Min({turn, days}) * raw * Asset, SumFunction(held),
                          Whole * days * raw * Asset, BuyCap * days * raw * Asset)
      scale   == Min({room, SumFunction(gap)})
  IN  IF anchor = {} \/ full = 0 \/ room = 0 \/ SumFunction(gap) = 0 THEN Nothing
      ELSE [kind |-> "buy", stage |-> turn,
            target |-> [s \in Etfs |-> held[s] * SumFunction(gap) + gap[s] * scale],
            den |-> Whole * days * raw * Asset * SumFunction(gap)]

Reducible(m) == {s \in Etfs : m.flow[s].valid /\ Ymin(m, s) # {}}

\* The total today's reduction may go down to.
Floor(keep) == Max({keep * Asset, SumFunction(Value) * Whole - SellCap * Asset})

ReduceTargets ==
  LET keep    == Min({Base} \cup AnchorYmin(Today))
      moves   == Reducible(Today)
      movable == SumFunction([s \in Etfs |-> IF s \in moves THEN Value[s] * Whole ELSE 0])
      wanted  == Max({0, Floor(keep) - (SumFunction(Value) * Whole - movable)})
      scale   == Min({wanted, movable})
  IN  IF SumFunction(Value) * Whole <= keep * Asset \/ movable = 0 \/ scale = movable THEN Nothing
      ELSE [kind |-> "reduce", stage |-> 0,
            target |-> [s \in Etfs |-> Value[s] * (IF s \in moves THEN scale ELSE movable)],
            den |-> Asset * movable]

GenerateWeights ==
  IF Reducing THEN ReduceTargets
  ELSE IF BigBuying THEN BuyTargets(BigMax, Min({FloodStreak - BigConfirm + 1, BigDays}), BigDays, TRUE)
  ELSE IF SmallCondition(Today)
    THEN BuyTargets(SmallMax, SmallStreak, SmallDays, FALSE)
  ELSE Nothing
--------------------------------------------------------------------------------
RuleInit ==
  /\ history = <<>> /\ holding = [s \in Etfs |-> 0] /\ funds = Cash
  /\ quote \in [Etfs -> Prices] /\ decision = Nothing /\ phase = "close" /\ reductions = [count |-> 0, from |-> 0]

EndOfDay ==
  /\ phase = "close" /\ phase' = "decide" /\ Len(history) < MaxDays
  /\ \E m \in Markets : history' = Append(history, m)
  /\ UNCHANGED <<holding, funds, quote, decision, reductions>>

DecideWeights ==
  /\ phase = "decide" /\ phase' = "trade" /\ decision' = GenerateWeights
  /\ UNCHANGED <<history, holding, funds, quote, reductions>>

\* The weights are of the next day's assets; orders of suspended ETFs, or at their
\* limit, do not trade.
Trade ==
  /\ phase = "trade" /\ phase' = "close"
  /\ quote' \in [Etfs -> Prices]
  /\ LET asset    == funds + SumFunction([s \in Etfs |-> holding[s] * quote'[s]])
         quantity == [s \in Etfs |-> (decision.target[s] * asset) \div (decision.den * quote'[s])]
     IN  \E trading \in IF decision.kind = "none" THEN {{}} ELSE SUBSET Etfs :
           /\ holding' = [s \in Etfs |-> IF s \in trading THEN quantity[s] ELSE holding[s]]
           /\ funds' = asset - SumFunction([s \in Etfs |-> holding'[s] * quote'[s]])
           /\ funds' >= 0
           /\ reductions' = IF /\ decision.kind = "reduce" /\ trading = Etfs /\ quote' = quote
                               /\ \A s \in Etfs : Today.flow[s].valid /\ Ymin(Today, s) # {}
                            THEN [count |-> reductions.count + 1,
                                  from |-> IF reductions.count = 0 THEN SumFunction(Value) ELSE reductions.from]
                            ELSE [count |-> 0, from |-> 0]
  /\ UNCHANGED <<history, decision>>

RuleNext == EndOfDay \/ DecideWeights \/ Trade

RuleSpec == RuleInit /\ [][RuleNext]_ruleVars
--------------------------------------------------------------------------------
(* Properties. *)

RuleTypes ==
  /\ funds \in Nat /\ holding \in [Etfs -> Nat]
  /\ decision.kind \in {"none", "buy", "reduce"} /\ decision.stage \in 0 .. Max({SmallDays, BigDays})
  /\ SumFunction(decision.target) <= decision.den

\* A purchase lowers no weight, raises the total by no more than the daily cap and
\* never over the stage's part of the cycle's maximum, nor over what Huijin is
\* estimated to hold (rule.py:570-604).
PurchasesAreBounded ==
  phase = "trade" /\ decision.kind = "buy" =>
    LET bought == SumFunction(decision.target) * Asset - SumFunction(Value) * decision.den
        big    == Today.zone = "big"
        days   == IF big THEN BigDays ELSE SmallDays
        limit  == Min({IF big THEN BigMax ELSE SmallMax,
                       Max(AnchorYmin(Today) \cup (IF big THEN Median(Today) ELSE {}))})
    IN  /\ \A s \in Etfs : decision.target[s] * Asset >= Value[s] * decision.den
        /\ bought > 0
        /\ bought * Whole <= BuyCap * Asset * decision.den
        /\ SumFunction(decision.target) * Whole * days <= limit * decision.stage * decision.den

\* A reduction raises no weight, takes off no more than the daily cap, leaves the base
\* position, and does not touch an ETF whose flow or estimate is missing
\* (rule.py:618-658).
ReductionsAreBounded ==
  phase = "trade" /\ decision.kind = "reduce" =>
    LET total == SumFunction(decision.target)
    IN  /\ \A s \in Etfs : decision.target[s] * Asset <= Value[s] * decision.den
        /\ SumFunction(Value) * decision.den * Whole - total * Asset * Whole <= SellCap * decision.den * Asset
        /\ total * Whole >= Min({Base} \cup AnchorYmin(Today)) * decision.den
        /\ \A s \in Etfs : ~Today.flow[s].valid \/ Ymin(Today, s) = {} =>
             decision.target[s] * Asset = Value[s] * decision.den

\* Days of reduction bring the portfolio down to the base position: with each that is
\* executed in full, at the prices it was decided at, a whole daily cap is gone
\* (rule.py:629-647).
ReductionsAddUp ==
  phase # "trade" /\ reductions.count > 0 =>
    SumFunction(Value) * Whole <=
      Max({Base * Asset, reductions.from * Whole - reductions.count * SellCap * Asset})

\* The bounds of the strategy hold on every day, and its reductions arrive at the base
\* position, whatever the market did before.
HuijinInv == RuleTypes /\ PurchasesAreBounded /\ ReductionsAreBounded /\ ReductionsAddUp
================================================================================
