------------------------------ MODULE MCResearch ------------------------------
(* Finite instances of the five modules about strategies and their research,    *)
(* checked in one run: BacktestRun, BacktestDay, ModelTraining and HuijinRule,   *)
(* which it extends, and ModelAllocation.  The initial state chooses the part    *)
(* that runs; the others rest.                                                   *)
EXTENDS BacktestRun, BacktestDay, ModelTraining, HuijinRule, TLC

CONSTANTS run1, run2, a, b, nan

VARIABLES
  part,                                                                  \* the part that runs
  signalDay, policy, scores, target, allocations, verdict                \* of Allocation

-----------------------------------------------------------------------------
(* Days: two stock ETFs and a gold ETF.  A lot of ETF 1 costs a tenth of the    *)
(* cash; the least commission is that of a trade of a third of the cash, so that *)
(* both fee branches are taken.                                                 *)
Quote(close, preClose, volume) ==
  [close |-> close, preClose |-> preClose, limits |-> {}, volume |-> volume, suspended |-> FALSE]

\* A quiet day; a limit-up and a rise with little volume; a fall with one ETF
\* suspended and one at its explicit limit; a day of little trade on which one
\* close is outside the limits derived from an unadjusted pre_close.
Calm  == <<Quote(1000, 1000, 9000), Quote(2000, 2000, 9000), Quote(500, 500, 20000)>>
Rise  == <<Quote(1100, 1000, 9000), Quote(2150, 2000, 1700), Quote(510, 500, 20000)>>
Fall  == <<[Quote(1000, 1100, 9000) EXCEPT !.suspended = TRUE],
           [Quote(1903, 2000, 5000) EXCEPT !.limits = {1903, 2200}],
           Quote(477, 500, 2999)>>
Split == <<Quote(1033, 1000, 2600), Quote(1987, 2000, 450), Quote(250, 500, 20000)>>

\* The gold ETF is delisted before the last day.
SomeListing == [s \in 1 .. 3 |-> [from |-> 0, until |-> IF s = 3 THEN 3 ELSE 9]]

Rebalances ==
  {<<50, 50, 0>>, <<34, 33, 33>>, <<0, 100, 0>>, (1 :> 15) @@ (3 :> 85), (1 :> 60) @@ (2 :> 40), 2 :> 0}

SomeFrames == {Calm, Rise, Fall, Split}
-----------------------------------------------------------------------------
(* Training: one security listed before the data, one within the training      *)
(* range; adjacent ranges, ranges with a gap that outlast the securities, a    *)
(* test range too short to label, ranges that overlap.                         *)
Listed == (a :> [from |-> 0, to |-> 6]) @@ (b :> [from |-> 2, to |-> 5])

D(f, t) == [from |-> f, to |-> t]
Ranges(f, v, t) == [train |-> f, valid |-> v, test |-> t]
SomeSplits == {Ranges(D(1, 2), D(3, 3), D(4, 6)), Ranges(D(1, 1), D(2, 2), D(4, 7)),
               Ranges(D(1, 3), D(4, 4), D(6, 6)), Ranges(D(1, 3), D(3, 4), D(5, 7))}

S(f, h, n) == [features |-> f, history |-> h, portfolio |-> n, params |-> 1]
SomeSources == {S("f", 2, 1), S("g", 2, 1), S("f", 2, 2), S("f", 1, 1)}
-----------------------------------------------------------------------------
(* Allocation: four securities and three places.  Totals end in an even digit  *)
(* of the sum, as a total_weight of few decimals does.                         *)
SomePolicies ==
  {[weighting |-> w, total |-> t] :
     w \in {"equal", "score_proportional", "softmax"}, t \in {800, 900, 1000}}
  \cup {[weighting |-> "custom", total |-> 800]}

Allocation == INSTANCE ModelAllocation
                WITH Symbols <- 1 .. 4, Scores <- 0 .. 3, Policies <- SomePolicies, TopK <- 3, MinScore <- 0,
                     Exp <- [gap \in 0 .. 3 |-> <<20, 7, 3, 0>>[gap + 1]], CustomWeights <- {0, 300, 500},
                     One <- 1000, TrainedThrough <- 1, LastDay <- 2,
                     day <- signalDay, outcome <- verdict
-----------------------------------------------------------------------------
(* Huijin: two ETFs; days of every zone and decision; Huijin's part falls, is  *)
(* small, stale or unknown.                                                    *)
Flow(change, tenfold, diverges, share) ==
  [valid |-> TRUE, change |-> change, tenfold |-> tenfold, diverges |-> diverges, share |-> {share}]

Quiet == Flow(0, FALSE, FALSE, 8)
Comes == Flow(1, FALSE, FALSE, 10)
Floods == Flow(2, TRUE, FALSE, 12)
Little == Flow(1, FALSE, FALSE, 4)
Goes == Flow(-1, FALSE, TRUE, 6)
Stale == [valid |-> FALSE, change |-> 0, tenfold |-> FALSE, diverges |-> FALSE, share |-> {8}]
Missing == [Stale EXCEPT !.share = {}]

SomeRatios == [s \in {a, b} |-> {6}]

Market(zone, x, y) == [zone |-> zone, flow |-> (a :> x) @@ (b :> y)]
SomeMarkets == {Market("small", Comes, Quiet), Market("small", Comes, Little), Market("small", Floods, Floods),
                Market("big", Floods, Floods), Market("big", Floods, Comes),
                Market("none", Goes, Goes), Market("none", Goes, Stale), Market("none", Missing, Goes),
                Market("small", Comes, Stale)}
-----------------------------------------------------------------------------
ASSUME /\ Allocation!SymbolsAssumption /\ Allocation!ScoresAssumption /\ Allocation!UnitsAssumption
       /\ Allocation!PolicyAssumption /\ Allocation!DaysAssumption

runVars == <<sources, pc, case, ran, recorded, runId, staged, bundleDir, outcome, stuck, published, edits, faults>>
allocationVars == <<signalDay, policy, scores, target, allocations, verdict>>

Rest == "at rest"
AllocationRest == /\ signalDay = Rest /\ policy = Rest /\ scores = Rest /\ target = Rest
                  /\ allocations = Rest /\ verdict = Rest
\* The others rest in an initial state of theirs.
RunRest == Init /\ case = [r \in Processes |-> "rule"]
RuleRest == RuleInit /\ quote = [s \in Etfs |-> 1]
DaysRest == DayInit /\ frame = Calm
TrainingRest == TrainingInit /\ split = Ranges(D(1, 2), D(3, 3), D(4, 6)) /\ source = S("f", 2, 1)

PartInit ==
  \/ part = "run" /\ Init /\ DaysRest /\ TrainingRest /\ AllocationRest /\ RuleRest
  \/ part = "days" /\ RunRest /\ DayInit /\ TrainingRest /\ AllocationRest /\ RuleRest
  \/ part = "training" /\ RunRest /\ DaysRest /\ TrainingInit /\ AllocationRest /\ RuleRest
  \/ part = "allocation" /\ RunRest /\ DaysRest /\ TrainingRest /\ Allocation!Init /\ RuleRest
  \/ part = "huijin" /\ RunRest /\ DaysRest /\ TrainingRest /\ AllocationRest /\ RuleInit

PartNext ==
  \/ part = "run" /\ Next /\ UNCHANGED <<part, dayVars, trainingVars, allocationVars, ruleVars>>
  \/ part = "days" /\ DayNext /\ UNCHANGED <<part, runVars, trainingVars, allocationVars, ruleVars>>
  \/ part = "training" /\ TrainingNext /\ UNCHANGED <<part, runVars, dayVars, allocationVars, ruleVars>>
  \/ part = "allocation" /\ Allocation!Next /\ UNCHANGED <<part, runVars, dayVars, trainingVars, ruleVars>>
  \/ part = "huijin" /\ RuleNext /\ UNCHANGED <<part, runVars, dayVars, trainingVars, allocationVars>>

PartSpec ==
  PartInit /\ [][PartNext]_<<part, runVars, dayVars, trainingVars, allocationVars, ruleVars>>
-----------------------------------------------------------------------------
(* The properties of the part that this module instantiates. *)

\* While a model's scores become a target (portfolio.py:107-227, model_runtime.py:80-148).
AllocationInv == part = "allocation" => Allocation!AllocationInv
=============================================================================
