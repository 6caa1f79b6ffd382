---------------------------- MODULE ModelAllocation ----------------------------
(***************************************************************************)
(* One signal of a model strategy: the bundle scores the securities that   *)
(* have a feature record, the portfolio policy turns the scores into       *)
(* weights, and the strategy completes them to a target with an explicit   *)
(* zero for every other security of the universe.                          *)
(*                                                                         *)
(* The arithmetic is the subject.  A weight is the quotient of a division  *)
(* at 50 significant digits and the budget is checked by adding the        *)
(* weights at the default 28.  Here a quotient has three decimals and a    *)
(* sum two digits: One units are the weight 1.                             *)
(***************************************************************************)
EXTENDS Integers, FiniteSets, Sequences, SequencesExt

CONSTANTS
  Symbols,       \* the universe; numbers, since ties are broken by symbol
  Scores,        \* scores a bundle may predict
  Policies,      \* portfolio policies tried: records [weighting, total]
  TopK,          \* top_k
  MinScore,      \* min_score
  Exp,           \* math.exp of minus a gap between two scores, as a multiple
  CustomWeights, \* weights a CustomPortfolio's allocator may return
  One,           \* units of the weight 1
  TrainedThrough, LastDay  \* days: the last of the training, the last signal

SymbolsAssumption == Symbols \subseteq Nat /\ IsFiniteSet(Symbols)
ScoresAssumption  == Scores \subseteq Int /\ MinScore \in Int /\ TopK \in Nat \ {0}
UnitsAssumption   == One \in Nat /\ One > 0 /\ One % 100 = 0
PolicyAssumption  ==
  \A p \in Policies : p.weighting \in {"equal", "score_proportional", "softmax", "custom"}
                      /\ p.total \in 1 .. One
DaysAssumption    == TrainedThrough \in Nat /\ LastDay \in Nat

VARIABLES
  day,         \* the signal date
  policy,      \* the portfolio policy of the strategy
  scores,      \* today's predictions: a score for each feature record
  target,      \* weights of the target made today, or <<>>
  allocations, \* today's ModelAllocationRecords
  outcome      \* "none", "target", or why no target was made

vars == <<day, policy, scores, target, allocations, outcome>>
--------------------------------------------------------------------------------
(* Decimal arithmetic. *)

\* ROUND_HALF_EVEN of a / b.
RoundHalfEven(a, b) ==
  LET q == a \div b
      r == a % b
  IN  IF 2 * r > b \/ (2 * r = b /\ q % 2 = 1) THEN q + 1 ELSE q

\* The last place of a sum of size x in the default context.
Place(x) == IF x >= One THEN One \div 10
            ELSE IF 10 * x >= One THEN One \div 100 ELSE 1

Add(x, y) == RoundHalfEven(x + y, Place(x + y)) * Place(x + y)

SumOf(ws) == FoldLeft(Add, 0, ws)
ExactSum(ws) == FoldLeft(+, 0, ws)
--------------------------------------------------------------------------------
(* The policy: a weight is [symbol, weight], an allocation a sequence of them *)
(* in the order of the mapping.                                               *)

\* Order of the selection: the higher score first, then the higher symbol.
Better(s, t) == scores[s] > scores[t] \/ (scores[s] = scores[t] /\ s > t)

Ranking(S) == SetToSortSeq(S, Better)

Eligible == {s \in DOMAIN scores : scores[s] > MinScore}

Ranked ==
  LET all == Ranking(Eligible)
  IN  SubSeq(all, 1, IF Len(all) < TopK THEN Len(all) ELSE TopK)

Raw(s) ==
  CASE policy.weighting = "equal"              -> 1
    [] policy.weighting = "score_proportional" -> scores[s] - MinScore
    [] policy.weighting = "softmax"            -> Exp[scores[Head(Ranked)] - scores[s]]

RawTotal == ExactSum([i \in DOMAIN Ranked |-> Raw(Ranked[i])])

\* Every share but the last is a quotient; the last is what remains.
Normalized_OwnShare ==  \* variant: the last share is a quotient too
  [i \in DOMAIN Ranked |->
     [symbol |-> Ranked[i], weight |-> RoundHalfEven(policy.total * Raw(Ranked[i]), RawTotal)]]
Normalized ==
  LET share(i) == RoundHalfEven(policy.total * Raw(Ranked[i]), RawTotal)
      given    == ExactSum([i \in 1 .. Len(Ranked) - 1 |-> share(i)])
  IN  [i \in DOMAIN Ranked |->
         [symbol |-> Ranked[i],
          weight |-> IF i < Len(Ranked) THEN share(i) ELSE policy.total - given]]

Weights(ws) == [i \in DOMAIN ws |-> ws[i].weight]

\* _validated_weights: predicted securities, weights from 0 to 1, and a sum,
\* taken in the order given, within the policy's budget.
Acceptable(ws) ==
  /\ \A i \in DOMAIN ws : ws[i].symbol \in DOMAIN scores /\ ws[i].weight \in 0 .. One
  /\ SumOf(Weights(ws)) <= policy.total

\* What it returns: the positive weights in the order of the symbols.
Positive(ws) ==
  SetToSortSeq({w \in Range(ws) : w.weight > 0}, LAMBDA v, w : v.symbol < w.symbol)
--------------------------------------------------------------------------------
(* The strategy. *)

Init ==
  /\ day = 0 /\ policy \in Policies
  /\ scores = <<>> /\ target = <<>> /\ allocations = {} /\ outcome = "none"

WeightIn(ws, s) == IF \E w \in Range(ws) : w.symbol = s
                   THEN (CHOOSE w \in Range(ws) : w.symbol = s).weight ELSE 0

\* Every security of the universe is named, the unselected ones with zero.
Completed(ws) == [s \in Symbols |-> WeightIn(ws, s)]

\* TargetPortfolio: the weights of the target, added in the context's order.
Constructible(t) == SumOf([i \in DOMAIN SetToSortSeq(DOMAIN t, <) |->
                             t[SetToSortSeq(DOMAIN t, <)[i]]]) <= One

Records(ws) ==
  LET order == Ranking(DOMAIN scores)
  IN  {[symbol |-> order[i], rank |-> i, selected |-> WeightIn(ws, order[i]) > 0,
        weight |-> WeightIn(ws, order[i])] : i \in DOMAIN order}

Refuse(why) == outcome' = why /\ target' = <<>> /\ allocations' = {}

\* The allocation ws of the policy, checked a second time by the strategy.
Conclude(ws) ==
  LET kept == Positive(ws)
  IN  IF ~Acceptable(ws) \/ ~Acceptable(kept) THEN Refuse("over budget")
      ELSE IF kept = <<>> THEN Refuse("nothing selected")
      ELSE /\ allocations' = Records(kept)
           /\ IF Constructible(Completed(kept))
              THEN target' = Completed(kept) /\ outcome' = "target"
              ELSE target' = <<>> /\ outcome' = "over budget"

\* A trading day on which the securities of predicted have a feature record.
Predict ==
  /\ day < LastDay /\ day' = day + 1 /\ UNCHANGED policy
  /\ \E predicted \in SUBSET Symbols : scores' \in [predicted -> Scores]
  /\ target' = <<>> /\ allocations' = {}
  /\ outcome' = IF day' <= TrainedThrough THEN "in training"
                ELSE IF scores' = <<>> THEN "no records" ELSE "predicted"

Allocate ==
  /\ outcome = "predicted" /\ UNCHANGED <<day, policy, scores>>
  /\ \/ /\ policy.weighting # "custom"
        /\ Conclude(IF Ranked = <<>> THEN <<>> ELSE Normalized)
     \/ /\ policy.weighting = "custom"
        /\ \E given \in SUBSET Symbols :
             \E w \in [given -> CustomWeights] :
               Conclude([i \in DOMAIN SetToSortSeq(given, <) |->
                           [symbol |-> SetToSortSeq(given, <)[i],
                            weight |-> w[SetToSortSeq(given, <)[i]]]])

Next == Predict \/ Allocate

Spec == Init /\ [][Next]_vars
--------------------------------------------------------------------------------
(* Properties. *)

Made     == outcome = "target"
Selected == {s \in DOMAIN target : target[s] > 0}
TopKUsed == policy.weighting # "custom"

TypeOK ==
  /\ day \in 0 .. LastDay /\ policy \in Policies
  /\ \E S \in SUBSET Symbols : scores \in [S -> Scores]
  /\ \E S \in SUBSET Symbols : target \in [S -> 0 .. One]
  /\ \A r \in allocations : r.symbol \in Symbols /\ r.rank \in 1 .. Cardinality(Symbols)
  /\ outcome \in {"none", "in training", "no records", "predicted", "target",
                  "over budget", "nothing selected"}

\* The rounding of the shares neither creates nor loses budget: what a TopK
\* target distributes is total_weight to the last unit, and a custom target
\* never more (portfolio.py:145-164, model_runtime.py:125-132).
BudgetIsSpent ==
  Made => LET spent == ExactSum([i \in 1 .. Cardinality(Symbols) |->
                                   target[SetToSortSeq(Symbols, <)[i]]])
          IN  IF TopKUsed THEN spent = policy.total ELSE spent <= policy.total

\* The selection is the best top_k of the securities above min_score, whatever
\* the ties: nothing unselected scores above something selected, and only a
\* share that underflows leaves a place empty (portfolio.py:202-227).
BestAreSelected ==
  Made /\ TopKUsed =>
    /\ Selected \subseteq Eligible /\ Cardinality(Selected) <= TopK
    /\ \A s \in Selected, t \in DOMAIN scores \ Selected : scores[t] <= scores[s]
    /\ Cardinality(Selected) < TopK /\ policy.weighting # "softmax" => Selected = Eligible

\* A higher score never gets a smaller share, but for the rounding that the
\* last of the ranking absorbs (portfolio.py:145-164, 216-227).
SharesFollowScores ==
  Made /\ TopKUsed =>
    \A s \in Selected, t \in Selected : scores[s] >= scores[t] => target[s] >= target[t] - TopK

\* A model leaves nothing of the universe to chance: a security it does not
\* select is given the explicit zero that sells it (model_runtime.py:132).
ExitsAreExplicit == Made => DOMAIN target = Symbols

\* The published allocation records are the decision: every prediction has one,
\* the ranks order the scores, and the weights are the target's
\* (model_runtime.py:133-148).
RecordsAreTheTarget ==
  Made =>
    /\ {r.symbol : r \in allocations} = DOMAIN scores
    /\ \A r \in allocations : r.weight = target[r.symbol] /\ (r.selected <=> r.symbol \in Selected)
    /\ \A q \in allocations, r \in allocations :
         q.rank < r.rank => scores[q.symbol] >= scores[r.symbol]

\* With at most two securities to share it, or the whole account, the sum never
\* rounds past the budget, so the signal is made (portfolio.py:107-122, 151-164).
SmallAllocationsAreMade ==
  TopKUsed /\ outcome = "over budget" =>
    /\ Len(Ranked) > 2
    /\ policy.total = One => \E i \in DOMAIN Ranked : Raw(Ranked[i]) = 0

\* A target made of scores: it spends the budget to the last unit on the best
\* securities, in the order of their scores, names every other with zero, is what the
\* records say, and is always made when few securities share it.
AllocationInv ==
  /\ TypeOK /\ BudgetIsSpent /\ BestAreSelected /\ SharesFollowScores
  /\ ExitsAreExplicit /\ RecordsAreTheTarget /\ SmallAllocationsAreMade
================================================================================
