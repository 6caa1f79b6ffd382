---------------------------- MODULE BacktestDay ----------------------------
(***************************************************************************)
(* The day loop of the backtest: every frame releases the T+1 shares, sells *)
(* and buys towards the target decided on the frame before, and asks the   *)
(* strategy for the next target.  Orders are approved sells first and then *)
(* buys by descending gap, but applied to the account in symbol order.     *)
(*                                                                         *)
(* One frame is four kinds of step: open, approve one order, fill one      *)
(* order, close.  Prices and money are integers, in ticks of 0.001 yuan;   *)
(* weights, rates and ratios are fractions of WeightUnit and RateUnit.     *)
(***************************************************************************)
EXTENDS Integers, FiniteSets, FiniteSetsExt, Functions

CONSTANTS
  Securities,         \* registered ETFs, numbers in the order of their codes
  T0,                 \* those a buyer may sell the same day
  Lot,                \* lot_size
  Cash0,              \* initial cash
  WeightUnit,         \* weight one
  RateUnit,           \* rate one
  CommissionRate, MinimumCommission,  \* FeeConfig
  SlippageRate,       \* SlippageConfig
  ParticipationRate,  \* volume_participation_rate
  LimitRatio,         \* price_limit_ratio
  Every,              \* every_trading_days
  Listing,            \* first and last day of the life of each ETF
  Frames,             \* input: bars a trading day may have, for each symbol
  Targets,            \* input: targets a strategy may return
  LastFrame           \* bound: frame index of the last frame

ASSUME SecuritiesAssumption == Securities \subseteq Nat /\ IsFiniteSet(Securities) /\ T0 \subseteq Securities
ASSUME UnitAssumption ==
  /\ {Lot, WeightUnit, RateUnit, Every} \subseteq Nat \ {0}
  /\ {Cash0, MinimumCommission, LastFrame} \subseteq Nat
  /\ {CommissionRate, SlippageRate, LimitRatio} \subseteq 0 .. RateUnit - 1
  /\ ParticipationRate \in 1 .. RateUnit

NoTarget == [none |-> TRUE]

\* EtfInfo.is_active: the ETFs that live on a day.  Every day of a run has one.
ActiveOn(d) == {s \in Securities : Listing[s].from <= d /\ d <= Listing[s].until}

ASSUME ListingAssumption ==
  /\ Listing \in [Securities -> [from : Nat, until : Nat]]
  /\ \A d \in 0 .. LastFrame : ActiveOn(d) # {}

\* A bar: explicit limits, or {} for a pair derived from pre_close.
Bar == [close : Nat \ {0}, preClose : Nat \ {0}, limits : SUBSET (Nat \ {0}),
        volume : Nat, suspended : BOOLEAN]

VARIABLES
  day, step,    \* frame index and the place in its processing
  frame,      \* the bars of the day, one for each ETF that lives on it
  cash,       \* Account._cash
  position,   \* Account._positions: total, available and bought today
  pending,    \* the target that waits for the next frame
  orders,     \* the day's orders, by symbol
  approved,   \* the verdicts given so far, by symbol
  projected,  \* projected_cash of approve_batch
  filled,     \* symbols whose order went through create_fill
  opened      \* history: shares held when the day's orders were made

batch == <<orders, approved, projected, filled, opened>>
dayVars  == <<day, step, frame, cash, position, pending, batch>>
-----------------------------------------------------------------------------
(* Prices and costs. *)
HalfUp(n, d)  == (2 * n + d) \div (2 * d)
Ceil(n, d)    == (n + d - 1) \div d
WholeLots(q)  == (q \div Lot) * Lot
Least(a, b)   == IF a <= b THEN a ELSE b
Greatest(a, b) == IF a >= b THEN a ELSE b

\* resolve_legal_price_limits
Lower(bar) == IF bar.limits # {} THEN Min(bar.limits)
              ELSE HalfUp(bar.preClose * (RateUnit - LimitRatio), RateUnit)
Upper(bar) == IF bar.limits # {} THEN Max(bar.limits)
              ELSE HalfUp(bar.preClose * (RateUnit + LimitRatio), RateUnit)

\* A bar with explicit limits has its close between them; a bar without may
\* have any close.
ASSUME FrameAssumption ==
  \A f \in Frames :
    /\ f \in [Securities -> Bar]
    /\ \A s \in Securities :
         /\ IsFiniteSet(f[s].limits)
         /\ f[s].limits # {} => Lower(f[s]) <= f[s].close /\ f[s].close <= Upper(f[s])

\* The portal delivers the bars of the ETFs that live on the day.
FramesOn(d) == {Restrict(f, ActiveOn(d)) : f \in Frames}

\* A target names some symbols; its weights sum to at most one.
ASSUME TargetAssumption ==
  \A w \in Targets :
    /\ DOMAIN w # {} /\ DOMAIN w \subseteq Securities
    /\ \A s \in DOMAIN w : w[s] \in 0 .. WeightUnit
    /\ SumFunction(w) <= WeightUnit

\* A sale's close moved down by the slippage.
Slipped(bar) == (bar.close * (RateUnit - SlippageRate)) \div RateUnit

\* TradePriceQuote and the slippage take a close inside positive limits, and a
\* price that slips to zero for none.
Quotable(side, bar) ==
  /\ 0 < Lower(bar) /\ Lower(bar) <= bar.close /\ bar.close <= Upper(bar)
  /\ side = "SELL" => 0 < Slipped(bar)

\* The close moved against the order, rounded to the tick, kept inside the limits.
FillPrice(side, bar) ==
  IF side = "BUY"
  THEN Least(Ceil(bar.close * (RateUnit + SlippageRate), RateUnit), Upper(bar))
  ELSE Greatest(Slipped(bar), Lower(bar))

\* Commission of one fill; the stamp duty of an ETF is fixed to zero.
Fee(amount) ==
  IF amount = 0 THEN 0
  ELSE Greatest(HalfUp(amount * CommissionRate, RateUnit), MinimumCommission)

Amount(side, s, q) == FillPrice(side, frame[s]) * q
Cost(s, q)     == Amount("BUY", s, q) + Fee(Amount("BUY", s, q))
Proceeds_FeeAdded(s, q) == Amount("SELL", s, q) + Fee(Amount("SELL", s, q))  \* variant
Proceeds(s, q) == Amount("SELL", s, q) - Fee(Amount("SELL", s, q))

Payable_WithoutFee(s, q, money) == Amount("BUY", s, q) <= money     \* variant
Payable(s, q, money) == Cost(s, q) <= money

\* The bisection of max_affordable_buy_quantity between 0 and top.
Bisect(good, top) ==
  LET Search[r \in (0 .. top) \X (0 .. top)] ==
        LET middle == (r[1] + r[2] + 1) \div 2
        IN  IF r[1] >= r[2] THEN r[1]
            ELSE IF middle \in good THEN Search[<<middle, r[2]>>]
            ELSE Search[<<r[1], middle - 1>>]
  IN  Search[<<0, top>>]

Lots(q) == 0 .. q \div Lot

\* max_affordable_buy_quantity
Affordable(s, money, upper) ==
  Bisect({n \in Lots(upper) : Payable(s, n * Lot, money)}, upper \div Lot) * Lot

\* AccountSnapshot: every holding has a price; the assets are valued at them.
Priced(p, f) == \A s \in Securities : p[s].total > 0 => s \in DOMAIN f
Assets(c, p, f) == c + SumFunction([s \in DOMAIN f |-> p[s].total * f[s].close])
-----------------------------------------------------------------------------
(* Orders of a target, valued at the closes of the day that executes it. *)
TargetQuantity(w, total, s, f) ==
  ((total * w[s]) \div (WeightUnit * f[s].close * Lot)) * Lot

\* calculate_order_deltas: an ETF the target does not name is left alone.
Deltas(w, total, p, f) == [s \in DOMAIN w |-> TargetQuantity(w, total, s, f) - p[s].total]

\* One order per non-zero delta; the gap is scaled by WeightUnit.
OrdersFor(w, p, f) ==
  LET total == Assets(cash, p, f)
      delta == Deltas(w, total, p, f)
  IN [s \in {t \in DOMAIN w : delta[t] # 0} |->
        [side      |-> IF delta[s] > 0 THEN "BUY" ELSE "SELL",
         requested |-> Greatest(delta[s], -delta[s]),
         gap       |-> total * w[s] - WeightUnit * p[s].total * f[s].close]]

\* Order refuses a gap that contradicts the side.
Consistent(o) == IF o.side = "BUY" THEN o.gap >= 0 ELSE o.gap <= 0

Sells == {s \in DOMAIN orders : orders[s].side = "SELL"}
Buys  == {s \in DOMAIN orders : orders[s].side = "BUY"}
-----------------------------------------------------------------------------
(* Approval.  A batch has one order per symbol, so the shares and the      *)
(* volume of a symbol are still untouched when its order is looked at.     *)
ApprovedBefore_BySymbol(s, t) ==                                    \* variant
  \/ s \in Sells /\ t \in Buys
  \/ ((s \in Sells) <=> (t \in Sells)) /\ s < t
ApprovedBefore(s, t) ==
  \/ s \in Sells /\ t \in Buys
  \/ s \in Sells /\ t \in Sells /\ s < t
  \/ s \in Buys /\ t \in Buys
       /\ (orders[s].gap > orders[t].gap \/ (orders[s].gap = orders[t].gap /\ s < t))

\* _common_precheck
Tradable(s) ==
  LET o == orders[s]  bar == frame[s]  price == FillPrice(o.side, bar) IN
  /\ s \in ActiveOn(day) /\ ~bar.suspended
  /\ Lower(bar) <= price /\ price <= Upper(bar)
  /\ IF o.side = "BUY" THEN price >= bar.close /\ bar.close < Upper(bar)
                       ELSE price <= bar.close /\ bar.close > Lower(bar)
  /\ o.requested % Lot = 0

VolumeLimit(s) == WholeLots((frame[s].volume * ParticipationRate) \div RateUnit)

Rejected(reason)   == [quantity |-> 0, reason |-> reason, cut |-> {}]
Passed(q, cut)     == [quantity |-> q, reason |-> "APPROVED", cut |-> cut]
Cut(smaller, larger, why) == IF smaller < larger THEN {why} ELSE {}

\* The verdict on a SELL, from the sellable shares, the volume and the fee.
CheckSell(s) ==
  LET asked    == orders[s].requested
      sellable == WholeLots(Least(asked, position[s].available))
      quantity == Least(sellable, VolumeLimit(s))
  IN IF ~Tradable(s) THEN Rejected("PRECHECK")
     ELSE IF position[s].available < Lot THEN Rejected("TURNOVER_RULE")
     ELSE IF VolumeLimit(s) < Lot THEN Rejected("VOLUME_LIMIT")
     ELSE IF projected + Proceeds(s, quantity) < 0 THEN Rejected("INSUFFICIENT_CASH")
     ELSE Passed(quantity, Cut(sellable, asked, "sellable-holdings")
                           \cup Cut(quantity, sellable, "daily-volume"))

\* The verdict on a BUY, from the volume and the projected cash.
CheckBuy(s) ==
  LET asked      == orders[s].requested
      nonCash    == WholeLots(Least(asked, VolumeLimit(s)))
      affordable == Affordable(s, projected, nonCash)
  IN IF ~Tradable(s) THEN Rejected("PRECHECK")
     ELSE IF VolumeLimit(s) < Lot THEN Rejected("VOLUME_LIMIT")
     ELSE IF affordable = 0 THEN Rejected("INSUFFICIENT_CASH")
     ELSE Passed(affordable, Cut(nonCash, asked, "daily-volume")
                             \cup Cut(affordable, nonCash, "available-cash"))
\* What an approved quantity does to the projected cash.
Effect(s, q) == IF q = 0 THEN 0 ELSE IF s \in Sells THEN Proceeds(s, q) ELSE - Cost(s, q)
-----------------------------------------------------------------------------
(* Positions. *)
Release(p) == [p EXCEPT !.available = @ + p.today, !.today = 0]

Bought(s, q) ==
  IF s \in T0 THEN [position[s] EXCEPT !.total = @ + q, !.available = @ + q]
              ELSE [position[s] EXCEPT !.total = @ + q, !.today = @ + q]
Sold(s, q) == [position[s] EXCEPT !.total = @ - q, !.available = @ - q]
-----------------------------------------------------------------------------
NoOrders == [s \in {} |-> Rejected("PRECHECK")]

DayInit ==
  /\ day = 0 /\ step = "Open" /\ frame \in FramesOn(0)
  /\ cash = Cash0 /\ position = [s \in Securities |-> [total |-> 0, available |-> 0, today |-> 0]]
  /\ pending = NoTarget
  /\ orders = NoOrders /\ approved = NoOrders /\ projected = 0 /\ filled = {}
  /\ opened = [s \in Securities |-> 0]

\* The ETFs that the waiting target names.
Named == IF pending = NoTarget THEN {} ELSE DOMAIN pending.weights

\* What the pending target needs to become orders, and its orders to be quoted.
Generated(p) ==
  pending.executionDay = day /\ Priced(p, frame) /\ Named \subseteq DOMAIN frame
Quoted(made) ==
  \A s \in DOMAIN made : Consistent(made[s]) /\ Quotable(made[s].side, frame[s])

\* A frame begins: shares are released and the pending target becomes orders.
\* It raises when a holding or a named ETF has no bar or an order no quote.
Open ==
  /\ step = "Open"
  /\ position' = [s \in Securities |-> Release(position[s])]
  /\ opened' = [s \in Securities |-> position[s].total]
  /\ \/ pending = NoTarget
        /\ orders' = NoOrders /\ step' = "Close" /\ UNCHANGED pending
     \/ pending # NoTarget /\ ~Generated(position')
        /\ orders' = NoOrders /\ step' = "Failed" /\ UNCHANGED pending
     \/ pending # NoTarget /\ Generated(position')
        /\ orders' = OrdersFor(pending.weights, position', frame)
        /\ \/ ~Quoted(orders') /\ step' = "Failed" /\ UNCHANGED pending
           \/ Quoted(orders') /\ pending' = NoTarget
              /\ step' = IF DOMAIN orders' = {} THEN "Close" ELSE "Approve"
  /\ approved' = NoOrders /\ projected' = cash /\ filled' = {}
  /\ UNCHANGED <<day, frame, cash>>

\* approve_batch looks at the next order; the account is not touched.  A buy
\* that costs more than the projected cash raises.
Approve ==
  /\ step = "Approve"
  /\ \E s \in DOMAIN orders \ DOMAIN approved :
       /\ \A t \in DOMAIN orders \ DOMAIN approved : t = s \/ ApprovedBefore(s, t)
       /\ LET verdict == IF s \in Sells THEN CheckSell(s) ELSE CheckBuy(s) IN
          /\ approved' = [t \in DOMAIN approved \cup {s} |->
                            IF t = s THEN verdict ELSE approved[t]]
          /\ projected' = projected + Effect(s, verdict.quantity)
       /\ step' = IF projected' < 0 THEN "Failed"
                ELSE IF DOMAIN approved \cup {s} = DOMAIN orders THEN "Fill" ELSE step
  /\ UNCHANGED <<day, frame, cash, position, pending, orders, filled, opened>>

\* apply_fill: the account after a fill, which raises on a negative balance
\* or on shares it may not sell.
Apply(s, q, money, held) ==
  IF money < 0 \/ (s \in Sells /\ q > position[s].available)
  THEN step' = "Failed" /\ UNCHANGED <<cash, position>>
  ELSE /\ cash' = money
       /\ position' = [position EXCEPT ![s] = held]
       /\ step' = IF filled \cup {s} = DOMAIN orders THEN "Close" ELSE step

\* The next order in the engine's order becomes a fill, if it was approved.
Fill ==
  /\ step = "Fill"
  /\ \E s \in DOMAIN orders \ filled :
       /\ \A t \in DOMAIN orders \ filled :
            \/ t = s
            \/ s \in Sells /\ t \in Buys
            \/ ((s \in Sells) <=> (t \in Sells)) /\ s < t
       /\ filled' = filled \cup {s}
       /\ LET q == approved[s].quantity IN
          IF q = 0 THEN /\ step' = IF filled \cup {s} = DOMAIN orders THEN "Close" ELSE step
                        /\ UNCHANGED <<cash, position>>
          ELSE IF s \in Sells THEN Apply(s, q, cash + Proceeds(s, q), Sold(s, q))
          ELSE Apply(s, q, cash - Cost(s, q), Bought(s, q))
  /\ UNCHANGED <<day, frame, pending, orders, approved, projected, opened>>

\* evaluate_daily_decision: a target for the next frame, if the schedule asks
\* the strategy and the strategy gives one.
Decide ==
  \/ pending' = NoTarget
  \/ /\ day % Every = 0
     /\ \E w \in Targets : pending' = [executionDay |-> day + 1, weights |-> w]

\* The frame ends with its snapshot, which raises when a holding has no bar,
\* and the decision for the next frame; the last asks for none.
Close ==
  /\ step = "Close"
  /\ \/ ~Priced(position, frame) /\ step' = "Failed" /\ UNCHANGED <<day, frame, pending>>
     \/ Priced(position, frame) /\ day = LastFrame
        /\ step' = "Done" /\ UNCHANGED <<day, frame, pending>>
     \/ Priced(position, frame) /\ day # LastFrame
        /\ day' = day + 1 /\ step' = "Open" /\ frame' \in FramesOn(day')
        /\ Decide
  /\ UNCHANGED <<cash, position, batch>>

Finished == step \in {"Done", "Failed"} /\ UNCHANGED dayVars

DayNext == Open \/ Approve \/ Fill \/ Close \/ Finished

DaySpec == DayInit /\ [][DayNext]_dayVars
-----------------------------------------------------------------------------
(* Properties. *)
Verdict == [quantity : Nat,
            reason : {"APPROVED", "PRECHECK", "TURNOVER_RULE", "VOLUME_LIMIT",
                      "INSUFFICIENT_CASH"},
            cut : SUBSET {"sellable-holdings", "daily-volume", "available-cash"}]

\* Every variable keeps its type: cash is never negative, and the buckets of a
\* position split its shares as the turnover rule of its ETF says.
DayTypes ==
  /\ day \in 0 .. LastFrame
  /\ step \in {"Open", "Approve", "Fill", "Close", "Done", "Failed"}
  /\ frame \in FramesOn(day)
  /\ cash \in Nat /\ projected \in Int
  /\ position \in [Securities -> [total : Nat, available : Nat, today : Nat]]
  /\ \A s \in Securities : LET p == position[s] IN
       p.available + p.today = p.total /\ (s \in T0 => p.today = 0)
  /\ pending = NoTarget \/ pending \in [executionDay : 0 .. LastFrame, weights : Targets]
  /\ DOMAIN approved \subseteq DOMAIN orders /\ filled \subseteq DOMAIN orders
  /\ \A s \in DOMAIN approved : approved[s] \in Verdict

\* A run raises for its data alone, and then before the first fill of the day:
\* an ETF that is held or named is outside its life, or the close of an ordered
\* one is outside its limits or slips to zero.  Neither the order generator nor
\* the approval raises otherwise, nor the account, which applies the approved
\* orders in another sequence than they were approved.
RaisesForData ==
  step = "Failed" =>
    /\ filled = {}
    /\ \/ \E s \in Securities \ ActiveOn(day) : position[s].total > 0 \/ s \in Named
       \/ \E s \in DOMAIN orders : ~Quotable(orders[s].side, frame[s])

\* What the approvals projected is what the account holds when the fills are in.
CashAsApproved == step = "Close" => cash = projected

\* An order approved in full leaves its ETF less than one lot under the target
\* weight of the assets at the execution closes, and nothing bought exceeds it.
WithinOneLot ==
  step = "Close" => \A s \in DOMAIN orders :
    LET lotValue == WeightUnit * frame[s].close * Lot
        short    == orders[s].gap
                      - WeightUnit * frame[s].close * (position[s].total - opened[s])
    IN /\ s \in Buys => short >= 0
       /\ approved[s].quantity = orders[s].requested => short \in 0 .. lotValue - 1

\* A buy cut for cash could not have had one more lot even with the money that
\* the buys of a smaller gap took: the cash goes to the largest gap first.
LargestGapFirst ==
  step = "Close" => \A s \in Buys :
    "available-cash" \in approved[s].cut \/ approved[s].reason = "INSUFFICIENT_CASH" =>
      LET q     == approved[s].quantity
          after == {t \in Buys : orders[t].gap < orders[s].gap}
      IN cash + SumFunction([t \in after |-> Cost(t, approved[t].quantity)])
           < Cost(s, q + Lot) - Cost(s, q)

\* The day's trade in an ETF stays inside its share of the day's volume, and
\* one without a bar is not traded.
VolumeWithinCap ==
  step = "Close" => \A s \in Securities :
    Greatest(position[s].total - opened[s], opened[s] - position[s].total) * RateUnit
      <= IF s \in DOMAIN frame THEN frame[s].volume * ParticipationRate ELSE 0

\* T+1 never refuses or cuts a sale of the backtest: the shares of an earlier
\* close are released before the orders of the next are made.
NeverHeldByT1 ==
  \A s \in DOMAIN approved :
    approved[s].reason # "TURNOVER_RULE" /\ "sellable-holdings" \notin approved[s].cut

\* What the fills of a day are: within cash, shares, volume and turnover rule,
\* never refused by the account that applies them, and worth what was projected.
FillsInv == DayTypes /\ RaisesForData /\ CashAsApproved /\ VolumeWithinCap /\ NeverHeldByT1

\* The sizes: the target to one lot, and the cash for the largest gap first.
SizesFollowTheTarget == WithinOneLot /\ LargestGapFirst

\* No fill makes the account richer at the closes it trades against: slippage
\* and fees are on the side of the market.
FillNeverPays == step = "Fill" => Assets(cash', position', frame) <= Assets(cash, position, frame)
TradingNeverPays == [][FillNeverPays]_dayVars
=============================================================================
