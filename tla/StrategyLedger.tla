---------------------------- MODULE StrategyLedger ----------------------------
(***************************************************************************)
(* The virtual ledger of the one strategy an account trades, over several  *)
(* days: cash and positions booked from broker trades, the reservations of *)
(* the intents still out, the planning of a side from both, the T+1        *)
(* settlement and the end-of-day snapshot.                                 *)
(*                                                                         *)
(* The engine thread reads cash, positions and reservations in three       *)
(* transactions while the callback thread books trades.  An order is the   *)
(* intent of a decision: one per day, side and symbol.  A fill is one lot. *)
(* The fee of every trade is the minimum commission.                       *)
(***************************************************************************)
EXTENDS Integers, Sequences, SequencesExt, FiniteSetsExt

CONSTANTS
  Orders,       \* <<day, side, symbol>> of every intent that may be planned
  Symbols,
  RuleOf,       \* RuleOf[s]: "T0" or "T1"
  LastDay,      \* bound: trading days
  MaxLots,      \* bound: lots of one order
  Prices,       \* limit and fill prices of a lot
  Fee,          \* fee of one trade
  OpeningCash,
  OpeningLots   \* OpeningLots[s]: lots held, sellable, before the first day

Sides == {"SELL", "BUY"}
Days  == 1 .. LastDay

\* An intent is of one decision, one of the few a day may have.
ASSUME OrderAssumption   == IsFiniteSet(Orders) /\ Orders \subseteq Days \X Sides \X Symbols
ASSUME RuleAssumption    == RuleOf \in [Symbols -> {"T0", "T1"}]
ASSUME DayAssumption     == LastDay \in Nat \ {0} /\ MaxLots \in Nat
ASSUME MoneyAssumption   == Prices \subseteq Nat /\ Fee \in Nat /\ OpeningCash \in Nat
ASSUME OpeningAssumption == OpeningLots \in [Symbols -> Nat]

VARIABLES
  day,        \* the trading day
  cash,       \* live_strategy.virtual_cash
  pos,        \* live_strategy_position of each symbol
  intent,     \* live_order_intent of each order
  fills,      \* prices of the lots the broker filled of each order
  closed,     \* orders the broker will not fill any more
  booked,     \* live_broker_trade: fills booked, by their number
  snapshot,   \* the snapshot saved for each day
  pc, task,   \* where the engine is in which of its tasks
  readCash,   \* virtual_cash as the engine read it
  readPos     \* positions as the engine read them

ledgerVars == <<cash, pos, booked>>
brokerVars == <<fills, closed>>
readVars   == <<readCash, readPos>>
vars == <<day, ledgerVars, intent, brokerVars, snapshot, pc, task, readVars>>

DayOf(o)    == o[1]
SideOf(o)   == o[2]
SymbolOf(o) == o[3]

Positions == [total : Nat, available : Nat, today : Nat, settled : Nat]
\* No row: a first trade opens one, its settlement date the trade's.
NoPosition == [total |-> 0, available |-> 0, today |-> 0, settled |-> 0]

\* "live": planned, out or of unknown fate; "final": its outcome is recorded.
Intents == [state : {"absent", "live", "final"}, lots : Nat, limit : Nat]
NoIntent == [state |-> "absent", lots |-> 0, limit |-> 0]
Live(side) == {o \in Orders : SideOf(o) = side /\ intent[o].state = "live"}

NoSnapshot == [taken |-> FALSE, cash |-> 0, lots |-> [s \in Symbols |-> 0]]

Init ==
  /\ day = 1
  /\ cash = OpeningCash
  /\ pos = [s \in Symbols |->
              IF OpeningLots[s] = 0 THEN NoPosition
              ELSE [total |-> OpeningLots[s], available |-> OpeningLots[s],
                    today |-> 0, settled |-> 0]]
  /\ intent = [o \in Orders |-> NoIntent]
  /\ fills = [o \in Orders |-> <<>>] /\ closed = {}
  /\ booked = [o \in Orders |-> {}]
  /\ snapshot = [d \in Days |-> NoSnapshot]
  /\ pc = "idle" /\ task = "none"
  /\ readCash = 0 /\ readPos = pos
-----------------------------------------------------------------------------
(* Settlement and booking. *)

\* settle_strategy_positions, and the roll-over inside a trade's booking.
Settled_KeepsToday(p, d) ==  \* variant: the purchases stay in today's bucket
  IF p.settled >= d THEN p ELSE [p EXCEPT !.available = p.total, !.settled = d]
Settled(p, d) ==
  IF p.settled >= d THEN p
  ELSE [p EXCEPT !.available = p.total, !.today = 0, !.settled = d]

Bought(p, rule) ==
  IF rule = "T0" THEN [p EXCEPT !.total = @ + 1, !.available = @ + 1]
                 ELSE [p EXCEPT !.total = @ + 1, !.today = @ + 1]

Sold_FromToday(p) ==  \* variant: the lot is taken from the wrong bucket
  IF p.total = 1 THEN NoPosition ELSE [p EXCEPT !.total = @ - 1, !.today = @ - 1]
Sold(p) ==
  IF p.total = 1 THEN NoPosition
  ELSE [p EXCEPT !.total = @ - 1, !.available = @ - 1]

\* The trade can be booked; otherwise record_strategy_trade raises and its
\* transaction leaves no trace.
Bookable(o) ==
  SideOf(o) = "SELL" => Settled(pos[SymbolOf(o)], day).available >= 1

\* A callback or a reconciliation meets trade k of o, perhaps not the first
\* time.  Yesterday's trades are neither delivered nor queried today.
New_Always(o, k) == TRUE  \* variant: the trade id is not looked up
New(o, k) == k \notin booked[o]

Book(o, k) ==
  LET s == SymbolOf(o)
      p == Settled(pos[s], day)
      amount == fills[o][k]
  IN  /\ DayOf(o) = day
      /\ IF New(o, k)
           THEN /\ Bookable(o)
                /\ pos' = [pos EXCEPT ![s] = IF SideOf(o) = "BUY" THEN Bought(p, RuleOf[s])
                                             ELSE Sold(p)]
                /\ cash' = IF SideOf(o) = "BUY" THEN cash - (amount + Fee)
                                                ELSE cash + (amount - Fee)
                /\ booked' = [booked EXCEPT ![o] = @ \cup {k}]
           ELSE UNCHANGED ledgerVars
      /\ UNCHANGED <<day, intent, brokerVars, snapshot, pc, task, readVars>>

\* The reconciliation closes the intent: the broker is done with the order
\* and every trade of it is in the ledger.
Finalize(o) ==
  /\ DayOf(o) = day /\ intent[o].state = "live" /\ o \in closed
  /\ booked[o] = DOMAIN fills[o]
  /\ intent' = [intent EXCEPT ![o].state = "final"]
  /\ UNCHANGED <<day, ledgerVars, brokerVars, snapshot, pc, task, readVars>>
-----------------------------------------------------------------------------
(* strategy_reservations, from the intents whose outcome is not recorded. *)

Remaining(o) == intent[o].lots - Cardinality(booked[o])

SumOver(S, f(_)) == FoldSet(LAMBDA o, sum : f(o) + sum, 0, S)

\* Limit price of what may still be bought, and one fee for each such order.
Reserved(o) == IF Remaining(o) > 0 THEN intent[o].limit * Remaining(o) + Fee ELSE 0
ReservedCash == SumOver(Live("BUY"), Reserved)
ReservedLots_None(s) == 0  \* variant: unfinished sells are not counted
ReservedLots(s) == SumOver({o \in Live("SELL") : SymbolOf(o) = s}, Remaining)
-----------------------------------------------------------------------------
(* The engine: a task settles, reads cash, reads positions, then acts. *)

Begin(name) ==
  /\ pc = "idle"
  /\ pos' = [s \in Symbols |-> IF pos[s].total = 0 THEN pos[s] ELSE Settled(pos[s], day)]
  /\ pc' = "cash" /\ task' = name
  /\ UNCHANGED <<day, cash, intent, brokerVars, booked, snapshot, readVars>>

Of(side) == {o \in Orders : DayOf(o) = day /\ SideOf(o) = side}
AbsentOrFinal(o) == intent[o].state # "live"

\* A side is planned once, before the end of day; the buys only when the sells
\* are closed and booked.
BeginPlan(side) ==
  /\ ~snapshot[day].taken
  /\ \A o \in Of(side) : intent[o].state = "absent"
  /\ IF side = "BUY" THEN \A o \in Of("SELL") : AbsentOrFinal(o)
                     ELSE \A o \in Of("BUY") : intent[o].state = "absent"
  /\ Begin(side)

\* The end-of-day reconciliation found nothing open and nothing unbooked.
Done_Closed(o) == intent[o].state = "live" => o \in closed  \* variant
Done(o) == intent[o].state = "live" => o \in closed /\ booked[o] = DOMAIN fills[o]
BeginSnapshot ==
  /\ \A o \in Orders : DayOf(o) = day => Done(o)
  /\ Begin("EOD")

ReadCash ==
  /\ pc = "cash"
  /\ readCash' = cash
  /\ pc' = "positions"
  /\ UNCHANGED <<day, ledgerVars, intent, brokerVars, snapshot, task, readPos>>

ReadPositions ==
  /\ pc = "positions"
  /\ readPos' = pos
  /\ pc' = "act"
  /\ UNCHANGED <<day, ledgerVars, intent, brokerVars, snapshot, task, readCash>>

AvailableCash    == readCash - ReservedCash
AvailableLots(s) == readPos[s].available - ReservedLots(s)

\* The planner and the risk check, as far as cash and positions bound them.
Affordable(plan) ==
  SumOver(DOMAIN plan, LAMBDA o : plan[o].limit * plan[o].lots + Fee) <= AvailableCash
Sellable_RoundedUp(plan) ==  \* variant: a lot too many
  \A o \in DOMAIN plan : plan[o].lots <= AvailableLots(SymbolOf(o)) + 1
Sellable(plan) == \A o \in DOMAIN plan : plan[o].lots <= AvailableLots(SymbolOf(o))

\* VIRTUAL_CASH_NEGATIVE_AFTER_FEES or SELL_RESERVATION_EXCEEDS_POSITION.
PlanRefused ==
  /\ pc = "act" /\ task \in Sides
  /\ AvailableCash < 0 \/ \E s \in Symbols : AvailableLots(s) < 0
  /\ pc' = "idle" /\ task' = "none"
  /\ UNCHANGED <<day, ledgerVars, intent, brokerVars, snapshot, readVars>>

Plan ==
  /\ pc = "act" /\ task \in Sides
  /\ AvailableCash >= 0 /\ \A s \in Symbols : AvailableLots(s) >= 0
  /\ \E chosen \in SUBSET Of(task) :
       \E plan \in [chosen -> [state : {"live"}, lots : 1 .. MaxLots, limit : Prices]] :
         /\ IF task = "BUY" THEN Affordable(plan) ELSE Sellable(plan)
         /\ intent' = [o \in Orders |-> IF o \in chosen THEN plan[o] ELSE intent[o]]
  /\ pc' = "idle" /\ task' = "none"
  /\ UNCHANGED <<day, ledgerVars, brokerVars, snapshot, readVars>>

SaveSnapshot ==
  /\ pc = "act" /\ task = "EOD"
  /\ snapshot' = [snapshot EXCEPT ![day] =
                    [taken |-> TRUE, cash |-> readCash,
                     lots |-> [s \in Symbols |-> readPos[s].total]]]
  /\ pc' = "idle" /\ task' = "none"
  /\ UNCHANGED <<day, ledgerVars, intent, brokerVars, readVars>>

\* A crash, or an exception of the job.
Abort ==
  /\ pc # "idle"
  /\ pc' = "idle" /\ task' = "none"
  /\ UNCHANGED <<day, ledgerVars, intent, brokerVars, snapshot, readVars>>
-----------------------------------------------------------------------------
(* The broker. *)

Fill(o) ==
  /\ DayOf(o) = day /\ intent[o].state = "live" /\ o \notin closed
  /\ Len(fills[o]) < intent[o].lots
  /\ \E price \in Prices :
       /\ IF SideOf(o) = "BUY" THEN price <= intent[o].limit ELSE price >= intent[o].limit
       /\ fills' = [fills EXCEPT ![o] = Append(@, price)]
  /\ closed' = IF Len(fills'[o]) = intent[o].lots THEN closed \cup {o} ELSE closed
  /\ UNCHANGED <<day, ledgerVars, intent, snapshot, pc, task, readVars>>

\* Cancelled, rejected or expired, or never sent.
CloseOrder(o) ==
  /\ DayOf(o) = day /\ intent[o].state = "live" /\ o \notin closed
  /\ closed' = closed \cup {o}
  /\ UNCHANGED <<day, ledgerVars, intent, fills, snapshot, pc, task, readVars>>

NextDay ==
  /\ pc = "idle" /\ day < LastDay
  /\ day' = day + 1
  /\ UNCHANGED <<ledgerVars, intent, brokerVars, snapshot, pc, task, readVars>>
-----------------------------------------------------------------------------
Next ==
  \/ \E side \in Sides : BeginPlan(side)
  \/ BeginSnapshot \/ ReadCash \/ ReadPositions \/ PlanRefused \/ Plan
  \/ SaveSnapshot \/ Abort \/ NextDay
  \/ \E o \in Orders : Finalize(o) \/ Fill(o) \/ CloseOrder(o)
  \/ \E o \in Orders : \E k \in DOMAIN fills[o] : Book(o, k)

Spec == Init /\ [][Next]_vars
-----------------------------------------------------------------------------
(* Properties. *)

TypeOK ==
  /\ day \in Days
  /\ cash \in Int /\ pos \in [Symbols -> Positions]
  /\ booked \in [Orders -> SUBSET Nat]
  /\ intent \in [Orders -> Intents]
  /\ fills \in [Orders -> Seq(Prices)] /\ closed \subseteq Orders
  /\ snapshot \in [Days -> [taken : BOOLEAN, cash : Int, lots : [Symbols -> Int]]]
  /\ pc \in {"idle", "cash", "positions", "act"}
  /\ task \in Sides \cup {"EOD", "none"}
  /\ readCash \in Int /\ readPos \in [Symbols -> Positions]

\* A position is all sellable (T0), or split into what may be sold and what was
\* bought today (T1).
BucketsPartition ==
  \A s \in Symbols :
    /\ pos[s].total = pos[s].available + pos[s].today
    /\ RuleOf[s] = "T0" => pos[s].today = 0

\* No bucket goes below zero and every lot is in one of them, over any number of
\* days, crashes, repeated and reordered trades (state.py:108-168).
LedgerInv == TypeOK /\ BucketsPartition

\* Lots and money of a set of trades <<order, number>>.
TradesOf(done) == UNION {{<<o, k>> : k \in done[o]} : o \in Orders}
LotsBy(trades, s) ==
  SumOver({t \in trades : SymbolOf(t[1]) = s},
          LAMBDA t : IF SideOf(t[1]) = "BUY" THEN 1 ELSE -1)
CashBy(trades) ==
  SumOver(trades, LAMBDA t : (IF SideOf(t[1]) = "BUY" THEN -1 ELSE 1) * fills[t[1]][t[2]] - Fee)

Through(d, trades) == {t \in trades : DayOf(t[1]) <= d}
Made == TradesOf([o \in Orders |-> DOMAIN fills[o]])

\* Cash and lots are those of the booked trades, each counted once, however
\* often and in whatever order the two threads met them.
LedgerIsTheTrades ==
  /\ cash = OpeningCash + CashBy(TradesOf(booked))
  /\ \A s \in Symbols : pos[s].total = OpeningLots[s] + LotsBy(TradesOf(booked), s)

\* No booking can fail: whatever the broker sold today and the ledger has not
\* booked yet is still sellable in the ledger.
EveryTradeBookable ==
  \A s \in Symbols :
    LET unbooked(o) == Len(fills[o]) - Cardinality(booked[o]) IN
    SumOver({o \in Of("SELL") : SymbolOf(o) = s}, unbooked)
      <= Settled(pos[s], day).available

\* The account never sells what it does not hold, nor a T1 lot on the day it
\* was bought, even when trades of an earlier day never reached the ledger.
NeverShort ==
  \A s \in Symbols, d \in 1 .. day :
    LET overnight == {t \in Through(d, Made) : DayOf(t[1]) < d \/ SideOf(t[1]) = "SELL"}
    IN  OpeningLots[s] + LotsBy(IF RuleOf[s] = "T1" THEN overnight ELSE Through(d, Made), s) >= 0

\* What the broker really spends is covered, up to one fee for every fill of a
\* buy beyond its first: plans reserve a single fee for each order.
OverdraftIsExtraFees ==
  OpeningCash + CashBy(Made)
    >= -Fee * SumOver({o \in Orders : SideOf(o) = "BUY" /\ fills[o] # <<>>},
                      LAMBDA o : Len(fills[o]) - 1)

\* What is planned from a ledger that trails the broker oversells and overdraws
\* nothing, but for those fees.
NothingIsOversold == NeverShort /\ OverdraftIsExtraFees

\* A saved snapshot is the ledger of one moment: its cash and its lots are
\* those of the same trades, with every trade of its day among them.
SnapshotIsConsistent ==
  \A d \in Days : snapshot[d].taken =>
    LET then == Through(d, TradesOf(booked)) IN
    /\ {t \in Made : DayOf(t[1]) = d} \subseteq then
    /\ snapshot[d].cash = OpeningCash + CashBy(then)
    /\ snapshot[d].lots = [s \in Symbols |-> OpeningLots[s] + LotsBy(then, s)]
=============================================================================
