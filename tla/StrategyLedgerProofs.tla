------------------------- MODULE StrategyLedgerProofs -------------------------
(***************************************************************************)
(* Theorems about StrategyLedger, for any funds, days, orders and prices:  *)
(* its types and the partition of every position, that cash and lots are   *)
(* the sums of the trades, that every trade can be booked, that snapshots  *)
(* are of one moment, and that nothing is oversold.                        *)
(*                                                                         *)
(* The invariants are proved in layers, each from those before it: what    *)
(* the engine may rely on (FlowInv), the sums of the trades (CountInv),    *)
(* what may still be sold (ReserveInv), the snapshots (SnapInv), today's   *)
(* purchases (TodayInv), the past days (PastInv) and the cash of the buys  *)
(* (CoverInv).                                                             *)
(***************************************************************************)
EXTENDS StrategyLedger, Sums

-----------------------------------------------------------------------------
(* Types and buckets. *)

\* One position of rule r whose buckets add up.
Sound(p, r) ==
  /\ p \in Positions
  /\ p.total = p.available + p.today
  /\ r = "T0" => p.today = 0

\* Settling a sound position leaves it sound, with nothing bought today and
\* everything sellable unless it had been settled on that day.
LEMMA SettledSound ==
  ASSUME NEW p, NEW r, NEW d \in Nat, Sound(p, r)
  PROVE  Sound(Settled(p, d), r)
<1>1. CASE p.settled >= d
  BY <1>1 DEF Sound, Settled
<1>2. CASE ~(p.settled >= d)
  <2>1. Settled(p, d) = [total |-> p.total, available |-> p.total, today |-> 0, settled |-> d]
    BY <1>2 DEF Sound, Settled, Positions
  <2> QED
    BY <2>1 DEF Sound, Positions
<1> QED
  BY <1>1, <1>2

\* A bought lot goes to the bucket of the fund's rule.
LEMMA BoughtSound ==
  ASSUME NEW p, NEW r, Sound(p, r)
  PROVE  Sound(Bought(p, r), r)
<1>1. CASE r = "T0"
  <2>1. Bought(p, r) = [total |-> p.total + 1, available |-> p.available + 1,
                        today |-> p.today, settled |-> p.settled]
    BY <1>1 DEF Sound, Bought, Positions
  <2> QED
    BY <1>1, <2>1 DEF Sound, Positions
<1>2. CASE r # "T0"
  <2>1. Bought(p, r) = [total |-> p.total + 1, available |-> p.available,
                        today |-> p.today + 1, settled |-> p.settled]
    BY <1>2 DEF Sound, Bought, Positions
  <2> QED
    BY <1>2, <2>1 DEF Sound, Positions
<1> QED
  BY <1>1, <1>2

\* A position without a lot is sound.
LEMMA EmptySound == \A r : Sound(NoPosition, r)
  BY DEF Sound, NoPosition, Positions

\* Selling a sellable lot keeps the buckets sound and natural.
LEMMA SoldSound ==
  ASSUME NEW p, NEW r, Sound(p, r), p.available >= 1
  PROVE  Sound(Sold(p), r)
<1>1. CASE p.total = 1
  BY <1>1, EmptySound DEF Sold
<1>2. CASE p.total # 1
  <2>1. Sold(p) = [total |-> p.total - 1, available |-> p.available - 1,
                   today |-> p.today, settled |-> p.settled]
    BY <1>2 DEF Sound, Sold, Positions
  <2>2. p.total - 1 \in Nat /\ p.available - 1 \in Nat
    BY DEF Sound, Positions
  <2> QED
    BY <2>1, <2>2 DEF Sound, Positions
<1> QED
  BY <1>1, <1>2

\* The invariant says every position is sound.
LEMMA AllSound ==
  ASSUME TypeOK
  PROVE  BucketsPartition <=> \A s \in Symbols : Sound(pos[s], RuleOf[s])
  BY DEF TypeOK, BucketsPartition, Sound

\* The ledger starts typed and partitioned.
LEMMA InitInv == Init => LedgerInv
<1> SUFFICES ASSUME Init PROVE LedgerInv
  OBVIOUS
<1> USE OpeningAssumption, DayAssumption, MoneyAssumption
<1>1. pos \in [Symbols -> Positions]
  BY DEF Init, Positions, NoPosition
<1>2. snapshot \in [Days -> [taken : BOOLEAN, cash : Int, lots : [Symbols -> Int]]]
  BY DEF Init, NoSnapshot
<1>3. intent \in [Orders -> Intents]
  BY DEF Init, Intents, NoIntent
<1>4. fills \in [Orders -> Seq(Prices)]
  BY DEF Init
<1>5. day \in Days
  BY DEF Init, Days
<1>6. TypeOK
  BY <1>1, <1>2, <1>3, <1>4, <1>5 DEF Init, TypeOK
<1>7. BucketsPartition
  BY DEF Init, BucketsPartition, NoPosition
<1> QED
  BY <1>6, <1>7 DEF LedgerInv

\* A booking that finds the trade new moves one lot of one sound position.
LEMMA BookInv ==
  ASSUME LedgerInv, NEW o \in Orders, NEW k \in DOMAIN fills[o], Book(o, k)
  PROVE  LedgerInv'
<1> USE OrderAssumption, RuleAssumption, MoneyAssumption
<1> DEFINE s == SymbolOf(o)
           p == Settled(pos[s], day)
           q == IF SideOf(o) = "BUY" THEN Bought(p, RuleOf[s]) ELSE Sold(p)
<1>1. o \in Days \X Sides \X Symbols /\ s \in Symbols /\ SideOf(o) \in Sides
  BY DEF SymbolOf, SideOf
<1>2. day \in Nat
  BY DayAssumption DEF LedgerInv, TypeOK, Days
<1>3. TypeOK /\ BucketsPartition /\ \A t \in Symbols : Sound(pos[t], RuleOf[t])
  BY AllSound DEF LedgerInv
<1>4. CASE ~New(o, k)
  BY <1>4 DEF Book, LedgerInv, TypeOK, BucketsPartition, ledgerVars, brokerVars, readVars
<1>5. CASE New(o, k)
  <2>1. Sound(p, RuleOf[s])
    BY <1>1, <1>2, <1>3, SettledSound
  <2>2. Sound(q, RuleOf[s])
    <3>1. CASE SideOf(o) = "BUY"
      BY <2>1, <3>1, BoughtSound
    <3>2. CASE SideOf(o) # "BUY"
      <4>1. p.available >= 1
        BY <1>1, <1>5, <3>2 DEF Book, Bookable, Sides
      <4> QED
        BY <2>1, <3>2, <4>1, SoldSound
    <3> QED
      BY <3>1, <3>2
  <2>3. pos' = [pos EXCEPT ![s] = q]
    BY <1>5 DEF Book
  <2>4. pos' \in [Symbols -> Positions] /\ \A t \in Symbols : Sound(pos'[t], RuleOf[t])
    <3>1. pos \in [Symbols -> Positions]
      BY <1>3 DEF TypeOK
    <3>2. q \in Positions
      BY <2>2 DEF Sound
    <3> QED
      BY <1>1, <1>3, <2>2, <2>3, <3>1, <3>2
  <2>5. cash' \in Int
    <3>1. fills[o] \in Seq(Prices)
      BY <1>3 DEF TypeOK
    <3>2. fills[o][k] \in Prices
      BY <3>1
    <3>3. fills[o][k] \in Int /\ Fee \in Int /\ cash \in Int
      <4>1. Prices \subseteq Int /\ Fee \in Int
        BY MoneyAssumption
      <4>2. cash \in Int
        BY <1>3 DEF TypeOK
      <4> QED
        BY <3>2, <4>1, <4>2
    <3>4. cash' = cash - (fills[o][k] + Fee) \/ cash' = cash + (fills[o][k] - Fee)
      BY <1>5 DEF Book
    <3> QED
      BY <3>3, <3>4
  <2>6. booked' \in [Orders -> SUBSET Nat]
    <3>1. k \in Nat
      BY <1>3 DEF TypeOK
    <3>2. booked \in [Orders -> SUBSET Nat]
      BY <1>3 DEF TypeOK
    <3>3. booked' = [booked EXCEPT ![o] = @ \cup {k}]
      BY <1>5 DEF Book
    <3> QED
      BY <3>1, <3>2, <3>3
  <2>7. UNCHANGED <<day, intent, fills, closed, snapshot, pc, task, readCash, readPos>>
    BY DEF Book, brokerVars, readVars
  <2>8. TypeOK'
    BY <1>3, <2>4, <2>5, <2>6, <2>7 DEF TypeOK
  <2>9. BucketsPartition'
    BY <2>4 DEF BucketsPartition, Sound
  <2> QED
    BY <2>8, <2>9 DEF LedgerInv
<1> QED
  BY <1>4, <1>5

\* Settlement before a task.
LEMMA BeginInv ==
  ASSUME LedgerInv, NEW name \in Sides \cup {"EOD"}, Begin(name)
  PROVE  LedgerInv'
<1>1. day \in Nat
  BY DayAssumption DEF LedgerInv, TypeOK, Days
<1>2. \A t \in Symbols : Sound(pos[t], RuleOf[t])
  BY AllSound DEF LedgerInv
<1>3. \A t \in Symbols : Sound(pos'[t], RuleOf[t])
  <2> TAKE t \in Symbols
  <2>1. Sound(Settled(pos[t], day), RuleOf[t])
    BY <1>1, <1>2, SettledSound
  <2>2. pos'[t] = IF pos[t].total = 0 THEN pos[t] ELSE Settled(pos[t], day)
    BY DEF Begin
  <2> QED
    BY <1>2, <2>1, <2>2
<1>4. pos' \in [Symbols -> Positions]
  <2>1. \A t \in Symbols : pos'[t] \in Positions
    BY <1>3 DEF Sound
  <2>2. pos' = [s \in Symbols |-> IF pos[s].total = 0 THEN pos[s] ELSE Settled(pos[s], day)]
    BY DEF Begin
  <2> QED
    BY <2>1, <2>2
<1>5. TypeOK'
  BY <1>4 DEF LedgerInv, TypeOK, Begin, brokerVars, readVars
<1>6. BucketsPartition'
  BY <1>3 DEF BucketsPartition, Sound
<1> QED
  BY <1>5, <1>6 DEF LedgerInv

\* Every step keeps the invariant: only a settlement and a booking touch a
\* position.
LEMMA StepInv == LedgerInv /\ [Next]_vars => LedgerInv'
<1> SUFFICES ASSUME LedgerInv, [Next]_vars PROVE LedgerInv'
  OBVIOUS
<1> USE DEF LedgerInv, TypeOK, BucketsPartition, ledgerVars, brokerVars, readVars
<1>1. CASE \E side \in Sides : BeginPlan(side)
  BY <1>1, BeginInv DEF BeginPlan
<1>2. CASE BeginSnapshot
  BY <1>2, BeginInv DEF BeginSnapshot
<1>3. CASE ReadCash
  BY <1>3 DEF ReadCash
<1>4. CASE ReadPositions
  BY <1>4 DEF ReadPositions
<1>5. CASE PlanRefused
  BY <1>5 DEF PlanRefused
<1>6. CASE Plan
  <2>1. intent' \in [Orders -> Intents]
    <3>1. PICK chosen \in SUBSET Of(task) :
            \E plan \in [chosen -> [state : {"live"}, lots : 1 .. MaxLots, limit : Prices]] :
              intent' = [o \in Orders |-> IF o \in chosen THEN plan[o] ELSE intent[o]]
      BY <1>6 DEF Plan
    <3>2. PICK plan \in [chosen -> [state : {"live"}, lots : 1 .. MaxLots, limit : Prices]] :
            intent' = [o \in Orders |-> IF o \in chosen THEN plan[o] ELSE intent[o]]
      BY <3>1
    <3>3. chosen \subseteq Orders
      BY DEF Of
    <3>4. 1 .. MaxLots \subseteq Nat /\ Prices \subseteq Nat
      BY MoneyAssumption, DayAssumption
    <3>5. [state : {"live"}, lots : 1 .. MaxLots, limit : Prices] \subseteq Intents
      BY <3>4 DEF Intents
    <3>6. \A o \in chosen : plan[o] \in Intents
      BY <3>2, <3>5
    <3> QED
      BY <3>2, <3>3, <3>6
  <2>2. UNCHANGED <<day, cash, pos, booked, fills, closed, snapshot, readCash, readPos>>
    BY <1>6 DEF Plan
  <2>3. pc' = "idle" /\ task' = "none"
    BY <1>6 DEF Plan
  <2> QED
    BY <2>1, <2>2, <2>3
<1>7. CASE SaveSnapshot
  <2>1. [taken |-> TRUE, cash |-> readCash, lots |-> [s \in Symbols |-> readPos[s].total]]
          \in [taken : BOOLEAN, cash : Int, lots : [Symbols -> Int]]
    BY DEF Positions
  <2> QED
    BY <1>7, <2>1 DEF SaveSnapshot
<1>8. CASE Abort
  BY <1>8 DEF Abort
<1>9. CASE NextDay
  <2>1. day' \in Days
    BY <1>9, DayAssumption DEF NextDay, Days
  <2> QED
    BY <1>9, <2>1 DEF NextDay
<1>10. ASSUME NEW o \in Orders, Finalize(o) PROVE LedgerInv'
  <2>1. intent' \in [Orders -> Intents]
    <3>1. intent[o] \in Intents /\ intent \in [Orders -> Intents]
      OBVIOUS
    <3>2. [intent[o] EXCEPT !.state = "final"] \in Intents
      BY <3>1 DEF Intents
    <3>3. intent' = [intent EXCEPT ![o] = [intent[o] EXCEPT !.state = "final"]]
      BY <1>10 DEF Finalize
    <3> HIDE DEF LedgerInv, TypeOK, BucketsPartition
    <3> QED
      BY <3>1, <3>2, <3>3
  <2> QED
    BY <1>10, <2>1 DEF Finalize
<1>11. ASSUME NEW o \in Orders, Fill(o) PROVE LedgerInv'
  <2>1. PICK price \in Prices : fills' = [fills EXCEPT ![o] = Append(@, price)]
    BY <1>11 DEF Fill
  <2>2. fills[o] \in Seq(Prices) /\ Append(fills[o], price) \in Seq(Prices)
    OBVIOUS
  <2>3. fills' \in [Orders -> Seq(Prices)]
    BY <2>1, <2>2
  <2>4. closed' \subseteq Orders
    BY <1>11 DEF Fill
  <2> QED
    BY <1>11, <2>3, <2>4 DEF Fill
<1>12. ASSUME NEW o \in Orders, CloseOrder(o) PROVE LedgerInv'
  BY <1>12 DEF CloseOrder
<1>13. ASSUME NEW o \in Orders, NEW k \in DOMAIN fills[o], Book(o, k) PROVE LedgerInv'
  BY <1>13, BookInv
<1>14. CASE UNCHANGED vars
  BY <1>14 DEF vars
<1> QED
  BY <1>1, <1>2, <1>3, <1>4, <1>5, <1>6, <1>7, <1>8, <1>9, <1>10, <1>11, <1>12, <1>13,
     <1>14 DEF Next

\* Every variable keeps its type and every position its partition, so that no
\* bucket goes below zero, over any number of days, crashes, repeated and
\* reordered trades (state.py:108-168).
THEOREM LedgerIsSound == Spec => []LedgerInv
<1>1. Init => LedgerInv
  BY InitInv
<1>2. LedgerInv /\ [Next]_vars => LedgerInv'
  BY StepInv
<1> QED
  BY <1>1, <1>2, PTL DEF Spec

-----------------------------------------------------------------------------
(* What the engine may rely on while the callback thread and the broker go on. *)

\* An order's fills are within its lots and its limit, and known to the ledger
\* when its outcome is recorded; an order of a later day is not planned yet.
OrdersInv ==
  \A o \in Orders :
    /\ booked[o] \subseteq DOMAIN fills[o] /\ Len(fills[o]) <= intent[o].lots
    /\ intent[o].state = "absent" => fills[o] = <<>>
    /\ intent[o].state = "final" => booked[o] = DOMAIN fills[o]
    /\ DayOf(o) > day => intent[o].state = "absent"
    /\ SideOf(o) = "BUY" => \A k \in DOMAIN fills[o] : fills[o][k] <= intent[o].limit

\* Whatever the engine is at, no trade of the day is missing in the ledger; a side
\* is planned before the end of day and for the first time.
QuietInv ==
  pc # "idle" =>
    /\ task \in Sides \cup {"EOD"}
    /\ \A o \in Orders : DayOf(o) = day => Done(o)
    /\ task \in Sides => ~snapshot[day].taken /\ \A o \in Of(task) : intent[o].state = "absent"

\* So what the engine has read is what the ledger says.
ReadInv ==
  /\ pc \in {"positions", "act"} => readCash = cash
  /\ pc = "act" => readPos = pos

\* After a day's snapshot nothing of the day happens any more.
ClosedInv ==
  \A d \in Days : snapshot[d].taken => d <= day /\ \A o \in Orders : DayOf(o) = d => Done(o)

FlowInv == OrdersInv /\ QuietInv /\ ReadInv /\ ClosedInv

-----------------------------------------------------------------------------
\* An order that is done has nothing left to book.
LEMMA DoneBooked ==
  ASSUME OrdersInv, TypeOK, NEW o \in Orders, Done(o)
  PROVE  booked[o] = DOMAIN fills[o] /\ \A k \in DOMAIN fills[o] : ~New(o, k)
<1>1. intent[o].state \in {"absent", "live", "final"}
  BY DEF TypeOK, Intents
<1>2. CASE intent[o].state = "absent"
  <2>1. booked[o] \subseteq DOMAIN fills[o] /\ fills[o] = <<>>
    BY <1>2 DEF OrdersInv
  <2>2. DOMAIN fills[o] = {}
    BY <2>1
  <2> QED
    BY <2>1, <2>2
<1>3. CASE intent[o].state # "absent"
  BY <1>1, <1>3 DEF OrdersInv, Done, New
<1> QED
  BY <1>2, <1>3

\* Steps that touch neither orders nor ledger.
LEMMA OrdersFrame ==
  ASSUME TypeOK, OrdersInv, UNCHANGED <<intent, fills, booked>>, day' \in {day, day + 1}
  PROVE  OrdersInv'
<1>1. day \in Int /\ day' \in Int /\ day' >= day
  BY DayAssumption DEF TypeOK, Days
<1>2. \A o \in Orders : DayOf(o) \in Int
  BY OrderAssumption DEF DayOf, Days
<1> QED
  BY <1>1, <1>2 DEF OrdersInv

\* Nothing is planned, read or saved at first.
LEMMA FlowInit == Init => FlowInv
<1> SUFFICES ASSUME Init PROVE FlowInv
  OBVIOUS
<1>1. \A o \in Orders : booked[o] = {} /\ fills[o] = <<>> /\ intent[o].state = "absent" /\ intent[o].lots = 0
  BY DEF Init, NoIntent
<1>2. OrdersInv
  BY <1>1 DEF OrdersInv
<1>3. QuietInv /\ ReadInv /\ ClosedInv
  BY DEF Init, QuietInv, ReadInv, ClosedInv, NoSnapshot
<1> QED
  BY <1>2, <1>3 DEF FlowInv

\* A trade is booked only while its order is not done, so while the engine is idle.
LEMMA FlowBook ==
  ASSUME TypeOK, FlowInv, NEW o \in Orders, NEW k \in DOMAIN fills[o], Book(o, k)
  PROVE  FlowInv'
<1> USE DEF FlowInv
<1>0. UNCHANGED <<day, intent, fills, closed, snapshot, pc, task, readCash, readPos>> /\ DayOf(o) = day
  BY DEF Book, brokerVars, readVars
<1>1. CASE ~New(o, k)
  <2>1. UNCHANGED <<cash, pos, booked>>
    BY <1>1 DEF Book, ledgerVars
  <2> QED
    BY <1>0, <2>1, OrdersFrame DEF QuietInv, ReadInv, ClosedInv, Done, Of
<1>2. CASE New(o, k)
  <2>1. ~Done(o)
    BY <1>2, DoneBooked
  <2>2. booked' = [booked EXCEPT ![o] = @ \cup {k}]
    BY <1>2 DEF Book
  <2>3. booked[o] # DOMAIN fills[o]
    BY <1>2 DEF New
  <2>4. OrdersInv'
    <3>1. \A p \in Orders : booked'[p] = IF p = o THEN booked[o] \cup {k} ELSE booked[p]
      BY <2>2 DEF TypeOK
    <3>2. intent[o].state # "final" /\ booked[o] \cup {k} \subseteq DOMAIN fills[o]
      BY <2>3 DEF OrdersInv
    <3> QED
      BY <1>0, <3>1, <3>2 DEF OrdersInv
  <2>5. pc = "idle"
    BY <1>0, <2>1 DEF QuietInv
  <2>6. \A p \in Orders : p # o => booked'[p] = booked[p]
    BY <2>2 DEF TypeOK
  <2>7. QuietInv' /\ ReadInv'
    BY <1>0, <2>5 DEF QuietInv, ReadInv
  <2>8. ClosedInv'
    <3>1. \A d \in Days : snapshot[d].taken => d # day
      BY <1>0, <2>1 DEF ClosedInv
    <3> QED
      BY <1>0, <2>6, <3>1 DEF ClosedInv, Done
  <2> QED
    BY <2>4, <2>7, <2>8
<1> QED
  BY <1>1, <1>2

\* A fill keeps its order within lots and limit, and never follows a close.
LEMMA FlowFill ==
  ASSUME TypeOK, FlowInv, NEW o \in Orders, Fill(o)
  PROVE  FlowInv'
<1> USE DEF FlowInv
<1>1. /\ UNCHANGED <<day, cash, pos, booked, intent, snapshot, pc, task, readCash, readPos>>
      /\ DayOf(o) = day /\ intent[o].state = "live" /\ o \notin closed /\ closed \subseteq closed'
      /\ Len(fills[o]) < intent[o].lots
  BY DEF Fill, ledgerVars, readVars
<1>2. PICK price \in Prices : /\ fills' = [fills EXCEPT ![o] = Append(@, price)]
                              /\ SideOf(o) = "BUY" => price <= intent[o].limit
  BY DEF Fill
<1>3. fills[o] \in Seq(Prices) /\ Len(fills[o]) \in Nat /\ intent[o].lots \in Nat
  BY DEF TypeOK, Intents
<1>4. \A p \in Orders : fills'[p] = IF p = o THEN Append(fills[o], price) ELSE fills[p]
  BY <1>2 DEF TypeOK
<1>5. PICK longer : longer = Append(fills[o], price)
  OBVIOUS
<1>6. /\ Len(longer) = Len(fills[o]) + 1 /\ DOMAIN fills[o] \subseteq DOMAIN longer
      /\ \A k \in DOMAIN longer : longer[k] = IF k \in DOMAIN fills[o] THEN fills[o][k] ELSE price
  BY <1>3, <1>5
<1>7. ~Done(o)
  BY <1>1 DEF Done
<1>8. OrdersInv'
  <2>1. Len(longer) <= intent[o].lots
    BY <1>1, <1>3, <1>6
  <2> QED
    BY <1>1, <1>2, <1>4, <1>5, <1>6, <2>1 DEF OrdersInv
<1>9. pc = "idle"
  BY <1>1, <1>7 DEF QuietInv
<1>10. QuietInv' /\ ReadInv'
  BY <1>1, <1>9 DEF QuietInv, ReadInv
<1>11. ClosedInv'
  <2>1. \A d \in Days : snapshot[d].taken => d # day
    BY <1>1, <1>7 DEF ClosedInv
  <2>2. \A p \in Orders : p # o /\ Done(p) => Done(p)'
    BY <1>1, <1>4 DEF Done
  <2> QED
    BY <1>1, <2>1, <2>2 DEF ClosedInv
<1> QED
  BY <1>8, <1>10, <1>11

\* A plan starts orders that have no fills.
LEMMA FlowPlan ==
  ASSUME TypeOK, FlowInv, Plan
  PROVE  FlowInv'
<1> USE DEF FlowInv
<1>1. /\ UNCHANGED <<day, cash, pos, booked, fills, closed, snapshot, readCash, readPos>>
      /\ pc = "act" /\ pc' = "idle" /\ task \in Sides
  BY DEF Plan, ledgerVars, brokerVars, readVars
<1>a. PICK chosen \in SUBSET Of(task) :
         \E plan \in [chosen -> [state : {"live"}, lots : 1 .. MaxLots, limit : Prices]] :
           intent' = [o \in Orders |-> IF o \in chosen THEN plan[o] ELSE intent[o]]
  BY DEF Plan
<1>2. PICK plan \in [chosen -> [state : {"live"}, lots : 1 .. MaxLots, limit : Prices]] :
         intent' = [o \in Orders |-> IF o \in chosen THEN plan[o] ELSE intent[o]]
  BY <1>a
<1>3. \A o \in chosen : o \in Orders /\ DayOf(o) = day /\ intent[o].state = "absent" /\ intent'[o] = plan[o]
  BY <1>1, <1>2 DEF Of, QuietInv
<1>4. \A o \in Orders : o \notin chosen => intent'[o] = intent[o]
  BY <1>2
<1>5. OrdersInv'
  <2>1. ASSUME NEW o \in chosen
        PROVE  /\ booked[o] = {} /\ fills[o] = <<>> /\ plan[o].state = "live" /\ plan[o].lots >= 0
    <3>1. fills[o] = <<>> /\ booked[o] \subseteq DOMAIN fills[o]
      BY <1>3 DEF OrdersInv
    <3>2. plan[o].state = "live" /\ plan[o].lots \in 1 .. MaxLots
      BY <1>2
    <3> QED
      BY <3>1, <3>2
  <2>2. \A o \in chosen : ~(DayOf(o) > day)
    <3>1. day \in Int
      BY DEF TypeOK, Days
    <3> QED
      BY <1>3, <3>1
  <2> QED
    BY <1>1, <1>3, <1>4, <2>1, <2>2 DEF OrdersInv
<1>6. QuietInv' /\ ReadInv'
  BY <1>1 DEF QuietInv, ReadInv
<1>7. ClosedInv'
  <2>1. \A d \in Days : snapshot[d].taken => d # day
    BY <1>1 DEF QuietInv
  <2>2. \A o \in Orders : DayOf(o) # day /\ Done(o) => Done(o)'
    BY <1>1, <1>3, <1>4 DEF Done
  <2> QED
    BY <1>1, <2>1, <2>2 DEF ClosedInv
<1> QED
  BY <1>5, <1>6, <1>7

\* A task begins when the day is quiet.
LEMMA FlowBegin ==
  ASSUME TypeOK, FlowInv, NEW name, Begin(name), name \in Sides \cup {"EOD"},
         \A o \in Orders : DayOf(o) = day => Done(o),
         name \in Sides => ~snapshot[day].taken /\ \A o \in Of(name) : intent[o].state = "absent"
  PROVE  FlowInv'
<1> USE DEF FlowInv
<1>1. /\ UNCHANGED <<day, cash, intent, fills, closed, booked, snapshot, readCash, readPos>>
      /\ pc' = "cash" /\ task' = name
  BY DEF Begin, brokerVars, readVars
<1>2. \A o \in Orders : Done(o)' = Done(o)
  BY <1>1 DEF Done
<1>3. OrdersInv'
  BY <1>1, OrdersFrame
<1>4. QuietInv' /\ ReadInv' /\ ClosedInv'
  BY <1>1, <1>2 DEF QuietInv, ReadInv, ClosedInv, Of
<1> QED
  BY <1>3, <1>4

\* Every step keeps what the engine may rely on.
LEMMA FlowStep == TypeOK /\ FlowInv /\ [Next]_vars => FlowInv'
<1> SUFFICES ASSUME TypeOK, FlowInv, [Next]_vars PROVE FlowInv'
  OBVIOUS
<1> USE DEF FlowInv, ledgerVars, brokerVars, readVars
<1>1. ASSUME NEW side \in Sides, BeginPlan(side) PROVE FlowInv'
  <2>1. \A o \in Of(side) : intent[o].state = "absent"
    BY <1>1 DEF BeginPlan
  <2>2. ASSUME NEW o \in Orders, DayOf(o) = day PROVE intent[o].state # "live"
    <3>1. SideOf(o) \in Sides
      BY OrderAssumption DEF SideOf
    <3> QED
      BY <1>1, <2>2, <3>1 DEF BeginPlan, Of, Sides, AbsentOrFinal
  <2>3. \A o \in Orders : DayOf(o) = day => Done(o)
    BY <2>2 DEF Done
  <2>4. Begin(side) /\ ~snapshot[day].taken
    BY <1>1 DEF BeginPlan
  <2> QED
    BY <2>1, <2>3, <2>4, FlowBegin
<1>2. CASE BeginSnapshot
  <2>1. Begin("EOD") /\ \A o \in Orders : DayOf(o) = day => Done(o)
    BY <1>2 DEF BeginSnapshot
  <2>2. "EOD" \notin Sides
    BY DEF Sides
  <2> QED
    BY <2>1, <2>2, FlowBegin
<1>3. CASE ReadCash
  BY <1>3, OrdersFrame DEF ReadCash, QuietInv, ReadInv, ClosedInv, Done, Of
<1>4. CASE ReadPositions
  BY <1>4, OrdersFrame DEF ReadPositions, QuietInv, ReadInv, ClosedInv, Done, Of
<1>5. CASE PlanRefused
  BY <1>5, OrdersFrame DEF PlanRefused, QuietInv, ReadInv, ClosedInv, Done
<1>6. CASE Plan
  BY <1>6, FlowPlan
<1>7. CASE SaveSnapshot
  <2>1. /\ UNCHANGED <<day, cash, pos, booked, intent, fills, closed, readCash, readPos>>
        /\ pc = "act" /\ pc' = "idle"
        /\ \A d \in Days : d # day => snapshot'[d] = snapshot[d]
    BY <1>7 DEF SaveSnapshot, TypeOK
  <2>2. \A o \in Orders : DayOf(o) = day => Done(o)
    BY <2>1 DEF QuietInv
  <2>3. day \in Int /\ day <= day
    BY DEF TypeOK, Days
  <2>4. ClosedInv'
    BY <2>1, <2>2, <2>3 DEF ClosedInv, Done
  <2>5. OrdersInv'
    BY <2>1, OrdersFrame
  <2> QED
    BY <2>1, <2>4, <2>5 DEF QuietInv, ReadInv
<1>8. CASE Abort
  BY <1>8, OrdersFrame DEF Abort, QuietInv, ReadInv, ClosedInv, Done
<1>9. CASE NextDay
  <2>1. UNCHANGED <<cash, pos, booked, intent, fills, closed, snapshot, pc, readCash, readPos>>
        /\ pc = "idle" /\ day' = day + 1
    BY <1>9 DEF NextDay
  <2>2. \A d \in Days : d \in Int
    BY DEF Days
  <2>3. day \in Int
    BY DEF TypeOK, Days
  <2>4. \A d \in Days : d <= day => d <= day'
    BY <2>1, <2>2, <2>3
  <2>5. ClosedInv'
    BY <2>1, <2>4 DEF ClosedInv, Done
  <2>6. OrdersInv'
    BY <2>1, OrdersFrame
  <2> QED
    BY <2>1, <2>5, <2>6 DEF QuietInv, ReadInv
<1>10. ASSUME NEW o \in Orders, Finalize(o) PROVE FlowInv'
  <2>1. /\ UNCHANGED <<day, cash, pos, booked, fills, closed, snapshot, pc, task, readCash, readPos>>
        /\ booked[o] = DOMAIN fills[o] /\ intent[o].state = "live"
        /\ intent' = [intent EXCEPT ![o].state = "final"]
    BY <1>10 DEF Finalize
  <2>2. /\ \A p \in Orders : p # o => intent'[p] = intent[p]
        /\ intent'[o].state = "final" /\ intent'[o].lots = intent[o].lots /\ intent'[o].limit = intent[o].limit
    BY <2>1 DEF TypeOK, Intents
  <2>3. OrdersInv'
    BY <2>1, <2>2 DEF OrdersInv
  <2>4. \A p \in Orders : Done(p) => Done(p)'
    BY <2>1, <2>2 DEF Done
  <2>5. \A p \in Orders : intent[p].state = "absent" => intent'[p].state = "absent"
    BY <2>1, <2>2
  <2> QED
    BY <2>1, <2>3, <2>4, <2>5 DEF QuietInv, ReadInv, ClosedInv, Of
<1>11. ASSUME NEW o \in Orders, Fill(o) PROVE FlowInv'
  BY <1>11, FlowFill
<1>12. ASSUME NEW o \in Orders, CloseOrder(o) PROVE FlowInv'
  <2>1. /\ UNCHANGED <<day, cash, pos, booked, intent, fills, snapshot, pc, task, readCash, readPos>>
        /\ closed \subseteq closed'
    BY <1>12 DEF CloseOrder
  <2>2. \A p \in Orders : Done(p) => Done(p)'
    BY <2>1 DEF Done
  <2>3. OrdersInv'
    BY <2>1, OrdersFrame
  <2> QED
    BY <2>1, <2>2, <2>3 DEF QuietInv, ReadInv, ClosedInv, Of
<1>13. ASSUME NEW o \in Orders, NEW k \in DOMAIN fills[o], Book(o, k) PROVE FlowInv'
  BY <1>13, FlowBook
<1>14. CASE UNCHANGED vars
  BY <1>14, OrdersFrame DEF vars, QuietInv, ReadInv, ClosedInv, Done, Of
<1> QED
  BY <1>1, <1>2, <1>3, <1>4, <1>5, <1>6, <1>7, <1>8, <1>9, <1>10, <1>11, <1>12, <1>13,
     <1>14 DEF Next

-----------------------------------------------------------------------------
(* Sums of trades. *)

AllTrades == Orders \X Nat
CashOf(t) == (IF SideOf(t[1]) = "BUY" THEN -1 ELSE 1) * fills[t[1]][t[2]] - Fee
LotOf(t)  == IF SideOf(t[1]) = "BUY" THEN 1 ELSE -1
CashFlow  == [t \in AllTrades |-> CashOf(t)]
LotFlow   == [t \in AllTrades |-> LotOf(t)]
TradesIn(T, s) == {t \in T : SymbolOf(t[1]) = s}

\* The model's sums are those of the lemmas about sums.
LEMMA CashByTotal ==
  ASSUME NEW T, T \subseteq AllTrades, IsFiniteSet(T)
  PROVE  CashBy(T) = Total(CashFlow, T)
<1>1. PICK g : IsFold(g, CashFlow, SUBSET T)
  BY FoldExists
<1>2. \A s \in SUBSET T : s # {} => CashFlow[CHOOSE x \in s : TRUE] = CashOf(CHOOSE x \in s : TRUE)
  BY DEF CashFlow
<1>3. g = [s \in SUBSET T |-> IF s = {} THEN 0
                              ELSE CashOf(CHOOSE x \in s : TRUE) + g[s \ {CHOOSE x \in s : TRUE}]]
  BY <1>1, <1>2 DEF IsFold, Pick
<1> DEFINE h == CHOOSE h : h = [s \in SUBSET T |-> IF s = {} THEN 0
                              ELSE CashOf(CHOOSE x \in s : TRUE) + h[s \ {CHOOSE x \in s : TRUE}]]
<1>4. h = [s \in SUBSET T |-> IF s = {} THEN 0
                              ELSE CashOf(CHOOSE x \in s : TRUE) + h[s \ {CHOOSE x \in s : TRUE}]]
  BY <1>3
<1>5. CashBy(T) = h[T]
  BY DEF CashBy, SumOver, FoldSet, MapThenFoldSet, CashOf
<1> HIDE DEF h
<1>6. IsFold(h, CashFlow, SUBSET T)
  BY <1>2, <1>4 DEF IsFold, Pick
<1>7. PICK f : IsFold(f, CashFlow, SUBSET T) /\ Total(CashFlow, T) = f[T]
  BY TotalIsFold
<1>8. h[T] = f[T]
  BY <1>6, <1>7, FoldsAgree
<1> QED
  BY <1>5, <1>7, <1>8

\* So is the sum of the lots of a symbol.
LEMMA LotsByTotal ==
  ASSUME NEW T, T \subseteq AllTrades, IsFiniteSet(T), NEW s
  PROVE  LotsBy(T, s) = Total(LotFlow, TradesIn(T, s))
<1>0. PICK R : R = TradesIn(T, s)
  OBVIOUS
<1>a. R \subseteq AllTrades /\ IsFiniteSet(R)
  BY <1>0, FS_Subset DEF TradesIn
<1>1. PICK g : IsFold(g, LotFlow, SUBSET R)
  BY <1>a, FoldExists
<1>2. \A u \in SUBSET R : u # {} => LotFlow[CHOOSE x \in u : TRUE] = LotOf(CHOOSE x \in u : TRUE)
  BY <1>a DEF LotFlow
<1>3. g = [u \in SUBSET R |-> IF u = {} THEN 0
                              ELSE LotOf(CHOOSE x \in u : TRUE) + g[u \ {CHOOSE x \in u : TRUE}]]
  BY <1>1, <1>2 DEF IsFold, Pick
<1> DEFINE h == CHOOSE h : h = [u \in SUBSET R |-> IF u = {} THEN 0
                              ELSE LotOf(CHOOSE x \in u : TRUE) + h[u \ {CHOOSE x \in u : TRUE}]]
<1>4. h = [u \in SUBSET R |-> IF u = {} THEN 0
                              ELSE LotOf(CHOOSE x \in u : TRUE) + h[u \ {CHOOSE x \in u : TRUE}]]
  BY <1>3
<1>5. LotsBy(T, s) = h[R]
  BY <1>0 DEF LotsBy, SumOver, FoldSet, MapThenFoldSet, LotOf, TradesIn
<1> HIDE DEF h
<1>6. IsFold(h, LotFlow, SUBSET R)
  BY <1>2, <1>4 DEF IsFold, Pick
<1>7. PICK f : IsFold(f, LotFlow, SUBSET R) /\ Total(LotFlow, R) = f[R]
  BY <1>a, TotalIsFold
<1>8. h[R] = f[R]
  BY <1>a, <1>6, <1>7, FoldsAgree
<1> QED
  BY <1>0, <1>5, <1>7, <1>8

-----------------------------------------------------------------------------
\* The trades of finitely many orders, finitely many each, are finitely many.
LEMMA PairsFinite ==
  ASSUME NEW o, NEW K, IsFiniteSet(K)
  PROVE  IsFiniteSet({<<o, k>> : k \in K}) /\ Cardinality({<<o, k>> : k \in K}) = Cardinality(K)
<1> DEFINE P == {<<o, k>> : k \in K}
           f == [k \in K |-> <<o, k>>]
<1>1. f \in Bijection(K, P)
  BY DEF Bijection, Injection, Surjection, IsInjective
<1>2. ExistsBijection(K, P)
  BY <1>1 DEF ExistsBijection
<1> HIDE DEF P, f
<1>3. IsFiniteSet(P) /\ Cardinality(P) = Cardinality(K)
  BY <1>2, FS_Bijection
<1> QED
  BY <1>3 DEF P

\* TradesOf in parts, one for each order.
TradesBy(done) == [o \in Orders |-> {<<o, k>> : k \in done[o]}]

\* The trades booked are finitely many, and those of an order are a part of them.
LEMMA TradesFinite ==
  ASSUME NEW done, \A o \in Orders : done[o] \in SUBSET Nat /\ IsFiniteSet(done[o])
  PROVE  /\ TradesOf(done) \subseteq AllTrades /\ IsFiniteSet(TradesOf(done))
         /\ TradesOf(done) = Parts(TradesBy(done), Orders)
         /\ \A s : TradesIn(TradesOf(done), s) \subseteq AllTrades /\ IsFiniteSet(TradesIn(TradesOf(done), s))
<1>1. TradesOf(done) \subseteq AllTrades
  BY DEF TradesOf, AllTrades
<1>2. TradesOf(done) = Parts(TradesBy(done), Orders)
  BY DEF TradesOf, Parts, TradesBy
<1>3. \A o \in Orders : IsFiniteSet(TradesBy(done)[o])
  <2> TAKE o \in Orders
  <2>1. IsFiniteSet({<<o, k>> : k \in done[o]})
    BY PairsFinite
  <2> QED
    BY <2>1 DEF TradesBy
<1>4. \A o, p \in Orders : o # p => TradesBy(done)[o] \cap TradesBy(done)[p] = {}
  BY DEF TradesBy
<1>5. PICK zero : zero = [t \in AllTrades |-> 0]
  OBVIOUS
<1>6. \A o \in Orders : \A t \in TradesBy(done)[o] : zero[t] \in Int
  BY <1>5 DEF TradesBy, AllTrades
<1>7. IsFiniteSet(Parts(TradesBy(done), Orders))
  BY <1>3, <1>4, <1>6, OrderAssumption, TotalByParts
<1>8. IsFiniteSet(TradesOf(done))
  BY <1>2, <1>7
<1>9. \A s : TradesIn(TradesOf(done), s) \subseteq TradesOf(done)
  BY DEF TradesIn
<1> QED
  BY <1>1, <1>2, <1>8, <1>9, FS_Subset

\* The fills of an order are numbered, finitely many, and those booked are among them.
LEMMA FillsFinite ==
  ASSUME TypeOK, OrdersInv
  PROVE  \A o \in Orders : /\ booked[o] \in SUBSET Nat /\ IsFiniteSet(booked[o])
                           /\ Cardinality(booked[o]) \in Nat /\ Cardinality(booked[o]) <= Len(fills[o])
                           /\ DOMAIN fills[o] \in SUBSET Nat /\ IsFiniteSet(DOMAIN fills[o])
                           /\ Cardinality(DOMAIN fills[o]) = Len(fills[o]) /\ Len(fills[o]) \in Nat
<1> TAKE o \in Orders
<1>1. fills[o] \in Seq(Prices) /\ Len(fills[o]) \in Nat /\ DOMAIN fills[o] = 1 .. Len(fills[o])
  BY DEF TypeOK
<1>2. /\ IsFiniteSet(DOMAIN fills[o]) /\ Cardinality(DOMAIN fills[o]) = Len(fills[o])
  <2>1. IsFiniteSet(1 .. Len(fills[o])) /\ Cardinality(1 .. Len(fills[o])) = Len(fills[o])
    BY <1>1, FS_Interval
  <2> QED
    BY <1>1, <2>1
<1>3. booked[o] \in SUBSET DOMAIN fills[o]
  BY DEF OrdersInv
<1>4. IsFiniteSet(booked[o]) /\ Cardinality(booked[o]) <= Cardinality(DOMAIN fills[o])
  BY <1>2, <1>3, FS_Subset
<1>5. Cardinality(booked[o]) \in Nat
  BY <1>4, FS_CardinalityType
<1> QED
  BY <1>1, <1>2, <1>3, <1>4, <1>5

\* What a trade that was made moves is a number.
LEMMA FlowsInt ==
  ASSUME TypeOK
  PROVE  /\ \A o \in Orders : \A k \in DOMAIN fills[o] :
              /\ <<o, k>> \in AllTrades /\ CashFlow[<<o, k>>] = CashOf(<<o, k>>)
              /\ CashFlow[<<o, k>>] \in Int /\ fills[o][k] \in Prices /\ fills[o][k] \in Nat
         /\ \A t \in AllTrades : LotFlow[t] \in {1, -1} /\ LotFlow[t] = LotOf(t)
<1>1. ASSUME NEW o \in Orders, NEW k \in DOMAIN fills[o]
      PROVE  /\ <<o, k>> \in AllTrades /\ CashFlow[<<o, k>>] = CashOf(<<o, k>>)
             /\ CashFlow[<<o, k>>] \in Int /\ fills[o][k] \in Prices /\ fills[o][k] \in Nat
  <2>1. fills[o] \in Seq(Prices)
    BY DEF TypeOK
  <2>2. k \in Nat /\ fills[o][k] \in Prices
    BY <2>1
  <2>3. fills[o][k] \in Nat /\ Fee \in Nat
    BY <2>2, MoneyAssumption
  <2>4. <<o, k>> \in AllTrades /\ <<o, k>>[1] = o /\ <<o, k>>[2] = k
    BY <2>2 DEF AllTrades
  <2>5. CashOf(<<o, k>>) \in Int
    <3>1. CashOf(<<o, k>>) = (IF SideOf(o) = "BUY" THEN -1 ELSE 1) * fills[o][k] - Fee
      BY <2>4 DEF CashOf
    <3>2. CASE SideOf(o) = "BUY"
      BY <2>3, <3>1, <3>2
    <3>3. CASE SideOf(o) # "BUY"
      BY <2>3, <3>1, <3>3
    <3> QED
      BY <3>2, <3>3
  <2>6. CashFlow[<<o, k>>] = CashOf(<<o, k>>)
    BY <2>4 DEF CashFlow
  <2> QED
    BY <2>2, <2>3, <2>4, <2>5, <2>6
<1>2. \A t \in AllTrades : LotFlow[t] \in {1, -1} /\ LotFlow[t] = LotOf(t)
  BY DEF LotFlow, LotOf
<1> QED
  BY <1>1, <1>2
-----------------------------------------------------------------------------
\* The ledger is the sum of the trades it booked.
CountInv ==
  /\ cash = OpeningCash + Total(CashFlow, TradesOf(booked))
  /\ \A s \in Symbols :
       pos[s].total = OpeningLots[s] + Total(LotFlow, TradesIn(TradesOf(booked), s))

\* Before any trade the ledger is what it opened with.
LEMMA CountInit == Init => CountInv
<1> SUFFICES ASSUME Init PROVE CountInv
  OBVIOUS
<1>1. TradesOf(booked) = {}
  BY DEF Init, TradesOf
<1>2. \A s : TradesIn({}, s) = {}
  BY DEF TradesIn
<1>3. cash = OpeningCash /\ OpeningCash \in Int
  BY MoneyAssumption DEF Init
<1>4. \A s \in Symbols : pos[s].total = OpeningLots[s] /\ OpeningLots[s] \in Int
  BY OpeningAssumption DEF Init, NoPosition
<1>5. Total(CashFlow, TradesOf(booked)) = 0
  BY <1>1, TotalEmpty
<1>6. \A s : Total(LotFlow, TradesIn(TradesOf(booked), s)) = 0
  BY <1>1, <1>2, TotalEmpty
<1>7. cash = OpeningCash + Total(CashFlow, TradesOf(booked))
  BY <1>3, <1>5
<1>8. \A s \in Symbols :
       pos[s].total = OpeningLots[s] + Total(LotFlow, TradesIn(TradesOf(booked), s))
  BY <1>4, <1>6
<1> QED
  BY <1>7, <1>8 DEF CountInv

\* Steps that book nothing and fill nothing.
LEMMA CountFrame ==
  ASSUME CountInv, UNCHANGED <<cash, booked, fills>>, \A s \in Symbols : pos'[s].total = pos[s].total
  PROVE  CountInv'
<1>1. CashFlow' = CashFlow
  BY DEF CashFlow, CashOf
<1> QED
  BY <1>1 DEF CountInv

\* So are those of the first days; each is a fill of its order.
LEMMA ThroughFinite ==
  ASSUME TypeOK, OrdersInv
  PROVE  /\ TradesOf(booked) \subseteq AllTrades /\ IsFiniteSet(TradesOf(booked))
         /\ \A d : Through(d, TradesOf(booked)) \subseteq TradesOf(booked)
         /\ \A d : IsFiniteSet(Through(d, TradesOf(booked)))
         /\ \A t \in TradesOf(booked) : /\ t[1] \in Orders /\ t[2] \in booked[t[1]]
                                        /\ t[2] \in DOMAIN fills[t[1]] /\ t = <<t[1], t[2]>>
<1>1. TradesOf(booked) \subseteq AllTrades /\ IsFiniteSet(TradesOf(booked))
  BY FillsFinite, TradesFinite
<1>2. \A d : Through(d, TradesOf(booked)) \subseteq TradesOf(booked)
  BY DEF Through
<1>3. \A d : IsFiniteSet(Through(d, TradesOf(booked)))
  BY <1>1, <1>2, FS_Subset
<1>4. ASSUME NEW t \in TradesOf(booked)
      PROVE  /\ t[1] \in Orders /\ t[2] \in booked[t[1]]
             /\ t[2] \in DOMAIN fills[t[1]] /\ t = <<t[1], t[2]>>
  <2>1. PICK o \in Orders : \E k \in booked[o] : t = <<o, k>>
    BY DEF TradesOf
  <2>2. PICK k \in booked[o] : t = <<o, k>>
    BY <2>1
  <2>3. k \in DOMAIN fills[o]
    BY DEF OrdersInv
  <2> QED
    BY <2>1, <2>2, <2>3
<1> QED
  BY <1>1, <1>2, <1>3, <1>4

\* A further fill changes nothing about the trades already booked.
LEMMA FillKeepsCash ==
  ASSUME TypeOK, OrdersInv, NEW o \in Orders, Fill(o)
  PROVE  \A t \in TradesOf(booked) : CashFlow'[t] = CashFlow[t]
<1>1. PICK price \in Prices : fills' = [fills EXCEPT ![o] = Append(@, price)]
  BY DEF Fill
<1>2. \A p \in Orders : \A k \in DOMAIN fills[p] : fills'[p][k] = fills[p][k]
  <2>1. fills[o] \in Seq(Prices)
    BY DEF TypeOK
  <2>2. \A k \in DOMAIN fills[o] : Append(fills[o], price)[k] = fills[o][k]
    BY <2>1
  <2> QED
    BY <1>1, <2>2 DEF TypeOK
<1>3. ASSUME NEW t \in TradesOf(booked) PROVE CashFlow'[t] = CashFlow[t]
  <2>1. t \in AllTrades /\ t[1] \in Orders /\ t[2] \in DOMAIN fills[t[1]]
    BY ThroughFinite
  <2>2. CashFlow[t] = CashOf(t) /\ CashFlow'[t] = CashOf(t)'
    BY <2>1 DEF CashFlow
  <2>3. CashOf(t)' = CashOf(t)
    BY <1>2, <2>1 DEF CashOf
  <2> QED
    BY <2>2, <2>3
<1> QED
  BY <1>3

\* The ledger does not see a fill.
LEMMA CountFill ==
  ASSUME TypeOK, OrdersInv, CountInv, NEW o \in Orders, Fill(o)
  PROVE  CountInv'
<1>1. UNCHANGED <<cash, pos, booked>>
  BY DEF Fill, ledgerVars
<1>2. Total(CashFlow', TradesOf(booked)) = Total(CashFlow, TradesOf(booked))
  BY FillKeepsCash, ThroughFinite, TotalAgrees
<1> QED
  BY <1>1, <1>2 DEF CountInv

\* Settling moves lots between the buckets of a position.
LEMMA SettledFields ==
  ASSUME NEW p \in Positions, NEW d \in Nat
  PROVE  /\ Settled(p, d) \in Positions /\ Settled(p, d).total = p.total
         /\ Settled(p, d).available = IF p.settled >= d THEN p.available ELSE p.total
         /\ Settled(p, d).today = IF p.settled >= d THEN p.today ELSE 0
         /\ Settled(p, d).settled = IF p.settled >= d THEN p.settled ELSE d
<1>1. CASE p.settled >= d
  BY <1>1 DEF Settled
<1>2. CASE ~(p.settled >= d)
  <2>1. Settled(p, d) = [total |-> p.total, available |-> p.total, today |-> 0, settled |-> d]
    BY <1>2 DEF Settled, Positions
  <2> QED
    BY <1>2, <2>1 DEF Positions
<1> QED
  BY <1>1, <1>2

\* The trade of a fill is new to the ledger's trades when the order's booking is.
LEMMA NewTrade ==
  ASSUME TypeOK, NEW o \in Orders, NEW k \in DOMAIN fills[o], New(o, k),
         booked' = [booked EXCEPT ![o] = @ \cup {k}]
  PROVE  /\ TradesOf(booked') = TradesOf(booked) \cup {<<o, k>>}
         /\ <<o, k>> \notin TradesOf(booked)
<1>1. \A p \in Orders : booked'[p] = IF p = o THEN booked[o] \cup {k} ELSE booked[p]
  BY DEF TypeOK
<1> QED
  BY <1>1 DEF TradesOf, New

\* A trade met again changes nothing; a new one adds its cash and its lots.
LEMMA CountBook ==
  ASSUME LedgerInv, OrdersInv, CountInv, NEW o \in Orders, NEW k \in DOMAIN fills[o], Book(o, k)
  PROVE  CountInv'
<1> DEFINE s == SymbolOf(o)
           p == Settled(pos[s], day)
           t == <<o, k>>
<1> USE DEF LedgerInv
<1>0. s \in Symbols /\ SideOf(o) \in Sides /\ UNCHANGED fills /\ day \in Nat
  BY OrderAssumption, DayAssumption DEF SymbolOf, SideOf, Book, brokerVars, TypeOK, Days
<1>1. CASE ~New(o, k)
  BY <1>0, <1>1, CountFrame DEF Book, ledgerVars
<1>2. CASE New(o, k)
  <2>1. /\ booked' = [booked EXCEPT ![o] = @ \cup {k}]
        /\ TradesOf(booked') = TradesOf(booked) \cup {t} /\ t \notin TradesOf(booked)
    BY <1>2, NewTrade DEF Book
  <2>2. PICK T : T = TradesOf(booked)
    OBVIOUS
  <2>3. /\ IsFiniteSet(T) /\ T \subseteq AllTrades
        /\ \A u \in T : CashFlow[u] \in Int
    <3>1. IsFiniteSet(T) /\ T \subseteq AllTrades
      BY <2>2, TradesFinite, FillsFinite
    <3>2. ASSUME NEW u \in T PROVE CashFlow[u] \in Int
      <4>1. PICK q \in Orders : \E j \in booked[q] : u = <<q, j>>
        BY <2>2 DEF TradesOf
      <4>2. PICK j \in booked[q] : u = <<q, j>>
        BY <4>1
      <4>3. j \in DOMAIN fills[q]
        BY DEF OrdersInv
      <4> QED
        BY <4>2, <4>3, FlowsInt
    <3> QED
      BY <3>1, <3>2
  <2>4. t \in AllTrades /\ CashFlow[t] = CashOf(t) /\ CashFlow[t] \in Int /\ fills[o][k] \in Nat
        /\ LotFlow[t] = LotOf(t) /\ LotFlow[t] \in Int
    BY FlowsInt
  <2>5. CashFlow' = CashFlow
    BY <1>0 DEF CashFlow, CashOf
  <2>6. Total(CashFlow, T \cup {t}) = CashFlow[t] + Total(CashFlow, T) /\ Total(CashFlow, T) \in Int
    BY <2>1, <2>2, <2>3, <2>4, TotalWith, TotalInt
  <2>7. cash' = cash + CashFlow[t]
    <3>1. CashFlow[t] = (IF SideOf(o) = "BUY" THEN -1 ELSE 1) * fills[o][k] - Fee
      BY <2>4 DEF CashOf
    <3>2. cash \in Int /\ Fee \in Int
      BY MoneyAssumption DEF TypeOK
    <3>3. cash' = IF SideOf(o) = "BUY" THEN cash - (fills[o][k] + Fee) ELSE cash + (fills[o][k] - Fee)
      BY <1>2 DEF Book
    <3>4. CASE SideOf(o) = "BUY"
      BY <2>4, <3>1, <3>2, <3>3, <3>4
    <3>5. CASE SideOf(o) # "BUY"
      BY <2>4, <3>1, <3>2, <3>3, <3>5
    <3> QED
      BY <3>4, <3>5
  <2>8. cash' = OpeningCash + Total(CashFlow', TradesOf(booked'))
    <3>1. cash = OpeningCash + Total(CashFlow, T) /\ OpeningCash \in Int
      BY <2>2, MoneyAssumption DEF CountInv
    <3>2. TradesOf(booked') = T \cup {t}
      BY <2>1, <2>2
    <3>3. Total(CashFlow', TradesOf(booked')) = CashFlow[t] + Total(CashFlow, T)
      BY <2>5, <2>6, <3>2
    <3> QED
      BY <2>4, <2>6, <2>7, <3>1, <3>3
  <2>10. TradesOf(booked') = T \cup {t} /\ t[1] = o
    BY <2>1, <2>2
  <2>9. ASSUME NEW v \in Symbols
        PROVE  pos'[v].total = OpeningLots[v] + Total(LotFlow, TradesIn(TradesOf(booked'), v))
    <3>0. PICK R : R = TradesIn(T, v)
      OBVIOUS
    <3>1. /\ IsFiniteSet(R) /\ R \subseteq T /\ t \notin R /\ \A u \in R : LotFlow[u] \in Int
          /\ pos[v].total = OpeningLots[v] + Total(LotFlow, R)
      <4>1. R \in SUBSET T
        BY <3>0 DEF TradesIn
      <4>2. IsFiniteSet(R)
        BY <2>3, <4>1, FS_Subset
      <4>3. \A u \in R : LotFlow[u] \in {1, -1}
        BY <2>3, <4>1, FlowsInt
      <4> QED
        BY <2>1, <2>2, <3>0, <4>1, <4>2, <4>3 DEF CountInv
    <3>2. Total(LotFlow, R) \in Int /\ OpeningLots[v] \in Int
      BY <3>1, OpeningAssumption, TotalInt
    <3>3. CASE v # s
      <4>1. TradesIn(TradesOf(booked'), v) = R
        <5>1. TradesIn(TradesOf(booked'), v) = TradesIn(T \cup {t}, v)
          BY <2>10
        <5>2. SymbolOf(t[1]) # v
          BY <2>10, <3>3 DEF SymbolOf
        <5>3. PICK u : u = t
          OBVIOUS
        <5>4. TradesIn(T \cup {u}, v) = TradesIn(T, v)
          BY <5>2, <5>3 DEF TradesIn
        <5> QED
          BY <3>0, <5>1, <5>3, <5>4
      <4>2. pos'[v] = pos[v]
        BY <1>2, <3>3 DEF Book, TypeOK
      <4> QED
        BY <3>1, <4>1, <4>2
    <3>4. CASE v = s
      <4>1. TradesIn(TradesOf(booked'), v) = R \cup {t}
        <5>1. TradesIn(TradesOf(booked'), v) = TradesIn(T \cup {t}, v)
          BY <2>10
        <5>2. SymbolOf(t[1]) = v
          BY <2>10, <3>4 DEF SymbolOf
        <5>3. TradesIn(T \cup {t}, v) = TradesIn(T, v) \cup {t}
          <6>1. PICK u : u = t
            OBVIOUS
          <6>2. SymbolOf(u[1]) = v
            BY <5>2, <6>1
          <6>3. TradesIn(T \cup {u}, v) = TradesIn(T, v) \cup {u}
            BY <6>2 DEF TradesIn
          <6>4. PICK W : W = T \cup {t}
            OBVIOUS
          <6>5. W = T \cup {u}
            BY <6>1, <6>4
          <6>6. TradesIn(W, v) = TradesIn(T, v) \cup {u}
            BY <6>5, <6>3
          <6>7. TradesIn(T, v) \cup {u} = TradesIn(T, v) \cup {t}
            BY <6>1
          <6> QED
            BY <6>4, <6>6, <6>7
        <5> QED
          BY <3>0, <5>1, <5>3
      <4>2. Total(LotFlow, R \cup {t}) = LotFlow[t] + Total(LotFlow, R)
        BY <2>4, <3>1, TotalWith
      <4>3. pos'[v].total = pos[v].total + LotFlow[t]
        <5>1. pos[s] \in Positions /\ p \in Positions /\ p.total = pos[s].total /\ p.total \in Nat
          <6>1. pos[s] \in Positions
            BY <1>0 DEF TypeOK
          <6>2. p \in Positions /\ p.total = pos[s].total
            BY <1>0, <6>1, SettledFields
          <6> QED
            BY <6>1, <6>2 DEF Positions
        <5>2. pos'[s] = IF SideOf(o) = "BUY" THEN Bought(p, RuleOf[s]) ELSE Sold(p)
          BY <1>0, <1>2 DEF Book, TypeOK
        <5>3. CASE SideOf(o) = "BUY"
          <6>1. Bought(p, RuleOf[s]).total = p.total + 1
            BY <5>1 DEF Bought, Positions
          <6>2. LotFlow[t] = 1
            BY <2>4, <5>3 DEF LotOf
          <6> QED
            BY <3>4, <5>1, <5>2, <5>3, <6>1, <6>2
        <5>4. CASE SideOf(o) # "BUY"
          <6>1. Sold(p).total = p.total - 1
            BY <5>1 DEF Sold, Positions, NoPosition
          <6>2. LotFlow[t] = -1
            BY <2>4, <5>4 DEF LotOf
          <6> QED
            BY <3>4, <5>1, <5>2, <5>4, <6>1, <6>2
        <5> QED
          BY <5>3, <5>4
      <4>4. pos[v].total = OpeningLots[v] + Total(LotFlow, R)
        BY <3>1
      <4>5. Total(LotFlow, TradesIn(TradesOf(booked'), v)) = LotFlow[t] + Total(LotFlow, R)
        BY <4>1, <4>2
      <4> HIDE DEF s, t
      <4> QED
        BY <2>4, <3>2, <4>3, <4>4, <4>5
    <3> QED
      BY <3>3, <3>4
  <2> QED
    BY <2>8, <2>9 DEF CountInv
<1> QED
  BY <1>1, <1>2

\* Settling changes no total.
LEMMA CountBegin ==
  ASSUME TypeOK, CountInv, NEW name, Begin(name)
  PROVE  CountInv'
<1>1. ASSUME NEW s \in Symbols PROVE pos'[s].total = pos[s].total
  <2>1. pos[s] \in Positions /\ day \in Nat
    BY DayAssumption DEF TypeOK, Days
  <2>2. pos'[s] = IF pos[s].total = 0 THEN pos[s] ELSE Settled(pos[s], day)
    BY DEF Begin
  <2> QED
    BY <2>1, <2>2, SettledFields
<1>2. UNCHANGED <<cash, booked, fills>>
  BY DEF Begin, brokerVars
<1> QED
  BY <1>1, <1>2, CountFrame

\* Every step keeps cash and lots the sums of the trades booked.
LEMMA CountStep == LedgerInv /\ LedgerInv' /\ OrdersInv /\ CountInv /\ [Next]_vars => CountInv'
<1> SUFFICES ASSUME LedgerInv, LedgerInv', OrdersInv, CountInv, [Next]_vars PROVE CountInv'
  OBVIOUS
<1>0. TypeOK /\ TypeOK'
  BY DEF LedgerInv
<1>1. CASE \E side \in Sides : BeginPlan(side)
  BY <1>0, <1>1, CountBegin DEF BeginPlan
<1>2. CASE BeginSnapshot
  BY <1>0, <1>2, CountBegin DEF BeginSnapshot
<1>3. CASE \/ ReadCash \/ ReadPositions \/ PlanRefused \/ Plan \/ SaveSnapshot \/ Abort \/ NextDay
           \/ UNCHANGED vars \/ \E o \in Orders : Finalize(o) \/ CloseOrder(o)
  <2>1. UNCHANGED <<cash, pos, booked, fills>>
    BY <1>3 DEF ReadCash, ReadPositions, PlanRefused, Plan, SaveSnapshot, Abort, NextDay, vars,
                Finalize, CloseOrder, ledgerVars, brokerVars
  <2> QED
    BY <2>1, CountFrame
<1>4. ASSUME NEW o \in Orders, Fill(o) PROVE CountInv'
  BY <1>0, <1>4, CountFill
<1>5. ASSUME NEW o \in Orders, NEW k \in DOMAIN fills[o], Book(o, k) PROVE CountInv'
  BY <1>5, CountBook
<1> QED
  BY <1>1, <1>2, <1>3, <1>4, <1>5 DEF Next

\* The layers, over every behaviour.
LEMMA LedgerAlways == Spec => []LedgerInv
<1>1. Init => LedgerInv
  BY InitInv
<1>2. LedgerInv /\ [Next]_vars => LedgerInv'
  BY StepInv
<1> QED
  BY <1>1, <1>2, PTL DEF Spec

\* What the engine may rely on always holds.
LEMMA FlowAlways == Spec => []FlowInv
<1>1. Init => FlowInv
  BY FlowInit
<1>2. LedgerInv /\ FlowInv /\ [Next]_vars => FlowInv'
  BY FlowStep DEF LedgerInv
<1> QED
  BY <1>1, <1>2, LedgerAlways, PTL DEF Spec

\* Cash and lots are always the sums of the trades booked.
LEMMA CountAlways == Spec => []CountInv
<1>1. Init => CountInv
  BY CountInit
<1>2. LedgerInv /\ LedgerInv' /\ FlowInv /\ CountInv /\ [Next]_vars => CountInv'
  BY CountStep DEF FlowInv
<1> QED
  BY <1>1, <1>2, LedgerAlways, FlowAlways, PTL DEF Spec

\* Cash and lots are the sums of the trades booked, each once, for any orders,
\* prices and days, in whatever order and however often they were met.
THEOREM LedgerCounts == Spec => []LedgerIsTheTrades
<1>1. LedgerInv /\ FlowInv /\ CountInv => LedgerIsTheTrades
  <2> SUFFICES ASSUME LedgerInv, FlowInv, CountInv PROVE LedgerIsTheTrades
    OBVIOUS
  <2>1. TypeOK /\ OrdersInv
    BY DEF LedgerInv, FlowInv
  <2>2. TradesOf(booked) \subseteq AllTrades /\ IsFiniteSet(TradesOf(booked))
    BY <2>1, TradesFinite, FillsFinite
  <2>3. CashBy(TradesOf(booked)) = Total(CashFlow, TradesOf(booked))
    BY <2>2, CashByTotal
  <2>4. \A s : LotsBy(TradesOf(booked), s) = Total(LotFlow, TradesIn(TradesOf(booked), s))
    BY <2>2, LotsByTotal
  <2> QED
    BY <2>3, <2>4 DEF CountInv, LedgerIsTheTrades
<1> QED
  BY <1>1, LedgerAlways, FlowAlways, CountAlways, PTL

-----------------------------------------------------------------------------
(* What the broker may still sell is in the ledger. *)

\* Lots of an order that the ledger may still have to book.
Outstanding == [o \in Orders |-> IF intent[o].state = "live" THEN Remaining(o) ELSE 0]
Unbooked    == [o \in Orders |-> Len(fills[o]) - Cardinality(booked[o])]
SellsOf(s)  == {o \in Orders : SideOf(o) = "SELL" /\ SymbolOf(o) = s}

\* They are sellable.
ReserveInv ==
  \A s \in Symbols : Total(Outstanding, SellsOf(s)) <= Settled(pos[s], day).available

\* The reservations are a sum of these.
LEMMA ReservedByTotal ==
  ASSUME NEW s
  PROVE  ReservedLots(s) = Total(Outstanding, {o \in Live("SELL") : SymbolOf(o) = s})
<1>0. PICK R : R = {o \in Live("SELL") : SymbolOf(o) = s}
  OBVIOUS
<1>a. R \subseteq Orders /\ IsFiniteSet(R) /\ \A o \in R : intent[o].state = "live"
  BY <1>0, OrderAssumption, FS_Subset DEF Live
<1>1. PICK g : IsFold(g, Outstanding, SUBSET R)
  BY <1>a, FoldExists
<1>2. \A u \in SUBSET R : u # {} => Outstanding[CHOOSE x \in u : TRUE] = Remaining(CHOOSE x \in u : TRUE)
  BY <1>a DEF Outstanding
<1>3. g = [u \in SUBSET R |-> IF u = {} THEN 0
             ELSE Remaining(CHOOSE x \in u : TRUE) + g[u \ {CHOOSE x \in u : TRUE}]]
  BY <1>1, <1>2 DEF IsFold, Pick
<1> DEFINE h == CHOOSE h : h = [u \in SUBSET R |-> IF u = {} THEN 0
             ELSE Remaining(CHOOSE x \in u : TRUE) + h[u \ {CHOOSE x \in u : TRUE}]]
<1>4. h = [u \in SUBSET R |-> IF u = {} THEN 0
             ELSE Remaining(CHOOSE x \in u : TRUE) + h[u \ {CHOOSE x \in u : TRUE}]]
  BY <1>3
<1>5. ReservedLots(s) = h[R]
  BY <1>0 DEF ReservedLots, SumOver, FoldSet, MapThenFoldSet
<1> HIDE DEF h
<1>6. IsFold(h, Outstanding, SUBSET R)
  BY <1>2, <1>4 DEF IsFold, Pick
<1>7. PICK f : IsFold(f, Outstanding, SUBSET R) /\ Total(Outstanding, R) = f[R]
  BY <1>a, TotalIsFold
<1>8. h[R] = f[R]
  BY <1>a, <1>6, <1>7, FoldsAgree
<1> QED
  BY <1>0, <1>5, <1>7, <1>8

\* So is what the broker sold and the ledger does not know.
LEMMA UnbookedByTotal ==
  ASSUME NEW R, R \subseteq Orders
  PROVE  SumOver(R, LAMBDA o : Len(fills[o]) - Cardinality(booked[o])) = Total(Unbooked, R)
<1>a. IsFiniteSet(R)
  BY OrderAssumption, FS_Subset
<1>1. PICK g : IsFold(g, Unbooked, SUBSET R)
  BY <1>a, FoldExists
<1> DEFINE left(o) == Len(fills[o]) - Cardinality(booked[o])
<1>2. \A u \in SUBSET R : u # {} => Unbooked[CHOOSE x \in u : TRUE] = left(CHOOSE x \in u : TRUE)
  BY DEF Unbooked
<1>3. g = [u \in SUBSET R |-> IF u = {} THEN 0
             ELSE left(CHOOSE x \in u : TRUE) + g[u \ {CHOOSE x \in u : TRUE}]]
  <2>1. \A u \in SUBSET R : (IF u = {} THEN 0 ELSE left(CHOOSE x \in u : TRUE) + g[u \ {CHOOSE x \in u : TRUE}])
                            = (IF u = {} THEN 0 ELSE Unbooked[Pick(u)] + g[u \ {Pick(u)}])
    BY <1>2 DEF Pick
  <2> HIDE DEF left
  <2> QED
    BY <1>1, <2>1 DEF IsFold
<1> DEFINE h == CHOOSE h : h = [u \in SUBSET R |-> IF u = {} THEN 0
             ELSE left(CHOOSE x \in u : TRUE) + h[u \ {CHOOSE x \in u : TRUE}]]
<1>4. h = [u \in SUBSET R |-> IF u = {} THEN 0
             ELSE left(CHOOSE x \in u : TRUE) + h[u \ {CHOOSE x \in u : TRUE}]]
  BY <1>3
<1>5. SumOver(R, LAMBDA o : Len(fills[o]) - Cardinality(booked[o])) = h[R]
  BY DEF SumOver, FoldSet, MapThenFoldSet
<1> HIDE DEF h
<1>6. IsFold(h, Unbooked, SUBSET R)
  <2>1. \A u \in SUBSET R : (IF u = {} THEN 0 ELSE left(CHOOSE x \in u : TRUE) + h[u \ {CHOOSE x \in u : TRUE}])
                            = (IF u = {} THEN 0 ELSE Unbooked[Pick(u)] + h[u \ {Pick(u)}])
    BY <1>2 DEF Pick
  <2> HIDE DEF left
  <2> QED
    BY <1>4, <2>1 DEF IsFold
<1>7. PICK f : IsFold(f, Unbooked, SUBSET R) /\ Total(Unbooked, R) = f[R]
  BY <1>a, TotalIsFold
<1>8. h[R] = f[R]
  BY <1>a, <1>6, <1>7, FoldsAgree
<1> QED
  BY <1>5, <1>7, <1>8

\* Nothing outstanding is negative, and what is unbooked is outstanding.
LEMMA OutstandingNat ==
  ASSUME TypeOK, OrdersInv
  PROVE  \A o \in Orders : /\ Outstanding[o] \in Nat /\ Unbooked[o] \in Nat
                           /\ Unbooked[o] <= Outstanding[o]
                           /\ Cardinality(booked[o]) \in Nat /\ intent[o].lots \in Nat
                           /\ intent[o].state = "absent" => booked[o] = {} /\ Outstanding[o] = 0
<1> TAKE o \in Orders
<1>1. /\ Cardinality(booked[o]) \in Nat /\ Cardinality(booked[o]) <= Len(fills[o]) /\ Len(fills[o]) \in Nat
      /\ Cardinality(DOMAIN fills[o]) = Len(fills[o])
  BY FillsFinite
<1>2. intent[o].lots \in Nat /\ intent[o].state \in {"absent", "live", "final"}
  BY DEF TypeOK, Intents
<1>3. Len(fills[o]) <= intent[o].lots
  BY DEF OrdersInv
<1>4. /\ Outstanding[o] = IF intent[o].state = "live" THEN intent[o].lots - Cardinality(booked[o]) ELSE 0
      /\ Unbooked[o] = Len(fills[o]) - Cardinality(booked[o])
  BY DEF Outstanding, Unbooked, Remaining
<1>5. CASE intent[o].state = "live"
  BY <1>1, <1>2, <1>3, <1>4, <1>5
<1>6. CASE intent[o].state = "final"
  <2>1. booked[o] = DOMAIN fills[o]
    BY <1>6 DEF OrdersInv
  <2> QED
    BY <1>1, <1>2, <1>4, <1>6, <2>1
<1>7. CASE intent[o].state = "absent"
  <2>1. fills[o] = <<>> /\ booked[o] \subseteq DOMAIN fills[o]
    BY <1>7 DEF OrdersInv
  <2>2. booked[o] = {} /\ Len(fills[o]) = 0
    BY <2>1
  <2>3. Cardinality(booked[o]) = 0
    BY <2>2, FS_EmptySet
  <2> QED
    BY <1>1, <1>2, <1>4, <1>7, <2>2, <2>3
<1> QED
  BY <1>2, <1>5, <1>6, <1>7

\* The sells of a symbol are finitely many.
LEMMA SellsFinite ==
  \A s : SellsOf(s) \subseteq Orders /\ IsFiniteSet(SellsOf(s))
  BY OrderAssumption, FS_Subset DEF SellsOf

\* Whoever settles, and whenever, the lots sellable today are the same; tomorrow
\* they are no fewer.
LEMMA SettledTwice ==
  ASSUME NEW p \in Positions, NEW d \in Nat, p.total = p.available + p.today
  PROVE  /\ Settled(Settled(p, d), d) = Settled(p, d)
         /\ p.available <= Settled(p, d).available
         /\ Settled(p, d).available <= Settled(p, d + 1).available
         /\ Settled(p, d).available <= p.total /\ Settled(p, d).settled >= d
         /\ Settled(p, d).total = Settled(p, d).available + Settled(p, d).today
<1>1. /\ p.settled \in Nat /\ p.available \in Nat /\ p.total \in Nat /\ p.today \in Nat
      /\ p.available <= p.total
  BY DEF Positions
<1>2. Settled(p, d) \in Positions /\ Settled(p, d).total = p.total
      /\ Settled(p, d).available = (IF p.settled >= d THEN p.available ELSE p.total)
      /\ Settled(p, d).today = (IF p.settled >= d THEN p.today ELSE 0)
      /\ Settled(p, d).settled = IF p.settled >= d THEN p.settled ELSE d
  BY SettledFields
<1>3. Settled(p, d + 1).available = IF p.settled >= d + 1 THEN p.available ELSE p.total
  BY SettledFields
<1>4. Settled(p, d).settled >= d
  BY <1>1, <1>2
<1>5. Settled(Settled(p, d), d) = Settled(p, d)
  BY <1>4 DEF Settled
<1>6. CASE p.settled >= d
  BY <1>1, <1>2, <1>3, <1>4, <1>5, <1>6
<1>7. CASE ~(p.settled >= d)
  BY <1>1, <1>2, <1>3, <1>4, <1>5, <1>7
<1> QED
  BY <1>6, <1>7

\* At first nothing is outstanding.
LEMMA ReserveInit == Init /\ TypeOK /\ OrdersInv => ReserveInv
<1> SUFFICES ASSUME Init, TypeOK, OrdersInv, NEW s \in Symbols
             PROVE  Total(Outstanding, SellsOf(s)) <= Settled(pos[s], day).available
  BY DEF ReserveInv
<1>1. \A o \in SellsOf(s) : Outstanding[o] = 0
  BY OutstandingNat, SellsFinite DEF Init, NoIntent
<1>2. Total(Outstanding, SellsOf(s)) = 0
  BY <1>1, SellsFinite, TotalZero
<1>3. pos[s] \in Positions /\ day \in Nat
  BY DayAssumption DEF TypeOK, Days
<1>4. Settled(pos[s], day) \in Positions
  BY <1>3, SettledFields
<1> QED
  BY <1>2, <1>4 DEF Positions

\* Nothing more is outstanding, and no less sellable.
LEMMA ReserveFrame ==
  ASSUME TypeOK, OrdersInv, ReserveInv, TypeOK', NEW s \in Symbols,
         \A o \in SellsOf(s) : Outstanding'[o] \in Int /\ Outstanding'[o] <= Outstanding[o],
         Settled(pos[s], day).available <= Settled(pos'[s], day').available
  PROVE  Total(Outstanding', SellsOf(s)) <= Settled(pos'[s], day').available
<1>1. \A o \in SellsOf(s) : Outstanding[o] \in Int
  BY OutstandingNat, SellsFinite
<1>2. \A o \in SellsOf(s) : Outstanding'[o] \in Int
  OBVIOUS
<1>3. Total(Outstanding', SellsOf(s)) <= Total(Outstanding, SellsOf(s))
  BY <1>1, <1>2, SellsFinite, TotalMonotone
<1>4. Total(Outstanding', SellsOf(s)) \in Int /\ Total(Outstanding, SellsOf(s)) \in Int
  BY <1>1, <1>2, SellsFinite, TotalInt
<1>5. Total(Outstanding, SellsOf(s)) <= Settled(pos[s], day).available
  BY DEF ReserveInv
<1>6. Settled(pos[s], day).available \in Int /\ Settled(pos'[s], day').available \in Int
  <2>1. pos[s] \in Positions /\ day \in Nat
    BY DayAssumption DEF TypeOK, Days
  <2>2. pos'[s] \in Positions /\ day' \in Nat
    BY DayAssumption DEF TypeOK, Days
  <2>3. Settled(pos[s], day) \in Positions /\ Settled(pos'[s], day') \in Positions
    BY <2>1, <2>2, SettledFields
  <2> QED
    BY <2>3 DEF Positions
<1> QED
  BY <1>3, <1>4, <1>5, <1>6

\* Intents, bookings and positions as they were.
LEMMA ReserveSame ==
  ASSUME LedgerInv, OrdersInv, ReserveInv, LedgerInv',
         UNCHANGED <<intent, booked, pos>>, day' \in {day, day + 1}
  PROVE  ReserveInv'
<1> USE DEF LedgerInv
<1> SUFFICES ASSUME NEW s \in Symbols
             PROVE  Total(Outstanding', SellsOf(s)) <= Settled(pos'[s], day').available
  BY DEF ReserveInv
<1>1. \A o \in SellsOf(s) : Outstanding'[o] = Outstanding[o] /\ Outstanding[o] \in Nat
  BY OutstandingNat, SellsFinite DEF Outstanding, Remaining
<1>2. pos[s] \in Positions /\ day \in Nat /\ pos[s].total = pos[s].available + pos[s].today
  BY DayAssumption DEF TypeOK, Days, BucketsPartition
<1>3. Settled(pos[s], day) \in Positions
  BY <1>2, SettledFields
<1>4. Settled(pos[s], day).available <= Settled(pos[s], day').available
  <2>1. CASE day' = day
    BY <1>3, <2>1 DEF Positions
  <2>2. CASE day' = day + 1
    BY <1>2, <2>2, SettledTwice
  <2> QED
    BY <2>1, <2>2
<1>5. \A o \in SellsOf(s) : Outstanding'[o] \in Int /\ Outstanding'[o] <= Outstanding[o]
  BY <1>1
<1> QED
  BY <1>4, <1>5, ReserveFrame

\* Settling today changes nothing that is sellable today.
LEMMA ReserveBegin ==
  ASSUME LedgerInv, OrdersInv, ReserveInv, LedgerInv', NEW name, Begin(name)
  PROVE  ReserveInv'
<1> USE DEF LedgerInv
<1> SUFFICES ASSUME NEW s \in Symbols
             PROVE  Total(Outstanding', SellsOf(s)) <= Settled(pos'[s], day').available
  BY DEF ReserveInv
<1>0. UNCHANGED <<day, intent, booked>>
  BY DEF Begin
<1>1. \A o \in SellsOf(s) : Outstanding'[o] \in Int /\ Outstanding'[o] <= Outstanding[o]
  <2>1. \A o \in SellsOf(s) : Outstanding'[o] = Outstanding[o] /\ Outstanding[o] \in Nat
    BY <1>0, OutstandingNat, SellsFinite DEF Outstanding, Remaining
  <2> QED
    BY <2>1
<1>2. pos[s] \in Positions /\ day \in Nat /\ pos[s].total = pos[s].available + pos[s].today
  BY DayAssumption DEF TypeOK, Days, BucketsPartition
<1>3. pos'[s] = pos[s] \/ pos'[s] = Settled(pos[s], day)
  BY DEF Begin
<1>4. Settled(pos'[s], day).available = Settled(pos[s], day).available
  BY <1>2, <1>3, SettledTwice
<1>5. Settled(pos[s], day) \in Positions
  BY <1>2, SettledFields
<1>6. Settled(pos[s], day).available <= Settled(pos'[s], day').available
  BY <1>0, <1>4, <1>5 DEF Positions
<1> QED
  BY <1>1, <1>6, ReserveFrame

\* An outcome recorded leaves nothing outstanding of its order.
LEMMA ReserveFinalize ==
  ASSUME LedgerInv, OrdersInv, ReserveInv, LedgerInv', NEW q \in Orders, Finalize(q)
  PROVE  ReserveInv'
<1> USE DEF LedgerInv
<1> SUFFICES ASSUME NEW s \in Symbols
             PROVE  Total(Outstanding', SellsOf(s)) <= Settled(pos'[s], day').available
  BY DEF ReserveInv
<1>0. UNCHANGED <<day, booked, pos>> /\ intent' = [intent EXCEPT ![q].state = "final"]
  BY DEF Finalize, ledgerVars
<1>1. ASSUME NEW o \in SellsOf(s) PROVE Outstanding'[o] \in Int /\ Outstanding'[o] <= Outstanding[o]
  <2>1. o \in Orders /\ Outstanding[o] \in Nat
    BY OutstandingNat, SellsFinite
  <2>2. CASE o = q
    <3>1. intent'[o].state = "final"
      BY <1>0, <2>1, <2>2 DEF TypeOK, Intents
    <3>2. Outstanding'[o] = 0
      BY <2>1, <3>1 DEF Outstanding
    <3> QED
      BY <2>1, <3>2
  <2>3. CASE o # q
    <3>1. intent'[o] = intent[o]
      BY <1>0, <2>1, <2>3 DEF TypeOK
    <3>2. Outstanding'[o] = Outstanding[o]
      <4>1. Remaining(o)' = Remaining(o)
        BY <1>0, <3>1 DEF Remaining
      <4> QED
        BY <2>1, <3>1, <4>1 DEF Outstanding
    <3> QED
      BY <2>1, <3>2
  <2> QED
    BY <2>2, <2>3
<1>2. pos[s] \in Positions /\ day \in Nat
  BY DayAssumption DEF TypeOK, Days
<1>3. Settled(pos[s], day) \in Positions
  BY <1>2, SettledFields
<1>4. Settled(pos[s], day).available <= Settled(pos'[s], day').available
  BY <1>0, <1>3 DEF Positions
<1> QED
  BY <1>1, <1>4, ReserveFrame

\* A trade booked is one no longer outstanding.
LEMMA OutstandingBook ==
  ASSUME TypeOK, OrdersInv, NEW o \in Orders, NEW k \in DOMAIN fills[o], New(o, k),
         booked' = [booked EXCEPT ![o] = @ \cup {k}], UNCHANGED intent
  PROVE  /\ \A q \in Orders : q # o => Outstanding'[q] = Outstanding[q]
         /\ Outstanding'[o] = Outstanding[o] - 1
<1>1. /\ IsFiniteSet(booked[o]) /\ Cardinality(booked[o]) \in Nat /\ k \notin booked[o]
      /\ booked'[o] = booked[o] \cup {k}
  BY FillsFinite DEF New, TypeOK
<1>2. Cardinality(booked'[o]) = Cardinality(booked[o]) + 1
  BY <1>1, FS_AddElement
<1>3. intent[o].state = "live"
  <2>1. fills[o] # <<>> /\ booked[o] # DOMAIN fills[o]
    BY <1>1
  <2>2. intent[o].state # "absent" /\ intent[o].state # "final"
    BY <2>1 DEF OrdersInv
  <2> QED
    BY <2>2 DEF TypeOK, Intents
<1>4. intent[o].lots \in Nat
  BY DEF TypeOK, Intents
<1>5. Remaining(o)' = Remaining(o) - 1
  BY <1>1, <1>2, <1>4 DEF Remaining
<1>6. Outstanding'[o] = Remaining(o)' /\ Outstanding[o] = Remaining(o)
  BY <1>3 DEF Outstanding
<1>7. ASSUME NEW q \in Orders, q # o PROVE Outstanding'[q] = Outstanding[q]
  <2>1. booked'[q] = booked[q]
    BY <1>7 DEF TypeOK
  <2>2. Remaining(q)' = Remaining(q)
    BY <2>1 DEF Remaining
  <2> QED
    BY <2>2 DEF Outstanding
<1> QED
  BY <1>5, <1>6, <1>7

\* A sale booked takes one lot from both sides; a purchase takes none.
LEMMA ReserveBook ==
  ASSUME LedgerInv, OrdersInv, ReserveInv, LedgerInv',
         NEW o \in Orders, NEW k \in DOMAIN fills[o], Book(o, k)
  PROVE  ReserveInv'
<1> USE DEF LedgerInv
<1>0. UNCHANGED <<day, intent>> /\ day \in Nat /\ SymbolOf(o) \in Symbols /\ SideOf(o) \in Sides
  BY OrderAssumption, DayAssumption DEF Book, TypeOK, Days, SymbolOf, SideOf
<1>1. CASE ~New(o, k)
  <2>1. UNCHANGED <<pos, booked>>
    BY <1>1 DEF Book, ledgerVars
  <2> QED
    BY <1>0, <2>1, ReserveSame
<1>2. CASE New(o, k)
  <2>0. PICK p : p = Settled(pos[SymbolOf(o)], day)
    OBVIOUS
  <2>1. /\ booked' = [booked EXCEPT ![o] = @ \cup {k}]
        /\ pos' = [pos EXCEPT ![SymbolOf(o)] = IF SideOf(o) = "BUY" THEN Bought(p, RuleOf[SymbolOf(o)])
                                               ELSE Sold(p)]
        /\ Bookable(o)
    BY <1>2, <2>0 DEF Book
  <2>2. \A q \in Orders : q # o => Outstanding'[q] = Outstanding[q]
    BY <1>0, <1>2, <2>1, OutstandingBook
  <2>3. Outstanding'[o] = Outstanding[o] - 1
    BY <1>0, <1>2, <2>1, OutstandingBook
  <2>4. \A q \in Orders : Outstanding[q] \in Nat
    BY OutstandingNat
  <2> SUFFICES ASSUME NEW s \in Symbols
               PROVE  Total(Outstanding', SellsOf(s)) <= Settled(pos'[s], day').available
    BY DEF ReserveInv
  <2>5. pos[s] \in Positions /\ pos[s].total = pos[s].available + pos[s].today
    BY DEF TypeOK, BucketsPartition
  <2>6. Settled(pos[s], day) \in Positions
    BY <1>0, <2>5, SettledFields
  <2>7. CASE SymbolOf(o) # s
    <3>1. \A q \in SellsOf(s) : Outstanding'[q] \in Int /\ Outstanding'[q] <= Outstanding[q]
      <4>1. \A q \in SellsOf(s) : q # o /\ q \in Orders
        BY <2>7 DEF SellsOf
      <4>2. \A q \in SellsOf(s) : Outstanding'[q] = Outstanding[q] /\ Outstanding[q] \in Nat
        BY <2>2, <2>4, <4>1
      <4> QED
        BY <4>2
    <3>2. pos'[s] = pos[s]
      BY <2>1, <2>7 DEF TypeOK
    <3>3. Settled(pos[s], day).available <= Settled(pos'[s], day').available
      BY <1>0, <2>6, <3>2 DEF Positions
    <3> QED
      BY <3>1, <3>3, ReserveFrame
  <2>8. CASE SymbolOf(o) = s
    <3>1. p \in Positions /\ p.settled >= day /\ p.total = p.available + p.today
          /\ p = Settled(pos[s], day) /\ p.total \in Nat /\ p.available \in Nat /\ p.today \in Nat
      <4>1. p = Settled(pos[s], day) /\ p \in Positions
        BY <2>0, <2>6, <2>8
      <4>2. p.settled >= day /\ p.total = p.available + p.today
        BY <1>0, <2>5, <4>1, SettledTwice
      <4> QED
        BY <4>1, <4>2 DEF Positions
    <3>2. pos'[s] = IF SideOf(o) = "BUY" THEN Bought(p, RuleOf[s]) ELSE Sold(p)
      BY <2>1, <2>8 DEF TypeOK
    <3>3. CASE SideOf(o) = "BUY"
      <4>1. \A q \in SellsOf(s) : Outstanding'[q] \in Int /\ Outstanding'[q] <= Outstanding[q]
        <5>1. \A q \in SellsOf(s) : q # o /\ q \in Orders
          BY <3>3 DEF SellsOf
        <5>2. \A q \in SellsOf(s) : Outstanding'[q] = Outstanding[q] /\ Outstanding[q] \in Nat
          BY <2>2, <2>4, <5>1
        <5> QED
          BY <5>2
      <4>2. pos'[s].settled = p.settled /\ pos'[s].available >= p.available
        BY <3>1, <3>2, <3>3 DEF Bought, Positions
      <4>3. Settled(pos'[s], day) = pos'[s]
        BY <3>1, <4>2 DEF Settled
      <4>4. Settled(pos[s], day).available <= Settled(pos'[s], day').available
        BY <1>0, <3>1, <4>2, <4>3
      <4> QED
        BY <4>1, <4>4, ReserveFrame
    <3>4. CASE SideOf(o) # "BUY"
      <4>1. o \in SellsOf(s)
        BY <1>0, <2>8, <3>4 DEF SellsOf, Sides
      <4>2. PICK rest : rest = SellsOf(s) \ {o}
        OBVIOUS
      <4>3. rest \subseteq Orders /\ IsFiniteSet(rest) /\ o \notin rest /\ SellsOf(s) \subseteq Orders
            /\ IsFiniteSet(SellsOf(s)) /\ rest \subseteq SellsOf(s)
        BY <4>2, SellsFinite, FS_Subset
      <4>4. \A q \in SellsOf(s) : Outstanding[q] \in Int /\ Outstanding'[q] \in Int
        <5>1. \A q \in Orders : Outstanding'[q] \in Int
          BY <2>2, <2>3, <2>4
        <5> QED
          BY <2>4, <4>3, <5>1
      <4>5. Total(Outstanding, SellsOf(s)) = Outstanding[o] + Total(Outstanding, rest)
        BY <4>1, <4>2, <4>3, <4>4, TotalWithout
      <4>6. Total(Outstanding', SellsOf(s)) = Outstanding'[o] + Total(Outstanding', rest)
        BY <4>1, <4>2, <4>3, <4>4, TotalWithout
      <4>7. Total(Outstanding', rest) = Total(Outstanding, rest)
        <5>1. \A q \in rest : Outstanding'[q] = Outstanding[q]
          BY <2>2, <4>3
        <5> QED
          BY <4>3, <5>1, TotalAgrees
      <4>8. Total(Outstanding, rest) \in Int /\ Outstanding[o] \in Nat
        BY <2>4, <4>3, <4>4, TotalInt
      <4>9. Total(Outstanding', SellsOf(s)) = Total(Outstanding, SellsOf(s)) - 1
            /\ Total(Outstanding, SellsOf(s)) \in Int
        BY <2>3, <4>5, <4>6, <4>7, <4>8
      <4>10. Total(Outstanding, SellsOf(s)) <= p.available
        BY <3>1 DEF ReserveInv
      <4>11. Settled(pos'[s], day').available = p.available - 1
        <5>1. CASE p.total = 1
          <6>1. p.available >= 1
            BY <1>0, <2>0, <2>1, <2>8, <3>4 DEF Bookable, Sides
          <6>2. p.available = 1
            BY <3>1, <5>1, <6>1
          <6>3. Settled(NoPosition, day).available = 0
            BY <1>0 DEF Settled, NoPosition
          <6>4. pos'[s] = NoPosition
            BY <3>2, <3>4, <5>1 DEF Sold
          <6> QED
            BY <1>0, <6>2, <6>3, <6>4
        <5>2. CASE p.total # 1
          <6>1. pos'[s] = Sold(p) /\ Sold(p).settled = p.settled /\ Sold(p).available = p.available - 1
            BY <3>1, <3>2, <3>4, <5>2 DEF Sold, Positions
          <6> QED
            BY <1>0, <3>1, <6>1 DEF Settled
        <5> QED
          BY <5>1, <5>2
      <4> QED
        BY <3>1, <4>9, <4>10, <4>11
    <3> QED
      BY <3>3, <3>4
  <2> QED
    BY <2>7, <2>8
<1> QED
  BY <1>1, <1>2

\* What an order is: one intent of a day, a side and a symbol.
LEMMA OneOrder ==
  ASSUME NEW o \in Orders, NEW p \in Orders,
         DayOf(o) = DayOf(p), SideOf(o) = SideOf(p), SymbolOf(o) = SymbolOf(p)
  PROVE  o = p
BY OrderAssumption DEF DayOf, SideOf, SymbolOf

\* A plan of sells takes no more than is sellable and not reserved.
LEMMA ReservePlan ==
  ASSUME LedgerInv, FlowInv, ReserveInv, LedgerInv', Plan
  PROVE  ReserveInv'
<1> USE DEF LedgerInv, FlowInv
<1>0. UNCHANGED <<day, pos, booked>> /\ pc = "act" /\ task \in Sides /\ readPos = pos /\ day \in Nat
  BY DayAssumption DEF Plan, ledgerVars, ReadInv, TypeOK, Days
<1>1. PICK chosen \in SUBSET Of(task) :
        \E plan \in [chosen -> [state : {"live"}, lots : 1 .. MaxLots, limit : Prices]] :
          /\ IF task = "BUY" THEN Affordable(plan) ELSE Sellable(plan)
          /\ intent' = [o \in Orders |-> IF o \in chosen THEN plan[o] ELSE intent[o]]
  BY DEF Plan
<1>2. PICK plan \in [chosen -> [state : {"live"}, lots : 1 .. MaxLots, limit : Prices]] :
          /\ IF task = "BUY" THEN Affordable(plan) ELSE Sellable(plan)
          /\ intent' = [o \in Orders |-> IF o \in chosen THEN plan[o] ELSE intent[o]]
  BY <1>1
<1>3. \A o \in Orders : Outstanding[o] \in Nat
  BY OutstandingNat
<1>4. ASSUME NEW o \in Orders, o \notin chosen PROVE Outstanding'[o] = Outstanding[o]
  <2>1. intent'[o] = intent[o]
    BY <1>2, <1>4
  <2>2. Remaining(o)' = Remaining(o)
    BY <1>0, <2>1 DEF Remaining
  <2> QED
    BY <2>1, <2>2 DEF Outstanding
<1>5. ASSUME NEW o \in chosen
      PROVE  /\ o \in Orders /\ DayOf(o) = day /\ SideOf(o) = task /\ Outstanding[o] = 0
             /\ plan[o].lots \in Nat /\ Outstanding'[o] = plan[o].lots
  <2>1. o \in Of(task)
    BY <1>1
  <2>2. o \in Orders /\ DayOf(o) = day /\ SideOf(o) = task
    BY <2>1 DEF Of
  <2>3. intent[o].state = "absent"
    BY <1>0, <2>1 DEF QuietInv
  <2>4. Outstanding[o] = 0 /\ booked[o] = {}
    BY <2>2, <2>3, OutstandingNat
  <2>5. plan[o].lots \in Nat /\ plan[o].state = "live"
    BY <1>2, DayAssumption
  <2>6. intent'[o] = plan[o]
    BY <1>2, <2>2
  <2>7. Remaining(o)' = plan[o].lots
    <3>1. Cardinality(booked'[o]) = 0
      BY <1>0, <2>4, FS_EmptySet
    <3> QED
      BY <2>5, <2>6, <3>1 DEF Remaining
  <2>8. Outstanding'[o] = plan[o].lots
    BY <2>2, <2>5, <2>6, <2>7 DEF Outstanding
  <2> QED
    BY <2>2, <2>4, <2>5, <2>8
<1>6. \A o \in Orders : Outstanding'[o] \in Nat
  BY <1>3, <1>4, <1>5
<1> SUFFICES ASSUME NEW s \in Symbols
             PROVE  Total(Outstanding', SellsOf(s)) <= Settled(pos'[s], day').available
  BY DEF ReserveInv
<1>7. pos[s] \in Positions /\ pos[s].total = pos[s].available + pos[s].today
      /\ pos[s].available \in Nat /\ Settled(pos[s], day) \in Positions
      /\ pos[s].available <= Settled(pos[s], day).available
  <2>1. pos[s] \in Positions /\ pos[s].total = pos[s].available + pos[s].today
    BY DEF TypeOK, BucketsPartition
  <2> QED
    BY <1>0, <2>1, SettledFields, SettledTwice DEF Positions
<1>8. CASE \A o \in chosen : o \notin SellsOf(s)
  <2>1. \A o \in SellsOf(s) : Outstanding'[o] = Outstanding[o] /\ Outstanding[o] \in Nat
    BY <1>3, <1>4, <1>8, SellsFinite
  <2>2. \A o \in SellsOf(s) : Outstanding'[o] \in Int /\ Outstanding'[o] <= Outstanding[o]
    BY <2>1
  <2>3. Settled(pos[s], day).available <= Settled(pos'[s], day').available
    BY <1>0, <1>7 DEF Positions
  <2> QED
    BY <2>2, <2>3, ReserveFrame
<1>9. ASSUME NEW o \in chosen, o \in SellsOf(s)
      PROVE  Total(Outstanding', SellsOf(s)) <= Settled(pos'[s], day').available
  <2>1. task = "SELL" /\ o \in Orders /\ DayOf(o) = day /\ SideOf(o) = "SELL" /\ SymbolOf(o) = s
    BY <1>5, <1>9 DEF SellsOf
  <2>2. plan[o].lots <= AvailableLots(s)
    BY <1>2, <2>1 DEF Sellable
  <2>3. PICK rest : rest = SellsOf(s) \ {o}
    OBVIOUS
  <2>4. /\ rest \subseteq Orders /\ IsFiniteSet(rest) /\ o \notin rest /\ SellsOf(s) \subseteq Orders
        /\ IsFiniteSet(SellsOf(s)) /\ rest \subseteq SellsOf(s)
    BY <2>3, SellsFinite, FS_Subset
  <2>5. \A q \in rest : q \notin chosen
    <3> SUFFICES ASSUME NEW q \in rest, q \in chosen PROVE FALSE
      OBVIOUS
    <3>1. q \in Orders /\ DayOf(q) = day /\ SideOf(q) = "SELL" /\ SymbolOf(q) = s
      BY <1>5, <2>1, <2>4 DEF SellsOf
    <3>2. q = o
      BY <2>1, <3>1, OneOrder
    <3> QED
      BY <2>4, <3>2
  <2>6. \A q \in SellsOf(s) : Outstanding[q] \in Int /\ Outstanding'[q] \in Int
    BY <1>3, <1>6, <2>4
  <2>7. Total(Outstanding, SellsOf(s)) = Outstanding[o] + Total(Outstanding, rest)
    BY <1>9, <2>3, <2>4, <2>6, TotalWithout
  <2>8. Total(Outstanding', SellsOf(s)) = Outstanding'[o] + Total(Outstanding', rest)
    BY <1>9, <2>3, <2>4, <2>6, TotalWithout
  <2>9. Total(Outstanding', rest) = Total(Outstanding, rest) /\ Total(Outstanding, rest) \in Int
    <3>1. \A q \in rest : Outstanding'[q] = Outstanding[q] /\ Outstanding[q] \in Int
      BY <1>3, <1>4, <2>4, <2>5
    <3>2. Total(Outstanding', rest) = Total(Outstanding, rest)
      BY <2>4, <3>1, TotalAgrees
    <3>3. Total(Outstanding, rest) \in Int
      BY <2>4, <3>1, TotalInt
    <3> QED
      BY <3>2, <3>3
  <2>10. ReservedLots(s) = Total(Outstanding, SellsOf(s))
    <3>1. PICK live : live = {q \in Live("SELL") : SymbolOf(q) = s}
      OBVIOUS
    <3>2. live \subseteq SellsOf(s)
      BY <3>1 DEF Live, SellsOf
    <3>3. \A q \in SellsOf(s) \ live : Outstanding[q] = 0
      BY <3>1 DEF Live, SellsOf, Outstanding
    <3>4. Total(Outstanding, SellsOf(s)) = Total(Outstanding, live)
      BY <2>4, <2>6, <3>2, <3>3, TotalRestricted
    <3>5. ReservedLots(s) = Total(Outstanding, live)
      BY <3>1, ReservedByTotal
    <3> QED
      BY <3>4, <3>5
  <2>11. AvailableLots(s) = pos[s].available - Total(Outstanding, rest)
    <3>1. Total(Outstanding, SellsOf(s)) = Total(Outstanding, rest)
      BY <1>5, <2>7, <2>9
    <3> QED
      BY <1>0, <2>10, <3>1 DEF AvailableLots
  <2>12. Total(Outstanding', SellsOf(s)) = plan[o].lots + Total(Outstanding, rest) /\ plan[o].lots \in Nat
    BY <1>5, <2>8, <2>9
  <2>13. Total(Outstanding', SellsOf(s)) <= pos[s].available
    BY <1>7, <2>2, <2>9, <2>11, <2>12
  <2>14. Total(Outstanding', SellsOf(s)) \in Int /\ Settled(pos[s], day).available \in Nat
    BY <1>7, <2>9, <2>12 DEF Positions
  <2> QED
    BY <1>0, <1>7, <2>13, <2>14
<1> QED
  BY <1>8, <1>9

\* Every step keeps what may still be sold sellable.
LEMMA ReserveStep == LedgerInv /\ LedgerInv' /\ FlowInv /\ ReserveInv /\ [Next]_vars => ReserveInv'
<1> SUFFICES ASSUME LedgerInv, LedgerInv', FlowInv, ReserveInv, [Next]_vars PROVE ReserveInv'
  OBVIOUS
<1>0. TypeOK /\ OrdersInv
  BY DEF LedgerInv, FlowInv
<1>1. CASE \E side \in Sides : BeginPlan(side)
  BY <1>0, <1>1, ReserveBegin DEF BeginPlan
<1>2. CASE BeginSnapshot
  BY <1>0, <1>2, ReserveBegin DEF BeginSnapshot
<1>3. CASE \/ ReadCash \/ ReadPositions \/ PlanRefused \/ SaveSnapshot \/ Abort \/ NextDay
           \/ UNCHANGED vars \/ \E o \in Orders : Fill(o) \/ CloseOrder(o)
  <2>1. UNCHANGED <<intent, booked, pos>> /\ day' \in {day, day + 1}
    BY <1>3 DEF ReadCash, ReadPositions, PlanRefused, SaveSnapshot, Abort, NextDay, vars,
                Fill, CloseOrder, ledgerVars
  <2> QED
    BY <1>0, <2>1, ReserveSame
<1>4. CASE Plan
  BY <1>4, ReservePlan
<1>5. ASSUME NEW o \in Orders, Finalize(o) PROVE ReserveInv'
  BY <1>0, <1>5, ReserveFinalize
<1>6. ASSUME NEW o \in Orders, NEW k \in DOMAIN fills[o], Book(o, k) PROVE ReserveInv'
  BY <1>0, <1>6, ReserveBook
<1> QED
  BY <1>1, <1>2, <1>3, <1>4, <1>5, <1>6 DEF Next

\* What may still be sold is always sellable.
LEMMA ReserveAlways == Spec => []ReserveInv
<1>1. Init /\ LedgerInv /\ FlowInv => ReserveInv
  BY ReserveInit DEF LedgerInv, FlowInv
<1>2. LedgerInv /\ LedgerInv' /\ FlowInv /\ ReserveInv /\ [Next]_vars => ReserveInv'
  BY ReserveStep
<1> QED
  BY <1>1, <1>2, LedgerAlways, FlowAlways, PTL DEF Spec

\* No trade of the broker can be refused by the ledger: what was sold today and
\* is not booked yet is sellable there, for any orders, prices, lots and days.
THEOREM TradesCanBeBooked == Spec => []EveryTradeBookable
<1>1. LedgerInv /\ FlowInv /\ ReserveInv => EveryTradeBookable
  <2> SUFFICES ASSUME LedgerInv, FlowInv, ReserveInv, NEW s \in Symbols
               PROVE  SumOver({o \in Of("SELL") : SymbolOf(o) = s},
                              LAMBDA o : Len(fills[o]) - Cardinality(booked[o]))
                        <= Settled(pos[s], day).available
    BY DEF EveryTradeBookable
  <2>0. TypeOK /\ OrdersInv
    BY DEF LedgerInv, FlowInv
  <2>1. PICK today : today = {o \in Of("SELL") : SymbolOf(o) = s}
    OBVIOUS
  <2>2. today \subseteq SellsOf(s) /\ today \subseteq Orders
    BY <2>1 DEF Of, SellsOf
  <2>3. IsFiniteSet(today) /\ IsFiniteSet(SellsOf(s)) /\ SellsOf(s) \subseteq Orders
    BY <2>2, SellsFinite, FS_Subset
  <2>4. \A o \in Orders : Outstanding[o] \in Nat /\ Unbooked[o] \in Nat /\ Unbooked[o] <= Outstanding[o]
    BY <2>0, OutstandingNat
  <2>5. Total(Unbooked, today) <= Total(Outstanding, today)
    <3>1. \A o \in today : Unbooked[o] \in Int /\ Outstanding[o] \in Int /\ Unbooked[o] <= Outstanding[o]
      BY <2>2, <2>4
    <3> QED
      BY <2>3, <3>1, TotalMonotone
  <2>6. Total(Outstanding, today) \in Nat /\ Total(Outstanding, today) <= Total(Outstanding, SellsOf(s))
    <3>1. \A o \in SellsOf(s) : Outstanding[o] \in Nat
      BY <2>3, <2>4
    <3> QED
      BY <2>2, <2>3, <3>1, TotalPart
  <2>7. Total(Unbooked, today) \in Int /\ Total(Outstanding, SellsOf(s)) \in Int
    <3>1. \A o \in today : Unbooked[o] \in Int
      BY <2>2, <2>4
    <3>2. \A o \in SellsOf(s) : Outstanding[o] \in Int
      BY <2>3, <2>4
    <3> QED
      BY <2>3, <3>1, <3>2, TotalInt
  <2>8. Total(Outstanding, SellsOf(s)) <= Settled(pos[s], day).available
    BY DEF ReserveInv
  <2>9. Settled(pos[s], day).available \in Nat
    <3>1. pos[s] \in Positions /\ day \in Nat
      BY <2>0, DayAssumption DEF TypeOK, Days
    <3>2. Settled(pos[s], day) \in Positions
      BY <3>1, SettledFields
    <3> QED
      BY <3>2 DEF Positions
  <2>10. Total(Unbooked, today) <= Settled(pos[s], day).available
    BY <2>5, <2>6, <2>7, <2>8, <2>9
  <2>11. SumOver(today, LAMBDA o : Len(fills[o]) - Cardinality(booked[o])) = Total(Unbooked, today)
    BY <2>2, UnbookedByTotal
  <2> QED
    BY <2>1, <2>10, <2>11
<1> QED
  BY <1>1, LedgerAlways, FlowAlways, ReserveAlways, PTL

-----------------------------------------------------------------------------
(* Snapshots. *)

\* The snapshot of a day counts the trades booked through that day.
SnapInv ==
  \A d \in Days : snapshot[d].taken =>
    LET upTo == Through(d, TradesOf(booked)) IN
    /\ snapshot[d].cash = OpeningCash + Total(CashFlow, upTo)
    /\ \A s \in Symbols : snapshot[d].lots[s] = OpeningLots[s] + Total(LotFlow, TradesIn(upTo, s))

\* Steps that save, book and fill nothing.
LEMMA SnapFrame ==
  ASSUME SnapInv, UNCHANGED <<snapshot, booked, fills>>
  PROVE  SnapInv'
<1>1. CashFlow' = CashFlow
  BY DEF CashFlow, CashOf
<1> QED
  BY <1>1 DEF SnapInv

\* A snapshot does not see a fill.
LEMMA SnapFill ==
  ASSUME TypeOK, OrdersInv, SnapInv, NEW o \in Orders, Fill(o)
  PROVE  SnapInv'
<1>1. UNCHANGED <<snapshot, booked>>
  BY DEF Fill, ledgerVars
<1>2. ASSUME NEW d \in Days
      PROVE  Total(CashFlow', Through(d, TradesOf(booked))) = Total(CashFlow, Through(d, TradesOf(booked)))
  <2>1. IsFiniteSet(Through(d, TradesOf(booked))) /\ Through(d, TradesOf(booked)) \subseteq TradesOf(booked)
    BY ThroughFinite
  <2> QED
    BY <2>1, FillKeepsCash, TotalAgrees
<1> QED
  BY <1>1, <1>2 DEF SnapInv

\* A trade is booked on its own day, whose snapshot is not taken yet.
LEMMA SnapBook ==
  ASSUME TypeOK, FlowInv, SnapInv, NEW o \in Orders, NEW k \in DOMAIN fills[o], Book(o, k)
  PROVE  SnapInv'
<1> USE DEF FlowInv
<1>0. UNCHANGED <<day, snapshot, fills>> /\ DayOf(o) = day /\ day \in Int
  BY DayAssumption DEF Book, brokerVars, TypeOK, Days
<1>1. CASE ~New(o, k)
  BY <1>0, <1>1, SnapFrame DEF Book, ledgerVars
<1>2. CASE New(o, k)
  <2>1. TradesOf(booked') = TradesOf(booked) \cup {<<o, k>>}
    BY <1>2, NewTrade DEF Book
  <2>2. CashFlow' = CashFlow
    BY <1>0 DEF CashFlow, CashOf
  <2>3. ASSUME NEW d \in Days, snapshot[d].taken
        PROVE  Through(d, TradesOf(booked')) = Through(d, TradesOf(booked))
    <3>1. ~Done(o)
      BY <1>2, DoneBooked
    <3>2. d # day /\ d <= day
      BY <1>0, <2>3, <3>1 DEF ClosedInv
    <3>3. ~(DayOf(o) <= d)
      BY <1>0, <3>2 DEF Days
    <3>4. PICK u : u = <<o, k>>
      OBVIOUS
    <3>5. ~(DayOf(u[1]) <= d)
      BY <3>3, <3>4
    <3>6. Through(d, TradesOf(booked) \cup {u}) = Through(d, TradesOf(booked))
      BY <3>5 DEF Through
    <3> QED
      BY <2>1, <3>4, <3>6
  <2> QED
    BY <1>0, <2>2, <2>3 DEF SnapInv
<1> QED
  BY <1>1, <1>2

\* What the engine saves is the ledger of the moment it read the cash.
LEMMA SnapSave ==
  ASSUME LedgerInv, FlowInv, CountInv, SnapInv, SaveSnapshot
  PROVE  SnapInv'
<1> USE DEF LedgerInv, FlowInv
<1>0. /\ UNCHANGED <<day, booked, fills>> /\ readCash = cash /\ readPos = pos /\ day \in Days /\ day \in Int
      /\ snapshot' = [snapshot EXCEPT ![day] = [taken |-> TRUE, cash |-> readCash,
                                                lots |-> [s \in Symbols |-> readPos[s].total]]]
  BY DayAssumption DEF SaveSnapshot, ReadInv, ledgerVars, brokerVars, TypeOK, Days
<1>1. CashFlow' = CashFlow
  BY <1>0 DEF CashFlow, CashOf
<1>2. Through(day, TradesOf(booked)) = TradesOf(booked)
  <2>1. ASSUME NEW t \in TradesOf(booked) PROVE DayOf(t[1]) <= day
    <3>1. t[1] \in Orders /\ t[2] \in DOMAIN fills[t[1]]
      BY ThroughFinite
    <3>2. fills[t[1]] # <<>>
      BY <3>1
    <3>3. ~(DayOf(t[1]) > day)
      BY <3>1, <3>2 DEF OrdersInv
    <3>4. DayOf(t[1]) \in Int
      BY <3>1, OrderAssumption DEF DayOf, Days
    <3> QED
      BY <1>0, <3>3, <3>4
  <2> QED
    BY <2>1 DEF Through
<1> SUFFICES ASSUME NEW d \in Days, snapshot'[d].taken
             PROVE  /\ snapshot'[d].cash = OpeningCash + Total(CashFlow, Through(d, TradesOf(booked)))
                    /\ \A s \in Symbols : snapshot'[d].lots[s]
                         = OpeningLots[s] + Total(LotFlow, TradesIn(Through(d, TradesOf(booked)), s))
  BY <1>0, <1>1 DEF SnapInv
<1>3. CASE d = day
  <2>1. snapshot'[d] = [taken |-> TRUE, cash |-> cash, lots |-> [s \in Symbols |-> pos[s].total]]
    BY <1>0, <1>3 DEF TypeOK
  <2>2. snapshot'[d].cash = cash /\ \A s \in Symbols : snapshot'[d].lots[s] = pos[s].total
    BY <2>1
  <2> QED
    BY <1>2, <1>3, <2>2 DEF CountInv
<1>4. CASE d # day
  <2>1. snapshot'[d] = snapshot[d]
    BY <1>0, <1>4 DEF TypeOK
  <2> QED
    BY <2>1 DEF SnapInv
<1> QED
  BY <1>3, <1>4

\* Every step keeps the snapshots taken.
LEMMA SnapStep == LedgerInv /\ FlowInv /\ CountInv /\ SnapInv /\ [Next]_vars => SnapInv'
<1> SUFFICES ASSUME LedgerInv, FlowInv, CountInv, SnapInv, [Next]_vars PROVE SnapInv'
  OBVIOUS
<1>0. TypeOK /\ OrdersInv
  BY DEF LedgerInv, FlowInv
<1>1. CASE \/ \E side \in Sides : BeginPlan(side)
           \/ BeginSnapshot \/ ReadCash \/ ReadPositions \/ PlanRefused \/ Plan \/ Abort \/ NextDay
           \/ UNCHANGED vars \/ \E o \in Orders : Finalize(o) \/ CloseOrder(o)
  <2>1. UNCHANGED <<snapshot, booked, fills>>
    BY <1>1 DEF BeginPlan, BeginSnapshot, Begin, ReadCash, ReadPositions, PlanRefused, Plan, Abort,
                NextDay, vars, Finalize, CloseOrder, ledgerVars, brokerVars
  <2> QED
    BY <2>1, SnapFrame
<1>2. CASE SaveSnapshot
  BY <1>2, SnapSave
<1>3. ASSUME NEW o \in Orders, Fill(o) PROVE SnapInv'
  BY <1>0, <1>3, SnapFill
<1>4. ASSUME NEW o \in Orders, NEW k \in DOMAIN fills[o], Book(o, k) PROVE SnapInv'
  BY <1>0, <1>4, SnapBook
<1> QED
  BY <1>1, <1>2, <1>3, <1>4 DEF Next

\* The snapshots always count the trades of their days.
LEMMA SnapAlways == Spec => []SnapInv
<1>1. Init => SnapInv
  BY DEF Init, SnapInv, NoSnapshot
<1>2. LedgerInv /\ FlowInv /\ CountInv /\ SnapInv /\ [Next]_vars => SnapInv'
  BY SnapStep
<1> QED
  BY <1>1, <1>2, LedgerAlways, FlowAlways, CountAlways, PTL DEF Spec

\* A snapshot is the ledger of one moment, with every trade of its day in it,
\* whatever the callback thread booked between the engine's two reads.
THEOREM SnapshotsAreConsistent == Spec => []SnapshotIsConsistent
<1>1. LedgerInv /\ FlowInv /\ SnapInv => SnapshotIsConsistent
  <2> SUFFICES ASSUME LedgerInv, FlowInv, SnapInv, NEW d \in Days, snapshot[d].taken,
                      NEW upTo, upTo = Through(d, TradesOf(booked))
               PROVE  /\ {t \in Made : DayOf(t[1]) = d} \subseteq upTo
                      /\ snapshot[d].cash = OpeningCash + CashBy(upTo)
                      /\ snapshot[d].lots = [s \in Symbols |-> OpeningLots[s] + LotsBy(upTo, s)]
    BY DEF SnapshotIsConsistent
  <2>0. TypeOK /\ OrdersInv /\ ClosedInv /\ d \in Int
    BY DayAssumption DEF LedgerInv, FlowInv, Days
  <2>1. upTo \subseteq AllTrades /\ IsFiniteSet(upTo)
    BY <2>0, ThroughFinite
  <2>2. ASSUME NEW t \in Made, DayOf(t[1]) = d PROVE t \in upTo
    <3>1. PICK o \in Orders : \E k \in DOMAIN fills[o] : t = <<o, k>>
      BY DEF Made, TradesOf
    <3>2. PICK k \in DOMAIN fills[o] : t = <<o, k>>
      BY <3>1
    <3>3. DayOf(o) = d /\ Done(o)
      BY <2>0, <2>2, <3>2 DEF ClosedInv
    <3>4. k \in booked[o]
      BY <2>0, <3>3, DoneBooked
    <3>5. t \in TradesOf(booked)
      BY <3>2, <3>4 DEF TradesOf
    <3> QED
      BY <2>0, <2>2, <3>5 DEF Through
  <2>3. snapshot[d].cash = OpeningCash + CashBy(upTo)
    <3>1. CashBy(upTo) = Total(CashFlow, upTo)
      BY <2>1, CashByTotal
    <3> QED
      BY <3>1 DEF SnapInv
  <2>4. \A s \in Symbols : snapshot[d].lots[s] = OpeningLots[s] + LotsBy(upTo, s)
    <3> TAKE s \in Symbols
    <3>1. LotsBy(upTo, s) = Total(LotFlow, TradesIn(upTo, s))
      BY <2>1, LotsByTotal
    <3> QED
      BY <3>1 DEF SnapInv
  <2>5. snapshot[d].lots \in [Symbols -> Int]
    BY <2>0 DEF TypeOK
  <2>6. snapshot[d].lots = [s \in Symbols |-> OpeningLots[s] + LotsBy(upTo, s)]
    BY <2>4, <2>5
  <2> QED
    BY <2>2, <2>3, <2>6
<1> QED
  BY <1>1, LedgerAlways, FlowAlways, SnapAlways, PTL

-----------------------------------------------------------------------------
(* What was really traded. *)

\* Purchases of today that the ledger knows.
BoughtToday(s) == {t \in TradesOf(booked) :
                     SymbolOf(t[1]) = s /\ DayOf(t[1]) = day /\ SideOf(t[1]) = "BUY"}

\* A T1 position keeps them apart from what may be sold.
TodayInv ==
  \A s \in Symbols :
    RuleOf[s] = "T1" => Cardinality(BoughtToday(s)) <= Settled(pos[s], day).today

\* What TodayInv compares are natural numbers.
LEMMA TodayNumbers ==
  ASSUME TypeOK, OrdersInv, NEW s \in Symbols
  PROVE  /\ IsFiniteSet(BoughtToday(s)) /\ Cardinality(BoughtToday(s)) \in Nat
         /\ pos[s] \in Positions /\ day \in Nat /\ Settled(pos[s], day) \in Positions
         /\ Settled(pos[s], day).today \in Nat
<1>1. BoughtToday(s) \subseteq TradesOf(booked)
  BY DEF BoughtToday
<1>2. IsFiniteSet(BoughtToday(s))
  BY <1>1, ThroughFinite, FS_Subset
<1>3. Cardinality(BoughtToday(s)) \in Nat
  BY <1>2, FS_CardinalityType
<1>4. pos[s] \in Positions /\ day \in Nat
  BY DayAssumption DEF TypeOK, Days
<1>5. Settled(pos[s], day) \in Positions
  BY <1>4, SettledFields
<1> QED
  BY <1>2, <1>3, <1>4, <1>5 DEF Positions

\* At first nothing was bought.
LEMMA TodayInit == Init /\ TypeOK /\ OrdersInv => TodayInv
<1> SUFFICES ASSUME Init, TypeOK, OrdersInv, NEW s \in Symbols
             PROVE  Cardinality(BoughtToday(s)) <= Settled(pos[s], day).today
  BY DEF TodayInv
<1>1. BoughtToday(s) = {}
  BY DEF Init, BoughtToday, TradesOf
<1>2. Cardinality(BoughtToday(s)) = 0
  BY <1>1, FS_EmptySet
<1> QED
  BY <1>2, TodayNumbers

\* Settling twice on a day releases nothing bought on it.
LEMMA TodayBegin ==
  ASSUME LedgerInv, TodayInv, NEW name, Begin(name)
  PROVE  TodayInv'
<1> USE DEF LedgerInv
<1>0. UNCHANGED <<day, booked>> /\ day \in Nat
  BY DayAssumption DEF Begin, TypeOK, Days
<1> SUFFICES ASSUME NEW s \in Symbols, RuleOf[s] = "T1"
             PROVE  Cardinality(BoughtToday(s)') <= Settled(pos'[s], day').today
  BY DEF TodayInv
<1>1. BoughtToday(s)' = BoughtToday(s)
  BY <1>0 DEF BoughtToday
<1>2. pos[s] \in Positions /\ pos[s].total = pos[s].available + pos[s].today
  BY DEF TypeOK, BucketsPartition
<1>3. pos'[s] = pos[s] \/ pos'[s] = Settled(pos[s], day)
  BY DEF Begin
<1>4. Settled(pos'[s], day) = Settled(pos[s], day)
  BY <1>0, <1>2, <1>3, SettledTwice
<1> QED
  BY <1>0, <1>1, <1>4 DEF TodayInv

\* No trade of a new day is booked yet.
LEMMA TodayNextDay ==
  ASSUME TypeOK, OrdersInv, TypeOK', NextDay
  PROVE  TodayInv'
<1>0. day' = day + 1 /\ UNCHANGED <<booked, pos>> /\ day \in Nat
  BY DayAssumption DEF NextDay, ledgerVars, TypeOK, Days
<1> SUFFICES ASSUME NEW s \in Symbols, RuleOf[s] = "T1"
             PROVE  Cardinality(BoughtToday(s)') <= Settled(pos'[s], day').today
  BY DEF TodayInv
<1>1. BoughtToday(s)' = {}
  <2> SUFFICES ASSUME NEW t \in TradesOf(booked), DayOf(t[1]) = day + 1 PROVE FALSE
    BY <1>0 DEF BoughtToday
  <2>1. t[1] \in Orders /\ t[2] \in DOMAIN fills[t[1]]
    BY ThroughFinite
  <2>2. DayOf(t[1]) > day
    BY <1>0
  <2>3. fills[t[1]] = <<>>
    BY <2>1, <2>2 DEF OrdersInv
  <2> QED
    BY <2>1, <2>3
<1>2. Cardinality(BoughtToday(s)') = 0
  BY <1>1, FS_EmptySet
<1>3. pos'[s] \in Positions /\ day' \in Nat
  BY <1>0 DEF TypeOK
<1>4. Settled(pos'[s], day') \in Positions
  BY <1>3, SettledFields
<1> QED
  BY <1>2, <1>4 DEF Positions

\* A purchase goes to today's bucket; a sale never takes from it.
LEMMA TodayBook ==
  ASSUME LedgerInv, OrdersInv, TodayInv, NEW o \in Orders, NEW k \in DOMAIN fills[o], Book(o, k)
  PROVE  TodayInv'
<1> USE DEF LedgerInv
<1>0. /\ UNCHANGED day /\ day \in Nat /\ DayOf(o) = day
      /\ SymbolOf(o) \in Symbols /\ SideOf(o) \in Sides
  BY OrderAssumption, DayAssumption DEF Book, TypeOK, Days, SymbolOf, SideOf
<1>1. CASE ~New(o, k)
  <2>1. UNCHANGED <<pos, booked>>
    BY <1>1 DEF Book, ledgerVars
  <2> QED
    BY <1>0, <2>1 DEF TodayInv, BoughtToday
<1>2. CASE New(o, k)
  <2>0. PICK p : p = Settled(pos[SymbolOf(o)], day)
    OBVIOUS
  <2>1. /\ booked' = [booked EXCEPT ![o] = @ \cup {k}]
        /\ pos' = [pos EXCEPT ![SymbolOf(o)] = IF SideOf(o) = "BUY" THEN Bought(p, RuleOf[SymbolOf(o)])
                                               ELSE Sold(p)]
        /\ Bookable(o)
    BY <1>2, <2>0 DEF Book
  <2>2. PICK u : u = <<o, k>>
    OBVIOUS
  <2>3. TradesOf(booked') = TradesOf(booked) \cup {u} /\ u \notin TradesOf(booked) /\ u[1] = o
    BY <1>2, <2>1, <2>2, NewTrade
  <2> SUFFICES ASSUME NEW s \in Symbols, RuleOf[s] = "T1"
               PROVE  Cardinality(BoughtToday(s)') <= Settled(pos'[s], day').today
    BY DEF TodayInv
  <2>4. pos[s] \in Positions /\ pos[s].total = pos[s].available + pos[s].today
    BY DEF TypeOK, BucketsPartition
  <2>5. Cardinality(BoughtToday(s)) <= Settled(pos[s], day).today
    BY DEF TodayInv
  <2>6. CASE SymbolOf(o) # s
    <3>1. BoughtToday(s)' = BoughtToday(s)
      BY <1>0, <2>3, <2>6 DEF BoughtToday
    <3>2. pos'[s] = pos[s]
      BY <2>1, <2>6 DEF TypeOK
    <3> QED
      BY <1>0, <2>5, <3>1, <3>2
  <2>7. CASE SymbolOf(o) = s
    <3>1. p \in Positions /\ p.settled >= day /\ p.total = p.available + p.today
          /\ p = Settled(pos[s], day) /\ p.total \in Nat /\ p.available \in Nat /\ p.today \in Nat
      <4>1. p = Settled(pos[s], day) /\ p \in Positions
        BY <1>0, <2>0, <2>4, <2>7, SettledFields
      <4>2. p.settled >= day /\ p.total = p.available + p.today
        BY <1>0, <2>4, <4>1, SettledTwice
      <4> QED
        BY <4>1, <4>2 DEF Positions
    <3>2. pos'[s] = IF SideOf(o) = "BUY" THEN Bought(p, RuleOf[s]) ELSE Sold(p)
      BY <2>1, <2>7 DEF TypeOK
    <3>3. Cardinality(BoughtToday(s)) <= p.today /\ Cardinality(BoughtToday(s)) \in Nat
          /\ IsFiniteSet(BoughtToday(s))
      BY <2>5, <3>1, TodayNumbers
    <3>4. CASE SideOf(o) = "BUY"
      <4>1. BoughtToday(s)' = BoughtToday(s) \cup {u} /\ u \notin BoughtToday(s)
        BY <1>0, <2>3, <2>7, <3>4 DEF BoughtToday
      <4>2. Cardinality(BoughtToday(s)') = Cardinality(BoughtToday(s)) + 1
        BY <3>3, <4>1, FS_AddElement
      <4>3. pos'[s].settled = p.settled /\ pos'[s].today = p.today + 1
        BY <3>1, <3>2, <3>4 DEF Bought, Positions
      <4>4. Settled(pos'[s], day) = pos'[s]
        BY <3>1, <4>3 DEF Settled
      <4> QED
        BY <1>0, <3>1, <3>3, <4>2, <4>3, <4>4
    <3>5. CASE SideOf(o) # "BUY"
      <4>1. BoughtToday(s)' = BoughtToday(s)
        BY <1>0, <2>3, <3>5 DEF BoughtToday
      <4>2. CASE p.total = 1
        <5>1. p.available >= 1
          BY <1>0, <2>0, <2>1, <2>7, <3>5 DEF Bookable, Sides
        <5>2. p.today = 0
          BY <3>1, <4>2, <5>1
        <5>3. pos'[s] = NoPosition /\ Settled(NoPosition, day).today = 0
          BY <1>0, <3>2, <3>5, <4>2 DEF Sold, Settled, NoPosition
        <5> QED
          BY <1>0, <3>3, <4>1, <5>2, <5>3
      <4>3. CASE p.total # 1
        <5>1. pos'[s] = Sold(p) /\ Sold(p).settled = p.settled /\ Sold(p).today = p.today
          BY <3>1, <3>2, <3>5, <4>3 DEF Sold, Positions
        <5>2. Settled(pos'[s], day) = Sold(p)
          BY <3>1, <5>1 DEF Settled
        <5> QED
          BY <1>0, <3>3, <4>1, <5>1, <5>2
      <4> QED
        BY <4>2, <4>3
    <3> QED
      BY <3>4, <3>5
  <2> QED
    BY <2>6, <2>7
<1> QED
  BY <1>1, <1>2

\* Every step keeps today's purchases apart.
LEMMA TodayStep == LedgerInv /\ LedgerInv' /\ OrdersInv /\ TodayInv /\ [Next]_vars => TodayInv'
<1> SUFFICES ASSUME LedgerInv, LedgerInv', OrdersInv, TodayInv, [Next]_vars PROVE TodayInv'
  OBVIOUS
<1>1. CASE \E side \in Sides : BeginPlan(side)
  BY <1>1, TodayBegin DEF BeginPlan
<1>2. CASE BeginSnapshot
  BY <1>2, TodayBegin DEF BeginSnapshot
<1>3. CASE \/ ReadCash \/ ReadPositions \/ PlanRefused \/ Plan \/ SaveSnapshot \/ Abort
           \/ UNCHANGED vars \/ \E o \in Orders : Finalize(o) \/ Fill(o) \/ CloseOrder(o)
  <2>1. UNCHANGED <<day, booked, pos>>
    BY <1>3 DEF ReadCash, ReadPositions, PlanRefused, Plan, SaveSnapshot, Abort, vars,
                Finalize, Fill, CloseOrder, ledgerVars
  <2> QED
    BY <2>1 DEF TodayInv, BoughtToday
<1>4. CASE NextDay
  BY <1>4, TodayNextDay DEF LedgerInv
<1>5. ASSUME NEW o \in Orders, NEW k \in DOMAIN fills[o], Book(o, k) PROVE TodayInv'
  BY <1>5, TodayBook
<1> QED
  BY <1>1, <1>2, <1>3, <1>4, <1>5 DEF Next

\* Today's purchases are always apart.
LEMMA TodayAlways == Spec => []TodayInv
<1>1. Init /\ LedgerInv /\ FlowInv => TodayInv
  BY TodayInit DEF LedgerInv, FlowInv
<1>2. LedgerInv /\ LedgerInv' /\ FlowInv /\ TodayInv /\ [Next]_vars => TodayInv'
  BY TodayStep DEF FlowInv
<1> QED
  BY <1>1, <1>2, LedgerAlways, FlowAlways, PTL DEF Spec

\* The trades that NeverShort counts for a symbol and a day.
Overnight(d)  == {t \in Through(d, Made) : DayOf(t[1]) < d \/ SideOf(t[1]) = "SELL"}
Counted(d, s) == IF RuleOf[s] = "T1" THEN Overnight(d) ELSE Through(d, Made)

\* The days before today are as they were.
PastInv ==
  \A s \in Symbols, d \in 1 .. day - 1 :
    OpeningLots[s] + Total(LotFlow, TradesIn(Counted(d, s), s)) >= 0

\* The trades made are finitely many, none of a later day, those booked among them.
LEMMA MadeFinite ==
  ASSUME TypeOK, OrdersInv
  PROVE  /\ Made \subseteq AllTrades /\ IsFiniteSet(Made) /\ TradesOf(booked) \subseteq Made
         /\ \A o \in Orders : \A k \in DOMAIN fills[o] : <<o, k>> \in Made
         /\ \A t \in Made : /\ t[1] \in Orders /\ t[2] \in DOMAIN fills[t[1]] /\ t = <<t[1], t[2]>>
                            /\ DayOf(t[1]) \in Int /\ DayOf(t[1]) <= day /\ SideOf(t[1]) \in Sides
<1>1. PICK done : done = [o \in Orders |-> DOMAIN fills[o]]
  OBVIOUS
<1>2. \A o \in Orders : done[o] \in SUBSET Nat /\ IsFiniteSet(done[o])
  BY <1>1, FillsFinite
<1>3. Made = TradesOf(done)
  BY <1>1 DEF Made
<1>4. Made \subseteq AllTrades /\ IsFiniteSet(Made)
  BY <1>2, <1>3, TradesFinite
<1>5. \A o \in Orders : \A k \in DOMAIN fills[o] : <<o, k>> \in Made
  BY <1>1, <1>3 DEF TradesOf
<1>6. TradesOf(booked) \subseteq Made
  <2> SUFFICES ASSUME NEW t \in TradesOf(booked) PROVE t \in Made
    OBVIOUS
  <2>1. t[1] \in Orders /\ t[2] \in DOMAIN fills[t[1]] /\ t = <<t[1], t[2]>>
    BY ThroughFinite
  <2> QED
    BY <1>5, <2>1
<1>7. ASSUME NEW t \in Made
      PROVE  /\ t[1] \in Orders /\ t[2] \in DOMAIN fills[t[1]] /\ t = <<t[1], t[2]>>
             /\ DayOf(t[1]) \in Int /\ DayOf(t[1]) <= day /\ SideOf(t[1]) \in Sides
  <2>1. PICK o \in Orders : \E k \in done[o] : t = <<o, k>>
    BY <1>3 DEF TradesOf
  <2>2. PICK k \in DOMAIN fills[o] : t = <<o, k>>
    BY <1>1, <2>1
  <2>3. DayOf(o) \in Int /\ SideOf(o) \in Sides /\ day \in Int
    BY OrderAssumption, DayAssumption DEF DayOf, SideOf, Days, TypeOK
  <2>4. ~(DayOf(o) > day)
    <3>1. fills[o] # <<>>
      BY <2>2
    <3> QED
      BY <3>1 DEF OrdersInv
  <2>5. t[1] = o /\ t[2] = k
    BY <2>2
  <2>6. DayOf(o) <= day
    BY <2>3, <2>4
  <2> QED
    BY <2>2, <2>3, <2>5, <2>6
<1> QED
  BY <1>4, <1>5, <1>6, <1>7

\* What the broker sold of a symbol and the ledger does not know, counted.
LEMMA UnknownSells ==
  ASSUME TypeOK, OrdersInv, NEW s \in Symbols, NEW V \in SUBSET Made,
         \A t \in V : t \notin TradesOf(booked) /\ SideOf(t[1]) = "SELL" /\ SymbolOf(t[1]) = s
  PROVE  IsFiniteSet(V) /\ Cardinality(V) \in Nat /\ Cardinality(V) <= Total(Unbooked, SellsOf(s))
<1>0. \A o \in Orders : Unbooked[o] \in Nat
  BY OutstandingNat
<1>1. PICK left : left = [o \in SellsOf(s) |-> {<<o, k>> : k \in DOMAIN fills[o] \ booked[o]}]
  OBVIOUS
<1>2. PICK one : one = [t \in AllTrades |-> 1]
  OBVIOUS
<1>3. ASSUME NEW o \in SellsOf(s)
      PROVE  /\ IsFiniteSet(left[o]) /\ Cardinality(left[o]) = Unbooked[o]
             /\ \A t \in left[o] : one[t] = 1 /\ t[1] = o
  <2>1. /\ o \in Orders /\ DOMAIN fills[o] \in SUBSET Nat /\ IsFiniteSet(DOMAIN fills[o])
        /\ Cardinality(DOMAIN fills[o]) = Len(fills[o]) /\ booked[o] \subseteq DOMAIN fills[o]
        /\ Cardinality(booked[o]) \in Nat /\ Len(fills[o]) \in Nat
    BY SellsFinite, FillsFinite DEF OrdersInv
  <2>2. PICK K : K = DOMAIN fills[o] \ booked[o]
    OBVIOUS
  <2>3. IsFiniteSet(K)
    BY <2>1, <2>2, FS_Subset
  <2>4. Cardinality(K) = Unbooked[o]
    <3>1. Cardinality(K) = Cardinality(DOMAIN fills[o]) - Cardinality(DOMAIN fills[o] \cap booked[o])
      BY <2>1, <2>2, FS_Difference
    <3>2. DOMAIN fills[o] \cap booked[o] = booked[o]
      BY <2>1
    <3> QED
      BY <2>1, <3>1, <3>2 DEF Unbooked
  <2>5. left[o] = {<<o, k>> : k \in K}
    BY <1>1, <2>2
  <2>6. IsFiniteSet(left[o]) /\ Cardinality(left[o]) = Cardinality(K)
    <3>1. IsFiniteSet({<<o, k>> : k \in K}) /\ Cardinality({<<o, k>> : k \in K}) = Cardinality(K)
      BY <2>3, PairsFinite
    <3> QED
      BY <2>5, <3>1, Zenon
  <2>7. \A t \in left[o] : t \in AllTrades /\ t[1] = o
    BY <2>1, <2>2, <2>5 DEF AllTrades
  <2> QED
    BY <1>2, <2>4, <2>6, <2>7
<1>4. \A o, p \in SellsOf(s) : o # p => left[o] \cap left[p] = {}
  BY <1>3
<1>5. PICK L : L = Parts(left, SellsOf(s))
  OBVIOUS
<1>6. \A o \in SellsOf(s) : IsFiniteSet(left[o]) /\ \A t \in left[o] : one[t] \in Int
  BY <1>3
<1>7. IsFiniteSet(L)
  BY <1>4, <1>5, <1>6, SellsFinite, TotalByParts
<1>8. PICK part : part = [o \in SellsOf(s) |-> Total(one, left[o])]
  OBVIOUS
<1>9. Total(one, L) = Total(part, SellsOf(s))
  BY <1>4, <1>5, <1>6, <1>8, SellsFinite, TotalByParts
<1>10. Total(part, SellsOf(s)) = Total(Unbooked, SellsOf(s))
  <2>1. ASSUME NEW o \in SellsOf(s) PROVE part[o] = Unbooked[o]
    <3>1. part[o] = Total(one, left[o])
      BY <1>8
    <3>2. Total(one, left[o]) = 1 * Cardinality(left[o])
      BY <1>3, TotalSame
    <3>3. Unbooked[o] \in Nat
      BY <1>0, SellsFinite
    <3> QED
      BY <1>3, <3>1, <3>2, <3>3
  <2> QED
    BY <2>1, SellsFinite, TotalAgrees
<1>11. Total(one, L) = Cardinality(L) /\ Cardinality(L) \in Nat
  <2>1. \A t \in L : one[t] = 1
    BY <1>3, <1>5 DEF Parts
  <2>2. Total(one, L) = 1 * Cardinality(L)
    BY <1>7, <2>1, TotalSame
  <2>3. Cardinality(L) \in Nat
    BY <1>7, FS_CardinalityType
  <2> QED
    BY <2>2, <2>3
<1>12. V \subseteq L
  <2> SUFFICES ASSUME NEW t \in V PROVE t \in L
    OBVIOUS
  <2>1. t[1] \in Orders /\ t[2] \in DOMAIN fills[t[1]] /\ t = <<t[1], t[2]>>
    BY MadeFinite
  <2>2. t[1] \in SellsOf(s)
    BY <2>1 DEF SellsOf
  <2>3. t[2] \notin booked[t[1]]
    BY <2>1 DEF TradesOf
  <2>4. t \in left[t[1]]
    BY <1>1, <2>1, <2>2, <2>3
  <2> QED
    BY <1>5, <2>2, <2>4 DEF Parts
<1>13. IsFiniteSet(V) /\ Cardinality(V) <= Cardinality(L)
  BY <1>7, <1>12, FS_Subset
<1>14. Cardinality(V) \in Nat
  BY <1>13, FS_CardinalityType
<1> QED
  BY <1>9, <1>10, <1>11, <1>13, <1>14

\* Today: what was sold, booked or not, is held, and not among today's purchases.
LEMMA TodayCovered ==
  ASSUME LedgerInv, OrdersInv, CountInv, ReserveInv, TodayInv, NEW s \in Symbols
  PROVE  OpeningLots[s] + Total(LotFlow, TradesIn(Counted(day, s), s)) >= 0
<1> USE DEF LedgerInv
<1>0. /\ Made \subseteq AllTrades /\ IsFiniteSet(Made) /\ TradesOf(booked) \subseteq Made
      /\ \A t \in Made : /\ t[1] \in Orders /\ DayOf(t[1]) \in Int /\ DayOf(t[1]) <= day
                         /\ SideOf(t[1]) \in Sides
  BY MadeFinite
<1>1. PICK M : M = TradesIn(Made, s)
  OBVIOUS
<1>2. PICK B : B = TradesIn(TradesOf(booked), s)
  OBVIOUS
<1>3. PICK C : C = TradesIn(Counted(day, s), s)
  OBVIOUS
<1>4. PICK X : X = IF RuleOf[s] = "T1"
                   THEN {t \in M : DayOf(t[1]) = day /\ SideOf(t[1]) = "BUY"} ELSE {}
  OBVIOUS
<1>5. M \subseteq Made /\ B \subseteq M /\ X \subseteq M /\ C = M \ X
  <2>1. M \subseteq Made /\ B \subseteq M /\ X \subseteq M
    BY <1>0, <1>1, <1>2, <1>4 DEF TradesIn
  <2>2. day \in Int
    BY DayAssumption DEF TypeOK, Days
  <2>3. Through(day, Made) = Made
    BY <1>0 DEF Through
  <2>4. CASE RuleOf[s] = "T1"
    <3>1. Overnight(day) = {t \in Made : ~(DayOf(t[1]) = day /\ SideOf(t[1]) = "BUY")}
      BY <1>0, <2>2, <2>3 DEF Overnight, Sides
    <3> QED
      BY <1>1, <1>3, <1>4, <2>1, <2>4, <3>1 DEF TradesIn, Counted
  <2>5. CASE RuleOf[s] # "T1"
    BY <1>1, <1>3, <1>4, <2>1, <2>3, <2>5 DEF TradesIn, Counted
  <2> QED
    BY <2>1, <2>4, <2>5
<1>6. IsFiniteSet(M) /\ IsFiniteSet(B) /\ IsFiniteSet(C)
  BY <1>0, <1>5, FS_Subset
<1>7. \A t \in M : LotFlow[t] \in {1, -1} /\ LotFlow[t] = LotOf(t)
  BY <1>0, <1>5, FlowsInt
<1>a. \A t \in M : LotFlow[t] \in Int
  BY <1>7
<1>8. PICK known : known = B \ X
  OBVIOUS
<1>9. PICK bought : bought = B \cap X
  OBVIOUS
<1>10. PICK new : new = C \ B
  OBVIOUS
<1>11. /\ Total(LotFlow, B) = Total(LotFlow, known) + Total(LotFlow, bought)
  <2>1. B = known \cup bought /\ known \cap bought = {}
    BY <1>8, <1>9
  <2>2. \A t \in B : LotFlow[t] \in Int
    BY <1>5, <1>a
  <2> QED
    BY <1>6, <2>1, <2>2, TotalUnion
<1>12. Total(LotFlow, C) = Total(LotFlow, known) + Total(LotFlow, new)
  <2>1. C = known \cup new /\ known \cap new = {}
    BY <1>5, <1>8, <1>10
  <2>2. \A t \in C : LotFlow[t] \in Int
    BY <1>5, <1>a
  <2> QED
    BY <1>6, <2>1, <2>2, TotalUnion
<1>13. /\ Total(LotFlow, bought) = Cardinality(bought) /\ Cardinality(bought) \in Nat
       /\ Cardinality(bought) <= Settled(pos[s], day).today
  <2>1. bought \subseteq B /\ IsFiniteSet(bought)
    BY <1>6, <1>9, FS_Subset
  <2>2. \A t \in bought : LotFlow[t] = 1
    <3>1. \A t \in bought : t \in M /\ SideOf(t[1]) = "BUY"
      BY <1>4, <1>5, <1>9
    <3> QED
      BY <1>7, <3>1 DEF LotOf
  <2>3. Total(LotFlow, bought) = 1 * Cardinality(bought)
    BY <2>1, <2>2, TotalSame
  <2>4. Cardinality(bought) \in Nat
    BY <2>1, FS_CardinalityType
  <2>5. Cardinality(bought) <= Settled(pos[s], day).today
    <3>1. CASE RuleOf[s] = "T1"
      <4>1. bought = BoughtToday(s)
        BY <1>2, <1>4, <1>5, <1>9, <3>1 DEF BoughtToday, TradesIn
      <4> QED
        BY <3>1, <4>1 DEF TodayInv
    <3>2. CASE RuleOf[s] # "T1"
      <4>1. bought = {}
        BY <1>4, <1>9, <3>2
      <4>2. Cardinality(bought) = 0
        BY <4>1, FS_EmptySet
      <4> QED
        BY <4>2, TodayNumbers
    <3> QED
      BY <3>1, <3>2
  <2> QED
    BY <2>3, <2>4, <2>5
<1>14. Total(LotFlow, new) \in Int /\ Total(LotFlow, new) >= -Settled(pos[s], day).available
  <2>1. PICK sells : sells = {t \in new : SideOf(t[1]) = "SELL"}
    OBVIOUS
  <2>2. PICK buys : buys = {t \in new : SideOf(t[1]) # "SELL"}
    OBVIOUS
  <2>3. new \subseteq C /\ IsFiniteSet(new) /\ new \subseteq M /\ sells \subseteq new /\ buys \subseteq new
    BY <1>5, <1>6, <1>10, <2>1, <2>2, FS_Subset
  <2>4. IsFiniteSet(sells) /\ IsFiniteSet(buys)
    BY <2>3, FS_Subset
  <2>5. Total(LotFlow, new) = Total(LotFlow, sells) + Total(LotFlow, buys)
    <3>1. new = sells \cup buys /\ sells \cap buys = {}
      BY <2>1, <2>2
    <3>2. \A t \in new : LotFlow[t] \in Int
      BY <1>a, <2>3
    <3> QED
      BY <2>3, <3>1, <3>2, TotalUnion
  <2>6. Total(LotFlow, buys) = Cardinality(buys) /\ Cardinality(buys) \in Nat
    <3>1. \A t \in buys : LotFlow[t] = 1
      <4>1. \A t \in buys : t \in Made /\ SideOf(t[1]) = "BUY" /\ t \in M
        BY <1>0, <1>5, <2>2, <2>3 DEF Sides
      <4> QED
        BY <1>7, <4>1 DEF LotOf
    <3>2. Total(LotFlow, buys) = 1 * Cardinality(buys)
      BY <2>4, <3>1, TotalSame
    <3> QED
      BY <2>4, <3>2, FS_CardinalityType
  <2>7. Total(LotFlow, sells) = -Cardinality(sells)
    <3>1. \A t \in sells : LotFlow[t] = -1
      <4>1. \A t \in sells : SideOf(t[1]) = "SELL" /\ t \in M
        BY <2>1, <2>3
      <4> QED
        BY <1>7, <4>1 DEF LotOf
    <3>2. PICK c \in Int : c = -1
      OBVIOUS
    <3>3. Total(LotFlow, sells) = c * Cardinality(sells)
      BY <2>4, <3>1, <3>2, TotalSame
    <3>4. Cardinality(sells) \in Nat
      BY <2>4, FS_CardinalityType
    <3> QED
      BY <3>2, <3>3, <3>4
  <2>8. Cardinality(sells) \in Nat /\ Cardinality(sells) <= Total(Unbooked, SellsOf(s))
    <3>1. sells \in SUBSET Made
      BY <1>5, <2>3
    <3>2. \A t \in sells : t \notin TradesOf(booked) /\ SideOf(t[1]) = "SELL" /\ SymbolOf(t[1]) = s
      BY <1>0, <1>1, <1>2, <1>10, <2>1, <2>3 DEF TradesIn
    <3> QED
      BY <3>1, <3>2, UnknownSells
  <2>9. Total(Unbooked, SellsOf(s)) <= Total(Outstanding, SellsOf(s))
        /\ Total(Unbooked, SellsOf(s)) \in Int /\ Total(Outstanding, SellsOf(s)) \in Int
    <3>1. \A o \in SellsOf(s) : Unbooked[o] \in Int /\ Outstanding[o] \in Int /\ Unbooked[o] <= Outstanding[o]
      BY OutstandingNat, SellsFinite
    <3> QED
      BY <3>1, SellsFinite, TotalMonotone, TotalInt
  <2>10. Total(Outstanding, SellsOf(s)) <= Settled(pos[s], day).available
    BY DEF ReserveInv
  <2>11. Settled(pos[s], day).available \in Nat
    BY TodayNumbers DEF Positions
  <2> QED
    BY <2>5, <2>6, <2>7, <2>8, <2>9, <2>10, <2>11
<1>15. /\ pos[s].total = Settled(pos[s], day).available + Settled(pos[s], day).today
       /\ Settled(pos[s], day).available \in Nat /\ Settled(pos[s], day).today \in Nat
  <2>1. pos[s] \in Positions /\ pos[s].total = pos[s].available + pos[s].today /\ day \in Nat
    BY TodayNumbers DEF BucketsPartition
  <2>2. Settled(pos[s], day).total = pos[s].total
    BY <2>1, SettledFields
  <2>3. Settled(pos[s], day).total = Settled(pos[s], day).available + Settled(pos[s], day).today
    BY <2>1, SettledTwice
  <2> QED
    BY <2>2, <2>3, TodayNumbers DEF Positions
<1>16. pos[s].total = OpeningLots[s] + Total(LotFlow, B) /\ OpeningLots[s] \in Int
  BY <1>2, OpeningAssumption DEF CountInv
<1>17. Total(LotFlow, known) \in Int
  <2>1. IsFiniteSet(known) /\ known \subseteq M
    BY <1>5, <1>6, <1>8, FS_Subset
  <2> QED
    BY <1>a, <2>1, TotalInt
<1>18. OpeningLots[s] + Total(LotFlow, C) >= 0
  BY <1>11, <1>12, <1>13, <1>14, <1>15, <1>16, <1>17
<1> QED
  BY <1>3, <1>18

\* No trade of a past day is made any more; a day that ends was covered.
LEMMA PastStep ==
  LedgerInv /\ FlowInv /\ CountInv /\ ReserveInv /\ TodayInv /\ PastInv /\ [Next]_vars => PastInv'
<1> SUFFICES ASSUME LedgerInv, FlowInv, CountInv, ReserveInv, TodayInv, PastInv, [Next]_vars
             PROVE  PastInv'
  OBVIOUS
<1>0. TypeOK /\ OrdersInv /\ day \in Int
  BY DayAssumption DEF LedgerInv, FlowInv, TypeOK, Days
<1>1. CASE NextDay
  <2>1. day' = day + 1 /\ UNCHANGED fills
    BY <1>1 DEF NextDay, brokerVars
  <2>2. \A s, d : Counted(d, s)' = Counted(d, s)
    BY <2>1 DEF Counted, Overnight, Made
  <2> SUFFICES ASSUME NEW s \in Symbols, NEW d \in 1 .. day
               PROVE  OpeningLots[s] + Total(LotFlow, TradesIn(Counted(d, s), s)) >= 0
    BY <1>0, <2>1, <2>2 DEF PastInv
  <2>3. CASE d = day
    BY <1>0, <2>3, TodayCovered
  <2>4. CASE d # day
    BY <1>0, <2>4 DEF PastInv
  <2> QED
    BY <2>3, <2>4
<1>2. ASSUME NEW o \in Orders, Fill(o) PROVE PastInv'
  <2>1. UNCHANGED day /\ DayOf(o) = day
    BY <1>2 DEF Fill
  <2>2. PICK price \in Prices : fills' = [fills EXCEPT ![o] = Append(@, price)]
    BY <1>2 DEF Fill
  <2>3. PICK done : done = [p \in Orders |-> DOMAIN fills[p]]
    OBVIOUS
  <2>4. PICK then : then = [p \in Orders |-> DOMAIN fills'[p]]
    OBVIOUS
  <2>5. \A p \in Orders : p # o => then[p] = done[p]
    BY <1>0, <2>2, <2>3, <2>4 DEF TypeOK
  <2>6. ASSUME NEW d \in 1 .. day - 1 PROVE Through(d, Made)' = Through(d, Made)
    <3>1. ~(DayOf(o) <= d)
      BY <1>0, <2>1
    <3>2. Made = TradesOf(done) /\ Made' = TradesOf(then)
      BY <2>3, <2>4 DEF Made, TradesOf
    <3>3. Through(d, TradesOf(then)) = Through(d, TradesOf(done))
      BY <2>5, <3>1 DEF Through, TradesOf
    <3>4. Through(d, Made)' = Through(d, Made')
      BY DEF Through
    <3> QED
      BY <3>2, <3>3, <3>4
  <2>7. \A s \in Symbols, d \in 1 .. day - 1 : Counted(d, s)' = Counted(d, s)
    BY <2>6 DEF Counted, Overnight
  <2> QED
    BY <2>1, <2>7 DEF PastInv
<1>3. CASE UNCHANGED <<day, fills>>
  <2>1. \A s, d : Counted(d, s)' = Counted(d, s)
    BY <1>3 DEF Counted, Overnight, Made
  <2> QED
    BY <1>3, <2>1 DEF PastInv
<1>4. CASE \/ \E side \in Sides : BeginPlan(side)
           \/ BeginSnapshot \/ ReadCash \/ ReadPositions \/ PlanRefused \/ Plan \/ SaveSnapshot \/ Abort
           \/ UNCHANGED vars \/ \E o \in Orders : Finalize(o) \/ CloseOrder(o)
           \/ \E o \in Orders : \E k \in DOMAIN fills[o] : Book(o, k)
  BY <1>3, <1>4 DEF BeginPlan, BeginSnapshot, Begin, ReadCash, ReadPositions, PlanRefused, Plan,
       SaveSnapshot, Abort, vars, Finalize, CloseOrder, Book, ledgerVars, brokerVars
<1> QED
  BY <1>1, <1>2, <1>4 DEF Next

\* The past days are always covered.
LEMMA PastAlways == Spec => []PastInv
<1>1. Init => PastInv
  BY DEF Init, PastInv
<1>2. LedgerInv /\ FlowInv /\ CountInv /\ ReserveInv /\ TodayInv /\ PastInv /\ [Next]_vars => PastInv'
  BY PastStep
<1> QED
  BY <1>1, <1>2, LedgerAlways, FlowAlways, CountAlways, ReserveAlways, TodayAlways, PTL DEF Spec

\* The account never sells what it does not hold, nor a T1 lot on the day it was
\* bought, whatever reaches the ledger late or never, for any orders and days.
THEOREM AccountNeverShort == Spec => []NeverShort
<1>1. LedgerInv /\ FlowInv /\ CountInv /\ ReserveInv /\ TodayInv /\ PastInv => NeverShort
  <2> SUFFICES ASSUME LedgerInv, FlowInv, CountInv, ReserveInv, TodayInv, PastInv,
                      NEW s \in Symbols, NEW d \in 1 .. day
               PROVE  OpeningLots[s] + LotsBy(Counted(d, s), s) >= 0
    BY DEF NeverShort, Counted, Overnight
  <2>0. TypeOK /\ OrdersInv /\ day \in Int
    BY DayAssumption DEF LedgerInv, FlowInv, TypeOK, Days
  <2>1. Counted(d, s) \subseteq Made
    BY DEF Counted, Overnight, Through
  <2>2. Counted(d, s) \subseteq AllTrades /\ IsFiniteSet(Counted(d, s))
    BY <2>0, <2>1, MadeFinite, FS_Subset
  <2>3. LotsBy(Counted(d, s), s) = Total(LotFlow, TradesIn(Counted(d, s), s))
    BY <2>2, LotsByTotal
  <2>4. OpeningLots[s] + Total(LotFlow, TradesIn(Counted(d, s), s)) >= 0
    <3>1. CASE d = day
      BY <2>0, <3>1, TodayCovered
    <3>2. CASE d # day
      BY <2>0, <3>2 DEF PastInv
    <3> QED
      BY <3>1, <3>2
  <2> QED
    BY <2>3, <2>4
<1> QED
  BY <1>1, LedgerAlways, FlowAlways, CountAlways, ReserveAlways, TodayAlways, PastAlways, PTL

-----------------------------------------------------------------------------
(* What the buys may cost. *)

Buys == {o \in Orders : SideOf(o) = "BUY"}

\* Fees of an order that its plan did not reserve, for the trades booked and for
\* those made.
ExtraBooked(o) == IF booked[o] = {} THEN 0 ELSE Cardinality(booked[o]) - 1
ExtraMade      == [o \in Orders |-> IF fills[o] = <<>> THEN 0 ELSE Len(fills[o]) - 1]

\* What an order may still take from the cash its plan reserved.
Needed(o) == IF intent[o].state # "live" THEN 0
             ELSE IF booked[o] = {} THEN Reserved(o) ELSE intent[o].limit * Remaining(o)

Cover == [o \in Orders |-> Fee * ExtraBooked(o) - Needed(o)]

\* But for those fees, the cash covers what is still needed.
CoverInv == cash + Total(Cover, Buys) >= 0

\* A sale brings in its fee at least: otherwise it costs cash nobody reserved.
FeesBelowPrices == \A p \in Prices : Fee <= p

\* The buys are finitely many.
LEMMA BuysFinite == Buys \subseteq Orders /\ IsFiniteSet(Buys)
  BY OrderAssumption, FS_Subset DEF Buys

\* Products of whole numbers, for a solver that multiplies badly.
LEMMA Products ==
  ASSUME NEW a \in Int, NEW b \in Int
  PROVE  /\ a * (b - 1) = a * b - a /\ a * 0 = 0 /\ a * 1 = a /\ a * b \in Int
         /\ a \in Nat /\ b \in Nat => a * b \in Nat
         /\ \A c \in Int : a \in Nat /\ b <= c => a * b <= a * c
<1>1. /\ a * (b - 1) = a * b - a /\ a * 0 = 0 /\ a * 1 = a /\ a * b \in Int
  OBVIOUS
<1>2. a \in Nat /\ b \in Nat => a * b \in Nat
  OBVIOUS
<1>3. ASSUME NEW c \in Int, a \in Nat, b <= c PROVE a * b <= a * c
  <2>1. PICK e \in Nat : c = b + e
    BY <1>3
  <2>2. a * c = a * b + a * e /\ a * e >= 0
    BY <1>3, <2>1
  <2> QED
    BY <1>1, <2>2
<1> QED
  BY <1>1, <1>2, <1>3

\* The numbers of a buy.
LEMMA CoverNumbers ==
  ASSUME TypeOK, OrdersInv
  PROVE  \A o \in Orders :
           /\ intent[o].limit \in Nat /\ intent[o].lots \in Nat /\ Fee \in Nat
           /\ ExtraBooked(o) \in Nat /\ Fee * ExtraBooked(o) \in Nat
           /\ intent[o].state = "live" => /\ Remaining(o) \in Nat
                                          /\ intent[o].limit * Remaining(o) \in Nat
           /\ Needed(o) \in Nat /\ Cover[o] \in Int /\ Cover[o] = Fee * ExtraBooked(o) - Needed(o)
           /\ intent[o].state = "absent" => Cover[o] = 0
<1> TAKE o \in Orders
<1>1. intent[o].limit \in Nat /\ intent[o].lots \in Nat /\ Fee \in Nat
  BY MoneyAssumption DEF TypeOK, Intents
<1>2. IsFiniteSet(booked[o]) /\ Cardinality(booked[o]) \in Nat
  BY FillsFinite
<1>3. ExtraBooked(o) \in Nat
  <2>1. booked[o] # {} => Cardinality(booked[o]) # 0
    BY <1>2, FS_EmptySet
  <2> QED
    BY <1>2, <2>1 DEF ExtraBooked
<1>4. Fee * ExtraBooked(o) \in Nat
  BY <1>1, <1>3, Products
<1>5. ASSUME intent[o].state = "live"
      PROVE  Remaining(o) \in Nat /\ intent[o].limit * Remaining(o) \in Nat
  <2>1. Remaining(o) \in Nat
    BY <1>5, OutstandingNat DEF Outstanding
  <2> QED
    BY <1>1, <2>1, Products
<1>6. Needed(o) \in Nat
  BY <1>1, <1>5 DEF Needed, Reserved
<1>7. Cover[o] = Fee * ExtraBooked(o) - Needed(o)
  BY DEF Cover
<1>8. ASSUME intent[o].state = "absent" PROVE Cover[o] = 0
  <2>1. booked[o] = {}
    BY <1>8, OutstandingNat
  <2>2. ExtraBooked(o) = 0 /\ Needed(o) = 0
    BY <1>8, <2>1 DEF ExtraBooked, Needed
  <2>3. Fee * 0 = 0
    BY <1>1, Products
  <2> QED
    BY <1>7, <2>2, <2>3
<1> QED
  BY <1>1, <1>3, <1>4, <1>5, <1>6, <1>7, <1>8

\* Their sum is a whole number.
LEMMA CoverInt ==
  ASSUME TypeOK, OrdersInv
  PROVE  Total(Cover, Buys) \in Int
<1>1. \A o \in Buys : Cover[o] \in Int
  BY CoverNumbers, BuysFinite
<1> QED
  BY <1>1, BuysFinite, TotalInt

\* At first nothing is needed.
LEMMA CoverInit == Init /\ TypeOK /\ OrdersInv => CoverInv
<1> SUFFICES ASSUME Init, TypeOK, OrdersInv PROVE CoverInv
  OBVIOUS
<1>1. \A o \in Buys : Cover[o] = 0
  BY CoverNumbers, BuysFinite DEF Init, NoIntent
<1>2. Total(Cover, Buys) = 0
  BY <1>1, BuysFinite, TotalZero
<1> QED
  BY <1>2, MoneyAssumption DEF Init, CoverInv

\* Orders, bookings and cash as they were.
LEMMA CoverFrame ==
  ASSUME CoverInv, UNCHANGED <<cash, intent, booked>>
  PROVE  CoverInv'
<1>1. Cover' = Cover
  BY DEF Cover, ExtraBooked, Needed, Reserved, Remaining
<1> QED
  BY <1>1 DEF CoverInv

\* An outcome recorded frees what its order still needed.
LEMMA CoverFinalize ==
  ASSUME TypeOK, OrdersInv, CoverInv, TypeOK', NEW q \in Orders, Finalize(q)
  PROVE  CoverInv'
<1>0. UNCHANGED <<cash, booked>> /\ intent' = [intent EXCEPT ![q].state = "final"]
  BY DEF Finalize, ledgerVars
<1>1. ASSUME NEW o \in Buys PROVE Cover[o] \in Int /\ Cover'[o] \in Int /\ Cover[o] <= Cover'[o]
  <2>0. o \in Orders
    BY BuysFinite
  <2>1. Cover[o] \in Int /\ Cover[o] = Fee * ExtraBooked(o) - Needed(o)
        /\ Needed(o) \in Nat /\ Fee * ExtraBooked(o) \in Nat
    BY <2>0, CoverNumbers
  <2>2. Cover'[o] = Fee * ExtraBooked(o)' - Needed(o)'
    BY <2>0 DEF Cover
  <2>3. ExtraBooked(o)' = ExtraBooked(o)
    BY <1>0 DEF ExtraBooked
  <2>4. Needed(o)' = 0 \/ Needed(o)' = Needed(o)
    <3>1. CASE o = q
      <4>1. intent'[o].state = "final"
        BY <1>0, <2>0, <3>1 DEF TypeOK, Intents
      <4> QED
        BY <4>1 DEF Needed
    <3>2. CASE o # q
      <4>1. intent'[o] = intent[o]
        BY <1>0, <2>0, <3>2 DEF TypeOK
      <4> QED
        BY <1>0, <4>1 DEF Needed, Reserved, Remaining
    <3> QED
      BY <3>1, <3>2
  <2> QED
    BY <2>1, <2>2, <2>3, <2>4
<1>2. Total(Cover, Buys) <= Total(Cover', Buys)
  BY <1>1, BuysFinite, TotalMonotone
<1>3. Total(Cover, Buys) \in Int /\ Total(Cover', Buys) \in Int
  BY <1>1, BuysFinite, TotalInt
<1> QED
  BY <1>0, <1>2, <1>3 DEF CoverInv, TypeOK

\* A trade booked costs no more than what its order needed for it.
LEMMA CoverOfTrade ==
  ASSUME TypeOK, OrdersInv, NEW o \in Orders, SideOf(o) = "BUY", NEW k \in DOMAIN fills[o],
         New(o, k), booked' = [booked EXCEPT ![o] = @ \cup {k}], UNCHANGED intent
  PROVE  /\ \A q \in Orders : q # o => Cover'[q] = Cover[q]
         /\ Cover'[o] \in Int /\ Cover'[o] >= Cover[o] + fills[o][k] + Fee
<1>0. /\ Cover[o] \in Int /\ Cover[o] = Fee * ExtraBooked(o) - Needed(o)
      /\ Needed(o) \in Nat /\ Fee * ExtraBooked(o) \in Nat /\ Fee \in Nat /\ ExtraBooked(o) \in Nat
      /\ intent[o].limit \in Nat /\ intent[o].lots \in Nat
  BY CoverNumbers
<1>1. /\ IsFiniteSet(booked[o]) /\ Cardinality(booked[o]) \in Nat /\ k \notin booked[o]
      /\ booked'[o] = booked[o] \cup {k}
  BY FillsFinite DEF New, TypeOK
<1>2. Cardinality(booked'[o]) = Cardinality(booked[o]) + 1 /\ booked'[o] # {}
  BY <1>1, FS_AddElement
<1>3. intent[o].state = "live"
  <2>1. fills[o] # <<>> /\ booked[o] # DOMAIN fills[o]
    BY <1>1
  <2>2. intent[o].state # "absent" /\ intent[o].state # "final"
    BY <2>1 DEF OrdersInv
  <2> QED
    BY <2>2 DEF TypeOK, Intents
<1>4. Remaining(o)' = Remaining(o) - 1
  BY <1>0, <1>1, <1>2 DEF Remaining
<1>5. Remaining(o) \in Nat /\ Remaining(o) >= 1 /\ intent[o].limit * Remaining(o) \in Nat
  <2>1. Outstanding[o] = Remaining(o) /\ Unbooked[o] <= Outstanding[o] /\ Unbooked[o] \in Nat
        /\ Outstanding[o] \in Nat
    BY <1>3, OutstandingNat DEF Outstanding
  <2>2. Unbooked[o] # 0
    <3>1. /\ IsFiniteSet(DOMAIN fills[o]) /\ Cardinality(DOMAIN fills[o]) = Len(fills[o])
          /\ Len(fills[o]) \in Nat /\ booked'[o] \subseteq DOMAIN fills[o]
      BY <1>1, FillsFinite DEF OrdersInv
    <3>2. Cardinality(booked'[o]) <= Cardinality(DOMAIN fills[o])
      BY <3>1, FS_Subset
    <3> QED
      BY <1>1, <1>2, <3>1, <3>2 DEF Unbooked
  <2> QED
    BY <1>3, <2>1, <2>2, CoverNumbers
<1>6. intent[o].limit * (Remaining(o) - 1) = intent[o].limit * Remaining(o) - intent[o].limit
  BY <1>0, <1>5, Products
<1>7. Needed(o)' = intent[o].limit * Remaining(o) - intent[o].limit
  BY <1>2, <1>3, <1>4, <1>6 DEF Needed
<1>8. Cover'[o] = Fee * ExtraBooked(o)' - Needed(o)'
  BY DEF Cover
<1>9. fills[o][k] \in Nat /\ fills[o][k] <= intent[o].limit
  BY FlowsInt DEF OrdersInv
<1>10. ASSUME NEW q \in Orders, q # o PROVE Cover'[q] = Cover[q]
  <2>1. booked'[q] = booked[q]
    BY <1>10 DEF TypeOK
  <2>2. ExtraBooked(q)' = ExtraBooked(q) /\ Needed(q)' = Needed(q)
    BY <2>1 DEF ExtraBooked, Needed, Reserved, Remaining
  <2> QED
    BY <2>2 DEF Cover
<1>11. CASE booked[o] = {}
  <2>1. Cardinality(booked[o]) = 0
    BY <1>11, FS_EmptySet
  <2>2. ExtraBooked(o)' = 0 /\ ExtraBooked(o) = 0
    BY <1>2, <1>11, <2>1 DEF ExtraBooked
  <2>3. Needed(o) = intent[o].limit * Remaining(o) + Fee
    BY <1>3, <1>5, <1>11 DEF Needed, Reserved
  <2>4. Fee * 0 = 0
    BY <1>0, Products
  <2>5. Cover'[o] \in Int /\ Cover'[o] >= Cover[o] + fills[o][k] + Fee
    BY <1>0, <1>5, <1>7, <1>8, <1>9, <2>2, <2>3, <2>4
  <2> QED
    BY <1>10, <2>5
<1>12. CASE booked[o] # {}
  <2>1. PICK x \in Int : x = ExtraBooked(o)'
    BY <1>1, <1>2 DEF ExtraBooked
  <2>2. x - 1 = ExtraBooked(o)
    BY <1>1, <1>2, <1>12, <2>1 DEF ExtraBooked
  <2>3. Fee * (x - 1) = Fee * x - Fee /\ Fee * x \in Int
    BY <1>0, <2>1, Products
  <2>4. Needed(o) = intent[o].limit * Remaining(o)
    BY <1>3, <1>12 DEF Needed
  <2>5. Cover'[o] \in Int /\ Cover'[o] >= Cover[o] + fills[o][k] + Fee
    BY <1>0, <1>5, <1>7, <1>8, <1>9, <2>1, <2>2, <2>3, <2>4
  <2> QED
    BY <1>10, <2>5
<1> QED
  BY <1>11, <1>12

\* A sale brings cash in; a purchase takes what its order needed for it.
LEMMA CoverBook ==
  ASSUME FeesBelowPrices, LedgerInv, OrdersInv, CoverInv,
         NEW o \in Orders, NEW k \in DOMAIN fills[o], Book(o, k)
  PROVE  CoverInv'
<1> USE DEF LedgerInv
<1>0. /\ UNCHANGED intent /\ SideOf(o) \in Sides /\ Total(Cover, Buys) \in Int
      /\ fills[o][k] \in Prices /\ fills[o][k] \in Nat /\ Fee \in Nat /\ cash \in Int
  BY OrderAssumption, MoneyAssumption, FlowsInt, CoverInt DEF Book, TypeOK, SideOf
<1>1. CASE ~New(o, k)
  BY <1>0, <1>1, CoverFrame DEF Book, ledgerVars
<1>2. CASE New(o, k)
  <2>1. /\ booked' = [booked EXCEPT ![o] = @ \cup {k}]
        /\ cash' = IF SideOf(o) = "BUY" THEN cash - (fills[o][k] + Fee) ELSE cash + (fills[o][k] - Fee)
    BY <1>2 DEF Book
  <2>2. CASE SideOf(o) # "BUY"
    <3>1. ASSUME NEW q \in Buys PROVE Cover'[q] = Cover[q]
      <4>1. q \in Orders /\ q # o
        BY <2>2 DEF Buys
      <4>2. booked'[q] = booked[q]
        BY <2>1, <4>1 DEF TypeOK
      <4>3. ExtraBooked(q)' = ExtraBooked(q) /\ Needed(q)' = Needed(q)
        BY <1>0, <4>2 DEF ExtraBooked, Needed, Reserved, Remaining
      <4> QED
        BY <4>1, <4>3 DEF Cover
    <3>2. Total(Cover', Buys) = Total(Cover, Buys)
      BY <3>1, BuysFinite, TotalAgrees
    <3>3. Fee <= fills[o][k]
      BY <1>0 DEF FeesBelowPrices
    <3> QED
      BY <1>0, <2>1, <2>2, <3>2, <3>3 DEF CoverInv
  <2>3. CASE SideOf(o) = "BUY"
    <3>1. \A q \in Orders : q # o => Cover'[q] = Cover[q]
      BY <1>0, <1>2, <2>1, <2>3, CoverOfTrade
    <3>2. Cover'[o] \in Int /\ Cover'[o] >= Cover[o] + fills[o][k] + Fee
      BY <1>0, <1>2, <2>1, <2>3, CoverOfTrade
    <3>3. \A q \in Orders : Cover[q] \in Int
      BY CoverNumbers
    <3>4. PICK rest : rest = Buys \ {o}
      OBVIOUS
    <3>5. o \in Buys /\ rest \subseteq Buys /\ IsFiniteSet(rest) /\ o \notin rest
      BY <2>3, <3>4, BuysFinite, FS_Subset DEF Buys
    <3>6. \A q \in Buys : Cover[q] \in Int /\ Cover'[q] \in Int
      BY <3>1, <3>2, <3>3, BuysFinite
    <3>7. Total(Cover, Buys) = Cover[o] + Total(Cover, rest)
      BY <3>4, <3>5, <3>6, BuysFinite, TotalWithout
    <3>8. Total(Cover', Buys) = Cover'[o] + Total(Cover', rest)
      BY <3>4, <3>5, <3>6, BuysFinite, TotalWithout
    <3>9. Total(Cover', rest) = Total(Cover, rest) /\ Total(Cover, rest) \in Int
      <4>1. \A q \in rest : Cover'[q] = Cover[q] /\ Cover[q] \in Int
        BY <3>1, <3>3, <3>5, BuysFinite
      <4>2. Total(Cover', rest) = Total(Cover, rest)
        BY <3>5, <4>1, TotalAgrees
      <4>3. Total(Cover, rest) \in Int
        BY <3>5, <4>1, TotalInt
      <4> QED
        BY <4>2, <4>3
    <3>10. Cover[o] \in Int
      BY <3>3
    <3> QED
      BY <1>0, <2>1, <2>3, <3>2, <3>7, <3>8, <3>9, <3>10 DEF CoverInv
  <2> QED
    BY <2>2, <2>3
<1> QED
  BY <1>1, <1>2

\* The reservations of cash, as a sum.
LEMMA ReservedCashByTotal ==
  ReservedCash = Total([o \in Orders |-> Reserved(o)], Live("BUY"))
<1>0. PICK R : R = Live("BUY")
  OBVIOUS
<1>b. PICK w : w = [o \in Orders |-> Reserved(o)]
  OBVIOUS
<1>a. R \subseteq Orders /\ IsFiniteSet(R)
  BY <1>0, OrderAssumption, FS_Subset DEF Live
<1>1. PICK g : IsFold(g, w, SUBSET R)
  BY <1>a, FoldExists
<1>2. \A u \in SUBSET R : u # {} => w[CHOOSE x \in u : TRUE] = Reserved(CHOOSE x \in u : TRUE)
  BY <1>a, <1>b
<1>3. g = [u \in SUBSET R |-> IF u = {} THEN 0
             ELSE Reserved(CHOOSE x \in u : TRUE) + g[u \ {CHOOSE x \in u : TRUE}]]
  BY <1>1, <1>2 DEF IsFold, Pick
<1> DEFINE h == CHOOSE h : h = [u \in SUBSET R |-> IF u = {} THEN 0
             ELSE Reserved(CHOOSE x \in u : TRUE) + h[u \ {CHOOSE x \in u : TRUE}]]
<1>4. h = [u \in SUBSET R |-> IF u = {} THEN 0
             ELSE Reserved(CHOOSE x \in u : TRUE) + h[u \ {CHOOSE x \in u : TRUE}]]
  BY <1>3
<1>5. ReservedCash = h[R]
  BY <1>0 DEF ReservedCash, SumOver, FoldSet, MapThenFoldSet
<1> HIDE DEF h
<1>6. IsFold(h, w, SUBSET R)
  BY <1>2, <1>4 DEF IsFold, Pick
<1>7. PICK f : IsFold(f, w, SUBSET R) /\ Total(w, R) = f[R]
  BY <1>a, TotalIsFold
<1>8. h[R] = f[R]
  BY <1>a, <1>6, <1>7, FoldsAgree
<1> QED
  BY <1>0, <1>b, <1>5, <1>7, <1>8

\* The price of a plan, as a sum.
LEMMA PlanCostByTotal ==
  ASSUME NEW plan, IsFiniteSet(DOMAIN plan),
         NEW w, \A o \in DOMAIN plan : w[o] = plan[o].limit * plan[o].lots + Fee
  PROVE  SumOver(DOMAIN plan, LAMBDA o : plan[o].limit * plan[o].lots + Fee) = Total(w, DOMAIN plan)
<1>0. PICK R : R = DOMAIN plan
  OBVIOUS
<1>a. IsFiniteSet(R)
  BY <1>0
<1> DEFINE cost(o) == plan[o].limit * plan[o].lots + Fee
<1>1. PICK g : IsFold(g, w, SUBSET R)
  BY <1>a, FoldExists
<1>2. \A u \in SUBSET R : u # {} => w[CHOOSE x \in u : TRUE] = cost(CHOOSE x \in u : TRUE)
  BY <1>0
<1>3. g = [u \in SUBSET R |-> IF u = {} THEN 0
             ELSE cost(CHOOSE x \in u : TRUE) + g[u \ {CHOOSE x \in u : TRUE}]]
  <2> HIDE DEF cost
  <2> QED
    BY <1>1, <1>2 DEF IsFold, Pick
<1> DEFINE body(f) == [u \in SUBSET R |-> IF u = {} THEN 0
             ELSE cost(CHOOSE x \in u : TRUE) + f[u \ {CHOOSE x \in u : TRUE}]]
           h == CHOOSE f : f = body(f)
<1>4. h = body(h)
  <2>1. g = body(g)
    BY <1>3
  <2> HIDE DEF body
  <2> QED
    BY <2>1, Zenon
<1>5. SumOver(DOMAIN plan, LAMBDA o : plan[o].limit * plan[o].lots + Fee) = h[R]
  BY <1>0 DEF SumOver, FoldSet, MapThenFoldSet
<1> HIDE DEF h
<1>6. IsFold(h, w, SUBSET R)
  <2> HIDE DEF cost
  <2> QED
    BY <1>2, <1>4 DEF IsFold, Pick
<1>7. PICK f : IsFold(f, w, SUBSET R) /\ Total(w, R) = f[R]
  BY <1>a, TotalIsFold
<1>8. h[R] = f[R]
  BY <1>a, <1>6, <1>7, FoldsAgree
<1> QED
  BY <1>0, <1>5, <1>7, <1>8

\* But for extra fees, what is needed is no more than what is reserved.
LEMMA CoverOfReserved ==
  ASSUME TypeOK, OrdersInv, NEW reserved, reserved = [o \in Orders |-> Reserved(o)]
  PROVE  /\ Total(reserved, Live("BUY")) \in Int
         /\ Total(Cover, Buys) + Total(reserved, Live("BUY")) >= 0
<1>1. PICK live : live = Live("BUY")
  OBVIOUS
<1>2. PICK other : other = Buys \ live
  OBVIOUS
<1>3. live \subseteq Buys /\ live \subseteq Orders /\ other \subseteq Buys
  BY <1>1, <1>2 DEF Live, Buys
<1>4. IsFiniteSet(live) /\ IsFiniteSet(other)
  BY <1>3, BuysFinite, FS_Subset
<1>5. \A o \in Buys : Cover[o] \in Int
  BY CoverNumbers, BuysFinite
<1>6. Total(Cover, Buys) = Total(Cover, live) + Total(Cover, other)
  <2>1. Buys = live \cup other /\ live \cap other = {}
    BY <1>2, <1>3
  <2> QED
    BY <1>5, <2>1, BuysFinite, TotalUnion
<1>7. Total(Cover, other) \in Nat
  <2>1. ASSUME NEW o \in other PROVE Cover[o] \in Nat
    <3>1. o \in Orders /\ intent[o].state # "live"
      BY <1>1, <1>2 DEF Buys, Live
    <3>2. Needed(o) = 0
      BY <3>1 DEF Needed
    <3> QED
      BY <3>1, <3>2, CoverNumbers
  <2> QED
    BY <1>4, <2>1, TotalPart
<1>8. ASSUME NEW o \in live
      PROVE  reserved[o] \in Int /\ Cover[o] + reserved[o] \in Nat
  <2>1. o \in Orders /\ intent[o].state = "live"
    BY <1>1 DEF Live
  <2>2. /\ intent[o].limit \in Nat /\ Fee \in Nat /\ Remaining(o) \in Nat
        /\ intent[o].limit * Remaining(o) \in Nat /\ Fee * ExtraBooked(o) \in Nat
        /\ Cover[o] = Fee * ExtraBooked(o) - Needed(o) /\ Needed(o) \in Nat
    BY <2>1, CoverNumbers
  <2>3. reserved[o] = IF Remaining(o) > 0 THEN intent[o].limit * Remaining(o) + Fee ELSE 0
    BY <2>1 DEF Reserved
  <2>4. intent[o].limit * 0 = 0
    BY <2>2, Products
  <2>5. Needed(o) <= reserved[o]
    <3>1. CASE Remaining(o) > 0
      BY <2>1, <2>2, <2>3, <3>1 DEF Needed, Reserved
    <3>2. CASE Remaining(o) = 0
      BY <2>1, <2>2, <2>3, <2>4, <3>2 DEF Needed, Reserved
    <3> QED
      BY <2>2, <3>1, <3>2
  <2> QED
    BY <2>2, <2>3, <2>5
<1>9. PICK sum : sum = [o \in live |-> Cover[o] + reserved[o]]
  OBVIOUS
<1>10. Total(sum, live) \in Nat
  <2>1. \A o \in live : sum[o] \in Nat
    BY <1>8, <1>9
  <2> QED
    BY <1>4, <2>1, TotalPart
<1>11. Total(sum, live) = Total(Cover, live) + Total(reserved, live)
  <2>1. \A o \in live : Cover[o] \in Int /\ reserved[o] \in Int /\ sum[o] = Cover[o] + reserved[o]
    BY <1>3, <1>5, <1>8, <1>9
  <2> QED
    BY <1>4, <2>1, TotalSum
<1>12. Total(reserved, live) \in Int /\ Total(Cover, live) \in Int
  <2>1. \A o \in live : Cover[o] \in Int /\ reserved[o] \in Int
    BY <1>3, <1>5, <1>8
  <2> QED
    BY <1>4, <2>1, TotalInt
<1> QED
  BY <1>1, <1>6, <1>7, <1>10, <1>11, <1>12

\* A plan of buys needs no more than the cash not reserved.
LEMMA CoverPlan ==
  ASSUME LedgerInv, FlowInv, CoverInv, Plan
  PROVE  CoverInv'
<1> USE DEF LedgerInv, FlowInv
<1>0. UNCHANGED <<cash, booked>> /\ pc = "act" /\ task \in Sides /\ readCash = cash /\ cash \in Int
  BY DEF Plan, ledgerVars, ReadInv, TypeOK
<1>1. PICK chosen \in SUBSET Of(task) :
        \E plan \in [chosen -> [state : {"live"}, lots : 1 .. MaxLots, limit : Prices]] :
          /\ IF task = "BUY" THEN Affordable(plan) ELSE Sellable(plan)
          /\ intent' = [o \in Orders |-> IF o \in chosen THEN plan[o] ELSE intent[o]]
  BY DEF Plan
<1>2. PICK plan \in [chosen -> [state : {"live"}, lots : 1 .. MaxLots, limit : Prices]] :
          /\ IF task = "BUY" THEN Affordable(plan) ELSE Sellable(plan)
          /\ intent' = [o \in Orders |-> IF o \in chosen THEN plan[o] ELSE intent[o]]
  BY <1>1
<1>3. \A o \in Orders : Cover[o] \in Int
  BY CoverNumbers
<1>4. ASSUME NEW o \in Orders, o \notin chosen PROVE Cover'[o] = Cover[o]
  <2>1. intent'[o] = intent[o]
    BY <1>2, <1>4
  <2>2. ExtraBooked(o)' = ExtraBooked(o) /\ Needed(o)' = Needed(o)
    BY <1>0, <2>1 DEF ExtraBooked, Needed, Reserved, Remaining
  <2> QED
    BY <2>2 DEF Cover
<1>5. CASE task # "BUY"
  <2>1. \A o \in Buys : o \in Orders /\ o \notin chosen
    BY <1>1, <1>5 DEF Buys, Of
  <2>2. \A o \in Buys : Cover'[o] = Cover[o]
    BY <1>4, <2>1
  <2>3. Total(Cover', Buys) = Total(Cover, Buys)
    BY <2>2, BuysFinite, TotalAgrees
  <2> QED
    BY <1>0, <2>3 DEF CoverInv
<1>6. CASE task = "BUY"
  <2>1. chosen \subseteq Buys /\ DOMAIN plan = chosen
    BY <1>1, <1>2, <1>6 DEF Of, Buys
  <2>2. IsFiniteSet(chosen)
    BY <2>1, BuysFinite, FS_Subset
  <2>3. PICK cost : cost = [o \in chosen |-> plan[o].limit * plan[o].lots + Fee]
    OBVIOUS
  <2>4. ASSUME NEW o \in chosen
        PROVE  cost[o] \in Nat /\ Cover[o] = 0 /\ Cover'[o] = -cost[o]
    <3>1. o \in Of(task) /\ o \in Orders
      BY <1>1 DEF Of
    <3>2. intent[o].state = "absent"
      BY <1>0, <3>1 DEF QuietInv
    <3>3. Cover[o] = 0 /\ booked[o] = {}
      BY <3>1, <3>2, CoverNumbers, OutstandingNat
    <3>4. /\ plan[o].lots \in Nat /\ plan[o].lots >= 1 /\ plan[o].limit \in Nat /\ plan[o].state = "live"
          /\ Fee \in Nat
      BY <1>2, DayAssumption, MoneyAssumption
    <3>5. intent'[o] = plan[o]
      BY <1>2, <3>1
    <3>6. Remaining(o)' = plan[o].lots
      <4>1. Cardinality(booked'[o]) = 0
        BY <1>0, <3>3, FS_EmptySet
      <4> QED
        BY <3>4, <3>5, <4>1 DEF Remaining
    <3>7. plan[o].limit * plan[o].lots \in Nat /\ Fee * 0 = 0
      BY <3>4, Products
    <3>8. Needed(o)' = cost[o]
      BY <1>0, <2>3, <3>3, <3>4, <3>5, <3>6 DEF Needed, Reserved
    <3>9. ExtraBooked(o)' = 0
      BY <1>0, <3>3 DEF ExtraBooked
    <3>10. Cover'[o] = Fee * ExtraBooked(o)' - Needed(o)'
      BY <3>1 DEF Cover
    <3>11. cost[o] \in Nat
      BY <2>3, <3>4, <3>7
    <3> QED
      BY <3>3, <3>7, <3>8, <3>9, <3>10, <3>11
  <2>5. PICK rest : rest = Buys \ chosen
    OBVIOUS
  <2>6. Buys = chosen \cup rest /\ chosen \cap rest = {} /\ rest \subseteq Orders /\ IsFiniteSet(rest)
    BY <2>1, <2>5, BuysFinite, FS_Subset
  <2>7. \A o \in Buys : Cover[o] \in Int /\ Cover'[o] \in Int
    BY <1>3, <1>4, <2>4, BuysFinite
  <2>8. Total(Cover, Buys) = Total(Cover, chosen) + Total(Cover, rest)
    BY <2>6, <2>7, BuysFinite, TotalUnion
  <2>9. Total(Cover', Buys) = Total(Cover', chosen) + Total(Cover', rest)
    BY <2>6, <2>7, BuysFinite, TotalUnion
  <2>10. Total(Cover, chosen) = 0
    BY <2>2, <2>4, TotalZero
  <2>11. Total(Cover', rest) = Total(Cover, rest) /\ Total(Cover, rest) \in Int
    <3>1. \A o \in rest : Cover'[o] = Cover[o] /\ Cover[o] \in Int
      BY <1>3, <1>4, <2>5, <2>6
    <3>2. Total(Cover', rest) = Total(Cover, rest)
      BY <2>6, <3>1, TotalAgrees
    <3>3. Total(Cover, rest) \in Int
      BY <2>6, <3>1, TotalInt
    <3> QED
      BY <3>2, <3>3
  <2>12. Total(cost, chosen) \in Int /\ Total(Cover', chosen) = -Total(cost, chosen)
    <3>1. PICK zero : zero = [o \in chosen |-> 0]
      OBVIOUS
    <3>2. \A o \in chosen : Cover'[o] \in Int /\ cost[o] \in Int /\ zero[o] = Cover'[o] + cost[o]
      BY <2>4, <3>1
    <3>3. Total(zero, chosen) = Total(Cover', chosen) + Total(cost, chosen)
      BY <2>2, <3>2, TotalSum
    <3>4. Total(zero, chosen) = 0
      BY <2>2, <3>1, TotalZero
    <3>5. Total(Cover', chosen) \in Int /\ Total(cost, chosen) \in Int
      BY <2>2, <3>2, TotalInt
    <3> QED
      BY <3>3, <3>4, <3>5
  <2>13. PICK reserved : reserved = [o \in Orders |-> Reserved(o)]
    OBVIOUS
  <2>14. Total(cost, chosen) <= cash - Total(reserved, Live("BUY"))
    <3>1. SumOver(DOMAIN plan, LAMBDA o : plan[o].limit * plan[o].lots + Fee) <= AvailableCash
      BY <1>2, <1>6 DEF Affordable
    <3>2. SumOver(DOMAIN plan, LAMBDA o : plan[o].limit * plan[o].lots + Fee) = Total(cost, DOMAIN plan)
      <4>1. \A o \in DOMAIN plan : cost[o] = plan[o].limit * plan[o].lots + Fee
        BY <2>1, <2>3
      <4> QED
        BY <2>1, <2>2, <4>1, PlanCostByTotal
    <3>3. ReservedCash = Total(reserved, Live("BUY"))
      BY <2>13, ReservedCashByTotal
    <3> QED
      BY <1>0, <2>1, <3>1, <3>2, <3>3 DEF AvailableCash
  <2>15. /\ Total(reserved, Live("BUY")) \in Int
         /\ Total(Cover, Buys) + Total(reserved, Live("BUY")) >= 0
    BY <2>13, CoverOfReserved
  <2>16. cash + Total(Cover', Buys) >= 0
    BY <1>0, <2>8, <2>9, <2>10, <2>11, <2>12, <2>14, <2>15
  <2> QED
    BY <1>0, <2>16 DEF CoverInv
<1> QED
  BY <1>5, <1>6

\* Every step keeps the cash covering what is needed.
LEMMA CoverStep ==
  ASSUME FeesBelowPrices
  PROVE  LedgerInv /\ LedgerInv' /\ FlowInv /\ CoverInv /\ [Next]_vars => CoverInv'
<1> SUFFICES ASSUME LedgerInv, LedgerInv', FlowInv, CoverInv, [Next]_vars PROVE CoverInv'
  OBVIOUS
<1>0. TypeOK /\ OrdersInv /\ TypeOK'
  BY DEF LedgerInv, FlowInv
<1>1. CASE \/ \E side \in Sides : BeginPlan(side)
           \/ BeginSnapshot \/ ReadCash \/ ReadPositions \/ PlanRefused \/ SaveSnapshot \/ Abort \/ NextDay
           \/ UNCHANGED vars \/ \E o \in Orders : Fill(o) \/ CloseOrder(o)
  <2>1. UNCHANGED <<cash, intent, booked>>
    BY <1>1 DEF BeginPlan, BeginSnapshot, Begin, ReadCash, ReadPositions, PlanRefused, SaveSnapshot,
                Abort, NextDay, vars, Fill, CloseOrder, ledgerVars
  <2> QED
    BY <2>1, CoverFrame
<1>2. CASE Plan
  BY <1>2, CoverPlan
<1>3. ASSUME NEW o \in Orders, Finalize(o) PROVE CoverInv'
  BY <1>0, <1>3, CoverFinalize
<1>4. ASSUME NEW o \in Orders, NEW k \in DOMAIN fills[o], Book(o, k) PROVE CoverInv'
  BY <1>0, <1>4, CoverBook
<1> QED
  BY <1>1, <1>2, <1>3, <1>4 DEF Next

\* The cash always covers what is needed.
LEMMA CoverAlways ==
  ASSUME FeesBelowPrices
  PROVE  Spec => []CoverInv
<1>1. Init /\ LedgerInv /\ FlowInv => CoverInv
  BY CoverInit DEF LedgerInv, FlowInv
<1>2. LedgerInv /\ LedgerInv' /\ FlowInv /\ CoverInv /\ [Next]_vars => CoverInv'
  BY CoverStep
<1> QED
  BY <1>1, <1>2, LedgerAlways, FlowAlways, PTL DEF Spec

\* The trades of an order that the ledger does not know.
Left == [o \in Orders |-> {<<o, k>> : k \in DOMAIN fills[o] \ booked[o]}]

\* They are finitely many fills, as many as are unbooked.
LEMMA LeftNumbers ==
  ASSUME TypeOK, OrdersInv, NEW o \in Orders
  PROVE  /\ IsFiniteSet(Left[o]) /\ Cardinality(Left[o]) = Unbooked[o] /\ Unbooked[o] \in Nat
         /\ \A t \in Left[o] : \E k \in DOMAIN fills[o] :
              t = <<o, k>> /\ k \notin booked[o] /\ t[1] = o /\ CashFlow[t] = CashOf(t)
              /\ CashFlow[t] \in Int /\ CashOf(t) = (IF SideOf(o) = "BUY" THEN -1 ELSE 1) * fills[o][k] - Fee
<1>1. /\ DOMAIN fills[o] \in SUBSET Nat /\ IsFiniteSet(DOMAIN fills[o])
      /\ Cardinality(DOMAIN fills[o]) = Len(fills[o]) /\ booked[o] \subseteq DOMAIN fills[o]
      /\ Cardinality(booked[o]) \in Nat /\ Len(fills[o]) \in Nat /\ Unbooked[o] \in Nat
  BY FillsFinite, OutstandingNat DEF OrdersInv
<1>2. PICK K : K = DOMAIN fills[o] \ booked[o]
  OBVIOUS
<1>3. IsFiniteSet(K)
  BY <1>1, <1>2, FS_Subset
<1>4. Cardinality(K) = Unbooked[o]
  <2>1. Cardinality(K) = Cardinality(DOMAIN fills[o]) - Cardinality(DOMAIN fills[o] \cap booked[o])
    BY <1>1, <1>2, FS_Difference
  <2>2. DOMAIN fills[o] \cap booked[o] = booked[o]
    BY <1>1
  <2> QED
    BY <1>1, <2>1, <2>2 DEF Unbooked
<1>5. Left[o] = {<<o, k>> : k \in K}
  BY <1>2 DEF Left
<1>6. IsFiniteSet(Left[o]) /\ Cardinality(Left[o]) = Cardinality(K)
  BY <1>3, <1>5, PairsFinite
<1>7. ASSUME NEW t \in Left[o]
      PROVE  \E k \in DOMAIN fills[o] :
               t = <<o, k>> /\ k \notin booked[o] /\ t[1] = o /\ CashFlow[t] = CashOf(t)
               /\ CashFlow[t] \in Int /\ CashOf(t) = (IF SideOf(o) = "BUY" THEN -1 ELSE 1) * fills[o][k] - Fee
  <2>1. PICK k \in K : t = <<o, k>>
    BY <1>5
  <2>2. k \in DOMAIN fills[o] /\ k \notin booked[o]
    BY <1>2
  <2>3. t[1] = o /\ t[2] = k
    BY <2>1
  <2>4. CashFlow[t] = CashOf(t) /\ CashFlow[t] \in Int
    BY <2>1, <2>2, FlowsInt
  <2>5. CashOf(t) = (IF SideOf(o) = "BUY" THEN -1 ELSE 1) * fills[o][k] - Fee
    BY <2>3 DEF CashOf
  <2> QED
    BY <2>1, <2>2, <2>3, <2>4, <2>5
<1> QED
  BY <1>1, <1>4, <1>6, <1>7

\* What the ledger does not know of a sale brings cash in.
LEMMA LeftOfSell ==
  ASSUME FeesBelowPrices, TypeOK, OrdersInv, NEW o \in Orders, SideOf(o) # "BUY"
  PROVE  Total(CashFlow, Left[o]) \in Nat
<1>1. ASSUME NEW t \in Left[o] PROVE CashFlow[t] \in Nat
  <2>1. PICK k \in DOMAIN fills[o] : CashFlow[t] = CashOf(t) /\
              CashOf(t) = (IF SideOf(o) = "BUY" THEN -1 ELSE 1) * fills[o][k] - Fee
    BY LeftNumbers
  <2>2. fills[o][k] \in Nat /\ fills[o][k] \in Prices /\ Fee \in Nat /\ Fee <= fills[o][k]
    BY FlowsInt, MoneyAssumption DEF FeesBelowPrices
  <2> QED
    BY <2>1, <2>2
<1> QED
  BY <1>1, LeftNumbers, TotalPart

\* What it does not know of a purchase takes no more than was still needed, but
\* for the fees of further trades.
LEMMA LeftOfBuy ==
  ASSUME TypeOK, OrdersInv, NEW o \in Orders, SideOf(o) = "BUY"
  PROVE  /\ Total(CashFlow, Left[o]) \in Int /\ ExtraMade[o] \in Nat /\ Fee * ExtraMade[o] \in Int
         /\ Cover[o] <= Total(CashFlow, Left[o]) + Fee * ExtraMade[o]
<1>0. /\ intent[o].limit \in Nat /\ Fee \in Nat /\ Cover[o] \in Int
      /\ Cover[o] = Fee * ExtraBooked(o) - Needed(o) /\ Fee * ExtraBooked(o) \in Nat
      /\ ExtraBooked(o) \in Nat /\ Needed(o) \in Nat
  BY CoverNumbers
<1>1. PICK u \in Nat : u = Unbooked[o] /\ IsFiniteSet(Left[o]) /\ Cardinality(Left[o]) = u
  BY LeftNumbers
<1>2. PICK L \in Nat : L = intent[o].limit
  BY <1>0
<1>3. PICK c \in Int : c = -(L + Fee)
  BY <1>0
<1>4. PICK flat : flat = [t \in Left[o] |-> c]
  OBVIOUS
<1>5. ASSUME NEW t \in Left[o] PROVE CashFlow[t] \in Int /\ flat[t] \in Int /\ flat[t] <= CashFlow[t]
  <2>1. PICK k \in DOMAIN fills[o] : CashFlow[t] = CashOf(t) /\ CashFlow[t] \in Int /\
              CashOf(t) = (IF SideOf(o) = "BUY" THEN -1 ELSE 1) * fills[o][k] - Fee
    BY LeftNumbers
  <2>2. fills[o][k] \in Nat /\ fills[o][k] <= L
    BY <1>2, FlowsInt DEF OrdersInv
  <2> QED
    BY <1>0, <1>3, <1>4, <2>1, <2>2
<1>6. Total(flat, Left[o]) <= Total(CashFlow, Left[o])
  BY <1>1, <1>5, TotalMonotone
<1>7. Total(flat, Left[o]) \in Int /\ Total(CashFlow, Left[o]) \in Int
  BY <1>1, <1>5, TotalInt
<1>8. Total(flat, Left[o]) = c * u
  BY <1>1, <1>4, TotalSame
<1>9. c * u = -(L * u) - Fee * u /\ L * u \in Nat /\ Fee * u \in Nat
  BY <1>0, <1>1, <1>2, <1>3
<1>10. /\ Cardinality(booked[o]) \in Nat /\ Len(fills[o]) \in Nat /\ IsFiniteSet(booked[o])
       /\ u = Len(fills[o]) - Cardinality(booked[o]) /\ fills[o] \in Seq(Prices)
  BY <1>1, FillsFinite DEF Unbooked, TypeOK
<1>11. PICK e \in Nat : e = ExtraMade[o]
  <2>1. ExtraMade[o] = IF fills[o] = <<>> THEN 0 ELSE Len(fills[o]) - 1
    BY DEF ExtraMade
  <2>2. fills[o] # <<>> => Len(fills[o]) # 0
    BY <1>10
  <2>3. fills[o] # <<>> => Len(fills[o]) - 1 \in Nat
    BY <1>10, <2>2
  <2> QED
    BY <2>1, <2>3
<1>12. Fee * e \in Nat /\ L * 0 = 0 /\ Fee * 0 = 0
  BY <1>0, <1>11, Products
<1>13. booked[o] = {} <=> Cardinality(booked[o]) = 0
  BY <1>10, FS_EmptySet
<1>14. fills[o] = <<>> <=> Len(fills[o]) = 0
  BY <1>10
<1>15. intent[o].state = "live" => /\ Remaining(o) \in Nat /\ u <= Remaining(o)
                                   /\ L * Remaining(o) \in Nat /\ L * u <= L * Remaining(o)
  <2>1. ASSUME intent[o].state = "live" PROVE Remaining(o) \in Nat /\ u <= Remaining(o)
    BY <1>1, <2>1, OutstandingNat DEF Outstanding
  <2> QED
    BY <1>1, <1>2, <2>1, Products
<1>16. intent[o].state # "live" => u = 0
  BY <1>1, OutstandingNat DEF Outstanding
\* The fees: every trade left is one more, but for an order's first.
<1>17. CASE Cardinality(booked[o]) = 0
  <2>1. ExtraBooked(o) = 0
    BY <1>13, <1>17 DEF ExtraBooked
  <2>2. CASE u = 0
    <3>1. e = 0
      BY <1>10, <1>11, <1>14, <1>17, <2>2 DEF ExtraMade
    <3> QED
      BY <1>0, <1>6, <1>7, <1>8, <1>9, <1>11, <1>12, <2>1, <2>2, <3>1
  <2>3. CASE u > 0
    <3>1. e = u - 1
      BY <1>10, <1>11, <1>14, <1>17, <2>3 DEF ExtraMade
    <3>2. Fee * e = Fee * u - Fee
      BY <1>0, <3>1, Products
    <3>3. intent[o].state = "live"
      BY <1>16, <2>3
    <3>4. Needed(o) = L * Remaining(o) + Fee
      BY <1>2, <1>13, <1>15, <1>17, <2>3, <3>3 DEF Needed, Reserved
    <3>5. PICK lu \in Int, lr \in Int, fu \in Int, t \in Int :
            /\ lu = L * u /\ lr = L * Remaining(o) /\ fu = Fee * u /\ t = Total(CashFlow, Left[o])
      BY <1>7, <1>9, <1>15, <3>3
    <3>6. lu <= lr /\ -lu - fu <= t
      BY <1>6, <1>7, <1>8, <1>9, <1>15, <3>3, <3>5
    <3>7. Cover[o] = -(lr + Fee)
      BY <1>0, <1>12, <2>1, <3>4, <3>5
    <3>8. Fee * ExtraMade[o] = fu - Fee
      BY <1>11, <3>2, <3>5
    <3>9. Cover[o] <= t + (fu - Fee)
      BY <1>0, <3>5, <3>6, <3>7
    <3>10. Fee * ExtraMade[o] \in Int /\ ExtraMade[o] \in Nat
      BY <1>11, <1>12
    <3> QED
      BY <1>7, <3>5, <3>8, <3>9, <3>10
  <2> QED
    BY <2>2, <2>3
<1>18. CASE Cardinality(booked[o]) # 0
  <2>1. PICK x \in Nat : x = ExtraBooked(o) /\ x = Cardinality(booked[o]) - 1
    BY <1>10, <1>13, <1>18 DEF ExtraBooked
  <2>2. e = x + u
    BY <1>10, <1>11, <1>14, <1>18, <2>1 DEF ExtraMade
  <2>3. Fee * e = Fee * x + Fee * u
    BY <1>0, <2>2
  <2>4. L * u <= Needed(o)
    <3>1. CASE intent[o].state = "live"
      <4>1. Needed(o) = L * Remaining(o)
        BY <1>2, <1>13, <1>18, <3>1 DEF Needed
      <4> QED
        BY <1>15, <3>1, <4>1
    <3>2. CASE intent[o].state # "live"
      BY <1>0, <1>12, <1>16, <3>2
    <3> QED
      BY <3>1, <3>2
  <2> QED
    BY <1>0, <1>6, <1>7, <1>8, <1>9, <1>11, <1>12, <2>1, <2>3, <2>4
<1> QED
  BY <1>17, <1>18

\* The fees that plans did not reserve, as a sum.
LEMMA ExtraByTotal ==
  ASSUME NEW R, R \subseteq Orders, \A o \in R : fills[o] # <<>>
  PROVE  SumOver(R, LAMBDA o : Len(fills[o]) - 1) = Total(ExtraMade, R)
<1>a. IsFiniteSet(R)
  BY OrderAssumption, FS_Subset
<1> DEFINE extra(o) == Len(fills[o]) - 1
<1>1. PICK g : IsFold(g, ExtraMade, SUBSET R)
  BY <1>a, FoldExists
<1>2. \A u \in SUBSET R : u # {} => ExtraMade[CHOOSE x \in u : TRUE] = extra(CHOOSE x \in u : TRUE)
  BY DEF ExtraMade
<1>3. g = [u \in SUBSET R |-> IF u = {} THEN 0
             ELSE extra(CHOOSE x \in u : TRUE) + g[u \ {CHOOSE x \in u : TRUE}]]
  BY <1>1, <1>2 DEF IsFold, Pick
<1> DEFINE h == CHOOSE h : h = [u \in SUBSET R |-> IF u = {} THEN 0
             ELSE extra(CHOOSE x \in u : TRUE) + h[u \ {CHOOSE x \in u : TRUE}]]
<1>4. h = [u \in SUBSET R |-> IF u = {} THEN 0
             ELSE extra(CHOOSE x \in u : TRUE) + h[u \ {CHOOSE x \in u : TRUE}]]
  BY <1>3
<1>5. SumOver(R, LAMBDA o : Len(fills[o]) - 1) = h[R]
  BY DEF SumOver, FoldSet, MapThenFoldSet
<1> HIDE DEF h
<1>6. IsFold(h, ExtraMade, SUBSET R)
  BY <1>2, <1>4 DEF IsFold, Pick
<1>7. PICK f : IsFold(f, ExtraMade, SUBSET R) /\ Total(ExtraMade, R) = f[R]
  BY <1>a, TotalIsFold
<1>8. h[R] = f[R]
  BY <1>a, <1>6, <1>7, FoldsAgree
<1> QED
  BY <1>5, <1>7, <1>8

\* What the ledger does not know, order by order.
LEMMA UnknownCash ==
  ASSUME FeesBelowPrices, TypeOK, OrdersInv
  PROVE  /\ Total(CashFlow, Made \ TradesOf(booked)) \in Int
         /\ Total(Cover, Buys) <= Total(CashFlow, Made \ TradesOf(booked)) + Fee * Total(ExtraMade, Buys)
         /\ Total(ExtraMade, Buys) \in Int
<1>0. Fee \in Nat
  BY MoneyAssumption
<1>1. PICK U : U = Made \ TradesOf(booked)
  OBVIOUS
<1>2. U = Parts(Left, Orders)
  <2>1. ASSUME NEW t \in U PROVE t \in Parts(Left, Orders)
    <3>1. t[1] \in Orders /\ t[2] \in DOMAIN fills[t[1]] /\ t = <<t[1], t[2]>>
      BY <1>1, MadeFinite
    <3>2. t[2] \notin booked[t[1]]
      BY <1>1, <3>1 DEF TradesOf
    <3>3. t \in Left[t[1]]
      BY <3>1, <3>2 DEF Left
    <3> QED
      BY <3>1, <3>3 DEF Parts
  <2>2. ASSUME NEW t \in Parts(Left, Orders) PROVE t \in U
    <3>1. PICK o \in Orders : t \in Left[o]
      BY DEF Parts
    <3>2. PICK k \in DOMAIN fills[o] : t = <<o, k>> /\ k \notin booked[o]
      BY <3>1, LeftNumbers
    <3>3. t \in Made
      BY <3>2, MadeFinite
    <3>4. t \notin TradesOf(booked)
      BY <3>2 DEF TradesOf
    <3> QED
      BY <1>1, <3>3, <3>4
  <2> QED
    BY <2>1, <2>2
<1>3. \A o \in Orders : IsFiniteSet(Left[o]) /\ \A t \in Left[o] : CashFlow[t] \in Int /\ t[1] = o
  BY LeftNumbers
<1>4. \A o, p \in Orders : o # p => Left[o] \cap Left[p] = {}
  BY <1>3
<1>5. PICK flow : flow = [o \in Orders |-> Total(CashFlow, Left[o])]
  OBVIOUS
<1>6. Total(CashFlow, U) = Total(flow, Orders)
  BY <1>2, <1>3, <1>4, <1>5, OrderAssumption, TotalByParts
<1>7. PICK sells : sells = Orders \ Buys
  OBVIOUS
<1>8. Orders = Buys \cup sells /\ Buys \cap sells = {} /\ IsFiniteSet(sells) /\ sells \subseteq Orders
  BY <1>7, BuysFinite, OrderAssumption, FS_Subset
<1>9. \A o \in sells : flow[o] \in Nat
  <2>1. \A o \in sells : o \in Orders /\ SideOf(o) # "BUY"
    BY <1>7 DEF Buys
  <2> QED
    BY <1>5, <2>1, LeftOfSell
<1>10. \A o \in Buys : /\ flow[o] \in Int /\ ExtraMade[o] \in Nat /\ Fee * ExtraMade[o] \in Int
                       /\ Cover[o] <= flow[o] + Fee * ExtraMade[o] /\ Cover[o] \in Int
  <2>1. \A o \in Buys : o \in Orders /\ SideOf(o) = "BUY"
    BY DEF Buys
  <2> QED
    BY <1>5, <2>1, LeftOfBuy, CoverNumbers
<1>11. Total(flow, Orders) = Total(flow, Buys) + Total(flow, sells)
  BY <1>8, <1>9, <1>10, OrderAssumption, TotalUnion
<1>12. Total(flow, sells) \in Nat
  BY <1>8, <1>9, TotalPart
<1>13. PICK fees : fees = [o \in Buys |-> Fee * ExtraMade[o]]
  OBVIOUS
<1>14. PICK sum : sum = [o \in Buys |-> flow[o] + Fee * ExtraMade[o]]
  OBVIOUS
<1>15. Total(fees, Buys) = Fee * Total(ExtraMade, Buys)
  <2>1. \A o \in Buys : ExtraMade[o] \in Int /\ fees[o] = Fee * ExtraMade[o]
    BY <1>10, <1>13
  <2> QED
    BY <1>0, <2>1, BuysFinite, TotalScaled
<1>16. Total(sum, Buys) = Total(flow, Buys) + Total(fees, Buys)
  <2>1. \A o \in Buys : flow[o] \in Int /\ fees[o] \in Int /\ sum[o] = flow[o] + fees[o]
    BY <1>10, <1>13, <1>14
  <2> QED
    BY <2>1, BuysFinite, TotalSum
<1>17. Total(Cover, Buys) <= Total(sum, Buys)
  <2>1. \A o \in Buys : Cover[o] \in Int /\ sum[o] \in Int /\ Cover[o] <= sum[o]
    BY <1>10, <1>14
  <2> QED
    BY <2>1, BuysFinite, TotalMonotone
<1>18. /\ Total(flow, Buys) \in Int /\ Total(fees, Buys) \in Int /\ Total(Cover, Buys) \in Int
       /\ Total(ExtraMade, Buys) \in Int
  <2>1. \A o \in Buys : flow[o] \in Int /\ fees[o] \in Int /\ Cover[o] \in Int /\ ExtraMade[o] \in Int
    BY <1>10, <1>13
  <2> QED
    BY <2>1, BuysFinite, TotalInt
<1>19. Total(CashFlow, U) \in Int
  BY <1>6, <1>11, <1>12, <1>18
<1>20. Total(Cover, Buys) <= Total(CashFlow, U) + Total(fees, Buys)
  BY <1>6, <1>11, <1>12, <1>16, <1>17, <1>18
<1> QED
  BY <1>1, <1>15, <1>18, <1>19, <1>20

\* So the property follows from the layers.
LEMMA OverdraftFollows ==
  ASSUME FeesBelowPrices, LedgerInv, FlowInv, CountInv, CoverInv
  PROVE  OverdraftIsExtraFees
<1> USE DEF LedgerInv, FlowInv
<1>0. Fee \in Nat /\ OpeningCash \in Int /\ cash \in Int
  BY MoneyAssumption DEF TypeOK
<1>1. PICK B : B = TradesOf(booked)
  OBVIOUS
<1>2. PICK U : U = Made \ TradesOf(booked)
  OBVIOUS
<1>3. Made = B \cup U /\ B \cap U = {} /\ IsFiniteSet(Made) /\ Made \subseteq AllTrades /\ IsFiniteSet(B)
  BY <1>1, <1>2, MadeFinite, FS_Subset
<1>4. \A t \in Made : CashFlow[t] \in Int
  <2> SUFFICES ASSUME NEW t \in Made PROVE CashFlow[t] \in Int
    OBVIOUS
  <2>1. t[1] \in Orders /\ t[2] \in DOMAIN fills[t[1]] /\ t = <<t[1], t[2]>>
    BY MadeFinite
  <2>2. CashFlow[<<t[1], t[2]>>] \in Int
    BY <2>1, FlowsInt
  <2> QED
    BY <2>1, <2>2
<1>5. CashBy(Made) = Total(CashFlow, B) + Total(CashFlow, U)
  <2>1. Total(CashFlow, Made) = Total(CashFlow, B) + Total(CashFlow, U)
    BY <1>3, <1>4, TotalUnion
  <2>2. CashBy(Made) = Total(CashFlow, Made)
    BY <1>3, CashByTotal
  <2> QED
    BY <2>1, <2>2
<1>6. cash = OpeningCash + Total(CashFlow, B)
  BY <1>1 DEF CountInv
<1>7. Total(CashFlow, B) \in Int
  BY <1>3, <1>4, TotalInt
<1>8. PICK x \in Int : x = Total(ExtraMade, Buys)
  BY UnknownCash
<1>9. Total(CashFlow, U) \in Int /\ Total(Cover, Buys) <= Total(CashFlow, U) + Fee * x
  BY <1>2, <1>8, UnknownCash
<1>10. Total(Cover, Buys) \in Int /\ cash + Total(Cover, Buys) >= 0
  BY CoverInt DEF CoverInv
<1>11. PICK R : R = {o \in Orders : SideOf(o) = "BUY" /\ fills[o] # <<>>}
  OBVIOUS
<1>12. SumOver(R, LAMBDA o : Len(fills[o]) - 1) = x
  <2>1. SumOver(R, LAMBDA o : Len(fills[o]) - 1) = Total(ExtraMade, R)
    <3>1. R \subseteq Orders /\ \A o \in R : fills[o] # <<>>
      BY <1>11
    <3> QED
      BY <3>1, ExtraByTotal
  <2>2. Total(ExtraMade, Buys) = Total(ExtraMade, R)
    <3>1. R \subseteq Buys
      BY <1>11 DEF Buys
    <3>2. \A o \in Buys \ R : ExtraMade[o] = 0
      BY <1>11 DEF Buys, ExtraMade
    <3>3. \A o \in Buys : ExtraMade[o] \in Int
      BY LeftOfBuy DEF Buys
    <3> QED
      BY <3>1, <3>2, <3>3, BuysFinite, TotalRestricted
  <2> QED
    BY <1>8, <2>1, <2>2
<1>13. Fee * x \in Int /\ -Fee * x = -(Fee * x)
  BY <1>0
<1>14. OpeningCash + CashBy(Made) >= -Fee * x
  BY <1>0, <1>5, <1>6, <1>7, <1>9, <1>10, <1>13
<1> QED
  BY <1>11, <1>12, <1>14 DEF OverdraftIsExtraFees

\* Plans made from a ledger that trails the broker oversell nothing and overdraw
\* nothing but fees, for any orders, prices, lots and days, if a sale brings in
\* its fee.
THEOREM NothingOversold ==
  ASSUME FeesBelowPrices
  PROVE  Spec => []NothingIsOversold
<1>1. LedgerInv /\ FlowInv /\ CountInv /\ CoverInv /\ NeverShort => NothingIsOversold
  BY OverdraftFollows DEF NothingIsOversold
<1> QED
  BY <1>1, LedgerAlways, FlowAlways, CountAlways, CoverAlways, AccountNeverShort, PTL
=============================================================================
