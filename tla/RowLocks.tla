------------------------------ MODULE RowLocks ------------------------------
(***************************************************************************)
(* The row locks of the state database that the engine thread and the       *)
(* callback thread meet at: account, strategy, positions, intents, broker    *)
(* orders and trades.  A transaction of the repository is the sequence of    *)
(* lock requests its statements make; it ends by a commit or, as the victim  *)
(* of a deadlock, by a rollback that its caller sees as an exception.        *)
(*                                                                         *)
(* Plain SELECTs take no lock.  SELECT ... FOR UPDATE of a row that is not   *)
(* there locks the gap it would be in, which keeps others from inserting     *)
(* there but not from locking the gap too: MySQL's default isolation, which  *)
(* create_state_engine leaves as it is.                                     *)
(***************************************************************************)
EXTENDS Integers, Sequences, FiniteSets, FiniteSetsExt

CONSTANTS
  Orders,      \* broker orders the account's reports are about
  Trades,      \* broker trades, numbered
  Amount,      \* Amount[t]: what trade t adds to the virtual cash
  Breaching,   \* trades after which the cash is below zero
  OldOrders,   \* orders that have a row already
  MaxEngine,   \* bound: transactions of the engine thread
  MaxReports   \* bound: transactions of the callback thread

ASSUME TradeAssumption ==
  /\ IsFiniteSet(Trades) /\ Trades \subseteq Nat /\ Breaching \subseteq Trades
  /\ Amount \in [Trades -> Int]
ASSUME OrderAssumption == Orders \subseteq Nat /\ OldOrders \subseteq Orders
ASSUME TransactionBounds == {MaxEngine, MaxReports} \subseteq Nat

\* "second" is the connection pause_account opens while the transaction of
\* the callback is still open on the consumer's own.
Connections == {"engine", "consumer", "second"}

VARIABLES
  rows,     \* committed rows
  cash,     \* live_strategy.virtual_cash, committed
  op,       \* the transaction each connection is in
  todo,     \* its lock requests still to make
  ahead,    \* the orders and trades of the broker's answer it has not come to
  held,     \* its locks
  fresh,    \* rows it inserted
  readCash, \* virtual_cash as it read it
  newCash,  \* {virtual_cash as it wrote it}, or {}
  started,  \* transactions each thread has started
  failed    \* history: transactions rolled back

tx        == <<op, todo, ahead, held, fresh, readCash, newCash>>
locksVars == <<rows, cash, tx, started, failed>>

Account   == <<"account", 0>>
Strategy  == <<"strategy", 0>>
Position  == <<"position", 0>>
Order(o)  == <<"order", o>>
Intent(o) == <<"intent", o>>
Trade(t)  == <<"trade", t>>
Rows == {Account, Strategy, Position} \cup {Order(o) : o \in Orders}
        \cup {Intent(o) : o \in Orders} \cup {Trade(t) : t \in Trades}

\* Requests: a locking read, a write, the shared lock an inserted child row
\* takes on its parent, a read without a lock, the second connection, and the
\* write of the cash that a trade makes.
Ask(kind, row) == [kind |-> kind, row |-> row]
Probe(row) == Ask("probe", row)
Write(row) == Ask("write", row)
Share(row) == Ask("share", row)
Plain(row) == Ask("plain", row)
Nested     == Ask("nested", Account)
Pay(t)     == [kind |-> "pay", row |-> Strategy, trade |-> t]

Nothing == [orders |-> {}, trades |-> {}]

LocksInit ==
  /\ rows = {Account, Strategy} \cup {Intent(o) : o \in Orders} \cup {Order(o) : o \in OldOrders}
  /\ cash = 0
  /\ op = [c \in Connections |-> "none"]
  /\ todo = [c \in Connections |-> <<>>] /\ ahead = [c \in Connections |-> Nothing]
  /\ held = [c \in Connections |-> {}] /\ fresh = [c \in Connections |-> {}]
  /\ readCash = [c \in Connections |-> 0] /\ newCash = [c \in Connections |-> {}]
  /\ started = [c \in Connections |-> 0] /\ failed = {}
-----------------------------------------------------------------------------
(* The transactions, as the requests they make. *)

\* bind_broker_order: upsert_broker_order, then _set_intent_status.  The order's
\* foreign key points at an index of the intents that a change of status leaves
\* alone (uq_live_intent_owner): its check waits for nobody here.
BindOrder(o) == <<Probe(Order(o)), Write(Order(o)), Write(Intent(o))>>

\* record_strategy_trade_if_absent.
StrategyRead_NoLock == Plain(Strategy) \* variant
StrategyRead == Probe(Strategy)
Booking(t) == <<StrategyRead, Probe(Trade(t)), Probe(Position), Pay(t), Write(Position), Write(Trade(t))>>
BookTrade(t) == IF t \in Breaching THEN Append(Booking(t), Write(Account)) ELSE Booking(t)

\* sync_account, at the start of every job.
SyncAccount == <<Probe(Account), Write(Account), Probe(Strategy), Write(Strategy)>>

\* start_job_run of a strategy step: the row's two parents.
StartStep == <<Share(Account), Share(Strategy)>>

\* settle_strategy_positions: the rows it finds are locked as they are read.
SettlePositions == <<Probe(Position)>>

\* reconcile: one transaction for every order and then every trade of the
\* broker's answers, in whatever order they are there.  The intents whose result
\* it looks at in the end are those it has locked.
Answers == [orders |-> Orders, trades |-> Trades]

\* _persist_order and _persist_trade of something nobody knows: plain reads,
\* then the pause on a connection of its own.
UnknownReport == <<Nested>>

PauseAccount == <<Write(Account)>>

Transaction(name, program, answers) == [name |-> name, program |-> program, ahead |-> answers]
Bindings == {Transaction("order", BindOrder(o), Nothing) : o \in Orders}
EngineTransactions ==
  {Transaction("sync", SyncAccount, Nothing), Transaction("step", StartStep, Nothing),
   Transaction("settle", SettlePositions, Nothing), Transaction("pause", PauseAccount, Nothing),
   Transaction("reconcile", <<>>, Answers)} \cup Bindings
ConsumerTransactions ==
  {Transaction("unknown", UnknownReport, Nothing)} \cup Bindings
    \cup {Transaction("trade", BookTrade(t), Nothing) : t \in Trades}
-----------------------------------------------------------------------------
(* The lock table. *)
Others(c) == Connections \ {c}
Present(row) == row \in rows \/ \E c \in Connections : row \in fresh[c]
Holds(c, mode, row) == [mode |-> mode, row |-> row] \in held[c]

\* Orders, like trades, are inserted at the end: their missing rows are in
\* one gap.
SameGap(r1, r2) == r1[1] = r2[1]

\* The connections a request of c has to wait for.
Blockers(c) ==
  IF todo[c] = <<>> THEN {}
  ELSE LET r == Head(todo[c]) IN
    IF r.kind \in {"plain", "nested"} THEN {}
    ELSE IF r.kind = "share" THEN {d \in Others(c) : Holds(d, "X", r.row)}
    ELSE IF r.kind = "write" /\ ~Present(r.row)
         THEN {d \in Others(c) : \E l \in held[d] : l.mode = "gap" /\ SameGap(l.row, r.row)}
    ELSE {d \in Others(c) : Holds(d, "X", r.row) \/ Holds(d, "S", r.row)}

Lock(c, mode, row) == held' = [held EXCEPT ![c] = @ \cup {[mode |-> mode, row |-> row]}]

\* What the granted request does to the transaction; virtual_cash is written
\* from the value read under the lock.
Effect(c, r) ==
  /\ IF r.kind \in {"plain", "nested"} THEN UNCHANGED held
     ELSE Lock(c, IF r.kind = "share" THEN "S"
                  ELSE IF r.kind = "probe" /\ ~Present(r.row) THEN "gap" ELSE "X", r.row)
  /\ fresh' = IF r.kind = "write" /\ ~Present(r.row)
              THEN [fresh EXCEPT ![c] = @ \cup {r.row}] ELSE fresh
  /\ readCash' = IF r.row = Strategy /\ r.kind \in {"plain", "probe"}
                 THEN [readCash EXCEPT ![c] = IF newCash[c] = {} THEN cash ELSE CHOOSE v \in newCash[c] : TRUE]
                 ELSE readCash
  /\ newCash' = IF r.kind = "pay" THEN [newCash EXCEPT ![c] = {readCash[c] + Amount[r.trade]}] ELSE newCash
-----------------------------------------------------------------------------
BeginTx(c, o) ==
  /\ op[c] = "none"
  /\ op' = [op EXCEPT ![c] = o.name] /\ todo' = [todo EXCEPT ![c] = o.program]
  /\ ahead' = [ahead EXCEPT ![c] = o.ahead]
  /\ UNCHANGED <<rows, cash, held, fresh, readCash, newCash, failed>>

StartEngine ==
  /\ started["engine"] < MaxEngine
  /\ \E o \in EngineTransactions : BeginTx("engine", o)
  /\ started' = [started EXCEPT !["engine"] = @ + 1]

StartConsumer ==
  /\ started["consumer"] < MaxReports
  /\ \E o \in ConsumerTransactions : BeginTx("consumer", o)
  /\ started' = [started EXCEPT !["consumer"] = @ + 1]

\* A trade that has a row is booked already.
AfterRequest(c, r) ==
  IF r.kind = "probe" /\ r.row[1] = "trade" /\ Present(r.row) THEN <<>> ELSE Tail(todo[c])

Granted(c) ==
  /\ todo[c] # <<>> /\ Blockers(c) = {}
  /\ LET r == Head(todo[c]) IN
       r.kind # "nested" /\ Effect(c, r) /\ todo' = [todo EXCEPT ![c] = AfterRequest(c, r)]
  /\ UNCHANGED <<rows, cash, op, ahead, started, failed>>

\* The loops of reconcile come to the next order, and then to the next trade.
NextAnswer(c) ==
  /\ todo[c] = <<>>
  /\ \/ \E o \in ahead[c].orders :
          todo' = [todo EXCEPT ![c] = BindOrder(o)] /\ ahead' = [ahead EXCEPT ![c].orders = @ \ {o}]
     \/ /\ ahead[c].orders = {}
        /\ \E t \in ahead[c].trades :
             todo' = [todo EXCEPT ![c] = BookTrade(t)] /\ ahead' = [ahead EXCEPT ![c].trades = @ \ {t}]
  /\ UNCHANGED <<rows, cash, op, held, fresh, readCash, newCash, started, failed>>

\* pause_account without a connection argument: a transaction of its own that
\* the callback's transaction waits for.
OpenSecond ==
  /\ todo["consumer"] # <<>> /\ Head(todo["consumer"]).kind = "nested"
  /\ BeginTx("second", Transaction("pause", PauseAccount, Nothing))
  /\ UNCHANGED started

EndTx(c) ==
  /\ op' = [op EXCEPT ![c] = "none"] /\ ahead' = [ahead EXCEPT ![c] = Nothing]
  /\ held' = [held EXCEPT ![c] = {}] /\ fresh' = [fresh EXCEPT ![c] = {}]
  /\ newCash' = [newCash EXCEPT ![c] = {}]
  /\ todo' = [d \in Connections |-> IF d = c THEN <<>>
                                    ELSE IF c = "second" /\ d = "consumer" THEN Tail(todo[d])
                                    ELSE todo[d]]
  /\ UNCHANGED <<readCash, started>>

CommitTx(c) ==
  /\ op[c] # "none" /\ todo[c] = <<>> /\ ahead[c] = Nothing
  /\ EndTx(c)
  /\ rows' = rows \cup fresh[c]
  /\ cash' = IF newCash[c] = {} THEN cash ELSE CHOOSE v \in newCash[c] : TRUE
  /\ UNCHANGED failed

\* Two transactions that wait for each other: the server takes one back.
Cycle(c, d) == d \in Blockers(c) /\ c \in Blockers(d)
Rollback(c) ==
  /\ \E d \in Others(c) : Cycle(c, d)
  /\ EndTx(c)
  /\ failed' = failed \cup {[connection |-> c, name |-> op[c]]}
  /\ UNCHANGED <<rows, cash>>

Step(c) == Granted(c) \/ NextAnswer(c) \/ CommitTx(c) \/ Rollback(c)
LocksNext == StartEngine \/ StartConsumer \/ OpenSecond \/ \E c \in Connections : Step(c)

\* The server grants what it can and resolves what it finds deadlocked; it
\* does not see that the consumer waits for its own second connection.
LocksFairness == WF_locksVars(OpenSecond) /\ \A c \in Connections : WF_locksVars(Step(c))
LocksSpec == LocksInit /\ [][LocksNext]_locksVars /\ LocksFairness
-----------------------------------------------------------------------------
Locks == [mode : {"X", "S", "gap"}, row : Rows]

LocksTypes ==
  /\ rows \subseteq Rows /\ cash \in Int
  /\ \A c \in Connections :
       /\ held[c] \subseteq Locks /\ fresh[c] \subseteq Rows
       /\ \A i \in DOMAIN todo[c] : todo[c][i].row \in Rows

\* The virtual cash is the sum of the trades that have a row, whichever
\* threads booked them (repository.py record_strategy_trade_if_absent): the
\* lock on the strategy row covers the duplicate check and the cash.
CashIsTheTrades ==
  cash = MapThenSumSet(LAMBDA t : Amount[t], {t \in Trades : Trade(t) \in rows})

\* The deadlocks the code can run into are two: both threads insert broker
\* orders, or a job's account-then-strategy locks meet a trade that pauses
\* the account after it took the strategy.
Inserting(c) == LET r == Head(todo[c]) IN r.kind = "write" /\ r.row[1] = "order"
PausesLast(c) == op[c] \in {"trade", "reconcile"} /\ Head(todo[c]) = Write(Account)
AccountFirst(c) == op[c] \in {"sync", "step"} /\ Head(todo[c]).row = Strategy
DeadlocksAreKnown ==
  \A c, d \in Connections :
    Cycle(c, d) => \/ Inserting(c) /\ Inserting(d)
                   \/ AccountFirst(c) /\ PausesLast(d)
                   \/ AccountFirst(d) /\ PausesLast(c)

\* What no interleaving of the transactions breaks.
LocksInv == LocksTypes /\ CashIsTheTrades /\ DeadlocksAreKnown

\* Every transaction comes to an end, the pause of an account from inside a
\* callback's transaction included (callbacks.py _pause_for_unknown_local):
\* that transaction holds no lock the pause needs.
Open(c) == op[c] # "none"
TransactionsEnd == \A c \in Connections : Open(c) ~> ~Open(c)
=============================================================================
