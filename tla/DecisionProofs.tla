---------------------------- MODULE DecisionProofs -----------------------------
(***************************************************************************)
(* Theorems about SignalStore and ExecutionPlan: what an evening decides,  *)
(* what the next day orders of it, and how those orders are sized, priced  *)
(* and checked, for any finite universe and any outputs, prices, crashes,  *)
(* revisions, accounts and limits that their assumptions admit.            *)
(***************************************************************************)
EXTENDS SignalStore, ExecutionPlan, Sums

(***************************************************************************)
(* The invariant.  A decision is a function of its day: while no bar was   *)
(* revised, its row and the one that a retry evaluates are the answer the  *)
(* strategy gives.  So a retry can differ only where a weight lost digits. *)
(***************************************************************************)

Statuses == {"NOT_SCHEDULED", "NO_REBALANCE", "TARGET_CREATED"}

\* The status and the weights of a day's decision, as evaluated.
StatusOf(d) ==
  IF ScheduleIndex(d) % Every # 0 THEN "NOT_SCHEDULED"
  ELSE IF output[d] = <<>> THEN "NO_REBALANCE" ELSE "TARGET_CREATED"

Answer(status, d) == IF status = "TARGET_CREATED" THEN output[d] ELSE <<>>

\* The rows of the tables.
RowsInv ==
  /\ decisions \subseteq [signal : Opens, execution : Opens, status : Statuses]
  /\ weights \subseteq [signal : Opens, symbol : Symbols, weight : 0 .. One]
  /\ \A r \in weights : r.weight % StoreStep = 0
  /\ plan \subseteq [signal : Opens, symbol : Symbols, quantity : Nat]
  /\ held \in [Symbols -> Nat] /\ cash \in Nat

\* The process, and the strategy's answers of the days so far.
StateInv ==
  /\ today \in Nat /\ revisions \in Nat
  /\ pc \in Labels /\ refused \in {"no", "differs", "unreadable"}
  /\ output \in [Opens -> Outputs \cup {<<>>}]
  /\ pc \in {"signal:evaluate", "signal:save"} => today \in Opens

\* A decision that is evaluated and not saved yet.
ResultInv ==
  /\ result # {} => pc = "signal:save"
  /\ \A q, r \in result : q = r
  /\ \A r \in result :
       /\ r.signal = today /\ NextOpen(today) = {r.execution}
       /\ r.status \in Statuses
       /\ r.status = "TARGET_CREATED" => r.weights \in Outputs \ {<<>>}
       /\ r.status # "TARGET_CREATED" => r.weights = <<>>
       /\ revisions = 0 => r.status = StatusOf(today) /\ r.weights = Answer(r.status, today)

\* A saved one: for the next session, and what its day's answer says.
DecidedInv ==
  \A d \in decisions :
    /\ d.signal <= today /\ NextOpen(d.signal) = {d.execution}
    /\ revisions = 0 => d.status = StatusOf(d.signal)

DecisionInv ==
  /\ RowsInv /\ StateInv /\ ResultInv /\ DecidedInv
  /\ StatusIsTheTargets /\ OrdersFollowThePlan /\ ExecutedOnItsDay /\ RefusalsAreExplained
--------------------------------------------------------------------------------
(* Sums, roundings and rows. *)

\* A sum of whole numbers is one, and of natural numbers a natural one.
LEMMA SumType ==
  ASSUME NEW S, IsFiniteSet(S), NEW f, DOMAIN f = S, \A s \in S : f[s] \in Int
  PROVE  SumFunction(f) \in Int /\ ((\A s \in S : f[s] \in Nat) => SumFunction(f) \in Nat)
<1>1. SumFunction(f) = Total(f, S)
  BY SumIsTotal
<1>2. Total(f, S) \in Int
  BY TotalInt
<1>3. ASSUME \A s \in S : f[s] \in Nat PROVE Total(f, S) \in Nat
  BY <1>3, TotalPart
<1> QED
  BY <1>1, <1>2, <1>3

\* A rounded weight is a weight that the column can hold.
LEMMA StoredFits ==
  ASSUME NEW w \in 0 .. One
  PROVE  Stored(w) \in 0 .. One /\ Stored(w) % StoreStep = 0
<1>1. PICK step, x, q : /\ step = StoreStep /\ x = 2 * w + StoreStep
                        /\ q = (2 * w + StoreStep) \div (2 * StoreStep)
  OBVIOUS
<1>2. step \in Nat \ {0} /\ One \in Nat \ {0} /\ One % step = 0
  BY <1>1, UnitsAssumption
<1>3. x \in Nat /\ 2 * step \in Nat \ {0} /\ q = x \div (2 * step)
  BY <1>1, <1>2
<1>4. PICK most \in Nat : One = most * step
  <2>1. PICK n : n = One \div step
    OBVIOUS
  <2>2. n \in Nat /\ One = step * n + (One % step)
    BY <1>2, <2>1
  <2>3. step * n = n * step
    BY <1>2, <2>2
  <2> QED
    BY <1>2, <2>2, <2>3
<1>5. q \in Nat
  BY <1>3
<1>6. q * (2 * step) <= x
  <2>1. PICK double : double = 2 * step
    OBVIOUS
  <2>2. double \in Nat \ {0} /\ q = x \div double
    BY <1>3, <2>1
  <2>3. x = double * q + (x % double) /\ x % double \in Nat
    BY <1>3, <2>2
  <2>4. double * q = q * double /\ double * q \in Nat
    BY <1>5, <2>2
  <2> QED
    BY <1>3, <2>1, <2>3, <2>4
<1>7. q <= most
  <2>1. SUFFICES ASSUME q >= most + 1 PROVE FALSE
    BY <1>4, <1>5
  <2>2. PICK p \in Nat : p = q - (most + 1)
    BY <1>4, <1>5, <2>1
  <2>3. PICK a, b, m : a = p * step /\ b = q * step /\ m = most * step
    OBVIOUS
  <2>4. a \in Nat /\ m = One
    BY <1>2, <1>4, <2>2, <2>3
  <2>5. b = a + m + step
    <3>1. q = p + most + 1
      BY <1>4, <1>5, <2>2
    <3>2. (p + most) * step = p * step + most * step
      BY <1>2, <1>4, <2>2
    <3>3. PICK c \in Nat : c = p + most
      BY <1>4, <2>2
    <3>4. (c + 1) * step = c * step + step
      BY <1>2, <3>3
    <3> QED
      BY <2>3, <3>1, <3>2, <3>3, <3>4
  <2>6. q * (2 * step) = 2 * b
    BY <1>2, <1>5, <2>3
  <2>7. x = 2 * w + step /\ w <= One
    BY <1>1
  <2> QED
    BY <1>2, <1>6, <2>4, <2>5, <2>6, <2>7
<1>8. Stored(w) = q * step
  BY <1>1 DEF Stored
<1>9. q * step \in Nat /\ q * step <= One
  <2>1. PICK p \in Nat : p = most - q
    BY <1>4, <1>5, <1>7
  <2>2. (p + q) * step = p * step + q * step
    BY <1>2, <1>5, <2>1
  <2>3. p * step \in Nat /\ q * step \in Nat
    BY <1>2, <1>5, <2>1
  <2>4. p + q = most
    BY <1>4, <1>5, <2>1
  <2> QED
    BY <1>4, <2>2, <2>3, <2>4
<1>10. (q * step) % step = 0
  BY <1>2, <1>5
<1> QED
  BY <1>1, <1>8, <1>9, <1>10

\* A day has one next session at most.
LEMMA NextOpenIsOne ==
  \A d : \A e \in NextOpen(d) : e \in Opens /\ NextOpen(d) = {e}
<1>1. \A e \in Opens : e \in Int
  BY DaysAssumption
<1>2. ASSUME NEW d, NEW e \in NextOpen(d), NEW f \in NextOpen(d) PROVE e = f
  <2>1. e \in Opens /\ f \in Opens /\ e <= f /\ f <= e
    BY <1>2 DEF NextOpen
  <2> QED
    BY <1>1, <2>1
<1>3. \A d : \A e \in NextOpen(d) : e \in Opens
  BY DEF NextOpen
<1> QED
  BY <1>2, <1>3

\* The answers of the strategy, and what it answers on one more day.
LEMMA AnswersType ==
  ASSUME NEW out \in [Opens -> Outputs \cup {<<>>}], NEW d, NEW new \in Answers(out, d)
  PROVE  /\ new \in [Opens -> Outputs \cup {<<>>}]
         /\ \A e \in Opens \ {d} : new[e] = out[e]
BY DEF Answers

\* An accepted target has weights of the universe, some at least.
LEMMA OutputShape ==
  ASSUME NEW o \in Outputs \ {<<>>}
  PROVE  /\ DOMAIN o \subseteq Symbols /\ DOMAIN o # {}
         /\ \A s \in DOMAIN o : o[s] \in 0 .. One
         /\ SumFunction(o) <= One
BY OutputsAssumption

\* What rows of the table read as: the same as long as the rows are the same.
ReadFrom(T) == [s \in {r.symbol : r \in T} |-> (CHOOSE r \in T : r.symbol = s).weight]

LEMMA LoadedFrom ==
  \A d : Loaded(d) = ReadFrom(RowsOf(weights, d)) /\ Loaded(d)' = ReadFrom(RowsOf(weights', d))
BY DEF Loaded, ReadFrom

LEMMA LoadedKept ==
  ASSUME NEW d, RowsOf(weights', d) = RowsOf(weights, d)
  PROVE  Loaded(d)' = Loaded(d)
BY LoadedFrom

\* What is read back is what the rows hold.
LEMMA LoadedRows ==
  ASSUME RowsInv, NEW d
  PROVE  /\ DOMAIN Loaded(d) = {r.symbol : r \in RowsOf(weights, d)}
         /\ DOMAIN Loaded(d) \subseteq Symbols
         /\ \A s \in DOMAIN Loaded(d) : Loaded(d)[s] \in 0 .. One
<1>1. DOMAIN Loaded(d) = {r.symbol : r \in RowsOf(weights, d)}
  BY DEF Loaded
<1>2. ASSUME NEW r \in RowsOf(weights, d) PROVE r.symbol \in Symbols /\ r.weight \in 0 .. One
  BY DEF RowsOf, RowsInv
<1>3. ASSUME NEW s \in DOMAIN Loaded(d) PROVE Loaded(d)[s] \in 0 .. One
  <2>1. PICK r : r = CHOOSE q \in RowsOf(weights, d) : q.symbol = s
    OBVIOUS
  <2>2. r \in RowsOf(weights, d)
    BY <1>1, <2>1
  <2>3. Loaded(d)[s] = r.weight
    BY <1>1, <2>1 DEF Loaded
  <2> QED
    BY <1>2, <2>2, <2>3
<1> QED
  BY <1>1, <1>2, <1>3

\* So are the frozen quantities: each of them is that of a row.
LEMMA FrozenRows ==
  ASSUME RowsInv, NEW d, NEW s \in DOMAIN Frozen(d)
  PROVE  /\ s \in Symbols /\ Frozen(d)[s] \in Nat
         /\ [signal |-> d.signal, symbol |-> s, quantity |-> Frozen(d)[s]] \in plan
<1>1. PICK T : T = RowsOf(plan, d.signal)
  OBVIOUS
<1>2. PICK r : r = CHOOSE q \in T : q.symbol = s
  OBVIOUS
<1>3. Frozen(d) = [x \in {q.symbol : q \in T} |-> (CHOOSE q \in T : q.symbol = x).quantity]
  BY <1>1 DEF Frozen
<1>4. s \in {q.symbol : q \in T} /\ Frozen(d)[s] = r.quantity
  BY <1>2, <1>3
<1>5. r \in T /\ r.symbol = s
  BY <1>2, <1>4
<1>6. r \in plan /\ r.signal = d.signal
  BY <1>1, <1>5 DEF RowsOf
<1>7. r \in [signal : Opens, symbol : Symbols, quantity : Nat]
  BY <1>6 DEF RowsInv
<1>8. r = [signal |-> r.signal, symbol |-> r.symbol, quantity |-> r.quantity]
  BY <1>7
<1> QED
  BY <1>4, <1>5, <1>6, <1>7, <1>8

\* A quantity is a natural number, whatever the price.
LEMMA QuantityType ==
  ASSUME RowsInv, NEW price \in Prices, NEW w \in 0 .. One
  PROVE  Quantity(w, price) \in Nat
<1>1. SumFunction(held) \in Nat
  BY SymbolsAssumption, SumType DEF RowsInv
<1>2. price \in Nat \ {0} /\ One \in Nat \ {0} /\ cash \in Nat /\ w \in Nat
  BY UnitsAssumption, BoundsAssumption DEF RowsInv
<1>3. PICK a : a = Asset(price)
  OBVIOUS
<1>4. a \in Nat
  <2>1. PICK n \in Nat : n = SumFunction(held)
    BY <1>1
  <2>2. price * n \in Nat
    BY <1>2, <2>1
  <2>3. a = cash + price * n
    BY <1>3, <2>1 DEF Asset
  <2> QED
    BY <1>2, <2>2, <2>3
<1>5. PICK x, y : x = a * w /\ y = One * price
  OBVIOUS
<1>6. x \in Nat
  BY <1>2, <1>4, <1>5
<1>7. y \in Nat \ {0}
  <2>1. PICK m \in Nat \ {0}, n \in Nat \ {0} : m = One /\ n = price
    BY <1>2
  <2>2. y = m * n /\ m * n \in Nat /\ m * n >= 1
    BY <1>5, <2>1
  <2> QED
    BY <2>2
<1>8. x \div y \in Nat
  BY <1>6, <1>7
<1> QED
  BY <1>3, <1>5, <1>8 DEF Quantity
--------------------------------------------------------------------------------
(* The proof, a lemma for each action that writes what the invariant is about. *)

\* The start of a job, the end of a step: the tables of decisions stay.
Untouched ==
  UNCHANGED <<decisions, weights, plan, orders, held, cash, result, refused, output, today, revisions>>

LEMMA QuietStep ==
  ASSUME DecisionInv, Untouched, pc # "signal:save", pc' \in Labels \ {"signal:save"},
         pc' = "signal:evaluate" => today \in Opens
  PROVE  DecisionInv'
<1>1. RowsInv'
  BY DEF DecisionInv, RowsInv, Untouched
<1>2. StateInv'
  BY DEF DecisionInv, StateInv, Untouched
<1>3. ResultInv'
  BY DEF DecisionInv, ResultInv, StatusOf, Answer, Untouched
<1>4. DecidedInv'
  BY DEF DecisionInv, DecidedInv, StatusOf, Untouched
<1>5. StatusIsTheTargets'
  BY DEF DecisionInv, StatusIsTheTargets, RowsOf, Untouched
<1>6. OrdersFollowThePlan' /\ ExecutedOnItsDay'
  BY DEF DecisionInv, OrdersFollowThePlan, ExecutedOnItsDay, Untouched
<1>7. RefusalsAreExplained'
  <2>1. \A d : Loaded(d)' = Loaded(d)
    BY LoadedFrom DEF Untouched
  <2> QED
    BY <2>1 DEF DecisionInv, RefusalsAreExplained, Untouched
<1> QED
  BY <1>1, <1>2, <1>3, <1>4, <1>5, <1>6, <1>7 DEF DecisionInv

\* The strategy is evaluated: what it answers today.
LEMMA EvaluateStep ==
  ASSUME DecisionInv, Evaluate
  PROVE  DecisionInv'
<1>1. UNCHANGED <<decisions, weights, plan, orders, held, cash, refused, output, today, revisions>>
  BY DEF Evaluate, dbVars, envVars
<1>2. today \in Opens /\ pc' = "signal:save"
  BY DEF DecisionInv, StateInv, Evaluate
<1>3. PICK next : next = CHOOSE e \in NextOpen(today) : TRUE
  OBVIOUS
<1>4. NextOpen(today) = {next}
  <2>1. next \in NextOpen(today)
    BY <1>3 DEF Evaluate
  <2> QED
    BY <2>1, NextOpenIsOne
<1>5. PICK r : /\ r = [signal |-> today, execution |-> next, status |-> StatusOf(today),
                       weights |-> Answer(StatusOf(today), today)]
               /\ result' = {r}
  BY <1>3 DEF Evaluate, Decision, StatusOf, Answer
<1>6. /\ StatusOf(today) \in Statuses
      /\ StatusOf(today) = "TARGET_CREATED" => output[today] \in Outputs \ {<<>>}
  BY <1>2 DEF DecisionInv, StateInv, StatusOf, Statuses
<1>7. RowsInv'
  BY <1>1 DEF DecisionInv, RowsInv
<1>8. StateInv'
  BY <1>1, <1>2 DEF DecisionInv, StateInv, Labels
<1>9. ResultInv'
  <2>1. StatusOf(today)' = StatusOf(today) /\ today' = today /\ revisions' = revisions /\ output' = output
    BY <1>1 DEF StatusOf
  <2>2. /\ r.signal = today /\ NextOpen(today) = {r.execution}
        /\ r.status = StatusOf(today) /\ r.weights = Answer(r.status, today)
    BY <1>4, <1>5
  <2> QED
    BY <1>2, <1>5, <1>6, <2>1, <2>2 DEF ResultInv, Answer
<1>10. DecidedInv'
  BY <1>1 DEF DecisionInv, DecidedInv, StatusOf
<1>11. StatusIsTheTargets'
  BY <1>1 DEF DecisionInv, StatusIsTheTargets, RowsOf
<1>12. OrdersFollowThePlan' /\ ExecutedOnItsDay'
  BY <1>1 DEF DecisionInv, OrdersFollowThePlan, ExecutedOnItsDay
<1>13. RefusalsAreExplained'
  <2>1. \A d : Loaded(d)' = Loaded(d)
    BY <1>1, LoadedFrom
  <2> QED
    BY <1>1, <2>1 DEF DecisionInv, RefusalsAreExplained
<1> QED
  BY <1>7, <1>8, <1>9, <1>10, <1>11, <1>12, <1>13 DEF DecisionInv

\* While no bar was revised, the row of a day is what a retry would write.
LEMMA SameRow ==
  ASSUME DecisionInv, NEW r \in result, NEW d \in decisions, d.signal = r.signal, revisions = 0
  PROVE  d = Row(r)
<1>1. d.status = r.status
  BY DEF DecisionInv, DecidedInv, ResultInv
<1>2. NextOpen(d.signal) = {d.execution} /\ NextOpen(d.signal) = {r.execution}
  BY DEF DecisionInv, DecidedInv, ResultInv
<1>3. d = [signal |-> d.signal, execution |-> d.execution, status |-> d.status]
  BY DEF DecisionInv, RowsInv
<1>4. d.execution = r.execution
  BY <1>2
<1> QED
  BY <1>1, <1>3, <1>4 DEF Row

\* A decision that differs from the saved one: its bars were revised, or a weight
\* of the saved one lost digits.
LEMMA RefusedStep ==
  ASSUME DecisionInv, NEW r \in result, Differs(r)
  PROVE  revisions > 0 \/ \E d \in decisions : output[d.signal] # Loaded(d.signal)
<1> SUFFICES ASSUME revisions = 0 PROVE \E d \in decisions : output[d.signal] # Loaded(d.signal)
  BY DEF DecisionInv, StateInv
<1>1. RowsOf(weights, r.signal) # {} /\ Loaded(r.signal) # r.weights
  BY SameRow DEF Differs
<1>2. PICK w : w \in weights /\ w.signal = r.signal
  BY <1>1 DEF RowsOf
<1>3. PICK d \in decisions : d.signal = r.signal
  BY <1>2 DEF DecisionInv, StatusIsTheTargets
<1>4. d.status = "TARGET_CREATED"
  BY <1>1, <1>3 DEF DecisionInv, StatusIsTheTargets
<1>5. d = Row(r)
  BY <1>3, SameRow
<1>6. r.status = "TARGET_CREATED"
  BY <1>4, <1>5 DEF Row
<1>7. r.weights = output[r.signal]
  BY <1>6 DEF DecisionInv, ResultInv, Answer
<1> QED
  BY <1>1, <1>3, <1>7

\* The rows of a decision, rounded.
LEMMA WeightRowsType ==
  ASSUME DecisionInv, NEW r \in result
  PROVE  /\ \A w \in WeightRows(r) : /\ w.signal = r.signal /\ w.symbol \in Symbols
                                     /\ w.weight \in 0 .. One /\ w.weight % StoreStep = 0
                                     /\ w = [signal |-> w.signal, symbol |-> w.symbol, weight |-> w.weight]
         /\ WeightRows(r) # {} <=> r.status = "TARGET_CREATED"
<1>1. CASE r.status = "TARGET_CREATED"
  <2>1. r.weights \in Outputs \ {<<>>}
    BY <1>1 DEF DecisionInv, ResultInv
  <2>2. /\ DOMAIN r.weights \subseteq Symbols /\ DOMAIN r.weights # {}
        /\ \A s \in DOMAIN r.weights : r.weights[s] \in 0 .. One
    BY <2>1, OutputShape
  <2>3. \A s \in DOMAIN r.weights : Stored(r.weights[s]) \in 0 .. One /\ Stored(r.weights[s]) % StoreStep = 0
    BY <2>2, StoredFits
  <2>4. ASSUME NEW w \in WeightRows(r)
        PROVE  /\ w.signal = r.signal /\ w.symbol \in Symbols
               /\ w.weight \in 0 .. One /\ w.weight % StoreStep = 0
               /\ w = [signal |-> w.signal, symbol |-> w.symbol, weight |-> w.weight]
    <3>1. PICK s \in DOMAIN r.weights : w = [signal |-> r.signal, symbol |-> s, weight |-> Stored(r.weights[s])]
      BY DEF WeightRows
    <3> QED
      BY <2>2, <2>3, <3>1
  <2>5. WeightRows(r) # {}
    BY <2>2 DEF WeightRows
  <2> QED
    BY <1>1, <2>4, <2>5
<1>2. CASE r.status # "TARGET_CREATED"
  <2>1. DOMAIN r.weights = {}
    BY <1>2 DEF DecisionInv, ResultInv
  <2> QED
    BY <1>2, <2>1 DEF WeightRows
<1> QED
  BY <1>1, <1>2

\* What was saved before is read back as it was.
LEMMA SavedIsKept ==
  ASSUME DecisionInv, NEW r \in result, ~Differs(r), NEW d \in decisions,
         weights' = IF RowsOf(weights, r.signal) = {} THEN weights \cup WeightRows(r) ELSE weights
  PROVE  RowsOf(weights', d.signal) = RowsOf(weights, d.signal)
<1>1. CASE d.signal = r.signal
  <2>1. d = Row(r)
    BY <1>1 DEF Differs
  <2>2. CASE d.status = "TARGET_CREATED"
    BY <1>1, <2>2 DEF DecisionInv, StatusIsTheTargets
  <2>3. CASE d.status # "TARGET_CREATED"
    <3>1. WeightRows(r) = {}
      BY <2>1, <2>3, WeightRowsType DEF Row
    <3> QED
      BY <3>1
  <2> QED
    BY <2>2, <2>3
<1>2. CASE d.signal # r.signal
  BY <1>2, WeightRowsType DEF RowsOf
<1> QED
  BY <1>1, <1>2

\* One transaction writes the decision and its weights, or finds them, or refuses.
LEMMA SaveStep ==
  ASSUME DecisionInv, Save
  PROVE  DecisionInv'
<1>1. UNCHANGED <<plan, orders, held, cash, output, today, revisions>> /\ result' = {}
  BY DEF Save, envVars
<1>2. pc = "signal:save" /\ today \in Opens
  BY DEF DecisionInv, StateInv, Save
<1>3. PICK r \in result :
        \/ Differs(r) /\ pc' = "idle" /\ refused' = "differs" /\ UNCHANGED <<decisions, weights>>
        \/ /\ ~Differs(r) /\ pc' = "signal:step" /\ UNCHANGED refused
           /\ decisions' = decisions \cup {Row(r)}
           /\ weights' = IF RowsOf(weights, r.signal) = {} THEN weights \cup WeightRows(r) ELSE weights
  BY DEF Save
<1>4. StateInv'
  BY <1>1, <1>3 DEF DecisionInv, StateInv, Labels
<1>5. ResultInv'
  BY <1>1 DEF ResultInv
<1>6. OrdersFollowThePlan' /\ ExecutedOnItsDay'
  BY <1>1 DEF DecisionInv, OrdersFollowThePlan, ExecutedOnItsDay
<1>7. CASE Differs(r)
  <2>1. UNCHANGED <<decisions, weights>>
    BY <1>3, <1>7
  <2>2. RowsInv'
    BY <1>1, <2>1 DEF DecisionInv, RowsInv
  <2>3. DecidedInv'
    BY <1>1, <2>1 DEF DecisionInv, DecidedInv, StatusOf
  <2>4. StatusIsTheTargets'
    BY <2>1 DEF DecisionInv, StatusIsTheTargets, RowsOf
  <2>5. RefusalsAreExplained'
    <3>1. \A d : Loaded(d)' = Loaded(d)
      BY <2>1, LoadedFrom
    <3>2. revisions > 0 \/ \E d \in decisions : output[d.signal] # Loaded(d.signal)
      BY <1>7, RefusedStep
    <3> QED
      BY <1>1, <2>1, <3>1, <3>2 DEF RefusalsAreExplained
  <2> QED
    BY <1>4, <1>5, <1>6, <2>2, <2>3, <2>4, <2>5 DEF DecisionInv
<1>8. CASE ~Differs(r)
  <2>1. /\ refused' = refused /\ decisions' = decisions \cup {Row(r)}
        /\ weights' = IF RowsOf(weights, r.signal) = {} THEN weights \cup WeightRows(r) ELSE weights
    BY <1>3, <1>8
  <2>2. /\ r.signal = today /\ NextOpen(today) = {r.execution} /\ r.status \in Statuses
        /\ revisions = 0 => r.status = StatusOf(today)
    BY DEF DecisionInv, ResultInv
  <2>3. Row(r) = [signal |-> today, execution |-> r.execution, status |-> r.status]
    BY <2>2 DEF Row
  <2>4. r.execution \in Opens
    BY <2>2, NextOpenIsOne
  <2>5. RowsInv'
    <3>1. decisions' \subseteq [signal : Opens, execution : Opens, status : Statuses]
      BY <1>2, <2>1, <2>2, <2>3, <2>4 DEF DecisionInv, RowsInv
    <3>2. \A w \in WeightRows(r) : /\ w \in [signal : Opens, symbol : Symbols, weight : 0 .. One]
                                   /\ w.weight % StoreStep = 0
      BY <1>2, <2>2, WeightRowsType
    <3>3. \A w \in weights' : /\ w \in [signal : Opens, symbol : Symbols, weight : 0 .. One]
                              /\ w.weight % StoreStep = 0
      BY <2>1, <3>2 DEF DecisionInv, RowsInv
    <3> QED
      BY <1>1, <3>1, <3>3 DEF DecisionInv, RowsInv
  <2>6. DecidedInv'
    <3>1. StatusOf(today)' = StatusOf(today) /\ today' = today /\ revisions' = revisions
      BY <1>1 DEF StatusOf
    <3>2. \A d \in decisions : StatusOf(d.signal)' = StatusOf(d.signal)
      BY <1>1 DEF StatusOf
    <3>3. ASSUME NEW d \in decisions'
          PROVE  /\ d.signal <= today /\ NextOpen(d.signal) = {d.execution}
                 /\ revisions = 0 => d.status = StatusOf(d.signal)
      <4>1. CASE d \in decisions
        BY <4>1 DEF DecisionInv, DecidedInv
      <4>2. CASE d = Row(r)
        BY <2>2, <2>3, <4>2 DEF DecisionInv, StateInv
      <4> QED
        BY <2>1, <4>1, <4>2
    <3> QED
      BY <1>1, <3>3 DEF DecidedInv, StatusOf
  <2>7. StatusIsTheTargets'
    <3>1. \A d \in decisions : RowsOf(weights', d.signal) = RowsOf(weights, d.signal)
      BY <1>8, <2>1, SavedIsKept
    <3>2. RowsOf(weights', today) # {} <=> r.status = "TARGET_CREATED"
      <4>1. CASE RowsOf(weights, today) = {}
        <5>1. RowsOf(weights', today) = WeightRows(r)
          BY <2>1, <2>2, <4>1, WeightRowsType DEF RowsOf
        <5> QED
          BY <5>1, WeightRowsType
      <4>2. CASE RowsOf(weights, today) # {}
        <5>1. Loaded(today) = r.weights /\ weights' = weights
          BY <1>8, <2>1, <2>2, <4>2 DEF Differs
        <5>2. DOMAIN r.weights # {}
          <6>1. DOMAIN Loaded(today) = {x.symbol : x \in RowsOf(weights, today)}
            BY LoadedRows DEF DecisionInv
          <6>2. PICK x : x \in RowsOf(weights, today)
            BY <4>2
          <6>3. x.symbol \in DOMAIN Loaded(today)
            BY <6>1, <6>2
          <6> QED
            BY <5>1, <6>3
        <5>3. r.status = "TARGET_CREATED"
          BY <5>2 DEF DecisionInv, ResultInv
        <5> QED
          BY <4>2, <5>1, <5>3
      <4> QED
        BY <4>1, <4>2
    <3>3. ASSUME NEW d \in decisions'
          PROVE  d.status = "TARGET_CREATED" <=> RowsOf(weights', d.signal) # {}
      <4>1. CASE d \in decisions
        BY <3>1, <4>1 DEF DecisionInv, StatusIsTheTargets
      <4>2. CASE d = Row(r)
        BY <2>3, <3>2, <4>2
      <4> QED
        BY <2>1, <4>1, <4>2
    <3>4. ASSUME NEW d \in decisions', NEW e \in decisions', d.signal = e.signal PROVE d = e
      <4>1. \A x \in decisions : x.signal = today => x = Row(r)
        BY <1>8, <2>2 DEF Differs
      <4> QED
        BY <2>1, <2>3, <3>4, <4>1 DEF DecisionInv, StatusIsTheTargets
    <3>5. ASSUME NEW w \in weights' PROVE \E d \in decisions' : d.signal = w.signal
      <4>1. CASE w \in weights
        BY <2>1, <4>1 DEF DecisionInv, StatusIsTheTargets
      <4>2. CASE w \in WeightRows(r)
        <5>1. w.signal = today
          BY <2>2, <4>2, WeightRowsType
        <5> QED
          BY <2>1, <2>3, <5>1
      <4> QED
        BY <2>1, <4>1, <4>2
    <3> QED
      BY <3>3, <3>4, <3>5 DEF StatusIsTheTargets, RowsOf
  <2>8. RefusalsAreExplained'
    <3>1. \A d \in decisions : Loaded(d.signal)' = Loaded(d.signal)
      BY <1>8, <2>1, SavedIsKept, LoadedKept
    <3> QED
      BY <1>1, <2>1, <3>1 DEF DecisionInv, RefusalsAreExplained
  <2> QED
    BY <1>4, <1>5, <1>6, <2>5, <2>6, <2>7, <2>8 DEF DecisionInv
<1> QED
  BY <1>7, <1>8

\* A saved target cannot be read: then its weights are not those of the answer,
\* which add up to one at most, or its bars were revised.
LEMMA ReadTargetsStep ==
  ASSUME DecisionInv, ReadTargets
  PROVE  DecisionInv'
<1>1. UNCHANGED <<decisions, weights, plan, orders, held, cash, result, output, today, revisions>>
  BY DEF ReadTargets, dbVars, envVars
<1>2. pc' = "idle" /\ refused' = "unreadable" /\ pc \in {"sell", "buy"}
  BY DEF ReadTargets, Fail
<1>3. PICK d \in decisions : d.status = "TARGET_CREATED" /\ SumFunction(Loaded(d.signal)) > One
  BY DEF ReadTargets, Pending, Unreadable
<1>4. revisions > 0 \/ output[d.signal] # Loaded(d.signal)
  <2>1. SUFFICES ASSUME revisions = 0 PROVE output[d.signal] # Loaded(d.signal)
    BY DEF DecisionInv, StateInv
  <2>2. d.status = StatusOf(d.signal)
    BY <2>1 DEF DecisionInv, DecidedInv
  <2>3. output[d.signal] # <<>>
    BY <1>3, <2>2 DEF StatusOf
  <2>4. d.signal \in Opens
    BY DEF DecisionInv, RowsInv
  <2>5. output[d.signal] \in Outputs \ {<<>>}
    BY <2>3, <2>4 DEF DecisionInv, StateInv
  <2>6. SumFunction(output[d.signal]) <= One /\ One \in Nat
    BY <2>5, OutputShape, UnitsAssumption
  <2>7. SUFFICES ASSUME output[d.signal] = Loaded(d.signal) PROVE FALSE
    OBVIOUS
  <2>8. PICK n : n = SumFunction(Loaded(d.signal))
    OBVIOUS
  <2>9. n \in Int
    <3>1. PICK f : f = Loaded(d.signal)
      OBVIOUS
    <3>2. DOMAIN f \subseteq Symbols /\ \A s \in DOMAIN f : f[s] \in 0 .. One
      BY <3>1, LoadedRows DEF DecisionInv
    <3>3. \A s \in DOMAIN f : f[s] \in Int
      BY <3>2, UnitsAssumption
    <3>4. IsFiniteSet(DOMAIN f)
      BY <3>2, SymbolsAssumption, FS_Subset
    <3>5. SumFunction(f) \in Int
      BY <3>3, <3>4, SumType
    <3> QED
      BY <2>8, <3>1, <3>5
  <2> QED
    BY <1>3, <2>6, <2>7, <2>8, <2>9
<1>5. RowsInv'
  BY <1>1 DEF DecisionInv, RowsInv
<1>6. StateInv'
  BY <1>1, <1>2 DEF DecisionInv, StateInv, Labels
<1>7. ResultInv'
  BY <1>1, <1>2 DEF DecisionInv, ResultInv
<1>8. DecidedInv'
  BY <1>1 DEF DecisionInv, DecidedInv, StatusOf
<1>9. StatusIsTheTargets'
  BY <1>1 DEF DecisionInv, StatusIsTheTargets, RowsOf
<1>10. OrdersFollowThePlan' /\ ExecutedOnItsDay'
  BY <1>1 DEF DecisionInv, OrdersFollowThePlan, ExecutedOnItsDay
<1>11. RefusalsAreExplained'
  <2>1. Loaded(d.signal)' = Loaded(d.signal)
    BY <1>1, LoadedFrom
  <2> QED
    BY <1>1, <1>4, <2>1 DEF RefusalsAreExplained
<1> QED
  BY <1>5, <1>6, <1>7, <1>8, <1>9, <1>10, <1>11 DEF DecisionInv

\* The trading of a session writes plans, orders and the account only.
LEMMA TradingStep ==
  ASSUME DecisionInv,
         UNCHANGED <<decisions, weights, result, refused, output, today, revisions>>,
         pc # "signal:save", pc' \in Labels \ {"signal:evaluate", "signal:save"},
         plan' \subseteq [signal : Opens, symbol : Symbols, quantity : Nat],
         held' \in [Symbols -> Nat], cash' \in Nat,
         OrdersFollowThePlan', ExecutedOnItsDay'
  PROVE  DecisionInv'
<1>1. RowsInv'
  BY DEF DecisionInv, RowsInv
<1>2. StateInv'
  BY DEF DecisionInv, StateInv
<1>3. ResultInv'
  BY DEF DecisionInv, ResultInv
<1>4. DecidedInv'
  BY DEF DecisionInv, DecidedInv, StatusOf
<1>5. StatusIsTheTargets'
  BY DEF DecisionInv, StatusIsTheTargets, RowsOf
<1>6. RefusalsAreExplained'
  <2>1. \A d : Loaded(d)' = Loaded(d)
    BY LoadedFrom
  <2> QED
    BY <2>1 DEF DecisionInv, RefusalsAreExplained
<1> QED
  BY <1>1, <1>2, <1>3, <1>4, <1>5, <1>6 DEF DecisionInv

\* The quantities of a decision are frozen.
LEMMA FreezeStep ==
  ASSUME DecisionInv, Freeze
  PROVE  DecisionInv'
<1>1. UNCHANGED <<decisions, weights, orders, held, cash, pc, result, refused, output, today, revisions>>
  BY DEF Freeze, procVars, envVars
<1>2. pc = "sell"
  BY DEF Freeze
<1>3. PICK d \in decisions, price \in Prices :
        /\ RowsOf(plan, d.signal) = {}
        /\ plan' = (plan \ RowsOf(plan, d.signal)) \cup
                   {[signal |-> d.signal, symbol |-> s,
                     quantity |-> Quantity(Loaded(d.signal)[s], price)] : s \in DOMAIN Loaded(d.signal)}
  BY DEF Freeze, Freezes, Pending
<1>4. d.signal \in Opens
  BY DEF DecisionInv, RowsInv
<1>5. ASSUME NEW s \in DOMAIN Loaded(d.signal)
      PROVE  s \in Symbols /\ Quantity(Loaded(d.signal)[s], price) \in Nat
  BY LoadedRows, QuantityType DEF DecisionInv
<1>6. plan' \subseteq [signal : Opens, symbol : Symbols, quantity : Nat]
  BY <1>3, <1>4, <1>5 DEF DecisionInv, RowsInv
<1>7. plan \subseteq plan'
  BY <1>3
<1>8. OrdersFollowThePlan' /\ ExecutedOnItsDay'
  BY <1>1, <1>7 DEF DecisionInv, OrdersFollowThePlan, ExecutedOnItsDay
<1>9. held' \in [Symbols -> Nat] /\ cash' \in Nat
  BY <1>1 DEF DecisionInv, RowsInv
<1> QED
  BY <1>1, <1>2, <1>6, <1>8, <1>9, TradingStep DEF Labels

\* New orders of a pending decision, for quantities that are frozen.
LEMMA OrdersStep ==
  ASSUME DecisionInv, NEW d \in Pending, NEW side, NEW N,
         \A o \in N : \E s \in DOMAIN Frozen(d) : \E q : o = NewOrder(d, s, side, q, Frozen(d)),
         orders' = orders \cup N, plan' = plan
  PROVE  OrdersFollowThePlan' /\ ExecutedOnItsDay'
<1>1. ASSUME NEW o \in N
      PROVE  /\ [signal |-> o.signal, symbol |-> o.symbol, quantity |-> o.target] \in plan
             /\ NextOpen(o.signal) = {o.day}
  <2>1. PICK s \in DOMAIN Frozen(d) : \E q : o = NewOrder(d, s, side, q, Frozen(d))
    OBVIOUS
  <2>2. o.signal = d.signal /\ o.symbol = s /\ o.target = Frozen(d)[s] /\ o.day = today
    BY <2>1 DEF NewOrder
  <2>3. [signal |-> d.signal, symbol |-> s, quantity |-> Frozen(d)[s]] \in plan
    BY FrozenRows DEF DecisionInv
  <2>4. NextOpen(d.signal) = {today}
    BY DEF DecisionInv, DecidedInv, Pending
  <2> QED
    BY <2>2, <2>3, <2>4
<1> QED
  BY <1>1 DEF DecisionInv, OrdersFollowThePlan, ExecutedOnItsDay

\* Sells reduce a position to its frozen quantity and bring in cash.
LEMMA SellStep ==
  ASSUME DecisionInv, Sell
  PROVE  DecisionInv'
<1>1. UNCHANGED <<decisions, weights, plan, result, refused, output, today, revisions>>
  BY DEF Sell, envVars
<1>2. pc = "sell" /\ pc' = "sell:step"
  BY DEF Sell
<1>3. PICK d \in Pending, price \in Prices :
        LET aim    == Aim(d, price)
            excess == {s \in DOMAIN aim : held[s] > aim[s]}
        IN  /\ orders' = orders \cup {NewOrder(d, s, "SELL", held[s] - aim[s], aim) : s \in excess}
            /\ \E sold \in SUBSET (IF At("window") THEN excess ELSE {}) :
                 /\ held' = [s \in Symbols |-> IF s \in sold THEN aim[s] ELSE held[s]]
                 /\ cash' = cash + price * SumFunction([s \in sold |-> held[s] - aim[s]])
  BY DEF Sell
<1>4. PICK aim, excess : aim = Frozen(d) /\ excess = {s \in DOMAIN aim : held[s] > aim[s]}
  OBVIOUS
<1>5. orders' = orders \cup {NewOrder(d, s, "SELL", held[s] - aim[s], aim) : s \in excess}
  BY <1>3, <1>4 DEF Aim
<1>6. PICK sold \in SUBSET (IF At("window") THEN excess ELSE {}) :
        /\ held' = [s \in Symbols |-> IF s \in sold THEN aim[s] ELSE held[s]]
        /\ cash' = cash + price * SumFunction([s \in sold |-> held[s] - aim[s]])
  BY <1>3, <1>4 DEF Aim
<1>7. sold \subseteq excess
  BY <1>6
<1>8. \A s \in DOMAIN aim : s \in Symbols /\ aim[s] \in Nat
  BY <1>4, FrozenRows DEF DecisionInv
<1>9. held \in [Symbols -> Nat] /\ cash \in Nat
  BY DEF DecisionInv, RowsInv
<1>10. held' \in [Symbols -> Nat]
  BY <1>4, <1>6, <1>7, <1>8, <1>9
<1>11. cash' \in Nat
  <2>1. PICK f : f = [s \in sold |-> held[s] - aim[s]]
    OBVIOUS
  <2>2. \A s \in sold : f[s] \in Nat
    BY <1>4, <1>7, <1>8, <1>9, <2>1
  <2>3. sold \subseteq Symbols
    BY <1>4, <1>7, <1>8
  <2>4. IsFiniteSet(sold)
    BY <2>3, SymbolsAssumption, FS_Subset
  <2>5. PICK n \in Nat : n = SumFunction(f)
    BY <2>1, <2>2, <2>4, SumType
  <2>6. price \in Nat
    BY BoundsAssumption
  <2>7. price * n \in Nat
    BY <2>5, <2>6
  <2>8. cash' = cash + price * n
    BY <1>6, <2>1, <2>5
  <2> QED
    BY <1>9, <2>7, <2>8
<1>12. OrdersFollowThePlan' /\ ExecutedOnItsDay'
  <2>1. PICK N : N = {NewOrder(d, s, "SELL", held[s] - aim[s], aim) : s \in excess}
    OBVIOUS
  <2>2. \A o \in N : \E s \in DOMAIN Frozen(d) : \E q : o = NewOrder(d, s, "SELL", q, Frozen(d))
    BY <1>4, <2>1
  <2>3. orders' = orders \cup N /\ plan' = plan
    BY <1>1, <1>5, <2>1
  <2> QED
    BY <2>2, <2>3, OrdersStep
<1> QED
  BY <1>1, <1>2, <1>10, <1>11, <1>12, TradingStep DEF DecisionInv, RowsInv, Labels

\* Buys raise one to its frozen quantity and are paid for by the cash that is there.
LEMMA BuyStep ==
  ASSUME DecisionInv, Buy
  PROVE  DecisionInv'
<1>1. UNCHANGED <<decisions, weights, plan, result, refused, output, today, revisions>>
  BY DEF Buy, envVars
<1>2. pc = "buy" /\ pc' = "buy:step"
  BY DEF Buy
<1>3. PICK d \in Pending, price \in Prices :
        \E bought \in SUBSET {s \in DOMAIN Frozen(d) : held[s] < Frozen(d)[s]} :
          /\ price * SumFunction([s \in bought |-> Frozen(d)[s] - held[s]]) <= cash
          /\ orders' = orders \cup {NewOrder(d, s, "BUY", Frozen(d)[s] - held[s], Frozen(d)) : s \in bought}
          /\ held' = [s \in Symbols |-> IF s \in bought THEN Frozen(d)[s] ELSE held[s]]
          /\ cash' = cash - price * SumFunction([s \in bought |-> Frozen(d)[s] - held[s]])
  BY Zenon DEF Buy, Aim
<1>4. PICK bought \in SUBSET {s \in DOMAIN Frozen(d) : held[s] < Frozen(d)[s]} :
        /\ price * SumFunction([s \in bought |-> Frozen(d)[s] - held[s]]) <= cash
        /\ orders' = orders \cup {NewOrder(d, s, "BUY", Frozen(d)[s] - held[s], Frozen(d)) : s \in bought}
        /\ held' = [s \in Symbols |-> IF s \in bought THEN Frozen(d)[s] ELSE held[s]]
        /\ cash' = cash - price * SumFunction([s \in bought |-> Frozen(d)[s] - held[s]])
  BY <1>3, Zenon
<1>5. PICK aim, missing : aim = Frozen(d) /\ missing = {s \in DOMAIN aim : held[s] < aim[s]}
  OBVIOUS
<1>6. /\ price * SumFunction([s \in bought |-> aim[s] - held[s]]) <= cash
      /\ orders' = orders \cup {NewOrder(d, s, "BUY", aim[s] - held[s], aim) : s \in bought}
      /\ held' = [s \in Symbols |-> IF s \in bought THEN aim[s] ELSE held[s]]
      /\ cash' = cash - price * SumFunction([s \in bought |-> aim[s] - held[s]])
  BY <1>5, <1>4, Zenon
<1>7. bought \subseteq missing
  BY <1>5, <1>4
<1>8. \A s \in DOMAIN aim : s \in Symbols /\ aim[s] \in Nat
  BY <1>5, FrozenRows DEF DecisionInv
<1>9. held \in [Symbols -> Nat] /\ cash \in Nat
  BY DEF DecisionInv, RowsInv
<1>10. held' \in [Symbols -> Nat]
  BY <1>5, <1>6, <1>7, <1>8, <1>9
<1>11. cash' \in Nat
  <2>1. PICK f : f = [s \in bought |-> aim[s] - held[s]]
    OBVIOUS
  <2>2. \A s \in bought : f[s] \in Int
    BY <1>5, <1>7, <1>8, <1>9, <2>1
  <2>3. bought \subseteq Symbols
    BY <1>5, <1>7, <1>8
  <2>4. IsFiniteSet(bought)
    BY <2>3, SymbolsAssumption, FS_Subset
  <2>5. PICK n \in Int : n = SumFunction(f)
    BY <2>1, <2>2, <2>4, SumType
  <2>6. price \in Nat
    BY BoundsAssumption
  <2>7. price * n \in Int
    BY <2>5, <2>6
  <2>8. cash' = cash - price * n /\ price * n <= cash
    BY <1>6, <1>7, <2>1, <2>5
  <2> QED
    BY <1>9, <2>7, <2>8
<1>12. OrdersFollowThePlan' /\ ExecutedOnItsDay'
  <2>1. PICK N : N = {NewOrder(d, s, "BUY", aim[s] - held[s], aim) : s \in bought}
    OBVIOUS
  <2>2. \A o \in N : \E s \in DOMAIN Frozen(d) : \E q : o = NewOrder(d, s, "BUY", q, Frozen(d))
    BY <1>5, <1>7, <2>1
  <2>3. orders' = orders \cup N /\ plan' = plan
    BY <1>1, <1>6, <2>1
  <2> QED
    BY <2>2, <2>3, OrdersStep
<1> QED
  BY <1>1, <1>2, <1>10, <1>11, <1>12, TradingStep DEF DecisionInv, RowsInv, Labels

\* What the process does not read: the process dies, the vendor revises the bars of
\* the day, the day ends.
LEMMA WorldStep ==
  ASSUME DecisionInv, Crash \/ Revise \/ Advance
  PROVE  DecisionInv'
<1>1. UNCHANGED <<decisions, weights, plan, orders, held, cash, refused>>
  BY DEF Crash, Revise, Advance, dbVars, procVars
<1>2. RowsInv'
  BY <1>1 DEF DecisionInv, RowsInv
<1>3. StatusIsTheTargets'
  BY <1>1 DEF DecisionInv, StatusIsTheTargets, RowsOf
<1>4. OrdersFollowThePlan' /\ ExecutedOnItsDay'
  BY <1>1 DEF DecisionInv, OrdersFollowThePlan, ExecutedOnItsDay
<1>5. \A d : Loaded(d)' = Loaded(d)
  BY <1>1, LoadedFrom
<1>6. CASE Crash
  <2>1. UNCHANGED <<output, today, revisions>> /\ result' = {} /\ pc' = "off"
    BY <1>6 DEF Crash
  <2>2. StateInv'
    BY <1>1, <2>1 DEF DecisionInv, StateInv, Labels
  <2>3. ResultInv'
    BY <2>1 DEF ResultInv
  <2>4. DecidedInv'
    BY <1>1, <2>1 DEF DecisionInv, DecidedInv, StatusOf
  <2>5. RefusalsAreExplained'
    BY <1>1, <1>5, <2>1 DEF DecisionInv, RefusalsAreExplained
  <2> QED
    BY <1>2, <1>3, <1>4, <2>2, <2>3, <2>4, <2>5 DEF DecisionInv
<1>7. CASE Revise
  <2>1. UNCHANGED <<today, pc, result>> /\ revisions' = revisions + 1 /\ output' \in Answers(output, today)
    BY <1>7 DEF Revise, procVars
  <2>2. revisions' \in Nat /\ revisions' > 0
    BY <2>1 DEF DecisionInv, StateInv
  <2>3. StateInv'
    BY <1>1, <2>1, <2>2, AnswersType DEF DecisionInv, StateInv
  <2>4. ResultInv'
    BY <2>1, <2>2 DEF DecisionInv, ResultInv
  <2>5. DecidedInv'
    BY <1>1, <2>1, <2>2 DEF DecisionInv, DecidedInv
  <2>6. RefusalsAreExplained'
    BY <2>2 DEF RefusalsAreExplained
  <2> QED
    BY <1>2, <1>3, <1>4, <2>3, <2>4, <2>5, <2>6 DEF DecisionInv
<1>8. CASE Advance
  <2>1. UNCHANGED <<pc, result, revisions>>
    BY <1>8 DEF Advance
  <2>2. CASE UNCHANGED <<today, output>>
    <3>1. StateInv'
      BY <1>1, <2>1, <2>2 DEF DecisionInv, StateInv
    <3>2. ResultInv'
      BY <2>1, <2>2 DEF DecisionInv, ResultInv, StatusOf, Answer
    <3>3. DecidedInv'
      BY <1>1, <2>1, <2>2 DEF DecisionInv, DecidedInv, StatusOf
    <3>4. RefusalsAreExplained'
      BY <1>1, <1>5, <2>1, <2>2 DEF DecisionInv, RefusalsAreExplained
    <3> QED
      BY <1>2, <1>3, <1>4, <3>1, <3>2, <3>3, <3>4 DEF DecisionInv
  <2>3. CASE pc \in {"idle", "off"} /\ today' = today + 1 /\ output' \in Answers(output, today + 1)
    <3>1. /\ output' \in [Opens -> Outputs \cup {<<>>}]
          /\ \A e \in Opens \ {today + 1} : output'[e] = output[e]
      BY <2>3, AnswersType DEF DecisionInv, StateInv
    <3>2. StateInv'
      BY <1>1, <2>1, <2>3, <3>1 DEF DecisionInv, StateInv
    <3>3. result = {}
      BY <2>3 DEF DecisionInv, ResultInv
    <3>4. ResultInv'
      BY <2>1, <3>3 DEF ResultInv
    <3>5. ASSUME NEW d \in decisions
          PROVE  output'[d.signal] = output[d.signal] /\ d.signal <= today + 1
      <4>1. d.signal \in Opens /\ d.signal <= today /\ today \in Nat
        BY DEF DecisionInv, RowsInv, DecidedInv, StateInv
      <4>2. d.signal \in Nat
        <5>1. \A e \in Opens : e \in Nat
          BY DaysAssumption
        <5> QED
          BY <4>1, <5>1
      <4> QED
        BY <3>1, <4>1, <4>2
    <3>6. DecidedInv'
      BY <1>1, <2>1, <2>3, <3>5 DEF DecisionInv, DecidedInv, StatusOf
    <3>7. RefusalsAreExplained'
      BY <1>1, <1>5, <2>1, <3>5 DEF DecisionInv, RefusalsAreExplained
    <3> QED
      BY <1>2, <1>3, <1>4, <3>2, <3>4, <3>6, <3>7 DEF DecisionInv
  <2> QED
    BY <1>8, <2>2, <2>3 DEF Advance
<1> QED
  BY <1>6, <1>7, <1>8
--------------------------------------------------------------------------------
(* The theorems. *)

\* Nothing is decided in the beginning.
LEMMA DecisionStart == Init => DecisionInv
<1> SUFFICES ASSUME Init PROVE DecisionInv
  OBVIOUS
<1>1. RowsInv
  BY BoundsAssumption DEF Init, RowsInv
<1>2. StateInv
  <2>1. [d \in Opens |-> <<>>] \in [Opens -> Outputs \cup {<<>>}]
    OBVIOUS
  <2>2. output \in [Opens -> Outputs \cup {<<>>}]
    BY <2>1, AnswersType DEF Init
  <2> QED
    BY <2>2 DEF Init, StateInv, Labels
<1> QED
  BY <1>1, <1>2 DEF Init, DecisionInv, ResultInv, DecidedInv, StatusIsTheTargets, OrdersFollowThePlan,
                    ExecutedOnItsDay, RefusalsAreExplained

\* One step of the process or of its world.
LEMMA DecisionStep == DecisionInv /\ [Next]_vars => DecisionInv'
<1> SUFFICES ASSUME DecisionInv, [Next]_vars PROVE DecisionInv'
  OBVIOUS
<1>1. CASE StartSignal
  <2>1. pc = "idle" /\ today \in Opens /\ pc' \in {"idle", "signal:finish", "signal:evaluate"}
    BY <1>1 DEF StartSignal, Due
  <2> QED
    BY <1>1, <2>1, QuietStep DEF StartSignal, Untouched, Labels, dbVars, envVars
<1>2. CASE StartRebalance
  <2>1. pc = "idle" /\ pc' \in {"idle", "rebalance:finish", "buy", "sell"}
    BY <1>2 DEF StartRebalance, Due
  <2> QED
    BY <1>2, <2>1, QuietStep DEF StartRebalance, Untouched, Labels, envVars
<1>3. CASE FinishSignalStep \/ FinishSignal \/ FinishSell \/ FinishBuy \/ FinishRebalance
  <2>1. pc # "signal:save" /\ pc' \in {"signal:finish", "idle", "buy", "rebalance:finish"}
    BY <1>3 DEF FinishSignalStep, FinishSignal, FinishSell, FinishBuy, FinishRebalance
  <2>2. Untouched
    BY <1>3 DEF FinishSignalStep, FinishSignal, FinishSell, FinishBuy, FinishRebalance, Untouched, envVars
  <2> QED
    BY <2>1, <2>2, QuietStep DEF Labels
<1>4. CASE Resume \/ MissBuy \/ Restart
  <2>1. pc # "signal:save" /\ pc' \in {"sell:step", "buy:step", "idle"}
    BY <1>4 DEF Resume, MissBuy, Restart
  <2>2. Untouched
    BY <1>4 DEF Resume, MissBuy, Restart, Untouched, dbVars, envVars
  <2> QED
    BY <2>1, <2>2, QuietStep DEF Labels
<1>5. CASE Evaluate
  BY <1>5, EvaluateStep
<1>6. CASE Save
  BY <1>6, SaveStep
<1>7. CASE ReadTargets
  BY <1>7, ReadTargetsStep
<1>8. CASE Freeze
  BY <1>8, FreezeStep
<1>9. CASE Sell
  BY <1>9, SellStep
<1>10. CASE Buy
  BY <1>10, BuyStep
<1>11. CASE Crash \/ Revise \/ Advance
  BY <1>11, WorldStep
<1>12. CASE UNCHANGED vars
  <2>1. UNCHANGED <<decisions, weights, plan, orders, held, cash, pc, result, refused, output, today, revisions>>
    BY <1>12 DEF vars, dbVars, procVars, envVars
  <2>2. \A d : Loaded(d)' = Loaded(d)
    BY <2>1, LoadedFrom
  <2>3. RefusalsAreExplained'
    BY <2>1, <2>2 DEF DecisionInv, RefusalsAreExplained
  <2>4. RowsInv' /\ StateInv'
    BY <2>1 DEF DecisionInv, RowsInv, StateInv
  <2>5. ResultInv' /\ DecidedInv'
    BY <2>1 DEF DecisionInv, ResultInv, DecidedInv, StatusOf, Answer
  <2>6. StatusIsTheTargets' /\ OrdersFollowThePlan' /\ ExecutedOnItsDay'
    BY <2>1 DEF DecisionInv, StatusIsTheTargets, RowsOf, OrdersFollowThePlan, ExecutedOnItsDay
  <2> QED
    BY <2>3, <2>4, <2>5, <2>6 DEF DecisionInv
<1> QED
  BY <1>1, <1>2, <1>3, <1>4, <1>5, <1>6, <1>7, <1>8, <1>9, <1>10, <1>11, <1>12 DEF Next

\* The inductive invariant: a decision is a function of its day's answer.
THEOREM DecisionsSafe == Spec => []DecisionInv
  BY DecisionStart, DecisionStep, PTL DEF Spec

\* Whatever the moment of a crash, the tables say at every moment: a decision with a
\* target has its weights and no other has any, a day has one decision, its orders
\* work towards its frozen quantities and leave in the next session, and a refusal
\* is explained by revised bars or a rounded weight (jobs.py:410-485, repository.py:570-785).
THEOREM StoreSafe == Spec => []StoreInv
<1>1. DecisionInv => StoreInv
  <2> SUFFICES ASSUME DecisionInv PROVE StoreInv
    OBVIOUS
  <2>1. Cardinality(result) <= 1
    <3>1. CASE result = {}
      BY <3>1, FS_EmptySet
    <3>2. CASE result # {}
      <4>1. PICK r \in result : TRUE
        BY <3>2
      <4>2. result = {r}
        BY <4>1 DEF DecisionInv, ResultInv
      <4>3. Cardinality({r}) = 1
        BY FS_Singleton
      <4> QED
        BY <4>2, <4>3
    <3> QED
      BY <3>1, <3>2
  <2>2. TypeOK
    <3>1. \A d \in decisions : d.signal \in Opens /\ d.execution \in Opens
      BY DEF DecisionInv, RowsInv
    <3>2. \A r \in weights : r.symbol \in Symbols /\ r.weight \in 0 .. One /\ r.weight % StoreStep = 0
      BY DEF DecisionInv, RowsInv
    <3>3. \A r \in plan : r.symbol \in Symbols /\ r.quantity \in Nat
      BY DEF DecisionInv, RowsInv
    <3> QED
      BY <2>1, <3>1, <3>2, <3>3 DEF DecisionInv, RowsInv, StateInv, TypeOK
  <2> QED
    BY <2>2 DEF DecisionInv, StoreInv
<1> QED
  BY <1>1, DecisionsSafe, PTL

\* An action property: what is decided and what is frozen stays, and a decision is
\* frozen once, whatever fails, retries or restarts (repository.py:570-785).
THEOREM StoreKeeps == Spec => StoredIsKept
<1>1. [Next]_vars => [decisions \subseteq decisions' /\ weights \subseteq weights']_vars
  <2> SUFFICES ASSUME Next PROVE decisions \subseteq decisions' /\ weights \subseteq weights'
    OBVIOUS
  <2>1. CASE Save
    BY <2>1 DEF Save
  <2>2. CASE ~Save
    BY <2>2 DEF Next, StartSignal, Evaluate, FinishSignalStep, FinishSignal, StartRebalance, ReadTargets, Freeze,
       Sell, Resume, FinishSell, MissBuy, Buy, FinishBuy, FinishRebalance, Crash, Restart, Revise, Advance, dbVars
  <2> QED
    BY <2>1, <2>2
<1>2. [Next]_vars => [/\ plan \subseteq plan'
                      /\ \A r \in plan' \ plan : RowsOf(plan, r.signal) = {}]_vars
  <2> SUFFICES ASSUME Next
               PROVE  plan \subseteq plan' /\ \A r \in plan' \ plan : RowsOf(plan, r.signal) = {}
    OBVIOUS
  <2>1. CASE Freeze
    BY <2>1 DEF Freeze, Freezes
  <2>2. CASE ~Freeze
    BY <2>2 DEF Next, StartSignal, Evaluate, Save, FinishSignalStep, FinishSignal, StartRebalance, ReadTargets,
       Sell, Resume, FinishSell, MissBuy, Buy, FinishBuy, FinishRebalance, Crash, Restart, Revise, Advance, dbVars
  <2> QED
    BY <2>1, <2>2
<1> QED
  BY <1>1, <1>2, PTL DEF Spec, StoredIsKept, DecisionsAreKept, PlanIsKept
-----------------------------------------------------------------------------
(***************************************************************************)
(* The planner.  Everything a phase adds is bounded by a sum over the       *)
(* intents, so the invariant is about four sums, and every other step       *)
(* replaces intents by others of the same key that count for no more.       *)
(***************************************************************************)

Sides  == {"SELL", "BUY"}
Quotes == [last : Int, bid : Int, ask : Int, age : Int, lower : Int, upper : Int,
           tick : Nat \ {0}, suspended : BOOLEAN]
Intents == [day : Nat, side : Sides, symbol : Etfs, quantity : Nat, limit : Nat \ {0},
            quote : Quotes, filled : Nat, status : IntentStatuses]

IsActive(i) == i.status \in {"PLANNED", "SUBMITTED"}

\* The day, its decision and the quantities frozen for it.
PlaceInv ==
  /\ day \in 1 .. MaxDays /\ settled \in 0 .. day /\ stage \in {"SELL", "BUY", "CLOSED"}
  /\ session \in Sessions /\ target \in Targets /\ paused \in BOOLEAN
  /\ DOMAIN cached \subseteq Etfs /\ \A s \in DOMAIN cached : cached[s] \in Details
  /\ IsFrozen => /\ frozen = {Goal} /\ DOMAIN Goal = DOMAIN target
                 /\ \A s \in DOMAIN Goal : Goal[s].quantity \in Int

\* What is open for sale is free, and what is free is held.
HoldingInv ==
  /\ position \in [Etfs -> Nat] /\ sellable \in [Etfs -> Nat] /\ opening \in [Etfs -> Nat]
  /\ funds \in Int
  /\ \A s \in Etfs : Open("SELL", s) <= sellable[s] /\ sellable[s] <= position[s]

IntentInv ==
  /\ IsFiniteSet(intents) /\ intents \subseteq Intents
  /\ \A i \in intents : i.filled <= i.quantity /\ i.day \in 1 .. day /\ PricedWell(i)

\* A phase is planned once: no buy before the sells are closed.
TurnInv ==
  /\ stage = "SELL" => Today("BUY") = {}
  /\ stage = "BUY" => IsFrozen /\ \A i \in Today("SELL") : ~IsActive(i)

PlanInv ==
  PlaceInv /\ HoldingInv /\ IntentInv /\ TurnInv /\ NeverPastTarget /\ WithinDailyNotional
-----------------------------------------------------------------------------
(* Sums over images. *)

\* The sum over the image of a function is the sum along the function where no
\* two arguments share a value.
LEMMA TotalAlong ==
  ASSUME NEW S, IsFiniteSet(S), NEW f, \A x, y \in S : f[x] = f[y] => x = y,
         NEW w, \A x \in S : w[f[x]] \in Int
  PROVE  /\ IsFiniteSet({f[x] : x \in S})
         /\ Total(w, {f[x] : x \in S}) = Total([x \in S |-> w[f[x]]], S)
<1> DEFINE part == [x \in S |-> {f[x]}]
           v    == [x \in S |-> w[f[x]]]
           u    == [x \in S |-> Total(w, part[x])]
<1>1. \A x \in S : IsFiniteSet(part[x])
  BY FS_Singleton
<1>2. Parts(part, S) = {f[x] : x \in S}
  BY DEF Parts
<1>3. IsFiniteSet(Parts(part, S)) /\ Total(w, Parts(part, S)) = Total(u, S)
  <2>1. \A x, y \in S : x # y => part[x] \cap part[y] = {}
    OBVIOUS
  <2>2. \A x \in S : \A t \in part[x] : w[t] \in Int
    OBVIOUS
  <2> HIDE DEF part
  <2> QED
    BY <1>1, <2>1, <2>2, TotalByParts
<1>4. \A x \in S : u[x] = v[x]
  <2> TAKE x \in S
  <2>1. PICK y : y = f[x]
    OBVIOUS
  <2>2. Total(w, {y}) = w[y] + Total(w, {y} \ {y})
    BY <2>1, FS_Singleton, TotalWithout
  <2>3. {y} \ {y} = {}
    OBVIOUS
  <2>4. Total(w, {y}) = w[y]
    BY <2>1, <2>2, <2>3, TotalEmpty
  <2> QED
    BY <2>1, <2>4
<1>5. Total(u, S) = Total(v, S)
  <2> HIDE DEF u, v
  <2> QED
    BY <1>4, TotalAgrees
<1> QED
  BY <1>2, <1>3, <1>5

\* Where they do, it counts fewer.
LEMMA TotalImage ==
  ASSUME NEW S, IsFiniteSet(S), NEW f, NEW w, \A x \in S : w[f[x]] \in Nat
  PROVE  /\ IsFiniteSet({f[x] : x \in S}) /\ Cardinality({f[x] : x \in S}) <= Cardinality(S)
         /\ Total(w, {f[x] : x \in S}) <= Total([x \in S |-> w[f[x]]], S)
<1> DEFINE Image == {f[x] : x \in S}
           From  == [y \in Image |-> CHOOSE x \in S : f[x] = y]
           T     == {From[y] : y \in Image}
           v     == [x \in S |-> w[f[x]]]
<1>1. \A y \in Image : From[y] \in S /\ f[From[y]] = y
  OBVIOUS
<1>2. T \subseteq S /\ Image = {f[x] : x \in T}
  <2> HIDE DEF From
  <2> QED
    BY <1>1
<1>3. \A x, y \in T : f[x] = f[y] => x = y
  <2> HIDE DEF From, Image
  <2> QED
    BY <1>1
<1>4. IsFiniteSet(Image) /\ Cardinality(Image) <= Cardinality(S)
  <2> DEFINE g == [x \in S |-> f[x]]
  <2>1. g \in Surjection(S, Image)
    BY DEF Surjection, Range
  <2> QED
    BY <2>1, FS_Surjection
<1> HIDE DEF From, T
<1>5. IsFiniteSet(T)
  BY <1>2, FS_Subset
<1>6. Total(w, Image) = Total([x \in T |-> w[f[x]]], T)
  <2>1. \A x \in T : w[f[x]] \in Int
    BY <1>2
  <2>2. Total(w, {f[x] : x \in T}) = Total([x \in T |-> w[f[x]]], T)
    BY <1>3, <1>5, <2>1, TotalAlong
  <2> QED
    BY <1>2, <2>2
<1>7. Total([x \in T |-> w[f[x]]], T) = Total(v, T)
  <2> DEFINE u == [x \in T |-> w[f[x]]]
  <2>1. \A x \in T : u[x] = v[x]
    BY <1>2
  <2> HIDE DEF u, v
  <2>2. Total(u, T) = Total(v, T)
    BY <1>5, <2>1, TotalAgrees
  <2> QED
    BY <2>2 DEF u
<1>8. Total(v, T) <= Total(v, S)
  <2>1. \A x \in S : v[x] \in Nat
    OBVIOUS
  <2> HIDE DEF v
  <2> QED
    BY <1>2, <2>1, TotalPart
<1>9. Total(v, T) \in Int
  <2>1. \A x \in S : v[x] \in Nat
    OBVIOUS
  <2> HIDE DEF v
  <2> QED
    BY <1>2, <2>1, TotalPart
<1> QED
  BY <1>4, <1>6, <1>7, <1>8
-----------------------------------------------------------------------------
(* Lots, fees and prices. *)

\* Whole lots, of a quantity or of none.
LEMMA LotsType ==
  ASSUME NEW q \in Int
  PROVE  WholeLots(q) \in Nat /\ (WholeLots(q) > 0 => WholeLots(q) <= q) /\ WholeLots(q) <= Greatest(0, q)
<1>1. Lot \in Nat \ {0}
  BY ConfigAssumption
<1>2. PICK k : k = q \div Lot
  OBVIOUS
<1>3. k \in Int /\ Lot * k <= q
  BY <1>1, <1>2, DivBounds
<1>4. PICK m : m = k * Lot
  OBVIOUS
<1>5. m \in Int /\ m <= q
  BY <1>1, <1>3, <1>4
<1>6. WholeLots(q) = Greatest(0, m)
  BY <1>2, <1>4 DEF WholeLots
<1> QED
  BY <1>5, <1>6 DEF Greatest

\* What a fee is, and that more costs more.
LEMMA FeeType ==
  ASSUME NEW amount \in Nat
  PROVE  Fee(amount) \in Nat /\ WithFee(amount) \in Nat
<1>1. CommissionRate \in Nat /\ RateUnit \in Nat \ {0} /\ MinimumCommission \in Nat
  BY ConfigAssumption
<1>2. PICK n, d : n = 2 * amount * CommissionRate + RateUnit /\ d = 2 * RateUnit
  OBVIOUS
<1>3. n \in Int /\ d \in Nat \ {0}
  <2>1. amount * CommissionRate \in Nat
    BY <1>1
  <2>2. 2 * amount * CommissionRate = 2 * (amount * CommissionRate)
    BY <1>1
  <2> QED
    BY <1>1, <1>2, <2>1, <2>2
<1>4. n \div d \in Int
  BY <1>3, DivBounds
<1> QED
  BY <1>1, <1>2, <1>4 DEF Fee, WithFee, Greatest

LEMMA FeeGrows ==
  ASSUME NEW m \in Nat, NEW n \in Nat, m <= n
  PROVE  WithFee(m) <= WithFee(n)
<1>1. CommissionRate \in Nat /\ RateUnit \in Nat \ {0} /\ MinimumCommission \in Nat
  BY ConfigAssumption
<1>2. CASE m = 0
  BY <1>2, FeeType DEF WithFee, Fee
<1>3. CASE m # 0
  <2>1. PICK p, q, d : p = 2 * m * CommissionRate + RateUnit /\ q = 2 * n * CommissionRate + RateUnit
                       /\ d = 2 * RateUnit
    OBVIOUS
  <2>2. m * CommissionRate <= n * CommissionRate /\ m * CommissionRate \in Nat /\ n * CommissionRate \in Nat
    BY <1>1
  <2>3. 2 * m * CommissionRate = 2 * (m * CommissionRate) /\ 2 * n * CommissionRate = 2 * (n * CommissionRate)
    BY <1>1
  <2>4. p \in Int /\ q \in Int /\ d \in Nat \ {0} /\ p <= q
    BY <1>1, <2>1, <2>2, <2>3
  <2>5. p \div d <= q \div d /\ p \div d \in Int /\ q \div d \in Int
    BY <2>4, DivGrows, DivBounds
  <2>6. Fee(m) = Greatest(p \div d, MinimumCommission) /\ Fee(n) = Greatest(q \div d, MinimumCommission)
    BY <1>3, <2>1 DEF Fee
  <2> QED
    BY <1>1, <2>5, <2>6 DEF WithFee, Greatest
<1> QED
  BY <1>2, <1>3

\* A bounded set of natural numbers has a largest one.
LEMMA BoundedMax ==
  ASSUME NEW S, S \subseteq Nat, S # {}, NEW b \in Nat, \A x \in S : x <= b
  PROVE  Max(S) \in S /\ \A x \in S : x <= Max(S)
<1> DEFINE T == {n \in Nat : b - n \in S}
<1>1. T # {}
  <2>1. PICK x \in S : TRUE
    OBVIOUS
  <2>2. b - x \in Nat /\ b - (b - x) = x
    OBVIOUS
  <2> QED
    BY <2>1, <2>2
<1>2. PICK n \in T : \A m \in T : n <= m
  <2>1. T \subseteq Nat
    OBVIOUS
  <2> HIDE DEF T
  <2> QED
    BY <1>1, <2>1, LeastNumber
<1>3. \A x \in S : x <= b - n
  <2> TAKE x \in S
  <2>1. b - x \in Nat /\ b - (b - x) = x
    OBVIOUS
  <2>2. n <= b - x
    BY <1>2, <2>1
  <2> QED
    BY <2>1, <2>2
<1>4. \E m \in S : \A x \in S : m >= x
  BY <1>2, <1>3
<1>5. Max(S) = CHOOSE m \in S : \A x \in S : m >= x
  BY DEF Max
<1>6. Max(S) \in S /\ \A x \in S : Max(S) >= x
  <2> DEFINE m == CHOOSE y \in S : \A x \in S : y >= x
  <2>1. m \in S /\ \A x \in S : m >= x
    BY <1>4
  <2> QED
    BY <1>5, <2>1
<1> QED
  BY <1>6

\* So has a finite one.
LEMMA FiniteBounded ==
  ASSUME NEW S, IsFiniteSet(S)
  PROVE  S \subseteq Nat => \E b \in Nat : \A x \in S : x <= b
<1> DEFINE Wrong == {A \in SUBSET S : A \subseteq Nat /\ ~ \E b \in Nat : \A x \in A : x <= b}
<1>1. ASSUME Wrong # {} PROVE FALSE
  <2>1. PICK A \in Wrong : IsFiniteSet(A) /\ \A B \in Wrong : B \subseteq A => B = A
    <3>1. Wrong \subseteq SUBSET S
      OBVIOUS
    <3> HIDE DEF Wrong
    <3> QED
      BY <1>1, <3>1, SmallestSet
  <2>2. PICK x \in A : TRUE
    <3>1. A # {}
      OBVIOUS
    <3> QED
      BY <3>1
  <2>3. PICK b \in Nat : \A y \in A \ {x} : y <= b
    <3>1. A \ {x} \notin Wrong
      BY <2>1, <2>2
    <3> QED
      BY <3>1
  <2>4. x \in Nat /\ \A y \in A : y \in Nat /\ y <= Greatest(x, b)
    BY <2>3 DEF Greatest
  <2> QED
    BY <2>4 DEF Greatest
<1> QED
  BY <1>1

\* The greatest multiple the money pays for.
LEMMA AffordableType ==
  ASSUME NEW limit \in Nat \ {0}, NEW money \in Nat
  PROVE  Affordable(limit, money) \in Nat /\ WithFee(Affordable(limit, money) * limit) <= money
<1>1. Lot \in Nat \ {0} /\ limit * Lot \in Nat \ {0}
  BY ConfigAssumption
<1> DEFINE top == money \div (limit * Lot)
           counts == {n \in 0 .. top : n = 0 \/ WithFee(limit * n * Lot) <= money}
           sizes == {k * Lot : k \in counts}
<1>2. top \in Nat
  <2>1. PICK d \in Nat \ {0} : d = limit * Lot
    BY <1>1
  <2>2. money \div d \in Int /\ money < d * (money \div d) + d
    BY DivBounds
  <2>3. money \div d >= 0
    BY <2>2
  <2> QED
    BY <2>1, <2>2, <2>3
<1>3. 0 \in counts
  BY <1>2
<1>4. sizes # {} /\ sizes \subseteq Nat /\ \A x \in sizes : x <= top * Lot
  <2> HIDE DEF top
  <2>1. \A k \in counts : k \in Nat /\ k * Lot \in Nat /\ k * Lot <= top * Lot
    BY <1>1, <1>2
  <2> QED
    BY <1>3, <2>1
<1>5. Max(sizes) \in sizes
  <2>1. top * Lot \in Nat
    BY <1>1, <1>2
  <2> HIDE DEF sizes
  <2> QED
    BY <1>4, <2>1, BoundedMax
<1>6. PICK k \in counts : Max(sizes) = k * Lot
  BY <1>5
<1>7. Affordable(limit, money) = k * Lot
  BY <1>6 DEF Affordable
<1>8. k \in Nat /\ k * Lot \in Nat /\ limit * k * Lot = (k * Lot) * limit
  <2> HIDE DEF top
  <2> QED
    BY <1>1, <1>2
<1>9. CASE k = 0
  BY <1>1, <1>7, <1>9 DEF WithFee, Fee
<1>10. CASE k # 0
  BY <1>7, <1>8, <1>10
<1> QED
  BY <1>7, <1>8, <1>9, <1>10
-----------------------------------------------------------------------------
(* One security after the other. *)

Places   == {0} \cup Etfs
Among(s) == {t \in Etfs : t <= s}

LEMMA PreviousIsBefore ==
  ASSUME NEW s \in Etfs
  PROVE  /\ s \in Nat \ {0} /\ Previous(s) \in Places /\ Previous(s) \in Nat /\ Previous(s) < s
         /\ Among(s) = Among(Previous(s)) \cup {s} /\ s \notin Among(Previous(s))
<1>1. Etfs \subseteq Nat \ {0}
  BY EtfAssumption
<1> DEFINE before == {t \in Etfs : t < s}
<1>2. CASE before = {}
  <2>1. Previous(s) = 0
    BY <1>2 DEF Previous
  <2>2. \A t \in Etfs : t <= s <=> t = s
    <3>1. \A t \in Etfs : ~(t < s) /\ t \in Nat /\ s \in Nat
      BY <1>1, <1>2
    <3> QED
      BY <3>1
  <2>3. Among(s) = {s} /\ Among(0) = {}
    <3>1. \A t \in Etfs : t \in Nat \ {0} /\ ~(t <= 0)
      BY <1>1
    <3>2. Among(0) = {}
      BY <3>1 DEF Among
    <3>3. Among(s) = {s}
      BY <2>2 DEF Among
    <3> QED
      BY <3>2, <3>3
  <2>4. s \in Nat \ {0} /\ Previous(s) \in Places /\ Previous(s) \in Nat /\ Previous(s) < s
    BY <1>1, <2>1 DEF Places
  <2>5. Among(Previous(s)) = {}
    BY <2>1, <2>3
  <2> QED
    BY <2>3, <2>4, <2>5
<1>3. CASE before # {}
  <2>1. before \subseteq Nat /\ \A t \in before : t <= s
    <3>1. \A t \in Etfs : t \in Nat /\ s \in Nat
      BY <1>1
    <3> QED
      BY <3>1
  <2>2. Max(before) \in before /\ \A t \in before : t <= Max(before)
    <3>1. s \in Nat
      BY <1>1
    <3> HIDE DEF before
    <3> QED
      BY <1>3, <2>1, <3>1, BoundedMax
  <2>3. Previous(s) = Max(before)
    BY <1>3 DEF Previous
  <2>4. PICK m : m = Previous(s)
    OBVIOUS
  <2>5. m \in Etfs /\ m < s /\ \A t \in Etfs : t < s => t <= m
    BY <2>2, <2>3, <2>4
  <2>6. \A t \in Etfs : t \in Nat /\ m \in Nat /\ s \in Nat
    BY <1>1, <2>5
  <2>7. \A t \in Etfs : t <= s <=> t <= m \/ t = s
    BY <2>5, <2>6
  <2>8. Among(s) = Among(m) \cup {s} /\ s \notin Among(m)
    BY <2>5, <2>6, <2>7 DEF Among
  <2> QED
    BY <1>1, <2>4, <2>5, <2>8 DEF Places
<1> QED
  BY <1>2, <1>3

\* What holds at the start and of each security after the one before it holds of all.
LEMMA Sweep ==
  ASSUME NEW Good, 0 \in Good, \A s \in Etfs : Previous(s) \in Good => s \in Good
  PROVE  Places \subseteq Good
<1> DEFINE Wrong == {s \in Etfs : s \notin Good}
<1>1. Wrong = {}
  <2>1. SUFFICES ASSUME Wrong # {} PROVE FALSE
    OBVIOUS
  <2>2. PICK s \in Wrong : \A t \in Wrong : s <= t
    <3>1. Wrong \subseteq Nat
      BY EtfAssumption
    <3> HIDE DEF Wrong
    <3> QED
      BY <2>1, <3>1, LeastNumber
  <2>3. Previous(s) \in Places /\ Previous(s) < s /\ Previous(s) \in Nat /\ s \in Nat
    BY PreviousIsBefore
  <2>4. Previous(s) \in Good
    BY <2>2, <2>3 DEF Places
  <2> QED
    BY <2>2, <2>4
<1> QED
  BY <1>1 DEF Places

\* The last one comes after all.
LEMMA LastPlace == \E s \in Places : Among(s) = Etfs
<1>1. Etfs \subseteq Nat /\ Etfs # {}
  BY EtfAssumption
<1>2. PICK b \in Nat : \A s \in Etfs : s <= b
  BY <1>1, EtfAssumption, FiniteBounded
<1>3. Max(Etfs) \in Etfs /\ \A s \in Etfs : s <= Max(Etfs)
  BY <1>1, <1>2, BoundedMax
<1> QED
  BY <1>3 DEF Among, Places

\* A recursion from one security to the next has a solution.
Accumulated(f, base, G) ==
  f = [s \in Places |-> IF s = 0 THEN base ELSE G[s][f[Previous(s)]]]

LEMMA Accumulates ==
  ASSUME NEW A, NEW base \in A, NEW G, \A s \in Etfs : \A x \in A : G[s][x] \in A
  PROVE  \E f \in [Places -> A] : Accumulated(f, base, G)
<1> DEFINE First(n) == {s \in Places : s <= n}
           Solves(f, n) == \A s \in First(n) : f[s] = IF s = 0 THEN base ELSE G[s][f[Previous(s)]]
           Wrong == {n \in Nat : ~ \E f \in [First(n) -> A] : Solves(f, n)}
<1>1. 0 \notin Wrong
  <2>1. First(0) = {0}
    <3>1. \A s \in Etfs : s \in Nat /\ s # 0
      BY EtfAssumption
    <3> QED
      BY <3>1 DEF Places
  <2> DEFINE f == [s \in First(0) |-> base]
  <2>2. f \in [First(0) -> A] /\ Solves(f, 0)
    BY <2>1
  <2> QED
    BY <2>2
<1>2. Wrong = {}
  <2>1. SUFFICES ASSUME Wrong # {} PROVE FALSE
    OBVIOUS
  <2>2. PICK n \in Wrong : \A m \in Wrong : n <= m
    <3>1. Wrong \subseteq Nat
      OBVIOUS
    <3> HIDE DEF Wrong
    <3> QED
      BY ONLY <2>1, <3>1, LeastNumber
  <2>3. n \in Nat /\ n - 1 \in Nat /\ n - 1 \notin Wrong
    <3>1. n \in Nat
      BY <2>2
    <3> HIDE DEF Wrong
    <3> QED
      BY ONLY <1>1, <2>2, <3>1
  <2>4. PICK f \in [First(n - 1) -> A] : Solves(f, n - 1)
    BY <2>3
  <2> DEFINE h == [s \in First(n) |-> IF s \in First(n - 1) THEN f[s] ELSE G[s][f[Previous(s)]]]
  <2>5. \A s \in First(n) : s # 0 => s \in Etfs /\ Previous(s) \in First(n - 1) /\ Previous(s) \in First(n)
    <3> TAKE s \in First(n)
    <3> HAVE s # 0
    <3>1. s \in Etfs /\ s <= n
      BY DEF Places
    <3>2. Previous(s) \in Places /\ Previous(s) < s /\ Previous(s) \in Nat /\ s \in Nat
      BY <3>1, PreviousIsBefore
    <3> QED
      BY <2>3, <3>1, <3>2
  <2>6. 0 \in First(n - 1)
    BY <2>3 DEF Places
  <2>7. h \in [First(n) -> A]
    <3> SUFFICES ASSUME NEW s \in First(n) PROVE h[s] \in A
      BY DEF h
    <3>1. CASE s \in First(n - 1)
      BY <3>1
    <3>2. CASE s \notin First(n - 1)
      BY <2>5, <2>6, <3>2
    <3> QED
      BY <3>1, <3>2
  <2>8. Solves(h, n)
    <3> SUFFICES ASSUME NEW s \in First(n) PROVE h[s] = IF s = 0 THEN base ELSE G[s][h[Previous(s)]]
      BY DEF Solves
    <3>1. CASE s \in First(n - 1)
      BY <2>4, <2>5, <3>1
    <3>2. CASE s \notin First(n - 1)
      BY <2>5, <2>6, <3>2
    <3> QED
      BY <3>1, <3>2
  <2> QED
    BY <2>2, <2>7, <2>8
<1>3. PICK b \in Nat : \A s \in Etfs : s <= b
  BY EtfAssumption, FiniteBounded
<1>4. First(b) = Places
  BY <1>3 DEF Places
<1>5. PICK f \in [First(b) -> A] : Solves(f, b)
  BY <1>2
<1>6. f \in [Places -> A] /\ \A s \in Places : f[s] = IF s = 0 THEN base ELSE G[s][f[Previous(s)]]
  BY <1>4, <1>5
<1>7. f = [s \in Places |-> IF s = 0 THEN base ELSE G[s][f[Previous(s)]]]
  <2> HIDE DEF First, Solves, Wrong
  <2>1. f = [s \in Places |-> f[s]]
    BY <1>6
  <2> QED
    BY <1>6, <2>1
<1> QED
  BY <1>6, <1>7 DEF Accumulated
-----------------------------------------------------------------------------
(* The planner's quantities, and what the risk check lets through. *)

LEMMA BuySizeType ==
  ASSUME NEW goal, \A s \in DOMAIN goal : goal[s].quantity \in Int,
         NEW limit \in [Etfs -> Nat \ {0}], NEW s \in Etfs, Projected(s) \in Int, NEW left \in Nat
  PROVE  /\ BuySize(goal, limit, left, s) \in Nat
         /\ WithFee(BuySize(goal, limit, left, s) * limit[s]) \in Nat
         /\ WithFee(BuySize(goal, limit, left, s) * limit[s]) <= left
         /\ BuySize(goal, limit, left, s) > 0 =>
              s \in DOMAIN goal /\ BuySize(goal, limit, left, s) <= goal[s].quantity - Projected(s)
<1>1. PICK gap : gap = IF s \in DOMAIN goal THEN goal[s].quantity - Projected(s) ELSE 0
  OBVIOUS
<1>2. gap \in Int /\ limit[s] \in Nat \ {0}
  BY <1>1
<1>3. PICK lots, most : lots = WholeLots(gap) /\ most = Affordable(limit[s], left)
  OBVIOUS
<1>4. /\ lots \in Nat /\ (lots > 0 => lots <= gap)
      /\ most \in Nat /\ WithFee(most * limit[s]) <= left
  BY <1>2, <1>3, LotsType, AffordableType
<1>5. PICK q : q = BuySize(goal, limit, left, s)
  OBVIOUS
<1>6. q = IF gap <= 0 THEN 0 ELSE Least(lots, most)
  BY <1>1, <1>3, <1>5 DEF BuySize
<1>7. q \in Nat /\ q <= most /\ (q > 0 => gap > 0 /\ q <= gap)
  BY <1>2, <1>4, <1>6 DEF Least
<1>8. q * limit[s] \in Nat /\ most * limit[s] \in Nat /\ q * limit[s] <= most * limit[s]
  BY <1>2, <1>4, <1>7
<1>9. WithFee(q * limit[s]) \in Nat /\ WithFee(most * limit[s]) \in Nat
      /\ WithFee(q * limit[s]) <= WithFee(most * limit[s])
  BY <1>8, FeeType, FeeGrows
<1>10. WithFee(q * limit[s]) <= left
  BY <1>4, <1>9
<1> QED
  BY <1>1, <1>5, <1>7, <1>9, <1>10

\* Orders of both sides: whole numbers, towards the goal.
LEMMA SellsType ==
  ASSUME NEW goal, DOMAIN goal \subseteq Etfs, \A s \in DOMAIN goal : goal[s].quantity \in Int,
         \A s \in Etfs : Projected(s) \in Int, NEW free, \A s \in Etfs : free[s] \in Nat
  PROVE  LET q == SellQuantities(goal, free)
         IN \A s \in DOMAIN q :
              /\ s \in DOMAIN goal /\ q[s] \in Nat \ {0}
              /\ q[s] <= Projected(s) - goal[s].quantity /\ q[s] <= free[s]
<1>1. SUFFICES ASSUME NEW s \in DOMAIN SellQuantities(goal, free)
               PROVE  /\ s \in DOMAIN goal /\ SellQuantities(goal, free)[s] \in Nat \ {0}
                      /\ SellQuantities(goal, free)[s] <= Projected(s) - goal[s].quantity
                      /\ SellQuantities(goal, free)[s] <= free[s]
  OBVIOUS
<1>2. s \in DOMAIN goal /\ s \in Etfs /\ SellSize(goal, free, s) > 0
      /\ SellQuantities(goal, free)[s] = SellSize(goal, free, s)
  BY <1>1 DEF SellQuantities
<1>3. PICK over, most : over = Projected(s) - goal[s].quantity /\ most = free[s]
  OBVIOUS
<1>4. over \in Int /\ most \in Nat
  BY <1>2, <1>3
<1>5. PICK x, y : x = WholeLots(over) /\ y = WholeLots(most)
  OBVIOUS
<1>6. x \in Nat /\ (x > 0 => x <= over) /\ y \in Nat /\ (y > 0 => y <= most)
  BY <1>4, <1>5, LotsType
<1>7. SellSize(goal, free, s) = Least(x, y)
  BY <1>3, <1>5 DEF SellSize
<1>8. Least(x, y) > 0 => Least(x, y) \in Nat \ {0} /\ Least(x, y) <= over /\ Least(x, y) <= most
  BY <1>4, <1>6 DEF Least
<1> QED
  BY <1>2, <1>3, <1>7, <1>8

\* The buys, in their order, cost what is there at most.
LEMMA BuysType ==
  ASSUME NEW goal, \A s \in DOMAIN goal : goal[s].quantity \in Int,
         NEW limit \in [Etfs -> Nat \ {0}], \A s \in Etfs : Projected(s) \in Int, NEW money \in Nat
  PROVE  LET q == BuyQuantities(goal, limit, money)
         IN /\ DOMAIN q \subseteq Etfs
            /\ \A s \in DOMAIN q : /\ s \in DOMAIN goal /\ q[s] \in Nat \ {0}
                                   /\ q[s] <= goal[s].quantity - Projected(s)
                                   /\ WithFee(q[s] * limit[s]) \in Nat
            /\ Total([s \in DOMAIN q |-> WithFee(q[s] * limit[s])], DOMAIN q) <= money
<1> DEFINE A == [left : Nat, quantity : Nat]
           base == [left |-> money, quantity |-> 0]
           G == [s \in Etfs |-> [x \in A |-> Bought(goal, limit, x.left, s)]]
<1>1. ASSUME NEW s \in Etfs, NEW left \in Nat
      PROVE  /\ Bought(goal, limit, left, s) \in A
             /\ Bought(goal, limit, left, s).left
                  = left - WithFee(Bought(goal, limit, left, s).quantity * limit[s])
             /\ Bought(goal, limit, left, s).quantity > 0 =>
                  /\ s \in DOMAIN goal
                  /\ Bought(goal, limit, left, s).quantity <= goal[s].quantity - Projected(s)
  <2>1. PICK q : q = BuySize(goal, limit, left, s)
    OBVIOUS
  <2>2. PICK cost : cost = WithFee(q * limit[s])
    OBVIOUS
  <2>3. /\ q \in Nat /\ cost \in Nat /\ cost <= left
        /\ q > 0 => s \in DOMAIN goal /\ q <= goal[s].quantity - Projected(s)
    BY <2>1, <2>2, BuySizeType
  <2>4. Bought(goal, limit, left, s) = [left |-> left - cost, quantity |-> q]
    BY <2>1, <2>2 DEF Bought
  <2>5. left - cost \in Nat
    BY <2>3
  <2> QED
    BY <2>2, <2>3, <2>4, <2>5
<1>2. PICK f \in [Places -> A] : Accumulated(f, base, G)
  <2>1. base \in A /\ \A s \in Etfs : \A x \in A : G[s][x] \in A
    BY <1>1
  <2> HIDE DEF A, base, G
  <2> QED
    BY <2>1, Accumulates
<1>3. f = [s \in Places |-> IF s = 0 THEN base ELSE Bought(goal, limit, f[Previous(s)].left, s)]
  <2>1. \A s \in Places : f[s] = IF s = 0 THEN base ELSE G[s][f[Previous(s)]]
    <3> HIDE DEF A, base, G
    <3> QED
      BY <1>2 DEF Accumulated
  <2>2. \A s \in Places : s # 0 => s \in Etfs /\ f[Previous(s)] \in A
    BY <1>2, PreviousIsBefore DEF Places
  <2>3. \A s \in Places : f[s] = IF s = 0 THEN base ELSE Bought(goal, limit, f[Previous(s)].left, s)
    <3> TAKE s \in Places
    <3>1. CASE s = 0
      BY <2>1, <3>1
    <3>2. CASE s # 0
      BY <2>1, <2>2, <3>2
    <3> QED
      BY <3>1, <3>2
  <2>4. f = [s \in Places |-> f[s]]
    BY <1>2
  <2> HIDE DEF A, base, G
  <2> QED
    BY <2>3, <2>4
<1> DEFINE body(h) == [s \in {0} \cup Etfs |->
                         IF s = 0 THEN [left |-> money, quantity |-> 0]
                         ELSE Bought(goal, limit, h[Previous(s)].left, s)]
           Plan == CHOOSE h : h = body(h)
<1>4. Plan = body(Plan)
  <2>1. f = body(f)
    BY <1>3 DEF Places
  <2> HIDE DEF body
  <2> QED
    BY <2>1, Zenon
<1>5. BuyQuantities(goal, limit, money) = [s \in {t \in Etfs : Plan[t].quantity > 0} |-> Plan[s].quantity]
  BY DEF BuyQuantities
<1> HIDE DEF Plan
<1>6. /\ Plan[0] = base
      /\ \A s \in Etfs : Plan[s] = Bought(goal, limit, Plan[Previous(s)].left, s)
  <2>1. \A s \in Etfs : s # 0 /\ s \in {0} \cup Etfs
    BY EtfAssumption
  <2> QED
    BY <1>4, <2>1
<1> HIDE DEF body
<1> DEFINE w == [s \in Etfs |-> WithFee(Plan[s].quantity * limit[s])]
           Good == {s \in Places : Plan[s] \in A /\ Plan[s].left + Total(w, Among(s)) = money}
<1>7. 0 \in Good
  <2>1. Among(0) = {}
    <3>1. \A t \in Etfs : ~(t <= 0)
      BY EtfAssumption
    <3> QED
      BY <3>1 DEF Among
  <2>2. Total(w, Among(0)) = 0
    <3> HIDE DEF w
    <3> QED
      BY <2>1, TotalEmpty
  <2> HIDE DEF w
  <2> QED
    BY <1>6, <2>2 DEF Places
<1>8. ASSUME NEW s \in Etfs, Previous(s) \in Places, Plan[Previous(s)] \in A
      PROVE  /\ Plan[s] \in A /\ Plan[s].left = Plan[Previous(s)].left - w[s]
             /\ w[s] = WithFee(Plan[s].quantity * limit[s])
             /\ Plan[s].quantity > 0 =>
                  s \in DOMAIN goal /\ Plan[s].quantity <= goal[s].quantity - Projected(s)
  <2>1. Plan[Previous(s)].left \in Nat
    BY <1>8
  <2>2. Plan[s] = Bought(goal, limit, Plan[Previous(s)].left, s)
    BY <1>6
  <2> HIDE DEF A
  <2>3. w[s] = WithFee(Plan[s].quantity * limit[s])
    OBVIOUS
  <2> HIDE DEF w
  <2> QED
    BY <1>1, <2>1, <2>2, <2>3
<1>9. Places \subseteq {s \in Places : Plan[s] \in A}
  <2>1. ASSUME NEW s \in Etfs, Previous(s) \in {x \in Places : Plan[x] \in A}
        PROVE  s \in {x \in Places : Plan[x] \in A}
    BY <1>8, <2>1 DEF Places
  <2>2. 0 \in {x \in Places : Plan[x] \in A}
    BY <1>7
  <2> HIDE DEF A
  <2> QED
    BY <2>1, <2>2, Sweep
<1>10. \A s \in Etfs : /\ Previous(s) \in Places /\ Plan[Previous(s)] \in A /\ w[s] \in Nat
                       /\ Plan[s] \in A
  <2> TAKE s \in Etfs
  <2>1. Previous(s) \in Places /\ Plan[Previous(s)] \in A
    BY <1>9, PreviousIsBefore
  <2>2. Plan[s].quantity \in Nat /\ limit[s] \in Nat /\ Plan[s] \in A
    BY <1>9 DEF Places
  <2>3. Plan[s].quantity * limit[s] \in Nat
    BY <2>2
  <2> HIDE DEF A
  <2> QED
    BY <2>1, <2>2, <2>3, FeeType
<1>11. Places \subseteq Good
  <2>1. ASSUME NEW s \in Etfs, Previous(s) \in Good PROVE s \in Good
    <3>1. Plan[Previous(s)].left + Total(w, Among(Previous(s))) = money
      BY <2>1
    <3>2. Total(w, Among(s)) = w[s] + Total(w, Among(Previous(s)))
      <4>1. Among(s) = Among(Previous(s)) \cup {s} /\ s \notin Among(Previous(s))
        BY PreviousIsBefore
      <4>2. IsFiniteSet(Among(Previous(s))) /\ Among(s) \subseteq Etfs
        <5>1. Among(Previous(s)) \subseteq Etfs /\ Among(s) \subseteq Etfs
          BY DEF Among
        <5> QED
          BY <5>1, EtfAssumption, FS_Subset
      <4>3. \A y \in Among(Previous(s)) \cup {s} : w[y] \in Int
        BY <1>10, <4>1, <4>2
      <4> HIDE DEF w
      <4> QED
        BY <4>1, <4>2, <4>3, TotalWith
    <3>3. Total(w, Among(Previous(s))) \in Int
      <4>1. Among(Previous(s)) \subseteq Etfs
        BY DEF Among
      <4>2. IsFiniteSet(Among(Previous(s))) /\ \A y \in Among(Previous(s)) : w[y] \in Int
        BY <1>10, <4>1, EtfAssumption, FS_Subset
      <4> HIDE DEF w
      <4> QED
        BY <4>2, TotalInt
    <3>4. Plan[s].left = Plan[Previous(s)].left - w[s] /\ Plan[s] \in A
      BY <1>8, <1>10
    <3>5. Plan[Previous(s)].left \in Nat /\ w[s] \in Nat
      BY <1>10
    <3>6. Plan[s].left + Total(w, Among(s)) = money
      <4> HIDE DEF w
      <4> QED
        BY <3>1, <3>2, <3>3, <3>4, <3>5
    <3> HIDE DEF w, A
    <3> QED
      BY <3>4, <3>6 DEF Places
  <2> HIDE DEF Good
  <2> QED
    BY <1>7, <2>1, Sweep
<1>12. Total(w, Etfs) <= money
  <2>1. PICK m \in Places : Among(m) = Etfs
    BY LastPlace
  <2>2. Plan[m].left \in Nat /\ Plan[m].left + Total(w, Etfs) = money
    BY <1>11, <2>1
  <2>3. Total(w, Etfs) \in Int
    <3>1. \A y \in Etfs : w[y] \in Int
      BY <1>10
    <3> HIDE DEF w
    <3> QED
      BY <3>1, EtfAssumption, TotalInt
  <2> HIDE DEF w
  <2> QED
    BY <2>2, <2>3
<1>13. PICK q : q = BuyQuantities(goal, limit, money)
  OBVIOUS
<1>14. /\ DOMAIN q \subseteq Etfs
       /\ \A s \in DOMAIN q : q[s] = Plan[s].quantity /\ q[s] > 0
       /\ \A s \in Etfs : q[s] = Plan[s].quantity \/ s \notin DOMAIN q
  BY <1>5, <1>13
<1>15. \A s \in DOMAIN q : /\ s \in DOMAIN goal /\ q[s] \in Nat \ {0}
                           /\ q[s] <= goal[s].quantity - Projected(s)
                           /\ w[s] \in Nat /\ WithFee(q[s] * limit[s]) = w[s]
  <2> TAKE s \in DOMAIN q
  <2>1. s \in Etfs /\ q[s] = Plan[s].quantity /\ q[s] > 0
    BY <1>14
  <2>2. Plan[s].quantity \in Nat
    BY <1>10, <2>1
  <2>3. w[s] = WithFee(Plan[s].quantity * limit[s]) /\ w[s] \in Nat
    BY <1>10, <2>1
  <2>4. Plan[s].quantity > 0 =>
                  s \in DOMAIN goal /\ Plan[s].quantity <= goal[s].quantity - Projected(s)
    BY <1>8, <1>10, <2>1
  <2> HIDE DEF w, A
  <2> QED
    BY <2>1, <2>2, <2>3, <2>4
<1>16. Total([s \in DOMAIN q |-> WithFee(q[s] * limit[s])], DOMAIN q) <= money
  <2> DEFINE v == [s \in DOMAIN q |-> WithFee(q[s] * limit[s])]
  <2>1. \A s \in DOMAIN q : v[s] = w[s]
    BY <1>15
  <2>2. \A s \in Etfs : w[s] \in Nat
    BY <1>10
  <2> HIDE DEF v, w
  <2>3. IsFiniteSet(DOMAIN q)
    BY <1>14, EtfAssumption, FS_Subset
  <2>4. Total(v, DOMAIN q) = Total(w, DOMAIN q)
    BY <2>1, <2>3, TotalAgrees
  <2>5. Total(w, DOMAIN q) \in Nat /\ Total(w, DOMAIN q) <= Total(w, Etfs)
    BY <1>14, <2>2, EtfAssumption, TotalPart
  <2>6. Total(w, Etfs) \in Int
    BY <2>2, EtfAssumption, TotalInt
  <2>7. Total(v, DOMAIN q) <= money
    BY <1>12, <2>4, <2>5, <2>6
  <2> QED
    BY <2>7 DEF v
<1> QED
  BY <1>13, <1>14, <1>15, <1>16

\* What the check approves stays within the daily limit.
LEMMA ApprovedType ==
  ASSUME NEW side, NEW batch, DOMAIN batch \subseteq Etfs, \A s \in DOMAIN batch : batch[s] \in Nat,
         NEW limit \in [Etfs -> Nat \ {0}], NEW money, NEW free, NEW weight,
         Notional(day) \in Nat, Notional(day) <= MaxDaily
  PROVE  LET good == Approved(side, batch, limit, money, free, weight)
         IN /\ good \subseteq DOMAIN batch
            /\ Notional(day) + Total([s \in good |-> batch[s] * limit[s]], good) <= MaxDaily
<1> DEFINE A == [sum : Nat, ok : BOOLEAN]
           base == [sum |-> Notional(day), ok |-> FALSE]
           Ok(s, sum) == s \in DOMAIN batch
                         /\ Passes(side, batch[s], batch[s] * limit[s], sum, money, free[s], weight)
           After(s, sum) == [sum |-> IF Ok(s, sum) THEN sum + batch[s] * limit[s] ELSE sum, ok |-> Ok(s, sum)]
           G == [s \in Etfs |-> [x \in A |-> After(s, x.sum)]]
<1>1. MaxDaily \in Nat /\ \A s \in DOMAIN batch : batch[s] * limit[s] \in Nat
  <2>1. \A s \in DOMAIN batch : batch[s] \in Nat /\ limit[s] \in Nat
    OBVIOUS
  <2> QED
    BY <2>1, ConfigAssumption
<1>2. ASSUME NEW s \in Etfs, NEW sum \in Nat
      PROVE  /\ Ok(s, sum) \in BOOLEAN
             /\ Ok(s, sum) => s \in DOMAIN batch /\ sum + batch[s] * limit[s] <= MaxDaily
  BY DEF Passes
<1>3. ASSUME NEW s \in Etfs, NEW sum \in Nat
      PROVE  After(s, sum) \in A
  <2> HIDE DEF Ok
  <2> QED
    BY <1>1, <1>2
<1>4. PICK f \in [Places -> A] : Accumulated(f, base, G)
  <2>1. base \in A
    OBVIOUS
  <2>2. \A s \in Etfs : \A x \in A : G[s][x] \in A
    <3> HIDE DEF After
    <3> QED
      BY <1>3
  <2> HIDE DEF A, base, G
  <2> QED
    BY <2>1, <2>2, Accumulates
<1>5. f = [s \in Places |-> IF s = 0 THEN base ELSE After(s, f[Previous(s)].sum)]
  <2>1. \A s \in Places : f[s] = IF s = 0 THEN base ELSE G[s][f[Previous(s)]]
    <3> HIDE DEF A, base, G
    <3> QED
      BY <1>4 DEF Accumulated
  <2>2. \A s \in Places : s # 0 => s \in Etfs /\ f[Previous(s)] \in A
    BY <1>4, PreviousIsBefore DEF Places
  <2>3. \A s \in Places : f[s] = IF s = 0 THEN base ELSE After(s, f[Previous(s)].sum)
    <3> HIDE DEF After, base, A
    <3> TAKE s \in Places
    <3>1. CASE s = 0
      BY <2>1, <3>1
    <3>2. CASE s # 0
      BY <2>1, <2>2, <3>2
    <3> QED
      BY <3>1, <3>2
  <2>4. f = [s \in Places |-> f[s]]
    BY <1>4
  <2> HIDE DEF A, base, G, After
  <2> QED
    BY <2>3, <2>4
<1> DEFINE body(h) == [s \in {0} \cup Etfs |->
             IF s = 0 THEN [sum |-> Notional(day), ok |-> FALSE]
             ELSE LET sum == h[Previous(s)].sum
                      ok  == s \in DOMAIN batch
                             /\ Passes(side, batch[s], batch[s] * limit[s], sum, money, free[s], weight)
                  IN [sum |-> IF ok THEN sum + batch[s] * limit[s] ELSE sum, ok |-> ok]]
           Check == CHOOSE h : h = body(h)
<1>6. Check = body(Check)
  <2>1. f = body(f)
    BY <1>5 DEF Places
  <2> HIDE DEF body
  <2> QED
    BY <2>1, Zenon
<1>7. Approved(side, batch, limit, money, free, weight) = {s \in DOMAIN batch : Check[s].ok}
  BY DEF Approved
<1> HIDE DEF Check
<1>8. Check[0] = base /\ \A s \in Etfs : Check[s] = After(s, Check[Previous(s)].sum)
  <2>1. \A s \in Etfs : s # 0 /\ s \in {0} \cup Etfs
    BY EtfAssumption
  <2> QED
    BY <1>6, <2>1
<1> HIDE DEF body
<1> DEFINE v == [s \in Etfs |-> IF Check[s].ok THEN batch[s] * limit[s] ELSE 0]
           Good == {s \in Places : /\ Check[s] \in A /\ Check[s].sum <= MaxDaily
                                   /\ Notional(day) + Total(v, Among(s)) = Check[s].sum}
<1>9. 0 \in Good
  <2>1. Among(0) = {}
    <3>1. \A t \in Etfs : ~(t <= 0)
      BY EtfAssumption
    <3> QED
      BY <3>1 DEF Among
  <2>2. Total(v, Among(0)) = 0
    <3> HIDE DEF v
    <3> QED
      BY <2>1, TotalEmpty
  <2>3. Check[0] \in A /\ Check[0].sum = Notional(day) /\ 0 \in Places
    BY <1>8 DEF Places
  <2> HIDE DEF v, A
  <2> QED
    BY <2>2, <2>3
<1>10. ASSUME NEW s \in Etfs, Check[Previous(s)] \in A
       PROVE  /\ Check[s] \in A /\ v[s] \in Nat
              /\ Check[s].ok => s \in DOMAIN batch /\ v[s] = batch[s] * limit[s]
              /\ Check[s].sum = Check[Previous(s)].sum + v[s]
              /\ Check[Previous(s)].sum <= MaxDaily => Check[s].sum <= MaxDaily
  <2>1. PICK sum : sum = Check[Previous(s)].sum
    OBVIOUS
  <2>2. sum \in Nat
    BY <1>10, <2>1
  <2>3. Check[s] = After(s, sum)
    BY <1>8, <2>1
  <2>4. PICK ok : ok = Ok(s, sum)
    OBVIOUS
  <2>5. ok \in BOOLEAN /\ (ok => s \in DOMAIN batch /\ sum + batch[s] * limit[s] <= MaxDaily)
    <3> HIDE DEF Ok
    <3> QED
      BY <1>2, <2>2, <2>4
  <2> HIDE DEF Ok
  <2>6. Check[s].ok = ok /\ Check[s].sum = IF ok THEN sum + batch[s] * limit[s] ELSE sum
    BY <2>3, <2>4
  <2>7. Check[s] \in A
    <3> HIDE DEF After, A
    <3> QED
      BY <1>3, <2>2, <2>3
  <2>8. CASE ok
    <3>1. s \in DOMAIN batch /\ batch[s] * limit[s] \in Nat
      BY <1>1, <2>5, <2>8
    <3>2. v[s] = batch[s] * limit[s] /\ Check[s].sum = sum + batch[s] * limit[s]
      BY <2>6, <2>8
    <3> HIDE DEF v, A
    <3> QED
      BY <2>1, <2>2, <2>5, <2>7, <2>8, <3>1, <3>2
  <2>9. CASE ~ok
    <3>1. v[s] = 0 /\ Check[s].sum = sum /\ ~Check[s].ok
      BY <2>6, <2>9
    <3> HIDE DEF v, A
    <3> QED
      BY <2>1, <2>2, <2>7, <3>1
  <2> QED
    BY <2>5, <2>8, <2>9
<1>11. Places \subseteq {s \in Places : Check[s] \in A}
  <2>1. ASSUME NEW s \in Etfs, Previous(s) \in {x \in Places : Check[x] \in A}
        PROVE  s \in {x \in Places : Check[x] \in A}
    <3> HIDE DEF A
    <3> QED
      BY <1>10, <2>1 DEF Places
  <2>2. 0 \in {x \in Places : Check[x] \in A}
    BY <1>9
  <2> HIDE DEF A
  <2> QED
    BY <2>1, <2>2, Sweep
<1>12. \A s \in Etfs : Check[Previous(s)] \in A
  BY <1>11, PreviousIsBefore
<1>13. Places \subseteq Good
  <2>1. ASSUME NEW s \in Etfs, Previous(s) \in Good PROVE s \in Good
    <3>1. /\ Notional(day) + Total(v, Among(Previous(s))) = Check[Previous(s)].sum
          /\ Check[Previous(s)].sum <= MaxDaily
      BY <2>1
    <3>2. Total(v, Among(s)) = v[s] + Total(v, Among(Previous(s)))
      <4>1. Among(s) = Among(Previous(s)) \cup {s} /\ s \notin Among(Previous(s))
        BY PreviousIsBefore
      <4>2. IsFiniteSet(Among(Previous(s))) /\ Among(s) \subseteq Etfs
        <5>1. Among(Previous(s)) \subseteq Etfs /\ Among(s) \subseteq Etfs
          BY DEF Among
        <5> QED
          BY <5>1, EtfAssumption, FS_Subset
      <4> HIDE DEF v, A
      <4>3. \A y \in Etfs : v[y] \in Int
        BY <1>10, <1>12
      <4>4. \A y \in Among(Previous(s)) \cup {s} : v[y] \in Int
        BY <4>1, <4>2, <4>3
      <4> QED
        BY <4>1, <4>2, <4>4, TotalWith
    <3> HIDE DEF v
    <3>3. Total(v, Among(Previous(s))) \in Int
      <4>1. Among(Previous(s)) \subseteq Etfs
        BY DEF Among
      <4>2. IsFiniteSet(Among(Previous(s)))
        BY <4>1, EtfAssumption, FS_Subset
      <4> HIDE DEF A
      <4>3. \A y \in Etfs : v[y] \in Int
        BY <1>10, <1>12
      <4> QED
        BY <4>1, <4>2, <4>3, TotalInt
    <3>4. /\ Check[s] \in A /\ v[s] \in Nat /\ Check[s].sum = Check[Previous(s)].sum + v[s]
          /\ Check[Previous(s)].sum <= MaxDaily => Check[s].sum <= MaxDaily
      <4> HIDE DEF A
      <4> QED
        BY <1>10, <1>12
    <3>5. Notional(day) + Total(v, Among(s)) = Check[s].sum
      BY <3>1, <3>2, <3>3, <3>4
    <3> HIDE DEF A
    <3> QED
      BY <3>1, <3>4, <3>5 DEF Places
  <2> HIDE DEF Good
  <2> QED
    BY <1>9, <2>1, Sweep
<1>14. PICK good : good = Approved(side, batch, limit, money, free, weight)
  OBVIOUS
<1>15. good = {s \in DOMAIN batch : Check[s].ok}
  BY <1>7, <1>14
<1>16. Total([s \in good |-> batch[s] * limit[s]], good) = Total(v, good)
  <2> DEFINE u == [s \in good |-> batch[s] * limit[s]]
  <2>1. \A s \in good : u[s] = v[s]
    BY <1>15
  <2>2. IsFiniteSet(good)
    BY <1>15, EtfAssumption, FS_Subset
  <2> HIDE DEF u, v
  <2>3. Total(u, good) = Total(v, good)
    BY <2>1, <2>2, TotalAgrees
  <2> QED
    BY <2>3 DEF u
<1>17. Total(v, Etfs) = Total(v, good)
  <2>1. \A s \in Etfs \ good : v[s] = 0
    <3>1. \A s \in Etfs : Check[s].ok => s \in DOMAIN batch
      <4> HIDE DEF A, v
      <4> QED
        BY <1>10, <1>12
    <3> QED
      BY <1>15, <3>1
  <2>2. \A s \in Etfs : v[s] \in Int
    <3> HIDE DEF A, v
    <3> QED
      BY <1>10, <1>12
  <2> HIDE DEF v
  <2> QED
    BY <1>15, <2>1, <2>2, EtfAssumption, TotalRestricted
<1>18. PICK m \in Places : Among(m) = Etfs
  BY LastPlace
<1>19. Notional(day) + Total(v, Etfs) <= MaxDaily
  BY <1>13, <1>18
<1> HIDE DEF v
<1> QED
  BY <1>14, <1>15, <1>16, <1>17, <1>19
-----------------------------------------------------------------------------
(* Prices. *)

LEMMA MultipleOf ==
  ASSUME NEW k \in Int, NEW d \in Nat \ {0}
  PROVE  (k * d) % d = 0
<1>1. PICK z, e, r : z = k * d /\ e = z \div d /\ r = z % d
  OBVIOUS
<1>2. z \in Int
  BY <1>1
<1>3. e \in Int /\ r \in 0 .. d - 1 /\ z = d * e + r
  BY <1>1, <1>2
<1>4. PICK x : x = k - e
  OBVIOUS
<1>5. x \in Int /\ d * x = r
  BY <1>1, <1>3, <1>4
<1>6. x >= 1 => d * x >= d
  BY <1>5
<1>7. x <= -1 => d * x <= -d
  BY <1>5
<1>8. x = 0
  BY <1>3, <1>5, <1>6, <1>7
<1> QED
  BY <1>1, <1>3, <1>5, <1>8

LEMMA CeilBounds ==
  ASSUME NEW n \in Int, NEW d \in Nat \ {0}
  PROVE  Ceil(n, d) \in Int /\ Ceil(n, d) * d >= n
<1>1. PICK m, c : m = n + d - 1 /\ c = m \div d
  OBVIOUS
<1>2. m \in Int /\ c \in Int /\ m < d * c + d
  BY <1>1, DivBounds
<1>3. c * d = d * c /\ d * c \in Int
  BY <1>2
<1>4. Ceil(n, d) = c
  BY <1>1 DEF Ceil
<1> QED
  BY <1>1, <1>2, <1>3, <1>4

\* The price of an order is on a tick, inside the limits, and meets the book.
LEMMA LimitType ==
  ASSUME NEW side \in Sides, NEW q \in Quotes, Priced(side, q)
  PROVE  LET limit == LimitPrice(side, q)
         IN /\ limit \in Nat \ {0} /\ q.last \in Nat \ {0}
            /\ q.age \in 0 .. StaleSeconds /\ ~q.suspended
            /\ limit % q.tick = 0 /\ limit \in q.lower .. q.upper
            /\ side = "BUY" => limit >= q.ask \/ limit + q.tick > q.upper
            /\ side = "SELL" => q.bid <= 0 \/ limit <= q.bid \/ limit - q.tick < q.lower
<1>1. /\ q.last \in Int /\ q.bid \in Int /\ q.ask \in Int /\ q.age \in Int /\ q.lower \in Int
      /\ q.upper \in Int /\ q.tick \in Nat \ {0} /\ q.suspended \in BOOLEAN
  BY DEF Quotes
<1>2. StaleSeconds \in Nat /\ OffsetTicks \in Nat
  BY ConfigAssumption
<1>3. q.last \in Nat \ {0} /\ q.age \in 0 .. StaleSeconds /\ ~q.suspended
  BY <1>1, <1>2 DEF Priced, Refused
<1>4. PICK limit : limit = LimitPrice(side, q)
  OBVIOUS
<1>5. limit > 0 /\ limit \in q.lower .. q.upper
  BY <1>4 DEF Priced
<1>6. PICK away : away = q.tick * OffsetTicks
  OBVIOUS
<1>7. away \in Nat
  BY <1>1, <1>2, <1>6
<1>8. CASE side = "BUY"
  <2>1. PICK base : base = IF q.ask > 0 THEN q.ask ELSE q.last
    OBVIOUS
  <2>2. PICK x : x = Least(base + away, q.upper)
    OBVIOUS
  <2>3. x \in Int /\ (x >= base \/ x = q.upper)
    BY <1>1, <1>7, <2>1, <2>2 DEF Least
  <2>4. PICK k : k = Ceil(x, q.tick)
    OBVIOUS
  <2>5. k \in Int /\ k * q.tick >= x
    BY <1>1, <2>3, <2>4, CeilBounds
  <2>6. limit = k * q.tick
    BY <1>4, <1>6, <1>8, <2>1, <2>2, <2>4 DEF LimitPrice
  <2>7. limit % q.tick = 0
    BY <1>1, <2>5, <2>6, MultipleOf
  <2>8. limit \in Nat \ {0} /\ limit >= x
    BY <1>1, <1>5, <2>5, <2>6
  <2>9. limit >= q.ask \/ limit + q.tick > q.upper
    BY <1>1, <1>5, <2>1, <2>3, <2>8
  <2> QED
    BY <1>3, <1>4, <1>5, <1>8, <2>7, <2>8, <2>9
<1>9. CASE side = "SELL"
  <2>1. PICK base : base = IF q.bid > 0 THEN q.bid ELSE q.last
    OBVIOUS
  <2>2. PICK x : x = Greatest(base - away, q.lower)
    OBVIOUS
  <2>3. x \in Int /\ (x <= base \/ x = q.lower)
    BY <1>1, <1>7, <2>1, <2>2 DEF Greatest
  <2>4. PICK k : k = x \div q.tick
    OBVIOUS
  <2>5. k \in Int /\ q.tick * k <= x
    BY <1>1, <2>3, <2>4, DivBounds
  <2>6. limit = k * q.tick
    BY <1>4, <1>6, <1>9, <2>1, <2>2, <2>4 DEF LimitPrice
  <2>7. limit % q.tick = 0
    BY <1>1, <2>5, <2>6, MultipleOf
  <2>8. limit \in Nat \ {0} /\ limit <= x
    BY <1>1, <1>5, <2>5, <2>6
  <2>9. q.bid <= 0 \/ limit <= q.bid \/ limit - q.tick < q.lower
    BY <1>1, <1>5, <2>1, <2>3, <2>8
  <2> QED
    BY <1>3, <1>4, <1>5, <1>9, <2>7, <2>8, <2>9
<1> QED
  BY <1>8, <1>9 DEF Sides

\* What the quote provider caches.
LEMMA CachedType ==
  ASSUME PlaceInv, NEW ticks \in session.ticks
  PROVE  /\ DOMAIN Cached(ticks) \subseteq Etfs
         /\ \A s \in DOMAIN Cached(ticks) : Cached(ticks)[s] \in Details
         /\ DOMAIN ticks \subseteq Etfs /\ \A s \in DOMAIN ticks : ticks[s] \in Ticks
         /\ Etfs \subseteq DOMAIN ticks => DOMAIN Cached(ticks) = Etfs
<1>1. session.details \in [Etfs -> Details]
  BY SessionAssumption DEF PlaceInv
<1>2. DOMAIN ticks \subseteq Etfs /\ \A s \in DOMAIN ticks : ticks[s] \in Ticks
  BY SessionAssumption DEF PlaceInv
<1>3. DOMAIN cached \subseteq Etfs /\ \A s \in DOMAIN cached : cached[s] \in Details
  BY DEF PlaceInv
<1>4. Seen(ticks) \subseteq Etfs /\ (Etfs \subseteq DOMAIN ticks => Seen(ticks) = Etfs)
  BY DEF Seen
<1>5. DOMAIN Cached(ticks) = DOMAIN cached \cup Seen(ticks)
  BY DEF Cached
<1>6. \A s \in DOMAIN cached \cup Seen(ticks) : Cached(ticks)[s] \in Details
  BY <1>1, <1>3, <1>4 DEF Cached
<1> QED
  BY <1>2, <1>3, <1>4, <1>5, <1>6

LEMMA QuoteType ==
  ASSUME PlaceInv, NEW ticks \in session.ticks, NEW side \in Sides, PricesAvailable(side, ticks),
         NEW s \in Etfs
  PROVE  LET q == QuoteOf(ticks[s], Cached(ticks)[s])
         IN q \in Quotes /\ Priced(side, q)
<1>1. Etfs \subseteq DOMAIN ticks /\ Priced(side, QuoteOf(ticks[s], Cached(ticks)[s]))
  BY DEF PricesAvailable
<1>2. ticks[s] \in Ticks /\ Cached(ticks)[s] \in Details
  BY <1>1, CachedType
<1>3. PICK t, d : t = ticks[s] /\ d = Cached(ticks)[s]
  OBVIOUS
<1>4. /\ t.last \in Int /\ t.bid \in Int /\ t.ask \in Int /\ t.age \in Int
      /\ d.lower \in Int /\ d.upper \in Int /\ d.tick \in Int
  BY <1>2, <1>3 DEF Ticks, Details
<1>5. QuoteOf(t, d) \in Quotes
  BY <1>4 DEF QuoteOf, Quotes
<1> QED
  BY <1>1, <1>3, <1>5
-----------------------------------------------------------------------------
(* The sums over the intents. *)

OpenOf(side, s) ==
  [i \in Intents |-> IF IsActive(i) /\ i.side = side /\ i.symbol = s THEN Remaining(i) ELSE 0]
CashOf ==
  [i \in Intents |-> IF IsActive(i) /\ i.side = "BUY" THEN WithFee(i.limit * Remaining(i)) ELSE 0]
ValueOf(d) ==
  [i \in Intents |-> IF i.day = d /\ i.status # "REJECTED" THEN i.limit * i.quantity ELSE 0]

LEMMA RemainingType ==
  ASSUME NEW i \in Intents
  PROVE  /\ Remaining(i) \in Nat /\ (i.filled <= i.quantity => Remaining(i) = i.quantity - i.filled)
         /\ i.limit * Remaining(i) \in Nat /\ i.limit * i.quantity \in Nat
<1>1. i.filled \in Nat /\ i.quantity \in Nat /\ i.limit \in Nat
  BY DEF Intents
<1>2. Remaining(i) \in Nat /\ (i.filled <= i.quantity => Remaining(i) = i.quantity - i.filled)
  BY <1>1 DEF Remaining, Greatest
<1>3. PICK r : r = Remaining(i)
  OBVIOUS
<1> QED
  BY <1>1, <1>2, <1>3

LEMMA WeightsType ==
  ASSUME NEW i \in Intents
  PROVE  /\ \A side, s : OpenOf(side, s)[i] \in Nat
         /\ CashOf[i] \in Nat
         /\ \A d : ValueOf(d)[i] \in Nat
<1>1. Remaining(i) \in Nat /\ i.limit * Remaining(i) \in Nat /\ i.limit * i.quantity \in Nat
  BY RemainingType
<1>2. WithFee(i.limit * Remaining(i)) \in Nat
  BY <1>1, FeeType
<1> QED
  BY <1>1, <1>2 DEF OpenOf, CashOf, ValueOf

\* A sum over some of the intents is one over all of them.
LEMMA SumOnPart ==
  ASSUME NEW T, IsFiniteSet(T), NEW v, DOMAIN v \subseteq T, NEW w, \A x \in T : w[x] \in Nat,
         \A x \in DOMAIN v : v[x] = w[x], \A x \in T \ DOMAIN v : w[x] = 0
  PROVE  SumFunction(v) = Total(w, T) /\ Total(w, T) \in Nat
<1>1. PICK R : R = DOMAIN v
  OBVIOUS
<1>2. IsFiniteSet(R)
  BY <1>1, FS_Subset
<1>3. SumFunction(v) = Total(v, R)
  BY <1>1, <1>2, SumIsTotal
<1>4. Total(v, R) = Total(w, R)
  BY <1>1, <1>2, TotalAgrees
<1>5. Total(w, T) = Total(w, R)
  <2>1. \A x \in T : w[x] \in Int
    OBVIOUS
  <2> QED
    BY <1>1, <2>1, TotalRestricted
<1>6. Total(w, T) \in Nat
  BY TotalPart
<1> QED
  BY <1>3, <1>4, <1>5, <1>6

LEMMA OpenIs ==
  ASSUME NEW T, IsFiniteSet(T), T \subseteq Intents, NEW side, NEW s
  PROVE  LET open == {j \in {i \in T : i.status \in {"PLANNED", "SUBMITTED"}} : j.side = side /\ j.symbol = s}
         IN /\ SumFunction([i \in open |-> Remaining(i)]) = Total(OpenOf(side, s), T)
            /\ Total(OpenOf(side, s), T) \in Nat
<1> DEFINE open == {j \in {i \in T : i.status \in {"PLANNED", "SUBMITTED"}} : j.side = side /\ j.symbol = s}
           v == [i \in open |-> Remaining(i)]
           w == OpenOf(side, s)
<1>1. \A x \in T : w[x] \in Nat
  BY WeightsType
<1>2. DOMAIN v \subseteq T /\ \A x \in DOMAIN v : v[x] = w[x]
  BY DEF OpenOf, IsActive
<1>3. \A x \in T \ DOMAIN v : w[x] = 0
  BY DEF OpenOf, IsActive
<1> HIDE DEF w, v
<1>4. SumFunction(v) = Total(w, T) /\ Total(w, T) \in Nat
  BY <1>1, <1>2, <1>3, SumOnPart
<1> QED
  BY <1>4 DEF v, w

LEMMA CashIs ==
  ASSUME NEW T, IsFiniteSet(T), T \subseteq Intents
  PROVE  LET open == {j \in {i \in T : i.status \in {"PLANNED", "SUBMITTED"}} : j.side = "BUY"}
         IN /\ SumFunction([i \in open |-> WithFee(i.limit * Remaining(i))]) = Total(CashOf, T)
            /\ Total(CashOf, T) \in Nat
<1> DEFINE open == {j \in {i \in T : i.status \in {"PLANNED", "SUBMITTED"}} : j.side = "BUY"}
           v == [i \in open |-> WithFee(i.limit * Remaining(i))]
<1>1. \A x \in T : CashOf[x] \in Nat
  BY WeightsType
<1>2. DOMAIN v \subseteq T /\ \A x \in DOMAIN v : v[x] = CashOf[x]
  BY DEF CashOf, IsActive
<1>3. \A x \in T \ DOMAIN v : CashOf[x] = 0
  BY DEF CashOf, IsActive
<1> HIDE DEF v
<1>4. SumFunction(v) = Total(CashOf, T) /\ Total(CashOf, T) \in Nat
  BY <1>1, <1>2, <1>3, SumOnPart
<1> QED
  BY <1>4 DEF v

LEMMA ValueIs ==
  ASSUME NEW T, IsFiniteSet(T), T \subseteq Intents, NEW d
  PROVE  LET some == {j \in T : j.day = d /\ j.status # "REJECTED"}
         IN /\ SumFunction([i \in some |-> i.limit * i.quantity]) = Total(ValueOf(d), T)
            /\ Total(ValueOf(d), T) \in Nat
<1> DEFINE some == {j \in T : j.day = d /\ j.status # "REJECTED"}
           v == [i \in some |-> i.limit * i.quantity]
           w == ValueOf(d)
<1>1. \A x \in T : w[x] \in Nat
  BY WeightsType
<1>2. DOMAIN v \subseteq T /\ \A x \in DOMAIN v : v[x] = w[x]
  BY DEF ValueOf
<1>3. \A x \in T \ DOMAIN v : w[x] = 0
  BY DEF ValueOf
<1> HIDE DEF w, v
<1>4. SumFunction(v) = Total(w, T) /\ Total(w, T) \in Nat
  BY <1>1, <1>2, <1>3, SumOnPart
<1> QED
  BY <1>4 DEF v, w

LEMMA SumsNow ==
  ASSUME IntentInv
  PROVE  /\ \A side, s : Open(side, s) = Total(OpenOf(side, s), intents) /\ Open(side, s) \in Nat
         /\ ReservedCash = Total(CashOf, intents) /\ ReservedCash \in Nat
         /\ \A d : Notional(d) = Total(ValueOf(d), intents) /\ Notional(d) \in Nat
<1>1. IsFiniteSet(intents) /\ intents \subseteq Intents
  BY DEF IntentInv
<1>2. \A side, s : Open(side, s) = Total(OpenOf(side, s), intents) /\ Open(side, s) \in Nat
  BY <1>1, OpenIs DEF Open, Active
<1>3. ReservedCash = Total(CashOf, intents) /\ ReservedCash \in Nat
  BY <1>1, CashIs DEF ReservedCash, Active
<1>4. \A d : Notional(d) = Total(ValueOf(d), intents) /\ Notional(d) \in Nat
  <2> TAKE d
  <2>1. LET some == {j \in intents : j.day = d /\ j.status # "REJECTED"}
        IN /\ SumFunction([i \in some |-> i.limit * i.quantity]) = Total(ValueOf(d), intents)
           /\ Total(ValueOf(d), intents) \in Nat
    BY <1>1, ValueIs, Zenon
  <2> QED
    BY <2>1, Zenon DEF Notional
<1> QED
  BY <1>2, <1>3, <1>4

LEMMA SumsNext ==
  ASSUME IntentInv'
  PROVE  /\ \A side, s : Open(side, s)' = Total(OpenOf(side, s), intents') /\ Open(side, s)' \in Nat
         /\ ReservedCash' = Total(CashOf, intents') /\ ReservedCash' \in Nat
         /\ \A d : Notional(d)' = Total(ValueOf(d), intents') /\ Notional(d)' \in Nat
<1>1. IsFiniteSet(intents') /\ intents' \subseteq Intents
  BY DEF IntentInv
<1>2. \A side, s : Open(side, s)' = Total(OpenOf(side, s), intents') /\ Open(side, s)' \in Nat
  BY <1>1, OpenIs DEF Open, Active
<1>3. ReservedCash' = Total(CashOf, intents') /\ ReservedCash' \in Nat
  BY <1>1, CashIs DEF ReservedCash, Active
<1>4. \A d : Notional(d)' = Total(ValueOf(d), intents') /\ Notional(d)' \in Nat
  <2> TAKE d
  <2>1. LET some == {j \in intents' : j.day = d /\ j.status # "REJECTED"}
        IN /\ SumFunction([i \in some |-> i.limit * i.quantity]) = Total(ValueOf(d), intents')
           /\ Total(ValueOf(d), intents') \in Nat
    BY <1>1, ValueIs, Zenon
  <2> QED
    BY <2>1, Zenon DEF Notional
<1> QED
  BY <1>2, <1>3, <1>4

\* Intents that are replaced by others which count for no more, one for less.
LEMMA ImageSum ==
  ASSUME NEW S, IsFiniteSet(S), NEW f, NEW w,
         \A x \in S : w[f[x]] \in Nat /\ w[x] \in Nat /\ w[f[x]] <= w[x]
  PROVE  /\ Total(w, {f[x] : x \in S}) <= Total(w, S)
         /\ \A i \in S : \A q \in Nat :
              w[f[i]] + q <= w[i] => Total(w, {f[x] : x \in S}) + q <= Total(w, S)
<1> DEFINE v == [x \in S |-> w[f[x]]]
           Image == {f[x] : x \in S}
<1>1. IsFiniteSet(Image) /\ Total(w, Image) <= Total(v, S)
  BY TotalImage
<1>2. \A x \in S : v[x] \in Nat /\ v[x] = w[f[x]]
  OBVIOUS
<1>3. Total(w, Image) \in Int
  <2>1. \A y \in Image : w[y] \in Int
    OBVIOUS
  <2> HIDE DEF Image
  <2> QED
    BY <1>1, <2>1, TotalInt
<1> HIDE DEF v
<1>4. Total(v, S) <= Total(w, S) /\ Total(v, S) \in Int /\ Total(w, S) \in Int
  BY <1>2, TotalMonotone, TotalInt
<1>5. ASSUME NEW i \in S, NEW q \in Nat, w[f[i]] + q <= w[i]
      PROVE  Total(w, Image) + q <= Total(w, S)
  <2>1. IsFiniteSet(S \ {i}) /\ \A x \in S \ {i} : x \in S
    BY FS_Subset
  <2>2. Total(v, S) = v[i] + Total(v, S \ {i}) /\ Total(w, S) = w[i] + Total(w, S \ {i})
    BY <1>2, TotalWithout
  <2>3. /\ Total(v, S \ {i}) \in Int /\ Total(w, S \ {i}) \in Int
        /\ Total(v, S \ {i}) <= Total(w, S \ {i})
    <3>1. \A x \in S \ {i} : v[x] \in Int /\ w[x] \in Int /\ v[x] <= w[x]
      BY <1>2
    <3> QED
      BY <2>1, <3>1, TotalMonotone, TotalInt
  <2>4. v[i] + q <= w[i] /\ v[i] \in Int /\ w[i] \in Int
    BY <1>2, <1>5
  <2>5. Total(v, S) + q <= Total(w, S)
    BY <2>2, <2>3, <2>4
  <2> HIDE DEF Image
  <2> QED
    BY <1>1, <1>3, <1>4, <2>5
<1>6. Total(w, Image) <= Total(w, S)
  <2> HIDE DEF Image
  <2> QED
    BY <1>1, <1>3, <1>4
<1> QED
  BY <1>5, <1>6
-----------------------------------------------------------------------------
(* Steps that replace intents. *)

\* j is what became of i.
Succeeds(j, i) ==
  /\ j \in Intents /\ j.filled <= j.quantity
  /\ j.day = i.day /\ j.side = i.side /\ j.symbol = i.symbol
  /\ j.limit = i.limit /\ j.quantity = i.quantity /\ j.quote = i.quote
  /\ IsActive(j) => IsActive(i) /\ Remaining(j) <= Remaining(i)
  /\ j.status # "REJECTED" => i.status # "REJECTED"

\* Each intent became f[i]; those of earlier days are left alone.
Replaced(f) ==
  /\ intents' = {f[i] : i \in intents} /\ day' = day
  /\ \A i \in intents : Succeeds(f[i], i) /\ (i.day # day => f[i] = i)

LEMMA ReplacedIntents ==
  ASSUME IntentInv, NEW f, Replaced(f)
  PROVE  /\ IntentInv' /\ Cardinality(intents') <= Cardinality(intents)
         /\ Cardinality(intents') \in Nat /\ Cardinality(intents) \in Nat
<1>1. IsFiniteSet(intents) /\ intents \subseteq Intents /\ intents' = {f[i] : i \in intents} /\ day' = day
  BY DEF IntentInv, Replaced
<1>2. IsFiniteSet(intents') /\ Cardinality(intents') <= Cardinality(intents)
  <2> DEFINE w == [x \in intents' |-> 0]
  <2>1. \A x \in intents : w[f[x]] \in Nat
    BY <1>1
  <2> HIDE DEF w
  <2>2. IsFiniteSet({f[x] : x \in intents}) /\ Cardinality({f[x] : x \in intents}) <= Cardinality(intents)
    BY <1>1, <2>1, TotalImage
  <2> QED
    BY <1>1, <2>2
<1>3. \A j \in intents' : j \in Intents /\ j.filled <= j.quantity /\ j.day \in 1 .. day /\ PricedWell(j)
  <2> TAKE j \in intents'
  <2>1. PICK i \in intents : j = f[i]
    BY <1>1
  <2>2. Succeeds(j, i)
    BY <2>1 DEF Replaced
  <2>3. i.day \in 1 .. day /\ PricedWell(i)
    BY DEF IntentInv
  <2> QED
    BY <2>2, <2>3 DEF Succeeds, PricedWell
<1>4. IntentInv'
  BY <1>1, <1>2, <1>3 DEF IntentInv, PricedWell
<1>5. Cardinality(intents') \in Nat /\ Cardinality(intents) \in Nat
  BY <1>1, <1>2, FS_CardinalityType
<1> QED
  BY <1>2, <1>4, <1>5

LEMMA ReplacedSums ==
  ASSUME IntentInv, NEW f, Replaced(f)
  PROVE  /\ \A side, s : Open(side, s)' <= Open(side, s)
         /\ \A d : Notional(d)' <= Notional(d)
         /\ \A i \in intents : \A q \in Nat :
              IsActive(i) /\ Remaining(f[i]) + q <= Remaining(i) =>
                Open(i.side, i.symbol)' + q <= Open(i.side, i.symbol)
<1>1. /\ IsFiniteSet(intents) /\ intents \subseteq Intents
      /\ intents' = {f[i] : i \in intents} /\ \A i \in intents : Succeeds(f[i], i)
  BY DEF IntentInv, Replaced
<1>2. IntentInv'
  BY ReplacedIntents
<1>3. ASSUME NEW side, NEW s
      PROVE  \A x \in intents : /\ OpenOf(side, s)[f[x]] \in Nat /\ OpenOf(side, s)[x] \in Nat
                                /\ OpenOf(side, s)[f[x]] <= OpenOf(side, s)[x]
  <2> TAKE x \in intents
  <2>1. PICK y : y = f[x]
    OBVIOUS
  <2>2. x \in Intents /\ y \in Intents /\ Succeeds(y, x)
    BY <1>1, <2>1 DEF Succeeds
  <2>3. OpenOf(side, s)[x] \in Nat /\ OpenOf(side, s)[y] \in Nat
    BY <2>2, WeightsType
  <2>4. OpenOf(side, s)[y] <= OpenOf(side, s)[x]
    <3>1. CASE IsActive(y) /\ y.side = side /\ y.symbol = s
      <4>1. IsActive(x) /\ x.side = side /\ x.symbol = s /\ Remaining(y) <= Remaining(x)
        BY <2>2, <3>1 DEF Succeeds
      <4> QED
        BY <2>2, <3>1, <4>1 DEF OpenOf
    <3>2. CASE ~(IsActive(y) /\ y.side = side /\ y.symbol = s)
      <4>1. OpenOf(side, s)[y] = 0
        BY <2>2, <3>2 DEF OpenOf
      <4> QED
        BY <2>3, <4>1
    <3> QED
      BY <3>1, <3>2
  <2> QED
    BY <2>1, <2>3, <2>4
<1>4. ASSUME NEW side, NEW s
      PROVE  /\ Open(side, s)' <= Open(side, s)
             /\ \A i \in intents : \A q \in Nat :
                  OpenOf(side, s)[f[i]] + q <= OpenOf(side, s)[i] => Open(side, s)' + q <= Open(side, s)
  <2>1. PICK w : w = OpenOf(side, s)
    OBVIOUS
  <2>2. \A x \in intents : w[f[x]] \in Nat /\ w[x] \in Nat /\ w[f[x]] <= w[x]
    BY <1>3, <2>1
  <2>3. Open(side, s) = Total(w, intents) /\ Open(side, s)' = Total(w, intents')
    BY <1>2, <2>1, SumsNow, SumsNext
  <2>4. /\ Total(w, {f[x] : x \in intents}) <= Total(w, intents)
        /\ \A i \in intents : \A q \in Nat :
             w[f[i]] + q <= w[i] => Total(w, {f[x] : x \in intents}) + q <= Total(w, intents)
    BY <1>1, <2>2, ImageSum
  <2> QED
    BY <1>1, <2>1, <2>3, <2>4
<1>5. ASSUME NEW i \in intents, NEW q \in Nat, IsActive(i), Remaining(f[i]) + q <= Remaining(i)
      PROVE  Open(i.side, i.symbol)' + q <= Open(i.side, i.symbol)
  <2>1. PICK j : j = f[i]
    OBVIOUS
  <2>2. i \in Intents /\ j \in Intents /\ Succeeds(j, i)
    BY <1>1, <2>1 DEF Succeeds
  <2>3. OpenOf(i.side, i.symbol)[i] = Remaining(i)
    BY <1>5, <2>2 DEF OpenOf
  <2>4. OpenOf(i.side, i.symbol)[j] = Remaining(j) \/ OpenOf(i.side, i.symbol)[j] = 0
    BY <2>2 DEF OpenOf
  <2>5. Remaining(j) \in Nat /\ Remaining(i) \in Nat
    BY <2>2, RemainingType
  <2>6. OpenOf(i.side, i.symbol)[f[i]] + q <= OpenOf(i.side, i.symbol)[i]
    BY <1>5, <2>1, <2>3, <2>4, <2>5
  <2> QED
    BY <1>4, <2>6
<1>6. ASSUME NEW d PROVE Notional(d)' <= Notional(d)
  <2>1. PICK w : w = ValueOf(d)
    OBVIOUS
  <2>2. \A x \in intents : w[f[x]] \in Nat /\ w[x] \in Nat /\ w[f[x]] <= w[x]
    <3> TAKE x \in intents
    <3>1. PICK y : y = f[x]
      OBVIOUS
    <3>2. x \in Intents /\ y \in Intents /\ Succeeds(y, x)
      BY <1>1, <3>1 DEF Succeeds
    <3>3. w[x] \in Nat /\ w[y] \in Nat
      BY <2>1, <3>2, WeightsType
    <3>4. CASE y.day = d /\ y.status # "REJECTED"
      <4>1. x.day = d /\ x.status # "REJECTED" /\ x.limit = y.limit /\ x.quantity = y.quantity
        BY <3>2, <3>4 DEF Succeeds
      <4>2. w[x] = w[y]
        BY <2>1, <3>2, <3>4, <4>1 DEF ValueOf
      <4> QED
        BY <3>1, <3>3, <4>2
    <3>5. CASE ~(y.day = d /\ y.status # "REJECTED")
      <4>1. w[y] = 0
        BY <2>1, <3>2, <3>5 DEF ValueOf
      <4> QED
        BY <3>1, <3>3, <4>1
    <3> QED
      BY <3>4, <3>5
  <2>3. Notional(d) = Total(w, intents) /\ Notional(d)' = Total(w, intents')
    BY <1>2, <2>1, SumsNow, SumsNext
  <2>4. Total(w, {f[x] : x \in intents}) <= Total(w, intents)
    BY <1>1, <2>2, ImageSum
  <2> QED
    BY <1>1, <2>3, <2>4
<1> QED
  BY <1>4, <1>5, <1>6
-----------------------------------------------------------------------------
(* The steps beside the plans. *)

LEMMA UntouchedPlan ==
  ASSUME PlanInv, UNCHANGED <<day, frozen, funds, position, sellable, intents, opening>>
  PROVE  HoldingInv' /\ IntentInv' /\ NeverPastTarget' /\ WithinDailyNotional'
<1>1. HoldingInv'
  BY DEF PlanInv, HoldingInv, Open, Active
<1>2. IntentInv'
  BY DEF PlanInv, IntentInv, PricedWell
<1>3. NeverPastTarget'
  <2>1. \A side, s : Open(side, s)' = Open(side, s)
    BY DEF Open, Active
  <2>2. /\ IsFrozen' = IsFrozen /\ Goal' = Goal /\ Active' = Active
        /\ day' = day /\ position' = position /\ opening' = opening
    BY DEF IsFrozen, Goal, Active
  <2> QED
    BY <2>1, <2>2 DEF PlanInv, NeverPastTarget
<1>4. WithinDailyNotional'
  BY DEF PlanInv, WithinDailyNotional, Notional
<1> QED
  BY <1>1, <1>2, <1>3, <1>4

LEMMA QuietPlanStep ==
  ASSUME PlanInv,
         (\E ticks \in session.ticks : QuotesMissing(ticks)) \/ LoseCache \/ StartBuying \/ UNCHANGED planVars
  PROVE  PlanInv'
<1>1. UNCHANGED <<day, session, target, frozen, funds, position, sellable, settled, intents, paused, opening>>
  BY DEF QuotesMissing, LoseCache, StartBuying, planVars
<1>2. HoldingInv' /\ IntentInv' /\ NeverPastTarget' /\ WithinDailyNotional'
  BY <1>1, UntouchedPlan
<1>3. PlaceInv /\ TurnInv
  BY DEF PlanInv
<1>4. DOMAIN cached' \subseteq Etfs /\ \A s \in DOMAIN cached' : cached'[s] \in Details
  <2>1. CASE \E ticks \in session.ticks : QuotesMissing(ticks)
    BY <1>3, <2>1, CachedType DEF QuotesMissing
  <2>2. CASE LoseCache
    BY <2>2 DEF LoseCache
  <2>3. CASE StartBuying \/ UNCHANGED planVars
    BY <1>3, <2>3 DEF StartBuying, planVars, PlaceInv
  <2> QED
    BY <2>1, <2>2, <2>3
<1>5. stage' = stage \/ (stage = "SELL" /\ stage' = "BUY" /\ IsFrozen /\ {i \in Today("SELL") : i \in Active} = {})
  BY DEF QuotesMissing, LoseCache, StartBuying, planVars
<1>6. PlaceInv'
  BY <1>1, <1>3, <1>4, <1>5 DEF PlaceInv, IsFrozen, Goal
<1>7. TurnInv'
  <2>1. \A side \in Sides : Today(side)' = Today(side)
    BY <1>1 DEF Today
  <2>2. IsFrozen' = IsFrozen
    BY <1>1 DEF IsFrozen
  <2>3. CASE stage' = stage
    BY <1>3, <2>1, <2>2, <2>3 DEF TurnInv, Sides
  <2>4. CASE stage' # stage
    <3>1. \A i \in Today("SELL") : ~IsActive(i)
      BY <1>5, <2>4 DEF Active, IsActive, Today
    <3> QED
      BY <1>5, <2>1, <2>2, <2>4, <3>1 DEF TurnInv, Sides
  <2> QED
    BY <2>3, <2>4
<1> QED
  BY <1>2, <1>6, <1>7 DEF PlanInv

LEMMA NextDayStep ==
  ASSUME PlanInv, NextDay
  PROVE  PlanInv'
<1>1. /\ day' = day + 1 /\ stage' = "SELL" /\ session' \in Sessions /\ target' \in Targets /\ day < MaxDays
      /\ frozen' = {} /\ opening' = position
      /\ UNCHANGED <<cached, funds, position, sellable, settled, intents, paused>>
  BY DEF NextDay
<1>2. PlaceInv /\ HoldingInv /\ IntentInv /\ WithinDailyNotional
  BY DEF PlanInv
<1>3. day \in Nat /\ MaxDays \in Nat /\ day' \in 1 .. MaxDays /\ settled \in 0 .. day'
  BY <1>1, <1>2, AccountAssumption DEF PlaceInv
<1>4. ~IsFrozen'
  BY <1>1 DEF IsFrozen
<1>5. PlaceInv'
  BY <1>1, <1>2, <1>3, <1>4 DEF PlaceInv
<1>6. HoldingInv'
  BY <1>1, <1>2 DEF HoldingInv, Open, Active
<1>7. IntentInv'
  <2>1. IsFiniteSet(intents') /\ intents' \subseteq Intents
    BY <1>1, <1>2 DEF IntentInv
  <2>2. \A i \in intents' : i.filled <= i.quantity /\ i.day \in 1 .. day' /\ PricedWell(i)
    BY <1>1, <1>2, <1>3 DEF IntentInv
  <2> QED
    BY <2>1, <2>2 DEF IntentInv, PricedWell
<1>8. \A i \in intents' : i.day # day'
  BY <1>1, <1>2, <1>3 DEF IntentInv
<1>9. TurnInv'
  BY <1>1, <1>8 DEF TurnInv, Today
<1>10. NeverPastTarget'
  BY <1>4 DEF NeverPastTarget
<1>11. WithinDailyNotional'
  <2>1. SUFFICES ASSUME NEW d \in 1 .. day' PROVE Notional(d)' <= MaxDaily
    BY DEF WithinDailyNotional
  <2>2. CASE d # day'
    <3>1. d \in 1 .. day
      BY <1>1, <1>3, <2>2
    <3>2. Notional(d) <= MaxDaily
      BY <1>2, <3>1 DEF WithinDailyNotional
    <3>3. Notional(d)' = Notional(d)
      BY <1>1 DEF Notional
    <3> QED
      BY <3>2, <3>3
  <2>3. CASE d = day'
    <3>1. IsFiniteSet(intents') /\ intents' \subseteq Intents
      BY <1>7 DEF IntentInv
    <3>2. \A i \in intents' : ValueOf(d)[i] = 0
      BY <1>8, <2>3, <3>1 DEF ValueOf
    <3>3. Total(ValueOf(d), intents') = 0
      BY <3>1, <3>2, TotalZero
    <3>4. Notional(d)' = Total(ValueOf(d), intents')
      BY <1>7, SumsNext
    <3> QED
      BY <3>3, <3>4, ConfigAssumption
  <2> QED
    BY <2>2, <2>3
<1> QED
  BY <1>5, <1>6, <1>7, <1>9, <1>10, <1>11 DEF PlanInv

\* What a replacement leaves as it is.
LEMMA ReplacedRest ==
  ASSUME PlanInv, NEW f, Replaced(f), UNCHANGED <<session, cached, target, frozen, settled, paused>>,
         stage' \in {stage, "CLOSED"}
  PROVE  /\ PlaceInv' /\ IntentInv' /\ TurnInv' /\ WithinDailyNotional'
         /\ (\A i \in Active' : i.day = day') => \A i \in Active : i.day = day
<1>1. PlaceInv /\ IntentInv /\ TurnInv /\ WithinDailyNotional
  BY DEF PlanInv
<1>2. day' = day /\ intents' = {f[i] : i \in intents} /\ \A i \in intents : Succeeds(f[i], i)
  BY DEF Replaced
<1>3. PlaceInv'
  BY <1>1, <1>2 DEF PlaceInv, IsFrozen, Goal
<1>4. IntentInv'
  BY <1>1, ReplacedIntents
<1>5. \A side : \A j \in Today(side)' : \E i \in Today(side) : IsActive(j) => IsActive(i)
  <2> TAKE side
  <2> TAKE j \in Today(side)'
  <2>1. j \in intents' /\ j.day = day /\ j.side = side
    BY <1>2 DEF Today
  <2>2. PICK i \in intents : j = f[i]
    BY <1>2, <2>1
  <2>3. i.day = day /\ i.side = side /\ (IsActive(j) => IsActive(i))
    BY <1>2, <2>1, <2>2 DEF Succeeds
  <2> QED
    BY <2>3 DEF Today
<1>6. TurnInv'
  BY <1>1, <1>5 DEF TurnInv, IsFrozen
<1>7. WithinDailyNotional'
  <2>1. SUFFICES ASSUME NEW d \in 1 .. day PROVE Notional(d)' <= MaxDaily
    BY <1>2 DEF WithinDailyNotional
  <2>2. Notional(d)' <= Notional(d) /\ Notional(d) <= MaxDaily
    BY <1>1, ReplacedSums DEF WithinDailyNotional
  <2>3. Notional(d)' \in Nat /\ Notional(d) \in Nat /\ MaxDaily \in Nat
    BY <1>1, <1>4, SumsNow, SumsNext, ConfigAssumption
  <2> QED
    BY <2>2, <2>3
<1>8. ASSUME \A i \in Active' : i.day = day', NEW i \in Active PROVE i.day = day
  <2>1. SUFFICES ASSUME i.day # day PROVE FALSE
    OBVIOUS
  <2>2. i \in intents /\ i.status \in {"PLANNED", "SUBMITTED"}
    BY DEF Active
  <2>3. f[i] = i
    BY <2>1, <2>2 DEF Replaced
  <2>4. i \in Active'
    BY <1>2, <2>2, <2>3 DEF Active
  <2> QED
    BY <1>2, <1>8, <2>1, <2>4
<1> QED
  BY <1>3, <1>4, <1>6, <1>7, <1>8

LEMMA ReplacedStep ==
  ASSUME PlanInv, NEW f, Replaced(f), stage' \in {stage, "CLOSED"},
         UNCHANGED <<session, cached, target, frozen, funds, position, sellable, settled, paused, opening>>
  PROVE  PlanInv'
<1>1. /\ PlaceInv' /\ IntentInv' /\ TurnInv' /\ WithinDailyNotional'
      /\ (\A i \in Active' : i.day = day') => \A i \in Active : i.day = day
  BY ReplacedRest
<1>2. IntentInv /\ HoldingInv /\ NeverPastTarget /\ PlaceInv
  BY DEF PlanInv
<1>3. \A side, s : Open(side, s)' <= Open(side, s) /\ Open(side, s) \in Nat /\ Open(side, s)' \in Nat
  BY <1>1, <1>2, ReplacedSums, SumsNow, SumsNext
<1>4. HoldingInv'
  <2>1. SUFFICES ASSUME NEW s \in Etfs PROVE Open("SELL", s)' <= sellable[s]
    BY <1>2 DEF HoldingInv
  <2>2. Open("SELL", s) <= sellable[s] /\ sellable[s] \in Nat
    BY <1>2 DEF HoldingInv
  <2> QED
    BY <1>3, <2>2
<1>5. NeverPastTarget'
  <2>1. SUFFICES ASSUME IsFrozen', \A i \in Active' : i.day = day', NEW s \in DOMAIN Goal'
                 PROVE  /\ position'[s] + Open("BUY", s)' <= Greatest(opening'[s], Goal'[s].quantity)
                        /\ position'[s] - Open("SELL", s)' >= Least(opening'[s], Goal'[s].quantity)
    BY DEF NeverPastTarget
  <2>2. IsFrozen /\ Goal' = Goal /\ \A i \in Active : i.day = day
    BY <1>1, <2>1 DEF IsFrozen, Goal
  <2>3. s \in Etfs /\ Goal[s].quantity \in Int
    BY <1>2, <2>1, <2>2, TargetAssumption DEF PlaceInv
  <2>4. /\ position[s] + Open("BUY", s) <= Greatest(opening[s], Goal[s].quantity)
        /\ position[s] - Open("SELL", s) >= Least(opening[s], Goal[s].quantity)
    BY <1>2, <2>1, <2>2 DEF NeverPastTarget
  <2>5. position[s] \in Nat /\ opening[s] \in Nat
    BY <1>2, <2>3 DEF HoldingInv
  <2>6. Greatest(opening[s], Goal[s].quantity) \in Int /\ Least(opening[s], Goal[s].quantity) \in Int
    BY <2>3, <2>5 DEF Greatest, Least
  <2> QED
    BY <1>3, <2>2, <2>4, <2>5, <2>6
<1> QED
  BY <1>1, <1>4, <1>5 DEF PlanInv

\* An order that goes on, or ends.
LEMMA StatusSucceeds ==
  ASSUME NEW i \in Intents, i.filled <= i.quantity, IsActive(i),
         NEW status \in {"SUBMITTED", "CLOSED", "REJECTED"}
  PROVE  Succeeds([i EXCEPT !.status = status], i)
<1>1. PICK j : j = [i EXCEPT !.status = status]
  OBVIOUS
<1>2. /\ j \in Intents /\ j.day = i.day /\ j.side = i.side /\ j.symbol = i.symbol /\ j.limit = i.limit
      /\ j.quantity = i.quantity /\ j.quote = i.quote /\ j.filled = i.filled
  BY <1>1 DEF Intents, IntentStatuses
<1>3. Remaining(j) = Remaining(i) /\ Remaining(i) \in Nat
  BY <1>2, RemainingType DEF Remaining
<1>4. i.status # "REJECTED"
  BY DEF IsActive
<1>5. Succeeds(j, i)
  BY <1>2, <1>3, <1>4 DEF Succeeds
<1> QED
  BY <1>1, <1>5

LEMMA ItselfSucceeds ==
  ASSUME NEW i \in Intents, i.filled <= i.quantity
  PROVE  Succeeds(i, i)
BY RemainingType DEF Succeeds

\* An order of the day becomes j.
LEMMA BecomesReplaces ==
  ASSUME IntentInv, NEW i \in intents, i.day = day, NEW j, Succeeds(j, i), Becomes(i, j), day' = day
  PROVE  Replaced([x \in intents |-> IF x = i THEN j ELSE x])
<1> DEFINE f == [x \in intents |-> IF x = i THEN j ELSE x]
<1>1. intents' = {f[x] : x \in intents}
  BY DEF Becomes
<1>2. ASSUME NEW x \in intents PROVE Succeeds(f[x], x) /\ (x.day # day => f[x] = x)
  <2>1. CASE x = i
    BY <2>1
  <2>2. CASE x # i
    <3>1. Succeeds(x, x)
      BY ItselfSucceeds DEF IntentInv
    <3> QED
      BY <2>2, <3>1
  <2> QED
    BY <2>1, <2>2
<1> HIDE DEF f
<1>3. Replaced(f)
  BY <1>1, <1>2 DEF Replaced
<1> QED
  BY <1>3 DEF f

\* Submissions, ends of orders, and the end of the day.
LEMMA OrderStep ==
  ASSUME PlanInv, (\E i \in intents : Submit(i) \/ Close(i)) \/ ResumeLate \/ EndDay
  PROVE  PlanInv' /\ \E f : Replaced(f)
<1>1. IntentInv /\ intents \subseteq Intents /\ \A i \in intents : i.filled <= i.quantity
  BY DEF PlanInv, IntentInv
<1>2. /\ day' = day /\ stage' \in {stage, "CLOSED"}
      /\ UNCHANGED <<session, cached, target, frozen, funds, position, sellable, settled, paused, opening>>
  BY DEF Submit, Close, ResumeLate, EndDay
<1>3. \E f : Replaced(f)
  <2>1. ASSUME NEW i \in intents, Submit(i) \/ Close(i) PROVE \E f : Replaced(f)
    <3>1. PICK status \in {"SUBMITTED", "CLOSED"} : Becomes(i, [i EXCEPT !.status = status])
      BY <2>1 DEF Submit, Close, Set
    <3>2. IsActive(i) /\ i.day = day
      BY <2>1 DEF Submit, Close, IsActive
    <3>3. Succeeds([i EXCEPT !.status = status], i)
      BY <1>1, <3>2, StatusSucceeds
    <3> QED
      BY <1>1, <1>2, <3>1, <3>2, <3>3, BecomesReplaces
  <2>2. ASSUME ResumeLate PROVE \E f : Replaced(f)
    <3> DEFINE planned == {i \in Today("SELL") : i.status = "PLANNED"}
               f == [x \in intents |-> IF x \in planned THEN [x EXCEPT !.status = "REJECTED"] ELSE x]
    <3>1. intents' = {f[x] : x \in intents}
      BY <2>2 DEF ResumeLate, Today
    <3>2. ASSUME NEW x \in intents PROVE Succeeds(f[x], x) /\ (x.day # day => f[x] = x)
      <4>1. CASE x \in planned
        <5>1. Succeeds([x EXCEPT !.status = "REJECTED"], x)
          BY <1>1, <4>1, StatusSucceeds DEF IsActive
        <5> QED
          BY <4>1, <5>1 DEF Today
      <4>2. CASE x \notin planned
        <5>1. Succeeds(x, x)
          BY <1>1, ItselfSucceeds
        <5> QED
          BY <4>2, <5>1
      <4> QED
        BY <4>1, <4>2
    <3> HIDE DEF f
    <3> QED
      BY <1>2, <3>1, <3>2 DEF Replaced
  <2>3. ASSUME EndDay PROVE \E f : Replaced(f)
    <3> DEFINE f == [x \in intents |-> IF x.status = "SUBMITTED" /\ x.day = day
                                       THEN [x EXCEPT !.status = "CLOSED"] ELSE x]
    <3>1. intents' = {f[x] : x \in intents}
      BY <2>3 DEF EndDay
    <3>2. ASSUME NEW x \in intents PROVE Succeeds(f[x], x) /\ (x.day # day => f[x] = x)
      <4>1. CASE x.status = "SUBMITTED" /\ x.day = day
        <5>1. Succeeds([x EXCEPT !.status = "CLOSED"], x)
          BY <1>1, <4>1, StatusSucceeds DEF IsActive
        <5> QED
          BY <4>1, <5>1
      <4>2. CASE ~(x.status = "SUBMITTED" /\ x.day = day)
        <5>1. Succeeds(x, x)
          BY <1>1, ItselfSucceeds
        <5> QED
          BY <4>2, <5>1
      <4> QED
        BY <4>1, <4>2
    <3> HIDE DEF f
    <3> QED
      BY <1>2, <3>1, <3>2 DEF Replaced
  <2> QED
    BY <2>1, <2>2, <2>3
<1>4. PlanInv'
  BY <1>2, <1>3, ReplacedStep
<1> QED
  BY <1>3, <1>4

\* A fill moves its quantity from the open order to the position.
LEMMA FillStep ==
  ASSUME PlanInv, NEW i \in intents, NEW q, Fill(i, q)
  PROVE  PlanInv' /\ \E f : Replaced(f)
<1>1. PlaceInv /\ HoldingInv /\ IntentInv /\ NeverPastTarget
  BY DEF PlanInv
<1>2. i \in Intents /\ i.filled <= i.quantity
  BY <1>1 DEF IntentInv
<1>3. PICK s : s = i.symbol
  OBVIOUS
<1>4. s \in Etfs /\ i.side \in Sides /\ i.limit \in Nat /\ i.filled \in Nat /\ i.quantity \in Nat
  BY <1>2, <1>3 DEF Intents
<1>5. /\ i.status = "SUBMITTED" /\ i.day = day /\ q \in 1 .. Remaining(i) /\ day' = day /\ stage' = stage
      /\ UNCHANGED <<session, cached, target, frozen, settled, paused, opening>>
  BY DEF Fill
<1>6. q \in Nat /\ q <= Remaining(i) /\ Remaining(i) = i.quantity - i.filled
  BY <1>2, <1>5, RemainingType
<1>7. PICK j : j = [i EXCEPT !.filled = @ + q, !.status = IF i.filled + q = i.quantity THEN "FILLED" ELSE @]
  OBVIOUS
<1>8. /\ j.day = i.day /\ j.side = i.side /\ j.symbol = i.symbol /\ j.limit = i.limit
      /\ j.quantity = i.quantity /\ j.quote = i.quote /\ j.filled = i.filled + q
      /\ j.status = IF i.filled + q = i.quantity THEN "FILLED" ELSE i.status
  BY <1>2, <1>7 DEF Intents
<1>9. j \in Intents /\ j.filled <= j.quantity
  <2>1. i.filled + q \in Nat /\ i.filled + q <= i.quantity
    BY <1>4, <1>6
  <2> QED
    BY <1>2, <1>5, <1>7, <1>8, <2>1 DEF Intents, IntentStatuses
<1>10. Remaining(j) + q = Remaining(i) /\ Remaining(j) \in Nat /\ Remaining(i) \in Nat
  BY <1>2, <1>4, <1>6, <1>8, <1>9, RemainingType
<1>11. IsActive(i) /\ i.status # "REJECTED"
  BY <1>5 DEF IsActive
<1>12. Succeeds(j, i)
  BY <1>6, <1>8, <1>9, <1>10, <1>11 DEF Succeeds
<1>13. Becomes(i, j)
  BY <1>7 DEF Fill
<1> DEFINE f == [x \in intents |-> IF x = i THEN j ELSE x]
<1>14. Replaced(f) /\ f[i] = j
  BY <1>1, <1>5, <1>12, <1>13, BecomesReplaces
<1> HIDE DEF f
<1>15. /\ PlaceInv' /\ IntentInv' /\ TurnInv' /\ WithinDailyNotional'
       /\ (\A x \in Active' : x.day = day') => \A x \in Active : x.day = day
  BY <1>5, <1>14, ReplacedRest
<1>16. \A side, t : Open(side, t)' <= Open(side, t) /\ Open(side, t) \in Nat /\ Open(side, t)' \in Nat
  BY <1>1, <1>14, <1>15, ReplacedSums, SumsNow, SumsNext
<1>17. Open(i.side, s)' + q <= Open(i.side, s)
  <2>1. Remaining(f[i]) + q <= Remaining(i)
    BY <1>10, <1>14
  <2> QED
    BY <1>1, <1>3, <1>6, <1>11, <1>14, <2>1, ReplacedSums
<1>18. \A t \in Etfs : /\ position[t] \in Nat /\ sellable[t] \in Nat /\ opening[t] \in Nat
                       /\ Open("SELL", t) <= sellable[t] /\ sellable[t] <= position[t]
  BY <1>1 DEF HoldingInv
<1>19. /\ position \in [Etfs -> Nat] /\ sellable \in [Etfs -> Nat] /\ opening \in [Etfs -> Nat] /\ funds \in Int
  BY <1>1 DEF HoldingInv
<1>20. q * i.limit \in Nat /\ WithFee(q * i.limit) \in Nat /\ Fee(q * i.limit) \in Nat
  <2>1. q * i.limit \in Nat
    BY <1>4, <1>6
  <2> QED
    BY <2>1, FeeType
<1>21. HoldingInv' /\ \A t \in Etfs : /\ position'[t] + Open("BUY", t)' <= position[t] + Open("BUY", t)
                                      /\ position'[t] - Open("SELL", t)' >= position[t] - Open("SELL", t)
  <2>1. CASE i.side = "BUY"
    <3>1. /\ funds' = funds - WithFee(q * i.limit)
          /\ position' = [position EXCEPT ![s] = @ + q]
          /\ sellable' = [sellable EXCEPT ![s] = @ + IF s \in GoldEtfs THEN q ELSE 0]
      BY <1>3, <2>1 DEF Fill
    <3>2. ASSUME NEW t \in Etfs
          PROVE  /\ position'[t] \in Nat /\ sellable'[t] \in Nat
                 /\ position'[t] = (IF t = s THEN position[t] + q ELSE position[t])
                 /\ sellable[t] <= sellable'[t] /\ sellable'[t] <= position'[t]
      BY <1>4, <1>6, <1>18, <1>19, <3>1
    <3>3. position' \in [Etfs -> Nat] /\ sellable' \in [Etfs -> Nat] /\ funds' \in Int
      BY <1>4, <1>6, <1>19, <1>20, <3>1
    <3>4. ASSUME NEW t \in Etfs
          PROVE  /\ Open("SELL", t)' <= sellable'[t]
                 /\ position'[t] + Open("BUY", t)' <= position[t] + Open("BUY", t)
                 /\ position'[t] - Open("SELL", t)' >= position[t] - Open("SELL", t)
      <4>1. Open("SELL", t)' <= Open("SELL", t) /\ Open("SELL", t) \in Nat /\ Open("SELL", t)' \in Nat
            /\ Open("BUY", t)' <= Open("BUY", t) /\ Open("BUY", t) \in Nat /\ Open("BUY", t)' \in Nat
        BY <1>16
      <4>2. t = s => Open("BUY", t)' + q <= Open("BUY", t)
        BY <1>17, <2>1
      <4> QED
        BY <1>6, <1>18, <3>2, <4>1, <4>2
    <3> QED
      BY <1>5, <1>19, <3>2, <3>3, <3>4 DEF HoldingInv
  <2>2. CASE i.side = "SELL"
    <3>1. /\ funds' = funds + q * i.limit - Fee(q * i.limit)
          /\ position' = [position EXCEPT ![s] = @ - q]
          /\ sellable' = [sellable EXCEPT ![s] = @ - q]
      BY <1>3, <2>2 DEF Fill
    <3>2. q <= sellable[s] /\ q <= position[s]
      <4>1. Open("SELL", s)' + q <= Open("SELL", s) /\ Open("SELL", s)' \in Nat /\ Open("SELL", s) \in Nat
        BY <1>16, <1>17, <2>2
      <4> QED
        BY <1>4, <1>6, <1>18, <4>1
    <3>3. ASSUME NEW t \in Etfs
          PROVE  /\ position'[t] \in Nat /\ sellable'[t] \in Nat
                 /\ position'[t] = (IF t = s THEN position[t] - q ELSE position[t])
                 /\ sellable'[t] = (IF t = s THEN sellable[t] - q ELSE sellable[t])
                 /\ sellable'[t] <= position'[t]
      BY <1>4, <1>6, <1>18, <1>19, <3>1, <3>2
    <3>4. position' \in [Etfs -> Nat] /\ sellable' \in [Etfs -> Nat] /\ funds' \in Int
      <4>1. funds' \in Int
        BY <1>19, <1>20, <3>1
      <4>2. DOMAIN position' = Etfs /\ DOMAIN sellable' = Etfs
            /\ position' = [t \in Etfs |-> position'[t]] /\ sellable' = [t \in Etfs |-> sellable'[t]]
        BY <1>19, <3>1
      <4> QED
        BY <3>3, <4>1, <4>2
    <3>5. ASSUME NEW t \in Etfs
          PROVE  /\ Open("SELL", t)' <= sellable'[t]
                 /\ position'[t] + Open("BUY", t)' <= position[t] + Open("BUY", t)
                 /\ position'[t] - Open("SELL", t)' >= position[t] - Open("SELL", t)
      <4>1. Open("SELL", t)' <= Open("SELL", t) /\ Open("SELL", t) \in Nat /\ Open("SELL", t)' \in Nat
            /\ Open("BUY", t)' <= Open("BUY", t) /\ Open("BUY", t) \in Nat /\ Open("BUY", t)' \in Nat
        BY <1>16
      <4>2. t = s => Open("SELL", t)' + q <= Open("SELL", t)
        BY <1>17, <2>2
      <4> QED
        BY <1>6, <1>18, <3>3, <4>1, <4>2
    <3> QED
      BY <1>5, <1>19, <3>3, <3>4, <3>5 DEF HoldingInv
  <2> QED
    BY <1>4, <2>1, <2>2 DEF Sides
<1>22. NeverPastTarget'
  <2>1. SUFFICES ASSUME IsFrozen', \A x \in Active' : x.day = day', NEW t \in DOMAIN Goal'
                 PROVE  /\ position'[t] + Open("BUY", t)' <= Greatest(opening'[t], Goal'[t].quantity)
                        /\ position'[t] - Open("SELL", t)' >= Least(opening'[t], Goal'[t].quantity)
    BY DEF NeverPastTarget
  <2>2. IsFrozen /\ Goal' = Goal /\ \A x \in Active : x.day = day
    BY <1>5, <1>15, <2>1 DEF IsFrozen, Goal
  <2>3. t \in Etfs /\ Goal[t].quantity \in Int
    BY <1>1, <2>1, <2>2, TargetAssumption DEF PlaceInv
  <2>4. /\ position[t] + Open("BUY", t) <= Greatest(opening[t], Goal[t].quantity)
        /\ position[t] - Open("SELL", t) >= Least(opening[t], Goal[t].quantity)
    BY <1>1, <2>1, <2>2 DEF NeverPastTarget
  <2>5. Greatest(opening[t], Goal[t].quantity) \in Int /\ Least(opening[t], Goal[t].quantity) \in Int
    BY <1>18, <2>3 DEF Greatest, Least
  <2>6. position'[t] \in Nat
    BY <1>21, <2>3 DEF HoldingInv
  <2>7. /\ position[t] \in Nat /\ Open("BUY", t) \in Nat /\ Open("SELL", t) \in Nat
        /\ Open("BUY", t)' \in Nat /\ Open("SELL", t)' \in Nat
    BY <1>16, <1>18, <2>3
  <2>8. /\ position'[t] + Open("BUY", t)' <= position[t] + Open("BUY", t)
        /\ position'[t] - Open("SELL", t)' >= position[t] - Open("SELL", t)
    BY <1>21, <2>3
  <2>9. opening' = opening
    BY <1>5
  <2> QED
    BY <2>2, <2>4, <2>5, <2>6, <2>7, <2>8, <2>9
<1> QED
  BY <1>14, <1>15, <1>21, <1>22 DEF PlanInv
-----------------------------------------------------------------------------
(* The plan of a phase. *)

\* An order of a plan.
Planning(batch, limit, quote, good, s) ==
  [day |-> day, side |-> stage, symbol |-> s, quantity |-> batch[s], limit |-> limit[s],
   quote |-> quote[s], filled |-> 0, status |-> IF s \in good THEN "PLANNED" ELSE "REJECTED"]
Orders(batch, limit, quote, good) == {Planning(batch, limit, quote, good, s) : s \in DOMAIN batch}

\* What a plan may be: towards the goal, from what is free, paid for, and approved.
PlanOf(batch, limit, quote, good, goal, free) ==
  /\ DOMAIN batch \subseteq Etfs /\ good \subseteq DOMAIN batch /\ limit \in [Etfs -> Nat \ {0}]
  /\ \A s \in DOMAIN batch :
       /\ s \in DOMAIN goal /\ batch[s] \in Nat \ {0}
       /\ quote[s] \in Quotes /\ PricedWell(Planning(batch, limit, quote, good, s))
       /\ stage = "SELL" => /\ batch[s] <= Projected(s) - goal[s].quantity
                            /\ batch[s] <= free[s] - Open("SELL", s)
       /\ stage = "BUY" => /\ batch[s] <= goal[s].quantity - Projected(s)
                           /\ WithFee(batch[s] * limit[s]) \in Nat
  /\ stage = "BUY" =>
       Total([s \in DOMAIN batch |-> WithFee(batch[s] * limit[s])], DOMAIN batch) <= funds - ReservedCash
  /\ Notional(day) + Total([s \in good |-> batch[s] * limit[s]], good) <= MaxDaily

CanPlan(quote, goal, late, free, total) ==
  \E batch, limit, good :
    /\ PlanOf(batch, limit, quote, good, goal, free)
    /\ Planned(quote, goal, late, free, total) = Orders(batch, limit, quote, good)

LEMMA PlannedType ==
  ASSUME PlanInv, NEW ticks \in session.ticks, stage \in Sides, PricesAvailable(stage, ticks),
         NEW quote, quote = [s \in Etfs |-> QuoteOf(ticks[s], Cached(ticks)[s])],
         NEW goal, DOMAIN goal \subseteq Etfs, \A s \in DOMAIN goal : goal[s].quantity \in Int,
         NEW free \in [Etfs -> Nat], ~Overcommitted(free), NEW late \in BOOLEAN, NEW total
  PROVE  CanPlan(quote, goal, late, free, total)
<1>0. SUFFICES \E batch, limit, good :
                 /\ PlanOf(batch, limit, quote, good, goal, free)
                 /\ Planned(quote, goal, late, free, total) = Orders(batch, limit, quote, good)
  BY DEF CanPlan
<1> DEFINE value == [s \in Etfs |-> quote[s].last]
           limit == [s \in Etfs |-> LimitPrice(stage, quote[s])]
           money == funds - ReservedCash
           left  == [s \in Etfs |-> free[s] - Open("SELL", s)]
           batch == IF stage = "SELL" THEN SellQuantities(goal, left) ELSE BuyQuantities(goal, limit, money)
           exposure == SumFunction([s \in Etfs |-> value[s] * (Projected(s) + IF s \in DOMAIN batch THEN batch[s] ELSE 0)])
           weight == IF stage = "SELL" THEN 0 ELSE Ceil(exposure * WeightUnit, total)
           good  == IF stage = "SELL" /\ late THEN {} ELSE Approved(stage, batch, limit, money, left, weight)
<1>20. Planned(quote, goal, late, free, total) = Orders(batch, limit, quote, good)
  BY Zenon DEF Planned, Planning, Orders
<1>3. limit = [s \in Etfs |-> LimitPrice(stage, quote[s])]
  OBVIOUS
<1>8. money = funds - ReservedCash
  OBVIOUS
<1>10. left = [s \in Etfs |-> free[s] - Open("SELL", s)]
  OBVIOUS
<1>12. batch = IF stage = "SELL" THEN SellQuantities(goal, left) ELSE BuyQuantities(goal, limit, money)
  OBVIOUS
<1>16. good = IF stage = "SELL" /\ late THEN {}
                          ELSE Approved(stage, batch, limit, money, left, weight)
  OBVIOUS
<1> HIDE DEF value, limit, money, left, batch, exposure, weight, good
<1>1. PlaceInv /\ HoldingInv /\ IntentInv /\ WithinDailyNotional
  BY DEF PlanInv
<1>2. \A s \in Etfs : quote[s] \in Quotes /\ Priced(stage, quote[s])
  BY <1>1, QuoteType
<1>4. \A s \in Etfs : /\ limit[s] \in Nat \ {0}
                      /\ quote[s].age \in 0 .. StaleSeconds /\ ~quote[s].suspended
                      /\ limit[s] % quote[s].tick = 0 /\ limit[s] \in quote[s].lower .. quote[s].upper
                      /\ stage = "BUY" => limit[s] >= quote[s].ask \/ limit[s] + quote[s].tick > quote[s].upper
                      /\ stage = "SELL" => \/ quote[s].bid <= 0 \/ limit[s] <= quote[s].bid
                                           \/ limit[s] - quote[s].tick < quote[s].lower
  <2> TAKE s \in Etfs
  <2>1. limit[s] = LimitPrice(stage, quote[s])
    BY <1>3
  <2>2. quote[s] \in Quotes /\ Priced(stage, quote[s])
    BY <1>2
  <2> QED
    BY <2>1, <2>2, LimitType
<1>5. limit \in [Etfs -> Nat \ {0}]
  BY <1>3, <1>4
<1>6. /\ \A side, s : Open(side, s) \in Nat
      /\ ReservedCash \in Nat /\ \A d : Notional(d) \in Nat
  BY <1>1, SumsNow
<1>7. \A s \in Etfs : Projected(s) \in Int
  BY <1>1, <1>6 DEF Projected, HoldingInv
<1>9. money \in Nat
  BY <1>1, <1>6, <1>8 DEF Overcommitted, HoldingInv
<1>11. \A s \in Etfs : left[s] \in Nat
  BY <1>6, <1>10 DEF Overcommitted
<1>13. /\ DOMAIN batch \subseteq Etfs
       /\ \A s \in DOMAIN batch :
            /\ s \in DOMAIN goal /\ batch[s] \in Nat \ {0}
            /\ stage = "SELL" => batch[s] <= Projected(s) - goal[s].quantity /\ batch[s] <= left[s]
            /\ stage = "BUY" => /\ batch[s] <= goal[s].quantity - Projected(s)
                                /\ WithFee(batch[s] * limit[s]) \in Nat
       /\ stage = "BUY" => Total([s \in DOMAIN batch |-> WithFee(batch[s] * limit[s])], DOMAIN batch) <= money
  <2>1. CASE stage = "SELL"
    <3>1. batch = SellQuantities(goal, left)
      BY <1>12, <2>1
    <3>2. \A s \in DOMAIN batch : /\ s \in DOMAIN goal /\ batch[s] \in Nat \ {0}
                                  /\ batch[s] <= Projected(s) - goal[s].quantity /\ batch[s] <= left[s]
      BY <1>7, <1>11, <3>1, SellsType
    <3> QED
      BY <2>1, <3>2
  <2>2. CASE stage = "BUY"
    <3>1. batch = BuyQuantities(goal, limit, money)
      BY <1>12, <2>2
    <3>2. /\ DOMAIN batch \subseteq Etfs
          /\ \A s \in DOMAIN batch : /\ s \in DOMAIN goal /\ batch[s] \in Nat \ {0}
                                     /\ batch[s] <= goal[s].quantity - Projected(s)
                                     /\ WithFee(batch[s] * limit[s]) \in Nat
          /\ Total([s \in DOMAIN batch |-> WithFee(batch[s] * limit[s])], DOMAIN batch) <= money
      <4>1. LET q == BuyQuantities(goal, limit, money)
            IN /\ DOMAIN q \subseteq Etfs
               /\ \A s \in DOMAIN q : /\ s \in DOMAIN goal /\ q[s] \in Nat \ {0}
                                      /\ q[s] <= goal[s].quantity - Projected(s)
                                      /\ WithFee(q[s] * limit[s]) \in Nat
               /\ Total([s \in DOMAIN q |-> WithFee(q[s] * limit[s])], DOMAIN q) <= money
        BY <1>5, <1>7, <1>9, BuysType, Zenon
      <4> QED
        BY <3>1, <4>1, Zenon
    <3> QED
      BY <2>2, <3>2
  <2> QED
    BY <2>1, <2>2 DEF Sides
<1>17. /\ good \subseteq DOMAIN batch
       /\ Notional(day) + Total([s \in good |-> batch[s] * limit[s]], good) <= MaxDaily
  <2>1. Notional(day) \in Nat /\ Notional(day) <= MaxDaily /\ MaxDaily \in Nat
    <3>1. day \in 1 .. day
      BY <1>1 DEF PlaceInv
    <3> QED
      BY <1>1, <1>6, <3>1, ConfigAssumption DEF WithinDailyNotional
  <2>2. CASE stage = "SELL" /\ late
    <3>1. good = {}
      BY <1>16, <2>2
    <3> DEFINE u == [s \in good |-> batch[s] * limit[s]]
    <3>2. Total(u, good) = 0
      <4> HIDE DEF u
      <4> QED
        BY <3>1, TotalEmpty
    <3> QED
      BY <2>1, <3>1, <3>2
  <2>3. CASE ~(stage = "SELL" /\ late)
    <3>1. good = Approved(stage, batch, limit, money, left, weight)
      BY <1>16, <2>3
    <3>2. \A s \in DOMAIN batch : batch[s] \in Nat
      BY <1>13
    <3> QED
      BY <1>5, <1>13, <2>1, <3>1, <3>2, ApprovedType
  <2> QED
    BY <2>2, <2>3
<1>18. \A s \in DOMAIN batch : PricedWell(Planning(batch, limit, quote, good, s))
  <2> TAKE s \in DOMAIN batch
  <2>1. PICK i : i = Planning(batch, limit, quote, good, s)
    OBVIOUS
  <2>2. i.side = stage /\ i.limit = limit[s] /\ i.quote = quote[s] /\ s \in Etfs
    BY <1>13, <2>1 DEF Planning
  <2>3. PricedWell(i)
    BY <1>4, <2>2 DEF PricedWell
  <2> QED
    BY <2>1, <2>3
<1>19. PlanOf(batch, limit, quote, good, goal, free)
  <2>1. \A s \in DOMAIN batch : s \in Etfs /\ left[s] = free[s] - Open("SELL", s) /\ quote[s] \in Quotes
    BY <1>2, <1>10, <1>13
  <2> QED
    BY <1>5, <1>8, <1>13, <1>17, <1>18, <2>1 DEF PlanOf
<1> QED
  BY <1>19, <1>20

\* A plan adds orders that nothing was planned for yet, and what they amount to.
LEMMA PlanAdds ==
  ASSUME IntentInv, day \in Nat \ {0}, day' = day, stage \in Sides, Today(stage) = {},
         NEW batch, NEW limit, NEW quote, NEW good, NEW goal, NEW free,
         PlanOf(batch, limit, quote, good, goal, free), intents' = intents \cup Orders(batch, limit, quote, good)
  PROVE  /\ IntentInv'
         /\ \A side, t : Open(side, t)' = Open(side, t) + IF side = stage /\ t \in good THEN batch[t] ELSE 0
         /\ Notional(day)' = Notional(day) + Total([s \in good |-> batch[s] * limit[s]], good)
         /\ \A d : d # day => Notional(d)' = Notional(d)
         /\ stage = "SELL" => ReservedCash' = ReservedCash
         /\ stage = "BUY" =>
              ReservedCash' <= ReservedCash
                               + Total([s \in DOMAIN batch |-> WithFee(batch[s] * limit[s])], DOMAIN batch)
<1>1. PICK D : D = DOMAIN batch
  OBVIOUS
<1> DEFINE f == [s \in D |-> Planning(batch, limit, quote, good, s)]
           N == {f[s] : s \in D}
<1>2. /\ D \subseteq Etfs /\ good \subseteq D /\ IsFiniteSet(D) /\ IsFiniteSet(good)
      /\ \A s \in D : /\ batch[s] \in Nat \ {0} /\ limit[s] \in Nat \ {0} /\ quote[s] \in Quotes
                      /\ PricedWell(Planning(batch, limit, quote, good, s))
                      /\ stage = "BUY" => WithFee(batch[s] * limit[s]) \in Nat
  <2>1. D \subseteq Etfs /\ good \subseteq D /\ limit \in [Etfs -> Nat \ {0}]
    BY <1>1 DEF PlanOf
  <2>2. IsFiniteSet(D) /\ IsFiniteSet(good)
    BY <2>1, EtfAssumption, FS_Subset
  <2> QED
    BY <1>1, <2>1, <2>2 DEF PlanOf
<1>3. \A s \in D : /\ f[s].day = day /\ f[s].side = stage /\ f[s].symbol = s /\ f[s].quantity = batch[s]
                   /\ f[s].limit = limit[s] /\ f[s].filled = 0 /\ f[s].quote = quote[s]
                   /\ f[s].status = (IF s \in good THEN "PLANNED" ELSE "REJECTED")
  BY DEF Planning
<1>4. \A s \in D : f[s] \in Intents /\ PricedWell(f[s])
  BY <1>2 DEF Planning, Intents, IntentStatuses
<1>5. intents' = intents \cup N
  BY <1>1 DEF Orders
<1>6. IsFiniteSet(intents) /\ intents \subseteq Intents
  BY DEF IntentInv
<1> HIDE DEF f
<1>7. \A x, y \in D : f[x] = f[y] => x = y
  BY <1>3
<1>8. intents \cap N = {}
  BY <1>3 DEF Today
<1>9. IsFiniteSet(N)
  <2> DEFINE w == [x \in N |-> 0]
  <2>1. \A x \in D : w[f[x]] \in Int
    OBVIOUS
  <2>2. IsFiniteSet(D)
    BY <1>2
  <2> HIDE DEF w
  <2> QED
    BY ONLY <1>7, <2>1, <2>2, TotalAlong
<1>10. IsFiniteSet(intents') /\ intents' \subseteq Intents
  <2>1. N \subseteq Intents
    BY <1>4
  <2> HIDE DEF N
  <2>2. IsFiniteSet(intents \cup N)
    BY ONLY <1>6, <1>9, FS_Union
  <2> QED
    BY <1>5, <1>6, <2>1, <2>2
<1>11. IntentInv'
  <2>1. \A i \in intents : i.filled <= i.quantity /\ i.day \in 1 .. day /\ PricedWell(i)
    BY DEF IntentInv
  <2>2. \A s \in D : f[s].filled <= f[s].quantity /\ f[s].day \in 1 .. day /\ PricedWell(f[s])
    BY <1>2, <1>3, <1>4
  <2>3. \A i \in intents' : i.filled <= i.quantity /\ i.day \in 1 .. day /\ PricedWell(i)
    BY <1>5, <2>1, <2>2
  <2> QED
    BY <1>10, <2>3 DEF IntentInv, PricedWell
<1>12. ASSUME NEW w, \A i \in Intents : w[i] \in Nat
       PROVE  Total(w, intents') = Total(w, intents) + Total([s \in D |-> w[f[s]]], D)
  <2>1. Total(w, N) = Total([s \in D |-> w[f[s]]], D)
    BY <1>2, <1>4, <1>7, <1>12, TotalAlong
  <2>2. Total(w, intents') = Total(w, intents) + Total(w, N)
    <3>1. \A i \in intents' : w[i] \in Int
      BY <1>10, <1>12
    <3> HIDE DEF N
    <3> QED
      BY <1>5, <1>8, <1>10, <3>1, TotalUnion
  <2> QED
    BY <2>1, <2>2
<1> HIDE DEF N
<1>13. ASSUME NEW side, NEW t
       PROVE  Open(side, t)' = Open(side, t) + IF side = stage /\ t \in good THEN batch[t] ELSE 0
  <2>1. PICK w : w = OpenOf(side, t)
    OBVIOUS
  <2> DEFINE v == [s \in D |-> w[f[s]]]
  <2>2. Open(side, t) = Total(w, intents) /\ Open(side, t)' = Total(w, intents')
    BY <1>11, <2>1, SumsNow, SumsNext
  <2>3. Total(w, intents') = Total(w, intents) + Total(v, D)
    BY <1>12, <2>1, WeightsType
  <2>4. \A s \in D : v[s] = IF s \in good /\ stage = side /\ s = t THEN batch[s] ELSE 0
    <3> TAKE s \in D
    <3>1. PICK i : i = f[s]
      OBVIOUS
    <3>2. i \in Intents /\ i.side = stage /\ i.symbol = s /\ i.filled <= i.quantity /\ i.quantity = batch[s]
          /\ i.filled = 0 /\ (IsActive(i) <=> s \in good) /\ batch[s] \in Nat
      BY <1>2, <1>3, <1>4, <3>1 DEF IsActive
    <3>3. Remaining(i) = batch[s]
      BY <3>2, RemainingType
    <3>4. v[s] = w[i]
      BY <3>1
    <3> HIDE DEF v
    <3> QED
      BY <2>1, <3>2, <3>3, <3>4 DEF OpenOf
  <2> HIDE DEF v
  <2>5. \A s \in D : v[s] \in Int
    BY <1>2, <2>4
  <2>6. CASE side = stage /\ t \in good
    <3>1. t \in D
      BY <1>2, <2>6
    <3>2. Total(v, D) = v[t] + Total(v, D \ {t})
      BY <1>2, <2>5, <3>1, TotalWithout
    <3>3. Total(v, D \ {t}) = 0
      <4>1. IsFiniteSet(D \ {t}) /\ \A s \in D \ {t} : v[s] = 0
        BY <1>2, <2>4, FS_Subset
      <4> QED
        BY <4>1, TotalZero
    <3>4. v[t] = batch[t] /\ batch[t] \in Nat
      BY <1>2, <2>4, <2>6, <3>1
    <3> QED
      BY <2>2, <2>3, <2>6, <3>2, <3>3, <3>4
  <2>7. CASE ~(side = stage /\ t \in good)
    <3>1. \A s \in D : v[s] = 0
      BY <2>4, <2>7
    <3>2. Total(v, D) = 0
      BY <1>2, <3>1, TotalZero
    <3> QED
      BY <2>2, <2>3, <2>7, <3>2
  <2> QED
    BY <2>6, <2>7
<1>14. \A d : d # day => Notional(d)' = Notional(d)
  <2> TAKE d
  <2> HAVE d # day
  <2>1. PICK w : w = ValueOf(d)
    OBVIOUS
  <2> DEFINE v == [s \in D |-> w[f[s]]]
  <2>2. Notional(d) = Total(w, intents) /\ Notional(d)' = Total(w, intents') /\ Notional(d) \in Nat
    BY <1>11, <2>1, SumsNow, SumsNext
  <2>3. Total(w, intents') = Total(w, intents) + Total(v, D)
    BY <1>12, <2>1, WeightsType
  <2>4. \A s \in D : v[s] = 0
    BY <1>3, <1>4, <2>1 DEF ValueOf
  <2> HIDE DEF v
  <2>5. Total(v, D) = 0
    BY <1>2, <2>4, TotalZero
  <2> QED
    BY <2>2, <2>3, <2>5
<1>15. Notional(day)' = Notional(day) + Total([s \in good |-> batch[s] * limit[s]], good)
  <2>1. PICK w : w = ValueOf(day)
    OBVIOUS
  <2> DEFINE v == [s \in D |-> w[f[s]]]
             u == [s \in good |-> batch[s] * limit[s]]
  <2>2. Notional(day) = Total(w, intents) /\ Notional(day)' = Total(w, intents')
    BY <1>11, <2>1, SumsNow, SumsNext
  <2>3. Total(w, intents') = Total(w, intents) + Total(v, D)
    BY <1>12, <2>1, WeightsType
  <2>4. \A s \in D : v[s] \in Int /\ v[s] = IF s \in good THEN batch[s] * limit[s] ELSE 0
    <3> TAKE s \in D
    <3>1. PICK i : i = f[s]
      OBVIOUS
    <3>2. i \in Intents /\ i.day = day /\ i.quantity = batch[s] /\ i.limit = limit[s]
          /\ (i.status # "REJECTED" <=> s \in good) /\ batch[s] \in Nat /\ limit[s] \in Nat
      BY <1>2, <1>3, <1>4, <3>1
    <3>3. limit[s] * batch[s] = batch[s] * limit[s]
      BY <3>2
    <3>4. w[i] = IF s \in good THEN limit[s] * batch[s] ELSE 0
      BY <2>1, <3>2 DEF ValueOf
    <3>5. v[s] = w[i] /\ w[i] \in Nat
      BY <2>1, <3>1, <3>2, WeightsType
    <3> HIDE DEF v
    <3> QED
      BY <3>3, <3>4, <3>5
  <2>5. \A s \in good : u[s] = v[s]
    BY <1>2, <2>4
  <2> HIDE DEF v, u
  <2>6. Total(v, D) = Total(v, good)
    <3>1. \A s \in D : v[s] \in Int
      BY <2>4
    <3>2. \A s \in D \ good : v[s] = 0
      BY <2>4
    <3> QED
      BY <1>2, <3>1, <3>2, TotalRestricted
  <2>7. Total(u, good) = Total(v, good)
    BY <1>2, <2>5, TotalAgrees
  <2>8. Notional(day)' = Notional(day) + Total(u, good)
    BY <2>2, <2>3, <2>6, <2>7
  <2> QED
    BY <2>8 DEF u
<1> DEFINE cost == [s \in D |-> CashOf[f[s]]]
<1>16. ReservedCash' = ReservedCash + Total(cost, D) /\ ReservedCash \in Nat
  <2>1. ReservedCash = Total(CashOf, intents) /\ ReservedCash' = Total(CashOf, intents') /\ ReservedCash \in Nat
    BY <1>11, SumsNow, SumsNext
  <2>2. Total(CashOf, intents') = Total(CashOf, intents) + Total(cost, D)
    BY <1>12, WeightsType
  <2> QED
    BY <2>1, <2>2
<1>17. CASE stage = "SELL"
  <2>1. \A s \in D : cost[s] = 0
    BY <1>3, <1>4, <1>17 DEF CashOf
  <2> HIDE DEF cost
  <2>2. Total(cost, D) = 0
    BY <1>2, <2>1, TotalZero
  <2> QED
    BY <1>1, <1>11, <1>13, <1>14, <1>15, <1>16, <1>17, <2>2
<1>18. CASE stage = "BUY"
  <2> DEFINE u == [s \in D |-> WithFee(batch[s] * limit[s])]
  <2>1. \A s \in D : cost[s] \in Int /\ u[s] \in Int /\ cost[s] <= u[s]
    <3> TAKE s \in D
    <3>1. PICK i : i = f[s]
      OBVIOUS
    <3>2. i \in Intents /\ i.filled <= i.quantity /\ i.quantity = batch[s] /\ i.filled = 0 /\ i.limit = limit[s]
          /\ batch[s] \in Nat /\ limit[s] \in Nat /\ WithFee(batch[s] * limit[s]) \in Nat
      BY <1>2, <1>3, <1>4, <1>18, <3>1
    <3>3. Remaining(i) = batch[s]
      BY <3>2, RemainingType
    <3>4. limit[s] * batch[s] = batch[s] * limit[s]
      BY <3>2
    <3>5. CashOf[i] = WithFee(batch[s] * limit[s]) \/ CashOf[i] = 0
      BY <3>2, <3>3, <3>4 DEF CashOf
    <3>6. cost[s] = CashOf[i] /\ u[s] = WithFee(batch[s] * limit[s])
      BY <3>1
    <3> HIDE DEF cost, u
    <3> QED
      BY <3>2, <3>5, <3>6
  <2> HIDE DEF cost, u
  <2>2. Total(cost, D) <= Total(u, D) /\ Total(cost, D) \in Int /\ Total(u, D) \in Int
    BY <1>2, <2>1, TotalMonotone, TotalInt
  <2>3. ReservedCash' <= ReservedCash + Total(u, D)
    BY <1>16, <2>2
  <2>4. ReservedCash' <= ReservedCash + Total([s \in D |-> WithFee(batch[s] * limit[s])], D)
    BY <2>3 DEF u
  <2> QED
    BY <1>1, <1>11, <1>13, <1>14, <1>15, <1>18, <2>4
<1> QED
  BY <1>17, <1>18 DEF Sides

\* A phase: what it freezes, frees and adds.
LEMMA TargetType ==
  ASSUME NEW w \in Nat, NEW total \in Nat, NEW price \in Nat \ {0}
  PROVE  TargetQuantity(w, total, price) \in Int
<1>1. Lot \in Nat \ {0} /\ WeightUnit \in Nat \ {0}
  BY ConfigAssumption
<1>2. PICK n, d : n = total * w /\ d = WeightUnit * price * Lot
  OBVIOUS
<1>3. n \in Int
  BY <1>2
<1>4. d \in Nat \ {0}
  <2>1. WeightUnit * price \in Nat \ {0}
    BY <1>1
  <2>2. PICK e : e = WeightUnit * price
    OBVIOUS
  <2>3. e * Lot \in Nat \ {0}
    BY <1>1, <2>1, <2>2
  <2> QED
    BY <1>2, <2>2, <2>3
<1>5. PICK k : k = n \div d
  OBVIOUS
<1>6. k \in Int
  BY <1>3, <1>4, <1>5, DivBounds
<1>7. k * Lot \in Int
  BY <1>1, <1>6
<1> QED
  BY <1>2, <1>5, <1>7 DEF TargetQuantity

LEMMA GoalType ==
  ASSUME PlanInv, NEW ticks \in session.ticks, stage \in Sides, PricesAvailable(stage, ticks),
         NEW quote, quote = [s \in Etfs |-> QuoteOf(ticks[s], Cached(ticks)[s])],
         NEW total, total = funds + SumFunction([s \in Etfs |-> quote[s].last * position[s]]),
         IsFrozen \/ total >= 0,
         NEW goal, goal = FrozenTargets(total, [s \in Etfs |-> quote[s].last])
  PROVE  /\ DOMAIN goal = DOMAIN target /\ DOMAIN goal \subseteq Etfs
         /\ \A s \in DOMAIN goal : goal[s].quantity \in Int
         /\ IsFrozen => goal = Goal
<1>1. PlaceInv /\ HoldingInv
  BY DEF PlanInv
<1>2. DOMAIN target \subseteq Etfs /\ \A s \in DOMAIN target : target[s] \in 0 .. WeightUnit
  BY <1>1, TargetAssumption DEF PlaceInv
<1>3. CASE IsFrozen
  BY <1>1, <1>2, <1>3 DEF FrozenTargets, PlaceInv
<1>4. CASE ~IsFrozen
  <2>1. \A s \in Etfs : quote[s].last \in Nat \ {0}
    <3> TAKE s \in Etfs
    <3>1. quote[s] \in Quotes /\ Priced(stage, quote[s])
      BY <1>1, QuoteType
    <3> QED
      BY <3>1, LimitType
  <2>2. total \in Nat
    <3> DEFINE v == [s \in Etfs |-> quote[s].last * position[s]]
    <3>1. \A s \in Etfs : v[s] \in Int
      <4> TAKE s \in Etfs
      <4>1. position[s] \in Nat /\ quote[s].last \in Nat
        BY <1>1, <2>1 DEF HoldingInv
      <4> QED
        BY <4>1
    <3>2. DOMAIN v = Etfs
      OBVIOUS
    <3>3. total = funds + SumFunction(v)
      OBVIOUS
    <3> HIDE DEF v
    <3>4. SumFunction(v) = Total(v, Etfs)
      BY <3>2, EtfAssumption, SumIsTotal
    <3>5. Total(v, Etfs) \in Int
      BY <3>1, EtfAssumption, TotalInt
    <3> QED
      BY <1>1, <1>4, <3>3, <3>4, <3>5 DEF HoldingInv
  <2>3. goal = [s \in DOMAIN target |->
                  [price |-> quote[s].last, quantity |-> TargetQuantity(target[s], total, quote[s].last)]]
    BY <1>2, <1>4 DEF FrozenTargets
  <2>4. \A s \in DOMAIN target : TargetQuantity(target[s], total, quote[s].last) \in Int
    <3> TAKE s \in DOMAIN target
    <3>1. target[s] \in Nat /\ quote[s].last \in Nat \ {0}
      BY <1>2, <2>1, ConfigAssumption
    <3> QED
      BY <2>2, <3>1, TargetType
  <2>5. DOMAIN goal = DOMAIN target
    BY <2>3
  <2>6. ASSUME NEW s \in DOMAIN goal PROVE goal[s].quantity \in Int
    <3>1. s \in DOMAIN target
      BY <2>5, <2>6
    <3>2. goal[s] = [price |-> quote[s].last, quantity |-> TargetQuantity(target[s], total, quote[s].last)]
      BY ONLY <2>3, <3>1
    <3>3. goal[s].quantity = TargetQuantity(target[s], total, quote[s].last)
      BY ONLY <3>2
    <3> QED
      BY <2>4, <3>1, <3>3
  <2> QED
    BY <1>2, <1>4, <2>5, <2>6
<1> QED
  BY <1>3, <1>4

\* What is added is within its bounds; a plan that is not saved adds nothing.
Within(good, batch, goal, free) ==
  /\ good \subseteq DOMAIN goal
  /\ \A t \in good : /\ batch[t] \in Nat
                     /\ stage = "SELL" => /\ batch[t] <= Projected(t) - goal[t].quantity
                                          /\ batch[t] <= free[t] - Open("SELL", t)
                     /\ stage = "BUY" => batch[t] <= goal[t].quantity - Projected(t)

LEMMA ExecuteStep ==
  ASSUME PlanInv, NEW ticks \in session.ticks, NEW late \in BOOLEAN, ExecuteSide(ticks, late)
  PROVE  PlanInv' /\ (Cardinality(intents') > Cardinality(intents) => ReservedCash' <= funds')
<1>1. PlaceInv /\ HoldingInv /\ IntentInv /\ TurnInv /\ NeverPastTarget /\ WithinDailyNotional
  BY DEF PlanInv
<1>2. PICK free, quote, total, goal :
        /\ free = Settled
        /\ quote = [s \in Etfs |-> QuoteOf(ticks[s], Cached(ticks)[s])]
        /\ total = funds + SumFunction([s \in Etfs |-> quote[s].last * position[s]])
        /\ goal = FrozenTargets(total, [s \in Etfs |-> quote[s].last])
  OBVIOUS
<1>3. /\ stage \in Sides /\ Today(stage) = {} /\ (stage = "BUY" => IsFrozen)
      /\ PricesAvailable(stage, ticks) /\ (IsFrozen \/ total >= 0)
      /\ frozen' = {goal} /\ opening' = (IF IsFrozen THEN opening ELSE position)
      /\ sellable' = free /\ settled' = day
      /\ UNCHANGED <<day, session, stage, target, funds, position>>
  BY <1>2 DEF ExecuteSide, Sides
<1>4. \/ intents' = intents
      \/ ~Overcommitted(free) /\ intents' = intents \cup Planned(quote, goal, late, free, total)
  BY <1>2 DEF ExecuteSide
<1>5. cached' \in {Cached(ticks), <<>>} /\ paused' \in BOOLEAN
  BY <1>1 DEF ExecuteSide, PlaceInv
<1>6. /\ DOMAIN goal = DOMAIN target /\ DOMAIN goal \subseteq Etfs
      /\ \A s \in DOMAIN goal : goal[s].quantity \in Int
      /\ IsFrozen => goal = Goal
  <2>1. stage \in Sides /\ PricesAvailable(stage, ticks) /\ (IsFrozen \/ total >= 0)
    BY <1>3
  <2>2. /\ quote = [s \in Etfs |-> QuoteOf(ticks[s], Cached(ticks)[s])]
        /\ total = funds + SumFunction([s \in Etfs |-> quote[s].last * position[s]])
        /\ goal = FrozenTargets(total, [s \in Etfs |-> quote[s].last])
    BY <1>2
  <2> QED
    BY <2>1, <2>2, GoalType
<1>7. IsFrozen' /\ Goal' = goal /\ frozen' = {Goal'}
  BY <1>3 DEF IsFrozen, Goal
<1>8. PlaceInv'
  <2>1. DOMAIN cached' \subseteq Etfs /\ \A s \in DOMAIN cached' : cached'[s] \in Details
    <3>1. CASE cached' = Cached(ticks)
      BY <1>1, <3>1, CachedType
    <3>2. CASE cached' = <<>>
      BY <3>2
    <3> QED
      BY <1>5, <3>1, <3>2
  <2>2. settled' \in 0 .. day'
    BY <1>1, <1>3 DEF PlaceInv
  <2> QED
    BY <1>1, <1>3, <1>5, <1>6, <1>7, <2>1, <2>2 DEF PlaceInv
<1>9. /\ \A side, s : Open(side, s) \in Nat
      /\ ReservedCash \in Nat /\ \A d : Notional(d) \in Nat
  BY <1>1, SumsNow
<1>10. /\ free \in [Etfs -> Nat]
       /\ \A s \in Etfs : Open("SELL", s) <= free[s] /\ free[s] <= position[s] /\ position[s] \in Nat
  <2>1. CASE settled < day
    <3>1. free = position
      BY <1>2, <2>1 DEF Settled
    <3>2. ASSUME NEW s \in Etfs PROVE Open("SELL", s) <= position[s] /\ position[s] \in Nat
      <4>1. Open("SELL", s) \in Nat /\ sellable[s] \in Nat /\ position[s] \in Nat
            /\ Open("SELL", s) <= sellable[s] /\ sellable[s] <= position[s]
        BY <1>1, <1>9 DEF HoldingInv
      <4> QED
        BY <4>1
    <3> QED
      BY <1>1, <3>1, <3>2 DEF HoldingInv
  <2>2. CASE ~(settled < day)
    BY <1>1, <1>2, <2>2 DEF Settled, HoldingInv
  <2> QED
    BY <2>1, <2>2
<1>11. \E good, batch :
         /\ Within(good, batch, goal, free) /\ IntentInv'
         /\ \A side, t : Open(side, t)' = Open(side, t) + IF side = stage /\ t \in good THEN batch[t] ELSE 0
         /\ \A d \in 1 .. day : Notional(d)' <= MaxDaily
         /\ intents \subseteq intents' /\ \A i \in intents' \ intents : i.side = stage
         /\ Cardinality(intents') > Cardinality(intents) => ReservedCash' <= funds
  <2>1. CASE intents' = intents
    <3>1. IntentInv'
      BY <1>1, <1>3, <2>1 DEF IntentInv, PricedWell
    <3>2. \A side, t : Open(side, t)' = Open(side, t) + IF side = stage /\ t \in {} THEN <<>>[t] ELSE 0
      <4> TAKE side, t
      <4>1. Open(side, t)' = Open(side, t)
        BY <2>1 DEF Open, Active
      <4> QED
        BY <1>9, <4>1
    <3>3. \A d \in 1 .. day : Notional(d)' <= MaxDaily
      <4> TAKE d \in 1 .. day
      <4>1. Notional(d)' = Notional(d) /\ Notional(d) <= MaxDaily
        BY <1>1, <2>1 DEF Notional, WithinDailyNotional
      <4> QED
        BY <4>1
    <3>4. ~(Cardinality(intents') > Cardinality(intents))
      <4>1. Cardinality(intents) \in Nat
        BY <1>1, FS_CardinalityType DEF IntentInv
      <4> QED
        BY <2>1, <4>1
    <3>5. Within({}, <<>>, goal, free)
      BY DEF Within
    <3> QED
      BY <2>1, <3>1, <3>2, <3>3, <3>4, <3>5
  <2>2. CASE ~Overcommitted(free) /\ intents' = intents \cup Planned(quote, goal, late, free, total)
    <3>1. PICK batch, limit, good :
            /\ PlanOf(batch, limit, quote, good, goal, free)
            /\ Planned(quote, goal, late, free, total) = Orders(batch, limit, quote, good)
      <4>1. stage \in Sides /\ PricesAvailable(stage, ticks) /\ ~Overcommitted(free)
        BY <1>3, <2>2
      <4>2. quote = [s \in Etfs |-> QuoteOf(ticks[s], Cached(ticks)[s])]
        BY <1>2
      <4>3. DOMAIN goal \subseteq Etfs /\ (\A s \in DOMAIN goal : goal[s].quantity \in Int) /\ free \in [Etfs -> Nat]
        BY <1>6, <1>10
      <4>4. CanPlan(quote, goal, late, free, total)
        BY ONLY PlanInv, ticks \in session.ticks, late \in BOOLEAN, <4>1, <4>2, <4>3, PlannedType
      <4> QED
        BY <4>4 DEF CanPlan
    <3>2. intents' = intents \cup Orders(batch, limit, quote, good)
      BY <2>2, <3>1
    <3>3. day \in Nat \ {0}
      BY <1>1, AccountAssumption DEF PlaceInv
    <3>4. /\ IntentInv'
          /\ \A side, t : Open(side, t)' = Open(side, t) + IF side = stage /\ t \in good THEN batch[t] ELSE 0
          /\ Notional(day)' = Notional(day) + Total([s \in good |-> batch[s] * limit[s]], good)
          /\ \A d : d # day => Notional(d)' = Notional(d)
          /\ stage = "SELL" => ReservedCash' = ReservedCash
          /\ stage = "BUY" =>
               ReservedCash' <= ReservedCash
                                + Total([s \in DOMAIN batch |-> WithFee(batch[s] * limit[s])], DOMAIN batch)
      BY <1>1, <1>3, <3>1, <3>2, <3>3, PlanAdds
    <3>5. Within(good, batch, goal, free)
      BY <3>1 DEF PlanOf, Within
    <3>6. \A d \in 1 .. day : Notional(d)' <= MaxDaily
      <4> TAKE d \in 1 .. day
      <4>1. CASE d = day
        <5>1. d = day' /\ Notional(day)' <= MaxDaily
          BY <1>3, <3>1, <3>4, <4>1 DEF PlanOf
        <5> QED
          BY <5>1
      <4>2. CASE d # day
        <5>1. Notional(d) <= MaxDaily
          BY <1>1 DEF WithinDailyNotional
        <5> QED
          BY <3>4, <4>2, <5>1
      <4> QED
        BY <4>1, <4>2
    <3>7. \A i \in intents' \ intents : i.side = stage
      BY <3>2 DEF Orders, Planning
    <3>8. ReservedCash' <= funds
      <4>1. ReservedCash <= funds /\ funds \in Int
        BY <1>1, <1>9, <2>2 DEF Overcommitted, HoldingInv
      <4>2. CASE stage = "SELL"
        BY <3>4, <4>1, <4>2
      <4>3. CASE stage = "BUY"
        <5>1. PICK x : x = Total([s \in DOMAIN batch |-> WithFee(batch[s] * limit[s])], DOMAIN batch)
          OBVIOUS
        <5>2. x <= funds - ReservedCash /\ ReservedCash' <= ReservedCash + x
          BY <3>1, <3>4, <4>3, <5>1 DEF PlanOf
        <5>3. x \in Int
          <6> DEFINE v == [s \in DOMAIN batch |-> WithFee(batch[s] * limit[s])]
          <6>1. \A s \in DOMAIN batch : v[s] \in Int
            BY <3>1, <4>3 DEF PlanOf
          <6>2. IsFiniteSet(DOMAIN batch)
            BY <3>1, EtfAssumption, FS_Subset DEF PlanOf
          <6> HIDE DEF v
          <6>3. Total(v, DOMAIN batch) \in Int
            BY <6>1, <6>2, TotalInt
          <6> QED
            BY <5>1, <6>3 DEF v
        <5>4. ReservedCash' \in Nat
          BY <3>4, SumsNext
        <5> QED
          BY <1>9, <4>1, <5>2, <5>3, <5>4
      <4> QED
        BY <1>3, <4>2, <4>3 DEF Sides
    <3> QED
      BY <3>2, <3>4, <3>5, <3>6, <3>7, <3>8
  <2> QED
    BY <1>4, <2>1, <2>2
<1>12. PICK good, batch :
         /\ Within(good, batch, goal, free) /\ IntentInv'
         /\ \A side, t : Open(side, t)' = Open(side, t) + IF side = stage /\ t \in good THEN batch[t] ELSE 0
         /\ \A d \in 1 .. day : Notional(d)' <= MaxDaily
         /\ intents \subseteq intents' /\ \A i \in intents' \ intents : i.side = stage
         /\ Cardinality(intents') > Cardinality(intents) => ReservedCash' <= funds
  BY <1>11
<1>13. WithinDailyNotional'
  BY <1>3, <1>12 DEF WithinDailyNotional
<1>14. TurnInv'
  <2>1. \A i \in intents' : i \in intents \/ i.side = stage
    BY <1>12
  <2>2. stage = "SELL" => Today("BUY")' = {}
    BY <1>1, <1>3, <2>1 DEF TurnInv, Today
  <2>3. stage = "BUY" => \A i \in Today("SELL")' : ~IsActive(i)
    BY <1>1, <1>3, <2>1 DEF TurnInv, Today
  <2> QED
    BY <1>3, <1>7, <2>2, <2>3 DEF TurnInv
<1>15. HoldingInv'
  <2>1. ASSUME NEW s \in Etfs PROVE Open("SELL", s)' <= free[s]
    <3>1. Open("SELL", s) <= free[s] /\ Open("SELL", s) \in Nat /\ free[s] \in Nat
      BY <1>9, <1>10
    <3>2. CASE stage = "SELL" /\ s \in good
      <4>1. Open("SELL", s)' = Open("SELL", s) + batch[s]
        BY <1>12, <3>2
      <4>2. batch[s] \in Nat /\ batch[s] <= free[s] - Open("SELL", s)
        BY <1>12, <3>2 DEF Within
      <4> QED
        BY <3>1, <4>1, <4>2
    <3>3. CASE ~(stage = "SELL" /\ s \in good)
      <4>1. Open("SELL", s)' = Open("SELL", s) + 0
        BY <1>12, <3>3
      <4> QED
        BY <3>1, <4>1
    <3> QED
      BY <3>2, <3>3
  <2>2. opening' \in [Etfs -> Nat] /\ position' \in [Etfs -> Nat] /\ funds' \in Int
    BY <1>1, <1>3 DEF HoldingInv
  <2> QED
    BY <1>3, <1>10, <2>1, <2>2 DEF HoldingInv
<1>16. NeverPastTarget'
  <2>1. SUFFICES ASSUME \A x \in Active' : x.day = day', NEW t \in DOMAIN Goal'
                 PROVE  /\ position'[t] + Open("BUY", t)' <= Greatest(opening'[t], Goal'[t].quantity)
                        /\ position'[t] - Open("SELL", t)' >= Least(opening'[t], Goal'[t].quantity)
    BY DEF NeverPastTarget
  <2>2. \A x \in intents : ~IsActive(x)
    <3>1. SUFFICES ASSUME NEW x \in intents, IsActive(x) PROVE FALSE
      OBVIOUS
    <3>2. x \in Active'
      BY <1>12, <3>1 DEF Active, IsActive
    <3>3. x.day = day /\ x.side \in Sides
      BY <1>1, <1>3, <2>1, <3>2 DEF IntentInv, Intents
    <3>4. x \in Today(x.side)
      BY <3>3 DEF Today
    <3> QED
      BY <1>1, <1>3, <3>1, <3>3, <3>4 DEF TurnInv, Sides
  <2>3. \A side, s : Open(side, s) = 0
    <3> TAKE side, s
    <3>1. \A x \in intents : OpenOf(side, s)[x] = 0
      BY <1>1, <2>2 DEF OpenOf, IntentInv
    <3>2. IsFiniteSet(intents)
      BY <1>1 DEF IntentInv
    <3>3. Total(OpenOf(side, s), intents) = 0
      BY <3>1, <3>2, TotalZero
    <3> QED
      BY <1>1, <3>3, SumsNow
  <2>4. t \in DOMAIN goal /\ t \in Etfs /\ goal[t].quantity \in Int /\ Goal'[t].quantity = goal[t].quantity
    BY <1>6, <1>7, <2>1
  <2>5. position[t] \in Nat /\ opening[t] \in Nat /\ position' = position
    BY <1>1, <1>3, <2>4 DEF HoldingInv
  <2>6. Projected(t) = position[t]
    BY <2>3, <2>5 DEF Projected
  <2>7. /\ opening'[t] \in Nat
        /\ position[t] <= Greatest(opening'[t], goal[t].quantity)
        /\ position[t] >= Least(opening'[t], goal[t].quantity)
    <3>1. CASE IsFrozen
      <4>1. \A x \in Active : x.day = day
        BY <2>2 DEF Active, IsActive
      <4>2. /\ position[t] + Open("BUY", t) <= Greatest(opening[t], Goal[t].quantity)
            /\ position[t] - Open("SELL", t) >= Least(opening[t], Goal[t].quantity)
        BY <1>1, <1>6, <2>4, <3>1, <4>1 DEF NeverPastTarget
      <4>3. opening' = opening /\ goal = Goal
        BY <1>3, <1>6, <3>1
      <4>4. Open("BUY", t) = 0 /\ Open("SELL", t) = 0
        BY <2>3
      <4> QED
        BY <2>5, <4>2, <4>3, <4>4
    <3>2. CASE ~IsFrozen
      <4>1. opening' = position
        BY <1>3, <3>2
      <4> QED
        BY <2>4, <2>5, <4>1 DEF Greatest, Least
    <3> QED
      BY <3>1, <3>2
  <2>8. PICK g, o, p : g = goal[t].quantity /\ o = opening'[t] /\ p = position[t]
    OBVIOUS
  <2>9. g \in Int /\ o \in Nat /\ p \in Nat /\ p <= Greatest(o, g) /\ p >= Least(o, g)
    BY <2>4, <2>5, <2>7, <2>8
  <2>10. Open("BUY", t)' = 0 \/ (Open("BUY", t)' \in Nat /\ Open("BUY", t)' <= g - p)
    <3>1. CASE stage = "BUY" /\ t \in good
      <4>1. Open("BUY", t)' = batch[t] /\ batch[t] \in Nat /\ batch[t] <= goal[t].quantity - Projected(t)
        <5>1. Open("BUY", t)' = Open("BUY", t) + batch[t]
          BY <1>12, <3>1
        <5>2. batch[t] \in Nat /\ batch[t] <= goal[t].quantity - Projected(t)
          BY <1>12, <3>1 DEF Within
        <5> QED
          BY <2>3, <5>1, <5>2
      <4> QED
        BY <2>6, <2>8, <4>1
    <3>2. CASE ~(stage = "BUY" /\ t \in good)
      <4>1. Open("BUY", t)' = Open("BUY", t) + 0
        BY <1>12, <3>2
      <4> QED
        BY <2>3, <4>1
    <3> QED
      BY <3>1, <3>2
  <2>11. Open("SELL", t)' = 0 \/ (Open("SELL", t)' \in Nat /\ Open("SELL", t)' <= p - g)
    <3>1. CASE stage = "SELL" /\ t \in good
      <4>1. Open("SELL", t)' = batch[t] /\ batch[t] \in Nat /\ batch[t] <= Projected(t) - goal[t].quantity
        <5>1. Open("SELL", t)' = Open("SELL", t) + batch[t]
          BY <1>12, <3>1
        <5>2. batch[t] \in Nat /\ batch[t] <= Projected(t) - goal[t].quantity
          BY <1>12, <3>1 DEF Within
        <5> QED
          BY <2>3, <5>1, <5>2
      <4> QED
        BY <2>6, <2>8, <4>1
    <3>2. CASE ~(stage = "SELL" /\ t \in good)
      <4>1. Open("SELL", t)' = Open("SELL", t) + 0
        BY <1>12, <3>2
      <4> QED
        BY <2>3, <4>1
    <3> QED
      BY <3>1, <3>2
  <2>12. p + Open("BUY", t)' <= Greatest(o, g) /\ p - Open("SELL", t)' >= Least(o, g)
    BY <2>9, <2>10, <2>11 DEF Greatest, Least
  <2> QED
    BY <2>4, <2>5, <2>8, <2>12
<1> QED
  BY <1>3, <1>8, <1>12, <1>13, <1>14, <1>15, <1>16 DEF PlanInv
-----------------------------------------------------------------------------
(* The theorems. *)

LEMMA PlanStart == PlanInit => PlanInv
<1>1. SUFFICES ASSUME PlanInit PROVE PlanInv
  OBVIOUS
<1>2. PICK a \in Accounts : funds = a.cash /\ position = a.held /\ sellable = a.held /\ opening = a.held
  BY <1>1 DEF PlanInit
<1>3. a.cash \in Nat /\ a.held \in [Etfs -> Nat] /\ MaxDays \in Nat \ {0}
  BY AccountAssumption
<1>4. intents = {} /\ frozen = {} /\ day = 1 /\ settled = 0 /\ stage = "SELL" /\ cached = <<>>
      /\ session \in Sessions /\ target \in Targets /\ paused = FALSE
  BY <1>1 DEF PlanInit
<1>5. IntentInv
  BY <1>4, FS_EmptySet DEF IntentInv
<1>6. (\A side, s : Open(side, s) = 0) /\ \A d : Notional(d) = 0
  <2>1. (\A side, s : Total(OpenOf(side, s), intents) = 0) /\ \A d : Total(ValueOf(d), intents) = 0
    BY <1>4, TotalEmpty
  <2> QED
    BY <1>5, <2>1, SumsNow
<1>7. ~IsFrozen
  BY <1>4 DEF IsFrozen
<1>8. PlaceInv
  <2>1. DOMAIN cached \subseteq Etfs /\ \A s \in DOMAIN cached : cached[s] \in Details
    <3>1. cached = <<>>
      BY <1>4
    <3> QED
      BY <3>1
  <2>2. /\ day \in 1 .. MaxDays /\ settled \in 0 .. day /\ stage \in {"SELL", "BUY", "CLOSED"}
        /\ session \in Sessions /\ target \in Targets
    BY <1>3, <1>4
  <2>3. paused \in BOOLEAN
    BY <1>4
  <2> QED
    BY <1>7, <2>1, <2>2, <2>3 DEF PlaceInv
<1>9. HoldingInv
  BY <1>2, <1>3, <1>6 DEF HoldingInv
<1>10. TurnInv
  BY <1>4 DEF TurnInv, Today
<1>11. NeverPastTarget
  BY <1>7 DEF NeverPastTarget
<1>12. WithinDailyNotional
  BY <1>6, ConfigAssumption DEF WithinDailyNotional
<1> QED
  BY <1>5, <1>8, <1>9, <1>10, <1>11, <1>12 DEF PlanInv

\* A step adds orders only as a plan that is paid for.
LEMMA PlanStep ==
  ASSUME PlanInv, [PlanNext]_planVars
  PROVE  PlanInv' /\ (Cardinality(intents') > Cardinality(intents) => ReservedCash' <= funds')
<1>1. Cardinality(intents) \in Nat
  BY FS_CardinalityType DEF PlanInv, IntentInv
<1>2. ASSUME NEW ticks \in session.ticks, NEW late \in BOOLEAN, ExecuteSide(ticks, late)
      PROVE  PlanInv' /\ (Cardinality(intents') > Cardinality(intents) => ReservedCash' <= funds')
  BY <1>2, ExecuteStep
<1>3. CASE (\E ticks \in session.ticks : QuotesMissing(ticks)) \/ LoseCache \/ StartBuying \/ UNCHANGED planVars
  <2>1. intents' = intents
    BY <1>3 DEF QuotesMissing, LoseCache, StartBuying, planVars
  <2>2. PlanInv'
    BY <1>3, QuietPlanStep
  <2> QED
    BY <1>1, <2>1, <2>2
<1>4. CASE (\E i \in intents : Submit(i) \/ Close(i)) \/ ResumeLate \/ EndDay
  <2>1. PlanInv' /\ \E f : Replaced(f)
    BY <1>4, OrderStep
  <2>2. Cardinality(intents') <= Cardinality(intents) /\ Cardinality(intents') \in Nat
    BY <2>1, ReplacedIntents DEF PlanInv
  <2> QED
    BY <1>1, <2>1, <2>2
<1>5. ASSUME NEW i \in intents, NEW q, Fill(i, q)
      PROVE  PlanInv' /\ (Cardinality(intents') > Cardinality(intents) => ReservedCash' <= funds')
  <2>1. PlanInv' /\ \E f : Replaced(f)
    BY <1>5, FillStep
  <2>2. Cardinality(intents') <= Cardinality(intents) /\ Cardinality(intents') \in Nat
    BY <2>1, ReplacedIntents DEF PlanInv
  <2> QED
    BY <1>1, <2>1, <2>2
<1>6. CASE NextDay
  <2>1. intents' = intents
    BY <1>6 DEF NextDay
  <2>2. PlanInv'
    BY <1>6, NextDayStep
  <2> QED
    BY <1>1, <2>1, <2>2
<1> QED
  BY <1>2, <1>3, <1>4, <1>5, <1>6 DEF PlanNext

LEMMA PlanInvHolds == PlanSpec => []PlanInv
<1>1. PlanInv /\ [PlanNext]_planVars => PlanInv'
  BY PlanStep
<1> QED
  BY <1>1, PlanStart, PTL DEF PlanSpec

\* The plans of every day and phase: the ledger stays in its bounds, no position
\* passes its frozen quantity, the daily limit holds, and every price is one the
\* market takes (planner.py:167-249, risk.py:67, near_close_limit.py:29).
THEOREM PlansSafe == PlanSpec => []PlansInv
<1>1. PlanInv => PlansInv
  <2>1. SUFFICES ASSUME PlanInv PROVE PlansInv
    OBVIOUS
  <2>2. PlaceInv /\ HoldingInv /\ IntentInv /\ NeverPastTarget /\ WithinDailyNotional
    BY <2>1 DEF PlanInv
  <2>3. \A i \in intents : i.status \in IntentStatuses /\ i.filled \in 0 .. i.quantity /\ i.limit > 0
    <3> TAKE i \in intents
    <3>1. i \in Intents /\ i.filled <= i.quantity
      BY <2>2 DEF IntentInv
    <3>2. i.status \in IntentStatuses /\ i.filled \in Nat /\ i.quantity \in Nat /\ i.limit \in Nat \ {0}
      BY <3>1 DEF Intents
    <3> QED
      BY <3>1, <3>2
  <2>4. \A s \in Etfs : sellable[s] \in 0 .. position[s]
    BY <2>2 DEF HoldingInv
  <2>5. PlanTypes
    BY <2>2, <2>3, <2>4 DEF PlanTypes, PlaceInv, HoldingInv
  <2>6. PricedToTrade
    BY <2>2 DEF PricedToTrade, IntentInv
  <2> QED
    BY <2>2, <2>5, <2>6 DEF PlansInv
<1> QED
  BY <1>1, PlanInvHolds, PTL

\* The buys a plan adds are paid for, fees included (planner.py:244, jobs.py:620).
THEOREM PlansPaid == PlanSpec => PlansArePaidFor
<1>1. PlanInv /\ [PlanNext]_planVars =>
        [Cardinality(intents') > Cardinality(intents) => ReservedCash' <= funds']_planVars
  BY PlanStep
<1> QED
  BY <1>1, PlanInvHolds, PTL DEF PlanSpec, PlansArePaidFor
=============================================================================
