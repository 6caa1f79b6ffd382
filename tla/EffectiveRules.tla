--------------------------- MODULE EffectiveRules ---------------------------
(***************************************************************************)
(* The price limit rule of every ETF on every day: load_effective_rule_      *)
(* resolver joins the listing data of the securities with a frozen resource   *)
(* of exceptions, period by period, and the resolver answers for a day.      *)
(*                                                                         *)
(* Dates are numbers.  A period without an end ends on NoEnd, after every     *)
(* date.  The rows of the resource are grouped by security.                  *)
(***************************************************************************)
EXTENDS Integers, Sequences

CONSTANTS
  Securities,  \* the securities of the program, numbered in sorted order
  Categories,  \* what the master data may say: [Securities -> "stock", "gold" or "other"]
  LastDate,    \* dates are 1 .. LastDate
  Lifetimes,   \* what listing and delisting dates may be
  Resources    \* what the CSV may hold: [Securities -> sequence of rows]

NoEnd == LastDate + 1
Dates == 1 .. LastDate
Period == [from : Dates, to : Dates \cup {NoEnd}]

ASSUME SymbolAssumption == Securities \subseteq Nat /\ Categories \subseteq [Securities -> {"stock", "gold", "other"}]
ASSUME DateAssumption == LastDate \in Nat \ {0} /\ Lifetimes \subseteq {p \in Period : p.from <= p.to}
\* A period that ends is followed by a date: the code adds a day to its end.
ASSUME ResourceAssumption == Resources \subseteq [Securities -> Seq({p \in Period : p.to # LastDate})]

VARIABLES
  kind,      \* the category of each EtfInfo
  life,      \* EtfInfo.list_date and delist_date
  rows,      \* the rows of the CSV: periods with a 20% limit
  intact,    \* digest, columns and counts agree with the manifest
  status,    \* "loading", "building", "ready", or what went wrong
  todo,      \* securities whose periods are not built
  current,   \* the stock ETF being built, in a set, or {}
  k,         \* the exception it is at
  cursor,    \* the first date that no period of it covers yet
  periods,   \* EtfRulePeriod
  answer     \* the last resolution, in a set, or {}

rulesVars == <<kind, life, rows, intact, status, todo, current, k, cursor, periods, answer>>

RulesInit ==
  /\ kind \in Categories /\ life \in [Securities -> Lifetimes] /\ rows \in Resources /\ intact \in BOOLEAN
  /\ status = "loading" /\ todo = Securities /\ current = {} /\ k = 1 /\ cursor = 1
  /\ periods = {} /\ answer = {}
-----------------------------------------------------------------------------
(* Loading: _load_rule_resource and _read_csv_periods. *)

\* The rows of a security are periods, sorted, and do not meet; an open one is
\* the last.
WellFormed(seq) ==
  /\ \A i \in 1 .. Len(seq) : seq[i].from <= seq[i].to
  /\ \A i \in 1 .. Len(seq) - 1 : seq[i].to < seq[i + 1].from

Load ==
  /\ status = "loading"
  /\ status' = IF intact /\ \A s \in Securities : WellFormed(rows[s]) THEN "building" ELSE "resource refused"
  /\ UNCHANGED <<kind, life, rows, intact, todo, current, k, cursor, periods, answer>>
-----------------------------------------------------------------------------
(* Building: one security after the other, in sorted order. *)

Earlier(a, b) == IF a <= b THEN a ELSE b
Later(a, b)   == IF a >= b THEN a ELSE b

Rule(s, from, to, ratio) ==
  [symbol |-> s, from |-> from, to |-> to, ratio |-> ratio,
   turnover |-> IF kind[s] = "gold" THEN "T0" ELSE "T1"]

NextSymbol(s) == s \in todo /\ \A t \in todo : s <= t

\* A gold ETF has one rule for life, and no row in the resource.
BuildGold(s) ==
  /\ status = "building" /\ current = {} /\ NextSymbol(s) /\ kind[s] = "gold"
  /\ IF rows[s] # <<>>
     THEN status' = "gold in resource" /\ UNCHANGED <<periods, todo>>
     ELSE /\ periods' = periods \cup {Rule(s, life[s].from, life[s].to, 10)}
          /\ todo' = todo \ {s} /\ UNCHANGED status
  /\ UNCHANGED <<kind, life, rows, intact, current, k, cursor, answer>>

RefuseOther(s) ==
  /\ status = "building" /\ current = {} /\ NextSymbol(s) /\ kind[s] = "other"
  /\ status' = "unsupported category"
  /\ UNCHANGED <<kind, life, rows, intact, todo, current, k, cursor, periods, answer>>

\* _stock_periods: walk the exceptions, filling the dates between with 10%.
StartStock(s) ==
  /\ status = "building" /\ current = {} /\ NextSymbol(s) /\ kind[s] = "stock"
  /\ current' = {s} /\ k' = 1 /\ cursor' = life[s].from
  /\ UNCHANGED <<kind, life, rows, intact, status, todo, periods, answer>>

ExceptionStart(s) == Later(life[s].from, rows[s][k].from)
ExceptionEnd_Uncut(s) == rows[s][k].to                                   \* variant
ExceptionEnd(s)   == Earlier(rows[s][k].to, life[s].to)

\* An exception before or after the life of the security is passed over.
Outside(s) == ExceptionStart(s) > life[s].to \/ ExceptionEnd(s) < life[s].from

Done(s) == current' = {} /\ todo' = todo \ {s}

PassOver(s) ==
  /\ status = "building" /\ s \in current /\ k <= Len(rows[s]) /\ Outside(s)
  /\ k' = k + 1
  /\ UNCHANGED <<kind, life, rows, intact, status, todo, current, cursor, periods, answer>>

NextCursor(s) == ExceptionEnd(s) + 1

\* The dates between two exceptions, if there are any.
Gap(s) == IF ExceptionStart(s) > cursor THEN {Rule(s, cursor, ExceptionStart(s) - 1, 10)} ELSE {}

AddException(s) ==
  /\ status = "building" /\ s \in current /\ k <= Len(rows[s]) /\ ~Outside(s)
  /\ periods' = periods \cup {Rule(s, ExceptionStart(s), ExceptionEnd(s), 20)} \cup Gap(s)
  /\ IF ExceptionEnd(s) = NoEnd \/ ExceptionEnd(s) = life[s].to
     THEN Done(s) /\ UNCHANGED <<k, cursor>>
     ELSE k' = k + 1 /\ cursor' = NextCursor(s) /\ UNCHANGED <<current, todo>>
  /\ UNCHANGED <<kind, life, rows, intact, status, answer>>

\* After the last exception the limit is 10% again.
FinishStock(s) ==
  /\ status = "building" /\ s \in current /\ k > Len(rows[s])
  /\ periods' = IF cursor <= life[s].to THEN periods \cup {Rule(s, cursor, life[s].to, 10)} ELSE periods
  /\ Done(s)
  /\ UNCHANGED <<kind, life, rows, intact, status, k, cursor, answer>>
-----------------------------------------------------------------------------
(* The resolver. *)

PeriodsOf(s) == {p \in periods : p.symbol = s}
Covers(p, d) == p.from <= d /\ d <= p.to
Overlap(p, q) == p # q /\ p.from <= q.to /\ q.from <= p.to

\* EffectiveDatedEtfRuleResolver refuses periods of a security that overlap.
MakeResolver ==
  /\ status = "building" /\ todo = {}
  /\ status' = IF periods = {} \/ \E s \in Securities : \E p, q \in PeriodsOf(s) : Overlap(p, q)
               THEN "overlapping periods" ELSE "ready"
  /\ UNCHANGED <<kind, life, rows, intact, todo, current, k, cursor, periods, answer>>

\* resolve_with_provenance: exactly one period, or an error.
Matches(s, d) == {p \in PeriodsOf(s) : Covers(p, d)}
Resolve(s, d) ==
  /\ status = "ready"
  /\ answer' = {[symbol |-> s, day |-> d,
                 rules |-> {p \in Matches(s, d) : \A q \in Matches(s, d) : q = p}]}
  /\ UNCHANGED <<kind, life, rows, intact, status, todo, current, k, cursor, periods>>

RulesNext ==
  \/ Load \/ MakeResolver
  \/ \E s \in Securities : \/ BuildGold(s) \/ RefuseOther(s) \/ StartStock(s)
                           \/ PassOver(s) \/ AddException(s) \/ FinishStock(s)
  \/ \E s \in Securities, d \in Dates : Resolve(s, d)

RulesSpec == RulesInit /\ [][RulesNext]_rulesVars
-----------------------------------------------------------------------------
(* Properties. *)

Statuses == {"loading", "building", "ready", "resource refused", "gold in resource",
             "unsupported category", "overlapping periods"}

\* EtfRulePeriod refuses an end before the start.
RulePeriods ==
  {p \in [symbol : Securities, from : Dates, to : Dates \cup {NoEnd}, ratio : {10, 20}, turnover : {"T0", "T1"}] :
     p.from <= p.to}

RulesTypes ==
  /\ kind \in Categories /\ life \in [Securities -> Lifetimes] /\ rows \in Resources /\ intact \in BOOLEAN
  /\ status \in Statuses /\ todo \subseteq Securities /\ current \subseteq todo
  /\ k \in Nat \ {0} /\ cursor \in Dates \cup {NoEnd}
  /\ periods \subseteq RulePeriods

Excepted(s, d) == \E i \in 1 .. Len(rows[s]) : Covers(rows[s][i], d)

\* The rule a date has: 20% on the dates of an exception, 10% on the others.
RightRule(s, d, p) == p.ratio = IF kind[s] = "stock" /\ Excepted(s, d) THEN 20 ELSE 10

\* While the periods of a stock ETF are built they cover the dates before the
\* cursor, each once and with the right rule, and nothing else: exceptions that
\* begin before the listing, end after the delisting, or follow one another
\* without a day between leave neither gap nor overlap
\* (effective_rules.py:561-644).
PrefixBuilt ==
  \A s \in current :
    /\ \A p \in PeriodsOf(s) : life[s].from <= p.from /\ p.from <= p.to /\ p.to < cursor
    /\ \A d \in Dates : life[s].from <= d /\ d < cursor =>
         \E p \in Matches(s, d) : RightRule(s, d, p) /\ \A q \in Matches(s, d) : q = p

\* Once built, every date of the life of a security has exactly one rule, the
\* right one, and no date outside of it has any (effective_rules.py:647-660).
TimelineIsComplete ==
  status \in {"building", "ready"} =>
    \A s \in Securities \ todo : \A d \in Dates :
      IF Covers(life[s], d)
      THEN \E p \in Matches(s, d) : RightRule(s, d, p) /\ \A q \in Matches(s, d) : q = p
      ELSE Matches(s, d) = {}

\* A resource that was accepted never makes periods the resolver refuses, so
\* its error cannot stop a run that got this far (effective_rules.py:225-231).
ResolverAccepts == Securities # {} => status # "overlapping periods"

\* A date outside the life of a security has no rule and a date inside one has
\* an answer: the resolver fails closed, and only there (effective_rules.py:254).
AnswersAreForLivingSecurities ==
  \A a \in answer : a.rules # {} <=> Covers(life[a.symbol], a.day)

\* The timeline of rules: built without gap or overlap from any exceptions the
\* loader accepts, complete when it is frozen, and answering for the dates of a
\* life and no others.
RulesInv ==
  /\ RulesTypes /\ PrefixBuilt /\ TimelineIsComplete /\ ResolverAccepts
  /\ AnswersAreForLivingSecurities
=============================================================================
