------------------------- MODULE MarketDataProofs --------------------------
(***************************************************************************)
(* Theorems about what the backtest and the daily jobs know of the market.  *)
(*                                                                          *)
(* EffectiveRules, for any securities, lives and resources: the rules that  *)
(* are built cover every date of a life once, with the right price limit,   *)
(* and the resolver accepts them.                                           *)
(*                                                                          *)
(* DailyData, for any calendar, master, tables and ranges: what a strategy  *)
(* is shown for a date is a function of the tables up to that date, whoever *)
(* asks for it and whenever, and nothing in it is of a later date.          *)
(*                                                                          *)
(* FundamentalData, for any file of holders' ratios that is not replaced in  *)
(* the middle of a load: a selection is a function of the frozen file, the   *)
(* tables and the date, and the context accepts it.                         *)
(***************************************************************************)
EXTENDS EffectiveRules, DailyData, FundamentalData, SequenceTheorems, Sums
-----------------------------------------------------------------------------
(* Rows in order.                                                          *)

Sorted(seq) ==
  /\ \A i \in 1 .. Len(seq) : seq[i].from <= seq[i].to
  /\ \A i, j \in 1 .. Len(seq) : i < j => seq[i].to < seq[j].from

\* The loader compares each row with the one before; that orders them all.
LEMMA RowsInOrder ==
  ASSUME NEW seq \in Seq(Period), WellFormed(seq), LastDate \in Nat
  PROVE  Sorted(seq)
<1>1. \A i \in 1 .. Len(seq) : seq[i].from \in Int /\ seq[i].to \in Int
  <2>1. \A i \in 1 .. Len(seq) : seq[i] \in Period
    BY ElementOfSeq
  <2>2. \A p \in Period : p.from \in Int /\ p.to \in Int
    BY DEF Period, Dates, NoEnd
  <2> QED
    BY <2>1, <2>2
<1>2. Len(seq) \in Nat
  BY LenProperties
<1>3. ASSUME NEW i \in 1 .. Len(seq), NEW j \in 1 .. Len(seq), i < j, ~(seq[i].to < seq[j].from)
      PROVE  FALSE
  <2> DEFINE Wrong == {n \in Nat : i < n /\ n <= Len(seq) /\ ~(seq[i].to < seq[n].from)}
  <2>1. j \in Wrong
    BY <1>2, <1>3
  <2>2. PICK n \in Wrong : \A m \in Wrong : n <= m
    BY <2>1, LeastNumber
  <2> DEFINE m == n - 1
  <2>3. /\ n \in Nat /\ i < n /\ n <= Len(seq) /\ ~(seq[i].to < seq[n].from)
        /\ m \in 1 .. Len(seq) - 1 /\ m + 1 = n /\ m \notin Wrong
    BY <1>2, <2>2
  <2>4. seq[m].from <= seq[m].to /\ seq[m].to < seq[n].from
    BY <2>3, <1>2 DEF WellFormed
  <2>5. m = i \/ seq[i].to < seq[m].from
    BY <2>3, <1>2
  <2>6. /\ seq[i].to \in Int /\ seq[n].from \in Int
        /\ seq[m].from \in Int /\ seq[m].to \in Int
    BY <1>1, <1>2, <2>3
  <2> HIDE DEF m, Wrong
  <2> QED
    BY <2>3, <2>4, <2>5, <2>6
<1> QED
  BY <1>3 DEF Sorted, WellFormed
-----------------------------------------------------------------------------
(* The invariant.                                                          *)

\* A date has one rule, the right one.
Exactly(s, d) ==
  \E p \in Matches(s, d) : RightRule(s, d, p) /\ \A q \in Matches(s, d) : q = p

\* Rules are built for one security at a time, and only for what is done.
StageInv ==
  /\ status \notin {"loading", "resource refused"} => \A s \in Securities : Sorted(rows[s])
  /\ current # {} => status = "building"
  /\ \A s, t \in current : s = t
  /\ status = "ready" => todo = {}
  /\ \A p \in periods : p.symbol \notin todo \ current

\* A rule stays within the life of its security.
LivesInv ==
  \A p \in periods : life[p.symbol].from <= p.from /\ p.to <= life[p.symbol].to

\* The walk over the exceptions of a security: those behind the walk end before
\* the cursor, or begin after the life; those ahead begin at the cursor or later.
WalkInv ==
  \A s \in current :
    /\ kind[s] = "stock" /\ k \in 1 .. Len(rows[s]) + 1
    /\ life[s].from <= cursor /\ cursor <= life[s].to /\ cursor \in Dates
    /\ \A i \in 1 .. Len(rows[s]) :
         IF i < k THEN rows[s][i].to < cursor \/ rows[s][i].from > life[s].to
                  ELSE rows[s][i].from >= cursor \/ cursor = life[s].from
    /\ \A p \in PeriodsOf(s) : p.to < cursor
    /\ \A d \in Dates : life[s].from <= d /\ d < cursor => Exactly(s, d)

\* What is built is built for every date of the life.
BuiltInv ==
  \A s \in Securities \ todo : \A d \in Dates : Covers(life[s], d) => Exactly(s, d)

TimelineInv ==
  /\ RulesTypes /\ StageInv /\ LivesInv /\ WalkInv /\ BuiltInv
  /\ ResolverAccepts /\ AnswersAreForLivingSecurities
-----------------------------------------------------------------------------
(* Lemmas. *)

\* What the types say of the dates of a security.
LEMMA LifeFacts ==
  ASSUME RulesTypes, NEW s \in Securities
  PROVE  /\ LastDate \in Nat /\ NoEnd = LastDate + 1
         /\ life[s].from \in Dates /\ life[s].to \in Dates \cup {NoEnd}
         /\ life[s].from <= life[s].to
         /\ rows[s] \in Seq(Period) /\ Len(rows[s]) \in Nat
         /\ \A i \in 1 .. Len(rows[s]) : /\ rows[s][i].from \in Dates
                                         /\ rows[s][i].to \in Dates \cup {NoEnd}
                                         /\ rows[s][i].to # LastDate
<1>1. LastDate \in Nat /\ NoEnd = LastDate + 1
  BY DateAssumption DEF NoEnd
<1>2. life[s] \in Period /\ life[s].from <= life[s].to
  BY DateAssumption DEF RulesTypes
<1> DEFINE Ending == {p \in Period : p.to # LastDate}
<1>3. rows[s] \in Seq(Ending)
  BY ResourceAssumption DEF RulesTypes
<1>4. rows[s] \in Seq(Period) /\ Len(rows[s]) \in Nat
  <2>1. Ending \subseteq Period
    OBVIOUS
  <2> HIDE DEF Ending
  <2> QED
    BY <1>3, <2>1, SeqMonotonic, LenProperties
<1>5. \A i \in 1 .. Len(rows[s]) : rows[s][i] \in Ending
  <2> HIDE DEF Ending
  <2> QED
    BY <1>3, ElementOfSeq
<1>6. \A p \in Period : p.from \in Dates /\ p.to \in Dates \cup {NoEnd}
  BY DEF Period
<1> QED
  BY <1>1, <1>2, <1>4, <1>5, <1>6

\* Rules of other securities or other dates change nothing for a date.
LEMMA MatchesKept ==
  ASSUME NEW s, NEW d, kind' = kind, rows' = rows, periods \subseteq periods',
         \A p \in periods' \ periods : p.symbol = s => ~Covers(p, d)
  PROVE  Matches(s, d)' = Matches(s, d) /\ (Exactly(s, d) => Exactly(s, d)')
<1>1. Matches(s, d)' = Matches(s, d)
  BY DEF Matches, PeriodsOf
<1> QED
  BY <1>1 DEF Exactly, RightRule, Excepted, Covers

\* A rule that is the only one for a date.
LEMMA OnlyMatch ==
  ASSUME NEW s, NEW d, NEW x \in periods', x.symbol = s, Covers(x, d), RightRule(s, d, x)',
         \A p \in periods' : p.symbol = s /\ Covers(p, d) => p = x
  PROVE  Exactly(s, d)'
<1>1. x \in Matches(s, d)' /\ \A q \in Matches(s, d)' : q = x
  BY DEF Matches, PeriodsOf
<1> QED
  BY <1>1 DEF Exactly

\* The fields of a rule.
LEMMA RuleFields ==
  ASSUME NEW s \in Securities, NEW from, NEW to, NEW ratio
  PROVE  /\ Rule(s, from, to, ratio).symbol = s /\ Rule(s, from, to, ratio).from = from
         /\ Rule(s, from, to, ratio).to = to /\ Rule(s, from, to, ratio).ratio = ratio
         /\ (from \in Dates /\ to \in Dates \cup {NoEnd} /\ from <= to /\ ratio \in {10, 20})
              => Rule(s, from, to, ratio) \in RulePeriods
BY DEF Rule, RulePeriods

\* Every step, one action at a time.
LEMMA SameRules ==
  ASSUME UNCHANGED <<kind, rows, periods>>
  PROVE  /\ \A t, d : Exactly(t, d)' <=> Exactly(t, d)
         /\ \A t : PeriodsOf(t)' = PeriodsOf(t)
BY DEF PeriodsOf, Exactly, Matches, RightRule, Excepted, Covers

\* Reading the resource leaves nothing built; what it accepts is in order.
LEMMA LoadStep == TimelineInv /\ Load => TimelineInv'
<1> SUFFICES ASSUME TimelineInv, Load PROVE TimelineInv'
  OBVIOUS
<1> USE DEF TimelineInv
<1>1. status' \notin {"loading", "resource refused"} => \A s \in Securities : Sorted(rows'[s])
  <2>1. \A s \in Securities : WellFormed(rows[s]) => Sorted(rows[s])
    BY LifeFacts, RowsInOrder
  <2> QED
    BY <2>1 DEF Load
<1>2. RulesTypes' /\ StageInv'
  BY <1>1 DEF Load, StageInv, RulesTypes, Statuses
<1>3. LivesInv' /\ WalkInv' /\ BuiltInv'
  <2>1. UNCHANGED <<kind, life, rows, todo, current, k, cursor, periods>>
    BY DEF Load
  <2>2. /\ \A t, d : Exactly(t, d)' <=> Exactly(t, d)
        /\ \A t : PeriodsOf(t)' = PeriodsOf(t)
    BY <2>1, SameRules
  <2> QED
    BY <2>1, <2>2 DEF LivesInv, WalkInv, BuiltInv, Covers
<1>4. ResolverAccepts' /\ AnswersAreForLivingSecurities'
  BY DEF Load, ResolverAccepts, AnswersAreForLivingSecurities, Covers
<1> QED
  BY <1>2, <1>3, <1>4

\* Nothing is built by these.
LEMMA WaitStep ==
  ASSUME TimelineInv, NEW s \in Securities, RefuseOther(s) \/ StartStock(s) \/ PassOver(s)
  PROVE  TimelineInv'
<1> USE DEF TimelineInv
<1>0. UNCHANGED <<kind, life, rows, intact, todo, periods, answer>> /\ status = "building"
  BY DEF RefuseOther, StartStock, PassOver
<1>1. /\ \A t, d : Exactly(t, d)' <=> Exactly(t, d)
      /\ \A t : PeriodsOf(t)' = PeriodsOf(t)
  BY <1>0, SameRules
<1>2. RulesTypes'
  <2>1. k' \in Nat \ {0} /\ cursor' \in Dates \cup {NoEnd}
    <3>1. k' \in {k, 1, k + 1} /\ cursor' \in {cursor, life[s].from}
      BY DEF RefuseOther, StartStock, PassOver
    <3>2. k \in Nat \ {0} /\ cursor \in Dates \cup {NoEnd} /\ life[s].from \in Dates
      BY LifeFacts DEF RulesTypes
    <3> QED
      BY <3>1, <3>2
  <2>2. status' \in Statuses /\ current' \subseteq todo
    BY <1>0 DEF RefuseOther, StartStock, PassOver, RulesTypes, Statuses, NextSymbol
  <2> QED
    BY <1>0, <2>1, <2>2 DEF RulesTypes
<1>3. StageInv'
  BY <1>0 DEF RefuseOther, StartStock, PassOver, StageInv
<1>4. LivesInv' /\ BuiltInv'
  BY <1>0, <1>1 DEF LivesInv, BuiltInv, Covers
<1>5. WalkInv'
  <2>1. CASE RefuseOther(s)
    BY <1>0, <1>1, <2>1 DEF RefuseOther, WalkInv
  <2>2. CASE StartStock(s)
    <3>1. PeriodsOf(s) = {}
      BY <2>2 DEF StartStock, StageInv, PeriodsOf, NextSymbol
    <3>2. /\ current' = {s} /\ k' = 1 /\ cursor' = life[s].from /\ kind[s] = "stock"
          /\ life[s].from <= life[s].to /\ Len(rows[s]) \in Nat
          /\ life[s].from \in Dates /\ LastDate \in Nat
      BY <2>2, LifeFacts DEF StartStock
    <3>3. \A d \in Dates : ~(life[s].from <= d /\ d < life[s].from)
      BY <3>2 DEF Dates
    <3>4. life[s].from <= life[s].from
      BY <3>2 DEF Dates
    <3> QED
      BY <1>0, <1>1, <3>1, <3>2, <3>3, <3>4 DEF WalkInv
  <2>3. CASE PassOver(s)
    <3>1. /\ current = {s} /\ current' = {s} /\ k' = k + 1 /\ k <= Len(rows[s]) /\ cursor' = cursor
          /\ Outside(s) /\ k \in 1 .. Len(rows[s]) + 1
      BY <2>3 DEF PassOver, StageInv, WalkInv
    <3>2. Sorted(rows[s])
      BY <1>0 DEF StageInv
    <3>3. rows[s][k].to < cursor \/ rows[s][k].from > life[s].to
      <4>1. /\ life[s].from \in Int /\ life[s].to \in Int /\ cursor \in Int
            /\ rows[s][k].from \in Int /\ rows[s][k].to \in Int
            /\ life[s].from <= life[s].to /\ life[s].from <= cursor
        BY <3>1, LifeFacts DEF WalkInv, Dates
      <4> QED
        BY <3>1, <4>1 DEF Outside, ExceptionStart, ExceptionEnd, Later, Earlier
    <3>4. \A i \in 1 .. Len(rows[s]) :
             IF i < k + 1 THEN rows[s][i].to < cursor \/ rows[s][i].from > life[s].to
                          ELSE rows[s][i].from >= cursor \/ cursor = life[s].from
      BY <3>1, <3>3, LifeFacts DEF WalkInv
    <3>5. k + 1 \in 1 .. Len(rows[s]) + 1
      BY <3>1, LifeFacts
    <3> QED
      BY <1>0, <1>1, <3>1, <3>4, <3>5 DEF WalkInv
  <2> QED
    BY <2>1, <2>2, <2>3
<1>6. ResolverAccepts' /\ AnswersAreForLivingSecurities'
  BY <1>0 DEF RefuseOther, StartStock, PassOver, ResolverAccepts, AnswersAreForLivingSecurities, Covers
<1> QED
  BY <1>2, <1>3, <1>4, <1>5, <1>6

\* A gold ETF gets one period, its whole life, when it has one.
LEMMA GoldStep ==
  ASSUME TimelineInv, NEW s \in Securities, BuildGold(s)
  PROVE  TimelineInv'
<1> USE DEF TimelineInv
<1>0. /\ UNCHANGED <<kind, life, rows, intact, current, k, cursor, answer>>
      /\ status = "building" /\ current = {} /\ s \in todo /\ kind[s] = "gold"
  BY DEF BuildGold, NextSymbol
<1>1. CASE rows[s] # <<>>
  <2>1. status' = "gold in resource" /\ UNCHANGED <<periods, todo>>
    BY <1>1 DEF BuildGold
  <2>2. \A t, d : Exactly(t, d)' <=> Exactly(t, d)
    BY <1>0, <2>1, SameRules
  <2>3. RulesTypes' /\ StageInv' /\ LivesInv' /\ WalkInv'
    BY <1>0, <2>1 DEF RulesTypes, Statuses, StageInv, LivesInv, WalkInv
  <2>4. BuiltInv' /\ ResolverAccepts' /\ AnswersAreForLivingSecurities'
    BY <1>0, <2>1, <2>2 DEF BuiltInv, ResolverAccepts, AnswersAreForLivingSecurities, Covers
  <2> QED
    BY <2>3, <2>4
<1>2. CASE rows[s] = <<>>
  <2>0. PICK x : x = Rule(s, life[s].from, life[s].to, 10)
    OBVIOUS
  <2>1. periods' = periods \cup {x} /\ todo' = todo \ {s} /\ UNCHANGED status
    BY <1>2, <2>0 DEF BuildGold
  <2>2. /\ x.symbol = s /\ x.from = life[s].from /\ x.to = life[s].to /\ x.ratio = 10
        /\ x \in RulePeriods
    BY <2>0, LifeFacts, RuleFields
  <2>3. PeriodsOf(s) = {}
    BY <1>0 DEF StageInv, PeriodsOf
  <2>4. \A d \in Dates : Covers(life[s], d) => Exactly(s, d)'
    <3>1. ASSUME NEW d \in Dates, Covers(life[s], d) PROVE Exactly(s, d)'
      <4>1. Covers(x, d) /\ RightRule(s, d, x)'
        BY <1>0, <2>2, <3>1 DEF Covers, RightRule
      <4>2. \A p \in periods' : p.symbol = s /\ Covers(p, d) => p = x
        BY <2>1, <2>3 DEF PeriodsOf
      <4> QED
        BY <2>1, <2>2, <4>1, <4>2, OnlyMatch
    <3> QED
      BY <3>1
  <2>5. \A t \in Securities, d \in Dates : t # s /\ Exactly(t, d) => Exactly(t, d)'
    <3>1. ASSUME NEW t \in Securities, NEW d \in Dates, t # s, Exactly(t, d)
          PROVE  Exactly(t, d)'
      <4>1. \A p \in periods' \ periods : p.symbol = t => ~Covers(p, d)
        BY <2>1, <2>2, <3>1
      <4> QED
        BY <1>0, <2>1, <3>1, <4>1, MatchesKept
    <3> QED
      BY <3>1
  <2>6. RulesTypes' /\ StageInv'
    BY <1>0, <2>1, <2>2 DEF RulesTypes, StageInv
  <2>7. LivesInv' /\ WalkInv'
    <3>1. x.from >= life[s].from /\ x.to <= life[s].to
      BY <2>2, LifeFacts DEF Dates
    <3> QED
      BY <1>0, <2>1, <2>2, <3>1 DEF LivesInv, WalkInv
  <2>8. BuiltInv' /\ ResolverAccepts' /\ AnswersAreForLivingSecurities'
    BY <1>0, <2>1, <2>4, <2>5 DEF BuiltInv, ResolverAccepts, AnswersAreForLivingSecurities, Covers
  <2> QED
    BY <2>6, <2>7, <2>8
<1> QED
  BY <1>1, <1>2

\* An exception extends the rules from the cursor to its end, the last one to
\* the end of the life: this is what is left of the two walks.
LEMMA Extends ==
  ASSUME TimelineInv, NEW s \in current, NEW end \in Dates \cup {NoEnd},
         cursor <= end + 1, end <= life[s].to, periods \subseteq periods',
         UNCHANGED <<kind, life, rows, intact, status, answer>>,
         \A p \in periods' \ periods : /\ p \in RulePeriods /\ p.symbol = s
                                       /\ cursor <= p.from /\ p.to <= end,
         \A d \in Dates : cursor <= d /\ d <= end => Exactly(s, d)'
  PROVE  /\ \A d \in Dates : life[s].from <= d /\ d <= end => Exactly(s, d)'
         /\ \A t \in Securities, d \in Dates : t # s /\ Exactly(t, d) => Exactly(t, d)'
         /\ LivesInv' /\ periods' \subseteq RulePeriods
         /\ \A p \in periods' : p.symbol \notin todo \ current
         /\ \A p \in PeriodsOf(s)' : p.to <= end
<1> USE DEF TimelineInv
<1>1. /\ s \in Securities /\ s \in todo /\ cursor \in Dates /\ LastDate \in Nat /\ NoEnd = LastDate + 1
      /\ life[s].from <= cursor /\ cursor <= life[s].to
      /\ life[s].from \in Int /\ life[s].to \in Int
  BY LifeFacts DEF RulesTypes, WalkInv, Dates
<1>2. periods \subseteq RulePeriods
  BY DEF RulesTypes
<1>3. \A p \in RulePeriods : p.from \in Dates /\ p.to \in Dates \cup {NoEnd}
  BY DEF RulePeriods
<1>4. ASSUME NEW d \in Dates, life[s].from <= d, d <= end PROVE Exactly(s, d)'
  <2>1. CASE d < cursor
    <3>1. Exactly(s, d)
      BY <1>4, <2>1 DEF WalkInv
    <3>2. \A p \in periods' \ periods : p.symbol = s => ~Covers(p, d)
      BY <1>1, <1>3, <2>1 DEF Covers, Dates
    <3> QED
      BY <3>1, <3>2, MatchesKept
  <2> QED
    BY <1>1, <1>4, <2>1 DEF Dates
<1>5. ASSUME NEW t \in Securities, NEW d \in Dates, t # s, Exactly(t, d) PROVE Exactly(t, d)'
  <2>1. \A p \in periods' \ periods : p.symbol = t => ~Covers(p, d)
    BY <1>5
  <2> QED
    BY <1>5, <2>1, MatchesKept
<1>6. LivesInv'
  <2>1. ASSUME NEW p \in periods' \ periods
        PROVE  life[p.symbol].from <= p.from /\ p.to <= life[p.symbol].to
    BY <1>1, <1>3, <2>1 DEF Dates
  <2> QED
    BY <2>1 DEF LivesInv
<1>7. periods' \subseteq RulePeriods /\ \A p \in periods' : p.symbol \notin todo \ current
  BY <1>2 DEF StageInv
<1>8. ASSUME NEW p \in periods', p.symbol = s PROVE p.to <= end
  <2>1. CASE p \in periods
    <3>1. p.to < cursor /\ p.to \in Int
      BY <1>1, <1>2, <1>3, <1>8, <2>1 DEF WalkInv, PeriodsOf, Dates
    <3> QED
      BY <1>1, <3>1 DEF Dates
  <2> QED
    BY <1>8, <2>1
<1> QED
  BY <1>4, <1>5, <1>6, <1>7, <1>8 DEF PeriodsOf

\* The last period of a stock ETF reaches from the cursor to its end: the
\* timeline is then complete.
LEMMA FinishStep ==
  ASSUME TimelineInv, NEW s \in Securities, FinishStock(s)
  PROVE  TimelineInv'
<1> USE DEF TimelineInv
<1>0. /\ UNCHANGED <<kind, life, rows, intact, status, k, cursor, answer>>
      /\ status = "building" /\ current = {s} /\ s \in todo /\ k > Len(rows[s])
      /\ current' = {} /\ todo' = todo \ {s}
  BY DEF FinishStock, Done, StageInv, RulesTypes
<1>1. /\ cursor \in Dates /\ LastDate \in Nat /\ NoEnd = LastDate + 1 /\ kind[s] = "stock"
      /\ life[s].from <= cursor /\ cursor <= life[s].to /\ life[s].from \in Int
      /\ life[s].to \in Dates \cup {NoEnd} /\ life[s].to \in Int /\ k \in Nat
      /\ Len(rows[s]) \in Nat
  BY <1>0, LifeFacts DEF WalkInv, Dates, RulesTypes
<1>2. PICK x : x = Rule(s, cursor, life[s].to, 10)
  OBVIOUS
<1>3. periods' = periods \cup {x}
  BY <1>1, <1>2 DEF FinishStock
<1>4. /\ x.symbol = s /\ x.from = cursor /\ x.to = life[s].to /\ x.ratio = 10
      /\ x \in RulePeriods
  BY <1>1, <1>2, RuleFields
<1>5. ASSUME NEW d \in Dates, cursor <= d, d <= life[s].to PROVE Exactly(s, d)'
  <2>1. ~Excepted(s, d)
    <3>1. ASSUME NEW i \in 1 .. Len(rows[s]), Covers(rows[s][i], d) PROVE FALSE
      <4>1. i < k
        BY <1>0, <1>1
      <4>2. rows[s][i].to < cursor \/ rows[s][i].from > life[s].to
        BY <1>0, <4>1 DEF WalkInv
      <4>3. rows[s][i].from \in Int /\ rows[s][i].to \in Int
        BY <1>1, LifeFacts DEF Dates
      <4> QED
        BY <1>1, <1>5, <3>1, <4>2, <4>3 DEF Covers, Dates
    <3> QED
      BY <3>1 DEF Excepted
  <2>2. RightRule(s, d, x)'
    BY <1>0, <1>4, <2>1 DEF RightRule, Excepted, Covers
  <2>3. \A p \in periods' : p.symbol = s /\ Covers(p, d) => p = x
    <3>1. ASSUME NEW p \in periods, p.symbol = s, Covers(p, d) PROVE FALSE
      <4>1. p.to < cursor /\ p.to \in Int
        BY <1>0, <1>1, <3>1 DEF WalkInv, PeriodsOf, RulesTypes, RulePeriods, Dates
      <4> QED
        BY <1>1, <1>5, <3>1, <4>1 DEF Covers, Dates
    <3> QED
      BY <1>3, <3>1
  <2>4. Covers(x, d)
    BY <1>4, <1>5 DEF Covers
  <2> QED
    BY <1>3, <1>4, <2>2, <2>3, <2>4, OnlyMatch
<1>6. cursor <= life[s].to + 1 /\ life[s].to <= life[s].to
  BY <1>1 DEF Dates
<1>7. /\ \A d \in Dates : life[s].from <= d /\ d <= life[s].to => Exactly(s, d)'
      /\ \A t \in Securities, d \in Dates : t # s /\ Exactly(t, d) => Exactly(t, d)'
      /\ LivesInv' /\ periods' \subseteq RulePeriods
      /\ \A p \in periods' : p.symbol \notin todo \ current
  <2>1. \A p \in periods' \ periods : /\ p \in RulePeriods /\ p.symbol = s
                                      /\ cursor <= p.from /\ p.to <= life[s].to
    BY <1>1, <1>3, <1>4, <1>6 DEF Dates
  <2> QED
    BY <1>0, <1>1, <1>3, <1>5, <1>6, <2>1, Extends
<1>8. RulesTypes' /\ StageInv'
  BY <1>0, <1>7 DEF RulesTypes, StageInv
<1>9. WalkInv' /\ BuiltInv'
  BY <1>0, <1>7 DEF WalkInv, BuiltInv, Covers
<1>10. ResolverAccepts' /\ AnswersAreForLivingSecurities'
  BY <1>0 DEF ResolverAccepts, AnswersAreForLivingSecurities, Covers
<1> QED
  BY <1>7, <1>8, <1>9, <1>10

\* The dates before the exception keep 10%, its own dates get 20%.
LEMMA ExceptionStep ==
  ASSUME TimelineInv, NEW s \in Securities, AddException(s)
  PROVE  TimelineInv'
<1> USE DEF TimelineInv
<1>0. /\ UNCHANGED <<kind, life, rows, intact, status, answer>>
      /\ status = "building" /\ current = {s} /\ s \in todo /\ k <= Len(rows[s])
  BY DEF AddException, StageInv, RulesTypes
<1>1. /\ cursor \in Dates /\ cursor \in Int /\ LastDate \in Nat /\ NoEnd = LastDate + 1
      /\ kind[s] = "stock" /\ k \in 1 .. Len(rows[s]) /\ Len(rows[s]) \in Nat
      /\ life[s].from <= cursor /\ cursor <= life[s].to /\ life[s].from <= life[s].to
      /\ life[s].from \in Dates /\ life[s].from \in Int
      /\ life[s].to \in Dates \cup {NoEnd} /\ life[s].to \in Int
  BY <1>0, LifeFacts DEF WalkInv, Dates, RulesTypes
<1>2. PICK row : row = rows[s][k]
  OBVIOUS
<1>3. /\ row.from \in Dates /\ row.from \in Int /\ row.to \in Dates \cup {NoEnd} /\ row.to \in Int
      /\ row.to # LastDate /\ row.from <= row.to
      /\ row.from >= cursor \/ cursor = life[s].from
      /\ \A i \in 1 .. Len(rows[s]) : k < i => row.to < rows[s][i].from
  <2>1. Sorted(rows[s])
    BY <1>0 DEF StageInv
  <2>2. ~(k < k)
    BY <1>1
  <2> QED
    BY <1>0, <1>1, <1>2, <2>1, <2>2, LifeFacts DEF Sorted, WalkInv, Dates
<1>4. PICK start, end : start = ExceptionStart(s) /\ end = ExceptionEnd(s)
  OBVIOUS
<1>5. /\ start = IF life[s].from >= row.from THEN life[s].from ELSE row.from
      /\ end = IF row.to <= life[s].to THEN row.to ELSE life[s].to
  BY <1>2, <1>4 DEF ExceptionStart, ExceptionEnd, Later, Earlier
<1>6. /\ start \in Dates /\ start \in Int /\ end \in Dates \cup {NoEnd} /\ end \in Int
      /\ cursor <= start /\ start <= end /\ end <= life[s].to /\ end <= row.to /\ row.from <= start
  <2>1. start <= life[s].to /\ end >= life[s].from
    <3>1. ~(start > life[s].to) /\ ~(end < life[s].from)
      BY <1>4 DEF AddException, Outside
    <3>2. start \in Int /\ end \in Int
      BY <1>1, <1>3, <1>5
    <3> QED
      BY <1>1, <3>1, <3>2
  <2> QED
    BY <1>1, <1>3, <1>5, <2>1
<1>7. PICK x, gap : x = Rule(s, start, end, 20) /\ gap = Rule(s, cursor, start - 1, 10)
  OBVIOUS
<1>8. /\ x.symbol = s /\ x.from = start /\ x.to = end /\ x.ratio = 20 /\ x \in RulePeriods
      /\ gap.symbol = s /\ gap.from = cursor /\ gap.to = start - 1 /\ gap.ratio = 10
      /\ start > cursor => gap \in RulePeriods
  <2>1. start > cursor => start - 1 \in Dates /\ cursor <= start - 1
    BY <1>1, <1>6 DEF Dates
  <2> QED
    BY <1>1, <1>6, <1>7, <2>1, RuleFields
<1>9. periods' = periods \cup {x} \cup (IF start > cursor THEN {gap} ELSE {})
  BY <1>4, <1>7 DEF AddException, Gap
<1>10. ASSUME NEW p \in periods, NEW d \in Dates, p.symbol = s, cursor <= d PROVE ~Covers(p, d)
  <2>1. p.to < cursor /\ p.to \in Int
    BY <1>0, <1>1, <1>10 DEF WalkInv, PeriodsOf, RulesTypes, RulePeriods, Dates
  <2> QED
    BY <1>1, <1>10, <2>1 DEF Covers, Dates
<1>11. ASSUME NEW d \in Dates, cursor <= d, d <= end PROVE Exactly(s, d)'
  <2>0. d \in Int
    BY DEF Dates
  <2>1. CASE start <= d
    <3>1. Covers(rows[s][k], d)
      BY <1>1, <1>2, <1>3, <1>6, <1>11, <2>0, <2>1 DEF Covers
    <3>2. Excepted(s, d) /\ Covers(x, d)
      BY <1>1, <1>8, <1>11, <2>1, <3>1 DEF Excepted, Covers
    <3>3. RightRule(s, d, x)'
      BY <1>0, <1>1, <1>8, <3>2 DEF RightRule, Excepted, Covers
    <3>4. ~Covers(gap, d)
      BY <1>6, <1>8, <2>0, <2>1 DEF Covers
    <3>5. \A p \in periods' : p.symbol = s /\ Covers(p, d) => p = x
      BY <1>9, <1>10, <1>11, <3>4
    <3> QED
      BY <1>8, <1>9, <3>2, <3>3, <3>5, OnlyMatch
  <2>2. CASE d < start
    <3>1. ~Excepted(s, d)
      <4>1. ASSUME NEW i \in 1 .. Len(rows[s]), Covers(rows[s][i], d) PROVE FALSE
        <5>1. /\ i \in Int /\ k \in Int
              /\ rows[s][i].from \in Int /\ rows[s][i].to \in Int
          BY <1>1, LifeFacts DEF Dates
        <5>2. CASE i < k
          <6>1. rows[s][i].to < cursor \/ rows[s][i].from > life[s].to
            BY <1>0, <5>2 DEF WalkInv
          <6> QED
            <7>1. rows[s][i].from <= d /\ d <= rows[s][i].to
              BY <4>1 DEF Covers
            <7>2. cursor <= d /\ d < start /\ start <= life[s].to /\ start \in Int /\ cursor \in Int /\ life[s].to \in Int
              BY <1>1, <1>6, <1>11, <2>2
            <7> QED
              BY <2>0, <5>1, <6>1, <7>1, <7>2
        <5>3. CASE i = k
          <6>1. rows[s][i] = row /\ row.from <= d
            BY <1>2, <4>1, <5>3 DEF Covers
          <6>2. start = row.from \/ start <= cursor
            BY <1>1, <1>5
          <6> QED
            BY <1>1, <1>3, <1>6, <1>11, <2>0, <2>2, <6>1, <6>2
        <5>4. CASE i > k
          <6>1. row.to < rows[s][i].from
            BY <1>3, <5>4
          <6> QED
            BY <1>3, <1>6, <2>0, <2>2, <4>1, <5>1, <6>1 DEF Covers
        <5> QED
          BY <5>1, <5>2, <5>3, <5>4
      <4> QED
        BY <4>1 DEF Excepted
    <3>2. start > cursor /\ Covers(gap, d)
      BY <1>1, <1>6, <1>8, <1>11, <2>0, <2>2 DEF Covers
    <3>3. RightRule(s, d, gap)'
      BY <1>0, <1>8, <3>1 DEF RightRule, Excepted, Covers
    <3>4. ~Covers(x, d)
      BY <1>6, <1>8, <2>0, <2>2 DEF Covers
    <3>5. \A p \in periods' : p.symbol = s /\ Covers(p, d) => p = gap
      BY <1>9, <1>10, <1>11, <3>4
    <3> QED
      BY <1>8, <1>9, <3>2, <3>3, <3>5, OnlyMatch
  <2> QED
    BY <1>6, <2>0, <2>1, <2>2
<1>12. /\ \A d \in Dates : life[s].from <= d /\ d <= end => Exactly(s, d)'
       /\ \A t \in Securities, d \in Dates : t # s /\ Exactly(t, d) => Exactly(t, d)'
       /\ LivesInv' /\ periods' \subseteq RulePeriods
       /\ \A p \in periods' : p.symbol \notin todo \ current
       /\ \A p \in PeriodsOf(s)' : p.to <= end
  <2>1. \A p \in periods' \ periods : /\ p \in RulePeriods /\ p.symbol = s
                                      /\ cursor <= p.from /\ p.to <= end
    BY <1>1, <1>6, <1>8, <1>9
  <2>2. cursor <= end + 1 /\ periods \subseteq periods'
    BY <1>1, <1>6, <1>9
  <2> QED
    BY <1>0, <1>6, <1>11, <2>1, <2>2, Extends
<1>13. CASE end = NoEnd \/ end = life[s].to
  <2>1. end = life[s].to
    BY <1>1, <1>6, <1>13 DEF Dates
  <2>2. current' = {} /\ todo' = todo \ {s} /\ UNCHANGED <<k, cursor>>
    BY <1>4, <1>13 DEF AddException, Done
  <2>3. RulesTypes' /\ StageInv'
    BY <1>0, <1>12, <2>2 DEF RulesTypes, StageInv
  <2>4. WalkInv' /\ BuiltInv'
    BY <1>0, <1>12, <2>1, <2>2 DEF WalkInv, BuiltInv, Covers
  <2> QED
    BY <1>0, <1>12, <2>3, <2>4 DEF ResolverAccepts, AnswersAreForLivingSecurities, Covers
<1>14. CASE ~(end = NoEnd \/ end = life[s].to)
  <2>1. k' = k + 1 /\ cursor' = end + 1 /\ UNCHANGED <<current, todo>>
    BY <1>4, <1>14 DEF AddException, NextCursor
  <2>2. end = row.to /\ end + 1 \in Dates /\ end + 1 <= life[s].to
    BY <1>1, <1>3, <1>5, <1>6, <1>14 DEF Dates
  <2>3. RulesTypes' /\ StageInv'
    BY <1>0, <1>1, <1>12, <2>1, <2>2 DEF RulesTypes, StageInv
  <2>4. \A i \in 1 .. Len(rows[s]) :
           IF i < k + 1 THEN rows[s][i].to < end + 1 \/ rows[s][i].from > life[s].to
                        ELSE rows[s][i].from >= end + 1 \/ end + 1 = life[s].from
    <3>1. ASSUME NEW i \in 1 .. Len(rows[s])
          PROVE  IF i < k + 1 THEN rows[s][i].to < end + 1 \/ rows[s][i].from > life[s].to
                              ELSE rows[s][i].from >= end + 1
      <4>1. /\ i \in Int /\ k \in Int
            /\ rows[s][i].from \in Int /\ rows[s][i].to \in Int
        BY <1>1, LifeFacts DEF Dates
      <4>2. i < k => rows[s][i].to < cursor \/ rows[s][i].from > life[s].to
        BY <1>0 DEF WalkInv
      <4>3. k < i => row.to < rows[s][i].from
        BY <1>3
      <4>4. CASE i < k
        <5>1. i < k + 1 /\ cursor \in Int /\ cursor < end + 1
          BY <1>1, <1>6, <4>1, <4>4
        <5> QED
          BY <4>1, <4>2, <4>4, <5>1, <1>6
      <4>5. CASE i = k
        <5>1. i < k + 1 /\ rows[s][i].to < end + 1
          BY <1>2, <1>6, <2>2, <4>1, <4>5
        <5> QED
          BY <5>1
      <4>6. CASE k < i
        <5>1. ~(i < k + 1) /\ rows[s][i].from >= end + 1
          BY <1>6, <2>2, <4>1, <4>3, <4>6
        <5> QED
          BY <5>1
      <4> QED
        BY <4>1, <4>4, <4>5, <4>6
    <3> QED
      BY <3>1
  <2>5. WalkInv'
    <3>1. \A p \in PeriodsOf(s)' : p.to < end + 1
      <4>1. \A p \in periods' : p.to \in Int
        BY <1>1, <1>12 DEF RulePeriods, Dates
      <4> QED
        BY <1>6, <1>12, <4>1 DEF PeriodsOf
    <3>2. \A d \in Dates : d < end + 1 => d <= end
      BY <1>6 DEF Dates
    <3>3. k + 1 \in 1 .. Len(rows[s]) + 1 /\ life[s].from <= end + 1
      BY <1>1, <1>6
    <3> QED
      BY <1>0, <1>1, <1>12, <2>1, <2>2, <2>4, <3>1, <3>2, <3>3 DEF WalkInv
  <2>6. BuiltInv'
    BY <1>0, <1>12, <2>1 DEF BuiltInv, Covers
  <2> QED
    BY <1>0, <1>12, <2>1, <2>3, <2>5, <2>6 DEF ResolverAccepts, AnswersAreForLivingSecurities, Covers
<1> QED
  BY <1>13, <1>14

\* A built timeline has no two rules for a date, so no two that overlap.
LEMMA ResolverStep == TimelineInv /\ MakeResolver => TimelineInv'
<1> SUFFICES ASSUME TimelineInv, MakeResolver PROVE TimelineInv'
  OBVIOUS
<1> USE DEF TimelineInv
<1>0. /\ UNCHANGED <<kind, life, rows, intact, todo, current, k, cursor, periods, answer>>
      /\ status = "building" /\ todo = {} /\ current = {}
  BY DEF MakeResolver, RulesTypes
<1>1. ASSUME NEW s \in Securities, NEW p \in PeriodsOf(s), NEW q \in PeriodsOf(s), Overlap(p, q)
      PROVE  FALSE
  <2>1. PICK d : d = Later(p.from, q.from)
    OBVIOUS
  <2>2. /\ p \in RulePeriods /\ q \in RulePeriods /\ p.symbol = s /\ q.symbol = s
        /\ p \in periods /\ q \in periods
    BY DEF PeriodsOf, RulesTypes
  <2>3. /\ p.from \in Dates /\ q.from \in Dates /\ p.from <= p.to /\ q.from <= q.to
        /\ p.from \in Int /\ q.from \in Int /\ p.to \in Int /\ q.to \in Int
        /\ p.from <= q.to /\ q.from <= p.to /\ p # q
    BY <1>1, <2>2, LifeFacts DEF RulePeriods, Dates, Overlap
  <2>4. d \in Dates /\ Covers(p, d) /\ Covers(q, d)
    BY <2>1, <2>3 DEF Later, Covers
  <2>5. Covers(life[s], d)
    <3>1. life[s].from <= p.from /\ p.to <= life[s].to /\ life[s].from \in Int /\ life[s].to \in Int
      BY <2>2, LifeFacts DEF LivesInv, Dates
    <3>2. d \in Int
      BY <2>1, <2>3 DEF Later
    <3> QED
      BY <2>3, <2>4, <3>1, <3>2 DEF Covers
  <2>6. Exactly(s, d)
    BY <1>0, <2>4, <2>5 DEF BuiltInv
  <2> QED
    BY <2>3, <2>4, <2>6 DEF Exactly, Matches
<1>2. ASSUME NEW s \in Securities PROVE periods # {}
  <2>1. life[s].from \in Dates /\ Covers(life[s], life[s].from)
    BY LifeFacts DEF Covers, Dates
  <2>2. Exactly(s, life[s].from)
    BY <1>0, <2>1 DEF BuiltInv
  <2> QED
    BY <2>2 DEF Exactly, Matches, PeriodsOf
<1>3. status' \in {"ready", "overlapping periods"} /\ (Securities # {} => status' = "ready")
  BY <1>1, <1>2 DEF MakeResolver
<1>4. RulesTypes' /\ StageInv' /\ LivesInv' /\ WalkInv'
  BY <1>0, <1>3 DEF RulesTypes, Statuses, StageInv, LivesInv, WalkInv
<1>5. BuiltInv'
  BY <1>0, SameRules DEF BuiltInv, Covers
<1>6. ResolverAccepts' /\ AnswersAreForLivingSecurities'
  BY <1>0, <1>3 DEF ResolverAccepts, AnswersAreForLivingSecurities, Covers
<1> QED
  BY <1>4, <1>5, <1>6

\* No rule covers a date outside of the life.
LEMMA NoRuleOutside ==
  ASSUME RulesTypes, LivesInv, NEW s \in Securities, NEW d \in Dates, ~Covers(life[s], d)
  PROVE  Matches(s, d) = {}
<1>1. ASSUME NEW p \in Matches(s, d) PROVE FALSE
  <2>1. /\ p.symbol = s /\ p \in RulePeriods /\ p.from <= d /\ d <= p.to
        /\ life[s].from <= p.from /\ p.to <= life[s].to
    BY DEF Matches, PeriodsOf, Covers, RulesTypes, LivesInv
  <2>2. /\ p.from \in Int /\ p.to \in Int /\ life[s].from \in Int /\ life[s].to \in Int /\ d \in Int
    BY <2>1, LifeFacts DEF RulePeriods, Dates
  <2> QED
    BY <2>1, <2>2 DEF Covers
<1> QED
  BY <1>1

\* An answer of the resolver is the rule of the only period that has the date.
LEMMA AnswerStep ==
  ASSUME TimelineInv, NEW s \in Securities, NEW d \in Dates, Resolve(s, d)
  PROVE  TimelineInv'
<1> USE DEF TimelineInv
<1>0. /\ UNCHANGED <<kind, life, rows, intact, status, todo, current, k, cursor, periods>>
      /\ status = "ready" /\ todo = {}
  BY DEF Resolve, StageInv
<1>1. PICK a : a = [symbol |-> s, day |-> d,
                    rules |-> {p \in Matches(s, d) : \A q \in Matches(s, d) : q = p}]
  OBVIOUS
<1>2. a.rules # {} <=> Covers(life[s], d)
  <2>1. CASE Covers(life[s], d)
    BY <1>0, <1>1, <2>1 DEF BuiltInv, Exactly
  <2>2. CASE ~Covers(life[s], d)
    <3>1. Matches(s, d) = {}
      BY <2>2, NoRuleOutside
    <3> QED
      BY <1>1, <2>2, <3>1
  <2> QED
    BY <2>1, <2>2
<1>3. AnswersAreForLivingSecurities'
  <2>1. answer' = {a} /\ a.symbol = s /\ a.day = d
    BY <1>1 DEF Resolve
  <2> QED
    BY <1>0, <1>2, <2>1 DEF AnswersAreForLivingSecurities, Covers
<1>4. RulesTypes' /\ StageInv' /\ LivesInv' /\ WalkInv' /\ ResolverAccepts'
  BY <1>0, SameRules DEF RulesTypes, StageInv, LivesInv, WalkInv, ResolverAccepts
<1>5. BuiltInv'
  BY <1>0, SameRules DEF BuiltInv, Covers
<1> QED
  BY <1>3, <1>4, <1>5
-----------------------------------------------------------------------------
\* The invariant holds before anything is loaded.
LEMMA TimelineInit == RulesInit => TimelineInv
<1> SUFFICES ASSUME RulesInit PROVE TimelineInv
  OBVIOUS
<1>1. RulesTypes
  BY DateAssumption DEF RulesInit, RulesTypes, Statuses, Dates, NoEnd
<1>2. StageInv /\ LivesInv /\ WalkInv /\ BuiltInv
  BY DEF RulesInit, StageInv, LivesInv, WalkInv, BuiltInv
<1>3. ResolverAccepts /\ AnswersAreForLivingSecurities
  BY DEF RulesInit, ResolverAccepts, AnswersAreForLivingSecurities
<1> QED
  BY <1>1, <1>2, <1>3 DEF TimelineInv

\* The invariant is inductive.
LEMMA TimelineStep == TimelineInv /\ [RulesNext]_rulesVars => TimelineInv'
<1> SUFFICES ASSUME TimelineInv, [RulesNext]_rulesVars PROVE TimelineInv'
  OBVIOUS
<1>1. CASE Load
  BY <1>1, LoadStep
<1>2. CASE MakeResolver
  BY <1>2, ResolverStep
<1>3. ASSUME NEW s \in Securities, BuildGold(s) PROVE TimelineInv'
  BY <1>3, GoldStep
<1>4. ASSUME NEW s \in Securities, RefuseOther(s) \/ StartStock(s) \/ PassOver(s) PROVE TimelineInv'
  BY <1>4, WaitStep
<1>5. ASSUME NEW s \in Securities, AddException(s) PROVE TimelineInv'
  BY <1>5, ExceptionStep
<1>6. ASSUME NEW s \in Securities, FinishStock(s) PROVE TimelineInv'
  BY <1>6, FinishStep
<1>7. ASSUME NEW s \in Securities, NEW d \in Dates, Resolve(s, d) PROVE TimelineInv'
  BY <1>7, AnswerStep
<1>8. CASE UNCHANGED rulesVars
  <2>1. UNCHANGED <<kind, life, rows, intact, status, todo, current, k, cursor, periods, answer>>
    BY <1>8 DEF rulesVars
  <2>2. /\ \A t, d : Exactly(t, d)' <=> Exactly(t, d)
        /\ \A t : PeriodsOf(t)' = PeriodsOf(t)
    BY <2>1, SameRules
  <2> QED
    BY <2>1, <2>2 DEF TimelineInv, RulesTypes, StageInv, LivesInv, WalkInv, BuiltInv,
       ResolverAccepts, AnswersAreForLivingSecurities, Covers
<1> QED
  BY <1>1, <1>2, <1>3, <1>4, <1>5, <1>6, <1>7, <1>8 DEF RulesNext

\* The invariant implies the property that the run data checks.
LEMMA TimelineHolds == TimelineInv => RulesInv
<1> SUFFICES ASSUME TimelineInv PROVE RulesInv
  OBVIOUS
<1> USE DEF TimelineInv
<1>1. PrefixBuilt
  <2>1. ASSUME NEW s \in current
        PROVE  /\ \A p \in PeriodsOf(s) : life[s].from <= p.from /\ p.from <= p.to /\ p.to < cursor
               /\ \A d \in Dates : life[s].from <= d /\ d < cursor => Exactly(s, d)
    BY DEF RulesTypes, RulePeriods, WalkInv, LivesInv, PeriodsOf
  <2> QED
    BY <2>1 DEF PrefixBuilt, Exactly
<1>2. TimelineIsComplete
  <2>1. ASSUME NEW s \in Securities \ todo, NEW d \in Dates, Covers(life[s], d) PROVE Exactly(s, d)
    BY <2>1 DEF BuiltInv
  <2>2. ASSUME NEW s \in Securities \ todo, NEW d \in Dates, ~Covers(life[s], d) PROVE Matches(s, d) = {}
    BY <2>2, NoRuleOutside
  <2> QED
    BY <2>1, <2>2 DEF TimelineIsComplete, Exactly
<1> QED
  BY <1>1, <1>2 DEF RulesInv

\* For any resource the loader accepts: rules are built without gap or overlap,
\* 20% on the exceptions and 10% elsewhere, the resolver accepts them, and it
\* answers for the dates of a life and no others.
THEOREM RulesComplete == RulesSpec => []RulesInv
<1>1. RulesInit => TimelineInv
  BY TimelineInit
<1>2. TimelineInv /\ [RulesNext]_rulesVars => TimelineInv'
  BY TimelineStep
<1>3. TimelineInv => RulesInv
  BY TimelineHolds
<1> QED
  BY <1>1, <1>2, <1>3, PTL DEF RulesSpec
-----------------------------------------------------------------------------
(* The calendar of DailyData.                                              *)

\* The part of the type invariant that no step changes.
World ==
  /\ opens \subseteq Days /\ master \in [Symbols -> Master] /\ table \in [Symbols -> [Days -> Cell]]

Placed == World /\ today \in Days /\ universe \subseteq Symbols

LEMMA LeastOfIs ==
  ASSUME NEW S, S \subseteq Int, NEW x \in S, \A y \in S : x <= y
  PROVE  LeastOf(S) = x
<1>1. PICK m \in S : m = LeastOf(S) /\ \A y \in S : m <= y
  BY DEF LeastOf
<1> QED
  BY <1>1

LEMMA OpenDays ==
  ASSUME World
  PROVE  opens \subseteq Days /\ Days \subseteq Nat /\ opens \subseteq Nat
BY DayAssumption DEF World, Days

LEMMA ListIsInt ==
  ASSUME World, NEW s \in Symbols
  PROVE  master[s].list \in Int
<1>1. master[s] \in Master
  BY DEF World
<1>2. ASSUME NEW m \in Master
      PROVE  m.list \in Int
  BY DayAssumption DEF Master, Days
<1> QED
  BY <1>1, <1>2

LEMMA CalendarFacts ==
  ASSUME World, NEW d \in Days
  PROVE  /\ d \in Nat
         /\ PrevOpen(d) \subseteq opens /\ NextOpen(d) \subseteq opens
         /\ \A p \in PrevOpen(d) : p \in Days /\ p < d /\ PrevOpen(d) = {p} /\ CarryOf(d) = p
         /\ \A n \in NextOpen(d) : n \in Days /\ d < n /\ NextOpen(d) = {n} /\ LeastOf(NextOpen(d)) = n
<1>0. d \in Nat /\ opens \subseteq Nat /\ Days \subseteq Nat
  BY DayAssumption DEF World, Days
<1>1. PrevOpen(d) \subseteq opens /\ NextOpen(d) \subseteq opens
  BY DEF PrevOpen, NextOpen
<1>2. ASSUME NEW p \in PrevOpen(d)
      PROVE  p \in Days /\ p < d /\ PrevOpen(d) = {p} /\ CarryOf(d) = p
  <2>1. p \in Days /\ p < d /\ \A q \in PrevOpen(d) : q = p
    BY <1>0, <1>1 DEF PrevOpen, World
  <2>2. PrevOpen(d) = {p}
    BY <2>1
  <2>3. LeastOf({p}) = p
    BY <2>1, <1>0, LeastOfIs
  <2> QED
    BY <2>1, <2>2, <2>3 DEF CarryOf
<1>3. ASSUME NEW n \in NextOpen(d)
      PROVE  n \in Days /\ d < n /\ NextOpen(d) = {n} /\ LeastOf(NextOpen(d)) = n
  <2>1. n \in Days /\ d < n /\ \A q \in NextOpen(d) : q = n
    BY <1>0, <1>1 DEF NextOpen, World
  <2>2. NextOpen(d) = {n}
    BY <2>1
  <2>3. LeastOf({n}) = n
    BY <2>1, <1>0, LeastOfIs
  <2> QED
    BY <2>1, <2>2, <2>3
<1> QED
  BY <1>0, <1>1, <1>2, <1>3

\* A day before an open day has a next one, which is no later.
LEMMA NextExists ==
  ASSUME World, NEW d \in Days, NEW e \in opens, d < e
  PROVE  \E n \in NextOpen(d) : n <= e
<1> DEFINE after == {o \in opens : o > d}
<1>0. d \in Nat /\ opens \subseteq Nat
  BY DayAssumption DEF World, Days
<1>1. after \subseteq Nat /\ e \in after
  BY <1>0
<1>2. PICK n \in after : \A y \in after : n <= y
  BY <1>1, LeastNumber
<1> QED
  BY <1>1, <1>2 DEF NextOpen

-----------------------------------------------------------------------------
(* The history of a date, as it is once all its rows are there.            *)

\* A day with a quote.
Whole(s, d) == Cells(s, d).raw = "full" /\ Cells(s, d).front

\* A gap of one day, between two days with a quote.
Isolated(s, d) ==
  /\ d \in opens /\ Cells(s, d).flag \in {"suspended", "null"}
  /\ Cells(s, d).raw = "none" /\ ~Cells(s, d).front
  /\ \E p \in PrevOpen(d) : Whole(s, p)
  /\ \E n \in NextOpen(d) : Whole(s, n)

\* The life of a security as dim_etf will have it.
InLife(s, d) == master[s].list <= d /\ (master[s].dated => d <= master[s].end)

BarOf(s, d) ==
  [symbol |-> s, day |-> d, price |-> IF Cells(s, d).raw = "full" THEN d ELSE CarryOf(d),
   suspended |-> Cells(s, d).raw # "full" \/ Cells(s, d).flag = "suspended"]

\* The days of the window that ends at d, and the bars of a universe on them.
Recent(d, from) == {o \in opens : from <= o /\ o <= d /\ Cardinality({p \in opens : o < p /\ p <= d}) < Lookback}
InHistory(s, d) == Cells(s, d).raw = "full" \/ (Isolated(s, d) /\ InLife(s, d))
HistoryOf(syms, d, from) ==
  {BarOf(x[1], x[2]) : x \in {y \in syms \X Recent(d, from) : InHistory(y[1], y[2])}}

\* A set of bars is a set of keys.
LEMMA BarsFacts ==
  ASSUME NEW syms, NEW from \in Int, NEW to \in Int
  PROVE  /\ \A s \in syms, d \in from .. to : FullRaw(s, d) \/ Carried(s, d, from, to) => Bar(s, d) \in Bars(syms, from, to)
         /\ \A b \in Bars(syms, from, to) : /\ b.symbol \in syms /\ b.day \in from .. to
                                            /\ b = Bar(b.symbol, b.day)
                                            /\ FullRaw(b.symbol, b.day) \/ Carried(b.symbol, b.day, from, to)
<1>1. ASSUME NEW s \in syms, NEW d \in from .. to, FullRaw(s, d) \/ Carried(s, d, from, to)
      PROVE  Bar(s, d) \in Bars(syms, from, to)
  <2>1. <<s, d>> \in syms \X (from .. to) /\ <<s, d>>[1] = s /\ <<s, d>>[2] = d
    OBVIOUS
  <2> QED
    BY <1>1, <2>1, Zenon DEF Bars
<1>2. ASSUME NEW b \in Bars(syms, from, to)
      PROVE  /\ b.symbol \in syms /\ b.day \in from .. to
             /\ b = Bar(b.symbol, b.day)
             /\ FullRaw(b.symbol, b.day) \/ Carried(b.symbol, b.day, from, to)
  <2>1. PICK x \in syms \X (from .. to) : /\ b = Bar(x[1], x[2])
                                          /\ FullRaw(x[1], x[2]) \/ Carried(x[1], x[2], from, to)
    BY <1>2, Zenon DEF Bars
  <2>2. x[1] \in syms /\ x[2] \in from .. to
    OBVIOUS
  <2>3. b.symbol = x[1] /\ b.day = x[2]
    BY <2>1 DEF Bar
  <2> QED
    BY <2>1, <2>2, <2>3
<1> QED
  BY <1>1, <1>2

LEMMA CellFacts ==
  ASSUME World, NEW s \in Symbols, NEW d \in Days
  PROVE  /\ Cells(s, d) \in Cell
         /\ Cells(s, d).raw \in {"full", "partial", "none"}
         /\ Cells(s, d).front \in BOOLEAN
BY DEF World, Cells, Cell

\* What the tables show up to today is what they will show.
LEMMA SeenFacts ==
  ASSUME Placed, NEW s \in Symbols, NEW d \in Days, d <= today
  PROVE  /\ FullRaw(s, d) <=> Cells(s, d).raw = "full"
         /\ HasRow(s, d) <=> Cells(s, d).raw # "none"
         /\ HasFront(s, d) <=> Cells(s, d).front
         /\ Bar(s, d) = BarOf(s, d)
<1>1. /\ FullRaw(s, d) <=> Cells(s, d).raw = "full"
      /\ HasRow(s, d) <=> Cells(s, d).raw # "none"
  BY DEF FullRaw, HasRow
<1>2. HasFront(s, d) <=> Cells(s, d).front
  BY CellFacts DEF HasFront, Placed
<1>3. Bar(s, d) = BarOf(s, d)
  BY <1>1 DEF Bar, BarOf
<1> QED
  BY <1>1, <1>2, <1>3

LEMMA CarriedFacts ==
  ASSUME Placed, NEW s \in Symbols, NEW d \in Days, d <= today,
         NEW from, NEW to, Carried(s, d, from, to)
  PROVE  Isolated(s, d) /\ \A n \in NextOpen(d) : n <= today
<1>1. World
  BY DEF Placed
<1>2. d \in opens /\ CarryCandidate(s, d)
  BY DEF Carried
<1>3. Cells(s, d).raw = "none" /\ ~Cells(s, d).front
  BY <1>2, SeenFacts DEF CarryCandidate
<1>4. PICK p \in PrevOpen(d) : Complete(s, p, from, to)
  BY DEF Carried
<1>5. PICK n \in NextOpen(d) : Complete(s, n, from, to)
  BY DEF Carried
<1>6. Whole(s, p) /\ Whole(s, n) /\ n <= today
  BY <1>4, <1>5 DEF Complete, FullRaw, HasFront, Whole
<1>7. \A m \in NextOpen(d) : m = n
  BY <1>1, <1>5, CalendarFacts
<1> QED
  BY <1>2, <1>3, <1>4, <1>5, <1>6, <1>7 DEF Isolated, CarryCandidate

\* The bars of a slice that covers its universe.
LEMMA CoveredFacts ==
  ASSUME NEW syms, NEW lives, NEW from \in Int, NEW to \in Int,
         Covered(syms, lives, Bars(syms, from, to), from, to)
  PROVE  /\ \A s \in syms, o \in from .. to :
              Bar(s, o) \in Bars(syms, from, to) <=> o \in opens /\ Alive(lives[s], o)
         /\ \A b \in Bars(syms, from, to) : b.day \in opens /\ Alive(lives[b.symbol], b.day)
<1> DEFINE bars == Bars(syms, from, to)
<1>1. {<<b.symbol, b.day>> : b \in bars} = Expected(syms, lives, from, to)
  BY DEF Covered
<1>2. ASSUME NEW b \in bars PROVE b.day \in opens /\ Alive(lives[b.symbol], b.day)
  <2>1. <<b.symbol, b.day>> \in Expected(syms, lives, from, to)
    BY <1>1, <1>2, Zenon
  <2> QED
    BY <2>1 DEF Expected
<1>3. ASSUME NEW s \in syms, NEW o \in from .. to, o \in opens, Alive(lives[s], o)
      PROVE  Bar(s, o) \in bars
  <2>1. <<s, o>> \in Expected(syms, lives, from, to)
    BY <1>3 DEF Expected
  <2>2. PICK b \in bars : <<s, o>> = <<b.symbol, b.day>>
    BY <1>1, <2>1
  <2>3. b = Bar(b.symbol, b.day)
    BY BarsFacts
  <2> QED
    BY <2>2, <2>3
<1>4. ASSUME NEW s \in syms, NEW o \in from .. to, Bar(s, o) \in bars
      PROVE  o \in opens /\ Alive(lives[s], o)
  <2>1. Bar(s, o).symbol = s /\ Bar(s, o).day = o
    BY DEF Bar
  <2> QED
    BY <1>2, <1>4, <2>1
<1> QED
  BY <1>2, <1>3, <1>4

\* The lives a slice is tested with are the lives of the history, as far as its
\* gaps go.
Fit(syms, lives, from, d) ==
  \A s \in syms, o \in opens \cap (from .. d) : Isolated(s, o) => (Alive(lives[s], o) <=> InLife(s, o))

LEMMA SliceIsHistory ==
  ASSUME Placed, NEW syms \in SUBSET Symbols, NEW lives, NEW from \in Days, NEW to \in Int,
         NEW d \in Days, d <= to, d <= today,
         Covered(syms, lives, Bars(syms, from, to), from, to), Fit(syms, lives, from, d)
  PROVE  /\ ViewsThrough(Bars(syms, from, to), d, from, to) = HistoryOf(syms, d, from)
         /\ \A v \in HistoryOf(syms, d, from) :
              v.price # v.day => \A n \in NextOpen(v.day) : n <= today
<1> DEFINE bars == Bars(syms, from, to)
           views == ViewsThrough(bars, d, from, to)
<1>0. /\ World /\ opens \subseteq Days /\ Days \subseteq Int /\ today \in Int
  BY DayAssumption DEF Placed, World, Days
<1>1. EligibleDays(d, from, to) = Recent(d, from)
  <2>1. \A o : o \in EligibleDays(d, from, to) <=>
              /\ o \in opens \cap (from .. to) /\ o <= d
              /\ Cardinality({p \in opens : o < p /\ p <= d}) < Lookback
    BY Zenon DEF EligibleDays
  <2>2. \A o : o \in Recent(d, from) <=>
              /\ o \in opens /\ from <= o /\ o <= d
              /\ Cardinality({p \in opens : o < p /\ p <= d}) < Lookback
    BY Zenon DEF Recent
  <2>3. \A o \in opens : o <= d => (o \in from .. to <=> from <= o)
    BY <1>0
  <2>4. \A o : o \in EligibleDays(d, from, to) <=> o \in Recent(d, from)
    BY <2>1, <2>2, <2>3, Zenon
  <2> QED
    BY <2>4, Zenon
<1>2. ASSUME NEW o \in Recent(d, from)
      PROVE  o \in opens /\ o \in Days /\ from <= o /\ o <= d /\ o <= today /\ o \in from .. to
                /\ o \in opens \cap (from .. d)
  BY <1>0 DEF Recent
<1>3. ASSUME NEW v \in views
      PROVE  v \in HistoryOf(syms, d, from)
  <2>1. v \in bars /\ v.day \in Recent(d, from)
    BY <1>1 DEF ViewsThrough
  <2>2. PICK s \in syms, o \in Recent(d, from) :
          v = Bar(s, o) /\ (FullRaw(s, o) \/ Carried(s, o, from, to))
    BY <1>0, <2>1, BarsFacts
  <2>3. v = BarOf(s, o)
    BY <1>2, <2>2, SeenFacts
  <2>4. InHistory(s, o)
    <3>1. CASE FullRaw(s, o)
      BY <3>1, <1>2, SeenFacts DEF InHistory
    <3>2. CASE Carried(s, o, from, to)
      <4>1. Isolated(s, o)
        BY <1>2, <3>2, CarriedFacts
      <4>2. Alive(lives[s], o)
        BY <1>0, <1>2, <2>1, <2>2, CoveredFacts
      <4> QED
        BY <1>2, <4>1, <4>2 DEF Fit, InHistory
    <3> QED
      BY <2>2, <3>1, <3>2
  <2>5. <<s, o>> \in syms \X Recent(d, from) /\ <<s, o>>[1] = s /\ <<s, o>>[2] = o
    OBVIOUS
  <2> QED
    BY <2>3, <2>4, <2>5, Zenon DEF HistoryOf
<1>4. ASSUME NEW v \in HistoryOf(syms, d, from)
      PROVE  v \in views /\ (v.price # v.day => \A n \in NextOpen(v.day) : n <= today)
  <2>1. PICK x \in syms \X Recent(d, from) : v = BarOf(x[1], x[2]) /\ InHistory(x[1], x[2])
    BY Zenon DEF HistoryOf
  <2>2. PICK s \in syms, o \in Recent(d, from) : v = BarOf(s, o) /\ InHistory(s, o)
    BY <2>1
  <2>3. v = Bar(s, o) /\ v.day = o
    BY <1>2, <2>2, SeenFacts DEF BarOf
  <2>4. v \in bars
    <3>1. CASE Cells(s, o).raw = "full"
      BY <3>1, <1>0, <1>2, <2>3, SeenFacts, BarsFacts
    <3>2. CASE Isolated(s, o) /\ InLife(s, o)
      <4>1. Alive(lives[s], o)
        BY <1>2, <3>2 DEF Fit
      <4> QED
        BY <4>1, <1>0, <1>2, <2>3, CoveredFacts
    <3> QED
      BY <2>2, <3>1, <3>2 DEF InHistory
  <2>5. v \in views
    BY <1>1, <2>3, <2>4 DEF ViewsThrough
  <2>6. ASSUME v.price # v.day, NEW n \in NextOpen(v.day) PROVE n <= today
    <3>1. Cells(s, o).raw # "full"
      BY <2>6, <2>2 DEF BarOf
    <3>2. ~FullRaw(s, o)
      BY <3>1, <1>2, SeenFacts
    <3>3. v.symbol = s /\ v.day = o
      BY <2>3 DEF Bar
    <3>4. Carried(s, o, from, to)
      BY <1>0, <2>4, <3>2, <3>3, BarsFacts
    <3> QED
      BY <3>4, <1>2, <2>6, <3>3, CarriedFacts
  <2> QED
    BY <2>5, <2>6
<1> QED
  BY <1>3, <1>4

\* A day that is over is in a life that dim_etf gives an end to, or not.
LEMMA DatedEnd ==
  ASSUME NEW s, NEW o \in Days, o <= today, today \in Days, master[s].end \in Days \cup {Never}, master[s].dated \in BOOLEAN
  PROVE  o <= DelistDate(s) <=> (master[s].dated => o <= master[s].end)
<1>1. o \in Int /\ today \in Int /\ master[s].end \in Int /\ today <= LastDay /\ Never = LastDay + 1 /\ LastDay \in Int
  BY DayAssumption DEF Days, Never
<1>2. CASE Delisted(s) /\ master[s].dated
  BY <1>2 DEF DelistDate
<1>3. CASE ~Delisted(s) \/ ~master[s].dated
  <2>1. DelistDate(s) = Never
    BY <1>3 DEF DelistDate
  <2> QED
    BY <2>1, <1>1, <1>3 DEF Delisted
<1> QED
  BY <1>2, <1>3

\* dim_etf as it is today, for a day that is over.
LEMMA MasterFits ==
  ASSUME Placed, NEW syms \in SUBSET Symbols, NEW from \in Days, NEW d \in Days, d <= today
  PROVE  Fit(syms, MasterLives(syms), from, d)
<1> SUFFICES ASSUME NEW s \in syms, NEW o \in opens \cap (from .. d)
             PROVE  Alive(MasterLives(syms)[s], o) <=> InLife(s, o)
  BY DEF Fit
<1>1. o \in Days /\ o <= today /\ Days \subseteq Int /\ today \in Days /\ \A t \in Days : t <= LastDay
  BY DayAssumption DEF Placed, World, Days
<1>2. /\ master[s].list \in Days /\ master[s].end \in Days \cup {Never} /\ master[s].dated \in BOOLEAN
  BY DEF Placed, World, Master
<1>3. Alive(MasterLives(syms)[s], o) <=> master[s].list <= o /\ o <= DelistDate(s)
  BY DEF MasterLives, Alive
<1>4. o <= DelistDate(s) <=> (master[s].dated => o <= master[s].end)
  BY <1>1, <1>2, DatedEnd
<1> QED
  BY <1>3, <1>4 DEF InLife

\* The lives the resolver froze: a security without the date of its end lives
\* until its last row, which is no sooner than the quote after a gap.
LEMMA FrozenFits ==
  ASSUME Placed, Resolvable, NEW syms \in SUBSET Symbols, NEW from \in Days, NEW d \in Days, d <= today,
         \A o \in opens \cap (from .. d) : \A n \in NextOpen(o) : n <= today
  PROVE  Fit(syms, FrozenLives(syms), from, d)
<1> SUFFICES ASSUME NEW s \in syms, NEW o \in opens \cap (from .. d), Isolated(s, o)
             PROVE  Alive(FrozenLives(syms)[s], o) <=> InLife(s, o)
  BY DEF Fit
<1> DEFINE end == CHOOSE e \in FrozenEnd(s) : TRUE
<1>1. o \in Days /\ o <= today /\ Days \subseteq Int /\ today \in Days /\ \A t \in Days : t <= LastDay
  BY DayAssumption DEF Placed, World, Days
<1>2. master[s] \in Master /\ master[s].list \in Days /\ master[s].end \in Days \cup {Never} /\ master[s].dated \in BOOLEAN
  BY DEF Placed, World, Master
<1>3. Alive(FrozenLives(syms)[s], o) <=> master[s].list <= o /\ o <= end
  BY DEF FrozenLives, Alive
<1>4. end \in FrozenEnd(s)
  BY DEF Resolvable
<1> HIDE DEF end
<1>5. CASE Delisted(s) /\ DelistDate(s) = Never
  <2>1. end \in LastRawDate(s) /\ ~master[s].dated
    <3>1. FrozenEnd(s) = {x \in LastRawDate(s) : x >= master[s].list}
      BY <1>5 DEF FrozenEnd
    <3>2. ~(today > Never)
      BY <1>1, DayAssumption DEF Never
    <3>3. ~master[s].dated
      BY <1>5, <3>2 DEF DelistDate, Delisted
    <3> QED
      BY <1>4, <3>1, <3>3
  <2>2. PICK n \in NextOpen(o) : Whole(s, n)
    BY DEF Isolated
  <2>3. n \in Days /\ o < n /\ n <= today
    BY <2>2, <1>1, CalendarFacts DEF Placed
  <2>4. HasRow(s, n)
    BY <2>2, <2>3, SeenFacts DEF Whole
  <2>5. n <= end /\ end \in Days
    <3>1. \A e \in {x \in Days : HasRow(s, x)} : e <= end
      BY <2>1 DEF LastRawDate
    <3>2. end \in Days
      BY <2>1 DEF LastRawDate
    <3> QED
      BY <3>1, <3>2, <2>3, <2>4
  <2>6. o <= end
    <3>1. o \in Int /\ n \in Int /\ end \in Int
      BY <1>1, <2>3, <2>5
    <3> QED
      BY <3>1, <2>3, <2>5
  <2> QED
    BY <1>3, <2>1, <2>6 DEF InLife
<1>6. CASE ~(Delisted(s) /\ DelistDate(s) = Never)
  <2>1. end = DelistDate(s)
    BY <1>4, <1>6 DEF FrozenEnd
  <2> QED
    BY <2>1, <1>1, <1>2, <1>3, DatedEnd DEF InLife
<1> QED
  BY <1>5, <1>6
-----------------------------------------------------------------------------
(* The invariant.                                                          *)

\* A context shows the history of its date, whenever it was made.
Sound(c) ==
  /\ c.by \in Callers /\ c.day \in opens /\ c.day <= today
  /\ c.syms \subseteq Symbols /\ c.loaded \in Days
  /\ c.views = HistoryOf(c.syms, c.day, c.loaded)
  /\ \A v \in c.views : v.price # v.day => \A n \in NextOpen(v.day) : n <= today

\* It is bound to the next trading day and to its place in the schedule.
Bound(c) ==
  /\ c.exec \in opens /\ c.index \in Nat
  /\ c.by # "close" => NextOpen(c.day) = {c.exec}
  /\ c.by \in {"rule", "model"} => RunStart \in opens /\ c.index = ScheduleIndex(RunStart, c.day)
  /\ c.by = "backtest" /\ RunStart \in opens /\ (\E s \in c.syms : master[s].list <= RunStart)
       => c.index = ScheduleIndex(RunStart, c.day)

HistoriesInv == \A c \in seen : Sound(c) /\ Bound(c)

\* A caller is shown a date once.
OneOfEach == \A a, b \in seen : a.day = b.day /\ a.by = b.by => a = b

\* A refusal has a cause in the data.
Caused(r) ==
  /\ r.by \in Callers /\ r.day \in Days /\ r.why \in Reasons \ {"portal", "lifecycle"}
  /\ r.by = "model" => /\ universe # {} /\ r.day <= today
                       /\ ~CleanUpTo(r.day) \/ ~AllAlive(r.day) \/ Holiday(r.day)

\* Inductive. The histories have to be stated without today: the tables a daily job
\* reads and those a later backtest reads differ, and only their agreement up to the
\* date asked for makes the two answers the same.
DataInv == Placed /\ HistoriesInv /\ OneOfEach /\ \A r \in refused : Caused(r)
-----------------------------------------------------------------------------
(* What it implies.                                                        *)

LEMMA HistoryFacts ==
  ASSUME World, NEW syms \in SUBSET Symbols, NEW d \in Days, NEW from \in Days
  PROVE  \A v : v \in HistoryOf(syms, d, from) <=>
           \E s \in syms, o \in Recent(d, from) : v = BarOf(s, o) /\ InHistory(s, o)
<1>1. ASSUME NEW v, v \in HistoryOf(syms, d, from)
      PROVE  \E s \in syms, o \in Recent(d, from) : v = BarOf(s, o) /\ InHistory(s, o)
  <2>1. PICK x \in syms \X Recent(d, from) : v = BarOf(x[1], x[2]) /\ InHistory(x[1], x[2])
    BY <1>1, Zenon DEF HistoryOf
  <2> QED
    BY <2>1
<1>2. ASSUME NEW v, NEW s \in syms, NEW o \in Recent(d, from), v = BarOf(s, o), InHistory(s, o)
      PROVE  v \in HistoryOf(syms, d, from)
  <2>1. <<s, o>> \in syms \X Recent(d, from) /\ <<s, o>>[1] = s /\ <<s, o>>[2] = o
    OBVIOUS
  <2> QED
    BY <1>2, <2>1, Zenon DEF HistoryOf
<1> QED
  BY <1>1, <1>2, Zenon

\* A view of a history.
LEMMA ViewFacts ==
  ASSUME Placed, NEW c \in seen, Sound(c), NEW v \in c.views
  PROVE  \E s \in c.syms, o \in opens :
           /\ v = BarOf(s, o) /\ InHistory(s, o) /\ v.symbol = s /\ v.day = o
           /\ c.loaded <= o /\ o <= c.day /\ o \in Recent(c.day, c.loaded)
           /\ o \in Days /\ s \in Symbols
<1>1. v \in HistoryOf(c.syms, c.day, c.loaded) /\ c.syms \in SUBSET Symbols /\ c.day \in Days /\ c.loaded \in Days
  BY DEF Sound, Placed, World
<1>2. PICK s \in c.syms, o \in Recent(c.day, c.loaded) : v = BarOf(s, o) /\ InHistory(s, o)
  <2>1. \A x : x \in HistoryOf(c.syms, c.day, c.loaded) <=>
          \E s \in c.syms, o \in Recent(c.day, c.loaded) : x = BarOf(s, o) /\ InHistory(s, o)
    BY <1>1, HistoryFacts DEF Placed
  <2> QED
    BY <1>1, <2>1, Zenon
<1>3. v.symbol = s /\ v.day = o
  <2>1. BarOf(s, o).symbol = s /\ BarOf(s, o).day = o
    BY DEF BarOf
  <2> QED
    BY <1>2, <2>1, Zenon
<1>4. o \in opens /\ c.loaded <= o /\ o <= c.day
  BY DEF Recent
<1> QED
  BY <1>1, <1>2, <1>3, <1>4 DEF Placed, World

\* A view that was carried is of an isolated gap.
LEMMA CarryFacts ==
  ASSUME Placed, NEW s \in Symbols, NEW o \in Days, InHistory(s, o)
  PROVE  /\ BarOf(s, o).price # o => Isolated(s, o)
         /\ ~Isolated(s, o) => BarOf(s, o).price = o
         /\ Isolated(s, o) => /\ BarOf(s, o).price = CarryOf(o) /\ CarryOf(o) \in opens /\ CarryOf(o) < o
                              /\ PrevOpen(o) = {CarryOf(o)} /\ Whole(s, CarryOf(o)) /\ BarOf(s, o).suspended
                              /\ NextOpen(o) # {} /\ \A n \in NextOpen(o) : Whole(s, n)
<1>1. ASSUME ~Isolated(s, o) PROVE BarOf(s, o).price = o
  BY <1>1 DEF InHistory, BarOf
<1>2. ASSUME Isolated(s, o)
      PROVE  /\ BarOf(s, o).price = CarryOf(o) /\ CarryOf(o) \in opens /\ CarryOf(o) < o
             /\ PrevOpen(o) = {CarryOf(o)} /\ Whole(s, CarryOf(o)) /\ BarOf(s, o).suspended
             /\ NextOpen(o) # {} /\ \A n \in NextOpen(o) : Whole(s, n)
  <2>1. PICK p \in PrevOpen(o) : Whole(s, p)
    BY <1>2 DEF Isolated
  <2>2. p \in opens /\ p < o /\ PrevOpen(o) = {p} /\ CarryOf(o) = p
    BY <2>1, CalendarFacts DEF Placed
  <2>3. PICK n \in NextOpen(o) : Whole(s, n)
    BY <1>2 DEF Isolated
  <2>4. NextOpen(o) = {n}
    BY <2>3, CalendarFacts DEF Placed
  <2>5. Cells(s, o).raw # "full"
    BY <1>2 DEF Isolated
  <2>6. BarOf(s, o).price = CarryOf(o) /\ BarOf(s, o).suspended
    BY <2>5 DEF BarOf
  <2> QED
    BY <2>1, <2>2, <2>3, <2>4, <2>6
<1> QED
  BY <1>1, <1>2

LEMMA InvNoLookAhead == DataInv => NoLookAhead
<1> SUFFICES ASSUME DataInv, NEW c \in seen, NEW v \in c.views PROVE v.day <= c.day /\ v.price <= v.day
  BY DEF NoLookAhead
<1>1. Placed /\ Sound(c)
  BY DEF DataInv, HistoriesInv
<1>2. PICK s \in c.syms, o \in opens :
        /\ v = BarOf(s, o) /\ InHistory(s, o) /\ v.day = o /\ o <= c.day /\ o \in Days /\ s \in Symbols
  BY <1>1, ViewFacts
<1>3. v.price <= o
  <2>1. o \in Int
    BY <1>2, DayAssumption DEF Days
  <2>2. CASE Isolated(s, o)
    <3>1. CarryOf(o) \in Int
      <4>1. CarryOf(o) \in opens
        BY <1>1, <1>2, <2>2, CarryFacts
      <4> QED
        BY <1>1, <4>1, OpenDays DEF Placed
    <3> QED
      BY <1>1, <1>2, <2>1, <2>2, <3>1, CarryFacts
  <2>3. CASE ~Isolated(s, o)
    BY <1>1, <1>2, <2>1, <2>3, CarryFacts
  <2> QED
    BY <2>2, <2>3
<1> QED
  BY <1>2, <1>3

LEMMA InvStable == DataInv => HistoryIsStable
<1>1. ASSUME DataInv, NEW a \in seen, NEW b \in seen, a.day = b.day, NEW v \in a.views,
             v.symbol \in a.syms \cap b.syms, v.day >= a.loaded, v.day >= b.loaded
      PROVE  v \in b.views
  <2>1. Placed /\ Sound(a) /\ Sound(b)
    BY <1>1 DEF DataInv, HistoriesInv
  <2>2. PICK s \in a.syms, o \in opens :
          /\ v = BarOf(s, o) /\ InHistory(s, o) /\ v.symbol = s /\ v.day = o /\ o \in Recent(a.day, a.loaded)
    BY <2>1, ViewFacts
  <2>3. o \in Recent(b.day, b.loaded) /\ s \in b.syms
    BY <1>1, <2>2 DEF Recent
  <2>4. v \in HistoryOf(b.syms, b.day, b.loaded)
    BY <2>1, <2>2, <2>3, HistoryFacts DEF Sound, Placed, World
  <2> QED
    BY <2>1, <2>4 DEF Sound
<1> SUFFICES ASSUME DataInv, NEW a \in seen, NEW b \in seen, a.day = b.day
             PROVE  Shared(a, b, a) = Shared(a, b, b)
  BY DEF HistoryIsStable
<1>2. \A v \in a.views : v \in Shared(a, b, a) => v \in Shared(a, b, b)
  BY <1>1 DEF Shared
<1>3. \A v \in b.views : v \in Shared(a, b, b) => v \in Shared(a, b, a)
  BY <1>1 DEF Shared
<1> QED
  BY <1>2, <1>3 DEF Shared

LEMMA InvCarries == DataInv => CarriesAreIsolated
<1> SUFFICES ASSUME DataInv, NEW c \in seen, NEW v \in c.views, v.price # v.day
             PROVE  /\ v.suspended /\ PrevOpen(v.day) = {v.price}
                    /\ \A n \in PrevOpen(v.day) \cup NextOpen(v.day) : FullRaw(v.symbol, n) /\ HasFront(v.symbol, n)
                    /\ NextOpen(v.day) # {}
  BY DEF CarriesAreIsolated
<1>1. Placed /\ Sound(c)
  BY DEF DataInv, HistoriesInv
<1>2. PICK s \in c.syms, o \in opens :
        /\ v = BarOf(s, o) /\ InHistory(s, o) /\ v.symbol = s /\ v.day = o
        /\ o <= c.day /\ o \in Days /\ s \in Symbols
  BY <1>1, ViewFacts
<1>3. Isolated(s, o)
  BY <1>1, <1>2, CarryFacts
<1>4. /\ v.suspended /\ PrevOpen(o) = {v.price} /\ v.price \in opens /\ v.price < o
      /\ Whole(s, v.price) /\ NextOpen(o) # {} /\ \A n \in NextOpen(o) : Whole(s, n)
  BY <1>1, <1>2, <1>3, CarryFacts
<1>5. c.day <= today /\ \A n \in NextOpen(o) : n <= today
  BY <1>1, <1>2 DEF Sound
<1>6. ASSUME NEW n \in PrevOpen(o) \cup NextOpen(o) PROVE n \in Days /\ n <= today /\ Whole(s, n)
  <2>0. /\ opens \subseteq Days /\ Days \subseteq Int /\ today \in Days /\ c.day \in opens
    BY <1>1, DayAssumption DEF Placed, World, Days, Sound
  <2>1. CASE n \in PrevOpen(o)
    <3>1. n = v.price
      BY <1>4, <2>1
    <3>2. n \in Int /\ o \in Int /\ c.day \in Int /\ today \in Int /\ n \in Days
      BY <3>1, <1>2, <1>4, <2>0
    <3> QED
      BY <3>1, <3>2, <1>2, <1>4, <1>5
  <2>2. CASE n \in NextOpen(o)
    BY <1>1, <1>2, <1>4, <1>5, <2>2, CalendarFacts DEF Placed
  <2> QED
    BY <2>1, <2>2
<1>7. \A n \in PrevOpen(o) \cup NextOpen(o) : FullRaw(s, n) /\ HasFront(s, n)
  BY <1>1, <1>2, <1>6, SeenFacts DEF Whole
<1> QED
  BY <1>2, <1>4, <1>7

LEMMA InvSchedules == DataInv => SchedulesAgree
<1> SUFFICES ASSUME DataInv, NEW a \in seen, NEW b \in seen, a.by # "close", b.by # "close", a.day = b.day
             PROVE  /\ a.exec = b.exec
                    /\ (\E s \in a.syms \cap b.syms : master[s].list <= RunStart) => a.index = b.index
  BY DEF SchedulesAgree
<1>1. Bound(a) /\ Bound(b) /\ a.by \in Callers /\ b.by \in Callers
  BY DEF DataInv, HistoriesInv, Sound
<1>2. a.exec = b.exec
  BY <1>1 DEF Bound
<1>3. ASSUME NEW s \in a.syms \cap b.syms, master[s].list <= RunStart PROVE a.index = b.index
  <2>1. CASE a.by = b.by
    BY <2>1 DEF DataInv, OneOfEach
  <2>2. CASE a.by # b.by
    <3>1. RunStart \in opens
      BY <1>1, <2>2 DEF Bound, Callers
    <3> QED
      BY <1>1, <1>3, <3>1 DEF Bound, Callers
  <2> QED
    BY <2>1, <2>2
<1> QED
  BY <1>2, <1>3

LEMMA InvTypes == DataInv => TypeOK
<1> SUFFICES ASSUME DataInv PROVE TypeOK
  OBVIOUS
<1>1. ASSUME NEW c \in seen, NEW v \in c.views
      PROVE  v \in [symbol : c.syms, day : opens, price : opens, suspended : BOOLEAN]
  <2>1. Placed /\ Sound(c)
    BY DEF DataInv, HistoriesInv
  <2>2. PICK s \in c.syms, o \in opens :
          /\ v = BarOf(s, o) /\ InHistory(s, o) /\ v.day = o /\ o \in Days /\ s \in Symbols
    BY <2>1, ViewFacts
  <2>3. v.price \in opens
    BY <2>1, <2>2, CarryFacts
  <2>4. v = [symbol |-> s, day |-> o, price |-> v.price, suspended |-> v.suspended] /\ v.suspended \in BOOLEAN
    BY <2>2 DEF BarOf
  <2> QED
    BY <2>2, <2>3, <2>4
<1>2. \A c \in seen : /\ c.by \in Callers /\ c.day \in opens /\ c.exec \in opens /\ c.index \in Nat
                      /\ c.syms \subseteq Symbols /\ c.loaded \in Days
                      /\ c.views \subseteq [symbol : c.syms, day : opens, price : opens, suspended : BOOLEAN]
  BY <1>1 DEF DataInv, HistoriesInv, Sound, Bound
<1>3. \A r \in refused : r.by \in Callers /\ r.day \in Days /\ r.why \in Reasons
  BY DEF DataInv, Caused
<1> QED
  BY <1>2, <1>3 DEF DataInv, Placed, World, TypeOK

LEMMA InvSlices == DataInv => SlicesInv
<1> SUFFICES ASSUME DataInv PROVE SlicesInv
  OBVIOUS
<1>1. PortalNeverRefuses /\ FrozenLivesAreAccepted /\ ModelSignalsAreMade
  BY DEF DataInv, Caused, PortalNeverRefuses, FrozenLivesAreAccepted, ModelSignalsAreMade
<1> QED
  BY <1>1, InvTypes, InvStable, InvCarries, InvSchedules DEF SlicesInv
-----------------------------------------------------------------------------
(* What a step keeps.                                                      *)

LEMMA DayCount ==
  ASSUME World, NEW T \in SUBSET opens
  PROVE  Cardinality(T) \in Nat /\ (T # {} => Cardinality(T) - 1 \in Nat)
<1>1. IsFiniteSet(Days)
  BY FS_Interval, DayAssumption DEF Days
<1>2. IsFiniteSet(T)
  BY <1>1, FS_Subset DEF World
<1>3. Cardinality(T) \in Nat /\ (T # {} => Cardinality(T) # 0)
  BY <1>2, FS_CardinalityType, FS_EmptySet
<1> QED
  BY <1>3

LEMMA HistoryKept ==
  ASSUME UNCHANGED <<opens, master, table>>, NEW syms, NEW d, NEW from
  PROVE  HistoryOf(syms, d, from)' = HistoryOf(syms, d, from)
<1>1. /\ \A s, o : BarOf(s, o)' = BarOf(s, o)
      /\ \A s, o : InHistory(s, o)' = InHistory(s, o)
      /\ Recent(d, from)' = Recent(d, from)
  BY DEF BarOf, InHistory, Recent, Isolated, InLife, Whole, Cells, CarryOf, PrevOpen, NextOpen
<1> QED
  BY <1>1 DEF HistoryOf

LEMMA SoundKept ==
  ASSUME Placed, today' \in Days, today <= today', UNCHANGED <<opens, master, table>>, NEW c, Sound(c), Bound(c)
  PROVE  Sound(c)' /\ Bound(c)'
<1>1. HistoryOf(c.syms, c.day, c.loaded)' = HistoryOf(c.syms, c.day, c.loaded)
  BY HistoryKept
<1>2. /\ opens \subseteq Nat /\ today \in Nat /\ today' \in Nat
      /\ \A d : NextOpen(d)' = NextOpen(d) /\ NextOpen(d) \subseteq opens
  BY OpenDays DEF Placed, NextOpen
<1>3. Sound(c)'
  <2>1. c.day \in opens' /\ c.day <= today' /\ c.views = HistoryOf(c.syms, c.day, c.loaded)'
    <3>1. c.day \in opens /\ c.day <= today /\ c.views = HistoryOf(c.syms, c.day, c.loaded)
      BY DEF Sound
    <3>2. c.day \in Nat /\ today \in Nat /\ today' \in Nat
      BY <1>2, <3>1
    <3>3. c.day <= today'
      BY <3>1, <3>2
    <3> QED
      BY <1>1, <3>1, <3>3
  <2>2. ASSUME NEW v \in c.views, v.price # v.day, NEW n \in NextOpen(v.day)' PROVE n <= today'
    <3>1. n \in NextOpen(v.day) /\ n \in Nat
      BY <1>2, <2>2
    <3>2. n <= today
      BY <2>2, <3>1 DEF Sound
    <3> QED
      BY <1>2, <3>1, <3>2
  <2> QED
    BY <2>1, <2>2 DEF Sound
<1>4. Bound(c)'
  BY DEF Bound, NextOpen, ScheduleIndex
<1> QED
  BY <1>3, <1>4

LEMMA CausedKept ==
  ASSUME Placed, today' \in Days, today <= today', UNCHANGED <<opens, master, table>>,
         universe # {} => universe' = universe, NEW r, Caused(r)
  PROVE  Caused(r)'
<1>1. CASE r.by # "model"
  BY <1>1 DEF Caused
<1>2. CASE r.by = "model"
  <2>1. universe # {} /\ universe' = universe /\ r.day \in Days /\ r.day <= today /\ r.day <= today'
    BY <1>2, OpenDays DEF Caused, Placed
  <2>2. \A s \in Symbols : \A e \in 1 .. r.day : FullRaw(s, e)' = FullRaw(s, e) /\ HasFront(s, e)' = HasFront(s, e)
    BY <2>1, OpenDays DEF FullRaw, HasFront, Cells, Placed
  <2>3. CleanUpTo(r.day)' = CleanUpTo(r.day)
    <3>1. universe \subseteq Symbols
      BY DEF Placed
    <3>2. \A s \in universe, e \in 1 .. r.day :
            /\ FullRaw(s, e)' = FullRaw(s, e) /\ HasFront(s, e)' = HasFront(s, e)
            /\ Quoted(s, e)' = Quoted(s, e)
      BY <2>2, <3>1 DEF Quoted, Cells
    <3> QED
      BY <2>1, <3>2 DEF CleanUpTo
  <2>4. AllAlive(r.day)' = AllAlive(r.day) /\ Holiday(r.day)' = Holiday(r.day)
    BY <2>1 DEF AllAlive, Holiday, NextTradingDay, NextOpen
  <2> QED
    BY <1>2, <2>1, <2>3, <2>4 DEF Caused
<1> QED
  BY <1>1, <1>2

\* What is shown for a date is kept beside what others were shown for it.
LEMMA ShowKeeps ==
  ASSUME DataInv, UNCHANGED <<opens, master, table, today, universe>>,
         NEW c, Sound(c), Bound(c), Show(c)
  PROVE  DataInv'
<1>1. Placed /\ Placed'
  BY DEF DataInv, Placed, World
<1>2. today \in Nat
  BY <1>1, OpenDays DEF Placed
<1>3. \A x : Sound(x) /\ Bound(x) => Sound(x)' /\ Bound(x)'
  BY <1>1, <1>2, SoundKept DEF Placed
<1>4. seen' = {x \in seen : x.day = c.day /\ x.by # c.by} \cup {c} /\ refused' = {}
  BY DEF Show
<1>5. HistoriesInv'
  <2> SUFFICES ASSUME NEW x \in seen' PROVE Sound(x)' /\ Bound(x)'
    BY DEF HistoriesInv
  <2>1. Sound(x) /\ Bound(x)
    BY <1>4 DEF DataInv, HistoriesInv
  <2> QED
    BY <1>3, <2>1
<1>6. OneOfEach'
  BY <1>4 DEF DataInv, OneOfEach
<1> QED
  BY <1>1, <1>4, <1>5, <1>6 DEF DataInv

LEMMA RefuseKeeps ==
  ASSUME DataInv, UNCHANGED <<opens, master, table, today, universe>>,
         NEW by, NEW d, NEW why, Caused([by |-> by, day |-> d, why |-> why]), Refuse(by, d, why)
  PROVE  DataInv'
<1>1. Placed /\ Placed' /\ today \in Nat
  BY OpenDays DEF DataInv, Placed, World
<1>2. \A x : Sound(x) /\ Bound(x) => Sound(x)' /\ Bound(x)'
  BY <1>1, SoundKept DEF Placed
<1>3. \A x : Caused(x) => Caused(x)'
  BY <1>1, CausedKept DEF Placed
<1>4. refused' = {[by |-> by, day |-> d, why |-> why]} /\ seen' = seen
  BY DEF Refuse
<1>5. HistoriesInv' /\ OneOfEach'
  BY <1>2, <1>4 DEF DataInv, HistoriesInv, OneOfEach
<1>6. \A r \in refused' : Caused(r)'
  BY <1>3, <1>4
<1> QED
  BY <1>1, <1>5, <1>6 DEF DataInv

LEMMA DataInit == Init => DataInv
<1> SUFFICES ASSUME Init PROVE DataInv
  OBVIOUS
<1>1. World
  BY WorldAssumption DEF Init, World
<1>2. today \in Days
  BY RunAssumption, DayAssumption DEF Init, Days
<1> QED
  BY <1>1, <1>2 DEF Init, DataInv, Placed, HistoriesInv, OneOfEach

LEMMA NextDayKeeps == DataInv /\ NextDay => DataInv'
<1> SUFFICES ASSUME DataInv, NextDay PROVE DataInv'
  OBVIOUS
<1>1. Placed /\ Placed' /\ today <= today' /\ today' \in Days
  BY DayAssumption DEF DataInv, Placed, World, NextDay, Days
<1>2. \A x : Sound(x) /\ Bound(x) => Sound(x)' /\ Bound(x)'
  BY <1>1, SoundKept DEF NextDay
<1>3. \A x : Caused(x) => Caused(x)'
  BY <1>1, CausedKept DEF NextDay
<1> QED
  BY <1>1, <1>2, <1>3 DEF DataInv, HistoriesInv, OneOfEach, NextDay

LEMMA BuildKeeps == DataInv /\ BuildService => DataInv'
<1> SUFFICES ASSUME DataInv, BuildService PROVE DataInv'
  OBVIOUS
<1>1. Placed /\ Placed' /\ today <= today' /\ today' \in Days
  BY OpenDays DEF DataInv, Placed, World, BuildService, Members
<1>2. \A x : Sound(x) /\ Bound(x) => Sound(x)' /\ Bound(x)'
  BY <1>1, SoundKept DEF BuildService
<1>3. \A x : Caused(x) => Caused(x)'
  BY <1>1, CausedKept DEF BuildService
<1> QED
  BY <1>1, <1>2, <1>3 DEF DataInv, HistoriesInv, OneOfEach, BuildService
-----------------------------------------------------------------------------
(* Loading a slice.                                                        *)

LEMMA RefusalFacts ==
  ASSUME NEW syms, NEW lives, NEW bars, NEW from, NEW to
  PROVE  /\ Refusal(syms, lives, bars, from, to) \in
              {"no symbols", "lifecycle", "calendar", "one-to-one", "coverage", "limits", "none"}
         /\ Refusal(syms, lives, bars, from, to) = "none" => Covered(syms, lives, bars, from, to)
         /\ LivesAgree(syms, lives) => Refusal(syms, lives, bars, from, to) # "lifecycle"
         /\ /\ syms # {} /\ LivesAgree(syms, lives) /\ from .. to \subseteq Days /\ OneToOne(syms, from, to)
            /\ Covered(syms, lives, bars, from, to) /\ \A b \in bars : WithinLimits(b)
            => Refusal(syms, lives, bars, from, to) = "none"
BY DEF Refusal

LEMMA MasterAgrees ==
  ASSUME NEW syms
  PROVE  LivesAgree(syms, MasterLives(syms))
BY DEF LivesAgree, MasterLives

LEMMA FrozenEndUnique ==
  ASSUME Placed, NEW s \in Symbols, NEW x \in FrozenEnd(s)
  PROVE  FrozenEnd(s) = {x} /\ x \in Int
<1>0. x \in Int
  <2>1. LastRawDate(s) \subseteq Int /\ DelistDate(s) \in Int
    <3>1. master[s].end \in Int /\ Never \in Int
      BY DayAssumption, OpenDays DEF Placed, World, Master, Never
    <3>2. DelistDate(s) \in Int
      BY <3>1 DEF DelistDate
    <3>3. LastRawDate(s) \subseteq Days
      BY DEF LastRawDate
    <3> QED
      BY <3>2, <3>3, OpenDays DEF Placed
  <2> QED
    BY <2>1 DEF FrozenEnd
<1>1. \A y \in FrozenEnd(s) : y = x
  <2>1. CASE Delisted(s) /\ DelistDate(s) = Never
    <3>1. FrozenEnd(s) \subseteq LastRawDate(s)
      BY <2>1 DEF FrozenEnd
    <3>2. \A y, z \in LastRawDate(s) : y \in Days /\ z \in Days /\ y <= z
      BY DEF LastRawDate
    <3>3. \A y, z \in LastRawDate(s) : y = z
      BY <3>2, OpenDays DEF Placed
    <3> QED
      BY <3>1, <3>3
  <2>2. CASE ~(Delisted(s) /\ DelistDate(s) = Never)
    BY <2>2 DEF FrozenEnd
  <2> QED
    BY <2>1, <2>2
<1> QED
  BY <1>0, <1>1

LEMMA FrozenAgrees ==
  ASSUME Placed, Resolvable, NEW syms \in SUBSET Symbols
  PROVE  LivesAgree(syms, FrozenLives(syms))
<1>1. ASSUME NEW s \in syms, DelistDate(s) # Never PROVE FrozenLives(syms)[s].to = DelistDate(s)
  <2>1. FrozenEnd(s) = {DelistDate(s)}
    BY <1>1 DEF FrozenEnd
  <2>2. FrozenLives(syms)[s].to = CHOOSE end \in FrozenEnd(s) : TRUE
    BY DEF FrozenLives
  <2> QED
    BY <2>1, <2>2
<1>2. \A s \in syms : FrozenLives(syms)[s].from = master[s].list
  BY DEF FrozenLives
<1> QED
  BY <1>1, <1>2 DEF LivesAgree

\* What the repository covers the portal covers.
LEMMA PortalFacts ==
  ASSUME World, NEW syms, NEW lives, NEW from \in Int, NEW to \in Int,
         Covered(syms, lives, Bars(syms, from, to), from, to)
  PROVE  PortalAgrees(syms, lives, Bars(syms, from, to), from, to)
<1> DEFINE bars == Bars(syms, from, to)
<1> SUFFICES ASSUME NEW d \in opens \cap (from .. to)
             PROVE  {b.symbol : b \in {x \in bars : x.day = d}} = {s \in syms : Alive(lives[s], d)}
  BY DEF PortalAgrees
<1>1. ASSUME NEW b \in bars, b.day = d PROVE b.symbol \in syms /\ Alive(lives[b.symbol], d)
  BY <1>1, BarsFacts, CoveredFacts
<1>2. ASSUME NEW s \in syms, Alive(lives[s], d) PROVE \E b \in bars : b.day = d /\ b.symbol = s
  <2>1. Bar(s, d) \in bars
    BY <1>2, CoveredFacts
  <2>2. Bar(s, d).symbol = s /\ Bar(s, d).day = d
    BY DEF Bar
  <2> QED
    BY <2>1, <2>2
<1> HIDE DEF bars
<1> QED
  BY <1>1, <1>2

\* When the tables hold what they should, a model signal is made.
LEMMA ModelMade ==
  ASSUME Placed, universe # {}, today \in opens, CleanUpTo(today), AllAlive(today), NEW from \in Days, from <= today
  PROVE  LET bars == Bars(universe, from, today)
         IN /\ Refusal(universe, MasterLives(universe), bars, from, today) = "none"
            /\ ~NoOpenDay(from, today) /\ ShownOn(bars, today) = universe
<1> DEFINE bars == Bars(universe, from, today)
           lives == MasterLives(universe)
<1>0. /\ World /\ opens \subseteq Days /\ Days \subseteq Nat /\ today \in Days /\ today \in Nat /\ from \in Nat
      /\ universe \subseteq Symbols /\ 1 <= from
  BY OpenDays DEF Placed, Days
<1>1. from .. today \subseteq Days /\ from .. today \subseteq 1 .. today
  BY <1>0, DayAssumption DEF Days
<1>2. ASSUME NEW s \in universe, NEW e \in 1 .. today
      PROVE  IF e \in opens /\ master[s].list <= e THEN FullRaw(s, e) /\ HasFront(s, e) /\ Cells(s, e).limit \in {"none", "inside"}
                                                   ELSE ~FullRaw(s, e) /\ ~HasFront(s, e)
  <2>1. e \in Nat /\ e <= today /\ e \in Days
    BY <1>0, DayAssumption DEF Days
  <2>2. master[s].end \in Int /\ e <= master[s].end
    BY <1>0, <2>1, DayAssumption DEF AllAlive, World, Master, Never, Days
  <2>3. Alive([from |-> master[s].list, to |-> master[s].end], e) <=> master[s].list <= e
    BY <2>2 DEF Alive
  <2>4. Quoted(s, e) => FullRaw(s, e) /\ HasFront(s, e) /\ Cells(s, e).limit \in {"none", "inside"}
    BY <2>1 DEF Quoted, FullRaw, HasFront
  <2> QED
    BY <2>3, <2>4 DEF CleanUpTo
<1>3. ASSUME NEW s \in universe, NEW e \in from .. today PROVE ~Carried(s, e, from, today)
  <2> SUFFICES ASSUME Carried(s, e, from, today) PROVE FALSE
    OBVIOUS
  <2>1. e \in Days /\ e <= today /\ e \in 1 .. today /\ s \in Symbols
    BY <1>0, <1>1
  <2>2. Isolated(s, e)
    BY <2>1, CarriedFacts
  <2>3. PICK p \in PrevOpen(e) : Complete(s, p, from, today)
    BY DEF Carried
  <2>4. p \in Days /\ p < e
    BY <1>0, <2>1, <2>3, CalendarFacts
  <2>5. p \in 1 .. today /\ p \in Nat /\ e \in Nat
    BY <1>0, <2>1, <2>4 DEF Days
  <2>6. master[s].list <= p /\ master[s].list \in Nat
    BY <1>0, <1>2, <2>1, <2>3, <2>5 DEF Complete, World, Master
  <2>7. FullRaw(s, e)
    BY <1>2, <2>1, <2>2, <2>4, <2>5, <2>6 DEF Isolated
  <2> QED
    BY <2>1, <2>2, <2>7, SeenFacts DEF Isolated
<1>4. ASSUME NEW s \in universe, NEW e \in from .. today
      PROVE  Alive(lives[s], e) <=> master[s].list <= e
  <2>1. e \in Nat /\ e <= today /\ e \in Days /\ e < Never
    BY <1>0, <1>1, DayAssumption DEF Days, Never
  <2>2. master[s].end \in Int /\ today < master[s].end
    BY <1>0, DayAssumption DEF AllAlive, World, Master, Never, Days
  <2>3. DelistDate(s) = Never
    BY <1>0, <2>2 DEF DelistDate, Delisted
  <2>4. lives[s].from = master[s].list /\ lives[s].to = Never
    BY <2>3 DEF MasterLives
  <2>5. e <= Never
    BY <2>1, DayAssumption DEF Never
  <2> HIDE DEF lives
  <2> QED
    BY <2>4, <2>5 DEF Alive
<1>5. \A s \in universe, e \in from .. today : Bar(s, e) \in bars <=> e \in opens /\ Alive(lives[s], e)
  <2> SUFFICES ASSUME NEW s \in universe, NEW e \in from .. today
               PROVE  Bar(s, e) \in bars <=> e \in opens /\ Alive(lives[s], e)
    OBVIOUS
  <2>1. e \in 1 .. today
    BY <1>1
  <2>2. Bar(s, e) \in bars <=> FullRaw(s, e)
    <3>1. Bar(s, e).symbol = s /\ Bar(s, e).day = e
      BY DEF Bar
    <3> QED
      BY <3>1, <1>0, <1>3, BarsFacts
  <2> QED
    BY <1>2, <1>4, <2>1, <2>2
<1>6. Covered(universe, lives, bars, from, today)
  <2> SUFFICES ASSUME NEW x
               PROVE  x \in {<<b.symbol, b.day>> : b \in bars} <=> x \in Expected(universe, lives, from, today)
    BY DEF Covered
  <2>1. ASSUME NEW b \in bars PROVE <<b.symbol, b.day>> \in Expected(universe, lives, from, today)
    <3>1. b.symbol \in universe /\ b.day \in from .. today /\ b = Bar(b.symbol, b.day)
      BY <1>0, BarsFacts
    <3>2. b.day \in opens /\ Alive(lives[b.symbol], b.day)
      BY <1>5, <3>1
    <3> QED
      BY <3>1, <3>2 DEF Expected
  <2>2. ASSUME x \in Expected(universe, lives, from, today) PROVE \E b \in bars : x = <<b.symbol, b.day>>
    <3>1. PICK s \in universe, e \in opens \cap (from .. today) : x = <<s, e>> /\ Alive(lives[s], e)
      BY <2>2 DEF Expected
    <3>2. Bar(s, e) \in bars
      BY <1>5, <3>1
    <3>3. Bar(s, e).symbol = s /\ Bar(s, e).day = e
      BY DEF Bar
    <3> QED
      BY <3>1, <3>2, <3>3
  <2> HIDE DEF bars
  <2> QED
    BY <2>1, <2>2
<1>7. \A b \in bars : WithinLimits(b)
  <2> SUFFICES ASSUME NEW b \in bars PROVE WithinLimits(b)
    OBVIOUS
  <2>1. b.symbol \in universe /\ b.day \in from .. today /\ FullRaw(b.symbol, b.day)
    BY <1>0, <1>3, BarsFacts
  <2> QED
    BY <1>1, <1>2, <2>1 DEF WithinLimits
<1>8. OneToOne(universe, from, today)
  BY <1>1, <1>2 DEF OneToOne
<1>9. Refusal(universe, lives, bars, from, today) = "none"
  BY <1>1, <1>6, <1>7, <1>8, MasterAgrees, RefusalFacts
<1>10. ~NoOpenDay(from, today)
  BY <1>0 DEF NoOpenDay
<1>11. ShownOn(bars, today) = universe
  <2>1. \A b \in bars : b.symbol \in universe
    <3>1. from \in Int /\ today \in Int
      BY <1>0
    <3> QED
      BY <3>1, BarsFacts
  <2>2. ASSUME NEW s \in universe PROVE \E b \in bars : b.day = today /\ b.symbol = s
    <3>1. today \in from .. today /\ master[s].list <= today
      BY <1>0 DEF AllAlive
    <3>2. Bar(s, today) \in bars
      BY <1>4, <1>5, <3>1
    <3>3. Bar(s, today).symbol = s /\ Bar(s, today).day = today
      BY DEF Bar
    <3> QED
      BY <3>2, <3>3
  <2> HIDE DEF bars
  <2> QED
    BY <2>1, <2>2 DEF ShownOn
<1> QED
  BY <1>9, <1>10, <1>11
-----------------------------------------------------------------------------
(* The requests.                                                           *)

LEMMA RangeFacts ==
  ASSUME NEW d \in Days
  PROVE  /\ WindowStart(d) \in Days /\ WindowStart(d) <= d
         /\ RunStart \in Days /\ RunEnd \in Days /\ d \in Nat /\ d + Horizon \in Nat /\ d <= d + Horizon
BY DayAssumption, RunAssumption DEF WindowStart, Greatest, Days

LEMMA ScheduleFacts ==
  ASSUME World, NEW d \in opens, RunStart <= d
  PROVE  ScheduleIndex(RunStart, d) \in Nat
<1>1. d \in {o \in opens : RunStart <= o /\ o <= d}
  BY OpenDays
<1> QED
  BY <1>1, DayCount, Zenon DEF ScheduleIndex

LEMMA SignalKeeps ==
  ASSUME DataInv, NEW by \in {"rule", "model"}, Signal(by)
  PROVE  DataInv'
<1> DEFINE from == LoadStart(by, today)
           to == LoadEnd(by, today)
           lives == MasterLives(universe)
           bars == Bars(universe, from, to)
           slice == Refusal(universe, lives, bars, from, to)
           next == NextTradingDay(today, today + Horizon)
           context == Context(by, universe, bars, today, from, to, LeastOf(next), ScheduleIndex(RunStart, today))
           refusal(why) == [by |-> by, day |-> today, why |-> why]
<1>0. /\ Placed /\ World /\ today \in Days /\ today \in Nat /\ universe # {} /\ universe \in SUBSET Symbols
      /\ today \in opens /\ RunStart \in opens /\ RunStart <= today
  BY OpenDays DEF DataInv, Placed, Signal, SignalDue
<1>1. from \in Days /\ from \in Int /\ from <= today /\ to \in Nat /\ to \in Int /\ today <= to
  <2>1. /\ WindowStart(today) \in Days /\ WindowStart(today) <= today /\ RunStart \in Days
        /\ today + Horizon \in Nat /\ today <= today + Horizon
    BY <1>0, RangeFacts
  <2>2. /\ from = IF by = "rule" THEN RunStart ELSE WindowStart(today)
        /\ to = IF by = "rule" THEN today + Horizon ELSE today
    BY Zenon DEF LoadStart, LoadEnd
  <2> HIDE DEF from, to
  <2>3. from \in Days /\ from <= today
    BY <1>0, <2>1, <2>2
  <2>4. to \in Nat /\ today <= to
    BY <1>0, <2>1, <2>2
  <2> QED
    BY <1>0, <2>3, <2>4, OpenDays
<1> HIDE DEF from, to
<1>2. UNCHANGED <<opens, master, table, today, universe>>
  BY DEF Signal
<1>3. CASE /\ slice = "none" /\ PortalAgrees(universe, lives, bars, from, to) /\ next # {} /\ Show(context)
  <2>1. Covered(universe, lives, bars, from, to)
    BY <1>3, RefusalFacts
  <2>2. Fit(universe, lives, from, today)
    <3>1. today <= today
      BY <1>0
    <3> QED
      BY <1>0, <1>1, <3>1, MasterFits DEF lives
  <2>3. /\ ViewsThrough(bars, today, from, to) = HistoryOf(universe, today, from)
        /\ \A v \in HistoryOf(universe, today, from) : v.price # v.day => \A n \in NextOpen(v.day) : n <= today
    <3>1. today <= today
      BY <1>0
    <3> QED
      BY <1>0, <1>1, <2>1, <2>2, <3>1, SliceIsHistory DEF bars
  <2>4. PICK n \in NextOpen(today) : n \in next
    BY <1>3 DEF NextTradingDay
  <2>5. n \in opens /\ NextOpen(today) = {n}
    BY <1>0, <2>4, CalendarFacts
  <2>6. next = {n}
    BY <2>4, <2>5 DEF NextTradingDay
  <2>7. LeastOf(next) = n
    BY <2>5, <2>6, <1>0, OpenDays, LeastOfIs
  <2>8. /\ context.by = by /\ context.day = today /\ context.syms = universe /\ context.loaded = from
        /\ context.views = ViewsThrough(bars, today, from, to) /\ context.exec = n
        /\ context.index = ScheduleIndex(RunStart, today)
    BY <2>7 DEF Context
  <2> HIDE DEF context, bars, next, lives
  <2>9. Sound(context)
    BY <1>0, <1>1, <2>3, <2>8 DEF Sound, Callers
  <2>10. Bound(context)
    BY <1>0, <2>5, <2>8, ScheduleFacts DEF Bound
  <2> QED
    BY <1>2, <1>3, <2>9, <2>10, ShowKeeps
<1>4. ASSUME NEW why \in Reasons \ {"portal", "lifecycle"}, Refuse(by, today, why),
             by = "model" => ~CleanUpTo(today) \/ ~AllAlive(today) \/ Holiday(today)
      PROVE  DataInv'
  <2>1. Caused(refusal(why))
    BY <1>0, <1>4 DEF Caused, Callers
  <2> QED
    BY <1>2, <1>4, <2>1, RefuseKeeps
<1>5. slice = "none" => PortalAgrees(universe, lives, bars, from, to)
  <2> SUFFICES ASSUME slice = "none" PROVE PortalAgrees(universe, lives, bars, from, to)
    OBVIOUS
  <2>1. Covered(universe, lives, bars, from, to)
    BY RefusalFacts
  <2> QED
    BY <1>0, <1>1, <2>1, PortalFacts
<1>6. slice # "none" => slice \in Reasons \ {"portal", "lifecycle"}
  <2>1. /\ slice \in {"no symbols", "lifecycle", "calendar", "one-to-one", "coverage", "limits", "none"}
        /\ LivesAgree(universe, lives) => slice # "lifecycle"
    BY RefusalFacts
  <2>2. LivesAgree(universe, lives)
    BY MasterAgrees
  <2> HIDE DEF slice, lives, bars
  <2> QED
    BY <2>1, <2>2 DEF Reasons
<1>7. ASSUME by = "model", CleanUpTo(today), AllAlive(today), ~Holiday(today)
      PROVE  /\ slice = "none" /\ ~NoOpenDay(from, to) /\ today + Horizon \in Days
             /\ next # {} /\ ShownOn(bars, today) = universe
  <2>1. to = today
    BY <1>7 DEF LoadEnd, to
  <2>2. slice = "none" /\ ~NoOpenDay(from, to) /\ ShownOn(bars, today) = universe
    BY <1>0, <1>1, <1>7, <2>1, ModelMade
  <2>3. next # {} /\ ~(today + Horizon > LastDay)
    BY <1>7 DEF Holiday
  <2>4. today + Horizon \in Days
    BY <1>0, <2>3, DayAssumption, RunAssumption DEF Days
  <2> QED
    BY <2>2, <2>3, <2>4
<1>8. \/ slice # "none" /\ Refuse(by, today, slice)
      \/ NoOpenDay(from, to) /\ Refuse(by, today, "no open day")
      \/ ~PortalAgrees(universe, lives, bars, from, to) /\ slice = "none"
      \/ today + Horizon \notin Days /\ Refuse(by, today, "calendar")
      \/ next = {} /\ Refuse(by, today, "no next day")
      \/ ShownOn(bars, today) # universe /\ Refuse(by, today, "no close")
      \/ slice = "none" /\ PortalAgrees(universe, lives, bars, from, to) /\ next # {} /\ Show(context)
  <2> DEFINE reason ==
        IF slice # "none" THEN slice
        ELSE IF NoOpenDay(from, to) THEN "no open day"
        ELSE IF ~PortalAgrees(universe, lives, bars, from, to) THEN "portal"
        ELSE IF today + Horizon \notin Days THEN "calendar"
        ELSE IF next = {} THEN "no next day"
        ELSE IF ShownOn(bars, today) # universe THEN "no close"
        ELSE "none"
  <2>1. IF reason # "none" THEN Refuse(by, today, reason) ELSE Show(context)
    BY Zenon DEF Signal, Evaluate, from, to
  <2> HIDE DEF slice, bars, lives, next, context
  <2>2. \/ slice # "none" /\ reason = slice
        \/ NoOpenDay(from, to) /\ reason = "no open day"
        \/ ~PortalAgrees(universe, lives, bars, from, to) /\ slice = "none"
        \/ today + Horizon \notin Days /\ reason = "calendar"
        \/ next = {} /\ reason = "no next day"
        \/ ShownOn(bars, today) # universe /\ reason = "no close"
        \/ slice = "none" /\ PortalAgrees(universe, lives, bars, from, to) /\ next # {} /\ reason = "none"
    OBVIOUS
  <2> HIDE DEF reason
  <2> QED
    BY <2>1, <2>2
<1> HIDE DEF slice, bars, lives, next, context
<1> QED
  BY <1>3, <1>4, <1>5, <1>6, <1>7, <1>8 DEF Reasons

LEMMA ClosePricesKeeps == DataInv /\ ClosePrices => DataInv'
<1> SUFFICES ASSUME DataInv, ClosePrices PROVE DataInv'
  OBVIOUS
<1> DEFINE lives == MasterLives(universe)
           bars == Bars(universe, today, today)
           slice == Refusal(universe, lives, bars, today, today)
           context == Context("close", universe, bars, today, today, today, today, 0)
           refusal(why) == [by |-> "close", day |-> today, why |-> why]
<1>0. /\ Placed /\ World /\ today \in Days /\ today \in Nat /\ universe \in SUBSET Symbols /\ today \in opens
      /\ UNCHANGED <<opens, master, table, today, universe>>
  BY OpenDays DEF DataInv, Placed, ClosePrices
<1>1. CASE slice = "none" /\ Show(context)
  <2>1. Covered(universe, lives, bars, today, today)
    BY <1>1, RefusalFacts
  <2>2. Fit(universe, lives, today, today)
    <3>1. today <= today
      BY <1>0
    <3> QED
      BY <1>0, <3>1, MasterFits DEF lives
  <2>3. /\ ViewsThrough(bars, today, today, today) = HistoryOf(universe, today, today)
        /\ \A v \in HistoryOf(universe, today, today) : v.price # v.day => \A n \in NextOpen(v.day) : n <= today
    <3>1. today <= today /\ today \in Int
      BY <1>0
    <3> QED
      BY <1>0, <2>1, <2>2, <3>1, SliceIsHistory DEF bars
  <2>4. /\ context.by = "close" /\ context.day = today /\ context.syms = universe /\ context.loaded = today
        /\ context.views = ViewsThrough(bars, today, today, today) /\ context.exec = today /\ context.index = 0
    BY DEF Context
  <2> HIDE DEF context, bars, lives
  <2>5. Sound(context)
    BY <1>0, <2>3, <2>4 DEF Sound, Callers
  <2>6. Bound(context)
    BY <1>0, <2>4 DEF Bound
  <2> QED
    BY <1>0, <1>1, <2>5, <2>6, ShowKeeps
<1>2. ASSUME NEW why \in Reasons \ {"portal", "lifecycle"}, Refuse("close", today, why) PROVE DataInv'
  <2>1. Caused(refusal(why))
    BY <1>0, <1>2 DEF Caused, Callers
  <2> QED
    BY <1>0, <1>2, <2>1, RefuseKeeps
<1>3. slice # "none" => slice \in Reasons \ {"portal", "lifecycle"}
  BY MasterAgrees, RefusalFacts DEF Reasons
<1>4. \/ slice # "none" /\ Refuse("close", today, slice)
      \/ Refuse("close", today, "no close")
      \/ slice = "none" /\ Show(context)
  BY DEF ClosePrices
<1> HIDE DEF slice, bars, lives, context
<1> QED
  BY <1>1, <1>2, <1>3, <1>4 DEF Reasons

\* The frames of a run are adjacent trading days: as far as the first one is the
\* first of the run, they are all of them.
LEMMA FramesFromStart ==
  ASSUME World, RunStart \in opens, NEW frames \in SUBSET opens, RunStart \in frames,
         \A e \in frames : RunStart <= e, Adjacent(frames), NEW d \in frames
  PROVE  {e \in frames : e <= d} = {o \in opens : RunStart <= o /\ o <= d}
<1>0. opens \subseteq Nat /\ opens \subseteq Days
  BY OpenDays
<1> DEFINE missing == {o \in opens : RunStart <= o /\ o <= d /\ o \notin frames}
<1>1. missing = {}
  <2> SUFFICES ASSUME missing # {} PROVE FALSE
    OBVIOUS
  <2>1. PICK o \in missing : \A x \in missing : o <= x
    BY <1>0, LeastNumber
  <2>2. o \in opens /\ o \in Nat /\ RunStart < o /\ o < d /\ d \in Nat /\ d \in opens
    BY <1>0, <2>1
  <2> DEFINE before == {e \in frames : e < o}
             last == CHOOSE e \in before : \A x \in before : x <= e
  <2>3. \E e \in before : \A x \in before : x <= e
    <3> DEFINE gaps == {o - e : e \in before}
    <3>1. gaps \subseteq Nat /\ gaps # {}
      BY <1>0, <2>2
    <3>2. PICK g \in gaps : \A x \in gaps : g <= x
      BY <3>1, LeastNumber
    <3>3. PICK e \in before : g = o - e
      BY <3>2
    <3>4. \A x \in before : o - e <= o - x
      BY <3>2, <3>3
    <3>5. \A x \in before : x <= e
      BY <1>0, <2>2, <3>4
    <3> QED
      BY <3>5
  <2>4. PICK p \in before : \A x \in before : x <= p
    BY <2>3
  <2>5. p \in frames /\ p \in opens /\ p \in Days /\ p \in Nat /\ p < o /\ RunStart <= p
    BY <1>0, <2>4
  <2>6. PICK n \in NextOpen(p) : n <= o
    BY <2>2, <2>5, NextExists
  <2>7. n \in frames /\ n \in opens /\ p < n /\ n \in Nat
    <3>1. n \in opens /\ p < n /\ n \in Nat
      BY <1>0, <2>5, <2>6, CalendarFacts
    <3>2. p < d
      BY <2>2, <2>5
    <3>3. NextOpen(p) \subseteq frames
      BY <2>5, <3>2 DEF Adjacent
    <3> QED
      BY <2>6, <3>1, <3>3
  <2>8. n # o
    BY <2>1, <2>7
  <2>9. n \in before
    BY <2>2, <2>6, <2>7, <2>8
  <2> QED
    BY <2>4, <2>5, <2>7, <2>9
<1> QED
  BY <1>0, <1>1

LEMMA BacktestKeeps ==
  ASSUME DataInv, NEW d \in Days, Backtest(d)
  PROVE  DataInv'
<1> DEFINE syms == Members(RunStart, RunEnd)
           from == WindowStart(RunStart)
           lives == FrozenLives(syms)
           bars == Bars(syms, from, RunEnd)
           slice == Refusal(syms, lives, bars, from, RunEnd)
           frames == Frames(bars)
           later == {e \in frames : d < e}
           index == Cardinality({e \in frames : e <= d}) - 1
           context == Context("backtest", syms, bars, d, from, RunEnd, LeastOf(later), index)
           refusal(why) == [by |-> "backtest", day |-> d, why |-> why]
<1>0. /\ Placed /\ World /\ today \in Nat /\ d \in Nat /\ opens \subseteq Nat /\ opens \subseteq Days /\ Days \subseteq Nat
      /\ RunEnd <= today /\ Resolvable /\ UNCHANGED <<opens, master, table, today, universe>>
  BY OpenDays DEF DataInv, Placed, Backtest
<1>1. /\ from \in Days /\ from <= RunStart /\ RunStart \in Days /\ RunEnd \in Days /\ RunEnd \in Int /\ from \in Int
      /\ RunStart \in Nat /\ RunEnd \in Nat
  <2>1. WindowStart(RunStart) \in Days /\ WindowStart(RunStart) <= RunStart
    BY RunAssumption, RangeFacts
  <2>2. RunStart \in Days /\ RunEnd \in Days
    BY RunAssumption
  <2>3. from \in Days /\ from <= RunStart
    BY <2>1
  <2> HIDE DEF from
  <2> QED
    BY <1>0, <2>2, <2>3
<1>2. syms \in SUBSET Symbols
  BY DEF Members
<1> HIDE DEF from, syms
<1>3. \/ slice # "none" /\ Refuse("backtest", d, slice)
      \/ NoOpenDay(from, RunEnd) /\ Refuse("backtest", d, "no open day")
      \/ slice = "none" /\ ~PortalAgrees(syms, lives, bars, from, RunEnd)
      \/ Refuse("backtest", d, "frames")
      \/ slice = "none" /\ Adjacent(frames) /\ d \in frames /\ (\E e \in frames : d < e) /\ Show(context)
  <2> DEFINE reason ==
        IF slice # "none" THEN slice
        ELSE IF NoOpenDay(from, RunEnd) THEN "no open day"
        ELSE IF ~PortalAgrees(syms, lives, bars, from, RunEnd) THEN "portal"
        ELSE IF frames = {} \/ ~Adjacent(frames) THEN "frames"
        ELSE "none"
  <2>1. IF reason # "none" THEN Refuse("backtest", d, reason)
        ELSE d \in frames /\ (\E e \in frames : d < e) /\ Show(context)
    BY Zenon DEF Backtest, from, syms
  <2> HIDE DEF slice, bars, lives, frames, context
  <2>2. \/ slice # "none" /\ reason = slice
        \/ NoOpenDay(from, RunEnd) /\ reason = "no open day"
        \/ ~PortalAgrees(syms, lives, bars, from, RunEnd) /\ slice = "none"
        \/ reason = "frames"
        \/ slice = "none" /\ Adjacent(frames) /\ reason = "none"
    OBVIOUS
  <2> HIDE DEF reason
  <2> QED
    BY <2>1, <2>2
<1>4. slice = "none" => Covered(syms, lives, bars, from, RunEnd)
  BY RefusalFacts
<1>5. slice = "none" => PortalAgrees(syms, lives, bars, from, RunEnd)
  BY <1>0, <1>1, <1>4, PortalFacts
<1>6. slice # "none" => slice \in Reasons \ {"portal", "lifecycle"}
  BY <1>0, <1>2, FrozenAgrees, RefusalFacts DEF Reasons
<1>7. ASSUME NEW why \in Reasons \ {"portal", "lifecycle"}, Refuse("backtest", d, why) PROVE DataInv'
  <2>1. Caused(refusal(why))
    BY <1>0, <1>7 DEF Caused, Callers
  <2> QED
    BY <1>0, <1>7, <2>1, RefuseKeeps
<1>8. CASE slice = "none" /\ Adjacent(frames) /\ d \in frames /\ (\E e \in frames : d < e) /\ Show(context)
  <2>1. /\ \A s \in syms, o \in from .. RunEnd : Bar(s, o) \in bars <=> o \in opens /\ Alive(lives[s], o)
        /\ \A b \in bars : b.day \in opens
    BY <1>1, <1>4, <1>8, CoveredFacts
  <2>2. frames \in SUBSET opens /\ \A e \in frames : RunStart <= e /\ e <= RunEnd /\ e \in Nat
    BY <1>0, <1>1, <2>1 DEF Frames
  <2>3. PICK e \in frames : d < e
    BY <1>8
  <2>4. d \in opens /\ d <= RunEnd /\ d <= today /\ e <= today /\ e \in opens /\ e \in Nat
    BY <1>0, <1>1, <1>8, <2>2, <2>3
  <2>5. ASSUME NEW o \in opens \cap (from .. d), NEW n \in NextOpen(o) PROVE n <= today
    <3>1. o \in Days /\ o \in Nat /\ o < e
      BY <1>0, <1>1, <2>3, <2>4
    <3>2. PICK m \in NextOpen(o) : m <= e
      BY <1>0, <2>4, <3>1, NextExists
    <3>3. m = n /\ n \in Nat
      BY <1>0, <2>5, <3>1, <3>2, CalendarFacts
    <3> QED
      BY <1>0, <2>4, <3>2, <3>3
  <2>6. Fit(syms, lives, from, d)
    BY <1>0, <1>1, <1>2, <2>4, <2>5, FrozenFits
  <2>7. /\ ViewsThrough(bars, d, from, RunEnd) = HistoryOf(syms, d, from)
        /\ \A v \in HistoryOf(syms, d, from) : v.price # v.day => \A n \in NextOpen(v.day) : n <= today
    BY <1>0, <1>1, <1>2, <1>4, <1>8, <2>4, <2>6, SliceIsHistory
  <2>8. PICK n \in NextOpen(d) : n <= e
    BY <1>0, <2>3, <2>4, NextExists
  <2>9. n \in opens /\ NextOpen(d) = {n} /\ n \in Nat /\ d < n
    BY <1>0, <2>8, CalendarFacts
  <2>10. n \in later /\ later \subseteq Int /\ \A x \in later : n <= x
    <3>1. n \in frames
      BY <1>8, <2>3, <2>9 DEF Adjacent
    <3>2. \A x \in frames : d < x => n <= x
      BY <2>2, <2>8 DEF NextOpen
    <3>3. later \subseteq Int
      BY <2>2
    <3>4. n \in later
      BY <2>9, <3>1
    <3> QED
      BY <3>2, <3>3, <3>4
  <2>11. LeastOf(later) = n
    BY <2>10, LeastOfIs
  <2>12. index \in Nat
    <3>1. {x \in frames : x <= d} \in SUBSET opens /\ d \in {x \in frames : x <= d}
      BY <1>0, <1>8, <2>2
    <3> QED
      BY <1>0, <3>1, DayCount
  <2>13. ASSUME RunStart \in opens, NEW s \in syms, master[s].list <= RunStart
         PROVE  index = ScheduleIndex(RunStart, d)
    <3>1. RunStart \in frames
      <4>1. PICK x \in FrozenEnd(s) : Greatest(RunStart, master[s].list) <= Least(RunEnd, x)
        BY DEF syms, Members, Included
      <4>2. lives[s] = [from |-> master[s].list, to |-> x]
        <5>1. FrozenEnd(s) = {x}
          BY <1>0, <1>2, <4>1, FrozenEndUnique
        <5> QED
          BY <5>1 DEF FrozenLives
      <4>3. RunStart <= x
        <5>1. x \in Int
          <6>1. s \in Symbols /\ x \in FrozenEnd(s)
            BY <1>2, <4>1
          <6> QED
            BY <1>0, <6>1, FrozenEndUnique
        <5>2. master[s].list \in Int
          <6>1. s \in Symbols
            BY <1>2
          <6>2. World
            BY <1>0
          <6> QED
            BY <6>1, <6>2, ListIsInt
        <5>3. Greatest(RunStart, master[s].list) = RunStart
          BY <1>1, <2>13, <5>2 DEF Greatest
        <5> QED
          BY <1>1, <4>1, <5>1, <5>3 DEF Least
      <4>4. Alive(lives[s], RunStart)
        BY <2>13, <4>2, <4>3 DEF Alive
      <4>5. RunStart \in from .. RunEnd /\ RunStart \in RunStart .. RunEnd
        BY <1>1, <1>8, <2>2
      <4>6. Bar(s, RunStart) \in bars /\ Bar(s, RunStart).day = RunStart
        BY <2>1, <2>13, <4>4, <4>5 DEF Bar
      <4> QED
        BY <4>5, <4>6 DEF Frames
    <3>2. {x \in frames : x <= d} = {o \in opens : RunStart <= o /\ o <= d}
      BY <1>0, <1>8, <2>2, <2>13, <3>1, FramesFromStart
    <3> QED
      BY <3>2 DEF ScheduleIndex
  <2>14. /\ context.by = "backtest" /\ context.day = d /\ context.syms = syms /\ context.loaded = from
         /\ context.views = ViewsThrough(bars, d, from, RunEnd) /\ context.exec = n /\ context.index = index
    BY <2>11 DEF Context
  <2> HIDE DEF context, bars, lives, index, later
  <2>15. Sound(context)
    BY <1>1, <1>2, <2>4, <2>7, <2>14 DEF Sound, Callers
  <2>16. Bound(context)
    BY <2>9, <2>12, <2>13, <2>14 DEF Bound
  <2> QED
    BY <1>0, <1>8, <2>15, <2>16, ShowKeeps
<1> HIDE DEF slice, bars, lives, frames, context
<1> QED
  BY <1>3, <1>5, <1>6, <1>7, <1>8 DEF Reasons
-----------------------------------------------------------------------------
LEMMA DataStep == DataInv /\ [Next]_vars => DataInv'
<1> SUFFICES ASSUME DataInv, [Next]_vars PROVE DataInv'
  OBVIOUS
<1>1. CASE UNCHANGED vars
  <2>1. Placed /\ Placed' /\ today <= today' /\ today' \in Days /\ UNCHANGED <<opens, master, table, universe, seen, refused>>
    BY <1>1, OpenDays DEF vars, DataInv, Placed, World
  <2>2. \A x : Sound(x) /\ Bound(x) => Sound(x)' /\ Bound(x)'
    BY <2>1, SoundKept
  <2>3. \A x : Caused(x) => Caused(x)'
    BY <2>1, CausedKept
  <2> QED
    BY <2>1, <2>2, <2>3 DEF DataInv, HistoriesInv, OneOfEach
<1>2. CASE Next
  BY <1>2, BuildKeeps, ClosePricesKeeps, NextDayKeeps, SignalKeeps, BacktestKeeps DEF Next
<1> QED
  BY <1>1, <1>2

\* Nothing a strategy is shown looks ahead (etf_backtest/data/portal.py:164-193,
\* mysql.py:1200-1268): whoever asks for a date, a daily job that runs that day or a
\* backtest over a range that ends later, every bar it gets is of that date or an
\* earlier one, and so is the price the bar has, which in a filled gap is an older one.
THEOREM NothingAhead == Spec => []NoLookAhead
<1>1. Init => DataInv
  BY DataInit
<1>2. DataInv /\ [Next]_vars => DataInv'
  BY DataStep
<1>3. DataInv => NoLookAhead
  BY InvNoLookAhead
<1> QED
  BY <1>1, <1>2, <1>3, PTL DEF Spec

\* What is shown for a date does not depend on who asks or when (signals.py:162-201,
\* experiment.py:116-119, mysql.py:1084-1268): the job of the day, the valuation of
\* that evening and a backtest over the longer tables agree on the dates they share;
\* a filled gap stands alone between two quotes; the portal finds no bar missing from
\* what the reader let through, and the loader accepts the lives the resolver froze;
\* one date has one schedule index; and with the tables as they should be a model
\* signal is made. DataInv is stronger: it says of each date what its history is.
THEOREM SlicesSafe == Spec => []SlicesInv
<1>1. Init => DataInv
  BY DataInit
<1>2. DataInv /\ [Next]_vars => DataInv'
  BY DataStep
<1>3. DataInv => SlicesInv
  BY InvSlices
<1> QED
  BY <1>1, <1>2, <1>3, PTL DEF Spec
-----------------------------------------------------------------------------
(* Holders' ratios, shares and index quotes. *)

\* A ratio of a holder for a period, its rows added up.
Ratios == [symbol : Funds, entity : Entities, end : FundDays, ratio : Nat]

\* A portal as a load makes it: of its range of the tables and of the file it names.
Portal(p) ==
  /\ p.by \in Programs /\ p.from \in FundDays /\ p.to \in FundDays /\ p.frozen \in Files
  /\ p.shares = {r \in dataset.shares : p.from <= r[2] /\ r[2] <= p.to}
  /\ p.index = {d \in dataset.index : p.from <= d /\ d <= p.to} /\ p.index \subseteq TradingDays
  /\ p.ratios = Aggregated(p.frozen) /\ \A r \in p.ratios : r.ratio <= Unit

\* A context is the selection of such a portal for a day of its range.
SelectedFrom(c, p) ==
  Portal(p) /\ c.day \in TradingDays /\ p.from <= c.day /\ c.day <= p.to /\ c = Selected(p, c.day)

\* While a load is under way the file is the one its digest was of.
LoadInv ==
  /\ date \in FundDays /\ dataset \in Tables /\ file \in Files /\ frozen \in Files
  /\ reading = {} \/ \E by \in Programs : reading = {by} /\ file = frozen /\ (by = "backtest" => LastLoaded <= date)

ShownInv ==
  /\ \A p \in portals : Portal(p)
  /\ \A c \in given : \E p : SelectedFrom(c, p)
  /\ \A r \in raised : r.by \in Programs /\ r.why \in {"digest", "ratio", "closed day", "combined"}

FundInv == LoadInv /\ ShownInv
-----------------------------------------------------------------------------
(* Ratios. *)

\* A ratio counts every row it is made of.
LEMMA RatioCounts ==
  ASSUME NEW those, IsFiniteSet(those), \A r \in those : r.ratio \in Nat
  PROVE  /\ Ratio(those) \in Nat
         /\ \A q, o \in those : Ratio(those) >= IF q = o THEN q.ratio ELSE q.ratio + o.ratio
<1> DEFINE w == [r \in those |-> r.ratio]
<1>1. DOMAIN w = those /\ \A r \in those : w[r] = r.ratio /\ w[r] \in Nat /\ w[r] \in Int
  OBVIOUS
<1>2. Ratio(those) = SumFunction(w)
  BY DEF Ratio
<1> HIDE DEF w
<1>3. Ratio(those) = Total(w, those)
  BY <1>1, <1>2, SumIsTotal
<1>4. Total(w, those) \in Nat
  BY <1>1, TotalPart
<1>5. ASSUME NEW q \in those PROVE Total(w, {q}) = q.ratio
  <2>1. IsFiniteSet({}) /\ {} \cup {q} = {q} /\ q \notin {}
    BY FS_EmptySet
  <2>2. Total(w, {} \cup {q}) = w[q] + Total(w, {})
    BY <1>1, <2>1, TotalWith
  <2> QED
    BY <1>1, <2>1, <2>2, TotalEmpty
<1>6. ASSUME NEW q \in those, NEW o \in those, q # o PROVE Total(w, {q, o}) = q.ratio + o.ratio
  <2>1. IsFiniteSet({q}) /\ {q} \cup {o} = {q, o} /\ o \notin {q}
    BY <1>6, FS_Singleton
  <2>2. Total(w, {q} \cup {o}) = w[o] + Total(w, {q})
    BY <1>1, <2>1, TotalWith
  <2>3. Total(w, {q}) = q.ratio /\ w[o] = o.ratio /\ q.ratio \in Nat /\ o.ratio \in Nat
    BY <1>1, <1>5
  <2>4. Total(w, {q, o}) = w[o] + Total(w, {q})
    BY <2>1, <2>2
  <2> QED
    BY ONLY <2>3, <2>4
<1>7. ASSUME NEW q \in those, NEW o \in those
      PROVE  Ratio(those) >= IF q = o THEN q.ratio ELSE q.ratio + o.ratio
  <2>1. Total(w, {q, o}) \in Nat /\ Total(w, {q, o}) <= Total(w, those)
    BY <1>1, TotalPart
  <2>2. CASE q = o
    <3>1. {q, o} = {q}
      BY <2>2
    <3> QED
      BY <1>3, <1>4, <1>5, <2>1, <2>2, <3>1
  <2>3. CASE q # o
    BY <1>3, <1>4, <1>6, <2>1, <2>3
  <2> QED
    BY <2>2, <2>3
<1> QED
  BY <1>3, <1>4, <1>7

\* The ratios of a file: one for each holder and period it names, no row lost.
LEMMA RatiosOfFile ==
  ASSUME NEW content \in Files
  PROVE  /\ Aggregated(content) \subseteq Ratios /\ IsFiniteSet(Aggregated(content))
         /\ \A r, q \in Aggregated(content) :
              r.symbol = q.symbol /\ r.entity = q.entity /\ r.end = q.end => r = q
         /\ \A q, o \in {x \in content : x.entity \in Entities} :
              <<q.symbol, q.entity, q.end>> = <<o.symbol, o.entity, o.end>> =>
                \E r \in Aggregated(content) :
                  /\ <<r.symbol, r.entity, r.end>> = <<q.symbol, q.entity, q.end>>
                  /\ r.ratio >= IF q = o THEN q.ratio ELSE q.ratio + o.ratio
<1> DEFINE known == {r \in content : r.symbol \in Funds /\ r.entity \in Entities}
           Of(key) == {r \in known : <<r.symbol, r.entity, r.end>> = key}
           Sum(key) == [symbol |-> key[1], entity |-> key[2], end |-> key[3], ratio |-> Ratio(Of(key))]
           Keys == {<<r.symbol, r.entity, r.end>> : r \in known}
<1>1. Aggregated(content) = {Sum(key) : key \in Keys}
  BY DEF Aggregated
<1>2. /\ IsFiniteSet(content)
      /\ \A r \in content : r.symbol \in Funds /\ r.end \in FundDays /\ r.ratio \in Nat
  <2>1. content \subseteq Report /\ IsFiniteSet(content)
    BY ReportAssumption
  <2>2. \A r \in Report : r.symbol \in Funds /\ r.end \in FundDays /\ r.ratio \in Nat
    BY LoadAssumption DEF Report
  <2> QED
    BY <2>1, <2>2
<1>3. ASSUME NEW key \in Keys
      PROVE  /\ key = <<key[1], key[2], key[3]>> /\ key[1] \in Funds /\ key[2] \in Entities /\ key[3] \in FundDays
             /\ Ratio(Of(key)) \in Nat
             /\ \A q, o \in Of(key) : Ratio(Of(key)) >= IF q = o THEN q.ratio ELSE q.ratio + o.ratio
  <2>1. PICK r \in known : key = <<r.symbol, r.entity, r.end>>
    BY <1>3
  <2>2. IsFiniteSet(Of(key)) /\ \A q \in Of(key) : q.ratio \in Nat
    <3>1. Of(key) \subseteq content
      OBVIOUS
    <3> HIDE DEF Of
    <3> QED
      BY <1>2, <3>1, FS_Subset
  <2> HIDE DEF Of
  <2>3. /\ Ratio(Of(key)) \in Nat
        /\ \A q, o \in Of(key) : Ratio(Of(key)) >= IF q = o THEN q.ratio ELSE q.ratio + o.ratio
    BY <2>2, RatioCounts
  <2> QED
    BY <1>2, <2>1, <2>3
<1> HIDE DEF Of
<1>4. \A key \in Keys : Sum(key) \in Ratios /\ <<Sum(key).symbol, Sum(key).entity, Sum(key).end>> = key
  BY <1>3 DEF Ratios
<1>5. ASSUME NEW r \in Aggregated(content), NEW q \in Aggregated(content),
             r.symbol = q.symbol, r.entity = q.entity, r.end = q.end
      PROVE  r = q
  <2>1. PICK key \in Keys : r = Sum(key)
    BY <1>1
  <2>2. PICK l \in Keys : q = Sum(l)
    BY <1>1
  <2> HIDE DEF Sum, Keys
  <2>3. key = l
    BY <1>4, <1>5, <2>1, <2>2
  <2> QED
    BY <2>1, <2>2, <2>3
<1>6. ASSUME NEW q \in content, q.entity \in Entities, NEW o \in content, o.entity \in Entities,
             <<q.symbol, q.entity, q.end>> = <<o.symbol, o.entity, o.end>>
      PROVE  \E r \in Aggregated(content) :
               /\ <<r.symbol, r.entity, r.end>> = <<q.symbol, q.entity, q.end>>
               /\ r.ratio >= IF q = o THEN q.ratio ELSE q.ratio + o.ratio
  <2>1. PICK key : key = <<q.symbol, q.entity, q.end>>
    OBVIOUS
  <2>2. q \in known /\ o \in known /\ key \in Keys
    BY <1>2, <1>6, <2>1
  <2>3. q \in Of(key) /\ o \in Of(key)
    BY <1>6, <2>1, <2>2 DEF Of
  <2>4. Sum(key).ratio = Ratio(Of(key))
    OBVIOUS
  <2>5. Sum(key) \in Aggregated(content)
    BY <1>1, <2>2
  <2> HIDE DEF Sum, Keys
  <2> QED
    BY <1>3, <1>4, <2>1, <2>2, <2>3, <2>4, <2>5
<1>7. Aggregated(content) \subseteq Ratios
  <2> HIDE DEF Sum, Keys
  <2> QED
    BY <1>1, <1>4
<1>8. IsFiniteSet(Aggregated(content))
  <2> DEFINE f == [r \in known |-> Sum(<<r.symbol, r.entity, r.end>>)]
  <2>1. IsFiniteSet(known)
    BY <1>2, FS_Subset
  <2>2. f \in [known -> Aggregated(content)] /\ \A t \in Aggregated(content) : \E r \in known : f[r] = t
    <3> HIDE DEF Sum
    <3> QED
      BY <1>1
  <2>3. f \in Surjection(known, Aggregated(content))
    BY <2>2 DEF Surjection
  <2> QED
    BY <2>1, <2>3, FS_Surjection
<1> QED
  BY <1>5, <1>6, <1>7, <1>8

\* The newest of some days.
LEMMA NewestIn ==
  ASSUME NEW S, S \subseteq FundDays, S # {}
  PROVE  Newest(S) \in S /\ \A x \in S : x <= Newest(S)
<1> DEFINE T == {n \in Nat : FinalDay - n \in S}
<1>1. FinalDay \in Nat /\ \A x \in S : x \in Nat /\ x <= FinalDay
  BY CalendarAssumption DEF FundDays
<1>2. T # {} /\ T \subseteq Nat
  <2>1. PICK x \in S : TRUE
    OBVIOUS
  <2>2. FinalDay - x \in T
    BY <1>1, <2>1
  <2> QED
    BY <2>2
<1>3. PICK n \in T : \A m \in T : n <= m
  <2> HIDE DEF T
  <2> QED
    BY <1>2, LeastNumber
<1>4. FinalDay - n \in S /\ \A x \in S : x <= FinalDay - n
  <2>1. FinalDay - n \in S /\ n \in Nat
    BY <1>3
  <2>2. ASSUME NEW x \in S PROVE x <= FinalDay - n
    <3>1. FinalDay - x \in T
      BY <1>1
    <3> QED
      BY <1>1, <1>3, <2>1, <3>1
  <2> QED
    BY <2>1, <2>2
<1> QED
  BY <1>4 DEF Newest
-----------------------------------------------------------------------------
(* What the portal selects. *)

\* The rows a selection may use: of the past, of the security, one of a holder
\* and a period, and some row is the newest of each holder.
LEMMA RowsBefore ==
  ASSUME NEW p, Portal(p), NEW s \in Funds, NEW d
  PROVE  /\ Before(p, s, d) \subseteq Ratios /\ IsFiniteSet(Before(p, s, d))
         /\ \A r \in Before(p, s, d) : r.symbol = s /\ r.end < d /\ r.end \in FundDays /\ r.ratio <= Unit
         /\ \A r, q \in Before(p, s, d) : r.entity = q.entity /\ r.end = q.end => r = q
         /\ \A r \in Before(p, s, d) : \E q \in LatestRatios(p, s, d) : q.entity = r.entity /\ r.end <= q.end
<1> DEFINE B == Before(p, s, d)
<1>1. /\ p.ratios = Aggregated(p.frozen) /\ p.ratios \subseteq Ratios /\ IsFiniteSet(p.ratios)
      /\ \A r \in p.ratios : r.ratio <= Unit
      /\ \A r, q \in p.ratios : r.symbol = q.symbol /\ r.entity = q.entity /\ r.end = q.end => r = q
  BY RatiosOfFile DEF Portal
<1>2. B \subseteq p.ratios /\ \A r \in B : r.symbol = s /\ r.end < d
  BY DEF Before
<1>3. B \subseteq Ratios /\ IsFiniteSet(B)
  BY <1>1, <1>2, FS_Subset
<1>4. \A r \in B : r.end \in FundDays /\ r.ratio <= Unit
  BY <1>1, <1>2 DEF Ratios
<1>5. \A r, q \in B : r.entity = q.entity /\ r.end = q.end => r = q
  BY <1>1, <1>2
<1>6. ASSUME NEW r \in B
      PROVE  \E q \in LatestRatios(p, s, d) : q.entity = r.entity /\ r.end <= q.end
  <2> DEFINE S == {q.end : q \in {x \in B : x.entity = r.entity}}
  <2>1. S \subseteq FundDays /\ S # {} /\ r.end \in S
    BY <1>4
  <2>2. Newest(S) \in S /\ \A x \in S : x <= Newest(S)
    <3> HIDE DEF S
    <3> QED
      BY <2>1, NewestIn
  <2>3. PICK q \in B : q.entity = r.entity /\ q.end = Newest(S)
    BY <2>2
  <2>4. \A x \in B : x.entity = q.entity => x.end <= q.end
    BY <2>2, <2>3
  <2> QED
    BY <2>1, <2>2, <2>3, <2>4 DEF LatestRatios
<1> QED
  BY <1>2, <1>3, <1>4, <1>5, <1>6

\* The newest period: some row is of it when there is a row, its rows are the
\* newest among the latest of the holders, and its sum is a number.
LEMMA NewestPeriod ==
  ASSUME NEW p, Portal(p), NEW s \in Funds, NEW d
  PROVE  LET own == LatestRatios(p, s, d)
             those == CombinedPeriod(p, s, d)
         IN /\ those \subseteq own /\ own \subseteq Before(p, s, d)
            /\ (own = {}) = (those = {})
            /\ those = {r \in own : \A q \in own : q.end <= r.end}
            /\ Ratio(those) \in Nat
            /\ those # {} => Newest({r.end : r \in those}) \in {r.end : r \in those}
<1> DEFINE B == Before(p, s, d)
           own == LatestRatios(p, s, d)
           those == CombinedPeriod(p, s, d)
<1>1. /\ B \subseteq Ratios /\ IsFiniteSet(B) /\ \A r \in B : r.end \in FundDays
      /\ \A r \in B : \E q \in own : q.entity = r.entity /\ r.end <= q.end
  BY RowsBefore
<1>2. own = {r \in B : \A q \in B : q.entity = r.entity => q.end <= r.end}
  BY DEF LatestRatios
<1>3. those = {r \in B : \A q \in B : q.end <= r.end}
  BY DEF CombinedPeriod
<1>4. FinalDay \in Nat /\ \A r \in B : r.end \in Nat
  BY <1>1, CalendarAssumption DEF FundDays
<1> HIDE DEF B, own, those
<1>5. those \subseteq own /\ own \subseteq B
  BY <1>2, <1>3
<1>6. those = {r \in own : \A q \in own : q.end <= r.end}
  <2>1. ASSUME NEW r \in own, \A q \in own : q.end <= r.end, NEW q \in B PROVE q.end <= r.end
    <3>1. PICK x \in own : q.end <= x.end
      BY <1>1
    <3> QED
      BY <1>4, <1>5, <2>1, <3>1
  <2> QED
    BY <1>3, <1>5, <2>1
<1>7. ASSUME own # {} PROVE those # {}
  <2> DEFINE S == {r.end : r \in B}
  <2>1. S \subseteq FundDays /\ S # {}
    BY <1>1, <1>5, <1>7
  <2>2. Newest(S) \in S /\ \A x \in S : x <= Newest(S)
    <3> HIDE DEF S
    <3> QED
      BY <2>1, NewestIn
  <2>3. PICK r \in B : r.end = Newest(S)
    BY <2>2
  <2> QED
    BY <1>3, <2>2, <2>3
<1>8. Ratio(those) \in Nat
  <2>1. IsFiniteSet(those) /\ \A r \in those : r.ratio \in Nat
    BY <1>1, <1>5, FS_Subset DEF Ratios
  <2> QED
    BY <2>1, RatioCounts
<1>9. ASSUME those # {} PROVE Newest({r.end : r \in those}) \in {r.end : r \in those}
  <2> DEFINE S == {r.end : r \in those}
  <2>1. S \subseteq FundDays /\ S # {}
    BY <1>1, <1>5, <1>9
  <2> HIDE DEF S
  <2>2. Newest(S) \in S
    BY <2>1, NewestIn
  <2> QED
    BY <2>2 DEF S
<1>10. (own = {}) = (those = {})
  BY <1>5, <1>7
<1> QED
  BY <1>5, <1>6, <1>8, <1>9, <1>10 DEF B, own, those

\* The combined ratio is of that period, or none.
LEMMA CombinedOfPeriod ==
  ASSUME NEW p, Portal(p), NEW s \in Funds, NEW d
  PROVE  LET those == CombinedPeriod(p, s, d)
         IN /\ (CombinedRatio(p, s, d) = {}) = (LatestRatios(p, s, d) = {})
            /\ \A key \in CombinedRatio(p, s, d) :
                 /\ key.symbol = s /\ key.end \in {r.end : r \in those} /\ key.end < d
                 /\ key.ratio = Ratio(those) /\ key.ratio \in Nat
<1> DEFINE those == CombinedPeriod(p, s, d)
<1>1. /\ those \subseteq Before(p, s, d) /\ Ratio(those) \in Nat
      /\ (LatestRatios(p, s, d) = {}) = (those = {})
      /\ those # {} => Newest({r.end : r \in those}) \in {r.end : r \in those}
  BY NewestPeriod
<1>2. \A r \in those : r.end < d
  BY <1>1, RowsBefore
<1>3. CombinedRatio(p, s, d) = IF those = {} THEN {}
        ELSE {[symbol |-> s, end |-> Newest({r.end : r \in those}), ratio |-> Ratio(those)]}
  BY DEF CombinedRatio
<1> HIDE DEF those
<1>4. those = {} => CombinedRatio(p, s, d) = {}
  BY <1>3
<1>5. ASSUME those # {} PROVE CombinedRatio(p, s, d) # {}
  BY <1>3, <1>5
<1>6. ASSUME NEW key \in CombinedRatio(p, s, d)
      PROVE  /\ key.symbol = s /\ key.end \in {r.end : r \in those} /\ key.end < d
             /\ key.ratio = Ratio(those) /\ key.ratio \in Nat
  <2>1. those # {} /\ key = [symbol |-> s, end |-> Newest({r.end : r \in those}), ratio |-> Ratio(those)]
    BY <1>3, <1>6
  <2>2. key.end \in {r.end : r \in those}
    BY <1>1, <2>1
  <2> QED
    BY <1>1, <1>2, <2>1, <2>2
<1> QED
  BY <1>1, <1>4, <1>5, <1>6 DEF those

\* What a selection holds of a security is what was selected for it.
LEMMA SelectedRatios ==
  ASSUME NEW p, Portal(p), NEW s \in Funds, NEW d
  PROVE  /\ {r \in Selected(p, d).ratios : r.symbol = s} = LatestRatios(p, s, d)
         /\ {r \in Selected(p, d).combined : r.symbol = s} = CombinedRatio(p, s, d)
<1> DEFINE Latest(z) == LatestRatios(p, z, d)
           Combined(z) == CombinedRatio(p, z, d)
<1>1. ASSUME NEW z \in Funds
      PROVE  (\A r \in Latest(z) : r.symbol = z) /\ \A r \in Combined(z) : r.symbol = z
  <2>1. \A r \in Before(p, z, d) : r.symbol = z
    BY RowsBefore
  <2>2. Latest(z) \subseteq Before(p, z, d)
    BY DEF LatestRatios
  <2>3. \A r \in Combined(z) : r.symbol = z
    BY CombinedOfPeriod
  <2> QED
    BY <2>1, <2>2, <2>3
<1>2. /\ Selected(p, d).ratios = UNION {Latest(z) : z \in Funds}
      /\ Selected(p, d).combined = UNION {Combined(z) : z \in Funds}
  BY DEF Selected
<1> HIDE DEF Latest, Combined
<1>3. {r \in Selected(p, d).ratios : r.symbol = s} = Latest(s)
  BY <1>1, <1>2
<1>4. {r \in Selected(p, d).combined : r.symbol = s} = Combined(s)
  BY <1>1, <1>2
<1> QED
  BY <1>3, <1>4 DEF Latest, Combined

\* The context accepts every selection whose sums are at most one.
LEMMA ContextAccepts ==
  ASSUME NEW p, Portal(p), NEW d, \A r \in Selected(p, d).combined : ~(r.ratio > Unit)
  PROVE  Acceptable(Selected(p, d))
<1> DEFINE c == Selected(p, d)
<1>1. c.day = d /\ c.shares = ShareHistory(p, d) /\ c.index = IndexHistory(p, d)
  BY DEF Selected
<1>2. (\A r \in c.shares : r[2] <= d) /\ \A i \in c.index : i <= d
  BY <1>1 DEF ShareHistory, IndexHistory
<1>3. ASSUME NEW r \in c.ratios
      PROVE  r.symbol \in Funds /\ r \in LatestRatios(p, r.symbol, d) /\ r \in Before(p, r.symbol, d)
  <2>1. PICK s \in Funds : r \in LatestRatios(p, s, d)
    BY DEF Selected
  <2>2. r \in Before(p, s, d)
    BY <2>1 DEF LatestRatios
  <2>3. r.symbol = s
    BY <2>2, RowsBefore
  <2> QED
    BY <2>1, <2>2, <2>3
<1>4. ASSUME NEW r \in c.ratios PROVE r.end < d /\ r.ratio <= Unit
  BY <1>3, RowsBefore
<1>5. ASSUME NEW r \in c.combined PROVE r.end < d /\ r.ratio <= Unit
  <2>1. PICK s \in Funds : r \in CombinedRatio(p, s, d)
    BY DEF Selected
  <2>2. r.end < d /\ r.ratio \in Nat
    BY <2>1, CombinedOfPeriod
  <2> QED
    BY <2>2, LoadAssumption
<1>6. ASSUME NEW r \in c.ratios, NEW q \in c.ratios, r.symbol = q.symbol, r.entity = q.entity
      PROVE  r = q
  <2>1. PICK s : s = r.symbol
    OBVIOUS
  <2>2. s \in Funds /\ r \in LatestRatios(p, s, d) /\ q \in LatestRatios(p, s, d)
    BY <1>3, <1>6, <2>1
  <2>3. /\ r \in Before(p, s, d) /\ q \in Before(p, s, d)
        /\ r.end <= q.end /\ q.end <= r.end
    BY <1>6, <2>2 DEF LatestRatios
  <2>4. r.end \in FundDays /\ q.end \in FundDays
    BY <2>2, <2>3, RowsBefore
  <2>5. r.end = q.end
    BY <2>3, <2>4, CalendarAssumption DEF FundDays
  <2> QED
    BY <1>6, <2>2, <2>3, <2>5, RowsBefore
<1> HIDE DEF c
<1> QED
  BY <1>1, <1>2, <1>4, <1>5, <1>6 DEF Acceptable, c

\* The index history is no longer than the days asked for.
LEMMA IndexIsShort ==
  ASSUME NEW p, Portal(p), NEW d
  PROVE  Cardinality(IndexHistory(p, d)) <= IndexDays
<1> DEFINE After(i) == {j \in p.index : i < j /\ j <= d}
           X == IndexHistory(p, d)
<1>1. X = {i \in p.index : i <= d /\ Cardinality(After(i)) < IndexDays}
  BY DEF IndexHistory
<1>2. IsFiniteSet(p.index) /\ \A i \in p.index : i \in Nat
  <2>1. p.index \subseteq FundDays
    BY CalendarAssumption DEF Portal
  <2>2. IsFiniteSet(FundDays) /\ \A i \in FundDays : i \in Nat
    BY CalendarAssumption, FS_Interval DEF FundDays
  <2> QED
    BY <2>1, <2>2, FS_Subset
<1>3. IndexDays \in Nat /\ IndexDays >= 1
  BY LoadAssumption
<1>4. ASSUME X = {} PROVE Cardinality(X) <= IndexDays
  <2>1. Cardinality(X) = 0
    BY <1>4, FS_EmptySet
  <2> QED
    BY <1>3, <2>1
<1>5. ASSUME X # {} PROVE Cardinality(X) <= IndexDays
  <2>1. PICK m \in X : \A i \in X : m <= i
    <3>1. X \subseteq Nat
      BY <1>1, <1>2
    <3> HIDE DEF X
    <3> QED
      BY <1>5, <3>1, LeastNumber
  <2>2. PICK J : J = After(m)
    OBVIOUS
  <2>3. m \in p.index /\ Cardinality(J) < IndexDays
    BY <1>1, <2>1, <2>2
  <2>4. IsFiniteSet(J) /\ Cardinality(J) \in Nat /\ IsFiniteSet(J \cup {m})
    BY <1>2, <2>2, FS_Subset, FS_CardinalityType, FS_AddElement
  <2>5. X \subseteq J \cup {m}
    <3>1. ASSUME NEW i \in X, i # m PROVE i \in J
      <4>1. i \in p.index /\ i <= d /\ m <= i
        BY <1>1, <2>1
      <4>2. m < i
        BY <1>2, <2>3, <3>1, <4>1
      <4> QED
        BY <2>2, <4>1, <4>2
    <3> QED
      BY <3>1
  <2>6. Cardinality(J \cup {m}) <= Cardinality(J) + 1
    BY <2>4, FS_AddElement
  <2>7. Cardinality(X) <= Cardinality(J \cup {m})
    <3> HIDE DEF X
    <3> QED
      BY <2>4, <2>5, FS_Subset
  <2>8. Cardinality(X) \in Nat /\ Cardinality(J \cup {m}) \in Nat
    <3> HIDE DEF X
    <3> QED
      BY <2>4, <2>5, FS_Subset, FS_CardinalityType
  <2> HIDE DEF X
  <2> QED
    BY <1>3, <2>3, <2>4, <2>6, <2>7, <2>8
<1> QED
  BY <1>4, <1>5 DEF X

\* The selections of two portals of one file agree, where both have the day.
LEMMA SelectionsAgree ==
  ASSUME NEW p, Portal(p), NEW q, Portal(q), p.frozen = q.frozen,
         dataset \in Tables, NEW d \in FundDays, p.from <= d, d <= p.to, q.from <= d, d <= q.to
  PROVE  LET a == Selected(p, d)
             b == Selected(q, d)
             from == LaterOf(p.from, q.from)
         IN /\ a.ratios = b.ratios /\ a.combined = b.combined
            /\ {r \in a.shares : r[2] >= from} = {r \in b.shares : r[2] >= from}
            /\ {i \in a.index : i >= from} = {i \in b.index : i >= from}
<1> DEFINE a == Selected(p, d)
           b == Selected(q, d)
<1>1. PICK from : from = LaterOf(p.from, q.from)
  OBVIOUS
<1>2. /\ \A n \in FundDays : n \in Int
      /\ p.from \in Int /\ q.from \in Int /\ p.to \in Int /\ q.to \in Int /\ d \in Int
  BY CalendarAssumption DEF FundDays, Portal
<1>3. from \in Int /\ p.from <= from /\ q.from <= from
  BY <1>1, <1>2 DEF LaterOf
<1>4. a.ratios = b.ratios /\ a.combined = b.combined
  <2>1. p.ratios = q.ratios
    BY DEF Portal
  <2>2. \A s : Before(p, s, d) = Before(q, s, d)
    BY <2>1 DEF Before
  <2>3. \A s : LatestRatios(p, s, d) = LatestRatios(q, s, d) /\ CombinedPeriod(p, s, d) = CombinedPeriod(q, s, d)
    BY <2>2 DEF LatestRatios, CombinedPeriod
  <2>4. \A s : CombinedRatio(p, s, d) = CombinedRatio(q, s, d)
    <3> DEFINE Of(s, those) == IF those = {} THEN {}
                              ELSE {[symbol |-> s, end |-> Newest({r.end : r \in those}), ratio |-> Ratio(those)]}
    <3>1. \A s : /\ CombinedRatio(p, s, d) = Of(s, CombinedPeriod(p, s, d))
                 /\ CombinedRatio(q, s, d) = Of(s, CombinedPeriod(q, s, d))
      BY DEF CombinedRatio
    <3> HIDE DEF Of
    <3> QED
      BY <2>3, <3>1
  <2> QED
    BY <2>3, <2>4 DEF Selected
<1>5. (\A i \in dataset.index : i \in Int) /\ \A r \in dataset.shares : r[2] \in Int
  <2>1. dataset.shares \subseteq Funds \X FundDays /\ dataset.index \subseteq FundDays
    BY ReportAssumption
  <2> QED
    BY <1>2, <2>1
<1>6. {r \in a.shares : r[2] >= from} = {r \in b.shares : r[2] >= from}
  <2>1. a.shares = {r \in p.shares : r[2] <= d} /\ b.shares = {r \in q.shares : r[2] <= d}
    BY DEF Selected, ShareHistory
  <2>2. /\ p.shares = {r \in dataset.shares : p.from <= r[2] /\ r[2] <= p.to}
        /\ q.shares = {r \in dataset.shares : q.from <= r[2] /\ r[2] <= q.to}
    BY DEF Portal
  <2>3. \A r \in dataset.shares : r[2] <= d /\ r[2] >= from =>
          p.from <= r[2] /\ r[2] <= p.to /\ q.from <= r[2] /\ r[2] <= q.to
    BY <1>2, <1>3, <1>5
  <2> QED
    BY <2>1, <2>2, <2>3
<1>7. {i \in a.index : i >= from} = {i \in b.index : i >= from}
  <2>1. a.index = IndexHistory(p, d) /\ b.index = IndexHistory(q, d)
    BY DEF Selected
  <2>2. /\ p.index = {i \in dataset.index : p.from <= i /\ i <= p.to}
        /\ q.index = {i \in dataset.index : q.from <= i /\ i <= q.to}
    BY DEF Portal
  <2>3. \A i \in dataset.index : i <= d /\ i >= from => i \in p.index /\ i \in q.index
    BY <1>2, <1>3, <1>5, <2>2
  <2>4. ASSUME NEW i \in dataset.index, i >= from
        PROVE  {j \in p.index : i < j /\ j <= d} = {j \in q.index : i < j /\ j <= d}
    <3>1. \A j \in dataset.index : i < j => j >= from
      BY <1>3, <1>5, <2>4
    <3> QED
      BY <2>2, <2>3, <3>1
  <2> QED
    BY <2>1, <2>2, <2>3, <2>4 DEF IndexHistory
<1> QED
  BY <1>1, <1>4, <1>6, <1>7
-----------------------------------------------------------------------------
(* The invariant. *)

\* What a context shows is within the types and combined over the latest.
LEMMA ShownIsSound ==
  ASSUME LoadInv, NEW c, NEW p, SelectedFrom(c, p)
  PROVE  /\ c.by \in Programs /\ c.day \in TradingDays /\ Cardinality(c.index) <= IndexDays
         /\ c.shares \subseteq Funds \X FundDays
         /\ \A s \in Funds :
              LET own == {r \in c.ratios : r.symbol = s}
                  newest == {r \in own : \A q \in own : q.end <= r.end}
                  combined == {r \in c.combined : r.symbol = s}
              IN /\ (own = {}) = (combined = {})
                 /\ \A key \in combined : /\ key.end \in {r.end : r \in newest}
                                        /\ key.ratio = Ratio(newest)
<1> DEFINE d == c.day
<1>1. Portal(p) /\ d \in TradingDays /\ c = Selected(p, d)
  BY DEF SelectedFrom
<1>2. c.by = p.by /\ p.by \in Programs /\ c.shares = ShareHistory(p, d) /\ c.index = IndexHistory(p, d)
  BY <1>1 DEF Selected, Portal
<1>3. c.shares \subseteq Funds \X FundDays
  <2>1. dataset.shares \subseteq Funds \X FundDays
    BY ReportAssumption DEF LoadInv
  <2>2. c.shares \subseteq dataset.shares
    BY <1>1, <1>2 DEF ShareHistory, Portal
  <2> QED
    BY <2>1, <2>2
<1>4. Cardinality(c.index) <= IndexDays
  BY <1>1, <1>2, IndexIsShort
<1>5. ASSUME NEW s \in Funds
      PROVE  LET own == {r \in c.ratios : r.symbol = s}
                 newest == {r \in own : \A q \in own : q.end <= r.end}
                 combined == {r \in c.combined : r.symbol = s}
             IN /\ (own = {}) = (combined = {})
                /\ \A key \in combined : /\ key.end \in {r.end : r \in newest}
                                       /\ key.ratio = Ratio(newest)
  <2> DEFINE own == {r \in c.ratios : r.symbol = s}
             newest == {r \in own : \A q \in own : q.end <= r.end}
             combined == {r \in c.combined : r.symbol = s}
  <2>1. own = LatestRatios(p, s, d) /\ combined = CombinedRatio(p, s, d)
    BY <1>1, SelectedRatios
  <2>2. newest = CombinedPeriod(p, s, d)
    BY <1>1, <2>1, NewestPeriod
  <2>3. /\ (CombinedRatio(p, s, d) = {}) = (LatestRatios(p, s, d) = {})
        /\ \A key \in CombinedRatio(p, s, d) : /\ key.end \in {r.end : r \in CombinedPeriod(p, s, d)}
                                             /\ key.ratio = Ratio(CombinedPeriod(p, s, d))
    BY <1>1, CombinedOfPeriod
  <2> HIDE DEF own, newest, combined
  <2>4. /\ (own = {}) = (combined = {})
        /\ \A key \in combined : key.end \in {r.end : r \in newest} /\ key.ratio = Ratio(newest)
    BY <2>1, <2>2, <2>3
  <2> QED
    BY <2>4 DEF own, newest, combined
<1> QED
  BY <1>1, <1>2, <1>3, <1>4, <1>5

\* What the run checks follows.
LEMMA FundsFollow ==
  ASSUME FundInv
  PROVE  FundsInv
<1>1. LoadInv /\ ShownInv
  BY DEF FundInv
<1>2. FundTypes
  <2>1. date \in FundDays /\ dataset \in Tables /\ file \in Files /\ frozen \in Files
    BY <1>1 DEF LoadInv
  <2>2. reading \subseteq Programs /\ Cardinality(reading) <= 1
    <3>1. CASE reading = {}
      BY <3>1, FS_EmptySet
    <3>2. CASE \E by \in Programs : reading = {by}
      <4>1. PICK by \in Programs : reading = {by}
        BY <3>2
      <4>2. Cardinality(reading) = 1
        BY <4>1, FS_Singleton
      <4> QED
        BY <4>1, <4>2
    <3> QED
      BY <1>1, <3>1, <3>2 DEF LoadInv
  <2>3. \A p \in portals : p.by \in Programs /\ p.from \in FundDays /\ p.to \in FundDays /\ p.index \subseteq TradingDays
    BY <1>1 DEF ShownInv, Portal
  <2>4. \A c \in given : /\ c.by \in Programs /\ c.day \in TradingDays /\ Cardinality(c.index) <= IndexDays
                         /\ c.shares \subseteq Funds \X FundDays
    BY <1>1, ShownIsSound DEF ShownInv
  <2>5. \A r \in raised : r.by \in Programs /\ r.why \in {"digest", "ratio", "closed day", "combined", "context"}
    BY <1>1 DEF ShownInv
  <2> QED
    BY <2>1, <2>2, <2>3, <2>4, <2>5 DEF FundTypes
<1>3. ContextNeverRefuses
  BY <1>1 DEF ShownInv, ContextNeverRefuses
<1>4. CombinedIsOfTheLatest
  BY <1>1, ShownIsSound DEF ShownInv, CombinedIsOfTheLatest
<1>5. LoadsAgree
  <2>1. ASSUME NEW a \in given, NEW b \in given, a.day = b.day, a.frozen = b.frozen
        PROVE  LET from == LaterOf(a.from, b.from)
               IN /\ a.ratios = b.ratios /\ a.combined = b.combined
                  /\ {r \in a.shares : r[2] >= from} = {r \in b.shares : r[2] >= from}
                  /\ {i \in a.index : i >= from} = {i \in b.index : i >= from}
    <3>1. PICK p : SelectedFrom(a, p)
      BY <1>1 DEF ShownInv
    <3>2. PICK q : SelectedFrom(b, q)
      BY <1>1 DEF ShownInv
    <3>3. PICK d : d = a.day
      OBVIOUS
    <3>4. /\ Portal(p) /\ p.from <= d /\ d <= p.to /\ a = Selected(p, d)
          /\ Portal(q) /\ q.from <= d /\ d <= q.to /\ b = Selected(q, d)
          /\ d \in FundDays /\ dataset \in Tables
      BY <1>1, <2>1, <3>1, <3>2, <3>3, CalendarAssumption DEF SelectedFrom, LoadInv
    <3>5. p.frozen = q.frozen /\ a.from = p.from /\ b.from = q.from
      BY <2>1, <3>4 DEF Selected
    <3> QED
      BY <3>4, <3>5, SelectionsAgree
  <2> QED
    BY <2>1 DEF LoadsAgree
<1>6. RatiosAreFrozen
  BY <1>1 DEF ShownInv, Portal, RatiosAreFrozen
<1>7. NoRowIsLost
  <2>1. ASSUME NEW p \in portals PROVE p.frozen \in Files /\ p.ratios = Aggregated(p.frozen)
    BY <1>1 DEF ShownInv, Portal
  <2>2. ASSUME NEW p \in portals,
               NEW q \in {x \in p.frozen : x.entity \in Entities},
               NEW o \in {x \in p.frozen : x.entity \in Entities},
               <<q.symbol, q.entity, q.end>> = <<o.symbol, o.entity, o.end>>
        PROVE  \E r \in p.ratios : /\ <<r.symbol, r.entity, r.end>> = <<q.symbol, q.entity, q.end>>
                                   /\ r.ratio >= IF q = o THEN q.ratio ELSE q.ratio + o.ratio
    BY <2>1, <2>2, RatiosOfFile
  <2> QED
    BY <2>2 DEF NoRowIsLost
<1> QED
  BY <1>2, <1>3, <1>4, <1>5, <1>6, <1>7 DEF FundsInv

\* It holds at the start.
LEMMA FundsBegin ==
  ASSUME FundInit
  PROVE  FundInv
  BY CalendarAssumption DEF FundInit, FundInv, LoadInv, ShownInv, FundDays

\* Portals and contexts of an unchanged dataset stay what they are.
LEMMA PortalsStay ==
  ASSUME dataset' = dataset
  PROVE  (\A p : Portal(p) => Portal(p)') /\ \A c, p : SelectedFrom(c, p) => SelectedFrom(c, p)'
<1>1. ASSUME NEW p PROVE Portal(p) => Portal(p)'
  BY DEF Portal
<1>2. ASSUME NEW c, NEW p PROVE SelectedFrom(c, p) => SelectedFrom(c, p)'
  BY <1>1 DEF SelectedFrom
<1> QED
  BY <1>1, <1>2

\* The first reading of the file.
LEMMA DigestKeeps ==
  ASSUME FundInv, NEW by \in Programs, Digest(by)
  PROVE  FundInv'
<1>1. LoadInv'
  BY DEF FundInv, LoadInv, Digest, DigestOK, Raise
<1>2. dataset' = dataset /\ portals' = portals /\ given' = given
  BY DEF Digest
<1>3. \A r \in raised' : r.by \in Programs /\ r.why \in {"digest"}
  <2>1. raised' = {} \/ raised' = {[by |-> by, why |-> "digest"]}
    BY DEF Digest, Raise
  <2> QED
    BY <2>1
<1> QED
  BY <1>1, <1>2, <1>3, PortalsStay DEF FundInv, ShownInv

\* The second, and the portal of what was read.
LEMMA ReadRowsKeeps ==
  ASSUME FundInv, NEW by \in Programs, ReadRows(by)
  PROVE  FundInv'
<1> DEFINE from == LoadFrom(by)
           to == LoadTo(by)
           ratios == Aggregated(file)
           new == [by |-> by, frozen |-> frozen, from |-> from, to |-> to,
                   shares |-> Shares(from, to), ratios |-> ratios, index |-> Index(from, to)]
<1>1. /\ date \in FundDays /\ dataset \in Tables /\ file \in Files /\ frozen \in Files
      /\ by \in reading /\ file = frozen /\ (by = "backtest" => LastLoaded <= date)
  BY DEF FundInv, LoadInv, ReadRows
<1>2. /\ UNCHANGED <<date, dataset, file, frozen, given>> /\ reading' = {}
  BY DEF ReadRows
<1>3. LoadInv'
  BY <1>1, <1>2 DEF LoadInv
<1>4. from \in FundDays /\ to \in FundDays /\ to <= date
  BY <1>1, CalendarAssumption, LoadAssumption DEF FundDays, LoadFrom, LoadTo, LaterOf, Programs
<1>5. (\A i \in dataset.index : i \in Int) /\ \A r \in dataset.shares : r[2] \in Int
  <2>1. dataset.shares \subseteq Funds \X FundDays /\ dataset.index \subseteq FundDays
    BY <1>1, ReportAssumption
  <2> QED
    BY <2>1, CalendarAssumption DEF FundDays
<1>6. date \in Int /\ to \in Int
  BY <1>1, <1>4, CalendarAssumption DEF FundDays
<1>7. /\ Shares(from, to) = {r \in dataset.shares : from <= r[2] /\ r[2] <= to}
      /\ Index(from, to) = {i \in dataset.index : from <= i /\ i <= to}
  <2> HIDE DEF from, to
  <2> QED
    BY <1>4, <1>5, <1>6 DEF Shares, Index
<1>8. ASSUME ~ \E r \in ratios : r.ratio > Unit, Index(from, to) \subseteq TradingDays
      PROVE  Portal(new)
  <2>1. \A r \in ratios : r.ratio \in Nat
    BY <1>1, RatiosOfFile DEF Ratios
  <2>2. \A r \in ratios : r.ratio <= Unit
    BY <1>8, <2>1, LoadAssumption
  <2> HIDE DEF from, to
  <2> QED
    BY <1>1, <1>4, <1>7, <1>8, <2>2 DEF Portal
<1>9. \/ /\ portals' = portals
         /\ \E why \in {"ratio", "closed day"} : raised' = {[by |-> by, why |-> why]}
      \/ Portal(new) /\ portals' = {p \in portals : p.by # by} \cup {new} /\ raised' = {}
  <2>1. CASE \E r \in ratios : r.ratio > Unit
    BY <2>1 DEF ReadRows, Raise
  <2>2. CASE ~(\E r \in ratios : r.ratio > Unit) /\ ~(Index(from, to) \subseteq TradingDays)
    BY <2>2 DEF ReadRows, Raise
  <2>3. CASE ~(\E r \in ratios : r.ratio > Unit) /\ Index(from, to) \subseteq TradingDays
    BY <1>8, <2>3 DEF ReadRows, Raise
  <2> QED
    BY <2>1, <2>2, <2>3
<1> HIDE DEF new
<1>10. \A p \in portals' : Portal(p)
  BY <1>9 DEF FundInv, ShownInv
<1>11. \A r \in raised' : r.by \in Programs /\ r.why \in {"ratio", "closed day"}
  <2>1. \A r \in raised' : r = [by |-> by, why |-> "ratio"] \/ r = [by |-> by, why |-> "closed day"]
    BY <1>9
  <2>2. ASSUME NEW r \in raised' PROVE r.by = by /\ (r.why = "ratio" \/ r.why = "closed day")
    <3>1. CASE r = [by |-> by, why |-> "ratio"]
      BY <3>1
    <3>2. CASE r = [by |-> by, why |-> "closed day"]
      BY <3>2
    <3> QED
      BY <2>1, <3>1, <3>2
  <2> QED
    BY <2>2
<1> QED
  BY <1>2, <1>3, <1>10, <1>11, PortalsStay DEF FundInv, ShownInv

\* A strategy asks for what it may see.
LEMMA AskKeeps ==
  ASSUME FundInv, NEW by \in Programs, NEW d \in FundDays, Ask(by, d)
  PROVE  FundInv'
<1>1. /\ UNCHANGED <<date, dataset, file, frozen, reading, portals>>
  BY DEF Ask
<1>2. LoadInv'
  BY <1>1 DEF FundInv, LoadInv
<1>3. PICK p \in portals :
        /\ p.by = by /\ d \in TradingDays /\ p.from <= d /\ d <= p.to
        /\ LET c == Selected(p, d)
               why == IF \E r \in c.combined : r.ratio > Unit THEN "combined"
                      ELSE IF ~Acceptable(c) THEN "context"
                      ELSE "none"
           IN IF why # "none" THEN Raise(by, why) /\ UNCHANGED given
              ELSE given' = {x \in given : x.day = d /\ x.by # by} \cup {c} /\ raised' = {}
  BY DEF Ask
<1>4. Portal(p)
  BY DEF FundInv, ShownInv
<1> DEFINE c == Selected(p, d)
<1>5. \/ given' = given /\ raised' = {[by |-> by, why |-> "combined"]}
      \/ given' = {x \in given : x.day = d /\ x.by # by} \cup {c} /\ raised' = {}
  <2>1. CASE \E r \in c.combined : r.ratio > Unit
    BY <1>3, <2>1 DEF Raise
  <2>2. CASE ~ \E r \in c.combined : r.ratio > Unit
    <3>1. Acceptable(c)
      BY <1>4, <2>2, ContextAccepts
    <3> HIDE DEF c
    <3> QED
      BY <1>3, <2>2, <3>1 DEF c
  <2> QED
    BY <2>1, <2>2
<1>6. SelectedFrom(c, p)
  <2>1. c.day = d
    BY DEF Selected
  <2> QED
    BY <1>3, <1>4, <2>1 DEF SelectedFrom
<1> HIDE DEF c
<1>7. \A x \in given' : \E q : SelectedFrom(x, q)
  BY <1>5, <1>6 DEF FundInv, ShownInv
<1>8. \A r \in raised' : r.by \in Programs /\ r.why \in {"digest", "ratio", "closed day", "combined"}
  <2>1. \A r \in raised' : r = [by |-> by, why |-> "combined"]
    BY <1>5
  <2>2. \A r \in raised' : r.by = by /\ r.why = "combined"
    BY <2>1
  <2> QED
    BY <2>2
<1> QED
  BY <1>1, <1>2, <1>7, <1>8, PortalsStay DEF FundInv, ShownInv

\* Every step keeps it, as long as nobody replaces the file while it is read.
LEMMA FundsStep ==
  ASSUME Replaceable = FALSE, FundInv, [FundNext]_fundVars
  PROVE  FundInv'
<1>1. ASSUME ReplaceFile PROVE FundInv'
  <2>1. LoadInv'
    BY <1>1 DEF ReplaceFile, FundInv, LoadInv
  <2>2. UNCHANGED <<dataset, portals, given, raised>>
    BY <1>1 DEF ReplaceFile
  <2> QED
    BY <2>1, <2>2, PortalsStay DEF FundInv, ShownInv
<1>2. ASSUME Restart PROVE FundInv'
  <2>1. LoadInv'
    BY <1>2 DEF Restart, FundInv, LoadInv
  <2>2. UNCHANGED <<dataset, given>> /\ portals' = {} /\ raised' = {}
    BY <1>2 DEF Restart
  <2> QED
    BY <2>1, <2>2, PortalsStay DEF FundInv, ShownInv
<1>3. ASSUME NextDate PROVE FundInv'
  <2>1. LoadInv'
    BY <1>3, CalendarAssumption DEF NextDate, FundInv, LoadInv, FundDays
  <2>2. UNCHANGED <<dataset, portals, given, raised>>
    BY <1>3 DEF NextDate
  <2> QED
    BY <2>1, <2>2, PortalsStay DEF FundInv, ShownInv
<1>4. ASSUME UNCHANGED fundVars PROVE FundInv'
  <2>1. LoadInv'
    BY <1>4 DEF fundVars, FundInv, LoadInv
  <2>2. UNCHANGED <<dataset, portals, given, raised>>
    BY <1>4 DEF fundVars
  <2> QED
    BY <2>1, <2>2, PortalsStay DEF FundInv, ShownInv
<1> QED
  BY <1>1, <1>2, <1>3, <1>4, DigestKeeps, ReadRowsKeeps, AskKeeps DEF FundNext

\* As long as nobody replaces the file between its digest and its rows, ratios
\* are those of the frozen file and lose no row, the context accepts what the
\* portal selects, and a live and a backtest load show a strategy the same for
\* a day (mysql.py:949-992, portal.py:36-301, context.py:209-348).
THEOREM FundsSafe ==
  ASSUME Replaceable = FALSE
  PROVE  FundSpec => []FundsInv
<1>1. FundInit => FundInv
  BY FundsBegin
<1>2. FundInv /\ [FundNext]_fundVars => FundInv'
  BY FundsStep
<1>3. FundInv => FundsInv
  BY FundsFollow
<1> QED
  BY <1>1, <1>2, <1>3, PTL DEF FundSpec
=============================================================================
