------------------------------ MODULE DailyData ------------------------------
(***************************************************************************)
(* The daily data every signal, backtest and valuation stands on: the        *)
(* universe that FrozenUniverseResolver freezes, the slice of the quote       *)
(* tables that QmtDailyRepository.load_daily_dataset accepts or refuses as a   *)
(* whole, the portal that DailyDataPortal builds from it, and the context a    *)
(* strategy is shown for a signal date.                                       *)
(*                                                                         *)
(* Days are numbered.  The tables grow with the days: a row of day d is there *)
(* from day d on, the calendar is known in advance.  A price is named by the  *)
(* day whose close it is.                                                    *)
(***************************************************************************)
EXTENDS Integers, FiniteSets

CONSTANTS
  Symbols,        \* the securities of dim_etf
  LastDay,        \* the calendar table holds the days 1 .. LastDay
  Worlds,         \* what the calendar, dim_etf and the quote tables may come to hold
  RunStart,       \* start_date of the experiment, and the anchor of the schedule
  RunEnd,         \* its end_date
  Lookback,       \* required_history_trading_days
  ModelWindow,    \* days a model signal loads before its date (90 or more)
  Horizon         \* days loaded after the date of a signal (10)

Days == 1 .. LastDay
Never == LastDay + 1
Master == [list : Days, end : Days \cup {Never}, dated : BOOLEAN]
Cell == [raw : {"full", "partial", "none"}, front : BOOLEAN,
         flag : {"absent", "normal", "suspended", "null"}, limit : {"none", "inside", "near", "far"}]

ASSUME DayAssumption == LastDay \in Nat
ASSUME WorldAssumption ==
  \A w \in Worlds : /\ w.opens \subseteq Days /\ w.master \in [Symbols -> Master]
                    /\ w.table \in [Symbols -> [Days -> Cell]]
ASSUME RunAssumption ==
  /\ RunStart \in Days /\ RunEnd \in Days /\ Lookback \in Nat \ {0}
  /\ ModelWindow \in Nat /\ Horizon \in Nat

VARIABLES
  opens,     \* the open days of dim_trading_calendar
  master,    \* dim_etf
  table,     \* the quote and status tables
  today,     \* rows of later days are not there yet
  universe,  \* StrategySpec.symbols, in a set, or {} before the service is built
  seen,      \* what was shown for the date last asked for
  refused    \* what the last request raised, in a set, or {}

vars == <<opens, master, table, today, universe, seen, refused>>

Least(a, b)    == IF a <= b THEN a ELSE b
Greatest(a, b) == IF a >= b THEN a ELSE b
LeastOf(S)     == CHOOSE x \in S : \A y \in S : x <= y
GreatestOf(S)  == CHOOSE x \in S : \A y \in S : y <= x

Init ==
  /\ \E w \in Worlds : opens = w.opens /\ master = w.master /\ table = w.table
  /\ today = 1 /\ universe = {} /\ seen = {} /\ refused = {}
-----------------------------------------------------------------------------
(* The calendar. *)

\* previous_open_date and next_open_date, in a set, or {}.
PrevOpen(d) == LET before == {o \in opens : o < d} IN {o \in before : \A p \in before : p <= o}
NextOpen(d) == LET after == {o \in opens : o > d} IN {o \in after : \A p \in after : o <= p}

\* next_trading_day, of a calendar loaded up to the day `to`.
NextTradingDay(d, to) == {o \in NextOpen(d) : o <= to}

\* trading_day_index: trading days from the anchor, which must be one.
ScheduleIndex(anchor, d) == Cardinality({o \in opens : anchor <= o /\ o <= d}) - 1
-----------------------------------------------------------------------------
(* The universe. *)

\* current_status and delist_date as dim_etf has them today.
Delisted(s) == today > master[s].end
DelistDate(s) == IF Delisted(s) /\ master[s].dated THEN master[s].end ELSE Never

Cells(s, d) == table[s][d]
HasRow(s, d) == d <= today /\ Cells(s, d).raw # "none"

\* load_last_raw_trade_dates: a row counts, complete or not.
LastRawDate(s) == LET rows == {d \in Days : HasRow(s, d)} IN {d \in rows : \A e \in rows : e <= d}

\* The end of life the resolver freezes: approximated when a delisted security
\* has no delist_date; {} when there is no evidence for one.
FrozenEnd(s) ==
  IF Delisted(s) /\ DelistDate(s) = Never THEN {d \in LastRawDate(s) : d >= master[s].list} ELSE {DelistDate(s)}

Resolvable == \A s \in Symbols : FrozenEnd(s) # {}
Included(s, from, to) ==
  \E end \in FrozenEnd(s) : Greatest(from, master[s].list) <= Least(to, end)
Members(from, to) == {s \in Symbols : Included(s, from, to)}
FrozenLives(syms) == [s \in syms |-> [from |-> master[s].list, to |-> CHOOSE end \in FrozenEnd(s) : TRUE]]

\* _infos_from_master, for a caller without frozen lives.
MasterLives(syms) == [s \in syms |-> [from |-> master[s].list, to |-> DelistDate(s)]]
-----------------------------------------------------------------------------
(* load_daily_dataset. *)

FullRaw(s, d)  == d <= today /\ Cells(s, d).raw = "full"
HasFront(s, d) == d <= today /\ Cells(s, d).front
HasStatus(s, d) == d <= today /\ Cells(s, d).flag # "absent"

\* The rows read reach one open day beyond the range on each side.
ReadFrom(from, to) == LET inside == {o \in opens : from <= o /\ o <= to}
                      IN IF inside = {} \/ PrevOpen(LeastOf(inside)) = {} THEN from
                         ELSE Least(from, LeastOf(PrevOpen(LeastOf(inside))))
ReadTo(from, to) == LET inside == {o \in opens : from <= o /\ o <= to}
                    IN IF inside = {} \/ NextOpen(GreatestOf(inside)) = {} THEN to
                       ELSE Greatest(to, LeastOf(NextOpen(GreatestOf(inside))))
Complete(s, d, from, to) ==
  ReadFrom(from, to) <= d /\ d <= ReadTo(from, to) /\ FullRaw(s, d) /\ HasFront(s, d)

\* A day with a status row that says suspended, or nothing, and no quote at all
\* carries the close of the day before, when both neighbours are complete.
CarryCandidate(s, d) ==
  /\ HasStatus(s, d) /\ Cells(s, d).flag \in {"suspended", "null"}
  /\ ~HasRow(s, d) /\ ~HasFront(s, d)
Carried(s, d, from, to) ==
  /\ d \in opens /\ CarryCandidate(s, d)
  /\ \E p \in PrevOpen(d) : Complete(s, p, from, to)
  /\ \E n \in NextOpen(d) : Complete(s, n, from, to)

\* The bars of the slice; the raw and the front price of a bar are the closes
\* of the same day.
CarryOf_Next(d) == LeastOf(NextOpen(d))                                 \* variant
CarryOf(d) == LeastOf(PrevOpen(d))
Bar(s, d) ==
  [symbol |-> s, day |-> d, price |-> IF FullRaw(s, d) THEN d ELSE CarryOf(d),
   suspended |-> ~FullRaw(s, d) \/ Cells(s, d).flag = "suspended"]
Bars(syms, from, to) ==
  {Bar(x[1], x[2]) : x \in {y \in syms \X (from .. to) : FullRaw(y[1], y[2]) \/ Carried(y[1], y[2], from, to)}}

OneToOne(syms, from, to) == \A s \in syms, d \in from .. to : FullRaw(s, d) <=> HasFront(s, d)

Alive(life, d) == life.from <= d /\ d <= life.to
Expected(syms, lives, from, to) ==
  {x \in syms \X (opens \cap (from .. to)) : Alive(lives[x[1]], x[2])}
Covered(syms, lives, bars, from, to) ==
  {<<b.symbol, b.day>> : b \in bars} = Expected(syms, lives, from, to)

\* An explicit limit that the close passes by at most half a cent is moved to
\* the close if the close is the high or the low of the day; a carried bar has
\* no such day.
WithinLimits(b) ==
  \/ ~HasStatus(b.symbol, b.day) \/ Cells(b.symbol, b.day).limit \in {"none", "inside"}
  \/ Cells(b.symbol, b.day).limit = "near" /\ b.price = b.day

\* _validate_lifecycle_infos: an exact delist_date may not be overridden.
LivesAgree(syms, lives) ==
  \A s \in syms : /\ lives[s].from = master[s].list
                  /\ DelistDate(s) # Never => lives[s].to = DelistDate(s)

\* What load_daily_dataset raises; "none" when it returns the slice.
Refusal(syms, lives, bars, from, to) ==
  IF syms = {} THEN "no symbols"
  ELSE IF ~LivesAgree(syms, lives) THEN "lifecycle"
  ELSE IF ~(from .. to \subseteq Days) THEN "calendar"
  ELSE IF ~OneToOne(syms, from, to) THEN "one-to-one"
  ELSE IF ~Covered(syms, lives, bars, from, to) THEN "coverage"
  ELSE IF \E b \in bars : ~WithinLimits(b) THEN "limits"
  ELSE "none"

\* SseTradingCalendar refuses dates without an open day, which the slice does not.
NoOpenDay(from, to) == opens \cap (from .. to) = {}

\* The coverage test DailyDataPortal makes again, on the frames.
PortalAgrees(syms, lives, bars, from, to) ==
  \A d \in opens \cap (from .. to) :
    {b.symbol : b \in {x \in bars : x.day = d}} = {s \in syms : Alive(lives[s], d)}
-----------------------------------------------------------------------------
(* What a strategy is shown. *)

\* views_through: the last open days up to the date of the signal.
EligibleDays_Next(d, from, to) ==                                       \* variant
  {o \in opens \cap (from .. to) : o <= d + 1 /\ Cardinality({p \in opens : o < p /\ p <= d}) < Lookback}
EligibleDays(d, from, to) ==
  {o \in opens \cap (from .. to) : o <= d /\ Cardinality({p \in opens : o < p /\ p <= d}) < Lookback}
ViewsThrough(bars, d, from, to) == {b \in bars : b.day \in EligibleDays(d, from, to)}

Context(by, syms, bars, d, from, to, exec, index) ==
  [by |-> by, syms |-> syms, day |-> d, loaded |-> from,
   views |-> ViewsThrough(bars, d, from, to), exec |-> exec, index |-> index]

ShownOn(bars, d) == {b.symbol : b \in {x \in bars : x.day = d}}

\* The contexts of the date last asked for are kept, and the last problem.
Show(c) == seen' = {x \in seen : x.day = c.day /\ x.by # c.by} \cup {c} /\ refused' = {}
Refuse(by, d, why) == refused' = {[by |-> by, day |-> d, why |-> why]} /\ UNCHANGED seen

\* A live signal builds a slice, a portal and a calendar, and raises when one of
\* them refuses, the calendar has no next trading day, or a security of the
\* universe has no close to value the account with.
Evaluate(by, d, from, to, calendarTo) ==
  LET lives == MasterLives(universe)
      bars == Bars(universe, from, to)
      slice == Refusal(universe, lives, bars, from, to)
      why == IF slice # "none" THEN slice
             ELSE IF NoOpenDay(from, to) THEN "no open day"
             ELSE IF ~PortalAgrees(universe, lives, bars, from, to) THEN "portal"
             ELSE IF calendarTo \notin Days THEN "calendar"
             ELSE IF NextTradingDay(d, calendarTo) = {} THEN "no next day"
             ELSE IF ShownOn(bars, d) # universe THEN "no close"
             ELSE "none"
  IN IF why # "none" THEN Refuse(by, d, why)
     ELSE Show(Context(by, universe, bars, d, from, to, LeastOf(NextTradingDay(d, calendarTo)), ScheduleIndex(RunStart, d)))

\* build_strategy_spec: the universe of a live strategy is frozen once, over the
\* dates of its experiment.
BuildService ==
  /\ universe = {} /\ Resolvable /\ Members(RunStart, RunEnd) # {}
  /\ universe' = Members(RunStart, RunEnd)
  /\ UNCHANGED <<opens, master, table, today, seen, refused>>

\* prepare_signal runs on the date of the signal, after the close.  A rule
\* loads its whole history and the days after the signal, a model a window of
\* days up to the signal and a calendar of its own.
SignalDue == universe # {} /\ today \in opens /\ RunStart \in opens /\ RunStart <= today

WindowStart(d) == Greatest(1, d - ModelWindow)
LoadStart(by, d) == IF by = "rule" THEN RunStart ELSE WindowStart(d)
LoadEnd(by, d) == IF by = "rule" THEN d + Horizon ELSE d

Signal(by) ==
  /\ SignalDue
  /\ Evaluate(by, today, LoadStart(by, today), LoadEnd(by, today), today + Horizon)
  /\ UNCHANGED <<opens, master, table, today, universe>>

\* DatabaseClosePriceProvider: the closes of one day, at the end of that day.
ClosePrices ==
  /\ universe # {} /\ today \in opens
  /\ LET bars == Bars(universe, today, today)
         slice == Refusal(universe, MasterLives(universe), bars, today, today)
     IN IF slice # "none" THEN Refuse("close", today, slice)
        ELSE IF ShownOn(bars, today) # universe THEN Refuse("close", today, "no close")
        ELSE Show(Context("close", universe, bars, today, today, today, today, 0))
  /\ UNCHANGED <<opens, master, table, today, universe>>

\* run_experiment and BacktestEngine.run: a run over the past freezes its own
\* universe, asks for frames on adjacent trading days and shows a context on each
\* but the last.
Frames(bars) == {b.day : b \in bars} \cap (RunStart .. RunEnd)
Adjacent(days) == \A d \in days : (\E e \in days : d < e) => NextOpen(d) \subseteq days

Backtest(d) ==
  /\ RunEnd <= today /\ Resolvable /\ Members(RunStart, RunEnd) # {}
  /\ LET syms == Members(RunStart, RunEnd)
         from == WindowStart(RunStart)
         bars == Bars(syms, from, RunEnd)
         slice == Refusal(syms, FrozenLives(syms), bars, from, RunEnd)
         frames == Frames(bars)
         why == IF slice # "none" THEN slice
                ELSE IF NoOpenDay(from, RunEnd) THEN "no open day"
                ELSE IF ~PortalAgrees(syms, FrozenLives(syms), bars, from, RunEnd) THEN "portal"
                ELSE IF frames = {} \/ ~Adjacent(frames) THEN "frames"
                ELSE "none"
     IN IF why # "none" THEN Refuse("backtest", d, why)
        ELSE /\ d \in frames /\ \E e \in frames : d < e
             /\ Show(Context("backtest", syms, bars, d, from, RunEnd, LeastOf({e \in frames : d < e}),
                             Cardinality({e \in frames : e <= d}) - 1))
  /\ UNCHANGED <<opens, master, table, today, universe>>

NextDay ==
  /\ today < LastDay /\ today' = today + 1
  /\ UNCHANGED <<opens, master, table, universe, seen, refused>>

Next == \/ BuildService \/ ClosePrices \/ NextDay
        \/ \E by \in {"rule", "model"} : Signal(by)
        \/ \E d \in Days : Backtest(d)

Spec == Init /\ [][Next]_vars
-----------------------------------------------------------------------------
(* Properties. *)

Reasons == {"no symbols", "lifecycle", "calendar", "one-to-one", "coverage", "limits", "no open day",
            "portal", "no next day", "no close", "frames"}
Callers == {"rule", "model", "backtest", "close"}

TypeOK ==
  /\ opens \subseteq Days /\ master \in [Symbols -> Master] /\ table \in [Symbols -> [Days -> Cell]]
  /\ today \in Days /\ universe \subseteq Symbols
  /\ \A c \in seen : /\ c.by \in Callers /\ c.day \in opens /\ c.exec \in opens /\ c.index \in Nat
                     /\ c.syms \subseteq Symbols /\ c.loaded \in Days
                     /\ c.views \subseteq [symbol : c.syms, day : opens, price : opens, suspended : BOOLEAN]
  /\ \A r \in refused : r.by \in Callers /\ r.day \in Days /\ r.why \in Reasons

\* Nothing a strategy is shown for a signal date is of a later day: neither a
\* view nor the price a view carries (portal.py:164-193, mysql.py:1200-1268).
NoLookAhead ==
  \A c \in seen : \A v \in c.views : v.day <= c.day /\ v.price <= v.day

\* The views of a context c on the securities and dates that two contexts loaded.
Shared(a, b, c) == {v \in c.views : v.symbol \in a.syms \cap b.syms /\ v.day >= a.loaded /\ v.day >= b.loaded}

\* Whoever asks for the history of a date, and whenever, sees the same: a live
\* signal made on the day, the valuation of that evening and a backtest run
\* later over the longer tables agree wherever both have loaded the dates
\* (signals.py:162-201, experiment.py:116-119).
HistoryIsStable ==
  \A a, b \in seen : a.day = b.day => Shared(a, b, a) = Shared(a, b, b)

\* A day of a history that was carried stands alone: the security was quoted on
\* the trading day before, whose close it has, and on the one after, and it is
\* not tradable (spec 4.3; mysql.py:1200-1268).
CarriesAreIsolated ==
  \A c \in seen : \A v \in c.views : v.price # v.day =>
    /\ v.suspended /\ PrevOpen(v.day) = {v.price}
    /\ \A n \in PrevOpen(v.day) \cup NextOpen(v.day) : FullRaw(v.symbol, n) /\ HasFront(v.symbol, n)
    /\ NextOpen(v.day) # {}

\* What the repository accepts, the portal accepts: the coverage each tests on
\* its own, from the lives of the securities, is the same (mysql.py:1084-1100,
\* portal.py:349-373).
PortalNeverRefuses ==
  \A r \in refused : r.why # "portal"

\* The lives the resolver freezes are those the loader accepts, although the
\* resolver makes up the end of a delisted security without one
\* (resolver.py:271-293, mysql.py:1501-1511).
FrozenLivesAreAccepted ==
  \A r \in refused : r.why # "lifecycle"

\* For one date a live signal and a backtest bind the same execution date and,
\* when the backtest has a frame on its first day, the same place in the
\* schedule (schedule.py:13-19, engine.py:159-226).
SchedulesAgree ==
  \A a, b \in {c \in seen : c.by # "close"} : a.day = b.day =>
    /\ a.exec = b.exec
    /\ (\E s \in a.syms \cap b.syms : master[s].list <= RunStart) => a.index = b.index

\* The tables hold what they should for the universe up to a day.
Quoted(s, d) == Cells(s, d).raw = "full" /\ Cells(s, d).front /\ Cells(s, d).limit \in {"none", "inside"}
CleanUpTo(d) == \A s \in universe, e \in 1 .. d : IF e \in opens /\ Alive([from |-> master[s].list, to |-> master[s].end], e)
                                                   THEN Quoted(s, e) ELSE ~FullRaw(s, e) /\ ~HasFront(s, e)
AllAlive(d) == \A s \in universe : master[s].list <= d /\ d < master[s].end
Holiday(d) == NextTradingDay(d, d + Horizon) = {} \/ d + Horizon > LastDay

\* With the data of the day in place, every security listed, and the next
\* trading day within the horizon, a model signal is made (signals.py:162-201).
ModelSignalsAreMade ==
  \A r \in refused : r.by = "model" => ~CleanUpTo(r.day) \/ ~AllAlive(r.day) \/ Holiday(r.day)

\* What a strategy is shown, and when it is refused, by whichever caller: the
\* same history for the same date, isolated carries, no late refusal by the
\* portal or for the frozen lives, one schedule, and a model signal whenever the
\* tables are as they should be.
SlicesInv ==
  /\ TypeOK /\ HistoryIsStable /\ CarriesAreIsolated /\ PortalNeverRefuses
  /\ FrozenLivesAreAccepted /\ SchedulesAgree /\ ModelSignalsAreMade
=============================================================================
