--------------------------- MODULE FundamentalData ---------------------------
(***************************************************************************)
(* The data beside the quotes that a strategy may read: the daily shares of   *)
(* a fund, the ratios its two state holders report for a period, and the       *)
(* quotes of an index.  A slice is read once (QmtDailyRepository), kept by the *)
(* portal (DailyDataPortal), selected for a signal date, and checked again     *)
(* where the context of the strategy is built (StrategyContext).               *)
(*                                                                         *)
(* The ratios come from a file that the configuration freezes by its digest;  *)
(* a digest is modelled by the content it is of.  The loader reads the file   *)
(* twice: once for the digest, once for the rows.                              *)
(***************************************************************************)
EXTENDS Integers, FiniteSets, Functions

CONSTANTS
  Funds,          \* the securities of the run
  Entities,       \* HUIJIN_ENTITIES
  FinalDay,       \* days are 1 .. FinalDay
  TradingDays,    \* the open days among them
  Unit,           \* a ratio of one
  Files,          \* what the file may hold: sets of rows
  Tables,         \* what the share and index tables may hold
  LiveWindow,     \* days a live signal loads before its date
  FirstLoaded,    \* first day a backtest loads
  LastLoaded,     \* its last day
  IndexDays,      \* lookback_trading_days
  Replaceable     \* may the file change between its digest and its rows?

FundDays == 1 .. FinalDay
\* A row of the file; rows of one holder for one period may be several.
Report == [symbol : Funds, entity : Entities \cup {"other"}, end : FundDays, ratio : 0 .. Unit, nr : Nat]

ASSUME CalendarAssumption ==
  FinalDay \in Nat \ {0} /\ TradingDays \subseteq FundDays /\ FirstLoaded \in FundDays /\ LastLoaded \in FundDays
ASSUME ReportAssumption ==
  /\ \A f \in Files : f \subseteq Report /\ IsFiniteSet(f)
  /\ \A t \in Tables : t.shares \subseteq Funds \X FundDays /\ t.index \subseteq FundDays
ASSUME LoadAssumption == Unit \in Nat /\ LiveWindow \in Nat /\ IndexDays \in Nat \ {0} /\ Replaceable \in BOOLEAN

VARIABLES
  date,     \* rows of later days are not in the tables yet
  dataset,  \* the share and index tables
  file,     \* the file of ratios
  frozen,   \* the content the configured digest is of
  reading,  \* a load between the digest and the rows, in a set, or {}
  portals,  \* the slices loaded, one of a kind
  given,    \* the contexts shown for the date last asked for
  raised    \* what the last request raised, in a set, or {}

fundVars == <<date, dataset, file, frozen, reading, portals, given, raised>>

Programs == {"live", "backtest"}
LaterOf(a, b) == IF a >= b THEN a ELSE b
Newest(S) == CHOOSE x \in S : \A y \in S : y <= x

FundInit ==
  /\ date = 1 /\ dataset \in Tables /\ file \in Files /\ frozen = file
  /\ reading = {} /\ portals = {} /\ given = {} /\ raised = {}

LoadFrom(by) == IF by = "live" THEN LaterOf(1, date - LiveWindow) ELSE FirstLoaded
LoadTo(by)   == IF by = "live" THEN date ELSE LastLoaded
-----------------------------------------------------------------------------
(* The loaders. *)

\* load_etf_share_records and load_index_records: the rows of the range.
Shares(from, to) == {r \in dataset.shares : from <= r[2] /\ r[2] <= to /\ r[2] <= date}
Index(from, to)  == {d \in dataset.index : from <= d /\ d <= to /\ d <= date}

\* load_huijin_ratio_records: the rows of a holder for a period are added up.
Ratio(rows) == SumFunction([r \in rows |-> r.ratio])
Aggregated(content) ==
  LET known == {r \in content : r.symbol \in Funds /\ r.entity \in Entities}
  IN {[symbol |-> k[1], entity |-> k[2], end |-> k[3],
       ratio |-> Ratio({r \in known : <<r.symbol, r.entity, r.end>> = k})] :
      k \in {<<r.symbol, r.entity, r.end>> : r \in known}}

\* The digest of the file is compared before a row is read.
DigestOK(content) == content = frozen

Raise(by, why) == raised' = {[by |-> by, why |-> why]}

\* A backtest over days without quotes yet is refused before it comes here.
Digest(by) ==
  /\ reading = {} /\ (by = "backtest" => LastLoaded <= date)
  /\ IF DigestOK(file) THEN reading' = {by} /\ raised' = {}
     ELSE Raise(by, "digest") /\ UNCHANGED reading
  /\ UNCHANGED <<date, dataset, file, frozen, portals, given>>

\* The rows; then the portal, which wants index quotes on trading days only.
ReadRows(by) ==
  /\ by \in reading
  /\ reading' = {}
  /\ LET from == LoadFrom(by)
         to == LoadTo(by)
         ratios == Aggregated(file)
         why == IF \E r \in ratios : r.ratio > Unit THEN "ratio"
                ELSE IF ~(Index(from, to) \subseteq TradingDays) THEN "closed day"
                ELSE "none"
     IN IF why # "none" THEN Raise(by, why) /\ UNCHANGED portals
        ELSE /\ portals' = {p \in portals : p.by # by}
                             \cup {[by |-> by, frozen |-> frozen, from |-> from, to |-> to,
                                    shares |-> Shares(from, to), ratios |-> ratios, index |-> Index(from, to)]}
             /\ raised' = {}
  /\ UNCHANGED <<date, dataset, file, frozen, given>>
-----------------------------------------------------------------------------
(* The selections of the portal. *)

Before(p, s, d) == {r \in p.ratios : r.symbol = s /\ r.end < d}

ShareHistory(p, d) == {r \in p.shares : r[2] <= d}

\* huijin_ratios_as_of: the newest of every holder.
LatestRatios(p, s, d) ==
  {r \in Before(p, s, d) : \A q \in Before(p, s, d) : q.entity = r.entity => q.end <= r.end}

\* combined_huijin_ratios_as_of: of the newest period of any holder, in a set.
CombinedPeriod_PerHolder(p, s, d) == LatestRatios(p, s, d)               \* variant
CombinedPeriod(p, s, d) == {r \in Before(p, s, d) : \A q \in Before(p, s, d) : q.end <= r.end}
CombinedRatio(p, s, d) ==
  LET rows == CombinedPeriod(p, s, d)
  IN IF rows = {} THEN {}
     ELSE {[symbol |-> s, end |-> Newest({r.end : r \in rows}), ratio |-> Ratio(rows)]}

\* index_history_through: the last quotes up to the date.
IndexHistory(p, d) ==
  {i \in p.index : i <= d /\ Cardinality({j \in p.index : i < j /\ j <= d}) < IndexDays}

Selected(p, d) ==
  [by |-> p.by, frozen |-> p.frozen, day |-> d, from |-> p.from,
   shares |-> ShareHistory(p, d), index |-> IndexHistory(p, d),
   ratios |-> UNION {LatestRatios(p, s, d) : s \in Funds},
   combined |-> UNION {CombinedRatio(p, s, d) : s \in Funds}]

\* What StrategyContext demands of what it is given.
Acceptable(c) ==
  /\ \A r \in c.shares : r[2] <= c.day
  /\ \A r \in c.ratios \cup c.combined : r.end < c.day /\ r.ratio <= Unit
  /\ \A r, q \in c.ratios : r.symbol = q.symbol /\ r.entity = q.entity => r = q
  /\ \A i \in c.index : i <= c.day

\* from_portal: the portal refuses a sum above one, the context what it may not
\* show.
Ask(by, d) ==
  \E p \in portals :
    /\ p.by = by /\ d \in TradingDays /\ p.from <= d /\ d <= p.to
    /\ LET c == Selected(p, d)
           why == IF \E r \in c.combined : r.ratio > Unit THEN "combined"
                  ELSE IF ~Acceptable(c) THEN "context"
                  ELSE "none"
       IN IF why # "none" THEN Raise(by, why) /\ UNCHANGED given
          ELSE given' = {x \in given : x.day = d /\ x.by # by} \cup {c} /\ raised' = {}
    /\ UNCHANGED <<date, dataset, file, frozen, reading, portals>>
-----------------------------------------------------------------------------
(* The operator puts a newer file in place, and later its digest into the      *)
(* configuration of the next process.                                          *)

ReplaceFile ==
  /\ Replaceable \/ reading = {}
  /\ file' \in Files /\ file \subseteq file' /\ file' # file
  /\ UNCHANGED <<date, dataset, frozen, reading, portals, given, raised>>

Restart ==
  /\ reading = {} /\ frozen' = file /\ portals' = {} /\ raised' = {}
  /\ UNCHANGED <<date, dataset, file, reading, given>>

NextDate ==
  /\ date < FinalDay /\ reading = {} /\ date' = date + 1
  /\ UNCHANGED <<dataset, file, frozen, reading, portals, given, raised>>

FundNext ==
  \/ \E by \in Programs : Digest(by) \/ ReadRows(by) \/ \E d \in FundDays : Ask(by, d)
  \/ ReplaceFile \/ Restart \/ NextDate

FundSpec == FundInit /\ [][FundNext]_fundVars
-----------------------------------------------------------------------------
(* Properties. *)

FundTypes ==
  /\ date \in FundDays /\ dataset \in Tables /\ file \in Files /\ frozen \in Files
  /\ reading \subseteq Programs /\ Cardinality(reading) <= 1
  /\ \A p \in portals : p.by \in Programs /\ p.from \in FundDays /\ p.to \in FundDays /\ p.index \subseteq TradingDays
  /\ \A c \in given : /\ c.by \in Programs /\ c.day \in TradingDays /\ Cardinality(c.index) <= IndexDays
                     /\ c.shares \subseteq Funds \X FundDays
  /\ \A r \in raised : r.by \in Programs /\ r.why \in {"digest", "ratio", "closed day", "combined", "context"}

\* The context never refuses what the portal selected for it: the two agree on
\* what is of the past (portal.py:205-301, context.py:209-348).
ContextNeverRefuses == \A r \in raised : r.why # "context"

\* The combined ratio of a security is that of the newest period among its
\* holders' latest ones, of the holders that reported it: two selections made in
\* different ways never mix periods (portal.py:229-281).
CombinedIsOfTheLatest ==
  \A c \in given, s \in Funds :
    LET own == {r \in c.ratios : r.symbol = s}
        newest == {r \in own : \A q \in own : q.end <= r.end}
        combined == {r \in c.combined : r.symbol = s}
    IN /\ (own = {}) = (combined = {})
       /\ \A k \in combined : /\ k.end \in {r.end : r \in newest}
                              /\ k.ratio = Ratio(newest)

\* While the file stays frozen, a live signal and a later backtest over longer
\* tables are shown the same ratios for a date, and the same shares and index
\* quotes wherever both have loaded the day (portal.py:36-172).
LoadsAgree ==
  \A a, b \in given : a.day = b.day /\ a.frozen = b.frozen =>
    LET from == LaterOf(a.from, b.from)
    IN /\ a.ratios = b.ratios /\ a.combined = b.combined
       /\ {r \in a.shares : r[2] >= from} = {r \in b.shares : r[2] >= from}
       /\ {i \in a.index : i >= from} = {i \in b.index : i >= from}

\* The ratios of a portal are the rows of the file whose digest the
\* configuration holds (specification 3.1; mysql.py:949-956).
RatiosAreFrozen == \A p \in portals : p.ratios = Aggregated(p.frozen)

\* Every row of a holder counts in its ratio: a portal has a ratio for each
\* period and holder the file names, and no less than any two rows together
\* (mysql.py:956-992).
NoRowIsLost ==
  \A p \in portals : \A q, o \in {x \in p.frozen : x.entity \in Entities} :
    <<q.symbol, q.entity, q.end>> = <<o.symbol, o.entity, o.end>> =>
      \E r \in p.ratios : /\ <<r.symbol, r.entity, r.end>> = <<q.symbol, q.entity, q.end>>
                         /\ r.ratio >= IF q = o THEN q.ratio ELSE q.ratio + o.ratio

\* What is loaded and selected of the holders' ratios: every row counts, of the
\* file that was frozen; portal and context agree on the past and on the newest
\* period; live and backtest loads show the same.
FundsInv ==
  /\ FundTypes /\ ContextNeverRefuses /\ CombinedIsOfTheLatest /\ LoadsAgree
  /\ RatiosAreFrozen /\ NoRowIsLost
=============================================================================
