----------------------------- MODULE MCMarketData -----------------------------
(* Finite instances of the three modules about market data, checked in one run: *)
(* EffectiveRules, DailyData and FundamentalData.  The initial state chooses     *)
(* the part that runs; the others rest where they begin.                        *)
EXTENDS EffectiveRules, DailyData, FundamentalData

VARIABLE part  \* the part that runs
-----------------------------------------------------------------------------
(* Rules: two stock ETFs and a gold ETF, or one of no known category, over six *)
(* days; every sequence of at most two exceptions for a stock, in and out of   *)
(* order, adjacent, overlapping and open.                                      *)
Kinds == {<<"stock", "gold", "stock">>, <<"stock", "other", "stock">>}
Lives == {[from |-> 2, to |-> 4], [from |-> 3, to |-> 7], [from |-> 1, to |-> 3]}

Span(a, b) == [from |-> a, to |-> b]
Spans == {Span(1, 1), Span(1, 3), Span(2, 2), Span(3, 4), Span(4, 4), Span(4, 3), Span(5, 7), Span(2, 7)}
Exceptions == {<<>>} \cup {<<p>> : p \in Spans} \cup {<<p, q>> : p \in Spans, q \in Spans}
Csvs == {<<e, <<>>, <<>> >> : e \in Exceptions} \cup {<<<<Span(3, 3)>>, g, <<Span(1, 2), Span(3, 3)>> >> :
                                                     g \in {<<>>, <<Span(2, 3)>>}}
-----------------------------------------------------------------------------
(* Quotes: one security with at most two odd days of every kind the loader     *)
(* tells apart, one that is quoted on every day of its life; four calendars,  *)
(* the third with a holiday longer than the horizon, the last without an open   *)
(* day in the run.                                                              *)
Calendars == {Days, {1, 2, 4, 5, 7}, {1, 2, 6, 7}}

Row(raw, front, flag, limit) == [raw |-> raw, front |-> front, flag |-> flag, limit |-> limit]
Trade == Row("full", TRUE, "normal", "inside")
Nothing == Row("none", FALSE, "absent", "none")
Gaps == {Nothing, Row("none", FALSE, "suspended", "none"), Row("none", FALSE, "null", "near"),
         Row("partial", FALSE, "suspended", "none")}
Odd == Gaps \cup
       {Row("full", TRUE, "suspended", "inside"), Row("full", TRUE, "absent", "none"),
        Row("full", TRUE, "normal", "near"), Row("full", TRUE, "normal", "far"),
        Row("partial", TRUE, "normal", "inside"), Row("full", FALSE, "normal", "inside")}
OddDays == {<<>>} \cup UNION {[{d} -> Odd] : d \in 2 .. 5} \cup UNION {[{d, d + 1} -> Gaps] : d \in 3 .. 4}

\* Rows on the days a calendar and a life say, and the odd ones.
History(open, from, to, odd) ==
  [d \in Days |-> IF d \in DOMAIN odd THEN odd[d]
                       ELSE IF d \in open /\ from <= d /\ d <= to THEN Trade ELSE Nothing]

\* The second security: listed throughout, delisted with a date, without one,
\* and quoted after its end.
Life(list, end, dated) == [list |-> list, end |-> end, dated |-> dated]
Always == [life |-> Life(1, Never, TRUE), quoted |-> 7]
Second == {Always, [life |-> Life(2, 5, TRUE), quoted |-> 5],
           [life |-> Life(1, 5, FALSE), quoted |-> 5], [life |-> Life(1, 4, TRUE), quoted |-> 5]}

WorldOf(open, odd, b) ==
  [opens |-> open,
   master |-> [s \in Symbols |-> IF s = "a" THEN Life(1, Never, TRUE) ELSE b.life],
   table |-> [s \in Symbols |-> IF s = "a" THEN History(open, 1, 7, odd)
                             ELSE History(open, b.life.list, b.quoted, <<>>)]]
SomeWorlds == {WorldOf(open, odd, Always) : open \in Calendars, odd \in OddDays}
                \cup {WorldOf(open, odd, b) : open \in Calendars, b \in Second,
                                             odd \in {<<>>, [d \in {4} |-> Row("none", FALSE, "null", "none")]}}
                \cup {WorldOf({6, 7}, <<>>, Always)}

-----------------------------------------------------------------------------
(* Fundamentals: one fund, two holders, three report periods, two of them       *)
(* before the run; the file starts short and grows by late rows; a table with   *)
(* a gap, one with an index quote on a closed day.                              *)
Holders == {"company", "asset"}
R(entity, end, ratio, nr) == [symbol |-> "f", entity |-> entity, end |-> end, ratio |-> ratio, nr |-> nr]
Start == {R("company", 1, 2, 1), R("company", 1, 1, 2), R("other", 2, 4, 1)}
Late == {R("asset", 1, 1, 1), R("company", 3, 3, 1), R("asset", 3, 2, 1)}
SomeFiles == {Start \cup late : late \in SUBSET Late} \cup {Start \cup {R("company", 1, 2, 3)}}
T(shares, index) == [shares |-> {<<"f", d>> : d \in shares}, index |-> index]
SomeTables == {T({1, 2, 3, 4, 5, 6}, {1, 2, 3, 5, 6}), T({1, 3, 6}, {2, 3, 6}), T({2, 3}, {1, 2, 4, 6})}

FundsRest == FundInit /\ dataset = T({2, 3}, {1, 2, 4, 6}) /\ file = Start
DailyRest == /\ LET w == WorldOf(Days, <<>>, Always)
                IN opens = w.opens /\ master = w.master /\ table = w.table
             /\ today = 1 /\ universe = {} /\ seen = {} /\ refused = {}
RulesRest == /\ kind = <<"stock", "gold", "stock">> /\ life = [s \in Securities |-> [from |-> 2, to |-> 4]]
             /\ rows = <<<<>>, <<>>, <<>> >> /\ intact = TRUE
             /\ status = "loading" /\ todo = Securities /\ current = {} /\ k = 1 /\ cursor = 1
             /\ periods = {} /\ answer = {}

PartInit == \/ part = "rules" /\ RulesInit /\ DailyRest /\ FundsRest
            \/ part = "daily" /\ Init /\ RulesRest /\ FundsRest
            \/ part = "funds" /\ FundInit /\ RulesRest /\ DailyRest

PartNext == \/ part = "rules" /\ RulesNext /\ UNCHANGED <<part, vars, fundVars>>
            \/ part = "daily" /\ Next /\ UNCHANGED <<part, rulesVars, fundVars>>
            \/ part = "funds" /\ FundNext /\ UNCHANGED <<part, rulesVars, vars>>

PartSpec == PartInit /\ [][PartNext]_<<part, rulesVars, vars, fundVars>>
=============================================================================
