---------------------------- MODULE MCLiveTrading ----------------------------
(* Finite instances of LiveTrading for TLC. *)
EXTENDS LiveTrading

CONSTANTS s1, b1, b2

\* One sell filled in two parts and one buy filled in one.
SellBuySide == [i \in {s1, b1} |-> IF i = s1 THEN "SELL" ELSE "BUY"]
SellBuyQty  == [i \in {s1, b1} |-> IF i = s1 THEN 2 ELSE 1]

\* Two buys, one of them filled in two parts: the second fill can overdraw.
TwoBuysSide == [i \in {b1, b2} |-> "BUY"]
TwoBuysQty  == [i \in {b1, b2} |-> IF i = b1 THEN 2 ELSE 1]

\* Bound: a crash or a fault, not both.
OneTrouble == crashes + faults <= 1
=============================================================================
