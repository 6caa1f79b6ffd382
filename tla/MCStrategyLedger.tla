--------------------------- MODULE MCStrategyLedger ---------------------------
(* A finite instance of StrategyLedger for TLC: a T0 fund and a T1 fund. *)
EXTENDS StrategyLedger

CONSTANTS gold, stock

Rules == [s \in {gold, stock} |-> IF s = gold THEN "T0" ELSE "T1"]

\* Buy both, or sell the T1 fund for the other; sell it again the next day.
TwoDays == {<<1, "SELL", stock>>, <<1, "BUY", gold>>, <<1, "BUY", stock>>,
            <<2, "SELL", stock>>, <<2, "BUY", gold>>}
OneOfEach == [s \in {gold, stock} |-> 1]
=============================================================================
