---------------------------- MODULE MCCashLedger ----------------------------
(***************************************************************************)
(* A ledger of two tickers, the second leveraged twice, for TLC. The fee   *)
(* is five percent so that it shows at a few lots. A ticker trades up or   *)
(* down, is halted (a row with a close and no fillable open) or has no row.*)
(***************************************************************************)
EXTENDS CashLedger

Leverage == [t \in Tickers |-> t]

Trades == {[open |-> 2, close |-> 3], [open |-> 3, close |-> 2]}
Halted == [open |-> 0, close |-> 2]
NoRow  == [open |-> 0, close |-> 0]

AnyRows == Trades \union {Halted, NoRow}
Gaps    == Trades \union {NoRow}

\* In twentieths: everything into one ticker, an even split, too much of both.
Wishes == {[t \in Tickers |-> IF t = 1 THEN 16 ELSE 0],
           [t \in Tickers |-> IF t = 2 THEN 20 ELSE 0],
           [t \in Tickers |-> 10], [t \in Tickers |-> 20]}

Thin   == [t \in Tickers |-> IF t = 1 THEN 7 ELSE 4]
Plenty == [t \in Tickers |-> 1000]
Volumes == {Thin, Plenty}
=============================================================================
