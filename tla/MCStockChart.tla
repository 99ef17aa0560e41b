---------------------------- MODULE MCStockChart ----------------------------
(* StockChart on a small instance.                                         *)
EXTENDS StockChart, TLC

\* A month of intraday bars may be refused: then there are none.
MCLength == [i \in Interval |-> IF i = "1d" THEN 14 ELSE IF i = "1wk" THEN 11 ELSE 0]

Sym == Permutations(Drawing) \cup Permutations(Symbol)
=============================================================================
