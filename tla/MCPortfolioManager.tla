------------------------ MODULE MCPortfolioManager ------------------------
(* PortfolioManager on a small instance.                                   *)
EXTENDS PortfolioManager, TLC

\* Ids and slots are interchangeable.
Sym == Permutations(PosId) \cup Permutations(Slot) \cup Permutations(Portfolio)
=============================================================================
