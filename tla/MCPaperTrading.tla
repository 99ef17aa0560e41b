--------------------------- MODULE MCPaperTrading ---------------------------
(* PaperTrading on small instances.                                        *)
EXTENDS PaperTrading, TLC

\* Worker slots are interchangeable.
Sym == Permutations(Job)
=============================================================================
