--------------------------- MODULE MCPriceAlerts ---------------------------
(* PriceAlerts on small instances.                                         *)
EXTENDS PriceAlerts, TLC

\* Alerts, jobs and requests are interchangeable.
Sym == Permutations(Alert) \cup Permutations(Job) \cup Permutations(Session)
=============================================================================
