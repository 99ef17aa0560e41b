----------------------------- MODULE MCSessions -----------------------------
(* A browser with a few tabs and calls.                                    *)
EXTENDS Sessions, TLC

Symmetry == Permutations(Tab) \cup Permutations(Call)
=============================================================================
