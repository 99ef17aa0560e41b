---------------------------- MODULE MCSoftStops ----------------------------
(* SoftStops on small instances.                                           *)
EXTENDS SoftStops, TLC

\* Jobs, requests and channels are interchangeable.
Sym == Permutations(Job) \cup Permutations(Session) \cup Permutations(Channel)
=============================================================================
