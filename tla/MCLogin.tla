------------------------------ MODULE MCLogin ------------------------------
(* Requests and session ids are interchangeable.                           *)
EXTENDS Login, TLC
CONSTANTS h1, h2, h3, s1, s2
Symmetry == Permutations(Handlers) \cup Permutations(Sids)
=============================================================================
