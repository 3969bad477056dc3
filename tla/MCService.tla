----------------------------- MODULE MCService ------------------------------
(* Instances of Service for TLC.                                           *)
EXTENDS Service, TLC

CONSTANTS c1, c2, d1, d2, d3

Symmetry == Permutations(Clients) \union Permutations(Daemons)
=============================================================================
