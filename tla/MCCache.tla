------------------------------ MODULE MCCache ------------------------------
(* Instances of Caches for TLC. *)
EXTENDS Caches, TLC

CONSTANTS c1, c2, k1, v1, v2

MCCallers == {c1, c2}
MCKeys == {k1}
MCValues == {v1, v2}
MCTTLs == {-1}
MCSymmetry == Permutations(MCCallers) \cup Permutations(MCValues)

FastOnly == NewCache /\ ~lean /\ [][CachesNext]_cachesVars
=============================================================================
