------------------------- MODULE MCSessionLifecycle -------------------------
EXTENDS SessionLifecycle, TLC
CONSTANTS c1, c2, g1, g2, g3
\* c1 may connect twice, c2 once.
MCConnOf == [g \in Gens |-> IF g = g3 THEN c2 ELSE c1]
\* The signal comes while one session is enough to explore.
StopsWithOne == shutdown => stage[g2] = "unused"
Sym == Permutations({g1, g2})
=============================================================================
