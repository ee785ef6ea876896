---------------------------- MODULE MCAuthStore -----------------------------
EXTENDS AuthStore, TLC
CONSTANTS t1, t2, c1, c2, r1, r2, r3
MCTokens == {t1, t2}
MCCredentials == {c1, c2}
MCRequests == {r1, r2}
MCThreeRequests == {r1, r2, r3}
Symmetry == Permutations(MCTokens) \cup Permutations(MCCredentials)
            \cup Permutations(MCRequests)
=============================================================================
