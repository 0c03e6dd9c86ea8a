------------------------------ MODULE MCLogin ------------------------------
\* Small instances of Login for TLC.
EXTENDS Login, TLC

CONSTANTS s1, s2, t1, t2

TwoSessions == {s1, s2}
OneToken    == {t1}
TwoTokens   == {t1, t2}

LoginSymmetry == Permutations(TwoSessions) \cup Permutations(TwoTokens)
=============================================================================
