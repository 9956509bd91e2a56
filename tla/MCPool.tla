------------------------------- MODULE MCPool -------------------------------
(* Small instances of Pool for TLC.                                        *)
EXTENDS Pool, TLC

CONSTANTS t1, t2, t3, k1, k2

ThreeThreads == {t1, t2, t3}
TwoThreads   == {t1, t2}
TwoKeys      == {k1, k2}
OneKey       == {k1}

Symmetry == Permutations(Threads) \cup Permutations(Keys)
=============================================================================
