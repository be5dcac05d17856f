---------------------------- MODULE MCReplayGuard ----------------------------
EXTENDS ReplayGuard, TLC

CONSTANTS n1, n2, r1, r2, r3

MCNonce == {n1, n2}
MCRequest == {r1, r2, r3}
Symmetry == Permutations(MCNonce) \cup Permutations(MCRequest)
=============================================================================
