----------------------------- MODULE MCSessions -----------------------------
EXTENDS Sessions, TLC

CONSTANTS c1, c2, s1, s2

MCClient == {c1, c2}
MCSession == {s1, s2}

\* Past so many timestamps one session is there, bound to the key, and the clients
\* only record turns in it and compact it.
MaxUnsettled == 4
Settled ==
    /\ Cardinality({s \in Session : state[s] # "none"}) = 1
    /\ Cardinality(bindings) = 1 /\ Bound # {}
    /\ \A c \in Client :
         client[c].at \in {"idle", "resolved", "turn", "user", "recorded", "assistant",
                          "compact", "summarize"}
Settling == clock > MaxUnsettled => Settled

Symmetry == Permutations(MCClient) \cup Permutations(MCSession)
=============================================================================
