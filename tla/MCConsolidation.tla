--------------------------- MODULE MCConsolidation ---------------------------
EXTENDS Consolidation, TLC

CONSTANTS e1, e2, t1, t2, t3

MCEntity == {e1, e2}
MCTurn == {t1, t2, t3}
MCEntityOf == t1 :> e1 @@ t2 :> e1 @@ t3 :> e2
=============================================================================
