--------------------------- MODULE MCSubagentRuns ---------------------------
(* Turns of one entity, which may run at the same time.                    *)
EXTENDS SubagentRuns, TLC

CONSTANTS turn1, turn2, ann

MCRootEntity == turn1 :> ann @@ turn2 :> ann

OneTurn == turn1 :> ann

Symmetry == Permutations(Calls)
=============================================================================
