------------------------------ MODULE Dispatch ------------------------------
(***************************************************************************)
(* What the ingress side of the channel runtime promises about every event *)
(* it accepts, whatever the grouping, the queues and the workers behind    *)
(* it: an event waits, is handed to a handler at most once while at most   *)
(* Cap handlers run, and is then finished; an event that is given up is    *)
(* given up before any handler saw it.                                     *)
(*                                                                         *)
(* RoutingQueue implements this module (RoutingQueue!DispatchSpec).        *)
(***************************************************************************)
EXTENDS Naturals, FiniteSets

CONSTANTS Event,   \* every event that may ever be accepted
          Cap      \* number of handlers that may run at the same time

VARIABLES waiting,    \* accepted, not yet given to a handler
          running,    \* inside a handler
          finished,   \* its handler returned
          dropped     \* given up without having been handled

dispatchVars == <<waiting, running, finished, dropped>>

Accepted == waiting \cup running \cup finished \cup dropped

DInit ==
    /\ waiting = {}
    /\ running = {}
    /\ finished = {}
    /\ dropped = {}

Accept(e) ==
    /\ e \in Event \ Accepted
    /\ waiting' = waiting \cup {e}
    /\ UNCHANGED <<running, finished, dropped>>

Start(e) ==
    /\ e \in waiting
    /\ Cardinality(running) < Cap
    /\ waiting' = waiting \ {e}
    /\ running' = running \cup {e}
    /\ UNCHANGED <<finished, dropped>>

Finish(e) ==
    /\ e \in running
    /\ running' = running \ {e}
    /\ finished' = finished \cup {e}
    /\ UNCHANGED <<waiting, dropped>>

\* Several events may be given up in one step: a queue goes with its receiver.
GiveUp(S) ==
    /\ S \subseteq waiting
    /\ waiting' = waiting \ S
    /\ dropped' = dropped \cup S
    /\ UNCHANGED <<running, finished>>

DNext ==
    \/ \E e \in Event : Accept(e) \/ Start(e) \/ Finish(e)
    \/ \E S \in SUBSET waiting : GiveUp(S)

DSpec == DInit /\ [][DNext]_dispatchVars
=============================================================================
