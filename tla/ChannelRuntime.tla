--------------------------- MODULE ChannelRuntime ---------------------------
(***************************************************************************)
(* The channel surface composed with the routing queues of all its         *)
(* generations.  run_active_channel_surface makes a new RoutingQueueManager*)
(* with a semaphore of its own each time; the workers of an old one keep   *)
(* draining their channels after the surface returned.  A routing queue is *)
(* reduced here to what Dispatch promises of it (RoutingQueue implements   *)
(* Dispatch); the group order inside it is left to RoutingQueue.           *)
(***************************************************************************)
EXTENDS ChannelSurface

CONSTANT Concurrency   \* routing_global_concurrency

ASSUME ConcurrencyAssumption == Concurrency \in Nat \ {0}

VARIABLE stage   \* per batch, how far the routing queue of its generation got

runtimeVars == <<vars, stage>>

RInit == Init /\ stage = <<>>

\* A step of the surface; a batch that is handed to enqueue starts to wait.
SurfaceStep ==
    /\ Next
    /\ stage' = IF Len(batches') > Len(batches) THEN Append(stage, "waiting")
                                                ELSE stage

\* The batches whose handlers hold a permit of a generation's semaphore.
RunningOf(g) == {b \in DOMAIN stage : batches[b].gen = g /\ stage[b] = "running"}

Advance(b, from, to) ==
    /\ stage[b] = from
    /\ stage' = [stage EXCEPT ![b] = to]
    /\ UNCHANGED vars

\* Mutation: a manager stops its workers when it is dropped.
HandlerStartsOfThisGeneration(b) ==
    /\ batches[b].gen = gen
    /\ Cardinality(RunningOf(batches[b].gen)) < Concurrency
    /\ Advance(b, "waiting", "running")

\* A worker gets a permit: acquire_owned on the semaphore its own generation's
\* manager was made with, whose free permits are those no running handler holds.
HandlerStarts(b) ==
    /\ Cardinality(RunningOf(batches[b].gen)) < Concurrency
    /\ Advance(b, "waiting", "running")

HandlerReturns(b) == Advance(b, "running", "finished")

\* A worker's receiver goes away with the event in it.
RoutingDrops(b) == Advance(b, "waiting", "dropped")

RNext ==
    \/ SurfaceStep
    \/ \E b \in DOMAIN stage :
          HandlerStarts(b) \/ HandlerReturns(b) \/ RoutingDrops(b)

RSpec == RInit /\ [][RNext]_runtimeVars

\* The surface's task is polled, the window is a timer, and enqueue returns
\* because every routing group is served eventually
\* (RoutingQueue!EventuallySettled); the semaphore is fair and handlers return.
\* No listener has to send and nobody has to ask for a reload.
RFairness ==
    /\ WF_runtimeVars(SurfaceStep /\ StartSurface)
    /\ WF_runtimeVars(SurfaceStep /\ TakeBase)
    /\ WF_runtimeVars(SurfaceStep /\ Merge)
    /\ WF_runtimeVars(SurfaceStep /\ SetAside)
    /\ WF_runtimeVars(SurfaceStep /\ WindowCloses)
    /\ WF_runtimeVars(SurfaceStep /\ EnqueueReturns)
    /\ WF_runtimeVars(SurfaceStep /\ ReloadEnds)
    /\ \A b \in 1 .. MaxArrivals :
          /\ SF_runtimeVars(b \in DOMAIN stage /\ HandlerStarts(b))
          /\ WF_runtimeVars(b \in DOMAIN stage /\ HandlerReturns(b))

RFairSpec == RSpec /\ RFairness

-----------------------------------------------------------------------------
(* Properties.                                                             *)

\* An event that a listener sent is handled in the end, or it was lost in a
\* reload or dropped by its routing queue: it is not stuck in the channel, in an
\* open window, in a queue of a surface that is gone, or behind a full one.
EventuallyAnswered ==
    \A n \in 1 .. MaxArrivals :
        arrived >= n ~>
            \/ \E m \in lost : m.n = n
            \/ \E b \in DOMAIN stage : /\ stage[b] \in {"finished", "dropped"}
                                       /\ \E m \in ToSet(batches[b].events) : m.n = n
=============================================================================
