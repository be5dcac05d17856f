---------------------------- MODULE RoutingQueue ----------------------------
(***************************************************************************)
(* transport/channels/startup/routing_queue.rs: the RoutingQueueManager.   *)
(*                                                                         *)
(* The channel surface's only task, here the listener, calls enqueue for   *)
(* one event after the other.  Each event is routed to a group; a group is *)
(* a bounded mpsc channel and one spawned worker that takes one event at a *)
(* time, waits for a permit of the global semaphore and awaits the         *)
(* handler.  A worker whose recv stays empty for the idle timeout stops;   *)
(* its closed sender is pruned by a later enqueue.  Workers run on other   *)
(* threads, so each of their steps interleaves with enqueue at its await.  *)
(*                                                                         *)
(* An event is known by its place in the order of arrival.                 *)
(***************************************************************************)
EXTENDS SequencesExt

CONSTANTS
    Source,        \* (channel, sender, conversation) triples events come from
    Rules,         \* routing_rules: a sequence of routing rules
    AnyValue,      \* a rule field that is None
    MaxGroups,     \* max_groups
    Capacity,      \* group_queue_capacity
    Concurrency,   \* permits of global_concurrency
    MaxArrivals    \* bound: how many events arrive in a behaviour

Overflow == <<"__routing_overflow__">>

\* format!("{channel}::{sender}")
DefaultGroup(s) == <<s.channel, s.sender>>

Group == {Overflow} \cup {DefaultGroup(s) : s \in Source}
                    \cup {Rules[i].group : i \in DOMAIN Rules}

RuleMatches(rule, s) ==
    /\ rule.channel = s.channel
    /\ rule.sender \in {AnyValue, s.sender}
    /\ rule.conversation \in {AnyValue, s.conversation}

\* The first rule that matches decides, else the sender has its own group.
ResolveGroup(s) ==
    LET r == SelectInSeq(Rules, LAMBDA rule : RuleMatches(rule, s))
    IN  IF r = 0 THEN DefaultGroup(s) ELSE Rules[r].group

\* from_config raises each of the three limits to at least 1.
ASSUME LimitsAssumption ==
    /\ MaxGroups \in Nat \ {0}
    /\ Capacity \in Nat \ {0}
    /\ Concurrency \in Nat \ {0}
    /\ MaxArrivals \in Nat

ASSUME GroupAssumption ==
    /\ IsFiniteSet(Group)
    /\ \A s \in Source : ResolveGroup(s) \in Group

Event == 1 .. MaxArrivals
NoEvent == 0
Arrival == [source : Source, group : Group]

-----------------------------------------------------------------------------
VARIABLES
    arrivals,   \* history: source and group of every event enqueue was given
    listener,   \* "select" (awaiting the next event), "send" or "closed"
    senders,    \* keys of group_senders
    queue,      \* per group, the events in its mpsc channel
    worker,     \* per group, what its worker task is doing
    current,    \* per group, the event its worker holds
    permits,    \* free permits of the semaphore
    handled,    \* events whose handler returned
    lost        \* events given up

vars == <<arrivals, listener, senders, queue, worker, current, permits,
          handled, lost>>

WorkerState ==
    { "none",       \* no worker was ever spawned for the group
      "recv",       \* in timeout(IDLE, rx.recv())
      "permit",     \* holds an event, awaits a permit
      "handler",    \* holds an event and a permit, awaits the handler
      "idle_exit",  \* its idle timeout fired, the receiver is not dropped yet
      "gone" }      \* task ended, receiver dropped: the sender is closed

\* sender.is_closed() of the group's sender.
Closed(g) == worker[g] = "gone"
Live(g) == worker[g] \notin {"none", "gone"}

\* The event the listener is sending and the group it is sending it to.
InSend == Len(arrivals)
SendTarget == arrivals[InSend].group
Sending == IF listener = "send" THEN {InSend} ELSE {}

Init ==
    /\ arrivals = <<>>
    /\ listener = "select"
    /\ senders = {}
    /\ queue = [g \in Group |-> <<>>]
    /\ worker = [g \in Group |-> "none"]
    /\ current = [g \in Group |-> NoEvent]
    /\ permits = Concurrency
    /\ handled = {}
    /\ lost = {}

-----------------------------------------------------------------------------
(* enqueue, up to the send: prune closed senders, resolve the group, and   *)
(* use or create its sender.  There is no await in between.                *)

\* Mutation: overflow is only considered when it already exists.
LateOverflow(g, kept) ==
    IF g \notin kept /\ Cardinality(kept) > MaxGroups THEN Overflow ELSE g

\* Mutation: every event goes to the overflow group while the map is full.
FullMeansOverflow(g, kept) ==
    IF Cardinality(kept) >= MaxGroups THEN Overflow ELSE g

\* The group the event is sent to: an existing one, or, with the map full,
\* the overflow group.
BoundedGroup(g, kept) ==
    IF g \notin kept /\ Cardinality(kept) >= MaxGroups THEN Overflow ELSE g

Enqueue(s) ==
    LET kept == {h \in senders : ~Closed(h)}
        g == BoundedGroup(ResolveGroup(s), kept)
    IN
    /\ listener = "select"
    /\ Len(arrivals) < MaxArrivals
    /\ arrivals' = Append(arrivals, [source |-> s, group |-> g])
    /\ senders' = kept \cup {g}
    /\ worker' = [worker EXCEPT ![g] = IF g \in kept THEN @ ELSE "recv"]
    /\ listener' = "send"
    /\ UNCHANGED <<queue, current, permits, handled, lost>>

\* Mutation: an unbounded channel.
SendUnbounded ==
    /\ listener = "send"
    /\ ~Closed(SendTarget)
    /\ queue' = [queue EXCEPT ![SendTarget] = Append(@, InSend)]
    /\ listener' = "select"
    /\ UNCHANGED <<arrivals, senders, worker, current, permits, handled, lost>>

\* sender.send(event).await with room in the channel.
SendOk ==
    /\ listener = "send"
    /\ ~Closed(SendTarget)
    /\ Len(queue[SendTarget]) < Capacity
    /\ queue' = [queue EXCEPT ![SendTarget] = Append(@, InSend)]
    /\ listener' = "select"
    /\ UNCHANGED <<arrivals, senders, worker, current, permits, handled, lost>>

\* The receiver is gone: the event is dropped with a warning.
SendFails ==
    /\ listener = "send"
    /\ Closed(SendTarget)
    /\ lost' = lost \cup {InSend}
    /\ listener' = "select"
    /\ UNCHANGED <<arrivals, senders, queue, worker, current, permits, handled>>

\* The manager and with it every sender is dropped: the surface returns, or the
\* daemon aborts its task, which may be awaiting a send.
Shutdown ==
    /\ listener # "closed"
    /\ listener' = "closed"
    /\ senders' = {}
    /\ lost' = lost \cup Sending
    /\ UNCHANGED <<arrivals, queue, worker, current, permits, handled>>

-----------------------------------------------------------------------------
(* The worker of group g.                                                  *)

Recv(g) ==
    /\ worker[g] = "recv"
    /\ queue[g] # <<>>
    /\ current' = [current EXCEPT ![g] = Head(queue[g])]
    /\ queue' = [queue EXCEPT ![g] = Tail(@)]
    /\ worker' = [worker EXCEPT ![g] = "permit"]
    /\ UNCHANGED <<arrivals, listener, senders, permits, handled, lost>>

\* Mutation: a closed channel is polled again.
RecvNoneRetries(g) ==
    /\ worker[g] = "recv"
    /\ queue[g] = <<>>
    /\ listener = "closed"
    /\ UNCHANGED vars

\* recv returns None: no sender is left and the channel is empty.
RecvNone(g) ==
    /\ worker[g] = "recv"
    /\ queue[g] = <<>>
    /\ listener = "closed"
    /\ worker' = [worker EXCEPT ![g] = "gone"]
    /\ UNCHANGED <<arrivals, listener, senders, queue, current, permits,
                   handled, lost>>

\* timeout polls recv, finds the channel empty, then finds its time is up.
\* An event sent from here on is not noticed any more.
IdleTimeout(g) ==
    /\ worker[g] = "recv"
    /\ queue[g] = <<>>
    /\ worker' = [worker EXCEPT ![g] = "idle_exit"]
    /\ UNCHANGED <<arrivals, listener, senders, queue, current, permits,
                   handled, lost>>

\* The task ends and drops its receiver with whatever was sent meanwhile.
IdleExit(g) ==
    /\ worker[g] = "idle_exit"
    /\ worker' = [worker EXCEPT ![g] = "gone"]
    /\ queue' = [queue EXCEPT ![g] = <<>>]
    /\ lost' = lost \cup ToSet(queue[g])
    /\ UNCHANGED <<arrivals, listener, senders, current, permits, handled>>

\* Mutation: let _ = acquire_global_permit(..).await, dropped on the spot.
AcquireAndDrop(g) ==
    /\ worker[g] = "permit"
    /\ permits > 0
    /\ worker' = [worker EXCEPT ![g] = "handler"]
    /\ UNCHANGED <<arrivals, listener, senders, queue, current, permits,
                   handled, lost>>

\* acquire_global_permit; the semaphore is never closed.
AcquirePermit(g) ==
    /\ worker[g] = "permit"
    /\ permits > 0
    /\ permits' = permits - 1
    /\ worker' = [worker EXCEPT ![g] = "handler"]
    /\ UNCHANGED <<arrivals, listener, senders, queue, current, handled, lost>>

\* Mutation: the permit is forgotten instead of dropped.
HandlerReturnsKeepingPermit(g) ==
    /\ worker[g] = "handler"
    /\ handled' = handled \cup {current[g]}
    /\ current' = [current EXCEPT ![g] = NoEvent]
    /\ worker' = [worker EXCEPT ![g] = "recv"]
    /\ UNCHANGED <<arrivals, listener, senders, queue, permits, lost>>

\* The handler returns; the permit is dropped at the end of the iteration.
HandlerReturns(g) ==
    /\ worker[g] = "handler"
    /\ handled' = handled \cup {current[g]}
    /\ current' = [current EXCEPT ![g] = NoEvent]
    /\ permits' = permits + 1
    /\ worker' = [worker EXCEPT ![g] = "recv"]
    /\ UNCHANGED <<arrivals, listener, senders, queue, lost>>

-----------------------------------------------------------------------------
Worker(g) ==
    \/ Recv(g)
    \/ RecvNone(g)
    \/ IdleTimeout(g)
    \/ IdleExit(g)
    \/ AcquirePermit(g)
    \/ HandlerReturns(g)

Next ==
    \/ \E s \in Source : Enqueue(s)
    \/ SendOk
    \/ SendFails
    \/ Shutdown
    \/ \E g \in Group : Worker(g)

Spec == Init /\ [][Next]_vars

\* The runtime polls every ready task; tokio's semaphore hands permits out in
\* the order they were asked for, so a worker that keeps waiting gets one;
\* handlers return.  Arrival, shutdown and the idle timer are not forced.
Fairness ==
    /\ WF_vars(SendOk) /\ WF_vars(SendFails)
    /\ \A g \in Group :
          /\ WF_vars(Recv(g)) /\ WF_vars(RecvNone(g)) /\ WF_vars(IdleExit(g))
          /\ SF_vars(AcquirePermit(g))
          /\ WF_vars(HandlerReturns(g))

FairSpec == Spec /\ Fairness

-----------------------------------------------------------------------------
(* Where the events are.                                                   *)

Arrived == 1 .. Len(arrivals)
Queued(g) == ToSet(queue[g])
Handling == {g \in Group : worker[g] = "handler"}
AwaitingPermit == {g \in Group : worker[g] = "permit"}

Waiting ==
    {e \in Event : \/ e \in Sending
                   \/ \E g \in Group : e \in Queued(g)
                   \/ \E g \in AwaitingPermit : e = current[g]}
Running == {e \in Event : \E g \in Handling : e = current[g]}
Started == Running \cup handled

-----------------------------------------------------------------------------
(* Properties.                                                             *)

\* Every variable stays in its type; in particular no channel ever holds more
\* than group_queue_capacity events and no permit appears from nowhere.
TypeOK ==
    /\ arrivals \in Seq(Arrival)
    /\ Len(arrivals) <= MaxArrivals
    /\ listener \in {"select", "send", "closed"}
    /\ listener = "send" => arrivals # <<>>
    /\ senders \subseteq Group
    /\ queue \in [Group -> Seq(Event)]
    /\ \A g \in Group : Len(queue[g]) <= Capacity
    /\ worker \in [Group -> WorkerState]
    /\ current \in [Group -> Event \cup {NoEvent}]
    /\ permits \in Nat
    /\ handled \subseteq Event
    /\ lost \subseteq Event

\* The permits that are out are exactly those of the running handlers, so at
\* most routing_global_concurrency handlers run, and none is lost for good by
\* a worker that exits.
PermitsConserved == permits + Cardinality(Handling) = Concurrency

\* The live worker tasks, and the entries of group_senders, are at most
\* max_groups, the overflow group not counted: pruning on enqueue, idle exits
\* and creation never let the map or the tasks grow further.
GroupsBounded ==
    /\ Cardinality(senders \ {Overflow}) <= MaxGroups
    /\ Cardinality({g \in Group : Live(g)} \ {Overflow}) <= MaxGroups

\* Two events of one source are started in the order they arrived, with one
\* exception: the earlier one was diverted to the overflow group and is still
\* waiting there when a slot frees and the later one gets the source's own
\* group.
OnlyOverflowIsOvertaken ==
    \A e, f \in Arrived :
        /\ e < f
        /\ arrivals[e].source = arrivals[f].source
        /\ f \in Started
        /\ e \notin Started \cup lost
        => /\ arrivals[e].group = Overflow
           /\ arrivals[f].group = ResolveGroup(arrivals[f].source)

\* What the manager promises: every event it accepts is handled at most once,
\* never more than Concurrency at a time, and never both handled and dropped.
D == INSTANCE Dispatch WITH
        Cap <- Concurrency, waiting <- Waiting, running <- Running,
        finished <- handled, dropped <- lost

DispatchSpec == D!DSpec

\* The strengthening under which PermitsConserved, GroupsBounded,
\* OnlyOverflowIsOvertaken and the steps of DispatchSpec are preserved.

\* A worker without a receiver has an empty channel, a worker holds an event
\* exactly between recv and the end of the handler, and while the manager lives
\* it knows the sender of every live worker: create_group_sender never spawns a
\* second worker for a group.
WorkersKnown ==
    /\ \A g \in Group :
          /\ ~Live(g) => queue[g] = <<>>
          /\ worker[g] \in {"permit", "handler"} <=> current[g] # NoEvent
          /\ listener # "closed" /\ Live(g) => g \in senders
          /\ g \in senders => worker[g] # "none"
    /\ listener = "closed" => senders = {}
    /\ listener = "send" => SendTarget \in senders

\* An event still on its way to group g.
OnItsWay(e, g) ==
    /\ e \in Arrived
    /\ arrivals[e].group = g
    /\ e \notin handled \cup lost
    /\ e \notin Sending

\* An event is in one place only, and that is in the group it was routed to.
OnePlace ==
    /\ \A g \in Group : /\ \A e \in Queued(g) : OnItsWay(e, g)
                        /\ current[g] # NoEvent => OnItsWay(current[g], g)
    /\ handled \cup lost \subseteq Arrived
    /\ handled \cap lost = {}
    /\ Sending \cap (handled \cup lost) = {}

\* A group keeps the order of arrival.
InOrder(g) ==
    /\ \A i, j \in DOMAIN queue[g] : i < j => queue[g][i] < queue[g][j]
    /\ \A e \in Queued(g) : current[g] < e
    /\ \A h \in handled : arrivals[h].group = g =>
          /\ current[g] # NoEvent => h < current[g]
          /\ \A e \in Queued(g) : h < e

GroupFifo == \A g \in Group : InOrder(g)

\* No event vanishes.
NoneVanishes == Arrived \subseteq Waiting \cup Started \cup lost

\* While an event waits in its source's own group, later events of the source
\* follow it there.
Sticky ==
    /\ \A e \in Arrived :
          arrivals[e].group \in {Overflow, ResolveGroup(arrivals[e].source)}
    /\ \A e, f \in Arrived :
          /\ e < f
          /\ arrivals[e].source = arrivals[f].source
          /\ e \in Waiting
          => \/ arrivals[e].group = arrivals[f].group
             \/ /\ arrivals[e].group = Overflow
                /\ arrivals[f].group = ResolveGroup(arrivals[f].source)

IInv ==
    /\ TypeOK
    /\ WorkersKnown
    /\ OnePlace
    /\ GroupFifo
    /\ NoneVanishes
    /\ Sticky
    /\ PermitsConserved
    /\ GroupsBounded

\* While an event waits, something other than the idle timer can happen: the
\* listener that awaits a full channel, the workers that await permits and the
\* handlers that hold them never all wait for one another.
NeverStuck ==
    Waiting # {} =>
      \/ /\ listener = "send"
         /\ Closed(SendTarget) \/ Len(queue[SendTarget]) < Capacity
      \/ \E g \in Group :
            \/ worker[g] = "recv" /\ queue[g] # <<>>
            \/ worker[g] = "permit" /\ permits > 0
            \/ worker[g] \in {"handler", "idle_exit"}

\* No accepted event is left behind: it is handled, or it is lost with the
\* receiver of a worker that timed out.  This covers the listener blocked on a
\* full group and a worker starved of permits.
EventuallySettled == \A e \in Event : e \in Arrived ~> e \in handled \cup lost

\* Once the surface has dropped the manager, every worker empties its channel
\* and ends.
Drained == listener = "closed" ~> \A g \in Group : ~Live(g)

\* The only event the code gives up is the one whose send fails, with a warning
\* (routing queue send failed; dropping channel message).  What was sent is kept
\* until it is handled, as
\* routing_handles_burst_load_without_drops_under_capacity expects.
SentIsKept == [][lost' \ lost \subseteq Sending]_vars
=============================================================================
