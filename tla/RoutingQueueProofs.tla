-------------------------- MODULE RoutingQueueProofs --------------------------
(***************************************************************************)
(* For every set of sources, every list of rules and all limits: IInv is   *)
(* an inductive invariant of RoutingQueue, and its steps are steps of      *)
(* Dispatch.                                                               *)
(***************************************************************************)
EXTENDS RoutingQueue, FiniteSetTheorems, TLAPS

-----------------------------------------------------------------------------
(* Channels as sets.                                                       *)

\* A sent event joins the events of the channel.
LEMMA ToSetAppend ==
    ASSUME NEW S, NEW q \in Seq(S), NEW x \in S
    PROVE  ToSet(Append(q, x)) = ToSet(q) \cup {x}
<1>1. DOMAIN Append(q, x) = 1 .. Len(q) + 1 /\ DOMAIN q = 1 .. Len(q)
  OBVIOUS
<1>2. Append(q, x)[Len(q) + 1] = x /\ \A i \in 1 .. Len(q) : Append(q, x)[i] = q[i]
  OBVIOUS
<1>3. 1 .. Len(q) + 1 = (1 .. Len(q)) \cup {Len(q) + 1}
  OBVIOUS
<1>4. \A y : y \in ToSet(Append(q, x)) <=>
              \E i \in (1 .. Len(q)) \cup {Len(q) + 1} : y = Append(q, x)[i]
  BY <1>1, <1>3, Zenon DEF ToSet
<1>5. \A y : y \in ToSet(q) <=> \E i \in 1 .. Len(q) : y = q[i]
  BY <1>1, Zenon DEF ToSet
<1>. QED BY <1>2, <1>4, <1>5, Zenon

\* A received event leaves it.
LEMMA ToSetTail ==
    ASSUME NEW S, NEW q \in Seq(S), q # <<>>
    PROVE  ToSet(q) = ToSet(Tail(q)) \cup {Head(q)}
<1>1. DOMAIN Tail(q) = 1 .. Len(q) - 1 /\ DOMAIN q = 1 .. Len(q) /\ Len(q) \in Nat \ {0}
  OBVIOUS
<1>2. /\ Head(q) = q[1]
      /\ \A i \in 1 .. Len(q) - 1 : Tail(q)[i] = q[i + 1]
  OBVIOUS
<1>3. ASSUME NEW i \in DOMAIN q
      PROVE  q[i] \in ToSet(Tail(q)) \cup {Head(q)}
  <2>1. CASE i = 1
    BY <2>1, <1>2
  <2>2. CASE i # 1
    <3>1. i - 1 \in DOMAIN Tail(q) /\ Tail(q)[i - 1] = q[i]
      BY <2>2, <1>1, <1>2
    <3>. QED BY <3>1, Zenon DEF ToSet
  <2>. QED BY <2>1, <2>2
<1>4. ASSUME NEW i \in DOMAIN Tail(q)
      PROVE  Tail(q)[i] \in ToSet(q)
  <2>1. i + 1 \in DOMAIN q /\ q[i + 1] = Tail(q)[i]
    BY <1>1, <1>2
  <2>. QED BY <2>1, Zenon DEF ToSet
<1>5. Head(q) \in ToSet(q)
  BY <1>1, <1>2 DEF ToSet
<1>6. ToSet(q) \subseteq ToSet(Tail(q)) \cup {Head(q)}
  BY <1>3, Zenon DEF ToSet
<1>7. ToSet(Tail(q)) \subseteq ToSet(q)
  BY <1>4, Zenon DEF ToSet
<1>. QED BY <1>5, <1>6, <1>7

\* Appending to a sequence.
LEMMA AppendFacts ==
    ASSUME NEW S, NEW q \in Seq(S), NEW x \in S
    PROVE  /\ Append(q, x) \in Seq(S)
           /\ Append(q, x) # <<>>
           /\ Len(Append(q, x)) = Len(q) + 1
           /\ Append(q, x)[Len(q) + 1] = x
           /\ \A i \in 1 .. Len(q) : Append(q, x)[i] = q[i]
OBVIOUS

\* Taking the head off a sequence.
LEMMA TailFacts ==
    ASSUME NEW S, NEW q \in Seq(S), q # <<>>
    PROVE  /\ Head(q) \in S
           /\ Head(q) = q[1]
           /\ Tail(q) \in Seq(S)
           /\ Len(Tail(q)) = Len(q) - 1
           /\ Len(q) \in Nat \ {0}
           /\ \A i \in 1 .. Len(q) - 1 : Tail(q)[i] = q[i + 1]
OBVIOUS

\* Nothing is in an empty channel.
LEMMA ToSetEmpty == ToSet(<<>>) = {}
BY DEF ToSet

-----------------------------------------------------------------------------
(* Types.                                                                  *)

\* The event an idle worker holds is no event; events are their places in the order.
LEMMA EventNotNone == NoEvent \notin Event /\ Event \subseteq Nat
BY LimitsAssumption DEF Event, NoEvent

\* The types hold at the start.
LEMMA InitType == Init => TypeOK
BY LimitsAssumption DEF Init, TypeOK, WorkerState, Event, NoEvent

\* The group enqueue decides on is one of the groups.
LEMMA BoundedGroupType ==
    ASSUME NEW s \in Source, NEW kept
    PROVE  BoundedGroup(ResolveGroup(s), kept) \in Group
BY GroupAssumption DEF BoundedGroup, Group

\* The event being sent is the last one that arrived.
LEMMA InSendType ==
    ASSUME TypeOK, listener = "send"
    PROVE  InSend \in Event /\ InSend \in Arrived /\ SendTarget \in Group
<1>1. arrivals \in Seq(Arrival) /\ arrivals # <<>> /\ Len(arrivals) <= MaxArrivals
  BY DEF TypeOK
<1>2. Len(arrivals) \in Nat \ {0} /\ arrivals[Len(arrivals)] \in Arrival
  BY <1>1
<1>. QED
  BY <1>1, <1>2, LimitsAssumption DEF InSend, SendTarget, Event, Arrived, Arrival

\* They are kept; a channel is only appended to by a sender that found room.
LEMMA StepType == TypeOK /\ WorkersKnown /\ [Next]_vars => TypeOK'
<1>. SUFFICES ASSUME TypeOK, WorkersKnown, [Next]_vars PROVE TypeOK'
  OBVIOUS
<1>. USE LimitsAssumption DEF TypeOK
<1>1. ASSUME NEW s \in Source, Enqueue(s) PROVE TypeOK'
  <2>. DEFINE kept == {h \in senders : ~Closed(h)}
              g == BoundedGroup(ResolveGroup(s), kept)
  <2>1. g \in Group
    BY BoundedGroupType
  <2>2. /\ listener' = "send"
        /\ Len(arrivals) < MaxArrivals
        /\ arrivals' = Append(arrivals, [source |-> s, group |-> g])
        /\ senders' = kept \cup {g}
        /\ worker' = [worker EXCEPT ![g] = IF g \in kept THEN @ ELSE "recv"]
        /\ UNCHANGED <<queue, current, permits, handled, lost>>
    BY <1>1 DEF Enqueue
  <2>. HIDE DEF kept, g
  <2>0. [source |-> s, group |-> g] \in Arrival
    BY <2>1 DEF Arrival
  <2>3. arrivals' \in Seq(Arrival) /\ arrivals' # <<>>
    BY <2>0, <2>2, AppendFacts
  <2>4. Len(arrivals') <= MaxArrivals
    BY <2>2
  <2>5. worker' \in [Group -> WorkerState]
    BY <2>1, <2>2 DEF WorkerState
  <2>6. senders' \subseteq Group
    BY <2>1, <2>2 DEF kept
  <2>. QED BY <2>2, <2>3, <2>4, <2>5, <2>6
<1>2. CASE SendOk
  <2>1. InSend \in Event /\ SendTarget \in Group
    BY <1>2, InSendType DEF SendOk
  <2>2. queue' \in [Group -> Seq(Event)]
    BY <1>2, <2>1 DEF SendOk
  <2>3. \A g \in Group : Len(queue'[g]) <= Capacity
    BY <1>2, <2>1 DEF SendOk
  <2>. QED BY <1>2, <2>2, <2>3 DEF SendOk
<1>3. CASE SendFails
  <2>1. InSend \in Event
    BY <1>3, InSendType DEF SendFails
  <2>. QED BY <1>3, <2>1 DEF SendFails
<1>4. CASE Shutdown
  BY <1>4, InSendType DEF Shutdown, Sending
<1>5. ASSUME NEW g \in Group, Recv(g) PROVE TypeOK'
  <2>1. Head(queue[g]) \in Event /\ Tail(queue[g]) \in Seq(Event)
        /\ Len(Tail(queue[g])) <= Capacity
    BY <1>5 DEF Recv
  <2>. QED BY <1>5, <2>1 DEF Recv, WorkerState
<1>6. ASSUME NEW g \in Group, RecvNone(g) PROVE TypeOK'
  BY <1>6 DEF RecvNone, WorkerState
<1>7. ASSUME NEW g \in Group, IdleTimeout(g) PROVE TypeOK'
  BY <1>7 DEF IdleTimeout, WorkerState
<1>8. ASSUME NEW g \in Group, IdleExit(g) PROVE TypeOK'
  <2>1. ToSet(queue[g]) \subseteq Event
    BY DEF ToSet
  <2>. QED BY <1>8, <2>1 DEF IdleExit, WorkerState
<1>9. ASSUME NEW g \in Group, AcquirePermit(g) PROVE TypeOK'
  BY <1>9 DEF AcquirePermit, WorkerState
<1>10. ASSUME NEW g \in Group, HandlerReturns(g) PROVE TypeOK'
  <2>1. current[g] \in Event
    BY <1>10 DEF HandlerReturns, WorkersKnown
  <2>. QED BY <1>10, <2>1 DEF HandlerReturns, WorkerState
<1>11. CASE UNCHANGED vars
  BY <1>11 DEF vars
<1>. QED
  BY <1>1, <1>2, <1>3, <1>4, <1>5, <1>6, <1>7, <1>8, <1>9, <1>10, <1>11
     DEF Next, Worker

-----------------------------------------------------------------------------
(* The workers and the sender map.                                         *)

\* At the start there is no worker.
LEMMA InitWorkersKnown == Init => WorkersKnown
BY DEF Init, WorkersKnown, Live, NoEvent

\* A live worker's sender stays in the map until the worker ends.
LEMMA StepWorkersKnown == TypeOK /\ WorkersKnown /\ [Next]_vars => WorkersKnown'
<1>. SUFFICES ASSUME TypeOK, WorkersKnown, [Next]_vars PROVE WorkersKnown'
  OBVIOUS
<1>. USE DEF WorkersKnown, Live, Closed
<1>1. ASSUME NEW s \in Source, Enqueue(s) PROVE WorkersKnown'
  <2>. DEFINE kept == {h \in senders : ~Closed(h)}
              g == BoundedGroup(ResolveGroup(s), kept)
  <2>1. g \in Group
    BY BoundedGroupType
  <2>2. /\ listener = "select"
        /\ listener' = "send"
        /\ arrivals' = Append(arrivals, [source |-> s, group |-> g])
        /\ senders' = kept \cup {g}
        /\ worker' = [worker EXCEPT ![g] = IF g \in kept THEN @ ELSE "recv"]
        /\ UNCHANGED <<queue, current, permits, handled, lost>>
    BY <1>1 DEF Enqueue
  <2>. HIDE DEF g
  <2>3. /\ worker'[g] = IF g \in kept THEN worker[g] ELSE "recv"
        /\ \A h \in Group \ {g} : worker'[h] = worker[h]
    BY <2>1, <2>2 DEF TypeOK
  <2>4. g \notin kept => ~Live(g)
    BY <2>1, <2>2
  <2>5. SendTarget' = g
    <3>1. [source |-> s, group |-> g] \in Arrival /\ arrivals \in Seq(Arrival)
      BY <2>1 DEF Arrival, TypeOK
    <3>. QED BY <3>1, <2>2, AppendFacts DEF SendTarget, InSend
  <2>6. \A h \in Group : (~Live(h))' => queue'[h] = <<>>
    BY <2>2, <2>3, <2>4
  <2>7. \A h \in Group : worker'[h] \in {"permit", "handler"} <=> current'[h] # NoEvent
    BY <2>2, <2>3, <2>4
  <2>8. \A h \in Group : Live(h)' => h \in senders'
    BY <2>2, <2>3
  <2>9. \A h \in Group : h \in senders' => worker'[h] # "none"
    BY <2>2, <2>3
  <2>. QED BY <2>2, <2>5, <2>6, <2>7, <2>8, <2>9
<1>2. CASE SendOk
  <2>1. SendTarget \in Group /\ SendTarget \in senders /\ worker[SendTarget] # "none"
    BY <1>2, InSendType DEF SendOk
  <2>. QED BY <1>2, <2>1 DEF SendOk, TypeOK
<1>3. CASE SendFails
  BY <1>3 DEF SendFails
<1>4. CASE Shutdown
  BY <1>4 DEF Shutdown
<1>5. ASSUME NEW g \in Group, Recv(g) PROVE WorkersKnown'
  <2>1. Head(queue[g]) # NoEvent
    <3>1. queue[g] \in Seq(Event) /\ queue[g] # <<>>
      BY <1>5 DEF Recv, TypeOK
    <3>. QED BY <3>1, TailFacts, EventNotNone
  <2>2. SendTarget' = SendTarget
    BY <1>5 DEF Recv, SendTarget, InSend
  <2>. QED BY <1>5, <2>1, <2>2 DEF Recv, TypeOK
<1>6. ASSUME NEW g \in Group, RecvNone(g) PROVE WorkersKnown'
  BY <1>6 DEF RecvNone, TypeOK
<1>7. ASSUME NEW g \in Group, IdleTimeout(g) PROVE WorkersKnown'
  <2>2. SendTarget' = SendTarget
    BY <1>7 DEF IdleTimeout, SendTarget, InSend
  <2>. QED BY <1>7, <2>2 DEF IdleTimeout, TypeOK
<1>8. ASSUME NEW g \in Group, IdleExit(g) PROVE WorkersKnown'
  <2>2. SendTarget' = SendTarget
    BY <1>8 DEF IdleExit, SendTarget, InSend
  <2>. QED BY <1>8, <2>2 DEF IdleExit, TypeOK
<1>9. ASSUME NEW g \in Group, AcquirePermit(g) PROVE WorkersKnown'
  <2>2. SendTarget' = SendTarget
    BY <1>9 DEF AcquirePermit, SendTarget, InSend
  <2>. QED BY <1>9, <2>2 DEF AcquirePermit, TypeOK
<1>10. ASSUME NEW g \in Group, HandlerReturns(g) PROVE WorkersKnown'
  <2>2. SendTarget' = SendTarget
    BY <1>10 DEF HandlerReturns, SendTarget, InSend
  <2>. QED BY <1>10, <2>2 DEF HandlerReturns, TypeOK
<1>11. CASE UNCHANGED vars
  BY <1>11 DEF vars, SendTarget, InSend
<1>. QED
  BY <1>1, <1>2, <1>3, <1>4, <1>5, <1>6, <1>7, <1>8, <1>9, <1>10, <1>11
     DEF Next, Worker

-----------------------------------------------------------------------------
(* What each action does to the places an event can be in.                 *)

\* Enqueue only adds the new event, as the one being sent.
LEMMA EnqueueMoves ==
    ASSUME TypeOK, WorkersKnown, NEW s \in Source, Enqueue(s)
    PROVE  LET g == BoundedGroup(ResolveGroup(s), {h \in senders : ~Closed(h)})
           IN  /\ g \in Group
               /\ InSend' = Len(arrivals) + 1
               /\ InSend' \in Event
               /\ Arrived' = Arrived \cup {InSend'}
               /\ InSend' \notin Arrived
               /\ \A e \in Arrived : arrivals'[e] = arrivals[e] /\ e < InSend'
               /\ arrivals'[InSend'] = [source |-> s, group |-> g]
               /\ Sending = {} /\ Sending' = {InSend'}
               /\ \A h \in Group : Queued(h)' = Queued(h)
               /\ AwaitingPermit' = AwaitingPermit
               /\ Handling' = Handling
               /\ Waiting' = Waiting \cup {InSend'}
               /\ Running' = Running
               /\ UNCHANGED <<queue, current, permits, handled, lost>>
<1>. DEFINE kept == {h \in senders : ~Closed(h)}
            g == BoundedGroup(ResolveGroup(s), kept)
<1>1. g \in Group
  BY BoundedGroupType
<1>2. /\ listener = "select"
      /\ listener' = "send"
      /\ Len(arrivals) < MaxArrivals
      /\ arrivals' = Append(arrivals, [source |-> s, group |-> g])
      /\ senders' = kept \cup {g}
      /\ worker' = [worker EXCEPT ![g] = IF g \in kept THEN @ ELSE "recv"]
      /\ UNCHANGED <<queue, current, permits, handled, lost>>
  BY DEF Enqueue
<1>3. g \notin kept => worker[g] \in {"none", "gone"}
  BY <1>1, <1>2 DEF WorkersKnown, Live, Closed
<1>. HIDE DEF g, kept
<1>4. [source |-> s, group |-> g] \in Arrival /\ arrivals \in Seq(Arrival)
  BY <1>1 DEF Arrival, TypeOK
<1>5. /\ Len(arrivals') = Len(arrivals) + 1 /\ Len(arrivals) \in Nat
      /\ arrivals'[Len(arrivals) + 1] = [source |-> s, group |-> g]
      /\ \A i \in 1 .. Len(arrivals) : arrivals'[i] = arrivals[i]
  BY <1>2, <1>4, AppendFacts
<1>6. /\ InSend' = Len(arrivals) + 1
      /\ InSend' \in Event
      /\ Arrived' = Arrived \cup {InSend'}
      /\ InSend' \notin Arrived
      /\ \A e \in Arrived : arrivals'[e] = arrivals[e] /\ e < InSend'
      /\ arrivals'[InSend'] = [source |-> s, group |-> g]
  BY <1>2, <1>5, LimitsAssumption DEF InSend, Arrived, Event
<1>7. Sending = {} /\ Sending' = {InSend'}
  BY <1>2 DEF Sending
<1>8. \A h \in Group : Queued(h)' = Queued(h)
  BY <1>2 DEF Queued
<1>9. AwaitingPermit' = AwaitingPermit /\ Handling' = Handling
  BY <1>1, <1>2, <1>3 DEF AwaitingPermit, Handling, TypeOK
<1>10. Waiting' = Waiting \cup {InSend'} /\ Running' = Running
  BY <1>2, <1>6, <1>7, <1>8, <1>9 DEF Waiting, Running
<1>. QED BY <1>1, <1>2, <1>6, <1>7, <1>8, <1>9, <1>10 DEF g, kept

\* Nothing but the named places changes between two calls of enqueue.
LEMMA ArrivalsFixed ==
    ASSUME UNCHANGED arrivals
    PROVE  Arrived' = Arrived /\ InSend' = InSend /\ SendTarget' = SendTarget
BY DEF Arrived, InSend, SendTarget

\* SendOk moves the event being sent to the end of its group's channel.
LEMMA SendOkMoves ==
    ASSUME TypeOK, SendOk
    PROVE  /\ Sending = {InSend} /\ Sending' = {}
           /\ SendTarget \in Group
           /\ Queued(SendTarget)' = Queued(SendTarget) \cup {InSend}
           /\ queue'[SendTarget] = Append(queue[SendTarget], InSend)
           /\ \A h \in Group \ {SendTarget} :
                 queue'[h] = queue[h] /\ Queued(h)' = Queued(h)
           /\ AwaitingPermit' = AwaitingPermit /\ Handling' = Handling
           /\ Waiting' = Waiting /\ Running' = Running
           /\ UNCHANGED <<arrivals, senders, worker, current, permits, handled, lost>>
<1>1. /\ listener = "send" /\ listener' = "select"
      /\ queue' = [queue EXCEPT ![SendTarget] = Append(@, InSend)]
      /\ UNCHANGED <<arrivals, senders, worker, current, permits, handled, lost>>
  BY DEF SendOk
<1>2. InSend \in Event /\ SendTarget \in Group
  BY <1>1, InSendType
<1>3. queue[SendTarget] \in Seq(Event)
  BY <1>2 DEF TypeOK
<1>4. /\ queue'[SendTarget] = Append(queue[SendTarget], InSend)
      /\ \A h \in Group \ {SendTarget} : queue'[h] = queue[h]
  BY <1>1, <1>2 DEF TypeOK
<1>5. Queued(SendTarget)' = Queued(SendTarget) \cup {InSend}
  <2>1. ToSet(queue'[SendTarget]) = ToSet(queue[SendTarget]) \cup {InSend}
    BY <1>2, <1>3, <1>4, ToSetAppend
  <2>2. SendTarget' = SendTarget
    BY <1>1, ArrivalsFixed
  <2>. QED BY <2>1, <2>2 DEF Queued
<1>6. \A h \in Group \ {SendTarget} : Queued(h)' = Queued(h)
  BY <1>4 DEF Queued
<1>7. Sending = {InSend} /\ Sending' = {}
  BY <1>1 DEF Sending
<1>8. AwaitingPermit' = AwaitingPermit /\ Handling' = Handling
  BY <1>1 DEF AwaitingPermit, Handling
<1>9. Waiting' = Waiting
  <2>1. SendTarget' = SendTarget
    BY <1>1, ArrivalsFixed
  <2>2. \A e \in Event :
           (e \in Sending \/ \E g \in Group : e \in Queued(g))
           <=> (e \in Sending' \/ \E g \in Group : e \in Queued(g)')
    BY <1>2, <1>5, <1>6, <1>7, <2>1
  <2>. QED BY <1>1, <1>8, <2>2, Zenon DEF Waiting
<1>10. Running' = Running
  BY <1>1, <1>8 DEF Running
<1>. QED BY <1>1, <1>2, <1>4, <1>5, <1>6, <1>7, <1>8, <1>9, <1>10

\* SendFails gives up the event being sent.
LEMMA SendFailsMoves ==
    ASSUME TypeOK, SendFails
    PROVE  /\ Sending = {InSend} /\ Sending' = {}
           /\ InSend \in Waiting
           /\ Waiting \ {InSend} \subseteq Waiting'
           /\ Waiting' \subseteq Waiting
           /\ lost' = lost \cup {InSend}
           /\ \A h \in Group : Queued(h)' = Queued(h)
           /\ AwaitingPermit' = AwaitingPermit /\ Handling' = Handling
           /\ Running' = Running
           /\ UNCHANGED <<arrivals, senders, queue, worker, current, permits, handled>>
<1>1. /\ listener = "send" /\ listener' = "select"
      /\ lost' = lost \cup {InSend}
      /\ UNCHANGED <<arrivals, senders, queue, worker, current, permits, handled>>
  BY DEF SendFails
<1>2. InSend \in Event
  BY <1>1, InSendType
<1>3. Sending = {InSend} /\ Sending' = {}
  BY <1>1 DEF Sending
<1>4. /\ \A h \in Group : Queued(h)' = Queued(h)
      /\ AwaitingPermit' = AwaitingPermit /\ Handling' = Handling
  BY <1>1 DEF Queued, AwaitingPermit, Handling
<1>5. Running' = Running
  BY <1>1, <1>4 DEF Running
<1>6. InSend \in Waiting /\ Waiting \ {InSend} \subseteq Waiting' /\ Waiting' \subseteq Waiting
  BY <1>1, <1>2, <1>3, <1>4 DEF Waiting
<1>. QED BY <1>1, <1>3, <1>4, <1>5, <1>6

\* Shutdown gives up the event being sent, if any.
LEMMA ShutdownMoves ==
    ASSUME TypeOK, Shutdown
    PROVE  /\ Sending' = {} /\ Sending \subseteq Waiting
           /\ Waiting \ Sending \subseteq Waiting'
           /\ Waiting' \subseteq Waiting
           /\ lost' = lost \cup Sending
           /\ \A h \in Group : Queued(h)' = Queued(h)
           /\ AwaitingPermit' = AwaitingPermit /\ Handling' = Handling
           /\ Running' = Running
           /\ UNCHANGED <<arrivals, queue, worker, current, permits, handled>>
<1>1. /\ listener # "closed" /\ listener' = "closed"
      /\ lost' = lost \cup Sending
      /\ UNCHANGED <<arrivals, queue, worker, current, permits, handled>>
  BY DEF Shutdown
<1>2. Sending \subseteq Event
  BY InSendType DEF Sending
<1>3. Sending' = {}
  BY <1>1 DEF Sending
<1>4. /\ \A h \in Group : Queued(h)' = Queued(h)
      /\ AwaitingPermit' = AwaitingPermit /\ Handling' = Handling
  BY <1>1 DEF Queued, AwaitingPermit, Handling
<1>5. Running' = Running
  BY <1>1, <1>4 DEF Running
<1>6. Sending \subseteq Waiting /\ Waiting \ Sending \subseteq Waiting' /\ Waiting' \subseteq Waiting
  BY <1>1, <1>2, <1>3, <1>4 DEF Waiting
<1>. QED BY <1>1, <1>3, <1>4, <1>5, <1>6

\* Recv moves the head of the channel into the worker's hands.
LEMMA RecvMoves ==
    ASSUME TypeOK, NEW g \in Group, Recv(g)
    PROVE  /\ queue[g] \in Seq(Event) /\ queue[g] # <<>>
           /\ current'[g] = Head(queue[g]) /\ queue'[g] = Tail(queue[g])
           /\ \A h \in Group \ {g} : /\ current'[h] = current[h]
                                     /\ queue'[h] = queue[h]
                                     /\ Queued(h)' = Queued(h)
           /\ Queued(g) = Queued(g)' \cup {current'[g]}
           /\ g \notin Handling \cup AwaitingPermit
           /\ AwaitingPermit' = AwaitingPermit \cup {g} /\ Handling' = Handling
           /\ Sending' = Sending /\ Waiting' = Waiting /\ Running' = Running
           /\ UNCHANGED <<arrivals, listener, senders, permits, handled, lost>>
<1>1. /\ worker[g] = "recv" /\ queue[g] # <<>>
      /\ current' = [current EXCEPT ![g] = Head(queue[g])]
      /\ queue' = [queue EXCEPT ![g] = Tail(@)]
      /\ worker' = [worker EXCEPT ![g] = "permit"]
      /\ UNCHANGED <<arrivals, listener, senders, permits, handled, lost>>
  BY DEF Recv
<1>2. /\ queue[g] \in Seq(Event)
      /\ current'[g] = Head(queue[g]) /\ queue'[g] = Tail(queue[g])
      /\ \A h \in Group \ {g} : current'[h] = current[h] /\ queue'[h] = queue[h]
  BY <1>1 DEF TypeOK
<1>3. /\ \A h \in Group \ {g} : Queued(h)' = Queued(h)
      /\ Queued(g) = Queued(g)' \cup {current'[g]}
  BY <1>1, <1>2, ToSetTail DEF Queued
<1>4. /\ g \notin Handling \cup AwaitingPermit
      /\ AwaitingPermit' = AwaitingPermit \cup {g} /\ Handling' = Handling
  BY <1>1 DEF TypeOK, AwaitingPermit, Handling
<1>5. Sending' = Sending
  BY <1>1 DEF Sending, InSend
<1>6. Waiting' = Waiting
  BY <1>2, <1>3, <1>4, <1>5 DEF Waiting, AwaitingPermit
<1>7. Running' = Running
  BY <1>2, <1>4 DEF Running, Handling
<1>. QED BY <1>1, <1>2, <1>3, <1>4, <1>5, <1>6, <1>7

\* A worker that ends gives up what is in its channel; the others end with an
\* empty one.
LEMMA IdleExitMoves ==
    ASSUME TypeOK, NEW g \in Group, IdleExit(g)
    PROVE  /\ queue'[g] = <<>> /\ Queued(g)' = {}
           /\ \A h \in Group \ {g} : queue'[h] = queue[h] /\ Queued(h)' = Queued(h)
           /\ Queued(g) \subseteq Waiting
           /\ Waiting \ Queued(g) \subseteq Waiting'
           /\ Waiting' \subseteq Waiting
           /\ lost' = lost \cup Queued(g)
           /\ AwaitingPermit' = AwaitingPermit /\ Handling' = Handling
           /\ Sending' = Sending /\ Running' = Running
           /\ UNCHANGED <<arrivals, listener, senders, current, permits, handled>>
<1>1. /\ worker[g] = "idle_exit"
      /\ worker' = [worker EXCEPT ![g] = "gone"]
      /\ queue' = [queue EXCEPT ![g] = <<>>]
      /\ lost' = lost \cup ToSet(queue[g])
      /\ UNCHANGED <<arrivals, listener, senders, current, permits, handled>>
  BY DEF IdleExit
<1>2. /\ queue'[g] = <<>>
      /\ \A h \in Group \ {g} : queue'[h] = queue[h]
  BY <1>1 DEF TypeOK
<1>3. /\ Queued(g)' = {}
      /\ \A h \in Group \ {g} : Queued(h)' = Queued(h)
      /\ lost' = lost \cup Queued(g)
  BY <1>1, <1>2, ToSetEmpty DEF Queued
<1>4. AwaitingPermit' = AwaitingPermit /\ Handling' = Handling
  BY <1>1 DEF TypeOK, AwaitingPermit, Handling
<1>5. Sending' = Sending
  BY <1>1 DEF Sending, InSend
<1>6. Queued(g) \subseteq Event
  BY DEF Queued, ToSet, TypeOK
<1>7. /\ Queued(g) \subseteq Waiting
      /\ Waiting \ Queued(g) \subseteq Waiting'
      /\ Waiting' \subseteq Waiting
  BY <1>1, <1>3, <1>4, <1>5, <1>6 DEF Waiting
<1>8. Running' = Running
  BY <1>1, <1>4 DEF Running
<1>. QED BY <1>1, <1>2, <1>3, <1>4, <1>5, <1>7, <1>8

\* RecvNone and IdleTimeout move no event.
LEMMA QuietMoves ==
    ASSUME TypeOK, NEW g \in Group, RecvNone(g) \/ IdleTimeout(g)
    PROVE  /\ \A h \in Group : Queued(h)' = Queued(h)
           /\ AwaitingPermit' = AwaitingPermit /\ Handling' = Handling
           /\ Sending' = Sending /\ Waiting' = Waiting /\ Running' = Running
           /\ UNCHANGED <<arrivals, listener, senders, queue, current, permits,
                          handled, lost>>
<1>1. /\ worker[g] = "recv"
      /\ \E w \in {"gone", "idle_exit"} : worker' = [worker EXCEPT ![g] = w]
      /\ UNCHANGED <<arrivals, listener, senders, queue, current, permits,
                     handled, lost>>
  BY DEF RecvNone, IdleTimeout
<1>2. AwaitingPermit' = AwaitingPermit /\ Handling' = Handling
  BY <1>1 DEF TypeOK, AwaitingPermit, Handling
<1>3. /\ \A h \in Group : Queued(h)' = Queued(h)
      /\ Sending' = Sending
  BY <1>1 DEF Queued, Sending, InSend
<1>4. Waiting' = Waiting /\ Running' = Running
  BY <1>1, <1>2, <1>3 DEF Waiting, Running
<1>. QED BY <1>1, <1>2, <1>3, <1>4

\* A permit starts the event the worker holds.
LEMMA AcquireMoves ==
    ASSUME TypeOK, WorkersKnown, NEW g \in Group, AcquirePermit(g)
    PROVE  /\ permits > 0 /\ permits' = permits - 1
           /\ g \in AwaitingPermit /\ g \notin Handling
           /\ AwaitingPermit' = AwaitingPermit \ {g} /\ Handling' = Handling \cup {g}
           /\ current[g] \in Waiting
           /\ Waiting \ {current[g]} \subseteq Waiting' /\ Waiting' \subseteq Waiting
           /\ Running' = Running \cup {current[g]}
           /\ \A h \in Group : Queued(h)' = Queued(h)
           /\ Sending' = Sending
           /\ UNCHANGED <<arrivals, listener, senders, queue, current, handled, lost>>
<1>1. /\ worker[g] = "permit" /\ permits > 0 /\ permits' = permits - 1
      /\ worker' = [worker EXCEPT ![g] = "handler"]
      /\ UNCHANGED <<arrivals, listener, senders, queue, current, handled, lost>>
  BY DEF AcquirePermit
<1>2. /\ g \in AwaitingPermit /\ g \notin Handling
      /\ AwaitingPermit' = AwaitingPermit \ {g} /\ Handling' = Handling \cup {g}
  BY <1>1 DEF TypeOK, AwaitingPermit, Handling
<1>3. /\ \A h \in Group : Queued(h)' = Queued(h)
      /\ Sending' = Sending
  BY <1>1 DEF Queued, Sending, InSend
<1>4. current[g] \in Event
  BY <1>1 DEF TypeOK, WorkersKnown
<1>5. /\ current[g] \in Waiting
      /\ Waiting \ {current[g]} \subseteq Waiting' /\ Waiting' \subseteq Waiting
  BY <1>1, <1>2, <1>3, <1>4 DEF Waiting
<1>6. Running' = Running \cup {current[g]}
  BY <1>1, <1>2, <1>4 DEF Running
<1>. QED BY <1>1, <1>2, <1>3, <1>5, <1>6

\* The handler's event becomes a handled one.
LEMMA HandlerReturnsMoves ==
    ASSUME TypeOK, WorkersKnown, NEW g \in Group, HandlerReturns(g)
    PROVE  /\ permits' = permits + 1
           /\ g \in Handling /\ g \notin AwaitingPermit
           /\ AwaitingPermit' = AwaitingPermit /\ Handling' = Handling \ {g}
           /\ current[g] \in Running /\ current[g] # NoEvent
           /\ Running \ {current[g]} \subseteq Running' /\ Running' \subseteq Running
           /\ handled' = handled \cup {current[g]}
           /\ current'[g] = NoEvent
           /\ \A h \in Group \ {g} : current'[h] = current[h]
           /\ \A h \in Group : Queued(h)' = Queued(h)
           /\ Sending' = Sending /\ Waiting' = Waiting
           /\ UNCHANGED <<arrivals, listener, senders, queue, lost>>
<1>1. /\ worker[g] = "handler" /\ permits' = permits + 1
      /\ handled' = handled \cup {current[g]}
      /\ current' = [current EXCEPT ![g] = NoEvent]
      /\ worker' = [worker EXCEPT ![g] = "recv"]
      /\ UNCHANGED <<arrivals, listener, senders, queue, lost>>
  BY DEF HandlerReturns
<1>2. /\ g \in Handling /\ g \notin AwaitingPermit
      /\ AwaitingPermit' = AwaitingPermit /\ Handling' = Handling \ {g}
      /\ current'[g] = NoEvent
      /\ \A h \in Group \ {g} : current'[h] = current[h]
  BY <1>1 DEF TypeOK, AwaitingPermit, Handling
<1>3. /\ \A h \in Group : Queued(h)' = Queued(h)
      /\ Sending' = Sending
  BY <1>1 DEF Queued, Sending, InSend
<1>4. current[g] \in Event /\ current[g] # NoEvent
  BY <1>1, EventNotNone DEF TypeOK, WorkersKnown
<1>5. Waiting' = Waiting /\ Handling \subseteq Group
  BY <1>2, <1>3 DEF Waiting, AwaitingPermit, Handling
<1>6. /\ current[g] \in Running
      /\ Running \ {current[g]} \subseteq Running'
  BY <1>2, <1>4, <1>5 DEF Running
<1>7. Running' \subseteq Running
  BY <1>2 DEF Running, Handling
<1>. QED BY <1>1, <1>2, <1>3, <1>4, <1>5, <1>6, <1>7

-----------------------------------------------------------------------------
(* Every event is in one place.                                            *)

\* At the start no event is anywhere.
LEMMA InitOnePlace == Init => OnePlace /\ GroupFifo /\ NoneVanishes
<1>. SUFFICES ASSUME Init PROVE OnePlace /\ GroupFifo /\ NoneVanishes
  OBVIOUS
<1>1. Arrived = {} /\ \A g \in Group : Queued(g) = {}
  BY ToSetEmpty DEF Init, Arrived, Queued
<1>2. OnePlace
  BY <1>1 DEF Init, OnePlace, Sending
<1>3. GroupFifo
  BY <1>1 DEF Init, GroupFifo, InOrder
<1>4. NoneVanishes
  BY <1>1 DEF NoneVanishes
<1>. QED BY <1>2, <1>3, <1>4

\* An event is in one place at a time and moves on to the next of its group.
LEMMA StepOnePlace ==
    TypeOK /\ WorkersKnown /\ OnePlace /\ GroupFifo /\ [Next]_vars => OnePlace'
<1>. SUFFICES ASSUME TypeOK, WorkersKnown, OnePlace, GroupFifo, [Next]_vars
              PROVE  OnePlace'
  OBVIOUS
<1>. USE DEF OnePlace, OnItsWay
<1>1. ASSUME NEW s \in Source, Enqueue(s) PROVE OnePlace'
  <2>1. /\ Arrived' = Arrived \cup {InSend'} /\ InSend' \notin Arrived
        /\ \A e \in Arrived : arrivals'[e] = arrivals[e]
        /\ Sending' = {InSend'} /\ Sending = {}
        /\ \A h \in Group : Queued(h)' = Queued(h)
        /\ UNCHANGED <<current, handled, lost>>
    BY <1>1, EnqueueMoves
  <2>2. ASSUME NEW e, NEW g \in Group, OnItsWay(e, g)
        PROVE  OnItsWay(e, g)'
    BY <2>1, <2>2
  <2>3. \A h \in Group :
           /\ \A e \in Queued(h)' : OnItsWay(e, h)'
           /\ current'[h] # NoEvent => OnItsWay(current[h], h)'
    BY <2>1, <2>2
  <2>. QED BY <2>1, <2>3
<1>2. CASE SendOk
  BY <1>2, SendOkMoves, ArrivalsFixed, InSendType DEF SendOk, SendTarget
<1>3. CASE SendFails
  BY <1>3, SendFailsMoves, ArrivalsFixed, InSendType DEF SendFails
<1>4. CASE Shutdown
  BY <1>4, ShutdownMoves, ArrivalsFixed, InSendType DEF Sending
<1>5. ASSUME NEW g \in Group, Recv(g) PROVE OnePlace'
  BY <1>5, RecvMoves, ArrivalsFixed
<1>6. ASSUME NEW g \in Group, RecvNone(g) \/ IdleTimeout(g) PROVE OnePlace'
  BY <1>6, QuietMoves, ArrivalsFixed
<1>7. ASSUME NEW g \in Group, IdleExit(g) PROVE OnePlace'
  <2>1. /\ Arrived' = Arrived /\ Sending' = Sending
        /\ Queued(g)' = {}
        /\ \A h \in Group \ {g} : Queued(h)' = Queued(h)
        /\ lost' = lost \cup Queued(g)
        /\ UNCHANGED <<arrivals, current, handled>>
    BY <1>7, IdleExitMoves, ArrivalsFixed
  <2>2. current[g] = NoEvent
    BY <1>7 DEF IdleExit, WorkersKnown
  <2>3. ASSUME NEW e, NEW h \in Group \ {g}, OnItsWay(e, h)
        PROVE  OnItsWay(e, h)'
    BY <2>1, <2>3
  <2>4. \A h \in Group :
           /\ \A e \in Queued(h)' : OnItsWay(e, h)'
           /\ current'[h] # NoEvent => OnItsWay(current[h], h)'
    BY <2>1, <2>2, <2>3
  <2>. QED BY <2>1, <2>4
<1>8. ASSUME NEW g \in Group, AcquirePermit(g) PROVE OnePlace'
  BY <1>8, AcquireMoves, ArrivalsFixed
<1>9. ASSUME NEW g \in Group, HandlerReturns(g) PROVE OnePlace'
  <2>1. /\ Arrived' = Arrived /\ Sending' = Sending
        /\ \A h \in Group : Queued(h)' = Queued(h)
        /\ handled' = handled \cup {current[g]}
        /\ current[g] # NoEvent /\ current'[g] = NoEvent
        /\ \A h \in Group \ {g} : current'[h] = current[h]
        /\ UNCHANGED <<arrivals, lost>>
    BY <1>9, HandlerReturnsMoves, ArrivalsFixed
  <2>2. ASSUME NEW e, NEW h \in Group, OnItsWay(e, h), e # current[g]
        PROVE  OnItsWay(e, h)'
    BY <2>1, <2>2
  <2>3. ASSUME NEW h \in Group, NEW e \in Queued(h)
        PROVE  e # current[g]
    <3>1. OnItsWay(current[g], g) /\ OnItsWay(e, h)
      BY <2>1, <2>3
    <3>2. CASE h = g
      BY <2>3, <3>1, <3>2 DEF GroupFifo, InOrder, Arrived
    <3>. QED BY <3>1, <3>2
  <2>4. \A h \in Group \ {g} : current[h] # NoEvent => current[h] # current[g]
    BY <2>1
  <2>5. \A h \in Group :
           /\ \A e \in Queued(h)' : OnItsWay(e, h)'
           /\ current'[h] # NoEvent => OnItsWay(current[h], h)'
    BY <2>1, <2>2, <2>3, <2>4
  <2>6. /\ handled' \cup lost' \subseteq Arrived'
        /\ handled' \cap lost' = {}
        /\ Sending' \cap (handled' \cup lost') = {}
    BY <2>1
  <2>. QED BY <2>5, <2>6
<1>10. CASE UNCHANGED vars
  BY <1>10, ArrivalsFixed DEF vars, Sending, Queued
<1>. QED
  BY <1>1, <1>2, <1>3, <1>4, <1>5, <1>6, <1>7, <1>8, <1>9, <1>10 DEF Next, Worker

\* The order of arrival inside a group survives every step.
LEMMA StepGroupFifo ==
    TypeOK /\ WorkersKnown /\ OnePlace /\ GroupFifo /\ [Next]_vars => GroupFifo'
<1>. SUFFICES ASSUME TypeOK, WorkersKnown, OnePlace, GroupFifo, [Next]_vars
              PROVE  GroupFifo'
  OBVIOUS
<1>0. /\ handled \subseteq Arrived /\ Arrived \subseteq Nat
      /\ \A g \in Group : Queued(g) \subseteq Arrived
      /\ \A g \in Group : current[g] # NoEvent => current[g] \in Arrived
      /\ \A g \in Group : current[g] \in Nat
  BY EventNotNone DEF OnePlace, OnItsWay, Arrived, TypeOK, NoEvent
<1>1. ASSUME NEW s \in Source, Enqueue(s) PROVE GroupFifo'
  <2>1. /\ \A e \in Arrived : arrivals'[e] = arrivals[e]
        /\ \A h \in Group : Queued(h)' = Queued(h)
        /\ UNCHANGED <<queue, current, handled, lost>>
    BY <1>1, EnqueueMoves
  <2>. QED BY <1>0, <2>1 DEF GroupFifo, InOrder
<1>2. CASE SendOk
  <2>1. /\ Queued(SendTarget)' = Queued(SendTarget) \cup {InSend}
        /\ queue'[SendTarget] = Append(queue[SendTarget], InSend)
        /\ \A h \in Group \ {SendTarget} :
              queue'[h] = queue[h] /\ Queued(h)' = Queued(h)
        /\ UNCHANGED <<arrivals, current, handled>>
        /\ Sending = {InSend} /\ SendTarget \in Group
        /\ SendTarget' = SendTarget
    BY <1>2, SendOkMoves, ArrivalsFixed
  <2>2. /\ InSend \in Nat
        /\ \A e \in Arrived : e # InSend => e < InSend
        /\ InSend # 0
    BY <1>2, InSendType DEF SendOk, InSend, Arrived, TypeOK
  <2>3. /\ \A e \in Queued(SendTarget) : e < InSend
        /\ \A e \in handled : e < InSend
        /\ current[SendTarget] < InSend
    <3>1. \A e \in Queued(SendTarget) \cup handled : e \in Arrived /\ e # InSend
      BY <1>0, <2>1 DEF OnePlace, OnItsWay
    <3>2. CASE current[SendTarget] = NoEvent
      BY <2>2, <3>1, <3>2 DEF NoEvent
    <3>3. CASE current[SendTarget] # NoEvent
      <4>1. current[SendTarget] \in Arrived /\ current[SendTarget] # InSend
        BY <2>1, <3>3 DEF OnePlace, OnItsWay
      <4>. QED BY <2>2, <3>1, <4>1
    <3>. QED BY <3>2, <3>3
  <2>4. \A i, j \in DOMAIN queue'[SendTarget] :
           i < j => queue'[SendTarget][i] < queue'[SendTarget][j]
    <3>1. queue[SendTarget] \in Seq(Event) /\ InSend \in Event
      BY <2>1, <1>2, InSendType DEF TypeOK, SendOk
    <3>2. \A i \in DOMAIN queue[SendTarget] : queue[SendTarget][i] < InSend
      BY <2>3 DEF Queued, ToSet
    <3>3. \A i, j \in DOMAIN queue[SendTarget] :
             i < j => queue[SendTarget][i] < queue[SendTarget][j]
      BY <2>1 DEF GroupFifo, InOrder
    <3>. DEFINE q == queue[SendTarget]
    <3>4. /\ Len(q) \in Nat /\ DOMAIN q = 1 .. Len(q)
          /\ DOMAIN Append(q, InSend) = 1 .. Len(q) + 1
          /\ Append(q, InSend)[Len(q) + 1] = InSend
          /\ \A i \in 1 .. Len(q) : Append(q, InSend)[i] = q[i]
      BY <3>1
    <3>5. queue'[SendTarget] = Append(q, InSend)
      BY <2>1
    <3>6. ASSUME NEW i \in DOMAIN Append(q, InSend), NEW j \in DOMAIN Append(q, InSend), i < j
          PROVE  Append(q, InSend)[i] < Append(q, InSend)[j]
      <4>1. i \in 1 .. Len(q) /\ (j \in 1 .. Len(q) \/ j = Len(q) + 1)
        BY <3>4, <3>6
      <4>. QED BY <3>2, <3>3, <3>4, <3>6, <4>1
    <3>. HIDE DEF q
    <3>. QED BY <3>5, <3>6
  <2>5. InOrder(SendTarget)'
    <3>1. /\ \A e \in Queued(SendTarget) : current[SendTarget] < e
          /\ \A h \in handled : arrivals[h].group = SendTarget =>
                /\ current[SendTarget] # NoEvent => h < current[SendTarget]
                /\ \A e \in Queued(SendTarget) : h < e
      BY <2>1 DEF GroupFifo, InOrder
    <3>2. \A e \in Queued(SendTarget)' : current'[SendTarget] < e
      BY <2>1, <2>3, <3>1
    <3>3. \A h \in handled' : arrivals'[h].group = SendTarget =>
            /\ current'[SendTarget] # NoEvent => h < current'[SendTarget]
            /\ \A e \in Queued(SendTarget)' : h < e
      BY <2>1, <2>3, <3>1
    <3>. QED BY <2>1, <2>4, <3>2, <3>3 DEF InOrder
  <2>6. \A h \in Group \ {SendTarget} : InOrder(h)'
    BY <2>1 DEF GroupFifo, InOrder
  <2>. QED BY <2>1, <2>5, <2>6 DEF GroupFifo
<1>3. CASE SendFails
  BY <1>3, SendFailsMoves DEF GroupFifo, InOrder
<1>4. CASE Shutdown
  BY <1>4 DEF Shutdown, Queued, GroupFifo, InOrder
<1>5. ASSUME NEW g \in Group, Recv(g) PROVE GroupFifo'
  <2>1. /\ queue[g] \in Seq(Event) /\ queue[g] # <<>>
        /\ current'[g] = Head(queue[g]) /\ queue'[g] = Tail(queue[g])
        /\ \A h \in Group \ {g} : /\ current'[h] = current[h]
                                  /\ queue'[h] = queue[h]
                                  /\ Queued(h)' = Queued(h)
        /\ Queued(g) = Queued(g)' \cup {current'[g]}
        /\ UNCHANGED <<arrivals, handled>>
    BY <1>5, RecvMoves
  <2>2. \A i, j \in DOMAIN queue[g] : i < j => queue[g][i] < queue[g][j]
    BY DEF GroupFifo, InOrder
  <2>3. \A i, j \in DOMAIN queue'[g] : i < j => queue'[g][i] < queue'[g][j]
    BY <2>1, <2>2, TailFacts
  <2>4. \A i \in DOMAIN queue'[g] : current'[g] < queue'[g][i]
    BY <2>1, <2>2, TailFacts
  <2>5. \A e \in Queued(g)' : current'[g] < e
    BY <2>4 DEF Queued, ToSet
  <2>6. \A h \in handled' : arrivals'[h].group = g =>
            h < current'[g] /\ \A e \in Queued(g)' : h < e
    BY <2>1 DEF GroupFifo, InOrder
  <2>7. InOrder(g)'
    BY <2>1, <2>3, <2>5, <2>6 DEF InOrder
  <2>8. \A h \in Group \ {g} : InOrder(h)'
    BY <2>1 DEF GroupFifo, InOrder
  <2>. QED BY <2>7, <2>8 DEF GroupFifo
<1>6. ASSUME NEW g \in Group, RecvNone(g) \/ IdleTimeout(g) PROVE GroupFifo'
  BY <1>6, QuietMoves DEF GroupFifo, InOrder
<1>7. ASSUME NEW g \in Group, IdleExit(g) PROVE GroupFifo'
  <2>1. DOMAIN queue'[g] = {} /\ Queued(g)' = {}
    BY <1>7, IdleExitMoves
  <2>. QED BY <1>7, <2>1, IdleExitMoves DEF GroupFifo, InOrder
<1>8. ASSUME NEW g \in Group, AcquirePermit(g) PROVE GroupFifo'
  BY <1>8, AcquireMoves DEF GroupFifo, InOrder
<1>9. ASSUME NEW g \in Group, HandlerReturns(g) PROVE GroupFifo'
  <2>1. /\ \A h \in Group : Queued(h)' = Queued(h)
        /\ handled' = handled \cup {current[g]}
        /\ current[g] # NoEvent /\ current'[g] = NoEvent
        /\ \A h \in Group \ {g} : current'[h] = current[h]
        /\ UNCHANGED <<arrivals, queue>>
    BY <1>9, HandlerReturnsMoves
  <2>2. arrivals[current[g]].group = g
    BY <2>1 DEF OnePlace, OnItsWay
  <2>3. \A e \in Queued(g) : e > 0
    BY <1>0 DEF Arrived
  <2>4. \A e \in Queued(g) : current'[g] < e
    BY <2>1, <2>3 DEF NoEvent
  <2>5. \A h \in Group : h # g => \A x \in handled' :
           arrivals'[x].group = h => x \in handled
    BY <2>1, <2>2
  <2>6. \A x \in handled' : arrivals'[x].group = g =>
            \A e \in Queued(g)' : x < e
    BY <2>1 DEF GroupFifo, InOrder
  <2>. QED BY <2>1, <2>4, <2>5, <2>6 DEF GroupFifo, InOrder
<1>10. CASE UNCHANGED vars
  BY <1>10 DEF vars, Queued, GroupFifo, InOrder
<1>. QED
  BY <1>1, <1>2, <1>3, <1>4, <1>5, <1>6, <1>7, <1>8, <1>9, <1>10 DEF Next, Worker

\* No step makes an event disappear.
LEMMA StepNoneVanishes ==
    TypeOK /\ WorkersKnown /\ NoneVanishes /\ [Next]_vars => NoneVanishes'
<1>. SUFFICES ASSUME TypeOK, WorkersKnown, NoneVanishes, [Next]_vars
              PROVE  NoneVanishes'
  OBVIOUS
<1>. USE DEF NoneVanishes, Started
<1>1. ASSUME NEW s \in Source, Enqueue(s) PROVE NoneVanishes'
  <2>1. /\ Arrived' = Arrived \cup {InSend'} /\ Waiting' = Waiting \cup {InSend'}
        /\ Running' = Running /\ UNCHANGED <<handled, lost>>
    BY <1>1, EnqueueMoves
  <2>. QED BY <2>1
<1>2. CASE SendOk
  BY <1>2, SendOkMoves, ArrivalsFixed
<1>3. CASE SendFails
  BY <1>3, SendFailsMoves, ArrivalsFixed
<1>4. CASE Shutdown
  BY <1>4, ShutdownMoves, ArrivalsFixed
<1>5. ASSUME NEW g \in Group, Recv(g) PROVE NoneVanishes'
  BY <1>5, RecvMoves, ArrivalsFixed
<1>6. ASSUME NEW g \in Group, RecvNone(g) \/ IdleTimeout(g) PROVE NoneVanishes'
  BY <1>6, QuietMoves, ArrivalsFixed
<1>7. ASSUME NEW g \in Group, IdleExit(g) PROVE NoneVanishes'
  BY <1>7, IdleExitMoves, ArrivalsFixed
<1>8. ASSUME NEW g \in Group, AcquirePermit(g) PROVE NoneVanishes'
  BY <1>8, AcquireMoves, ArrivalsFixed
<1>9. ASSUME NEW g \in Group, HandlerReturns(g) PROVE NoneVanishes'
  BY <1>9, HandlerReturnsMoves, ArrivalsFixed
<1>10. CASE UNCHANGED vars
  BY <1>10, ArrivalsFixed
     DEF vars, Sending, Queued, AwaitingPermit, Handling, Waiting, Running
<1>. QED
  BY <1>1, <1>2, <1>3, <1>4, <1>5, <1>6, <1>7, <1>8, <1>9, <1>10 DEF Next, Worker

-----------------------------------------------------------------------------
(* Routing of later events of a source.                                    *)

\* At the start no event waits.
LEMMA InitSticky == Init => Sticky
BY DEF Init, Sticky, Arrived

\* A source whose event waits in its own group is not sent to another.
LEMMA StepSticky ==
    TypeOK /\ WorkersKnown /\ OnePlace /\ Sticky /\ [Next]_vars => Sticky'
<1>. SUFFICES ASSUME TypeOK, WorkersKnown, OnePlace, Sticky, [Next]_vars
              PROVE  Sticky'
  OBVIOUS
\* Only an arrival adds a waiting event.
<1>0. ASSUME UNCHANGED arrivals, Waiting' \subseteq Waiting
      PROVE  Sticky'
  BY <1>0, ArrivalsFixed DEF Sticky
<1>1. ASSUME NEW s \in Source, Enqueue(s) PROVE Sticky'
  <2>. DEFINE kept == {h \in senders : ~Closed(h)}
              g == BoundedGroup(ResolveGroup(s), kept)
  <2>1. /\ Arrived' = Arrived \cup {InSend'}
        /\ InSend' \notin Arrived
        /\ InSend' \in Event
        /\ \A e \in Arrived : arrivals'[e] = arrivals[e] /\ e < InSend'
        /\ arrivals'[InSend'] = [source |-> s, group |-> g]
        /\ Sending = {}
        /\ Waiting' = Waiting \cup {InSend'}
    BY <1>1, EnqueueMoves
  <2>2. arrivals'[InSend'].group = g /\ arrivals'[InSend'].source = s
    BY <2>1
  <2>3. g \in {Overflow, ResolveGroup(s)}
    BY DEF BoundedGroup
  <2>4. ResolveGroup(s) \in kept => g = ResolveGroup(s)
    BY DEF BoundedGroup
  \* A waiting event keeps its group's sender in the map.
  <2>5. ASSUME NEW e \in Arrived, e \in Waiting
        PROVE  arrivals[e].group \in kept
    <3>1. PICK h \in Group : e \in Queued(h) \/ (worker[h] = "permit" /\ e = current[h])
      BY <2>1, <2>5 DEF Waiting, AwaitingPermit
    <3>2. Live(h)
      BY <3>1, ToSetEmpty DEF WorkersKnown, Queued, Live
    <3>3. h \in senders /\ ~Closed(h)
      BY <1>1, <3>2 DEF WorkersKnown, Enqueue, Live, Closed
    <3>4. arrivals[e].group = h
      BY <3>1 DEF OnePlace, OnItsWay, WorkersKnown
    <3>. QED BY <3>3, <3>4
  <2>. HIDE DEF g, kept
  <2>6. ASSUME NEW e \in Arrived, e \in Waiting, arrivals[e].source = s
        PROVE  \/ arrivals[e].group = g
               \/ arrivals[e].group = Overflow /\ g = ResolveGroup(s)
    <3>1. arrivals[e].group \in {Overflow, ResolveGroup(s)} /\ arrivals[e].group \in kept
      BY <2>5, <2>6 DEF Sticky
    <3>. QED BY <2>3, <2>4, <3>1
  <2>7. \A e \in Arrived' :
           arrivals'[e].group \in {Overflow, ResolveGroup(arrivals'[e].source)}
    BY <2>1, <2>2, <2>3 DEF Sticky
  <2>8. ASSUME NEW e \in Arrived', NEW f \in Arrived', e < f, e \in Waiting',
               arrivals'[e].source = arrivals'[f].source
        PROVE  \/ arrivals'[e].group = arrivals'[f].group
               \/ /\ arrivals'[e].group = Overflow
                  /\ arrivals'[f].group = ResolveGroup(arrivals'[f].source)
    <3>1. e # InSend'
      <4>1. f <= InSend' /\ f \in Int /\ e \in Int
        BY <2>1 DEF Arrived, Event
      <4>. QED BY <2>1, <2>8, <4>1 DEF Event
    <3>2. e \in Arrived /\ e \in Waiting /\ arrivals'[e] = arrivals[e]
      BY <2>1, <2>8, <3>1
    <3>3. CASE f \in Arrived
      BY <2>1, <2>8, <3>2, <3>3 DEF Sticky
    <3>4. CASE f = InSend'
      BY <2>2, <2>6, <2>8, <3>2, <3>4
    <3>. QED BY <2>1, <3>3, <3>4
  <2>. QED BY <2>7, <2>8 DEF Sticky
<1>2. CASE SendOk
  BY <1>0, <1>2, SendOkMoves
<1>3. CASE SendFails
  BY <1>0, <1>3, SendFailsMoves
<1>4. CASE Shutdown
  BY <1>0, <1>4, ShutdownMoves
<1>5. ASSUME NEW g \in Group, Recv(g) PROVE Sticky'
  BY <1>0, <1>5, RecvMoves
<1>6. ASSUME NEW g \in Group, RecvNone(g) \/ IdleTimeout(g) PROVE Sticky'
  BY <1>0, <1>6, QuietMoves
<1>7. ASSUME NEW g \in Group, IdleExit(g) PROVE Sticky'
  BY <1>0, <1>7, IdleExitMoves
<1>8. ASSUME NEW g \in Group, AcquirePermit(g) PROVE Sticky'
  BY <1>0, <1>8, AcquireMoves
<1>9. ASSUME NEW g \in Group, HandlerReturns(g) PROVE Sticky'
  BY <1>0, <1>9, HandlerReturnsMoves
<1>10. CASE UNCHANGED vars
  <2>1. Waiting' = Waiting
    BY <1>10 DEF vars, Sending, InSend, Queued, AwaitingPermit, Waiting
  <2>. QED BY <1>0, <1>10, <2>1 DEF vars
<1>. QED
  BY <1>1, <1>2, <1>3, <1>4, <1>5, <1>6, <1>7, <1>8, <1>9, <1>10 DEF Next, Worker

-----------------------------------------------------------------------------
(* Permits and groups, counted.                                            *)

\* Only finitely many handlers run: one for each of finitely many groups.
LEMMA HandlingFinite == IsFiniteSet(Handling) /\ Cardinality(Handling) \in Nat
BY GroupAssumption, FS_Subset, FS_CardinalityType DEF Handling

\* At the start all permits are there and no handler runs.
LEMMA InitPermits == Init => PermitsConserved
<1>. SUFFICES ASSUME Init PROVE PermitsConserved
  OBVIOUS
<1>1. Handling = {}
  BY DEF Init, Handling
<1>2. Cardinality(Handling) = 0
  BY <1>1, FS_EmptySet
<1>. QED BY <1>2, LimitsAssumption DEF Init, PermitsConserved

\* A permit is taken when a handler starts and given back when it returns.
LEMMA StepPermits ==
    TypeOK /\ WorkersKnown /\ PermitsConserved /\ [Next]_vars => PermitsConserved'
<1>. SUFFICES ASSUME TypeOK, WorkersKnown, PermitsConserved, [Next]_vars
              PROVE  PermitsConserved'
  OBVIOUS
<1>0. permits \in Nat /\ IsFiniteSet(Handling) /\ Cardinality(Handling) \in Nat
  BY HandlingFinite DEF TypeOK
<1>1. ASSUME NEW s \in Source, Enqueue(s) PROVE PermitsConserved'
  BY <1>1, EnqueueMoves DEF PermitsConserved
<1>2. CASE SendOk
  BY <1>2, SendOkMoves DEF PermitsConserved
<1>3. CASE SendFails
  BY <1>3, SendFailsMoves DEF PermitsConserved
<1>4. CASE Shutdown
  BY <1>4 DEF Shutdown, Handling, PermitsConserved
<1>5. ASSUME NEW g \in Group, Recv(g) PROVE PermitsConserved'
  BY <1>5, RecvMoves DEF PermitsConserved
<1>6. ASSUME NEW g \in Group, RecvNone(g) \/ IdleTimeout(g) PROVE PermitsConserved'
  <2>1. permits' = permits /\ Handling' = Handling
    BY <1>6, QuietMoves
  <2>. QED BY <2>1 DEF PermitsConserved
<1>7. ASSUME NEW g \in Group, IdleExit(g) PROVE PermitsConserved'
  <2>1. permits' = permits /\ Handling' = Handling
    BY <1>7, IdleExitMoves
  <2>. QED BY <2>1 DEF PermitsConserved
<1>8. ASSUME NEW g \in Group, AcquirePermit(g) PROVE PermitsConserved'
  <2>1. /\ permits > 0 /\ permits' = permits - 1
        /\ g \notin Handling /\ Handling' = Handling \cup {g}
    BY <1>8, AcquireMoves
  <2>2. Cardinality(Handling') = Cardinality(Handling) + 1
    BY <1>0, <2>1, FS_AddElement
  <2>. QED BY <1>0, <2>1, <2>2 DEF PermitsConserved
<1>9. ASSUME NEW g \in Group, HandlerReturns(g) PROVE PermitsConserved'
  <2>1. /\ permits' = permits + 1
        /\ g \in Handling /\ Handling' = Handling \ {g}
    BY <1>9, HandlerReturnsMoves
  <2>2. Cardinality(Handling') = Cardinality(Handling) - 1
    BY <1>0, <2>1, FS_RemoveElement
  <2>. QED BY <1>0, <2>1, <2>2 DEF PermitsConserved
<1>10. CASE UNCHANGED vars
  BY <1>10 DEF vars, Handling, PermitsConserved
<1>. QED
  BY <1>1, <1>2, <1>3, <1>4, <1>5, <1>6, <1>7, <1>8, <1>9, <1>10 DEF Next, Worker

\* At the start there is no group.
LEMMA InitGroupsBounded == Init => GroupsBounded
<1>. SUFFICES ASSUME Init PROVE GroupsBounded
  OBVIOUS
<1>1. senders \ {Overflow} = {} /\ {g \in Group : Live(g)} \ {Overflow} = {}
  BY DEF Init, Live
<1>2. Cardinality({}) = 0
  BY FS_EmptySet
<1>. QED BY <1>1, <1>2, LimitsAssumption DEF GroupsBounded

\* A step that spawns no worker and adds no sender.
LEMMA ShrinkGroupsBounded ==
    ASSUME TypeOK, GroupsBounded, senders' \subseteq senders,
           \A g \in Group : Live(g)' => Live(g)
    PROVE  GroupsBounded'
<1>. DEFINE L == {g \in Group : Live(g)} \ {Overflow}
            S == senders \ {Overflow}
<1>1. L' \in SUBSET L /\ S' \in SUBSET S
  OBVIOUS
<1>2. IsFiniteSet(L) /\ IsFiniteSet(S)
  BY GroupAssumption, FS_Subset DEF TypeOK
<1>3. Cardinality(L') <= Cardinality(L) /\ Cardinality(S') <= Cardinality(S)
  BY <1>1, <1>2, FS_Subset
<1>4. Cardinality(L) \in Nat /\ Cardinality(S) \in Nat
      /\ Cardinality(L') \in Nat /\ Cardinality(S') \in Nat
  BY <1>1, <1>2, FS_Subset, FS_CardinalityType
<1>5. Cardinality(L) <= MaxGroups /\ Cardinality(S) <= MaxGroups
  BY DEF GroupsBounded
<1>6. Cardinality(L') <= MaxGroups /\ Cardinality(S') <= MaxGroups
  BY <1>3, <1>4, <1>5, LimitsAssumption
<1>. QED BY <1>6 DEF GroupsBounded

\* A group is only added below the limit, or is the overflow group.
LEMMA StepGroupsBounded ==
    TypeOK /\ WorkersKnown /\ GroupsBounded /\ [Next]_vars => GroupsBounded'
<1>. SUFFICES ASSUME TypeOK, WorkersKnown, GroupsBounded, [Next]_vars
              PROVE  GroupsBounded'
  OBVIOUS
<1>1. ASSUME NEW s \in Source, Enqueue(s) PROVE GroupsBounded'
  <2>. DEFINE kept == {h \in senders : ~Closed(h)}
              g == BoundedGroup(ResolveGroup(s), kept)
              L == {h \in Group : Live(h)} \ {Overflow}
  <2>1. g \in Group
    BY BoundedGroupType
  <2>2. /\ listener = "select"
        /\ senders' = kept \cup {g}
        /\ worker' = [worker EXCEPT ![g] = IF g \in kept THEN @ ELSE "recv"]
    BY <1>1 DEF Enqueue
  <2>3. g \in kept \/ g = Overflow \/ Cardinality(kept) < MaxGroups
    <3>1. IsFiniteSet(kept)
      BY GroupAssumption, FS_Subset DEF TypeOK
    <3>2. Cardinality(kept) \in Nat
      BY <3>1, FS_CardinalityType
    <3>. QED BY <3>2, LimitsAssumption DEF BoundedGroup
  <2>4. IsFiniteSet(kept) /\ IsFiniteSet(senders) /\ kept \subseteq senders
    BY GroupAssumption, FS_Subset DEF TypeOK
  <2>. HIDE DEF g, kept
  <2>5. Cardinality((kept \cup {g}) \ {Overflow}) <= MaxGroups
    <3>1. CASE g \in kept \/ g = Overflow
      <4>1. (kept \cup {g}) \ {Overflow} \in SUBSET (senders \ {Overflow})
        BY <2>4, <3>1
      <4>2. IsFiniteSet(senders \ {Overflow})
        BY <2>4, FS_RemoveElement
      <4>3. Cardinality((kept \cup {g}) \ {Overflow}) <= Cardinality(senders \ {Overflow})
        BY <4>1, <4>2, FS_Subset
      <4>4. /\ Cardinality((kept \cup {g}) \ {Overflow}) \in Nat
            /\ Cardinality(senders \ {Overflow}) \in Nat
        BY <4>1, <4>2, FS_Subset, FS_CardinalityType
      <4>. QED BY <4>3, <4>4, LimitsAssumption DEF GroupsBounded
    <3>2. CASE Cardinality(kept) < MaxGroups
      <4>1. /\ IsFiniteSet(kept \cup {g})
            /\ Cardinality(kept \cup {g}) <= Cardinality(kept) + 1
            /\ Cardinality(kept) \in Nat
        BY <2>4, FS_AddElement, FS_CardinalityType
      <4>2. (kept \cup {g}) \ {Overflow} \in SUBSET (kept \cup {g})
        OBVIOUS
      <4>3. /\ Cardinality((kept \cup {g}) \ {Overflow}) <= Cardinality(kept \cup {g})
            /\ Cardinality((kept \cup {g}) \ {Overflow}) \in Nat
            /\ Cardinality(kept \cup {g}) \in Nat
        BY <4>1, <4>2, FS_Subset, FS_CardinalityType
      <4>. QED BY <3>2, <4>1, <4>3, LimitsAssumption
    <3>. QED BY <2>3, <3>1, <3>2
  <2>6. L' \in SUBSET (senders' \ {Overflow})
    BY <2>1, <2>2 DEF TypeOK, WorkersKnown, Live, Closed, kept
  <2>7. /\ IsFiniteSet(senders' \ {Overflow})
        /\ Cardinality(senders' \ {Overflow}) <= MaxGroups
    BY <2>2, <2>4, <2>5, FS_AddElement, FS_RemoveElement
  <2>8. Cardinality(L') <= Cardinality(senders' \ {Overflow})
        /\ Cardinality(L') \in Nat /\ Cardinality(senders' \ {Overflow}) \in Nat
    BY <2>6, <2>7, FS_Subset, FS_CardinalityType
  <2>9. Cardinality(L') <= MaxGroups
    BY <2>7, <2>8, LimitsAssumption
  <2>. QED BY <2>7, <2>9 DEF GroupsBounded
<1>2. CASE SendOk \/ SendFails \/ UNCHANGED vars
  BY <1>2, ShrinkGroupsBounded DEF SendOk, SendFails, vars, Live
<1>3. CASE Shutdown
  BY <1>3, ShrinkGroupsBounded DEF Shutdown, Live
<1>4. ASSUME NEW g \in Group, Worker(g) PROVE GroupsBounded'
  <2>1. senders' = senders
    BY <1>4 DEF Worker, Recv, RecvNone, IdleTimeout, IdleExit, AcquirePermit,
                HandlerReturns
  <2>2. \A h \in Group : Live(h)' => Live(h)
    BY <1>4 DEF Worker, Recv, RecvNone, IdleTimeout, IdleExit, AcquirePermit,
                HandlerReturns, TypeOK, Live
  <2>. QED BY <2>1, <2>2, ShrinkGroupsBounded
<1>. QED BY <1>1, <1>2, <1>3, <1>4 DEF Next

-----------------------------------------------------------------------------
(* The theorems.                                                           *)

\* IInv holds in every reachable state: it holds initially, and every step of
\* enqueue and of the workers preserves it.
THEOREM InductiveInvariant == Spec => []IInv
<1>1. Init => IInv
  BY InitType, InitWorkersKnown, InitOnePlace, InitSticky, InitPermits,
     InitGroupsBounded DEF IInv
<1>2. IInv /\ [Next]_vars => IInv'
  BY StepType, StepWorkersKnown, StepOnePlace, StepGroupFifo, StepNoneVanishes,
     StepSticky, StepPermits, StepGroupsBounded DEF IInv
<1>. QED BY <1>1, <1>2, PTL DEF Spec

\* The types of the queues, workers and permits, with every channel within its
\* capacity (routing_queue.rs, RoutingQueueManager).
THEOREM TypeCorrect == Spec => []TypeOK
<1>1. IInv => TypeOK
  BY DEF IInv
<1>. QED BY <1>1, InductiveInvariant, PTL

\* Free permits and running handlers always add up to the configured global
\* concurrency, so the cap is never exceeded and no permit leaks.
THEOREM GlobalConcurrency == Spec => []PermitsConserved
<1>1. IInv => PermitsConserved
  BY DEF IInv
<1>. QED BY <1>1, InductiveInvariant, PTL

\* Neither the sender map nor the set of live worker tasks outgrows max_groups,
\* the overflow group not counted.
THEOREM GroupsStayBounded == Spec => []GroupsBounded
<1>1. IInv => GroupsBounded
  BY DEF IInv
<1>. QED BY <1>1, InductiveInvariant, PTL

\* Events of a source start in their order of arrival, unless the earlier one
\* was diverted to the overflow group and the later one was not.
THEOREM SourceOrder == Spec => []OnlyOverflowIsOvertaken
<1>1. IInv => OnlyOverflowIsOvertaken
  <2>. SUFFICES ASSUME IInv, NEW e \in Arrived, NEW f \in Arrived,
                       e < f,
                       arrivals[e].source = arrivals[f].source,
                       f \in Started,
                       e \notin Started \cup lost
                PROVE  /\ arrivals[e].group = Overflow
                       /\ arrivals[f].group = ResolveGroup(arrivals[f].source)
    BY DEF OnlyOverflowIsOvertaken
  <2>1. e \in Waiting
    BY DEF IInv, NoneVanishes
  <2>2. arrivals[e].group # arrivals[f].group
    <3>. SUFFICES ASSUME arrivals[e].group = arrivals[f].group
                  PROVE  FALSE
      OBVIOUS
    <3>1. e \in Nat /\ f \in Nat /\ e < f /\ e <= Len(arrivals) /\ f <= Len(arrivals)
      BY DEF Arrived, IInv, TypeOK
    \* Where f is: in g's handler, or behind it.
    <3>2. PICK g \in Group : /\ arrivals[f].group = g
                             /\ \A d \in Queued(g) : f < d
                             /\ current[g] # NoEvent => f <= current[g]
      <4>1. CASE f \in Running
        <5>1. PICK g \in Group : worker[g] = "handler" /\ f = current[g]
          BY <4>1 DEF Running, Handling
        <5>2. current[g] # NoEvent
          BY <5>1 DEF IInv, WorkersKnown
        <5>3. arrivals[f].group = g
          BY <5>1, <5>2 DEF IInv, OnePlace, OnItsWay
        <5>4. \A d \in Queued(g) : f < d
          BY <5>1 DEF IInv, GroupFifo, InOrder
        <5>. QED BY <3>1, <5>1, <5>3, <5>4
      <4>2. CASE f \in handled
        <5>0. arrivals[f] \in Arrival
          BY DEF IInv, TypeOK, Arrived
        <5>1. arrivals[f].group \in Group
          BY <5>0 DEF Arrival
        <5>2. /\ current[arrivals[f].group] # NoEvent => f < current[arrivals[f].group]
              /\ \A d \in Queued(arrivals[f].group) : f < d
          BY <4>2, <5>1 DEF IInv, GroupFifo, InOrder
        <5>3. current[arrivals[f].group] \in Event \cup {NoEvent}
          BY <5>1 DEF IInv, TypeOK
        <5>4. current[arrivals[f].group] # NoEvent => current[arrivals[f].group] \in Nat
          BY <5>3, EventNotNone
        <5>. QED BY <3>1, <5>1, <5>2, <5>4
      <4>. QED BY <4>1, <4>2 DEF Started
    <3>3. CASE e \in Sending
      BY <3>1, <3>3 DEF Sending, InSend
    <3>4. ASSUME NEW h \in Group, e \in Queued(h) PROVE FALSE
      BY <3>1, <3>2, <3>4 DEF IInv, OnePlace, OnItsWay
    <3>5. ASSUME NEW h \in AwaitingPermit, e = current[h] PROVE FALSE
      <4>1. h \in Group /\ worker[h] = "permit" /\ current[h] # NoEvent
        BY <3>5 DEF AwaitingPermit, IInv, WorkersKnown
      <4>2. h = g
        BY <3>2, <3>5, <4>1 DEF IInv, OnePlace, OnItsWay
      <4>. QED BY <3>1, <3>2, <3>5, <4>1, <4>2
    <3>. QED BY <2>1, <3>3, <3>4, <3>5 DEF Waiting
  <2>. QED BY <2>1, <2>2 DEF IInv, Sticky
<1>. QED BY <1>1, InductiveInvariant, PTL
-----------------------------------------------------------------------------
(* RoutingQueue implements Dispatch.                                       *)

\* No event waits, runs, is finished and is dropped at the same time: what
\* makes the four variables of Dispatch a partition.
Apart ==
    /\ Waiting \cap (Running \cup handled \cup lost) = {}
    /\ Running \cap (handled \cup lost) = {}
    /\ Waiting \cup Running \cup handled \cup lost \subseteq Arrived

\* What waits, what runs and what is done are different events.
LEMMA PlacesApart == IInv => Apart
<1>. SUFFICES ASSUME IInv PROVE Apart
  OBVIOUS
<1>. USE DEF IInv
<1>1. Sending \subseteq Arrived
  BY InSendType DEF Sending, Arrived
<1>2. \A g \in Group : Queued(g) \subseteq Arrived /\ Queued(g) \cap (handled \cup lost) = {}
  BY DEF OnePlace, OnItsWay
<1>3. \A g \in AwaitingPermit \cup Handling :
         /\ g \in Group /\ current[g] # NoEvent
         /\ OnItsWay(current[g], g)
  BY DEF AwaitingPermit, Handling, WorkersKnown, OnePlace
<1>4. Waiting \subseteq Arrived /\ Running \subseteq Arrived
  BY <1>1, <1>2, <1>3 DEF Waiting, Running, OnItsWay
<1>5. Running \cap (handled \cup lost) = {}
  BY <1>3 DEF Running, OnItsWay
<1>6. Waiting \cap (handled \cup lost) = {}
  BY <1>2, <1>3 DEF Waiting, OnItsWay, OnePlace
<1>7. ASSUME NEW e \in Waiting, NEW g \in Handling, e = current[g] PROVE FALSE
  <2>1. OnItsWay(e, g) /\ g \in Group
    BY <1>3, <1>7
  <2>2. CASE e \in Sending
    BY <2>1, <2>2 DEF OnItsWay
  <2>3. ASSUME NEW h \in Group, e \in Queued(h) PROVE FALSE
    <3>1. h = g
      BY <2>1, <2>3 DEF OnItsWay, OnePlace
    <3>2. e < e /\ e \in Nat
      BY <1>7, <2>1, <2>3, <3>1, EventNotNone
         DEF GroupFifo, InOrder, Waiting
    <3>. QED BY <3>2
  <2>4. ASSUME NEW h \in AwaitingPermit, e = current[h] PROVE FALSE
    <3>1. OnItsWay(e, h)
      BY <1>3, <2>4
    <3>2. h = g
      BY <2>1, <3>1 DEF OnItsWay
    <3>. QED BY <1>7, <2>4, <3>2 DEF AwaitingPermit, Handling
  <2>. QED BY <2>2, <2>3, <2>4 DEF Waiting
<1>8. Waiting \cap Running = {}
  BY <1>7 DEF Running
<1>. QED BY <1>4, <1>5, <1>6, <1>8 DEF Apart, OnePlace

\* Every running event has a handler of its own group, so while a permit is
\* free fewer than Concurrency events are running.
LEMMA RoomForOne ==
    ASSUME IInv, permits > 0
    PROVE  Cardinality(Running) < Concurrency
<1>. DEFINE f == [g \in Handling |-> current[g]]
            S == {current[g] : g \in Handling}
<1>1. IsFiniteSet(Handling) /\ Cardinality(Handling) \in Nat
  BY HandlingFinite
<1>2. Cardinality(Handling) < Concurrency
  BY <1>1, LimitsAssumption DEF IInv, PermitsConserved, TypeOK
<1>3. f \in Surjection(Handling, S)
  BY DEF Surjection
<1>4. IsFiniteSet(S) /\ Cardinality(S) <= Cardinality(Handling)
  BY <1>1, <1>3, FS_Surjection
<1>5. Running \subseteq S
  BY DEF Running
<1>6. /\ Cardinality(Running) <= Cardinality(S)
      /\ Cardinality(Running) \in Nat /\ Cardinality(S) \in Nat
  BY <1>4, <1>5, FS_Subset, FS_CardinalityType
<1>. QED BY <1>1, <1>2, <1>4, <1>6, LimitsAssumption

\* The instance of Dispatch counts as this module does.
LEMMA SameCardinality == \A S : D!Cardinality(S) = Cardinality(S)
BY DEF D!Cardinality, Cardinality

\* The initial states map to initial states of Dispatch.
LEMMA InitDispatch == Init => D!DInit
<1>. SUFFICES ASSUME Init PROVE D!DInit
  OBVIOUS
<1>1. \A g \in Group : Queued(g) = {}
  BY ToSetEmpty DEF Init, Queued
<1>. QED
  BY <1>1 DEF Init, D!DInit, Waiting, Running, Sending, AwaitingPermit, Handling

\* Enqueue accepts an event; a permit starts one; a returning handler finishes
\* one; a failed send, an idle worker's exit and the end of the listener's task
\* give events up; every other step is internal.
LEMMA StepDispatch ==
    IInv /\ IInv' /\ [Next]_vars => [D!DNext]_<<Waiting, Running, handled, lost>>
<1>. SUFFICES ASSUME IInv, IInv', [Next]_vars
              PROVE  [D!DNext]_<<Waiting, Running, handled, lost>>
  OBVIOUS
<1>0. Apart /\ Apart'
  BY PlacesApart, PTL
<1>a. TypeOK /\ WorkersKnown
  BY DEF IInv
<1>1. ASSUME NEW s \in Source, Enqueue(s) PROVE D!DNext
  <2>1. D!Accept(InSend')
    BY <1>0, <1>1, <1>a, EnqueueMoves DEF D!Accept, D!Accepted, Apart
  <2>. QED BY <1>1, <1>a, <2>1, EnqueueMoves DEF D!DNext
<1>2. CASE SendOk
  BY <1>2, <1>a, SendOkMoves
<1>3. CASE SendFails
  <2>1. D!GiveUp({InSend}) /\ {InSend} \in SUBSET Waiting
    BY <1>0, <1>3, <1>a, SendFailsMoves DEF D!GiveUp, Apart
  <2>. QED BY <2>1 DEF D!DNext
<1>4. CASE Shutdown
  <2>1. D!GiveUp(Sending) /\ Sending \in SUBSET Waiting
    BY <1>0, <1>4, <1>a, ShutdownMoves DEF D!GiveUp, Apart
  <2>. QED BY <2>1 DEF D!DNext
<1>5. ASSUME NEW g \in Group, Recv(g)
      PROVE  UNCHANGED <<Waiting, Running, handled, lost>>
  BY <1>5, <1>a, RecvMoves
<1>6. ASSUME NEW g \in Group, RecvNone(g) \/ IdleTimeout(g)
      PROVE  UNCHANGED <<Waiting, Running, handled, lost>>
  BY <1>6, <1>a, QuietMoves
<1>7. ASSUME NEW g \in Group, IdleExit(g) PROVE D!DNext
  <2>1. D!GiveUp(Queued(g)) /\ Queued(g) \in SUBSET Waiting
    BY <1>0, <1>7, <1>a, IdleExitMoves DEF D!GiveUp, Apart
  <2>. QED BY <2>1 DEF D!DNext
<1>8. ASSUME NEW g \in Group, AcquirePermit(g) PROVE D!DNext
  <2>1. Cardinality(Running) < Concurrency
    BY <1>8, <1>a, AcquireMoves, RoomForOne
  <2>2. D!Start(current[g]) /\ current[g] \in Event
    BY <1>0, <1>8, <1>a, <2>1, AcquireMoves, SameCardinality DEF D!Start, Apart, Waiting
  <2>. QED BY <2>2 DEF D!DNext
<1>9. ASSUME NEW g \in Group, HandlerReturns(g) PROVE D!DNext
  <2>1. D!Finish(current[g]) /\ current[g] \in Event
    BY <1>0, <1>9, <1>a, HandlerReturnsMoves DEF D!Finish, Apart, Running
  <2>. QED BY <2>1 DEF D!DNext
<1>10. CASE UNCHANGED vars
  BY <1>10 DEF vars, Waiting, Running, Sending, InSend, Queued, AwaitingPermit, Handling
<1>. QED BY <1>1, <1>2, <1>3, <1>4, <1>5, <1>6, <1>7, <1>8, <1>9, <1>10 DEF Next, Worker

\* An event is handed to a handler at most once, at most Concurrency of them at
\* a time, and what is given up was never handed to one.
THEOREM ImplementsDispatch == Spec => DispatchSpec
<1>1. Init => D!DInit
  BY InitDispatch
<1>2. IInv /\ IInv' /\ [Next]_vars => [D!DNext]_<<Waiting, Running, handled, lost>>
  BY StepDispatch
<1>. QED BY <1>1, <1>2, InductiveInvariant, PTL
     DEF Spec, DispatchSpec, D!DSpec, D!dispatchVars

-----------------------------------------------------------------------------
(* Nobody waits for everybody.                                             *)

\* A worker with something to do can do it, or waits for a permit that a handler
\* holds.
LEMMA WorkerGoesOn ==
    ASSUME IInv, NEW g \in Group, queue[g] # <<>> \/ worker[g] = "permit"
    PROVE  \E h \in Group : \/ worker[h] = "recv" /\ queue[h] # <<>>
                            \/ worker[h] = "permit" /\ permits > 0
                            \/ worker[h] \in {"handler", "idle_exit"}
<1>1. worker[g] \in {"recv", "permit", "handler", "idle_exit"}
  BY DEF IInv, TypeOK, WorkersKnown, WorkerState, Live
<1>2. CASE worker[g] # "permit"
  BY <1>1, <1>2
<1>3. CASE worker[g] = "permit" /\ permits > 0
  BY <1>3
<1>4. CASE worker[g] = "permit" /\ ~(permits > 0)
  <2>1. permits = 0
    BY <1>4 DEF IInv, TypeOK
  <2>2. Cardinality(Handling) = Concurrency /\ Concurrency # 0
    BY <2>1, HandlingFinite, LimitsAssumption DEF IInv, PermitsConserved
  <2>3. PICK h \in Group : worker[h] = "handler"
    <3>1. Handling # {}
      BY <2>2, FS_EmptySet
    <3>. QED BY <3>1 DEF Handling
  <2>. QED BY <2>3
<1>. QED BY <1>2, <1>3, <1>4

\* The listener blocked on a full channel waits for a worker that can go on or waits
\* for a permit, and whoever holds a permit waits for nobody: there is no state in
\* which accepted events are left and only the idle timer could move.
THEOREM NobodyWaitsForEverybody == Spec => []NeverStuck
<1>1. IInv => NeverStuck
  <2>. SUFFICES ASSUME IInv, Waiting # {} PROVE NeverStuck
    BY DEF NeverStuck
  <2>1. PICK e \in Event : \/ e \in Sending
                           \/ \E g \in Group : e \in Queued(g)
                           \/ \E g \in AwaitingPermit : e = current[g]
    BY DEF Waiting
  <2>2. CASE e \in Sending
    <3>1. listener = "send"
      BY <2>2 DEF Sending
    <3>2. CASE Closed(SendTarget) \/ Len(queue[SendTarget]) < Capacity
      BY <3>1, <3>2 DEF NeverStuck
    <3>3. CASE ~(Len(queue[SendTarget]) < Capacity)
      <4>1. SendTarget \in Group
        BY <3>1, InSendType DEF IInv
      <4>2. queue[SendTarget] # <<>>
        BY <3>3, LimitsAssumption
      <4>. QED BY <4>1, <4>2, WorkerGoesOn DEF NeverStuck
    <3>. QED BY <3>2, <3>3
  <2>3. CASE \E g \in Group : e \in Queued(g)
    <3>1. PICK g \in Group : e \in Queued(g)
      BY <2>3
    <3>2. queue[g] # <<>>
      BY <3>1, ToSetEmpty DEF Queued
    <3>. QED BY <3>2, WorkerGoesOn DEF NeverStuck
  <2>4. CASE \E g \in AwaitingPermit : e = current[g]
    BY <2>4, WorkerGoesOn DEF AwaitingPermit, NeverStuck
  <2>. QED BY <2>1, <2>2, <2>3, <2>4
<1>. QED BY <1>1, InductiveInvariant, PTL
=============================================================================
