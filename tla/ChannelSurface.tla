--------------------------- MODULE ChannelSurface ---------------------------
(***************************************************************************)
(* transport/channels/startup/listener.rs and coalescer.rs: the channel    *)
(* surface from its listeners to enqueue.                                  *)
(*                                                                         *)
(* Listener tasks send events into one bounded channel.  The surface's     *)
(* loop selects between the coalescer's next event and a reload request.   *)
(* The coalescer merges successive messages of one key for a while; being  *)
(* a branch of select!, it is dropped with what it has collected whenever  *)
(* the reload branch completes first.  A reload that could load its config *)
(* ends this generation of the surface and starts the next one.  What the  *)
(* routing queues do with the batches is added by ChannelRuntime.  Left    *)
(* out is the end of the daemon or of this component, whose task is then   *)
(* aborted wherever it is and takes all it holds with it.                  *)
(***************************************************************************)
EXTENDS SequencesExt

CONSTANTS
    Key,          \* coalescing keys of the events that may arrive
    Single,       \* those of cli messages and of events that are no messages
    MaxMerge,     \* coalescing_max_messages; 1 also stands for a zero window
    RxCapacity,   \* capacity of the mpsc channel, 100 in the code
    MaxArrivals,  \* bound: how many events the listeners send
    MaxReloads    \* bound: how many reloads are requested

\* from_config raises max_messages to at least 1.
ASSUME SurfaceAssumption ==
    /\ Single \subseteq Key
    /\ MaxMerge \in Nat \ {0}
    /\ RxCapacity \in Nat \ {0}
    /\ MaxArrivals \in Nat
    /\ MaxReloads \in Nat

Message == [n : 1 .. MaxArrivals, key : Key]

-----------------------------------------------------------------------------
VARIABLES
    arrived,   \* history: how many events the listeners sent
    rx,        \* the mpsc channel of the running generation
    pending,   \* MessageCoalescer.pending
    merged,    \* the messages collect_within_window has merged so far
    at,        \* where the surface's task is
    asked,     \* history: how many reloads were requested
    requests,  \* requests the task's broadcast receiver has not seen
    gen,       \* generation of the surface
    batches,   \* history: what enqueue was given, and by which generation
    lost       \* history: events no enqueue was given

loopVars == <<rx, pending, merged, at>>
reloadVars == <<asked, requests, gen>>
vars == <<arrived, loopVars, reloadVars, batches, lost>>

Place ==
    { "select",    \* in select!, nothing collected
      "collect",   \* in select!, inside collect_within_window
      "enqueue",   \* awaits enqueue
      "stop",      \* awaits the aborted listener tasks
      "start" }    \* init_channel_runtime of the next generation

Init ==
    /\ arrived = 0
    /\ rx = <<>> /\ pending = <<>> /\ merged = <<>>
    /\ at = "start"
    /\ asked = 0 /\ requests = 0
    /\ gen = 1
    /\ batches = <<>>
    /\ lost = {}

-----------------------------------------------------------------------------
\* The listeners of a generation are spawned before its loop begins.
StartSurface ==
    /\ at = "start"
    /\ at' = "select"
    /\ UNCHANGED <<arrived, rx, pending, merged, reloadVars, batches, lost>>

\* A listener's tx.send.  An aborted listener may still be in the middle of one.
Send(k) ==
    /\ at # "start"
    /\ arrived < MaxArrivals
    /\ Len(rx) < RxCapacity
    /\ arrived' = arrived + 1
    /\ rx' = Append(rx, [n |-> arrived + 1, key |-> k])
    /\ UNCHANGED <<pending, merged, at, reloadVars, batches, lost>>

-----------------------------------------------------------------------------
(* next_event.                                                             *)

Waits == pending \o rx

\* Mutation: the candidate is read from the front of pending and left there.
TakeCandidatePeeking ==
    IF pending # <<>> THEN UNCHANGED <<pending, rx>>
                      ELSE rx' = Tail(rx) /\ UNCHANGED pending

\* pending.pop_front(), or else rx.recv().
TakeCandidate ==
    IF pending # <<>> THEN pending' = Tail(pending) /\ UNCHANGED rx
                      ELSE rx' = Tail(rx) /\ UNCHANGED pending

\* next_event is ready: its batch goes to the queue manager.
Hand(batch) ==
    /\ at' = "enqueue"
    /\ merged' = <<>>
    /\ batches' = Append(batches, [gen |-> gen, events |-> batch])

\* The first event: it is ready at once, or messages like it are awaited.
TakeBase ==
    /\ at = "select"
    /\ Waits # <<>>
    /\ TakeCandidate
    /\ IF Head(Waits).key \in Single \/ MaxMerge = 1
       THEN Hand(<<Head(Waits)>>)
       ELSE at' = "collect" /\ merged' = <<Head(Waits)>> /\ UNCHANGED batches
    /\ UNCHANGED <<arrived, reloadVars, lost>>

Matches == Head(Waits).key = merged[1].key

\* Mutation: one message too many.
MergeOneTooMany ==
    /\ at = "collect"
    /\ Waits # <<>> /\ Matches
    /\ TakeCandidate
    /\ IF Len(merged) < MaxMerge
       THEN /\ merged' = Append(merged, Head(Waits))
            /\ UNCHANGED <<at, batches>>
       ELSE Hand(Append(merged, Head(Waits)))
    /\ UNCHANGED <<arrived, reloadVars, lost>>

\* A message of the same key joins, up to the limit.
Merge ==
    /\ at = "collect"
    /\ Waits # <<>> /\ Matches
    /\ TakeCandidate
    /\ IF Len(merged) + 1 < MaxMerge
       THEN /\ merged' = Append(merged, Head(Waits))
            /\ UNCHANGED <<at, batches>>
       ELSE Hand(Append(merged, Head(Waits)))
    /\ UNCHANGED <<arrived, reloadVars, lost>>

\* Mutation: the event is sent back to the end of the channel.
SetAsideAtTheEnd ==
    /\ at = "collect"
    /\ rx # <<>> /\ pending = <<>> /\ ~Matches
    /\ rx' = Append(Tail(rx), Head(rx))
    /\ Hand(merged)
    /\ UNCHANGED <<arrived, pending, reloadVars, lost>>

\* Anything else is put aside and ends the batch.
SetAside ==
    /\ at = "collect"
    /\ Waits # <<>> /\ ~Matches
    /\ IF pending # <<>>
       THEN UNCHANGED <<pending, rx>>    \* popped and pushed back to the front
       ELSE pending' = <<Head(rx)>> /\ rx' = Tail(rx)
    /\ Hand(merged)
    /\ UNCHANGED <<arrived, reloadVars, lost>>

\* The deadline passes before another event is received.
WindowCloses ==
    /\ at = "collect"
    /\ pending = <<>>
    /\ Hand(merged)
    /\ UNCHANGED <<arrived, rx, pending, reloadVars, lost>>

\* enqueue returns: the event is in a group's channel, or dropped with it.
EnqueueReturns ==
    /\ at = "enqueue"
    /\ at' = "select"
    /\ UNCHANGED <<arrived, rx, pending, merged, reloadVars, batches, lost>>

-----------------------------------------------------------------------------
(* Reloads.                                                                *)

\* request_channel_surface_reload, from an admin route.
RequestReload ==
    /\ asked < MaxReloads
    /\ asked' = asked + 1
    /\ requests' = requests + 1
    /\ UNCHANGED <<arrived, loopVars, gen, batches, lost>>

\* Mutation: a reload, even one that fails, starts with a fresh coalescer.
ReloadWinsAfresh ==
    /\ at \in {"select", "collect"}
    /\ requests > 0
    /\ requests' = requests - 1
    /\ merged' = <<>> /\ pending' = <<>>
    /\ lost' = lost \cup ToSet(merged) \cup ToSet(pending)
    /\ UNCHANGED <<arrived, rx, asked, gen, batches>>

\* The reload branch completes first: next_event is dropped half way.
ReloadWins ==
    /\ at \in {"select", "collect"}
    /\ requests > 0
    /\ requests' = requests - 1
    /\ merged' = <<>>
    /\ lost' = lost \cup ToSet(merged)
    /\ UNCHANGED <<arrived, rx, pending, asked, gen, batches>>

\* The config cannot be loaded: a warning, and the loop goes on.
ReloadFails == ReloadWins /\ at' = "select"

\* The config is loaded: the listener tasks are aborted and awaited.
ReloadBegins == ReloadWins /\ at' = "stop"

\* Requests made meanwhile are drained; the surface returns, and its receiver
\* and coalescer are dropped with what they hold.
ReloadEnds ==
    /\ at = "stop"
    /\ requests' = 0
    /\ gen' = gen + 1
    /\ rx' = <<>> /\ pending' = <<>>
    /\ lost' = lost \cup ToSet(Waits)
    /\ at' = "start"
    /\ UNCHANGED <<arrived, merged, asked, batches>>

-----------------------------------------------------------------------------
Next ==
    \/ StartSurface
    \/ \E k \in Key : Send(k)
    \/ TakeBase
    \/ Merge
    \/ SetAside
    \/ WindowCloses
    \/ EnqueueReturns
    \/ RequestReload
    \/ ReloadFails
    \/ ReloadBegins
    \/ ReloadEnds

Spec == Init /\ [][Next]_vars

-----------------------------------------------------------------------------
(* Properties.                                                             *)

Unforwarded == merged \o Waits

\* The variables stay in their types; the queue of set-aside events, which has
\* no capacity, never holds more than one, and only between two batches.
TypeOK ==
    /\ arrived \in 0 .. MaxArrivals
    /\ rx \in Seq(Message) /\ Len(rx) <= RxCapacity
    /\ pending \in Seq(Message) /\ Len(pending) <= 1
    /\ merged \in Seq(Message)
    /\ at \in Place
    /\ at = "collect" => pending = <<>> /\ Len(merged) \in 1 .. MaxMerge - 1
    /\ at # "collect" => merged = <<>>
    /\ at = "start" => Unforwarded = <<>>
    /\ asked \in 0 .. MaxReloads
    /\ requests \in 0 .. asked
    /\ gen \in 1 .. asked + 1
    /\ batches \in Seq([gen : 1 .. MaxReloads + 1, events : Seq(Message)])
    /\ lost \subseteq Message

Forwarded == {m \in Message : \E b \in DOMAIN batches : m \in ToSet(batches[b].events)}

\* No event is skipped or made up.
AllKnown == {m.n : m \in Forwarded \cup lost \cup ToSet(Unforwarded)} = 1 .. arrived

\* What is on its way is in the order it was sent, behind all that has left.
WaitsInOrder ==
    /\ \A i, j \in DOMAIN Unforwarded : i < j => Unforwarded[i].n < Unforwarded[j].n
    /\ \A m \in Forwarded \cup lost : \A i \in DOMAIN Unforwarded : m.n < Unforwarded[i].n

\* The batches of all generations, read one after the other, ascend: an event is
\* in one batch at most, at one place.
BatchesAscend ==
    \A a, b \in DOMAIN batches :
      \A i \in DOMAIN batches[a].events, j \in DOMAIN batches[b].events :
         a < b \/ (a = b /\ i < j) => batches[a].events[i].n < batches[b].events[j].n

\* Every event that was sent is in exactly one place: in one batch, lost, or still
\* on its way.
EveryEventOnce ==
    /\ AllKnown
    /\ \A m \in Forwarded, o \in lost : m.n # o.n
    /\ WaitsInOrder
    /\ BatchesAscend

\* Events a batch may consist of: one event, or messages of one key that may be
\* merged, up to the limit.
Batch ==
    {b \in Seq(Message) :
        /\ Len(b) \in 1 .. MaxMerge
        /\ Len(b) > 1 => \A i \in DOMAIN b : b[i].key = b[1].key /\ b[i].key \notin Single}

\* The loop forwards events in order, merges only neighbours of one key, and
\* loses only the oldest ones, through every generation of the surface.
I == INSTANCE Intake WITH
        todo <- Unforwarded,
        forwarded <- [b \in DOMAIN batches |-> batches[b].events],
        gone <- lost

IntakeSpec == I!ISpec

\* The strengthening under which TypeOK, EveryEventOnce and the steps of
\* IntakeSpec are preserved.

\* The open batch is of one key that may be merged.
CollectsOneKey ==
    at = "collect" =>
      \A i \in DOMAIN merged : merged[i].key = merged[1].key /\ merged[i].key \notin Single

\* Every generation but the first, and the one that is about to begin, has
\* consumed a request.
RequestsConsumed == gen + requests + (IF at = "stop" THEN 1 ELSE 0) <= asked + 1

\* No batch is empty.
BatchesCounted == Len(batches) + Len(Unforwarded) <= arrived

SurfaceInv ==
    /\ TypeOK
    /\ CollectsOneKey
    /\ RequestsConsumed
    /\ BatchesCounted
    /\ EveryEventOnce

\* A reload that does not happen costs at most the batch that was being
\* collected; events set aside or still in the channel survive it.
FailedReloadLosesOneBatch ==
    [][gen' = gen /\ at' # "stop" =>
          /\ Cardinality(lost' \ lost) < MaxMerge
          /\ \A m, o \in lost' \ lost : m.key = o.key /\ m.key \notin Single
          /\ lost' \cap ToSet(Waits) = {}]_vars
=============================================================================
