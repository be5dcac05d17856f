--------------------------- MODULE Consolidation ---------------------------
(***************************************************************************)
(* The consolidation of memory after a turn (core/memory/consolidation.rs, *)
(* called by core/agent/loop_/session_persistence.rs): the turn counts the *)
(* events of its entity and spawns a task, which writes an episode to the  *)
(* memory and then the count, the entity's watermark, to a state file that *)
(* all entities share.  Later tasks with a count up to the watermark skip. *)
(*                                                                         *)
(* Of the memory there is only what is counted.  PostgreSQL counts the     *)
(* events of the entity, Markdown the entries of all its files whatever    *)
(* the entity.  Neither count only grows: events are forgotten and expire, *)
(* files are archived, and Markdown counts the temporary file of an append *)
(* with the file it is to replace.  The registry of entity locks is left   *)
(* out: it drops only locks nobody holds.                                  *)
(***************************************************************************)
EXTENDS Naturals, FiniteSets

CONSTANTS
    Entity,
    Turn,         \* turns, each of which happens once
    EntityOf,     \* [Turn -> Entity]
    MaxMishaps,   \* bound: crashes and failures of the file or the memory
    MaxSwings,    \* bound: changes of a count by what is no turn here
    MaxEvents     \* bound: the counts they leave

ASSUME TurnAssumption ==
    EntityOf \in [Turn -> Entity] /\ {MaxMishaps, MaxSwings, MaxEvents} \subseteq Nat

-----------------------------------------------------------------------------
VARIABLES
    backend,     \* the memory
    events,      \* per entity, what count_events answers
    watermarks,  \* the state file
    at,          \* per turn, where it or its task is
    checkpoint,  \* per turn, the events it counted
    state,       \* per turn, the watermarks its task loaded
    status,      \* per entity, the phase in worker_status_registry
    mishaps,     \* history: how many there were
    swings,      \* history: how many there were
    era,         \* history: per entity, how often its count has fallen
    since,       \* history: per turn, the era it counted in
    written,     \* history: the turns that have an episode
    overtaken    \* history: pairs of them, the older one with the later episode

diskVars == <<backend, events, watermarks>>
taskVars == <<at, checkpoint, state, status, mishaps>>
countVars == <<swings, era>>
historyVars == <<since, written, overtaken>>
vars == <<diskVars, taskVars, countVars, historyVars>>

Phase ==
    { "idle",      \* the turn is still to come
      "saved",     \* its events are in the memory
      "queued",    \* its task is spawned
      "running",   \* the task waits for the lock of its entity
      "entity",    \* it holds that lock and waits for the lock of the state file
      "loaded",    \* it holds both and has loaded the file
      "appended",  \* the episode is in the memory
      "consolidated", "skipped", "blank", "failed",
      "lost" }     \* the process died, or counting failed

Ended == {"consolidated", "skipped", "blank", "failed", "lost"}

NoState == [e \in Entity |-> 0]

Init ==
    /\ backend \in {"postgres", "markdown"}
    /\ events = [e \in Entity |-> 0] /\ watermarks = NoState
    /\ at = [t \in Turn |-> "idle"] /\ checkpoint = [t \in Turn |-> 0]
    /\ state = [t \in Turn |-> NoState]
    /\ status = [e \in Entity |-> "none"]
    /\ mishaps = 0 /\ swings = 0
    /\ era = [e \in Entity |-> 0] /\ since = [t \in Turn |-> 0]
    /\ written = {} /\ overtaken = {}

\* The entities whose counts an event of e is in.
CountedWith(e) == IF backend = "postgres" THEN {e} ELSE Entity

Of(e) == {t \in Turn : EntityOf[t] = e}

\* u counted no earlier than t, or nothing had been added between.  Within an
\* era the counts tell, since there they only grow.
AsRecent(u, t) ==
    \/ since[t] < since[u]
    \/ since[t] = since[u] /\ checkpoint[t] <= checkpoint[u]

\* An event of e more, or none: a refused append.
Record(e, n) ==
    events' = [d \in Entity |-> IF d \in CountedWith(e) THEN events[d] + n ELSE events[d]]

Mishap == mishaps < MaxMishaps /\ mishaps' = mishaps + 1

Go(t, phase) == at' = [at EXCEPT ![t] = phase]

\* upsert_worker_status
Report(t, phase) == status' = [status EXCEPT ![EntityOf[t]] = phase]

HoldsEntity(t) == at[t] \in {"entity", "loaded", "appended"}
HoldsState(t) == at[t] \in {"loaded", "appended"}

-----------------------------------------------------------------------------
(* The end of a turn.                                                      *)

\* save_response_and_consolidate: its appends may fail, which is only logged.
SaveResponse(t) ==
    /\ at[t] = "idle"
    /\ Go(t, "saved")
    /\ \E n \in 0 .. 1 : Record(EntityOf[t], n)
    /\ UNCHANGED <<backend, watermarks, checkpoint, state, status, mishaps, countVars>>
    /\ UNCHANGED historyVars

\* What others make of a count: they append, forget or prune events, archive a
\* file, or are about to replace one.
Others(e) ==
    /\ swings < MaxSwings
    /\ swings' = swings + 1
    /\ \E n \in (0 .. MaxEvents) \ {events[e]} :
         /\ events' = [d \in Entity |-> IF d \in CountedWith(e) THEN n ELSE events[d]]
         /\ era' = [d \in Entity |-> IF events'[d] < events[d] THEN era[d] + 1 ELSE era[d]]
    /\ UNCHANGED <<backend, watermarks, taskVars, historyVars>>

\* schedule_durable_memory_consolidation: the count is taken before the task is
\* spawned; without it there is no task.
Schedule(t) ==
    /\ at[t] = "saved"
    /\ \/ /\ Go(t, "queued")
          /\ checkpoint' = [checkpoint EXCEPT ![t] = events[EntityOf[t]]]
          /\ since' = [since EXCEPT ![t] = era[EntityOf[t]]]
          /\ Report(t, "queued")
          /\ UNCHANGED mishaps
       \/ /\ Mishap
          /\ Go(t, "lost")
          /\ UNCHANGED <<checkpoint, since, status>>
    /\ UNCHANGED <<diskVars, state, countVars, written, overtaken>>

-----------------------------------------------------------------------------
(* The task: run_consolidation.                                            *)

Run(t) ==
    /\ at[t] = "queued"
    /\ Go(t, "running")
    /\ Report(t, "running")
    /\ UNCHANGED <<diskVars, checkpoint, state, mishaps, countVars, historyVars>>

\* Neither message says anything.
SkipNoSignal(t) ==
    /\ at[t] = "running"
    /\ Go(t, "blank")
    /\ Report(t, "completed")
    /\ UNCHANGED <<diskVars, checkpoint, state, mishaps, countVars, historyVars>>

LockEntity(t) ==
    /\ at[t] = "running"
    /\ \A u \in Turn : HoldsEntity(u) => EntityOf[u] # EntityOf[t]
    /\ Go(t, "entity")
    /\ UNCHANGED <<diskVars, checkpoint, state, status, mishaps, countVars, historyVars>>

\* An error of any step ends the task and releases its locks.
Fail(t) ==
    /\ \/ HoldsState(t)
       \/ at[t] = "entity" /\ \A u \in Turn : ~HoldsState(u)
    /\ Mishap
    /\ Go(t, "failed")
    /\ Report(t, "failed")
    /\ UNCHANGED <<diskVars, checkpoint, state, countVars, historyVars>>

\* Mutation: the lock of the entity is thought to be enough.
LoadUnlocked(t) ==
    /\ at[t] = "entity"
    /\ Go(t, "loaded")
    /\ state' = [state EXCEPT ![t] = watermarks]
    /\ UNCHANGED <<diskVars, checkpoint, status, mishaps, countVars, historyVars>>

\* state_lock, load_state
LoadState(t) ==
    /\ at[t] = "entity"
    /\ \A u \in Turn : ~HoldsState(u)
    /\ Go(t, "loaded")
    /\ state' = [state EXCEPT ![t] = watermarks]
    /\ UNCHANGED <<diskVars, checkpoint, status, mishaps, countVars, historyVars>>

\* Mutation: the watermark itself may be consolidated again.
PassedBefore(n, watermark) == n < watermark

Passed(n, watermark) == n <= watermark

\* Mutation: the early return forgets the status.
SkipSilently(t) ==
    /\ at[t] = "loaded"
    /\ Passed(checkpoint[t], state[t][EntityOf[t]])
    /\ Go(t, "skipped")
    /\ UNCHANGED <<diskVars, checkpoint, state, status, mishaps, countVars, historyVars>>

SkipCheckpoint(t) ==
    /\ at[t] = "loaded"
    /\ Passed(checkpoint[t], state[t][EntityOf[t]])
    /\ Go(t, "skipped")
    /\ Report(t, "completed")
    /\ UNCHANGED <<diskVars, checkpoint, state, mishaps, countVars, historyVars>>

\* Mutation: a memory that refuses the episode is only logged.
AppendUnchecked(t) ==
    /\ at[t] = "loaded"
    /\ ~Passed(checkpoint[t], state[t][EntityOf[t]])
    /\ Mishap
    /\ Go(t, "appended")
    /\ UNCHANGED <<diskVars, checkpoint, state, status, countVars, historyVars>>

\* The episode goes to the one slot of the entity.  It is an event as well.
AppendEpisode(t) ==
    LET e == EntityOf[t] IN
    /\ at[t] = "loaded"
    /\ ~Passed(checkpoint[t], state[t][e])
    /\ Go(t, "appended")
    /\ Record(e, 1)
    /\ written' = written \cup {t}
    /\ overtaken' = overtaken \cup
                      ({t} \X {u \in written \cap Of(e) : AsRecent(u, t)})
    /\ UNCHANGED <<backend, watermarks, checkpoint, state, status, mishaps, countVars, since>>

\* save_state: a temporary file and a rename.
SaveState(t) ==
    /\ at[t] = "appended"
    /\ watermarks' = [state[t] EXCEPT ![EntityOf[t]] = checkpoint[t]]
    /\ Go(t, "consolidated")
    /\ Report(t, "completed")
    /\ UNCHANGED <<backend, events, checkpoint, state, mishaps, countVars, historyVars>>

\* The process dies, its tasks and its registry with it.
Crash ==
    /\ Mishap
    /\ at' = [t \in Turn |-> IF at[t] = "idle" \/ at[t] \in Ended THEN at[t] ELSE "lost"]
    /\ status' = [e \in Entity |-> "none"]
    /\ UNCHANGED <<diskVars, checkpoint, state, countVars, historyVars>>

-----------------------------------------------------------------------------
TaskNext(t) ==
    \/ Schedule(t) \/ Run(t) \/ SkipNoSignal(t) \/ LockEntity(t) \/ Fail(t)
    \/ LoadState(t) \/ SkipCheckpoint(t) \/ AppendEpisode(t) \/ SaveState(t)

Next ==
    \/ Crash
    \/ \E e \in Entity : Others(e)
    \/ \E t \in Turn : SaveResponse(t) \/ TaskNext(t)

Spec == Init /\ [][Next]_vars

\* Every spawned task is scheduled; the locks are fair.
FairSpec == Spec /\ \A t \in Turn : WF_vars(TaskNext(t))

-----------------------------------------------------------------------------
(* Properties.                                                             *)

\* Types; the lock of the state file has one holder, and the watermarks that one
\* has loaded are still those of the file.
TypeOK ==
    /\ backend \in {"postgres", "markdown"}
    /\ events \in [Entity -> Nat] /\ watermarks \in [Entity -> Nat]
    /\ at \in [Turn -> Phase] /\ checkpoint \in [Turn -> Nat]
    /\ state \in [Turn -> [Entity -> Nat]]
    /\ status \in [Entity -> {"none", "queued", "running", "completed", "failed"}]
    /\ mishaps \in 0 .. MaxMishaps
    /\ swings \in 0 .. MaxSwings
    /\ era \in [Entity -> Nat] /\ since \in [Turn -> Nat]
    /\ written \subseteq Turn /\ overtaken \subseteq Turn \X Turn
    /\ \A t, u \in Turn : HoldsState(t) /\ HoldsState(u) => t = u
    /\ \A t \in Turn : HoldsState(t) => state[t] = watermarks

\* A watermark never goes back: no task writes an older one of its own or of
\* another entity over it (the state file is read, changed and written as a whole).
WatermarksGrow == [][\A e \in Entity : watermarks[e] <= watermarks'[e]]_watermarks

\* No turn is consolidated over a later one or one that has counted the same,
\* though counts are taken long before the tasks run, in any order and after any
\* crash.  The exceptions: an episode whose watermark could not be saved can be
\* repeated or overtaken, and counts say nothing across a fall of the count.
EpisodesAscend ==
    \A p \in overtaken :
       LET t == p[1]
           u == p[2] IN
       at[u] = "failed" \/ since[t] < since[u]

\* A watermark that u set keeps out t, which counted after the count had fallen.
Shadowed(t, u) ==
    /\ since[u] < since[t]
    /\ checkpoint[t] <= checkpoint[u]
    /\ checkpoint[u] <= watermarks[EntityOf[t]]

\* What a finished task leaves behind is an episode at least as recent as its
\* turn, and a watermark never covers for an episode that was not written.  The
\* exception: a turn that counted after a fall of the count is skipped until
\* the count has passed the watermark again.
TurnCovered ==
    /\ \A e \in Entity :
          watermarks[e] > 0 => \E u \in written \cap Of(e) : checkpoint[u] = watermarks[e]
    /\ \A t \in Turn :
          at[t] \in {"consolidated", "skipped"} /\ checkpoint[t] > 0
             => \E u \in written \cap Of(EntityOf[t]) :
                   AsRecent(u, t) \/ (at[t] = "skipped" /\ Shadowed(t, u))

\* The status shown for an entity does not stay at queued or running: its tasks
\* all end, in whatever order, and each says so.
StatusSettles ==
    \A e \in Entity :
       status[e] \in {"queued", "running"} ~> status[e] \notin {"queued", "running"}
=============================================================================
