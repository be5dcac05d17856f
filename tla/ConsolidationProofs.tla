------------------------ MODULE ConsolidationProofs ------------------------
(***************************************************************************)
(* For any turns and entities, either backend, and any number of failures, *)
(* crashes and changes of the counts: watermarks grow, and the episodes of *)
(* an entity are complete and in order as far as its watermark could be    *)
(* saved and its count has not fallen between.                             *)
(***************************************************************************)
EXTENDS Consolidation, TLAPS

-----------------------------------------------------------------------------
(* The inductive invariant.                                                *)

\* A turn whose task has been spawned and has not ended.
Pending == {"queued", "running", "entity", "loaded", "appended"}

\* The checkpoint of a turn was counted: since then its entity's count is as high,
\* unless it has fallen.
CountsBounded ==
    \A t \in Turn : LET e == EntityOf[t] IN
       /\ since[t] <= era[e]
       /\ since[t] = era[e] => checkpoint[t] <= events[e]

\* An episode is an event itself, and was counted before it was one.
EpisodesCounted ==
    \A u \in written :
       since[u] = era[EntityOf[u]] => checkpoint[u] < events[EntityOf[u]]

\* An episode comes late in the life of a task.
WrittenBegun == \A u \in written : at[u] \in {"appended", "consolidated", "failed", "lost"}

\* A task that has appended its episode is ahead of the watermark.
AppendedAhead ==
    \A t \in Turn : at[t] = "appended" =>
       watermarks[EntityOf[t]] < checkpoint[t] /\ t \in written

\* Both turns of such a pair have an episode.
OvertakenWritten == overtaken \subseteq written \X written

\* An episode ahead of the watermark is that of a task that is about to save it or
\* could not, or a crash came and what is pending was counted after it.
AheadExplained ==
    \A u \in written :
       \/ checkpoint[u] <= watermarks[EntityOf[u]]
       \/ at[u] \in {"appended", "failed"}
       \/ \A t \in Of(EntityOf[u]) :
             at[t] \in Pending /\ since[t] = since[u] => checkpoint[u] < checkpoint[t]

IInv ==
    /\ TypeOK
    /\ CountsBounded
    /\ EpisodesCounted
    /\ WrittenBegun
    /\ OvertakenWritten
    /\ AppendedAhead
    /\ AheadExplained
    /\ TurnCovered
    /\ EpisodesAscend

-----------------------------------------------------------------------------
(* Each part holds at the start and is kept.                               *)

\* The steps, as the proofs split them.
LEMMA Steps ==
    ASSUME Next
    PROVE  \/ Crash
           \/ \E e \in Entity : Others(e)
           \/ \E t \in Turn :
                 \/ SaveResponse(t) \/ Schedule(t) \/ Run(t) \/ SkipNoSignal(t)
                 \/ LockEntity(t) \/ Fail(t) \/ LoadState(t) \/ SkipCheckpoint(t)
                 \/ AppendEpisode(t) \/ SaveState(t)
BY DEF Next, TaskNext

\* The invariant holds at the start: nothing was written or counted.
LEMMA InitInv == Init => IInv
BY TurnAssumption
   DEF Init, IInv, TypeOK, CountsBounded, EpisodesCounted, WrittenBegun, OvertakenWritten,
       AppendedAhead, AheadExplained, TurnCovered, EpisodesAscend, Phase, NoState, HoldsState,
       Of

\* Types are kept, and with them that the lock of the state file is exclusive and
\* its holder knows what the file says.
LEMMA StepType == TypeOK /\ [Next]_vars => TypeOK'
<1>. SUFFICES ASSUME TypeOK, [Next]_vars PROVE TypeOK'
  OBVIOUS
<1>. USE TurnAssumption
     DEF TypeOK, Phase, HoldsState, Go, Report, Mishap, Record, diskVars, taskVars, countVars,
         historyVars
<1>1. CASE UNCHANGED vars
  BY <1>1 DEF vars
<1>2. CASE Crash
  BY <1>2 DEF Crash, Ended
<1>13. ASSUME NEW e \in Entity, Others(e) PROVE TypeOK'
  BY <1>13 DEF Others
<1>3. ASSUME NEW t \in Turn, SaveResponse(t) PROVE TypeOK'
  BY <1>3 DEF SaveResponse
<1>4. ASSUME NEW t \in Turn, Schedule(t) PROVE TypeOK'
  <2>. EntityOf[t] \in Entity /\ {events[EntityOf[t]], era[EntityOf[t]]} \subseteq Nat
    OBVIOUS
  <2>1. CASE at' = [at EXCEPT ![t] = "queued"] /\ UNCHANGED mishaps
    BY <1>4, <2>1 DEF Schedule
  <2>2. CASE at' = [at EXCEPT ![t] = "lost"] /\ UNCHANGED <<checkpoint, since, status>>
    BY <1>4, <2>2 DEF Schedule
  <2>. QED BY <1>4, <2>1, <2>2 DEF Schedule
<1>5. ASSUME NEW t \in Turn, Run(t) PROVE TypeOK'
  BY <1>5 DEF Run
<1>6. ASSUME NEW t \in Turn, SkipNoSignal(t) PROVE TypeOK'
  BY <1>6 DEF SkipNoSignal
<1>7. ASSUME NEW t \in Turn, LockEntity(t) PROVE TypeOK'
  BY <1>7 DEF LockEntity
<1>8. ASSUME NEW t \in Turn, Fail(t) PROVE TypeOK'
  BY <1>8 DEF Fail
<1>9. ASSUME NEW t \in Turn, LoadState(t) PROVE TypeOK'
  BY <1>9 DEF LoadState
<1>10. ASSUME NEW t \in Turn, SkipCheckpoint(t) PROVE TypeOK'
  BY <1>10 DEF SkipCheckpoint
<1>11. ASSUME NEW t \in Turn, AppendEpisode(t) PROVE TypeOK'
  BY <1>11 DEF AppendEpisode, Of
<1>12. ASSUME NEW t \in Turn, SaveState(t) PROVE TypeOK'
  BY <1>12 DEF SaveState
<1>. QED BY <1>1, <1>2, <1>3, <1>4, <1>5, <1>6, <1>7, <1>8, <1>9, <1>10, <1>11, <1>12,
            <1>13, Steps

\* A count falls only with a new era.
LEMMA CountsRise ==
    ASSUME TypeOK, [Next]_vars, NEW e \in Entity
    PROVE  era[e] < era'[e] \/ (era'[e] = era[e] /\ events[e] <= events'[e])
<1>. USE TurnAssumption DEF TypeOK, diskVars, countVars
<1>1. ASSUME NEW d \in Entity, Others(d)
      PROVE  era[e] < era'[e] \/ (era'[e] = era[e] /\ events[e] <= events'[e])
  BY <1>1 DEF Others
<1>2. ASSUME NEW t \in Turn, NEW n \in 0 .. 1, Record(EntityOf[t], n)
      PROVE  events[e] <= events'[e]
  BY <1>2 DEF Record
<1>3. UNCHANGED era \/ \E d \in Entity : Others(d)
  BY Steps DEF vars, Crash, SaveResponse, Schedule, Run, SkipNoSignal, LockEntity, Fail,
               LoadState, SkipCheckpoint, AppendEpisode, SaveState
<1>4. \/ UNCHANGED events
      \/ \E d \in Entity : Others(d)
      \/ \E t \in Turn : \E n \in 0 .. 1 : Record(EntityOf[t], n)
  BY Steps DEF vars, Crash, SaveResponse, Schedule, Run, SkipNoSignal, LockEntity, Fail,
               LoadState, SkipCheckpoint, AppendEpisode, SaveState
<1>. QED BY <1>1, <1>2, <1>3, <1>4

\* A step that counts anew counts for a turn whose task is not yet spawned.
LEMMA CheckpointStays ==
    ASSUME TypeOK, [Next]_vars, NEW t \in Turn
    PROVE  \/ at[t] = "saved" /\ Schedule(t)
           \/ checkpoint'[t] = checkpoint[t] /\ since'[t] = since[t]
<1>1. UNCHANGED <<checkpoint, since>> \/ \E u \in Turn : Schedule(u)
  BY Steps DEF vars, Crash, Others, SaveResponse, Run, SkipNoSignal, LockEntity, Fail, LoadState,
               SkipCheckpoint, AppendEpisode, SaveState, taskVars, historyVars
<1>. QED BY <1>1 DEF Schedule, TypeOK

\* A turn's count stays within that of its entity for as long as this only grows.
LEMMA StepCounts == IInv /\ [Next]_vars => CountsBounded'
<1>. SUFFICES ASSUME IInv, [Next]_vars, NEW t \in Turn
              PROVE  /\ since'[t] <= era'[EntityOf[t]]
                     /\ since'[t] = era'[EntityOf[t]] => checkpoint'[t] <= events'[EntityOf[t]]
  BY DEF CountsBounded
<1>. USE TurnAssumption DEF IInv, TypeOK, CountsBounded
<1>1. EntityOf[t] \in Entity
  OBVIOUS
<1>2. CASE Schedule(t)
  BY <1>1, <1>2 DEF Schedule, diskVars, countVars
<1>3. CASE checkpoint'[t] = checkpoint[t] /\ since'[t] = since[t]
  <2>1. /\ {checkpoint[t], since[t], era[EntityOf[t]], events[EntityOf[t]]} \subseteq Nat
        /\ {era'[EntityOf[t]], events'[EntityOf[t]]} \subseteq Nat
    BY <1>1, StepType
  <2>. QED BY <1>1, <1>3, <2>1, CountsRise
<1>. QED BY <1>2, <1>3, CheckpointStays

\* Episodes are never taken back, and are written by the task they are for.
LEMMA WrittenGrows ==
    ASSUME [Next]_vars
    PROVE  UNCHANGED written
           \/ \E t \in Turn : AppendEpisode(t) /\ written' = written \cup {t}
BY Steps DEF vars, Crash, Others, SaveResponse, Schedule, Run, SkipNoSignal, LockEntity, Fail,
             LoadState, SkipCheckpoint, AppendEpisode, SaveState, historyVars

\* What has an episode has been counted, once and for all.
LEMMA WrittenStays ==
    ASSUME TypeOK, WrittenBegun, [Next]_vars, NEW u \in written
    PROVE  u \in Turn /\ u \in written' /\ checkpoint'[u] = checkpoint[u] /\ since'[u] = since[u]
BY WrittenGrows, CheckpointStays DEF TypeOK, WrittenBegun

\* An episode is an event of its own, one more than its task counted.
LEMMA StepEpisodes == IInv /\ [Next]_vars => EpisodesCounted'
<1>. SUFFICES ASSUME IInv, [Next]_vars, NEW u \in written',
                     since'[u] = era'[EntityOf[u]]
              PROVE  checkpoint'[u] < events'[EntityOf[u]]
  BY DEF EpisodesCounted
<1>. USE TurnAssumption DEF IInv, TypeOK
<1>1. ASSUME NEW e \in Entity
      PROVE  era[e] \in Nat /\ era'[e] \in Nat /\ events[e] \in Nat /\ events'[e] \in Nat
  BY StepType
<1>2. CASE u \in written
  <2>1. u \in Turn /\ checkpoint'[u] = checkpoint[u] /\ since'[u] = since[u]
    BY <1>2, WrittenStays
  <2>2. /\ EntityOf[u] \in Entity /\ since[u] <= era[EntityOf[u]]
        /\ {checkpoint[u], since[u]} \subseteq Nat
    BY <2>1 DEF CountsBounded
  <2>3. /\ era[EntityOf[u]] = since[u]
        /\ events[EntityOf[u]] <= events'[EntityOf[u]]
    <3>1. ~(era[EntityOf[u]] < era'[EntityOf[u]])
      BY <1>1, <2>1, <2>2
    <3>. QED BY <2>1, <2>2, <3>1, CountsRise
  <2>4. checkpoint[u] < events[EntityOf[u]]
    BY <1>2, <2>3 DEF EpisodesCounted
  <2>. QED BY <1>1, <2>1, <2>2, <2>3, <2>4
<1>3. CASE u \notin written
  <2>1. u \in Turn /\ AppendEpisode(u)
    BY <1>3, WrittenGrows
  <2>2. /\ checkpoint'[u] = checkpoint[u] /\ since'[u] = since[u]
        /\ era' = era /\ events'[EntityOf[u]] = events[EntityOf[u]] + 1
    BY <2>1 DEF AppendEpisode, Record, CountedWith, countVars
  <2>3. /\ checkpoint[u] <= events[EntityOf[u]]
        /\ checkpoint[u] \in Nat /\ events[EntityOf[u]] \in Nat
    BY <2>1, <2>2 DEF CountsBounded
  <2>. QED BY <2>2, <2>3
<1>. QED BY <1>2, <1>3

\* What a step does to the watermarks: only SaveState writes them, and by the lock
\* of the state file it changes that of its own entity alone, to a greater one.
LEMMA SaveRaises ==
    ASSUME IInv, NEW t \in Turn, SaveState(t)
    PROVE  /\ watermarks' = [watermarks EXCEPT ![EntityOf[t]] = checkpoint[t]]
           /\ watermarks[EntityOf[t]] < checkpoint[t]
           /\ t \in written
BY DEF IInv, TypeOK, AppendedAhead, SaveState, HoldsState

\* The watermarks are left alone by every other step.
LEMMA OnlySaveWrites ==
    [Next]_vars => UNCHANGED watermarks \/ \E t \in Turn : SaveState(t)
BY Steps DEF vars, Crash, Others, SaveResponse, Schedule, Run, SkipNoSignal, LockEntity, Fail,
             LoadState, SkipCheckpoint, AppendEpisode, diskVars

\* How a turn moves: each step moves the turn it is for, a crash those that have begun.
LEMMA Moves ==
    ASSUME TypeOK, [Next]_vars, NEW t \in Turn, at'[t] # at[t]
    PROVE  \/ Crash /\ at'[t] = "lost"
           \/ SaveResponse(t) \/ Schedule(t) \/ Run(t) \/ SkipNoSignal(t) \/ LockEntity(t)
           \/ Fail(t) \/ LoadState(t) \/ SkipCheckpoint(t) \/ AppendEpisode(t) \/ SaveState(t)
<1>. USE DEF TypeOK, Go
<1>1. CASE UNCHANGED vars
  BY <1>1 DEF vars, taskVars
<1>2. CASE Crash
  BY <1>2 DEF Crash
<1>4. ASSUME NEW e \in Entity PROVE ~Others(e)
  BY <1>4 DEF Others, taskVars
<1>3. ASSUME NEW u \in Turn, u # t
      PROVE  /\ ~SaveResponse(u) /\ ~Schedule(u) /\ ~Run(u) /\ ~SkipNoSignal(u)
             /\ ~LockEntity(u) /\ ~Fail(u) /\ ~LoadState(u) /\ ~SkipCheckpoint(u)
             /\ ~AppendEpisode(u) /\ ~SaveState(u)
  BY <1>3 DEF SaveResponse, Schedule, Run, SkipNoSignal, LockEntity, Fail, LoadState,
              SkipCheckpoint, AppendEpisode, SaveState
<1>. QED BY <1>1, <1>2, <1>3, <1>4, Steps

\* What has an episode is done with its task, or about to save the watermark.
LEMMA StepBegun == IInv /\ [Next]_vars => WrittenBegun'
<1>. SUFFICES ASSUME IInv, [Next]_vars, NEW u \in written'
              PROVE  at'[u] \in {"appended", "consolidated", "failed", "lost"}
  BY DEF WrittenBegun
<1>. USE DEF IInv, TypeOK
<1>1. CASE u \in written
  BY <1>1, Moves
     DEF WrittenBegun, SaveResponse, Schedule, Run, SkipNoSignal, LockEntity, Fail, LoadState,
         SkipCheckpoint, AppendEpisode, SaveState, Go, HoldsState
<1>2. CASE u \notin written
  BY <1>2, WrittenGrows DEF AppendEpisode, Go
<1>. QED BY <1>1, <1>2

\* Both have one at the moment that makes them a pair.
LEMMA StepOvertaken == IInv /\ [Next]_vars => OvertakenWritten'
<1>. SUFFICES ASSUME IInv, [Next]_vars PROVE overtaken' \subseteq written' \X written'
  BY DEF OvertakenWritten
<1>1. ASSUME NEW t \in Turn, AppendEpisode(t) PROVE overtaken' \subseteq written' \X written'
  BY <1>1 DEF AppendEpisode, IInv, OvertakenWritten
<1>2. UNCHANGED <<written, overtaken>> \/ \E t \in Turn : AppendEpisode(t)
  BY Steps DEF vars, Crash, Others, SaveResponse, Schedule, Run, SkipNoSignal, LockEntity, Fail,
               LoadState, SkipCheckpoint, SaveState, historyVars
<1>. QED BY <1>1, <1>2 DEF IInv, OvertakenWritten

\* A task stays ahead of the watermark until it saves: the lock is its own.
LEMMA StepAppended == IInv /\ [Next]_vars => AppendedAhead'
<1>. SUFFICES ASSUME IInv, [Next]_vars, NEW t \in Turn, at'[t] = "appended"
              PROVE  watermarks'[EntityOf[t]] < checkpoint'[t] /\ t \in written'
  BY DEF AppendedAhead
<1>. USE TurnAssumption DEF IInv, TypeOK
<1>1. CASE at[t] = "appended"
  <2>1. t \in written' /\ checkpoint'[t] = checkpoint[t]
    BY <1>1, WrittenStays DEF AppendedAhead
  <2>2. ASSUME NEW u \in Turn, SaveState(u) PROVE FALSE
    <3>1. u = t
      BY <1>1, <2>2 DEF SaveState, HoldsState
    <3>. QED BY <2>2, <3>1 DEF SaveState, Go
  <2>. QED BY <1>1, <2>1, <2>2, OnlySaveWrites DEF AppendedAhead
<1>2. CASE at[t] # "appended"
  <2>1. AppendEpisode(t)
    BY <1>2, Moves DEF SaveResponse, Schedule, Run, SkipNoSignal, LockEntity, Fail, LoadState,
                       SkipCheckpoint, SaveState, Go
  <2>. QED BY <2>1 DEF AppendEpisode, Passed, HoldsState
<1>. QED BY <1>1, <1>2

\* An unsaved episode stays explained: its task still holds it, or failed; or a
\* crash leaves nothing pending, and what is counted later, before the count
\* falls, is counted after it.
LEMMA StepExplained == IInv /\ [Next]_vars => AheadExplained'
<1>. SUFFICES ASSUME IInv, [Next]_vars, NEW u \in written'
              PROVE  \/ checkpoint'[u] <= watermarks'[EntityOf[u]]
                     \/ at'[u] \in {"appended", "failed"}
                     \/ \A t \in Of(EntityOf[u]) :
                           at'[t] \in Pending /\ since'[t] = since'[u]
                              => checkpoint'[u] < checkpoint'[t]
  BY DEF AheadExplained, Of
<1>. USE TurnAssumption DEF IInv, TypeOK, Of
<1>1. CASE u \notin written
  BY <1>1, WrittenGrows DEF AppendEpisode, Go
<1>2. CASE u \in written
  <2>1. u \in Turn /\ checkpoint'[u] = checkpoint[u] /\ since'[u] = since[u]
    BY <1>2, WrittenStays
  <2>2. CASE checkpoint[u] <= watermarks[EntityOf[u]]
    <3>1. EntityOf[u] \in Entity /\ watermarks[EntityOf[u]] <= watermarks'[EntityOf[u]]
      BY <2>1, OnlySaveWrites, SaveRaises
    <3>. QED BY <2>1, <2>2, <3>1, StepType
  <2>3. CASE at[u] \in {"appended", "failed"}
    <3>1. CASE SaveState(u)
      BY <2>1, <3>1, SaveRaises
    <3>2. CASE Crash
      BY <3>2 DEF Crash, Pending, Ended
    <3>3. CASE ~SaveState(u) /\ ~Crash
      BY <2>1, <2>3, <3>3, Moves
         DEF SaveResponse, Schedule, Run, SkipNoSignal, LockEntity, Fail, LoadState,
             SkipCheckpoint, AppendEpisode, Go, HoldsState
    <3>. QED BY <3>1, <3>2, <3>3
  <2>4. CASE \A t \in Of(EntityOf[u]) :
               at[t] \in Pending /\ since[t] = since[u] => checkpoint[u] < checkpoint[t]
    <3>. SUFFICES ASSUME NEW t \in Of(EntityOf[u]), at'[t] \in Pending, since'[t] = since[u]
                  PROVE  checkpoint[u] < checkpoint'[t]
      BY <2>1
    <3>1. CASE Schedule(t)
      <4>1. checkpoint'[t] = events[EntityOf[u]] /\ since'[t] = era[EntityOf[u]]
        BY <3>1 DEF Schedule, Go, Pending
      <4>. QED BY <1>2, <4>1 DEF EpisodesCounted
    <3>2. CASE ~Schedule(t)
      <4>1. at[t] \in Pending
        BY <3>2, Moves
           DEF SaveResponse, Run, SkipNoSignal, LockEntity, Fail, LoadState, SkipCheckpoint,
               AppendEpisode, SaveState, Go, Pending, HoldsState
      <4>. QED BY <2>4, <3>2, <4>1, CheckpointStays
    <3>. QED BY <3>1, <3>2
  <2>. QED BY <1>2, <2>2, <2>3, <2>4 DEF AheadExplained
<1>. QED BY <1>1, <1>2

\* A watermark stands for an episode, and a turn that was skipped is behind it.
LEMMA StepCovered == IInv /\ [Next]_vars => TurnCovered'
<1>. SUFFICES ASSUME IInv, [Next]_vars PROVE TurnCovered'
  OBVIOUS
<1>. USE TurnAssumption DEF IInv, TypeOK, Of
<1>1. ASSUME NEW e \in Entity, watermarks'[e] > 0
      PROVE  \E u \in written' \cap Of(e) : checkpoint'[u] = watermarks'[e]
  <2>1. CASE UNCHANGED watermarks
    <3>1. PICK u \in written \cap Of(e) : checkpoint[u] = watermarks[e]
      BY <1>1, <2>1 DEF TurnCovered
    <3>. QED BY <2>1, <3>1, WrittenStays
  <2>2. ASSUME NEW t \in Turn, SaveState(t)
        PROVE  \E u \in written' \cap Of(e) : checkpoint'[u] = watermarks'[e]
    <3>1. CASE e = EntityOf[t]
      BY <2>2, <3>1, SaveRaises, WrittenStays
    <3>2. CASE e # EntityOf[t]
      <4>1. watermarks'[e] = watermarks[e]
        BY <2>2, <3>2, SaveRaises
      <4>2. PICK u \in written \cap Of(e) : checkpoint[u] = watermarks[e]
        BY <1>1, <4>1 DEF TurnCovered
      <4>. QED BY <4>1, <4>2, WrittenStays
    <3>. QED BY <3>1, <3>2
  <2>. QED BY <2>1, <2>2, OnlySaveWrites
<1>2. ASSUME NEW t \in Turn, at'[t] \in {"consolidated", "skipped"}, checkpoint'[t] > 0
      PROVE  \E u \in written' \cap Of(EntityOf[t]) :
                AsRecent(u, t)' \/ (at'[t] = "skipped" /\ Shadowed(t, u)')
  <2>. USE DEF AsRecent, Shadowed
  <2>0. EntityOf[t] \in Entity /\ watermarks[EntityOf[t]] <= watermarks'[EntityOf[t]]
    BY OnlySaveWrites, SaveRaises
  <2>1. CASE at'[t] = at[t]
    <3>1. checkpoint'[t] = checkpoint[t] /\ since'[t] = since[t]
      BY <1>2, <2>1, CheckpointStays
    <3>2. PICK u \in written \cap Of(EntityOf[t]) :
                  AsRecent(u, t) \/ (at[t] = "skipped" /\ Shadowed(t, u))
      BY <1>2, <2>1, <3>1 DEF TurnCovered
    <3>3. u \in written' /\ checkpoint'[u] = checkpoint[u] /\ since'[u] = since[u]
      BY <3>2, WrittenStays
    <3>. QED BY <2>0, <2>1, <3>1, <3>2, <3>3, StepType
  <2>2. CASE SkipCheckpoint(t)
    <3>1. checkpoint[t] <= watermarks[EntityOf[t]] /\ at'[t] = "skipped"
      BY <2>2 DEF SkipCheckpoint, Passed, HoldsState, Go
    <3>2. UNCHANGED <<checkpoint, since, watermarks, written>>
      BY <2>2 DEF SkipCheckpoint, diskVars, historyVars
    <3>3. PICK u \in written \cap Of(EntityOf[t]) : checkpoint[u] = watermarks[EntityOf[t]]
      BY <1>2, <2>0, <3>1, <3>2 DEF TurnCovered
    <3>4. AsRecent(u, t) \/ Shadowed(t, u)
      <4>1. since[t] \in Nat /\ since[u] \in Nat /\ checkpoint[u] \in Nat
        OBVIOUS
      <4>2. checkpoint[t] <= checkpoint[u] /\ checkpoint[u] <= watermarks[EntityOf[t]]
        BY <3>1, <3>3, <4>1
      <4>3. since[u] < since[t] \/ since[t] = since[u] \/ since[t] < since[u]
        BY ONLY <4>1
      <4>. QED BY ONLY <4>2, <4>3 DEF AsRecent, Shadowed
    <3>5. u \in written' \cap Of(EntityOf[t]) /\ (AsRecent(u, t)' \/ Shadowed(t, u)')
      BY <3>2, <3>3, <3>4
    <3>. QED BY <3>1, <3>5
  <2>3. CASE SaveState(t)
    BY <2>3, SaveRaises, WrittenStays
  <2>. QED
    BY <1>2, <2>1, <2>2, <2>3, Moves
       DEF SaveResponse, Schedule, Run, SkipNoSignal, LockEntity, Fail, LoadState,
           AppendEpisode, Go
<1>. QED BY <1>1, <1>2 DEF TurnCovered

\* An episode comes after one that is as recent only when that one's task failed
\* to save, or the count fell between them.
LEMMA StepAscend == IInv /\ [Next]_vars => EpisodesAscend'
<1>. SUFFICES ASSUME IInv, [Next]_vars, NEW p \in overtaken'
              PROVE  at'[p[2]] = "failed" \/ since'[p[1]] < since'[p[2]]
  BY DEF EpisodesAscend
<1>. USE TurnAssumption DEF IInv, TypeOK, Of
<1>1. \/ UNCHANGED overtaken
      \/ \E t \in Turn : AppendEpisode(t)
  BY Steps DEF vars, Crash, Others, SaveResponse, Schedule, Run, SkipNoSignal, LockEntity, Fail,
               LoadState, SkipCheckpoint, SaveState, historyVars
<1>2. CASE p \in overtaken
  <2>2. p[1] \in written /\ p[2] \in written
    BY <1>2 DEF OvertakenWritten
  <2>1. at[p[2]] = "failed" => at'[p[2]] = "failed"
    <3>1. CASE Crash
      BY <2>2, <3>1 DEF Crash, Ended
    <3>2. CASE ~Crash
      BY <2>2, <3>2, Moves
         DEF SaveResponse, Schedule, Run, SkipNoSignal, LockEntity, Fail, LoadState,
             SkipCheckpoint, AppendEpisode, SaveState, HoldsState
    <3>. QED BY <3>1, <3>2
  <2>. QED BY <1>2, <2>1, <2>2, WrittenStays DEF EpisodesAscend
<1>3. CASE p \notin overtaken
  <2>1. PICK t \in Turn : AppendEpisode(t)
    BY <1>1, <1>3
  <2>2. /\ p[1] = t /\ p[2] \in written /\ EntityOf[p[2]] = EntityOf[t]
        /\ AsRecent(p[2], t) /\ UNCHANGED <<checkpoint, since>>
    BY <1>3, <2>1 DEF AppendEpisode
  <2>3. /\ at[t] = "loaded" /\ at' = [at EXCEPT ![t] = "appended"]
        /\ watermarks[EntityOf[t]] < checkpoint[t]
    BY <2>1 DEF AppendEpisode, Passed, HoldsState, Go
  <2>4. CASE since[t] = since[p[2]] /\ checkpoint[t] <= checkpoint[p[2]]
    <3>1. at[p[2]] \in {"appended", "failed"}
      BY <2>2, <2>3, <2>4 DEF AheadExplained, Pending
    <3>2. at[p[2]] = "failed" /\ p[2] # t
      BY <2>2, <2>3, <3>1 DEF HoldsState
    <3>. QED BY <2>2, <2>3, <3>2
  <2>. QED BY <2>2, <2>4 DEF AsRecent
<1>. QED BY <1>2, <1>3

-----------------------------------------------------------------------------
(* The theorems.                                                           *)

\* The invariant the others rest on.
THEOREM InvariantHolds == Spec => []IInv
<1>1. IInv /\ [Next]_vars => IInv'
  BY StepType, StepCounts, StepEpisodes, StepBegun, StepAppended, StepExplained, StepCovered,
     StepOvertaken, StepAscend
     DEF IInv
<1>. QED BY InitInv, <1>1, PTL DEF Spec

\* Types; the state file is locked by one task, which knows what it says.
THEOREM TypeCorrect == Spec => []TypeOK
<1>1. IInv => TypeOK
  BY DEF IInv
<1>. QED BY <1>1, InvariantHolds, PTL

\* No turn is consolidated again, or after a later one, unless a save failed or
\* the count fell between them.
THEOREM Ascending == Spec => []EpisodesAscend
<1>1. IInv => EpisodesAscend
  BY DEF IInv
<1>. QED BY <1>1, InvariantHolds, PTL

\* What is finished is covered by an episode that was written, and one as recent
\* unless the count fell between them.
THEOREM Covered == Spec => []TurnCovered
<1>1. IInv => TurnCovered
  BY DEF IInv
<1>. QED BY <1>1, InvariantHolds, PTL

\* No step takes a watermark back.
THEOREM Growing == Spec => WatermarksGrow
<1>1. IInv /\ [Next]_vars => [\A e \in Entity : watermarks[e] <= watermarks'[e]]_watermarks
  <2>. SUFFICES ASSUME IInv, [Next]_vars, NEW e \in Entity PROVE watermarks[e] <= watermarks'[e]
    OBVIOUS
  <2>. QED BY OnlySaveWrites, SaveRaises, TurnAssumption DEF IInv, TypeOK
<1>. QED BY <1>1, InvariantHolds, PTL DEF Spec, WatermarksGrow
=============================================================================
