# Asterel: a verification project

Asterel is a companion runtime that talks to people through chat channels. A
long-running daemon owns the channels, an admin gateway, a heartbeat and a cron
scheduler; around them are memory, sessions, providers, subagents and plugins.
This directory holds TLA+ modules of the parts where concurrency, failure and
ordering decide whether the program is correct, the TLC runs that check them on
small instances, and proofs of the most important facts for every instance.

All paths below are relative to `src/src/` of the repository.

## 1. Inventory

| Component | State it keeps | Operations | What is hard |
|---|---|---|---|
| Routing queue, `transport/channels/startup/routing_queue.rs` | senders per group, their channels, worker tasks, a semaphore | `enqueue`; worker: receive, acquire, handle, idle exit | idle exit against send, pruning, overflow group, permits, blocking on a full group |
| Channel surface, `.../startup/listener.rs`, `transport/channels/runtime.rs` | listener tasks, the event channel, the reload subscription | select loop, reload, stop and drain, next generation | a cancelled future with data in it, requests lost between load and drain, old workers beside new ones |
| Coalescer, `transport/channels/coalescer.rs` | events set aside, merged messages | `next_event`, `collect_within_window` | order, limit, being cancelled |
| Configuration reload, `platform/daemon/run.rs`, `reload.rs` | active config, last modification time, component handles | poll, load, compare, stop, respawn | time read before the file, baseline, overlapping saves |
| Component supervisor, `platform/daemon/supervisor.rs` | failure count, backoff | restart loop with a limit | the count is never reset |
| Config file and admin operations, `config/schema/core/loader.rs`, `runtime/services/management/` | `config.toml` | load, change, save (temporary file and rename), request a reload | no lock between load and save; time of the temporary file |
| Cron, `platform/cron/scheduler.rs`, `repository.rs`, `transport/gateway/handlers/admin_cron.rs` | job rows with breaker columns, the batch of a poll | poll, run with retries, reschedule; create, update, remove, run by hand; stop, respawn | the batch is a snapshot, every write is blind, at-least-once execution |
| Subagents, `core/subagents/runtime.rs`, `spawn_limits.rs`, `core/tools/delegate.rs`, `core/tools/subagent/` | run map, task handles, quota and depth of each context | delegate inline or in the background, complete, cancel | check then insert, cancel before the handle is stored, lineage ids, inline children of an aborted task |
| Consolidation, `core/memory/consolidation.rs`, `core/agent/loop_/session_persistence.rs` | watermark file, two kinds of locks, worker status; the counts of `core/memory/postgres/events.rs` or `markdown.rs` | count, spawn, lock, load, append, save; forgetting and archiving | failure or crash between the two writes, counts taken before the tasks run, counts that fall, one file for all entities |
| Sessions, `core/sessions/store.rs`, `orchestrator.rs`, `compaction.rs` | sessions, bindings, messages in Postgres | resolve or create, record a turn, compact, reset, operators' create and delete | concurrent resolution, a compaction beside an append, a reset of four statements |
| OAuth recovery, `core/providers/oauth_recovery.rs`, `factory.rs`, `security/auth/broker.rs` | per instance a provider, revision, gate, cooldown; one profile store of all | call, recover, rebuild, retry | many requests failing together, several instances over one store, dropped requests |
| Provider fallback, `core/providers/reliable.rs` | none between calls | retries, then the next provider | sequential |
| Replay guard, `transport/gateway/replay_guard.rs`, `handlers/webhook.rs`, `handlers/companion.rs` | seen hashes, two sequence numbers, a file | check and record, forget, flush, prune, restart | the table changes while it is flushed, crash before a flush, forget of another's entry |
| Policy trackers, `security/policy/trackers.rs` | windows of actions and costs | record, check | clock and limits, each behind one lock |
| Message handler, tool loop, persona, affect, memory retrieval, channel adapters, gateway transport, CLI, desktop, plugins | mostly none shared | one turn, one request, one protocol | data rather than control |

How they interact: listener tasks send events into the surface's channel; the
surface's loop hands coalesced events to the routing queue, whose workers call the
message handler. Admin routes rewrite `config.toml` and send a request on a
broadcast channel to the surface; the daemon polls the file and respawns components under supervisors, the cron scheduler among them. Subagents, consolidation and provider recovery are
started from inside a handler and outlive it. Admin routes also change the cron table
that the scheduler polls. A handler resolves its session at the start of a turn and
records the turn at its end; webhook handlers pass the replay guard first.

What makes each modelled component correct:

- Routing queue: an accepted event is handled at most once, never more than the
  configured number at a time; events of one source in order; tasks bounded;
  nothing waits for ever; what is dropped is dropped for a reason.
- Surface and coalescer: each event forwarded once, in order, only neighbours of
  one key merged, whatever reloads do; a reload costs only what is the oldest.
- Reload: only a config that could be loaded runs; in the end everything runs what
  the file says.
- Subagents: the tree of delegations is bounded whatever runs at the same time; a run
  ends once; who holds a run's id can stop its task and everything on that task.
- Cron: a slot is run once, a due job is run, a removed one hardly ever; breaker and
  schedule survive what is written blindly over them, but for races that have names.
- Consolidation: while an entity's count only grows, turns are consolidated in order and
  once; the watermark never stands for an episode that was not written, and never goes
  back.
- Replay guard: equal requests are let in once while the entry counts, a failed one
  may be tried again, and what counts as flushed survives a crash.
- Sessions: everybody who resolves a key agrees, no session is left behind, and a
  compaction forgets only what it was to summarise.
- OAuth recovery: one recovery for all who failed with one provider, and every
  instance comes to use the good token.

## 2. Modules

| Module | Models | Kind |
|---|---|---|
| `Dispatch` | what the ingress side promises of an event | abstract specification |
| `RoutingQueue` | `routing_queue.rs` | component, implements `Dispatch` |
| `RoutingQueueProofs` | | proofs |
| `Intake` | what the surface's loop promises of its events | abstract specification |
| `ChannelSurface` | the loop of `listener.rs`, `coalescer.rs` | component, implements `Intake` |
| `ChannelRuntime` | the surface with the routing queues of all its generations | composition |
| `ConfigReload` | admin saves, daemon poll, supervisor, reload in the surface | composition of four parts |
| `ReloadProofs` | `ConfigReload`, `ChannelSurface`, `ChannelRuntime` | proofs |
| `SubagentRuns` | delegation: the orchestrator of `core/subagents` and the `delegate` and `subagent_spawn` tools | component |
| `SubagentRunsProofs` | | proofs |
| `CronScheduler` | the poll, its batch and breaker, the daemon around it, the admin routes beside it | component |
| `CronSchedulerProofs` | | proofs |
| `Consolidation` | the end of a turn and its consolidation task | component |
| `ConsolidationProofs` | | proofs |
| `ReplayGuard` | the table, its flush worker and file, the handlers around it | component |
| `ReplayGuardProofs` | | proofs |
| `Sessions` | bindings, transcripts and compaction of one conversation | component |
| `SessionsProofs` | | proofs |
| `OAuthRecovery` | instances of the wrapper over one profile store | component |
| `OAuthRecoveryProofs` | | proofs |
| `MC*` | small instances for TLC | |

### RoutingQueue

One listener task calls `enqueue`, so the caller is the variable `listener`:
`"select"`, blocked in `send`, or `"closed"` once the manager is dropped.
`Enqueue(s)` is everything from the call to the await of `send`: pruning, resolving
the group, diverting to the overflow group, creating a channel and its worker.
`SendOk` and `SendFails` end that await; `Shutdown`, the drop of the manager, may come
in the middle of it too, when the daemon aborts the channels component
(`platform/daemon/run.rs:77`), and takes the event along. A worker is `worker[g]` with the await it
is in; `current[g]` is the event it holds. `IdleTimeout` and `IdleExit` are two
steps because the task polls its channel for the last time, and drops the
receiver later, while another thread may be in `send`. An event is its place in
the order of arrival. The branch for a closed semaphore is left out: nothing closes
it. Handlers do not panic here: the release profile aborts the process
(`Cargo.toml`, `panic = "abort"`).

Two events of one name, a rule's group called like a default group or like the
overflow group, are the same group in the model as in the code.

### ChannelSurface and ChannelRuntime

`at` is the await the surface's task is in. In `"collect"` the messages merged so
far are in `merged`, the local variable of `collect_within_window`; every reload
that wins the `select!` empties it, which is how the model has cancellation.
`pending` is the coalescer's queue, `rx` the bounded channel. A reload ends the
generation: `ReloadBegins` (config loaded, listeners aborted), `ReloadEnds`
(requests drained, channel and coalescer dropped), `StartSurface`. Aborted
listeners may still send until the drop. Single keys are those `next_event` returns
at once: events that are no messages, and messages of the `cli` channel. A
coalescing window of zero behaves as a limit of one message.

Not in the model is the end of the component or of the daemon: the surface's task is then
aborted wherever it is, with all it holds, and nothing of it goes on.

`ChannelRuntime` puts each forwarded batch into the routing queue of the generation
that forwarded it, reduced to the stages of `Dispatch`. A queue of a generation
that is over goes on, with a semaphore of its own, so the limit on handlers is one per
generation (`RunningOf`); what matters is that the old ones come to an end
(`EventuallyAnswered`).

### ConfigReload

A configuration is the set of settings that are on; `"broken"` in it stands for
anything a load rejects. The file has a content and a modification time. A save is
two steps, `AdminWrites` (switches one setting in what the request loaded; the file
will have the time of this temporary file) and `AdminInstalls` (the rename); a request
to the surface follows. Two saves of one setting may undo each other. `HandEdit` replaces
the file in one step and is the only thing that breaks or repairs it. The daemon
is the sequence spawn, baseline, then poll: notice, load, stop and respawn. The
channels component is `surface`, from its load through subscription and
initialisation to the running loop; its supervisor counts failures. Three history
variables record the three races after which the poll cannot be relied on: `early`
(the file changed before the baseline was taken), `overtaken` (a file was
replaced by one with an older time) and `reverted` (the file became again what the
daemon runs with, while the surface had loaded something else). `NothingMissed` says
that there is no fourth: otherwise, whenever the poll would do nothing, the daemon runs
what the file says, and so does the surface unless it is still to load it.

A component that is not the channels surface takes its config from the daemon, so
`active` is what it runs. Not in the model: switching live reload off by a change
of the config, a config without real-time channels (the daemon then starts no channels
component, `supervisor.rs:127`), a proxy the daemon cannot set and therefore rejects while
the channel surface runs with it (`run.rs:221`), the skills refresh (which respawns with the same config), a second
save by a load that has to encrypt secrets, coarse modification times (every write
has a time of its own).

### SubagentRuns

A call of the delegate tool makes a child, and the call stands for all of it: the
run in the orchestrator's map (`runs`, `handle`), the task it executes on (`task`,
`home`) and its context (`depth`, `remaining`). Root contexts are turns; several
turns may act for one entity at the same time. A context uses one tool at a time
because the tool loop awaits each call.

`spawn_with_options` takes the lock of the run map three times, and the model has a
step for each: `CheckSpawn` (a copy of the map is checked), `InsertRun`,
`StoreHandle`, with `StartTask` between the last two. Everything before, quota and
depth, is `BuildDelegationOptions`, part of the three ways a tool begins. There is
no await in `spawn_with_options`, so an abort cannot stop a task inside it
(`DropTask` waits for the whole task, inline children included); other threads do
interleave. `DelegateInline` makes no run: the child executes on its caller's task,
and `home` says which that is. `SubagentSpawn` consumes a slot and fails, since it
goes to the process-wide orchestrator, which only tests configure; turns use the
one in their context. A turn itself is not cancelled here.

`CancelScoped` may come from any context with the parent's entity id, also before
the run id was returned: another turn of the entity can list the runs. Such an early
cancel finds no handle; the run is cancelled, its task goes on, and `CompleteRun`
discards the result. The background runs of a cancelled run go on too, and nobody
has their parent's entity id any more.

Run ids and entity ids are kept apart (`RunId`, `EntityId`), as in the code, where
both are made from fresh uuids; `LineageFor` therefore never finds a subagent as a
node. Status, list and output only read and are left out, and so are a spawn without
a parent and a cancel without a scope, which only tests call.

### CronScheduler

Every query is one step. `Poll` reads the due rows into `snap` and their jobs into
`batch`; `Start`, `Attempt` and `Record` work through it, and `Record` writes the next
due time and a breaker computed from `snap` over whatever the row has become. A
schedule is its period, `NextRun` the first multiple after now, so a missed slot is
skipped as in the code. `Signal`, `Stop` and `Respawn` are the daemon: the scheduler
stops where it looks at the signal or is aborted where it waits, after a grace period
of 40 seconds (`platform/daemon/run.rs:23` and `:77`). `Crash` ends the process with
its requests. An admin request is one of `Create` (which may go on to disable the
job), `UpdateReads` and `UpdateWrites`, `Remove`, `RunReads` and `RunRecords`; `ask`
holds what it has read. An update reads the row, merges, and writes every column back,
which is why `OnlyAskedFor` has to know whether what was read is outdated (`stale`).

The record `past` is history, one per job, and names the races the properties except:
a run that was not recorded, a schedule crossed by an update, a failure a run by hand
hid. Left out: expiry, jobs of agent origin and their cap, which no entry point makes,
and what a command does.

### Consolidation

`at[t]` is the place of a turn or of its task, `checkpoint[t]` the count taken at its
end, `state[t]` the file as its task has loaded it. The locks are places: who is from
`"entity"` on has the entity's, who is from `"loaded"` on that of the state file.
`SaveResponse` may append nothing, since the failure of an append is only logged.
`AppendEpisode` adds an event that later turns count. The file is saved by a rename
and so is one step. `Fail` is an error at any step that can have one, `Crash` the end
of the process; both count as mishaps.

Of the memory there is `events`, what `count_events` answers for an entity. PostgreSQL
counts the entity's rows; Markdown ignores the entity and counts the entries of all
files (`CountedWith`). Neither count only grows. `Others` is whatever else changes it: an
append of other code, a hard or tombstone forget (`postgres/events.rs:478`), expiry
(`postgres/mod.rs:515`), the archiving of daily files (`hygiene/filesystem.rs`), and the
temporary file of a Markdown append, which is counted beside the file it replaces until
it is renamed. The count may become any number, in one step. `era` is how often it has
fallen and `since[t]` the era a turn counted in; with them `EpisodesAscend` and
`TurnCovered` can say what the watermark still promises when it does. `written` and
`overtaken` are history as well.

### ReplayGuard

`seen` is the table, 0 for no entry, `file` what a restart reads. A handler is
`Replayed` or `Accepted` (check and record, which may prune), then `RecordMutation`
(the sequence number, after the lock), then `Finish` or `Forget`. The worker is
`FlushBegins` (reads the target), `FlushSnapshots` (copies the table), `FlushStores`
(file, then `persisted_seq`). When exactly the code prunes depends on a counter, and
the model lets it happen at any insert. `lapsed` and `revived` are history: requests
whose entry was lost by no fault of theirs, and entries a restart brought back.
`refused` is a request turned down after its reservation; it gives nothing back, and
its retry is acknowledged as a replay, as in the code.

### Sessions

One key, several clients, each statement or transaction one step. A resolve is
`Resolve`, `Choose` (the session it inserts is `"pending"`, invisible to others),
`Claim` or `LoseClaim` and `Reload`. `Stamp` takes the timestamp before the
transaction that `Append`s, as `append_message_with_parts` does; `ReadTranscript` and
`Compact` are the two halves of a compaction. A reset is `Find` or `List`, `Archive`,
`Release`, `Create`, `Attach`. `Drop` at any place is a failed statement, a lost
connection or the end of the process. Messages count as one token each.

A summary (`Quoted`) tells of the messages it quotes: those of the last key exchanges and
the user's last message. Messages of the system are passed over, earlier summaries among
them. Its stamp is that of its commit. Left out of it are the lists of tool names and of
decisions, which may quote a line more, and the cut at its greatest length; the messages
that restore context after a compaction hold nothing of the transcript. `resolved` and
`held` are history.

### OAuthRecovery

A request observes the revision, clones the provider (`token[r]` is what that was made
with), and calls. After an error for the token it waits for the gate; the two hooks run
on blocking threads, so a request that is dropped meanwhile frees the gate while its
hook goes on (`gone`). Time is only the end of a cooldown. The store, the cache of the
vendor's tool and the vendor are three numbers; a hook imports the cached token, and
counts as successful only if the store had another. A panic of a hook, which would start
the cooldown (`oauth_recovery.rs:189-193`, `:208-212`), is left out: a release build aborts
the process.

## 3. Runs

| Run | Config | Checks | Bounds |
|---|---|---|---|
| `routing` | `RoutingQueue.cfg` | `TypeOK`, `PermitsConserved`, `GroupsBounded`, `OnlyOverflowIsOvertaken`, `NeverStuck`, `DispatchSpec`, `EventuallySettled`, `Drained` | 3 sources (two of one sender) of 3 groups, 2 rules, 1 group besides overflow, channels of 1, 1 permit, 4 events |
| `routing_loss` | `RoutingQueueLoss.cfg` | `SentIsKept` is violated | 2 groups, channels of 2, 2 events |
| `runtime` | `ChannelRuntime.cfg` | `TypeOK`, `EveryEventOnce`, `IntakeSpec`, `FailedReloadLosesOneBatch`, `EventuallyAnswered` | 3 keys, channel of 2, batches up to 2, 1 permit per generation, 3 events, 2 reload requests |
| `reload` | `ConfigReload.cfg` | `ConfigTypeOK`, `OnlyValidRuns`, `NothingMissed`, `EventuallySettled` | 1 setting, 2 admin requests, 2 edits, 1 restart, 1 failure |
| `reload_overtaken` | `ConfigReloadOvertaken.cfg` | `AdminChangesApplied` is violated | 2 settings, 2 admin requests, no edits |
| `subagents` | `SubagentRuns.cfg` | `DelegationBounded`, `OvershootBounded`, `NoInlineOrphan`, `CancelAborts` | 2 turns of one entity, 4 calls, quotas 3 and 1, depth 2, 2 descendants |
| `subagents_descendants` | `SubagentDescendants.cfg` | `DescendantsCapped` is violated | 1 turn, 3 calls, the same limits |
| `cron` | `CronScheduler.cfg` | `LateRunAtMostOnce`, `BreakerHolds`, `OwnSchedule`, `SlotRunsOnce`, `OnlyAskedFor`, `DueJobRuns` | 2 jobs (one there at first), 2 admin requests (one of any route, one update), periods 1 and 3, 1 retry, budget 1, cooldown 2, a day of 4 with active hours from 2 to 1, clock up to 3, 1 mishap |
| `consolidation` | `Consolidation.cfg` | `TypeOK`, `EpisodesAscend`, `TurnCovered`, `WatermarksGrow`, `StatusSettles` | 2 turns of one entity, 1 of another, both backends, 1 mishap, 1 change of a count, to 0 or 1 |
| `replay` | `ReplayGuard.cfg` | `FlushedMeansSaved`, `AcceptedOnce`, `ReplayAcked` | 2 bodies, 3 requests, time to live 2, room for 1, clock up to 4, 1 mishap |
| `sessions` | `Sessions.cfg` | `TypeOK`, `ResolvedWasBound`, `NothingStranded`, `ForgottenOnlyRead` | 2 clients, 2 sessions at a time, whose ids come back, compaction from 2 messages on, 20 % kept, 1 key exchange, 4 timestamps, and 3 more in one bound session |
| `oauth` | `OAuthRecovery.cfg` | `StaleTokenReplaced` is violated | 2 instances with a request each, 2 tokens |

The type invariants of `subagents`, `cron` and `replay` are not in their runs; they are
proved for all instances (section 5).

Why the bounds are enough. In `routing` every limit is at one, where starvation and
overflow show first: three groups compete for one place, up to two workers for one
permit, four events fill a channel while one is handled and the last blocks the
listener, and they let an idle exit, a respawn and an overtaking happen in one
behaviour. The proofs cover larger limits. Sources include two that differ only in
their conversation and a rule that separates them. In `runtime`, the third event meets
a full batch of two, a full channel, or a reload that has begun; two requests give a
failed reload before or after a real one, and two real ones, so that workers of three
generations exist at a time. In `reload`, two admin requests that switch one setting on
and off again overlap in every way with each other, with a breaking and a repairing edit, with the start of the daemon and with
a restart; one restart is the least limit a supervisor can exceed twice. In
`subagents`, four calls let two turns pass the check for the last place together and
be refused afterwards, use up a quota, nest to the greatest depth inline and in the
background and in both orders, and be cancelled by the other turn at every point.
`max_depth` of the spawn limits is above the depth of the contexts, as in the code,
and is never what refuses a run.

In `cron`, two jobs make a batch in which one waits behind the other; the request of
any route creates, removes or runs a job or updates one, and the second update overlaps
it; a retry, a budget and a cooldown of the least size that differ; active hours that
span midnight and a clock that goes through both ends of them; one mishap is a crash, a
stop or a failed write. In `consolidation`, two turns of one entity run out of order,
with equal or different counts, beside a third that shares the file, and on Markdown the
count; one mishap is a failed append or save, or a crash; one change makes a count fall
between two turns, below a watermark or not, or jump. Every exception of `EpisodesAscend`
and `TurnCovered` occurs. In `replay`, with room for one, every second
body evicts the first; three requests are an original, its equal, and one that evicts
or retries; the clock passes the time to live twice. In `sessions`, four stamps are a
turn of each client, or one turn and a compaction beside an append of the other; two
sessions are what two clients can hold, and ids are used again only when nobody remembers
them, so two stand for any number. To get to a second compaction, which deletes the
summary of the first, takes seven; past the fourth (`MaxUnsettled`) only behaviours are
followed in which one session is bound and the clients record turns and compact
(`Settling`, a constraint of the run). Late messages, forgotten summaries and messages
that were not quoted all occur. In `oauth`, two instances and one
expiry are the least in which one can be ahead of the other.

Deadlock is not checked: each of these systems may come to rest, the routing queue
after its manager is dropped, all of them when the bounded arrivals, requests, turns,
mishaps and time are used up. That nothing rests too early is what the liveness
properties check.

`subagents` is reduced by the symmetry of the calls, `replay` by that of bodies and
requests, `sessions` by that of clients and sessions: the models treat them alike, and
no liveness is checked there. Elsewhere no symmetry is used: the sources and keys
differ in what rules and merging do with them, the others appear in liveness
properties.

### What the violated runs show

- `routing_loss`: the listener's `send` can succeed after the worker's last poll;
  the event disappears with the receiver, without the warning a failed send has.
- `reload_overtaken`: the save that is renamed last may carry the older
  modification time, and the poll then never applies the file.
- `subagents_descendants`: the limit on descendants counts direct runs only, because
  what a subagent spawns is counted under its entity id and its own run under its run
  id. One turn suffices, no two steps race. What does bound the tree is
  `DelegationBounded`.
- `oauth`: one instance recovers and stores the fresh token; the hook of the other then
  finds the store unchanged, answers false, and the instance is not rebuilt, at this
  attempt and at all later ones, until the process restarts or the token changes again.
  A login by the operator has the same effect, and so has an own recovery whose rebuild
  failed or whose request was dropped after the save. A hook that compared the imported
  token with the one the failing provider was made with would not have the problem: with
  that change `StaleTokenReplaced` holds in this instance.

### Observations without a run

- A reload request cancels the coalescer's future. If the config cannot then be loaded,
  the surface goes on without the messages it had merged; `FailedReloadLosesOneBatch`
  says that it loses no more.
- The poll compares the file with `active_config` and not with what the surface runs
  (`platform/daemon/reload.rs:50`). A save is followed by a reload of the surface; a
  second save takes it back before the next poll, and its request is lost in a drain or
  never made. The poll finds no change, and the surface goes on with the setting that is
  no longer in the file. Without `~reverted` in the premise of `EventuallySettled`, TLC
  finds this behaviour.
- The comment at `message_handler/stream.rs:328` takes the semaphore as a bound on all
  handlers; it bounds those of one generation.
- `platform/cron/scheduler.rs:155` says "In-flight jobs are allowed to finish"; the
  daemon aborts them after 40 seconds, and the slot runs again.
- A rollback of a rate limit in `platform/cron/scheduler/routes.rs:208-214` may remove the
  record of another job.
- A compaction turns a session that `/new` has archived meanwhile back into a compacted
  one. A reset whose last statement fails leaves an active session that no key is bound
  to, and the caller is told "Session reset" all the same (`message_handler/prompt.rs:336-360`).
  Summaries sort after the messages that were kept. Concurrent saves of metadata lose
  one field.
- A second compaction deletes the summary of the first and carries nothing of it over:
  `build_structured_summary` (`compaction.rs:262`) skips messages of the system.
- When an entity's count falls (memories forgotten, expired or archived) its watermark does
  not: new turns are skipped as consolidated until the count has passed the watermark
  again. The same after an overcount of Markdown, whose watermark may stand for the
  entries of a temporary file counted twice, or for those of other entities.
- A request that is refused after its reservation is acknowledged as a replay when it
  comes again within the time to live.
- A recovery hook that returns an error leaves `last_failed_at` unset
  (`oauth_recovery.rs:188`, `result?`), so the cooldown does not prevent "hammering the
  auth backend after a failed recovery attempt".

## 4. Fairness

- Routing queue: every step of a task that can be taken is taken in the end (the
  runtime polls ready tasks), and handlers return. Acquiring a permit has strong
  fairness: with one permit and several workers the step is enabled and disabled
  again and again, and tokio's semaphore serves its waiters first in, first out.
  Arrivals, the shutdown and the idle timer are not forced.
- Surface: the same for its task; the window is a timer. That `enqueue` returns is
  `EventuallySettled` of `RoutingQueue`. Listeners, reload requests and their
  success are not forced, so what is collected is forwarded or lost, and nothing is
  assumed about which.
- Reload: the poll ticks every three seconds, timers and tasks make progress, an
  admin request that has begun goes on. That an admin request begins, an edit is
  made or an initialisation fails is not forced. `EventuallySettled` carries its own
  premise: from some point on the file can be loaded, and none of the three races
  recorded by `early`, `overtaken` and `reverted` has happened (`Undisturbed`).
  `reload_overtaken` shows that the second of them cannot be left out, and an observation
  above that the third cannot.
- Channel runtime: that of the surface; a handler that has a permit returns, and waiters
  of a semaphore are served in turn, in every generation.
- Cron: the scheduler's task goes on (its retries are bounded and a command has a
  timeout), the daemon completes a stop it has signalled, time passes. Admin requests
  and mishaps are not forced. `DueJobRuns` is checked up to the bound of the clock, which
  then stays; the job may also be changed so that it is not due any more.
- Consolidation: a spawned task is scheduled and its locks are fair. Turns and mishaps
  are not forced; a failure or a crash settles a status too.
- OAuth: requests keep coming and go on, waiters of the gate are served in turn
  (`tokio::sync::Mutex` is fair), cooldowns end. The vendor, the tool and the operator are
  not forced, and the run has no mishap.
- Replay guard, sessions: only safety is stated.
- Subagents: none is assumed; only safety is stated. A child's provider may take for
  ever, so that a run ends is not promised by this code.

## 5. Proofs

Assumed are `LimitsAssumption` (the limits `from_config` raises to at least 1),
`GroupAssumption` (finitely many groups, which contain what the rules resolve to),
for the surface that its channel and its batches have room for one event, as `from_config`
sees to, and that a generation has a permit (`SurfaceAssumption`,
`ConcurrencyAssumption`),
for the reload that the limits are natural numbers and that `"broken"` is no setting
(`BrokenAssumption`), and for subagents (`SubagentAssumption`) that turns and calls are finite and
apart, that a fresh entity id is no turn's, and that the limits are natural numbers.
Of the others: for cron that the jobs and requests of a bound are among all, and that
periods, budget, cooldown and hours are numbers, periods not zero; that every turn has
an entity (`TurnAssumption`); that hashes are finitely many and that time to live and
room are not zero (`GuardAssumption`); that the share a compaction keeps is at most
100 percent and its threshold not zero (`SessionsAssumption`). TLC evaluates all of
them in the runs. The theorems about `OAuthRecovery` carry their assumption, that every
request goes to an instance, themselves.

`RoutingQueueProofs` proves, for any sources, rules and limits:

1. `InductiveInvariant`: `Spec => []IInv`.
2. `TypeCorrect`, `GlobalConcurrency`, `GroupsStayBounded`, `SourceOrder`,
   `NobodyWaitsForEverybody`: the invariants of the run `routing`, all from `IInv`.
3. `ImplementsDispatch`: `Spec => DispatchSpec`, step by step: `Enqueue` accepts,
   `AcquirePermit` starts, `HandlerReturns` finishes, `SendFails`, `IdleExit` and
   `Shutdown` give up, the rest stutter.

Why `IInv` is needed. `PermitsConserved` is nearly inductive, but the others are
not. That a source's order is kept needs the order inside each channel and between
channel, held event and handled events (`GroupFifo`), that an event is in one place
and in the group it was routed to (`OnePlace`, `NoneVanishes`), and that a source
whose event still waits in its own group is not sent elsewhere (`Sticky`). `Sticky`
in turn needs that the group of a waiting event has a live worker whose sender the
map still holds (`WorkersKnown`), so that `enqueue` finds it and does not divert.
`GroupsBounded` for the tasks needs the same: live workers are known senders.
The proof that a step keeps `IInv` has one lemma per conjunct, and in it one case
per action. Lemmas on sequences (append, head and tail, distinct places) and on the
cardinality of the set of running handlers are stated once. That nobody waits for
everybody (`NeverStuck`) follows along the chain of waiting: a full channel, or one with
an event in it, has a live worker; a worker without a permit finds the permits used up
only if some handler holds one, because permits are conserved; a handler waits for
nobody.

`ReloadProofs` proves, for any admin requests, settings and limits, `ConfigTypeCorrect`,
`NothingInvalidRuns` and `PollMissesNothing`. The second needs that the candidate of the
poll, the config picked for the next generation and every admin draft can be loaded too.
The third needs that what the poll has not looked at is newer than what it has, and that
what it has looked at is active, about to become active, or cannot be loaded
(`SeenIsKnown`, which the first two races would break); and that a surface has loaded what
the daemon runs with whenever that is what the file says, unless the daemon is about to
replace both (`SurfaceFollows`, which the third would break). A lost request is harmless
to both.

It also proves, for any keys, capacities and number of arrivals and reloads, all safety of
the surface and of the surface with its routing queues:

1. `SurfaceInvariant`, and from it `SurfaceTypeCorrect` and `EventsOnce`.
2. `ImplementsIntake`: `Spec => IntakeSpec`.
3. `FailedReload`: a reload that fails costs one batch at most.
4. `RuntimeIsSurface`: `RSpec => Spec`, so that all of this holds of the composition.

The argument is that what is on its way (the merged messages, those set aside, the
channel, taken together) is one sequence, which grows at its end and leaves at its front.
`StepMoves` says so of every action: nothing moves, an event is appended, a prefix is
forwarded as one batch, or a prefix is lost. Order (`WaitsInOrder`, `BatchesAscend`),
completeness (`AllKnown`), counting and the refinement then follow from the four moves,
without the actions. That what is forwarded may be merged, as `Intake` asks, is
`CollectsOneKey`. The lemmas on sequences it rests on
(`AppendConcat`, `HeadConcat`, `CutConcat`, `SubSeqFacts`) are stated once. `FailedReload`
takes that a sequence has at most as many elements as its length.

`SubagentRunsProofs` proves the properties of the run `subagents` and that a status is
final (`FinalStays`), for any turns, entities, quotas and limits: `InvariantHolds`, and from it `TypeCorrect`,
`DelegationIsBounded`, `OvershootIsBounded`, `InlineChildrenStop`, `StatusIsFinal`
and `CancelReachesTask`. The invariant says how the parts of a call agree
(`CallsAgree`, `RunsAgree`, `HomesAgree`, `DepthsAgree`), that a context is inside
one spawn at most (`OneCallEach`) and that slots are conserved (`SlotsConserved`).
`FinalStays` needs of it that a finished task's run is running or cancelled;
`CancelAborts` that a running run whose id was returned has its handle;
`NoInlineOrphan` that an inline child's caller runs as long as the child. The bound on
the overshoot needs two arguments. A call that passed the check counts as a claim
from then on (`ClaimsBounded`). The check saw fewer than `max_descendants` runs, and
the claims it did not see are calls inside a spawn, one for each other context of the
entity at most: an injection of those calls into the contexts. That what the check
counts contains every direct run of the entity is a lemma about `Below`. That an
inline child is alone on its task once it awaits nothing (`NothingBelow`) takes the
least deep of the others, by well-foundedness of the natural numbers.

`CronSchedulerProofs` proves the six safety properties of the run `cron`, for any jobs,
requests, schedules, hours and limits. None of them is inductive. That a slot runs once
needs that the due time of a row, and of what the scheduler has read of it, is later
than the slot that ran last, unless that run was not recorded (`SlotsAhead`); this in
turn that `NextRun` is ahead of now and does not go back (`NextRunAhead`, `NextRunGrows`,
lemmas about division). That a disabled job runs at most once more needs that a job
which may be begun again has not been begun late (`LateOnce`). The breaker needs that
failures are counted in the row and known to the scheduler (`FailsCounted`); what an
update may change, that what it read is still so or marked outdated (`ReadsCurrent`).

`ConsolidationProofs` proves the four safety properties of the run `consolidation`, for
any turns and entities, on both backends, with any number of failures, crashes and
changes of the counts. Everything is relative to an era: between two falls of its count,
what a turn has counted bounds what later ones count (`CountsRise`, `CountsBounded`), and an
episode is itself an event that they count (`EpisodesCounted`). That episodes ascend needs
an explanation of every episode ahead of its watermark (`AheadExplained`): its task is
about to save it, or could not, or whatever is pending in its era was counted after it.
The last case is what a crash leaves: pending turns died with it. `TurnCovered` is
inductive with these: a task that skips finds the watermark of an episode, as recent as its
turn or, if the count fell in between, one that shadows it.

`ReplayGuardProofs` proves the four properties of the run `replay`, for any requests,
bodies, time to live and size. `FlushedMeansSaved` needs that the snapshot of a worker
that has read the newest number is the table, while nobody has an uncounted change
(`SnapshotCurrent`); `AcceptedOnce` that the entry of a request inside is its own unless
it lapsed (`EntryKept`); `ReplayAcked` the converse (`EntryOwned`). That a table fits
after pruning is cardinality of subsets.

`SessionsProofs` proves the four properties of the run `sessions`, for any clients,
sessions and limits. Nothing is stranded because a session that a resolve created is
pending in one client's transaction or was bound. `ForgottenOnlyRead` needs an order on
messages: timestamps are taken from a clock, by one client each (`Stamped`,
`PendingOwned`), so those of a transcript differ (`AllOrdered`), and a message that a
compaction has not read but that is older than one it has read was unknown when it read
(`ReadBefore`). What is older than the cutoff was then read and to be summarised, or is
late; what was to be kept is not older. That the last message to summarise exists takes
the well-foundedness of the natural numbers and a lemma on finite sets.

`OAuthRecoveryProofs` proves `OneRecoveryEach`, for any instances and requests: whoever
runs the hooks has called the provider that is still installed, so that one recovery
serves all who failed with it. It rests on the order of four accesses: a request reads
the revision before it clones the provider, a recovery replaces the provider before it
raises the revision (`Faithful`), and on the gate, which a dropped request frees
(`OneHolder`). Steps that touch none of this are one lemma (`StepQuiet`).

Only model-checked: all liveness (`EventuallySettled`, `Drained`, `EventuallyAnswered`,
the reload's `EventuallySettled`, `DueJobRuns`, `StatusSettles`), which is outside the
proof system. Safety properties of the passing runs are all proved.

## 6. Not modelled, and why

- The turn pipeline, tool loop, persona, affect and retrieval: sequential code over
  data inside one handler.
- Channel adapters, gateway transport, CLI, onboarding, desktop, plugins: input and
  output.
- Provider fallback (`core/providers/reliable.rs`): retries of one call, one after the
  other, without state between calls.
- Policy trackers and pairing: one lock each, nothing in between.
- `core/providers/circuit_breaker.rs`: no `mod` declaration names it.
- Of the modelled components: what the sections above leave out.

## 7. Plan

Done: the modules of section 2, with proofs of all their safety. What would come next:

1. A reset in `Sessions` that fails half-way, with a property for what `/new` promises,
   once the repository says what that is.
2. The orderly shutdown: the flush of the replay guard, the scheduler's grace period and
   the daemon's joins in one composition.
3. The limits of `security/policy/trackers.rs` with a clock, against a reference
   definition of a sliding window.
