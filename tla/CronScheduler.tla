--------------------------- MODULE CronScheduler ---------------------------
(***************************************************************************)
(* Cron jobs: the table cron_jobs (platform/cron/repository.rs), the       *)
(* scheduler that polls it and runs what is due                            *)
(* (platform/cron/scheduler.rs), the daemon that stops and respawns the    *)
(* scheduler (platform/daemon/run.rs), and the admin routes that change    *)
(* the table and run jobs by hand meanwhile                                *)
(* (transport/gateway/handlers/admin_cron.rs).                             *)
(*                                                                         *)
(* Every query is one step.  Nothing orders the queries of the scheduler   *)
(* and of the requests: each works on the rows it read earlier.            *)
(*                                                                         *)
(* A schedule is its period: it fires at the multiples of it.  Jobs are    *)
(* of user origin and do not expire: no entry point makes others.          *)
(***************************************************************************)
EXTENDS Naturals, FiniteSets

CONSTANTS
    Job, Initial,           \* identifiers, and those of the jobs there are at first
    Admin,                  \* admin requests
    AnyRoute,               \* bound: those that may also do other than update
    Period,                 \* the schedules
    Retries,                \* scheduler_retries
    Budget, Cooldown,       \* of the breaker; 0 switches it off
    Day, HoursStart, HoursEnd, \* scheduler_active_hours, in a day of Day ticks
    MaxTime,                \* bound: the clock
    MaxMishaps              \* bound: crashes, reloads and failed writes

ASSUME JobAssumption == Initial \subseteq Job /\ AnyRoute \subseteq Admin
ASSUME PeriodAssumption == Period \subseteq Nat \ {0} /\ Period # {}
ASSUME BreakerAssumption == Retries \in Nat /\ Budget \in Nat /\ Cooldown \in Nat
ASSUME HoursAssumption == Day \in Nat \ {0} /\ HoursStart \in Nat /\ HoursEnd \in Nat
ASSUME BoundAssumption == MaxTime \in Nat /\ MaxMishaps \in Nat

-----------------------------------------------------------------------------
VARIABLES
    clock,
    exists,    \* the jobs in the table
    row,       \* their rows
    born,      \* the identifiers given out
    pc,        \* where the scheduler is
    batch,     \* the due jobs of this poll that it has not started
    current,   \* the job it runs, a set of at most one
    snap,      \* the rows it read of them
    tries,     \* attempts of the current job that failed
    shutdown,  \* the signal of the daemon
    ask,       \* per admin request, where it is and what it holds
    mishaps,   \* history: how many there were
    past       \* history: per job, what the properties need to know

tableVars == <<exists, row, born>>
schedulerVars == <<pc, batch, current, snap, tries, shutdown>>
vars == <<clock, tableVars, schedulerVars, ask, mishaps, past>>

\* until = 0: breaker_open_until is NULL.
Row == [enabled : BOOLEAN, period : Period, due : Nat, fails : Nat, until : Nat]

\* The first firing after t (next_run_for).
NextRun(p, t) == (t \div p + 1) * p

NewRow(p, t) == [enabled |-> TRUE, period |-> p, due |-> NextRun(p, t), fails |-> 0,
                 until |-> 0]

NoRow == NewRow(CHOOSE p \in Period : TRUE, 0)
NoSnap == [j \in Job |-> NoRow]

\* What an update asks for; "keep" and 0 leave a field alone.
Want == [enabled : {"keep", "on", "off"}, period : {0} \cup Period]
Nothing == [enabled |-> "keep", period |-> 0]
Wants == {[Nothing EXCEPT !.enabled = v] : v \in {"on", "off"}}
             \cup {[Nothing EXCEPT !.period = p] : p \in Period}

\* at "update": a created job is to be disabled; "write": an update has read the
\* row; "run": a run by hand has, and runs the job.
Idle == [at |-> "idle", job |-> {}, want |-> Nothing, row |-> NoRow, stale |-> FALSE]
Done == [Idle EXCEPT !.at = "done"]

NoPast == [ran |-> 0,          \* the slot the scheduler ran last
           unrecorded |-> FALSE, \* that run never reached the table
           late |-> 0,         \* runs begun since the job was disabled or removed
           opened |-> 0,       \* when the breaker it opened is to close
           streak |-> 0,       \* failed runs in a row
           forgot |-> FALSE,   \* a failed run was not counted, or was uncounted
           crossed |-> FALSE]  \* rescheduled by an outdated schedule

\* The jobs that were added before have their next slot ahead and may have failed.
Init ==
    /\ clock = 0
    /\ exists = Initial /\ born = exists
    /\ row \in [Job -> {[NewRow(p, 0) EXCEPT !.fails = f] : p \in Period, f \in 0 .. Budget}]
    /\ \A j \in Job \ exists : row[j] = NoRow
    /\ pc = "idle" /\ batch = {} /\ current = {} /\ snap = NoSnap /\ tries = 0
    /\ shutdown = FALSE
    /\ ask = [a \in Admin |-> Idle]
    /\ mishaps = 0 /\ past = [j \in Job |-> [NoPast EXCEPT !.streak = row[j].fails]]

-----------------------------------------------------------------------------
(* The scheduler.                                                          *)

\* Mutation: hours that span midnight are not handled.
HoursWithinOneDay(t) == HoursStart = HoursEnd \/ t % Day \in HoursStart .. HoursEnd - 1

\* in_scheduler_hours
InHours(t) ==
    \/ HoursStart = HoursEnd
    \/ HoursStart < HoursEnd /\ t % Day \in HoursStart .. HoursEnd - 1
    \/ HoursStart > HoursEnd /\ t % Day \notin HoursEnd .. HoursStart - 1

Due(j) == j \in exists /\ row[j].enabled /\ row[j].due <= clock /\ row[j].until <= clock

\* Mutation: due_jobs does not look at enabled.
DueUnlessBroken(j) == j \in exists /\ row[j].due <= clock /\ row[j].until <= clock

\* due_jobs
Selected(j) == Due(j)

\* A tick outside of the active hours, or without a due job, changes nothing.
Poll ==
    /\ pc = "idle" /\ ~shutdown
    /\ InHours(clock)
    /\ \E j \in Job : Selected(j)
    /\ batch' = {j \in Job : Selected(j)}
    /\ snap' = [j \in Job |-> IF Selected(j) THEN row[j] ELSE NoRow]
    /\ pc' = "next"
    /\ UNCHANGED <<clock, tableVars, current, tries, shutdown, ask, mishaps, past>>

Active(j) == j \in exists /\ row[j].enabled

\* The next job in the order of due times.  job_breaker_is_open looks at the row
\* the poll chose, whose breaker was closed then.
Start(j) ==
    /\ pc = "next"
    /\ j \in batch /\ \A k \in batch : snap[j].due <= snap[k].due
    /\ snap[j].until <= clock
    /\ batch' = batch \ {j} /\ current' = {j}
    /\ tries' = 0
    /\ pc' = "attempt"
    /\ past' = [past EXCEPT ![j].ran = snap[j].due, ![j].unrecorded = FALSE,
                            ![j].late = IF Active(j) THEN 0 ELSE @ + 1]
    /\ UNCHANGED <<clock, tableVars, snap, shutdown, ask, mishaps>>

\* run_job_command: the command succeeds, fails, or is blocked by the policy.
\* A failed one is tried again after a pause.
Attempt ==
    /\ pc = "attempt"
    /\ \/ pc' = "ok" /\ UNCHANGED tries
       \/ tries < Retries /\ tries' = tries + 1 /\ UNCHANGED pc
       \/ pc' = "failed" /\ UNCHANGED tries
    /\ UNCHANGED <<clock, tableVars, batch, current, snap, shutdown, ask, mishaps, past>>

BreakerEnabled == Budget > 0 /\ Cooldown > 0

\* Mutation: one failure more than the budget is tolerated twice.
LateBreaker(r, success, t) ==
    IF ~BreakerEnabled \/ success THEN [r EXCEPT !.fails = 0, !.until = 0]
    ELSE IF r.fails > Budget THEN [r EXCEPT !.fails = 0, !.until = t + Cooldown]
    ELSE [r EXCEPT !.fails = @ + 1, !.until = 0]

\* next_job_breaker_state
NextBreaker(r, success, t) ==
    IF ~BreakerEnabled \/ success THEN [r EXCEPT !.fails = 0, !.until = 0]
    ELSE IF r.fails + 1 > Budget THEN [r EXCEPT !.fails = 0, !.until = t + Cooldown]
    ELSE [r EXCEPT !.fails = @ + 1, !.until = 0]

\* Mutation: the next slot is counted from the slot that was due.
FromTheSlot(r, s, fails, until) ==
    [r EXCEPT !.due = NextRun(s.period, s.due), !.fails = fails, !.until = until]

\* The UPDATE of reschedule_after_run_with_breaker_state: row r, read as s.
Rescheduled(r, s, fails, until) ==
    [r EXCEPT !.due = NextRun(s.period, clock), !.fails = fails, !.until = until]

\* After a job the signal is looked at; the rest of the batch is dropped.
Continue(j) ==
    /\ current' = {}
    /\ tries' = 0
    /\ IF shutdown THEN pc' = "stopped" /\ batch' = {} /\ snap' = NoSnap
       ELSE /\ pc' = (IF batch = {} THEN "idle" ELSE "next")
            /\ snap' = [snap EXCEPT ![j] = NoRow]
            /\ UNCHANGED batch
    /\ UNCHANGED <<clock, exists, born, shutdown, ask>>

\* The breaker is computed from the row as it was read.  A removed job's row
\* is not found, which is only logged.
Record(j) ==
    LET b == NextBreaker(snap[j], pc = "ok", clock) IN
    /\ pc \in {"ok", "failed"} /\ j \in current
    /\ IF j \in exists
       THEN row' = [row EXCEPT ![j] = Rescheduled(@, snap[j], b.fails, b.until)]
       ELSE UNCHANGED row
    /\ past' = [past EXCEPT ![j].opened = b.until,
                            ![j].streak = IF pc = "ok" \/ b.until > 0 THEN 0 ELSE @ + 1,
                            ![j].crossed = snap[j].period # row[j].period]
    /\ Continue(j)
    /\ UNCHANGED mishaps

\* The write fails, which is only logged.
RecordFails(j) ==
    /\ pc \in {"ok", "failed"} /\ j \in current
    /\ mishaps < MaxMishaps
    /\ mishaps' = mishaps + 1
    /\ past' = [past EXCEPT ![j].unrecorded = TRUE, ![j].forgot = TRUE]
    /\ Continue(j)
    /\ UNCHANGED row

-----------------------------------------------------------------------------
(* The daemon and the process.                                             *)

\* A changed configuration stops the components.
Signal ==
    /\ ~shutdown /\ mishaps < MaxMishaps
    /\ shutdown' = TRUE
    /\ mishaps' = mishaps + 1
    /\ UNCHANGED <<clock, tableVars, pc, batch, current, snap, tries, ask, past>>

Halt ==
    /\ batch' = {} /\ current' = {} /\ snap' = NoSnap /\ tries' = 0
    /\ past' = [j \in Job |-> IF j \in current
                              THEN [past[j] EXCEPT !.unrecorded = TRUE, !.forgot = TRUE]
                              ELSE past[j]]

\* The scheduler wakes up for the signal, or is aborted after the grace period,
\* which can only be where it waits.
Stop ==
    /\ shutdown /\ pc \in {"idle", "attempt"}
    /\ pc' = "stopped"
    /\ Halt
    /\ UNCHANGED <<clock, tableVars, shutdown, ask, mishaps>>

Respawn ==
    /\ pc = "stopped"
    /\ pc' = "idle" /\ shutdown' = FALSE
    /\ UNCHANGED <<clock, tableVars, batch, current, snap, tries, ask, mishaps, past>>

\* The process dies, its requests with it, and is started again.
Crash ==
    /\ mishaps < MaxMishaps
    /\ mishaps' = mishaps + 1
    /\ pc' = "idle" /\ shutdown' = FALSE
    /\ Halt
    /\ ask' = [a \in Admin |-> IF ask[a].at = "idle" THEN Idle ELSE Done]
    /\ UNCHANGED <<clock, tableVars>>

Tick ==
    /\ clock < MaxTime
    /\ clock' = clock + 1
    /\ UNCHANGED <<tableVars, schedulerVars, ask, mishaps, past>>

-----------------------------------------------------------------------------
(* The admin routes.                                                       *)

adminUnchanged == <<clock, schedulerVars, mishaps>>

\* handle_create: the job is enabled until a second statement disables it.
Create(a, j) ==
    /\ a \in AnyRoute /\ ask[a].at = "idle" /\ j \notin born
    /\ \E p \in Period : row' = [row EXCEPT ![j] = NewRow(p, clock)]
    /\ exists' = exists \cup {j} /\ born' = born \cup {j}
    /\ \/ ask' = [ask EXCEPT ![a] = Done]
       \/ ask' = [ask EXCEPT ![a] = [Idle EXCEPT !.at = "update", !.job = {j},
                                        !.want = [Nothing EXCEPT !.enabled = "off"]]]
    /\ UNCHANGED <<adminUnchanged, past>>

\* What an update uses of the row it read, and what a run by hand does.
Shown(r) == [NoRow EXCEPT !.enabled = r.enabled, !.period = r.period]
Kept(r) == [NoRow EXCEPT !.period = r.period, !.fails = r.fails, !.until = r.until]

\* update_job, for handle_update or the rest of handle_create, reads the row with
\* list_jobs ...
UpdateReads(a, j) ==
    /\ j \in exists
    /\ \E w \in Wants :
          /\ \/ ask[a].at = "idle"
             \/ ask[a].at = "update" /\ j \in ask[a].job /\ w = ask[a].want
          /\ ask' = [ask EXCEPT ![a] = [Idle EXCEPT !.at = "write", !.job = {j},
                                                   !.want = w, !.row = Shown(row[j])]]
    /\ UNCHANGED <<adminUnchanged, tableVars, past>>

\* Mutation: update_job starts from the defaults, not from the row.
MergedWithDefaults(r, w) ==
    [enabled |-> w.enabled # "off", period |-> IF w.period = 0 THEN r.period ELSE w.period]

Merged(r, w) ==
    [enabled |-> IF w.enabled = "keep" THEN r.enabled ELSE w.enabled = "on",
     period |-> IF w.period = 0 THEN r.period ELSE w.period]

Updated(r, m) ==
    [r EXCEPT !.enabled = m.enabled, !.period = m.period, !.due = NextRun(m.period, clock),
              !.until = IF m.enabled THEN @ ELSE 0]

\* ... and writes all of it back with what was asked for changed.
UpdateWrites(a, j) ==
    LET m == Merged(ask[a].row, ask[a].want) IN
    /\ ask[a].at = "write" /\ j \in ask[a].job
    /\ IF j \in exists
       THEN /\ row' = [row EXCEPT ![j] = Updated(@, m)]
            /\ past' = [past EXCEPT ![j].late = IF m.enabled THEN 0 ELSE @,
                                    ![j].opened = IF m.enabled THEN @ ELSE 0,
                                    ![j].crossed = FALSE]
            /\ ask' = [b \in Admin |->
                         IF b = a THEN Done
                         ELSE [ask[b] EXCEPT !.stale = @ \/ (ask[b].at = "write"
                                                               /\ j \in ask[b].job)]]
       ELSE ask' = [ask EXCEPT ![a] = Done] /\ UNCHANGED <<row, past>>
    /\ UNCHANGED <<adminUnchanged, exists, born>>

\* handle_remove
Remove(a, j) ==
    /\ a \in AnyRoute /\ ask[a].at = "idle" /\ j \in born
    /\ ask' = [ask EXCEPT ![a] = Done]
    /\ exists' = exists \ {j} /\ row' = [row EXCEPT ![j] = NoRow]
    /\ UNCHANGED <<adminUnchanged, born, past>>

\* handle_run: any job, due or not, enabled or not.
RunReads(a, j) ==
    /\ a \in AnyRoute /\ ask[a].at = "idle" /\ j \in exists
    /\ ask' = [ask EXCEPT ![a] = [Idle EXCEPT !.at = "run", !.job = {j}, !.row = Kept(row[j])]]
    /\ UNCHANGED <<adminUnchanged, tableVars, past>>

\* run_job_once has returned.  The breaker is written back as it was read.
RunRecords(a, j) ==
    LET s == ask[a].row IN
    /\ ask[a].at = "run" /\ j \in ask[a].job
    /\ ask' = [ask EXCEPT ![a] = Done]
    /\ IF j \in exists
       THEN /\ row' = [row EXCEPT ![j] = Rescheduled(@, s, s.fails, s.until)]
            /\ past' = [past EXCEPT
                          ![j].crossed = s.period # row[j].period,
                          ![j].opened = IF s.until = row[j].until THEN @ ELSE 0,
                          ![j].forgot = @ \/ s.fails # row[j].fails]
       ELSE UNCHANGED <<row, past>>
    /\ UNCHANGED <<adminUnchanged, exists, born>>

-----------------------------------------------------------------------------
SchedulerNext == Poll \/ Attempt \/ Respawn
                     \/ \E j \in Job : Start(j) \/ Record(j) \/ RecordFails(j)

AdminNext == \E a \in Admin, j \in Job :
    \/ Create(a, j) \/ UpdateReads(a, j) \/ UpdateWrites(a, j)
    \/ Remove(a, j) \/ RunReads(a, j) \/ RunRecords(a, j)

Next == SchedulerNext \/ AdminNext \/ Signal \/ Stop \/ Crash \/ Tick

Spec == Init /\ [][Next]_vars

\* Time passes; the scheduler's task goes on, its retries are bounded; the
\* daemon stops and respawns it; nobody has to ask for anything.
Fairness == WF_vars(SchedulerNext) /\ WF_vars(Stop) /\ WF_vars(Tick)

FairSpec == Spec /\ Fairness

-----------------------------------------------------------------------------
(* Properties.                                                             *)

\* Types; the breaker of every job of a batch was closed when it was read, so
\* that job_breaker_is_open never skips one.
TypeOK ==
    /\ clock \in Nat /\ exists \subseteq born /\ born \subseteq Job
    /\ row \in [Job -> Row] /\ snap \in [Job -> Row]
    /\ pc \in {"idle", "next", "attempt", "ok", "failed", "stopped"}
    /\ batch \subseteq Job /\ current \subseteq Job
    /\ tries \in 0 .. Retries /\ shutdown \in BOOLEAN /\ mishaps \in 0 .. MaxMishaps
    /\ ask \in [Admin -> [at : {"idle", "update", "write", "run", "done"},
                          job : SUBSET Job, want : Want, row : Row, stale : BOOLEAN]]
    /\ past \in [Job -> [ran : Nat, unrecorded : BOOLEAN, late : Nat, opened : Nat,
                         streak : Nat, forgot : BOOLEAN, crossed : BOOLEAN]]
    /\ \A j \in batch : snap[j].until <= clock

\* The scheduler runs a slot of a job once: it begins a run only for a later due
\* time than that of the run before, unless that one could not be recorded,
\* because the write failed or the scheduler was aborted or died meanwhile.
\* Reads and writes of requests in between do not bring a slot back.
SlotRunsOnce ==
    [][\A j \in current' \ current :
          snap[j].due > past[j].ran \/ past[j].unrecorded]_vars

\* A job that was disabled or removed is begun at most once more, by the batch
\* that had read it, however many jobs, reloads and requests come between.
LateRunAtMostOnce == \A j \in Job : past[j].late <= 1

\* A breaker stays closed to the scheduler until its cooldown has passed, unless
\* the job is disabled meanwhile or a run by hand that had begun before writes
\* back what it had read; and it opens after no more than the budget of failures
\* in a row, unless one of them was not recorded or a run by hand hid it.
BreakerHolds ==
    \A j \in Job :
       /\ j \in batch \cup current => past[j].opened <= clock
       /\ j \in exists /\ past[j].opened > clock => row[j].until >= past[j].opened
       /\ BreakerEnabled /\ ~past[j].forgot => past[j].streak <= Budget

\* A job waits no longer than for the next slot of the schedule it shows, unless
\* a run that had read an older schedule was recorded after the change.
OwnSchedule ==
    \A j \in exists : past[j].crossed \/ row[j].due <= NextRun(row[j].period, clock)

Asked(w, old, new) ==
    /\ new.enabled # old.enabled => w.enabled = IF new.enabled THEN "on" ELSE "off"
    /\ new.period # old.period => w.period = new.period

\* A job is switched or given another schedule only by an update that asked for
\* it, or by one whose row was outdated by another update since it read it.
OnlyAskedFor ==
    [][\A j \in exists \cap exists' :
          \/ row'[j].enabled = row[j].enabled /\ row'[j].period = row[j].period
          \/ \E a \in Admin :
                /\ ask[a].at = "write" /\ ask'[a].at = "done" /\ j \in ask[a].job
                /\ ask[a].stale \/ Asked(ask[a].want, row[j], row'[j])]_vars

\* A job that is due is run, or is changed so that it is not due, whatever other
\* jobs, failed writes, reloads and crashes come first.
DueJobRuns == \A j \in Job : Due(j) ~> (j \in current \/ ~Due(j))
=============================================================================
