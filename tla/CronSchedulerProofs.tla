------------------------ MODULE CronSchedulerProofs ------------------------
(***************************************************************************)
(* What CronScheduler promises of a slot, of a disabled job, of the        *)
(* breaker, of a schedule and of an update, for any jobs, requests,        *)
(* schedules and limits.                                                   *)
(***************************************************************************)
EXTENDS CronScheduler, TLAPS

-----------------------------------------------------------------------------
(* The invariant.                                                          *)

\* The scheduler has a batch while it works on one, and runs one job of it at a
\* time, which it has taken out of the batch.
Phased ==
    /\ pc \in {"idle", "stopped"} => batch = {}
    /\ current # {} => pc \in {"attempt", "ok", "failed"}
    /\ \A i, j \in current : i = j
    /\ batch \cap current = {}

\* Whatever is held of a job was read from a row: the job has been in the table.
Known ==
    /\ batch \cup current \subseteq born
    /\ \A a \in Admin : ask[a].job \subseteq born
    /\ \A j \in Job \ born : past[j] = NoPast

\* No late run was begun of a job that may be begun again.
LateOnce ==
    \A j \in Job : /\ past[j].late <= 1
                   /\ Active(j) \/ j \in batch => past[j].late = 0

\* The slot of a row, and the one the scheduler goes by, are later than the one it
\* ran last.
SlotsAhead ==
    \A j \in Job :
       /\ past[j].ran <= clock
       /\ j \in batch \cup current => snap[j].due <= clock
       /\ j \in batch => snap[j].due > past[j].ran \/ past[j].unrecorded
       /\ j \in exists \ current => row[j].due > past[j].ran \/ past[j].unrecorded

\* Failures are counted in the row, and the scheduler knows the count.
FailsCounted ==
    BreakerEnabled => \A j \in Job : ~past[j].forgot =>
       /\ j \in exists => row[j].fails = past[j].streak
       /\ j \in batch \cup current => snap[j].fails = past[j].streak

\* What an update has read is still so, or another update has come between.
ReadsCurrent ==
    \A a \in Admin : ask[a].at = "write" /\ ~ask[a].stale =>
       \A j \in ask[a].job \cap exists :
          ask[a].row.enabled = row[j].enabled /\ ask[a].row.period = row[j].period

IInv ==
    /\ TypeOK /\ Phased /\ Known /\ LateOnce /\ SlotsAhead
    /\ BreakerHolds /\ FailsCounted /\ OwnSchedule /\ ReadsCurrent

-----------------------------------------------------------------------------
(* Time.                                                                   *)

\* The next firing of a schedule is ahead.
LEMMA NextRunAhead ==
    ASSUME NEW p \in Nat \ {0}, NEW t \in Nat
    PROVE  NextRun(p, t) \in Nat /\ NextRun(p, t) > t
<1>. DEFINE q == t \div p
<1>1. q \in Nat /\ q * p <= t /\ t < q * p + p
  OBVIOUS
<1>. QED BY <1>1 DEF NextRun

\* It does not move back as time passes.
LEMMA NextRunGrows ==
    ASSUME NEW p \in Nat \ {0}, NEW t \in Nat, NEW u \in Nat, t <= u
    PROVE  NextRun(p, t) <= NextRun(p, u)
<1>. DEFINE q == t \div p
            r == u \div p
<1>1. q \in Nat /\ r \in Nat /\ q * p <= t /\ u < (r + 1) * p
  OBVIOUS
<1>2. q <= r
  <2>1. SUFFICES ASSUME r + 1 <= q PROVE FALSE
    BY <1>1
  <2>2. (r + 1) * p <= q * p
    BY <1>1, <2>1
  <2>. QED BY <1>1, <2>2
<1>3. (q + 1) * p <= (r + 1) * p
  BY <1>1, <1>2
<1>. QED BY <1>3 DEF NextRun

-----------------------------------------------------------------------------
(* Rows.                                                                   *)

\* New rows are rows, and so is the one that stands for none.
LEMMA NewRows ==
    /\ \A p \in Period, t \in Nat : NewRow(p, t) \in Row
    /\ NoRow \in Row
<1>1. ASSUME NEW p \in Period, NEW t \in Nat PROVE NewRow(p, t) \in Row
  <2>1. NextRun(p, t) \in Nat
    BY NextRunAhead, PeriodAssumption
  <2>. QED BY <2>1 DEF NewRow, Row
<1>2. (CHOOSE p \in Period : TRUE) \in Period
  BY PeriodAssumption
<1>. QED BY <1>1, <1>2 DEF NoRow

\* The breaker that is computed for a row.
LEMMA BreakerOf ==
    ASSUME NEW r \in Row, NEW success \in BOOLEAN, NEW t \in Nat
    PROVE  /\ NextBreaker(r, success, t) \in Row
           /\ NextBreaker(r, success, t).fails \in Nat
           /\ NextBreaker(r, success, t).until \in Nat
<1>1. ASSUME NEW f \in Nat, NEW u \in Nat
      PROVE  [r EXCEPT !.fails = f, !.until = u] \in Row
  BY DEF Row
<1>2. r.fails + 1 \in Nat /\ t + Cooldown \in Nat
  BY BreakerAssumption DEF Row
<1>3. NextBreaker(r, success, t) \in Row
  BY <1>1, <1>2 DEF NextBreaker
<1>. QED BY <1>3 DEF Row

\* A row that is rescheduled is a row, with its next slot ahead.
LEMMA RescheduledRow ==
    ASSUME NEW r \in Row, NEW s \in Row, NEW f \in Nat, NEW u \in Nat, clock \in Nat
    PROVE  /\ Rescheduled(r, s, f, u) \in Row
           /\ Rescheduled(r, s, f, u).due = NextRun(s.period, clock)
           /\ Rescheduled(r, s, f, u).due > clock
           /\ Rescheduled(r, s, f, u).enabled = r.enabled
           /\ Rescheduled(r, s, f, u).period = r.period
           /\ Rescheduled(r, s, f, u).fails = f
           /\ Rescheduled(r, s, f, u).until = u
<1>1. s.period \in Nat \ {0}
  BY PeriodAssumption DEF Row
<1>2. NextRun(s.period, clock) \in Nat /\ NextRun(s.period, clock) > clock
  BY <1>1, NextRunAhead
<1>. QED BY <1>2 DEF Rescheduled, Row

\* What an update merges is fit for a row.
LEMMA MergedRow ==
    ASSUME NEW r \in Row, NEW w \in Want
    PROVE  Merged(r, w).enabled \in BOOLEAN /\ Merged(r, w).period \in Period
BY DEF Merged, Row, Want

\* What an update makes of a row.
LEMMA UpdatedRow ==
    ASSUME NEW r \in Row, NEW m, m.enabled \in BOOLEAN, m.period \in Period, clock \in Nat
    PROVE  /\ Updated(r, m) \in Row
           /\ Updated(r, m).due = NextRun(m.period, clock)
           /\ Updated(r, m).due > clock
           /\ Updated(r, m).enabled = m.enabled
           /\ Updated(r, m).period = m.period
           /\ Updated(r, m).fails = r.fails
           /\ Updated(r, m).until = IF m.enabled THEN r.until ELSE 0
<1>1. NextRun(m.period, clock) \in Nat /\ NextRun(m.period, clock) > clock
  BY NextRunAhead, PeriodAssumption
<1>. QED BY <1>1 DEF Updated, Row

-----------------------------------------------------------------------------
(* The steps.                                                              *)

\* Next, action by action.
LEMMA Steps ==
    ASSUME Next
    PROVE  \/ Poll \/ Attempt \/ Respawn \/ Signal \/ Stop \/ Crash \/ Tick
           \/ \E j \in Job : Start(j) \/ Record(j) \/ RecordFails(j)
           \/ \E a \in Admin, j \in Job :
                \/ Create(a, j) \/ UpdateReads(a, j) \/ UpdateWrites(a, j)
                \/ Remove(a, j) \/ RunReads(a, j) \/ RunRecords(a, j)
BY DEF Next, SchedulerNext, AdminNext

\* The invariant holds at the start.
LEMMA InitInv == Init => IInv
<1>. SUFFICES ASSUME Init PROVE IInv
  OBVIOUS
<1>1. /\ row \in [Job -> Row]
      /\ \A j \in Job : row[j].fails \in 0 .. Budget /\ row[j].due \in Nat /\ row[j].until = 0
      /\ \A j \in Job \ born : row[j] = NoRow /\ row[j].fails = 0
      /\ \A j \in exists : row[j].due = NextRun(row[j].period, 0) /\ row[j].due > 0
  <2>. DEFINE R(p, f) == [NewRow(p, 0) EXCEPT !.fails = f]
  <2>1. ASSUME NEW p \in Period, NEW f \in 0 .. Budget
        PROVE  /\ R(p, f) \in Row /\ R(p, f).fails = f /\ R(p, f).until = 0
               /\ R(p, f).period = p /\ R(p, f).due = NextRun(p, 0) /\ R(p, f).due > 0
    <3>1. NextRun(p, 0) \in Nat /\ NextRun(p, 0) > 0 /\ f \in Nat
      BY NextRunAhead, PeriodAssumption, BreakerAssumption
    <3>2. /\ NewRow(p, 0) \in Row /\ NewRow(p, 0).until = 0
          /\ NewRow(p, 0).period = p /\ NewRow(p, 0).due = NextRun(p, 0)
      BY NewRows DEF NewRow
    <3>3. ASSUME NEW r \in Row
          PROVE  LET q == [r EXCEPT !.fails = f] IN
                 /\ q \in Row /\ q.fails = f /\ q.until = r.until
                 /\ q.period = r.period /\ q.due = r.due
      BY <3>1 DEF Row
    <3>. QED BY <3>1, <3>2, <3>3
  <2>2. NoRow.fails = 0
    BY DEF NoRow, NewRow
  <2>3. ASSUME NEW j \in Job
        PROVE  \E p \in Period, f \in 0 .. Budget : row[j] = R(p, f)
    <3>1. row[j] \in {[NewRow(p, 0) EXCEPT !.fails = f] : p \in Period, f \in 0 .. Budget}
      BY DEF Init
    <3>. QED BY <3>1
  <2>. HIDE DEF R
  <2>4. \A j \in Job : /\ row[j] \in Row /\ row[j].fails \in 0 .. Budget
                        /\ row[j].due \in Nat /\ row[j].until = 0
                        /\ row[j].due = NextRun(row[j].period, 0) /\ row[j].due > 0
    <3>1. \A r \in Row : r.due \in Nat
      BY DEF Row
    <3>. QED BY <2>1, <2>3, <3>1
  <2>5. row = [j \in Job |-> row[j]]
    BY DEF Init
  <2>. QED BY <2>2, <2>4, <2>5, JobAssumption DEF Init
<1>2. past \in [Job -> [ran : Nat, unrecorded : BOOLEAN, late : Nat, opened : Nat,
                        streak : Nat, forgot : BOOLEAN, crossed : BOOLEAN]]
      /\ \A j \in Job : past[j] = [NoPast EXCEPT !.streak = row[j].fails]
  <2>1. \A j \in Job : row[j].fails \in Nat
    BY <1>1, BreakerAssumption
  <2>. QED BY <2>1 DEF Init, NoPast
<1>3. TypeOK
  <2>1. NoSnap \in [Job -> Row] /\ Nothing \in Want
    BY NewRows DEF NoSnap, Nothing, Want
  <2>2. Idle \in [at : {"idle", "update", "write", "run", "done"},
                  job : SUBSET Job, want : Want, row : Row, stale : BOOLEAN]
    BY <2>1, NewRows DEF Idle
  <2>3. /\ exists \subseteq Job /\ ask = [a \in Admin |-> Idle]
        /\ tries \in 0 .. Retries /\ mishaps \in 0 .. MaxMishaps
    BY JobAssumption, BoundAssumption, BreakerAssumption DEF Init
  <2>. QED BY <1>1, <1>2, <2>1, <2>2, <2>3 DEF Init, TypeOK
<1>4. Phased /\ Known /\ LateOnce /\ ReadsCurrent
  BY <1>1, <1>2 DEF Init, Phased, Known, LateOnce, ReadsCurrent, Idle, NoPast
<1>5. SlotsAhead /\ BreakerHolds /\ FailsCounted /\ OwnSchedule
  <2>1. \A j \in Job : /\ past[j].ran = 0 /\ past[j].opened = 0
                        /\ past[j].streak = row[j].fails
    BY <1>2 DEF NoPast
  <2>2. clock = 0 /\ batch = {} /\ current = {} /\ exists \subseteq Job
    BY JobAssumption DEF Init
  <2>. QED BY <1>1, <2>1, <2>2, BreakerAssumption
           DEF SlotsAhead, BreakerHolds, FailsCounted, OwnSchedule
<1>. QED BY <1>3, <1>4, <1>5 DEF IInv

\* The rows a step leaves are rows.
LEMMA StepRows ==
    ASSUME TypeOK, Next
    PROVE  row' \in [Job -> Row]
<1>. USE DEF TypeOK
<1>1. ASSUME NEW j \in Job, Record(j) PROVE row' \in [Job -> Row]
  <2>. DEFINE b == NextBreaker(snap[j], pc = "ok", clock)
  <2>1. b.fails \in Nat /\ b.until \in Nat
    BY BreakerOf
  <2>2. Rescheduled(row[j], snap[j], b.fails, b.until) \in Row
    BY <2>1, RescheduledRow
  <2>. QED BY <1>1, <2>2 DEF Record
<1>2. ASSUME NEW a \in Admin, NEW j \in Job, Create(a, j) PROVE row' \in [Job -> Row]
  BY <1>2, NewRows DEF Create
<1>3. ASSUME NEW a \in Admin, NEW j \in Job, UpdateWrites(a, j) PROVE row' \in [Job -> Row]
  <2>. DEFINE m == Merged(ask[a].row, ask[a].want)
  <2>1. m.enabled \in BOOLEAN /\ m.period \in Period
    BY MergedRow
  <2>2. Updated(row[j], m) \in Row
    BY <2>1, UpdatedRow
  <2>3. row' = row \/ row' = [row EXCEPT ![j] = Updated(row[j], m)]
    BY <1>3 DEF UpdateWrites
  <2>. HIDE DEF m
  <2>. QED BY <2>2, <2>3
<1>4. ASSUME NEW a \in Admin, NEW j \in Job, Remove(a, j) PROVE row' \in [Job -> Row]
  BY <1>4, NewRows DEF Remove
<1>5. ASSUME NEW a \in Admin, NEW j \in Job, RunRecords(a, j) PROVE row' \in [Job -> Row]
  <2>. DEFINE s == ask[a].row
  <2>1. s \in Row /\ s.fails \in Nat /\ s.until \in Nat
    BY DEF Row
  <2>2. Rescheduled(row[j], s, s.fails, s.until) \in Row
    BY <2>1, RescheduledRow
  <2>3. row' = row \/ row' = [row EXCEPT ![j] = Rescheduled(row[j], s, s.fails, s.until)]
    BY <1>5 DEF RunRecords
  <2>. HIDE DEF s
  <2>. QED BY <2>2, <2>3
<1>6. \/ row' = row
      \/ \E j \in Job : Record(j)
      \/ \E a \in Admin, j \in Job : Create(a, j) \/ UpdateWrites(a, j) \/ Remove(a, j)
                                       \/ RunRecords(a, j)
  BY Steps DEF Poll, Attempt, Respawn, Signal, Stop, Crash, Tick, Start, RecordFails,
               UpdateReads, RunReads, tableVars
<1>. QED BY <1>1, <1>2, <1>3, <1>4, <1>5, <1>6

-----------------------------------------------------------------------------
(* Types.                                                                  *)

\* What is known of a request and of a job.
Ask == [at : {"idle", "update", "write", "run", "done"},
        job : SUBSET Job, want : Want, row : Row, stale : BOOLEAN]
History == [ran : Nat, unrecorded : BOOLEAN, late : Nat, opened : Nat,
            streak : Nat, forgot : BOOLEAN, crossed : BOOLEAN]

\* What a request holds before it begins and after it ended.
LEMMA Resting ==
    /\ Idle \in Ask /\ Idle.job = {} /\ Idle.at = "idle" /\ ~Idle.stale
    /\ Done \in Ask /\ Done.job = {} /\ Done.at = "done"
<1>1. NoRow \in Row /\ Nothing \in Want
  BY NewRows DEF Nothing, Want
<1>2. Idle \in Ask /\ Idle.job = {} /\ Idle.at = "idle" /\ ~Idle.stale
  BY <1>1 DEF Idle, Ask
<1>. QED BY <1>2 DEF Done, Ask

\* What it holds in between.
LEMMA Asking ==
    ASSUME NEW j \in Job, NEW w \in Want, NEW r \in Row
    PROVE  /\ [Idle EXCEPT !.at = "update", !.job = {j}, !.want = w] \in Ask
           /\ [Idle EXCEPT !.at = "write", !.job = {j}, !.want = w, !.row = r] \in Ask
           /\ [Idle EXCEPT !.at = "run", !.job = {j}, !.row = r] \in Ask
BY Resting DEF Ask

\* Where it is then, and with what.
LEMMA AskingOf ==
    ASSUME NEW j, NEW w, NEW r
    PROVE  /\ [Idle EXCEPT !.at = "update", !.job = {j}, !.want = w].job = {j}
           /\ [Idle EXCEPT !.at = "update", !.job = {j}, !.want = w].at = "update"
           /\ [Idle EXCEPT !.at = "write", !.job = {j}, !.want = w, !.row = r].job = {j}
           /\ [Idle EXCEPT !.at = "write", !.job = {j}, !.want = w, !.row = r].row = r
           /\ [Idle EXCEPT !.at = "run", !.job = {j}, !.row = r].job = {j}
           /\ [Idle EXCEPT !.at = "run", !.job = {j}, !.row = r].at = "run"
BY Resting DEF Ask

\* What the requests hold keeps its type.
LEMMA StepAsk ==
    ASSUME TypeOK, Next
    PROVE  ask' \in [Admin -> Ask]
<1>1. /\ ask \in [Admin -> Ask] /\ NoRow \in Row /\ Nothing \in Want
      /\ Idle \in Ask /\ Done \in Ask
  BY NewRows, Resting DEF TypeOK, Ask, Nothing, Want
<1>2. CASE Crash
  BY <1>1, <1>2 DEF Crash
<1>3. ASSUME NEW a \in Admin, NEW j \in Job, Create(a, j) PROVE ask' \in [Admin -> Ask]
  <2>1. [Nothing EXCEPT !.enabled = "off"] \in Want
    BY DEF Nothing, Want
  <2>2. [Idle EXCEPT !.at = "update", !.job = {j}, !.want = [Nothing EXCEPT !.enabled = "off"]]
        \in Ask
    BY <1>1, <2>1, Asking
  <2>. QED BY <1>1, <1>3, <2>2 DEF Create
<1>4. ASSUME NEW a \in Admin, NEW j \in Job, UpdateReads(a, j) PROVE ask' \in [Admin -> Ask]
  <2>1. Wants \subseteq Want
    BY DEF Wants, Want, Nothing
  <2>2. Shown(row[j]) \in Row
    BY <1>1 DEF Shown, TypeOK, Row
  <2>3. \A w \in Wants : [Idle EXCEPT !.at = "write", !.job = {j}, !.want = w,
                                     !.row = Shown(row[j])] \in Ask
    BY <2>1, <2>2, Asking
  <2>. QED BY <1>1, <1>4, <2>3 DEF UpdateReads
<1>5. ASSUME NEW a \in Admin, NEW j \in Job, UpdateWrites(a, j) PROVE ask' \in [Admin -> Ask]
  <2>1. \A b \in Admin : [ask[b] EXCEPT !.stale = @ \/ (ask[b].at = "write" /\ j \in ask[b].job)]
                         \in Ask
    BY <1>1 DEF Ask
  <2>. QED BY <1>1, <1>5, <2>1 DEF UpdateWrites
<1>6. ASSUME NEW a \in Admin, NEW j \in Job, RunReads(a, j) PROVE ask' \in [Admin -> Ask]
  <2>1. Kept(row[j]) \in Row
    BY <1>1 DEF Kept, TypeOK, Row
  <2>2. [Idle EXCEPT !.at = "run", !.job = {j}, !.row = Kept(row[j])] \in Ask
    BY <1>1, <2>1, Asking
  <2>. QED BY <1>1, <1>6, <2>2 DEF RunReads
<1>7. ASSUME NEW a \in Admin, NEW j \in Job, Remove(a, j) \/ RunRecords(a, j)
      PROVE  ask' \in [Admin -> Ask]
  BY <1>1, <1>7 DEF Remove, RunRecords
<1>8. CASE ask' = ask
  BY <1>1, <1>8
<1>. QED BY <1>2, <1>3, <1>4, <1>5, <1>6, <1>7, <1>8, Steps
         DEF Poll, Attempt, Respawn, Signal, Stop, Tick, Start, Record, RecordFails, Continue

\* What is remembered of the jobs keeps its type.
LEMMA StepPast ==
    ASSUME TypeOK, Next
    PROVE  past' \in [Job -> History]
<1>1. past \in [Job -> History] /\ snap \in [Job -> Row] /\ row \in [Job -> Row]
  BY DEF TypeOK, History
<1>2. ASSUME NEW h \in History, NEW u \in BOOLEAN, NEW n \in Nat, NEW m \in Nat
      PROVE  /\ [h EXCEPT !.ran = n, !.unrecorded = u, !.late = m] \in History
             /\ [h EXCEPT !.opened = n, !.streak = m, !.crossed = u] \in History
             /\ [h EXCEPT !.unrecorded = TRUE, !.forgot = TRUE] \in History
             /\ [h EXCEPT !.late = n, !.opened = m, !.crossed = FALSE] \in History
  BY DEF History
<1>3. ASSUME NEW h \in History, NEW u \in BOOLEAN, NEW v \in BOOLEAN, NEW n \in Nat
      PROVE  [h EXCEPT !.crossed = u, !.opened = n, !.forgot = v] \in History
  BY DEF History
<1>4. \A h \in History : /\ h.late \in Nat /\ h.late + 1 \in Nat /\ h.opened \in Nat
                         /\ h.streak \in Nat /\ h.streak + 1 \in Nat /\ h.forgot \in BOOLEAN
  BY DEF History
<1>5. \A r \in Row : r.due \in Nat /\ r.until \in Nat
  BY DEF Row
<1>6. ASSUME NEW j \in Job, Start(j) PROVE past' \in [Job -> History]
  BY <1>1, <1>2, <1>4, <1>5, <1>6 DEF Start
<1>7. ASSUME NEW j \in Job, Record(j) PROVE past' \in [Job -> History]
  <2>. DEFINE until == NextBreaker(snap[j], pc = "ok", clock).until
              streak == IF pc = "ok" \/ until > 0 THEN 0 ELSE past[j].streak + 1
              crossed == snap[j].period # row[j].period
              h == [past[j] EXCEPT !.opened = until, !.streak = streak, !.crossed = crossed]
  <2>1. until \in Nat /\ streak \in Nat /\ crossed \in BOOLEAN
    BY <1>1, <1>4, BreakerOf DEF TypeOK
  <2>2. past' = [past EXCEPT ![j] = h]
    BY <1>7 DEF Record
  <2>. HIDE DEF until, streak, crossed
  <2>3. h \in History
    BY <1>1, <1>2, <2>1
  <2>. HIDE DEF h
  <2>. QED BY <1>1, <2>2, <2>3
<1>8. ASSUME NEW j \in Job, RecordFails(j) PROVE past' \in [Job -> History]
  BY <1>1, <1>2, <1>8 DEF RecordFails
<1>9. ASSUME Halt PROVE past' \in [Job -> History]
  BY <1>1, <1>2, <1>9 DEF Halt
<1>10. ASSUME NEW a \in Admin, NEW j \in Job, UpdateWrites(a, j)
       PROVE  past' \in [Job -> History]
  <2>. DEFINE on == Merged(ask[a].row, ask[a].want).enabled
              late == IF on THEN 0 ELSE past[j].late
              opened == IF on THEN past[j].opened ELSE 0
  <2>1. late \in Nat /\ opened \in Nat
    BY <1>1, <1>4
  <2>2. [past[j] EXCEPT !.late = late, !.opened = opened, !.crossed = FALSE] \in History
    BY <1>1, <1>2, <2>1
  <2>3. \/ past' = past
        \/ past' = [past EXCEPT ![j] = [past[j] EXCEPT !.late = late, !.opened = opened,
                                                       !.crossed = FALSE]]
    BY <1>10 DEF UpdateWrites
  <2>. HIDE DEF on, late, opened
  <2>. QED BY <1>1, <2>2, <2>3
<1>11. ASSUME NEW a \in Admin, NEW j \in Job, RunRecords(a, j) PROVE past' \in [Job -> History]
  <2>. DEFINE s == ask[a].row
              crossed == s.period # row[j].period
              opened == IF s.until = row[j].until THEN past[j].opened ELSE 0
              forgot == past[j].forgot \/ s.fails # row[j].fails
  <2>1. opened \in Nat /\ crossed \in BOOLEAN /\ forgot \in BOOLEAN
    BY <1>1, <1>4
  <2>2. [past[j] EXCEPT !.crossed = crossed, !.opened = opened, !.forgot = forgot] \in History
    BY <1>1, <1>3, <2>1
  <2>3. \/ past' = past
        \/ past' = [past EXCEPT ![j] = [past[j] EXCEPT !.crossed = crossed, !.opened = opened,
                                                       !.forgot = forgot]]
    BY <1>11 DEF RunRecords
  <2>. HIDE DEF s, crossed, opened, forgot
  <2>. QED BY <1>1, <2>2, <2>3
<1>12. CASE past' = past
  BY <1>1, <1>12
<1>. QED BY <1>6, <1>7, <1>8, <1>9, <1>10, <1>11, <1>12, Steps
         DEF Poll, Attempt, Respawn, Signal, Tick, Stop, Crash, Create, UpdateReads, Remove,
             RunReads

\* A step keeps the types.
LEMMA StepType == TypeOK /\ [Next]_vars => TypeOK'
<1>. SUFFICES ASSUME TypeOK, [Next]_vars PROVE TypeOK'
  OBVIOUS
<1>1. CASE UNCHANGED vars
  BY <1>1 DEF vars, tableVars, schedulerVars, TypeOK
<1>2. CASE Next
  <2>. DEFINE Machine == /\ clock \in Nat /\ exists \subseteq born /\ born \subseteq Job
                         /\ snap \in [Job -> Row]
                         /\ pc \in {"idle", "next", "attempt", "ok", "failed", "stopped"}
                         /\ batch \subseteq Job /\ current \subseteq Job
                         /\ tries \in 0 .. Retries /\ shutdown \in BOOLEAN
                         /\ mishaps \in 0 .. MaxMishaps
                         /\ \A j \in batch : snap[j].until <= clock
  <2>1. row' \in [Job -> Row] /\ ask' \in [Admin -> Ask] /\ past' \in [Job -> History]
    BY <1>2, StepRows, StepAsk, StepPast
  <2>2. Machine /\ row \in [Job -> Row]
    BY DEF TypeOK
  <2>3. NoRow \in Row /\ NoSnap \in [Job -> Row] /\ 0 \in 0 .. Retries
    BY NewRows, BreakerAssumption DEF NoSnap
  <2>. USE DEF tableVars, schedulerVars
  <2>4. ASSUME Poll PROVE Machine'
    BY <2>2, <2>3, <2>4 DEF Poll, Selected, Due
  <2>5. ASSUME Attempt PROVE Machine'
    BY <2>2, <2>5, BreakerAssumption DEF Attempt
  <2>6. ASSUME Respawn \/ Signal PROVE Machine'
    <3>1. mishaps' \in 0 .. MaxMishaps
      BY <2>2, <2>6, BoundAssumption DEF Respawn, Signal
    <3>2. shutdown' \in BOOLEAN
      BY <2>6 DEF Respawn, Signal
    <3>. QED BY <2>2, <2>6, <3>1, <3>2 DEF Respawn, Signal
  <2>7. ASSUME Stop \/ Crash PROVE Machine'
    <3>1. mishaps' \in 0 .. MaxMishaps
      BY <2>2, <2>7, BoundAssumption DEF Stop, Crash
    <3>2. shutdown' \in BOOLEAN
      BY <2>2, <2>7 DEF Stop, Crash
    <3>3. batch' = {} /\ current' = {} /\ snap' = NoSnap /\ tries' = 0
      BY <2>7 DEF Stop, Crash, Halt
    <3>4. clock' = clock /\ exists' = exists /\ born' = born /\ pc' \in {"idle", "stopped"}
      BY <2>7 DEF Stop, Crash
    <3>. QED BY <2>2, <2>3, <3>1, <3>2, <3>3, <3>4
  <2>8. ASSUME Tick PROVE Machine'
    <3>1. \A r \in Row : r.until \in Nat
      BY DEF Row
    <3>. QED BY <2>2, <2>8, <3>1 DEF Tick
  <2>9. ASSUME NEW j \in Job, Start(j) PROVE Machine'
    BY <2>2, <2>3, <2>9 DEF Start
  <2>10. ASSUME NEW j \in Job, Record(j) \/ RecordFails(j) PROVE Machine'
    <3>1. Continue(j) /\ mishaps' \in 0 .. MaxMishaps
      BY <2>2, <2>10, BoundAssumption DEF Record, RecordFails
    <3>2. NoRow.until = 0
      BY DEF NoRow, NewRow
    <3>. QED BY <2>2, <2>3, <3>1, <3>2 DEF Continue
  <2>11. ASSUME NEW a \in Admin, NEW j \in Job,
                \/ Create(a, j) \/ UpdateReads(a, j) \/ UpdateWrites(a, j)
                \/ Remove(a, j) \/ RunReads(a, j) \/ RunRecords(a, j)
         PROVE  Machine'
    BY <2>2, <2>11 DEF Create, UpdateReads, UpdateWrites, Remove, RunReads, RunRecords,
                       adminUnchanged
  <2>12. Machine'
    BY <1>2, <2>4, <2>5, <2>6, <2>7, <2>8, <2>9, <2>10, <2>11, Steps
  <2>. QED BY <2>1, <2>12 DEF TypeOK, Ask, History
<1>. QED BY <1>1, <1>2

\* The scheduler has no batch where it rests, and takes jobs out of it one by one.
LEMMA StepPhased == IInv /\ [Next]_vars => Phased'
<1>. SUFFICES ASSUME TypeOK, Phased, [Next]_vars PROVE Phased'
  BY DEF IInv
<1>. USE DEF TypeOK, Phased, schedulerVars
<1>1. CASE UNCHANGED schedulerVars
  BY <1>1
<1>2. CASE Poll \/ Attempt \/ Respawn \/ Signal \/ Stop \/ Crash
  BY <1>2 DEF Poll, Attempt, Respawn, Signal, Stop, Crash, Halt
<1>3. ASSUME NEW j \in Job, Start(j) \/ Record(j) \/ RecordFails(j) PROVE Phased'
  <2>1. CASE Start(j)
    BY <1>3, <2>1 DEF Start
  <2>2. CASE Continue(j) /\ pc \in {"ok", "failed"}
    BY <2>2 DEF Continue
  <2>. QED BY <1>3, <2>1, <2>2 DEF Record, RecordFails
<1>4. UNCHANGED vars => UNCHANGED schedulerVars
  BY DEF vars
<1>5. ASSUME NEW a \in Admin, NEW j \in Job,
             \/ Create(a, j) \/ UpdateReads(a, j) \/ UpdateWrites(a, j)
             \/ Remove(a, j) \/ RunReads(a, j) \/ RunRecords(a, j)
      PROVE  UNCHANGED schedulerVars
  BY <1>5 DEF Create, UpdateReads, UpdateWrites, Remove, RunReads, RunRecords, adminUnchanged
<1>6. \/ UNCHANGED schedulerVars
      \/ Poll \/ Attempt \/ Respawn \/ Signal \/ Stop \/ Crash
      \/ \E j \in Job : Start(j) \/ Record(j) \/ RecordFails(j)
  BY <1>4, <1>5, Steps DEF Tick
<1>. QED BY <1>1, <1>2, <1>3, <1>6

\* Nothing is held of an identifier that was not given out.
LEMMA StepKnown == IInv /\ [Next]_vars => Known'
<1>. SUFFICES ASSUME TypeOK, Known, [Next]_vars PROVE Known'
  BY DEF IInv
<1>. USE DEF TypeOK, Known, tableVars, schedulerVars
<1>1. CASE UNCHANGED vars \/ Poll \/ Attempt \/ Respawn \/ Signal \/ Tick
  BY <1>1 DEF vars, Poll, Attempt, Respawn, Signal, Tick, Selected, Due
<1>2. CASE Stop
  BY <1>2 DEF Stop, Halt
<1>3. CASE Crash
  BY <1>3 DEF Crash, Halt, Done, Idle
<1>4. ASSUME NEW j \in Job, Start(j) \/ Record(j) \/ RecordFails(j) PROVE Known'
  BY <1>4 DEF Start, Record, RecordFails, Continue
<1>5. ASSUME NEW a \in Admin, NEW j \in Job,
             \/ Create(a, j) \/ UpdateReads(a, j) \/ UpdateWrites(a, j)
             \/ Remove(a, j) \/ RunReads(a, j) \/ RunRecords(a, j)
      PROVE  Known'
  <2>1. born' = born \/ (Create(a, j) /\ born' = born \cup {j})
    BY <1>5 DEF Create, UpdateReads, UpdateWrites, Remove, RunReads, RunRecords
  <2>2. \A i \in Job \ born : past'[i] = past[i]
    BY <1>5 DEF Create, UpdateReads, UpdateWrites, Remove, RunReads, RunRecords
  <2>3. ASSUME NEW b \in Admin PROVE ask'[b].job \subseteq ask[b].job \cup ({j} \cap born')
    <3>1. CASE Create(a, j)
      <4>. DEFINE q == [Idle EXCEPT !.at = "update", !.job = {j},
                                    !.want = [Nothing EXCEPT !.enabled = "off"]]
      <4>1. ask' = [ask EXCEPT ![a] = Done] \/ ask' = [ask EXCEPT ![a] = q]
        BY <3>1 DEF Create
      <4>2. q.job = {j}
        BY AskingOf
      <4>3. j \in born'
        BY <3>1 DEF Create
      <4>. HIDE DEF q
      <4>. QED BY <4>1, <4>2, <4>3, Resting
    <3>2. CASE UpdateReads(a, j)
      BY <3>2, Resting, AskingOf DEF UpdateReads
    <3>3. CASE UpdateWrites(a, j)
      <4>1. \A x : [ask[b] EXCEPT !.stale = x].job = ask[b].job
        BY DEF Ask
      <4>. QED BY <3>3, <4>1, Resting DEF UpdateWrites
    <3>4. CASE Remove(a, j) \/ RunRecords(a, j)
      BY <3>4, Resting DEF Remove, RunRecords
    <3>5. CASE RunReads(a, j)
      BY <3>5, Resting, AskingOf DEF RunReads
    <3>. QED BY <1>5, <3>1, <3>2, <3>3, <3>4, <3>5
  <2>4. UNCHANGED schedulerVars
    BY <1>5 DEF Create, UpdateReads, UpdateWrites, Remove, RunReads, RunRecords, adminUnchanged
  <2>. QED BY <2>1, <2>2, <2>3, <2>4
<1>. QED BY <1>1, <1>2, <1>3, <1>4, <1>5, Steps

-----------------------------------------------------------------------------
(* What the steps do, field by field.                                      *)

\* The steps that change neither the table nor what the scheduler holds of it.
Quiet == \/ UNCHANGED vars \/ Attempt \/ Respawn \/ Signal \/ Tick
         \/ \E a \in Admin, j \in Job : UpdateReads(a, j) \/ RunReads(a, j)

\* They do just that.
LEMMA Quietly ==
    ASSUME Quiet, clock \in Nat
    PROVE  /\ UNCHANGED <<tableVars, batch, current, snap, past>>
           /\ clock' \in Nat /\ clock <= clock'
<1>1. CASE UNCHANGED vars
  BY <1>1 DEF vars, schedulerVars
<1>2. CASE Attempt \/ Respawn \/ Signal
  BY <1>2 DEF Attempt, Respawn, Signal
<1>3. CASE Tick
  BY <1>3 DEF Tick, schedulerVars
<1>4. ASSUME NEW a \in Admin, NEW j \in Job, UpdateReads(a, j) \/ RunReads(a, j)
      PROVE  UNCHANGED <<clock, tableVars, batch, current, snap, past>>
  BY <1>4 DEF UpdateReads, RunReads, adminUnchanged, schedulerVars
<1>. QED BY <1>1, <1>2, <1>3, <1>4 DEF Quiet

\* The steps.
LEMMA ActionSteps ==
    ASSUME [Next]_vars
    PROVE  \/ Quiet \/ Poll \/ Stop \/ Crash
           \/ \E j \in Job : Start(j) \/ Record(j) \/ RecordFails(j)
           \/ \E a \in Admin, j \in Job :
                Create(a, j) \/ UpdateWrites(a, j) \/ Remove(a, j) \/ RunRecords(a, j)
BY Steps DEF Quiet

\* A poll takes the due rows.
LEMMA Polled ==
    ASSUME TypeOK, Poll
    PROVE  /\ UNCHANGED <<clock, tableVars, current, past>>
           /\ \A j \in batch' : /\ j \in exists /\ row[j].enabled /\ row[j].due <= clock
                                /\ row[j].until <= clock /\ snap'[j] = row[j]
           /\ batch' \subseteq Job
BY DEF TypeOK, Poll, Selected, Due

\* The start of a run.
LEMMA Started ==
    ASSUME TypeOK, NEW j \in Job, Start(j)
    PROVE  /\ UNCHANGED <<clock, tableVars, snap>>
           /\ j \in batch /\ batch' = batch \ {j} /\ current' = {j}
           /\ \A i \in Job : i # j => past'[i] = past[i]
           /\ past'[j].ran = snap[j].due /\ ~past'[j].unrecorded
           /\ past'[j].late = IF Active(j) THEN 0 ELSE past[j].late + 1
           /\ past'[j].opened = past[j].opened /\ past'[j].streak = past[j].streak
           /\ past'[j].forgot = past[j].forgot /\ past'[j].crossed = past[j].crossed
BY DEF TypeOK, Start

\* What the scheduler forgets when it goes on.
LEMMA Continued ==
    ASSUME TypeOK, NEW j \in Job, Continue(j)
    PROVE  /\ UNCHANGED <<clock, exists, born>>
           /\ current' = {} /\ batch' \subseteq batch
           /\ \A i \in batch' : i # j => snap'[i] = snap[i]
BY DEF TypeOK, Continue

\* The breaker the scheduler computes for the job it has run.
Computed(j) == NextBreaker(snap[j], pc = "ok", clock)

\* The end of a run that is recorded.
LEMMA Recorded ==
    ASSUME TypeOK, NEW j \in Job, Record(j)
    PROVE  /\ Continue(j) /\ j \in current
           /\ \A i \in Job : i # j => row'[i] = row[i] /\ past'[i] = past[i]
           /\ j \in exists =>
                /\ row'[j].due = NextRun(snap[j].period, clock) /\ row'[j].due > clock
                /\ row'[j].enabled = row[j].enabled /\ row'[j].period = row[j].period
                /\ row'[j].fails = Computed(j).fails /\ row'[j].until = Computed(j).until
           /\ past'[j].opened = Computed(j).until
           /\ past'[j].streak = IF pc = "ok" \/ Computed(j).until > 0 THEN 0
                                ELSE past[j].streak + 1
           /\ past'[j].crossed <=> snap[j].period # row[j].period
           /\ past'[j].ran = past[j].ran /\ past'[j].unrecorded = past[j].unrecorded
           /\ past'[j].late = past[j].late /\ past'[j].forgot = past[j].forgot
<1>. DEFINE r == Rescheduled(row[j], snap[j], Computed(j).fails, Computed(j).until)
<1>1. Computed(j).fails \in Nat /\ Computed(j).until \in Nat
  BY BreakerOf DEF TypeOK, Computed
<1>2. /\ r.due = NextRun(snap[j].period, clock) /\ r.due > clock
      /\ r.enabled = row[j].enabled /\ r.period = row[j].period
      /\ r.fails = Computed(j).fails /\ r.until = Computed(j).until
  <2>1. row[j] \in Row /\ snap[j] \in Row /\ clock \in Nat
    BY DEF TypeOK
  <2>2. ASSUME NEW s \in Row, NEW t \in Row, NEW f \in Nat, NEW u \in Nat
        PROVE  LET q == Rescheduled(s, t, f, u) IN
               /\ q.due = NextRun(t.period, clock) /\ q.due > clock
               /\ q.enabled = s.enabled /\ q.period = s.period /\ q.fails = f /\ q.until = u
    BY <2>1, RescheduledRow
  <2>. QED BY <1>1, <2>1, <2>2
<1>3. /\ Continue(j) /\ j \in current
      /\ row' = IF j \in exists THEN [row EXCEPT ![j] = r] ELSE row
      /\ past' = [past EXCEPT
                    ![j].opened = Computed(j).until,
                    ![j].streak = IF pc = "ok" \/ Computed(j).until > 0 THEN 0 ELSE @ + 1,
                    ![j].crossed = snap[j].period # row[j].period]
  BY DEF Record, Computed
<1>. HIDE DEF r
<1>4. /\ \A i \in Job : i # j => row'[i] = row[i]
      /\ j \in exists => row'[j] = r
  BY <1>3 DEF TypeOK
<1>5. /\ \A i \in Job : i # j => past'[i] = past[i]
      /\ past'[j].opened = Computed(j).until
      /\ past'[j].streak = IF pc = "ok" \/ Computed(j).until > 0 THEN 0
                            ELSE past[j].streak + 1
      /\ past'[j].crossed <=> snap[j].period # row[j].period
      /\ past'[j].ran = past[j].ran /\ past'[j].unrecorded = past[j].unrecorded
      /\ past'[j].late = past[j].late /\ past'[j].forgot = past[j].forgot
  BY <1>3 DEF TypeOK
<1>6. j \in exists =>
        /\ row'[j].due = NextRun(snap[j].period, clock) /\ row'[j].due > clock
        /\ row'[j].enabled = row[j].enabled /\ row'[j].period = row[j].period
        /\ row'[j].fails = Computed(j).fails /\ row'[j].until = Computed(j).until
  BY <1>2, <1>4
<1>7. \A i \in Job : i # j => row'[i] = row[i] /\ past'[i] = past[i]
  BY <1>4, <1>5
<1>8. Continue(j) /\ j \in current
  BY <1>3
<1>. QED BY <1>5, <1>6, <1>7, <1>8

\* The end of one that is not.
LEMMA NotRecorded ==
    ASSUME TypeOK, NEW j \in Job, RecordFails(j)
    PROVE  /\ Continue(j) /\ j \in current /\ row' = row
           /\ \A i \in Job : i # j => past'[i] = past[i]
           /\ past'[j].unrecorded /\ past'[j].forgot
           /\ past'[j].ran = past[j].ran /\ past'[j].late = past[j].late
           /\ past'[j].opened = past[j].opened /\ past'[j].streak = past[j].streak
           /\ past'[j].crossed = past[j].crossed
BY DEF TypeOK, RecordFails

\* The scheduler is stopped, or dies.
LEMMA Halted ==
    ASSUME TypeOK, Stop \/ Crash
    PROVE  /\ UNCHANGED <<clock, tableVars>>
           /\ batch' = {} /\ current' = {}
           /\ \A i \in Job : i \notin current => past'[i] = past[i]
           /\ \A i \in current :
                /\ past'[i].unrecorded /\ past'[i].forgot
                /\ past'[i].ran = past[i].ran /\ past'[i].late = past[i].late
                /\ past'[i].opened = past[i].opened /\ past'[i].streak = past[i].streak
                /\ past'[i].crossed = past[i].crossed
<1>1. Halt /\ UNCHANGED <<clock, tableVars>>
  BY DEF Stop, Crash
<1>2. /\ batch' = {} /\ current' = {} /\ current \subseteq Job
      /\ \A i \in Job : past'[i] = IF i \in current
                                  THEN [past[i] EXCEPT !.unrecorded = TRUE, !.forgot = TRUE]
                                  ELSE past[i]
  BY <1>1 DEF TypeOK, Halt
<1>3. \A h \in History :
        LET g == [h EXCEPT !.unrecorded = TRUE, !.forgot = TRUE] IN
        /\ g.unrecorded /\ g.forgot /\ g.ran = h.ran /\ g.late = h.late
        /\ g.opened = h.opened /\ g.streak = h.streak /\ g.crossed = h.crossed
  BY DEF History
<1>4. \A i \in Job : past[i] \in History
  BY DEF TypeOK, History
<1>5. ASSUME NEW i \in current
      PROVE  /\ past'[i].unrecorded /\ past'[i].forgot
             /\ past'[i].ran = past[i].ran /\ past'[i].late = past[i].late
             /\ past'[i].opened = past[i].opened /\ past'[i].streak = past[i].streak
             /\ past'[i].crossed = past[i].crossed
  <2>. DEFINE g == [past[i] EXCEPT !.unrecorded = TRUE, !.forgot = TRUE]
  <2>1. past'[i] = g /\ past[i] \in History
    BY <1>2, <1>4
  <2>2. /\ g.unrecorded /\ g.forgot /\ g.ran = past[i].ran /\ g.late = past[i].late
        /\ g.opened = past[i].opened /\ g.streak = past[i].streak
        /\ g.crossed = past[i].crossed
    BY <1>3, <2>1
  <2>. HIDE DEF g
  <2>. QED BY <2>1, <2>2
<1>. QED BY <1>1, <1>2, <1>5

\* A job is added.
LEMMA Created ==
    ASSUME TypeOK, NEW a \in Admin, NEW j \in Job, Create(a, j)
    PROVE  /\ UNCHANGED <<clock, batch, current, snap, past>>
           /\ j \notin born /\ exists' = exists \cup {j}
           /\ \A i \in Job : i # j => row'[i] = row[i]
           /\ \E p \in Period : row'[j] = NewRow(p, clock)
BY DEF TypeOK, Create, adminUnchanged, schedulerVars

\* A job is removed.
LEMMA Removed ==
    ASSUME TypeOK, NEW a \in Admin, NEW j \in Job, Remove(a, j)
    PROVE  /\ UNCHANGED <<clock, batch, current, snap, past>>
           /\ exists' = exists \ {j}
           /\ \A i \in Job : i # j => row'[i] = row[i]
BY DEF TypeOK, Remove, adminUnchanged, schedulerVars

\* What an update writes.
ToWrite(a) == Merged(ask[a].row, ask[a].want)

\* A job is updated, if it is still there.
LEMMA UpdateWritten ==
    ASSUME TypeOK, NEW a \in Admin, NEW j \in Job, UpdateWrites(a, j)
    PROVE  /\ UNCHANGED <<clock, exists, born, batch, current, snap>>
           /\ \A i \in Job : i # j \/ i \notin exists => row'[i] = row[i] /\ past'[i] = past[i]
           /\ j \in exists =>
                /\ row'[j].due = NextRun(row'[j].period, clock) /\ row'[j].due > clock
                /\ row'[j].enabled = ToWrite(a).enabled /\ row'[j].period = ToWrite(a).period
                /\ row'[j].fails = row[j].fails
                /\ row'[j].until = IF row'[j].enabled THEN row[j].until ELSE 0
                /\ past'[j].late = IF row'[j].enabled THEN 0 ELSE past[j].late
                /\ past'[j].opened = IF row'[j].enabled THEN past[j].opened ELSE 0
                /\ ~past'[j].crossed
                /\ past'[j].ran = past[j].ran /\ past'[j].unrecorded = past[j].unrecorded
                /\ past'[j].streak = past[j].streak /\ past'[j].forgot = past[j].forgot
<1>. DEFINE m == ToWrite(a)
            r == Updated(row[j], m)
<1>1. m.enabled \in BOOLEAN /\ m.period \in Period /\ clock \in Nat /\ row[j] \in Row
  BY MergedRow DEF TypeOK, ToWrite
<1>2. /\ UNCHANGED <<clock, exists, born, batch, current, snap>>
      /\ j \notin exists => row' = row /\ past' = past
      /\ j \in exists =>
           /\ row' = [row EXCEPT ![j] = r]
           /\ past' = [past EXCEPT ![j].late = IF m.enabled THEN 0 ELSE @,
                                   ![j].opened = IF m.enabled THEN @ ELSE 0,
                                   ![j].crossed = FALSE]
  BY DEF UpdateWrites, adminUnchanged, schedulerVars, ToWrite
<1>3. /\ r.due = NextRun(m.period, clock) /\ r.due > clock
      /\ r.enabled = m.enabled /\ r.period = m.period /\ r.fails = row[j].fails
      /\ r.until = IF m.enabled THEN row[j].until ELSE 0
  <2>1. ASSUME NEW s \in Row, NEW n, n.enabled \in BOOLEAN, n.period \in Period
        PROVE  LET q == Updated(s, n) IN
               /\ q.due = NextRun(n.period, clock) /\ q.due > clock
               /\ q.enabled = n.enabled /\ q.period = n.period /\ q.fails = s.fails
               /\ q.until = IF n.enabled THEN s.until ELSE 0
    BY <1>1, <2>1, UpdatedRow
  <2>. HIDE DEF m
  <2>. QED BY <1>1, <2>1
<1>. HIDE DEF m, r
<1>4. ASSUME j \in exists PROVE row'[j] = r /\ \A i \in Job : i # j => row'[i] = row[i]
  BY <1>2, <1>4 DEF TypeOK
<1>5. ASSUME j \in exists
      PROVE  /\ \A i \in Job : i # j => past'[i] = past[i]
             /\ past'[j].late = IF m.enabled THEN 0 ELSE past[j].late
             /\ past'[j].opened = IF m.enabled THEN past[j].opened ELSE 0
             /\ ~past'[j].crossed
             /\ past'[j].ran = past[j].ran /\ past'[j].unrecorded = past[j].unrecorded
             /\ past'[j].streak = past[j].streak /\ past'[j].forgot = past[j].forgot
  BY <1>2, <1>5 DEF TypeOK
<1>6. \A i \in Job : i # j \/ i \notin exists => row'[i] = row[i] /\ past'[i] = past[i]
  BY <1>2, <1>4, <1>5
<1>7. m = ToWrite(a)
  BY DEF m
<1>. QED BY <1>2, <1>3, <1>4, <1>5, <1>6, <1>7

\* A run by hand is recorded, if its job is still there.
LEMMA RunRecorded ==
    ASSUME TypeOK, NEW a \in Admin, NEW j \in Job, RunRecords(a, j)
    PROVE  /\ UNCHANGED <<clock, exists, born, batch, current, snap>>
           /\ \A i \in Job : i # j \/ i \notin exists => row'[i] = row[i] /\ past'[i] = past[i]
           /\ j \in exists =>
                /\ row'[j].due = NextRun(ask[a].row.period, clock) /\ row'[j].due > clock
                /\ row'[j].enabled = row[j].enabled /\ row'[j].period = row[j].period
                /\ row'[j].fails = ask[a].row.fails /\ row'[j].until = ask[a].row.until
                /\ past'[j].crossed <=> ask[a].row.period # row[j].period
                /\ past'[j].opened = IF row'[j].until = row[j].until THEN past[j].opened ELSE 0
                /\ past'[j].forgot <=> past[j].forgot \/ row'[j].fails # row[j].fails
                /\ past'[j].ran = past[j].ran /\ past'[j].unrecorded = past[j].unrecorded
                /\ past'[j].late = past[j].late /\ past'[j].streak = past[j].streak
<1>. DEFINE s == ask[a].row
            r == Rescheduled(row[j], s, s.fails, s.until)
<1>1. s \in Row /\ s.fails \in Nat /\ s.until \in Nat /\ row[j] \in Row /\ clock \in Nat
  BY DEF TypeOK, Row
<1>2. /\ UNCHANGED <<clock, exists, born, batch, current, snap>>
      /\ j \notin exists => row' = row /\ past' = past
      /\ j \in exists =>
           /\ row' = [row EXCEPT ![j] = r]
           /\ past' = [past EXCEPT ![j].crossed = s.period # row[j].period,
                                   ![j].opened = IF s.until = row[j].until THEN @ ELSE 0,
                                   ![j].forgot = @ \/ s.fails # row[j].fails]
  BY DEF RunRecords, adminUnchanged, schedulerVars
<1>3. /\ r.due = NextRun(s.period, clock) /\ r.due > clock
      /\ r.enabled = row[j].enabled /\ r.period = row[j].period
      /\ r.fails = s.fails /\ r.until = s.until
  <2>. clock \in Nat
    BY <1>1
  <2>. HIDE DEF s, r
  <2>1. ASSUME NEW q \in Row, NEW t \in Row, NEW f \in Nat, NEW u \in Nat
        PROVE  LET n == Rescheduled(q, t, f, u) IN
               /\ n.due = NextRun(t.period, clock) /\ n.due > clock
               /\ n.enabled = q.enabled /\ n.period = q.period /\ n.fails = f /\ n.until = u
    BY RescheduledRow
  <2>. QED BY <1>1, <2>1 DEF r
<1>. HIDE DEF r
<1>4. ASSUME j \in exists PROVE row'[j] = r /\ \A i \in Job : i # j => row'[i] = row[i]
  BY <1>2, <1>4 DEF TypeOK
<1>5. ASSUME j \in exists
      PROVE  /\ \A i \in Job : i # j => past'[i] = past[i]
             /\ past'[j].crossed <=> s.period # row[j].period
             /\ past'[j].opened = IF s.until = row[j].until THEN past[j].opened ELSE 0
             /\ past'[j].forgot <=> past[j].forgot \/ s.fails # row[j].fails
             /\ past'[j].ran = past[j].ran /\ past'[j].unrecorded = past[j].unrecorded
             /\ past'[j].late = past[j].late /\ past'[j].streak = past[j].streak
  <2>. DEFINE crossed == s.period # row[j].period
              opened == IF s.until = row[j].until THEN past[j].opened ELSE 0
              forgot == past[j].forgot \/ s.fails # row[j].fails
  <2>1. past[j] \in History /\ past \in [Job -> History]
    BY DEF TypeOK, History
  <2>3. past' = [past EXCEPT ![j] = [past[j] EXCEPT !.crossed = crossed, !.opened = opened,
                                                    !.forgot = forgot]]
    BY <1>2, <1>5
  <2>4. crossed \in BOOLEAN /\ forgot \in BOOLEAN
    BY <2>1 DEF History
  <2>. HIDE DEF crossed, opened, forgot
  <2>5. /\ \A i \in Job : i # j => past'[i] = past[i]
        /\ past'[j] = [past[j] EXCEPT !.crossed = crossed, !.opened = opened, !.forgot = forgot]
    BY <2>1, <2>3
  <2>6. /\ past'[j].crossed <=> crossed
        /\ past'[j].opened = opened
        /\ past'[j].forgot <=> forgot
        /\ past'[j].ran = past[j].ran /\ past'[j].unrecorded = past[j].unrecorded
        /\ past'[j].late = past[j].late /\ past'[j].streak = past[j].streak
    BY <2>1, <2>4, <2>5 DEF History
  <2>. QED BY <2>5, <2>6 DEF crossed, opened, forgot
<1>6. \A i \in Job : i # j \/ i \notin exists => row'[i] = row[i] /\ past'[i] = past[i]
  BY <1>2, <1>4, <1>5
<1>7. ASSUME j \in exists
      PROVE  /\ row'[j].due = NextRun(s.period, clock) /\ row'[j].due > clock
             /\ row'[j].enabled = row[j].enabled /\ row'[j].period = row[j].period
             /\ row'[j].fails = s.fails /\ row'[j].until = s.until
  BY <1>3, <1>4, <1>7
<1>8. ASSUME j \in exists
      PROVE  /\ past'[j].opened = IF row'[j].until = row[j].until THEN past[j].opened ELSE 0
             /\ past'[j].forgot <=> past[j].forgot \/ row'[j].fails # row[j].fails
  BY <1>5, <1>7, <1>8
<1>. QED BY <1>2, <1>5, <1>6, <1>7, <1>8

-----------------------------------------------------------------------------
(* The steps keep the invariant.                                           *)

\* What the proofs below take from the invariant.
LEMMA Basics ==
    ASSUME IInv
    PROVE  /\ TypeOK /\ clock \in Nat /\ exists \subseteq born /\ born \subseteq Job
           /\ batch \cup current \subseteq born
           /\ \A i, j \in current : i = j
           /\ batch \cap current = {}
           /\ row \in [Job -> Row] /\ snap \in [Job -> Row] /\ past \in [Job -> History]
BY DEF IInv, TypeOK, Phased, Known, History

\* The scheduler polls and starts when it runs nothing.
LEMMA Free ==
    ASSUME IInv, Poll \/ \E j \in Job : Start(j)
    PROVE  current = {}
BY DEF IInv, Phased, Poll, Start

\* A run is late once at most: only a change that enables the job lets it be chosen
\* again.
LEMMA StepLate == IInv /\ [Next]_vars => LateOnce'
<1>. SUFFICES ASSUME IInv, [Next]_vars, NEW i \in Job
              PROVE  /\ past'[i].late <= 1
                     /\ Active(i)' \/ i \in batch' => past'[i].late = 0
  BY DEF LateOnce
<1>1. /\ past[i].late <= 1
      /\ Active(i) \/ i \in batch => past[i].late = 0
      /\ past[i].late \in Nat
  BY Basics DEF IInv, LateOnce, History
<1>2. CASE Quiet
  BY <1>1, <1>2, Basics, Quietly DEF Active, tableVars
<1>3. CASE Poll
  BY <1>1, <1>3, Basics, Polled DEF Active, tableVars
<1>4. CASE Stop \/ Crash
  BY <1>1, <1>4, Basics, Halted DEF Active, tableVars
<1>5. ASSUME NEW j \in Job, Start(j)
      PROVE  /\ past'[i].late <= 1
             /\ Active(i)' \/ i \in batch' => past'[i].late = 0
  BY <1>1, <1>5, Basics, Started DEF Active, tableVars
<1>6. ASSUME NEW j \in Job, Record(j)
      PROVE  /\ past'[i].late <= 1
             /\ Active(i)' \/ i \in batch' => past'[i].late = 0
  <2>1. /\ past'[i].late = past[i].late /\ exists' = exists /\ batch' \subseteq batch
        /\ i \in exists => row'[i].enabled = row[i].enabled
    BY <1>6, Basics, Recorded, Continued
  <2>. QED BY <1>1, <2>1 DEF Active
<1>7. ASSUME NEW j \in Job, RecordFails(j)
      PROVE  /\ past'[i].late <= 1
             /\ Active(i)' \/ i \in batch' => past'[i].late = 0
  BY <1>1, <1>7, Basics, NotRecorded, Continued DEF Active
<1>8. ASSUME NEW a \in Admin, NEW j \in Job, Create(a, j)
      PROVE  /\ past'[i].late <= 1
             /\ Active(i)' \/ i \in batch' => past'[i].late = 0
  <2>1. i = j => past[i].late = 0
    BY <1>8, Created, Basics DEF IInv, Known, NoPast
  <2>. QED BY <1>1, <1>8, <2>1, Basics, Created DEF Active
<1>9. ASSUME NEW a \in Admin, NEW j \in Job, Remove(a, j)
      PROVE  /\ past'[i].late <= 1
             /\ Active(i)' \/ i \in batch' => past'[i].late = 0
  BY <1>1, <1>9, Basics, Removed DEF Active
<1>10. ASSUME NEW a \in Admin, NEW j \in Job, UpdateWrites(a, j)
       PROVE  /\ past'[i].late <= 1
              /\ Active(i)' \/ i \in batch' => past'[i].late = 0
  BY <1>1, <1>10, Basics, UpdateWritten DEF Active
<1>11. ASSUME NEW a \in Admin, NEW j \in Job, RunRecords(a, j)
       PROVE  /\ past'[i].late <= 1
              /\ Active(i)' \/ i \in batch' => past'[i].late = 0
  BY <1>1, <1>11, Basics, RunRecorded DEF Active
<1>. QED BY <1>2, <1>3, <1>4, <1>5, <1>6, <1>7, <1>8, <1>9, <1>10, <1>11, ActionSteps

\* A slot that was run stays behind: whatever is written meanwhile is ahead of the
\* clock, which is past it.
LEMMA StepSlots == IInv /\ [Next]_vars => SlotsAhead'
<1>. DEFINE Ahead(i) ==
       /\ past[i].ran <= clock
       /\ i \in batch \cup current => snap[i].due <= clock
       /\ i \in batch => snap[i].due > past[i].ran \/ past[i].unrecorded
       /\ i \in exists \ current => row[i].due > past[i].ran \/ past[i].unrecorded
<1>. SUFFICES ASSUME IInv, [Next]_vars, NEW i \in Job PROVE Ahead(i)'
  BY DEF SlotsAhead
<1>1. Ahead(i) /\ past[i].ran \in Nat /\ snap[i].due \in Nat /\ row[i].due \in Nat /\ clock \in Nat
  BY Basics DEF IInv, SlotsAhead, History, Row
<1>2. CASE Quiet
  BY <1>1, <1>2, Basics, Quietly DEF tableVars
<1>3. CASE Poll
  BY <1>1, <1>3, Basics, Polled, Free DEF tableVars
<1>4. CASE Stop \/ Crash
  BY <1>1, <1>4, Basics, Halted DEF tableVars
<1>5. ASSUME NEW j \in Job, Start(j) PROVE Ahead(i)'
  BY <1>1, <1>5, Basics, Started, Free DEF tableVars
<1>6. ASSUME NEW j \in Job, Record(j) PROVE Ahead(i)'
  <2>1. /\ past'[i].ran = past[i].ran /\ past'[i].unrecorded = past[i].unrecorded
        /\ UNCHANGED <<clock, exists>> /\ current' = {} /\ batch' \subseteq batch
        /\ j \in current /\ i \in batch' => i # j /\ snap'[i] = snap[i]
        /\ i # j => row'[i] = row[i]
        /\ i = j /\ i \in exists => row'[i].due > clock
    BY <1>6, Basics, Recorded, Continued
  <2>2. j \in current /\ (i # j => i \notin current)
    BY <1>6, Basics, Recorded
  <2>. QED BY <1>1, <2>1, <2>2, StepType, Basics DEF TypeOK, Row
<1>7. ASSUME NEW j \in Job, RecordFails(j) PROVE Ahead(i)'
  BY <1>1, <1>7, Basics, NotRecorded, Continued
<1>8. ASSUME NEW a \in Admin, NEW j \in Job, Create(a, j) PROVE Ahead(i)'
  <2>1. PICK p \in Period : row'[j] = NewRow(p, clock)
    BY <1>8, Basics, Created
  <2>2. row'[j].due > clock
    BY <1>1, <2>1, NextRunAhead, PeriodAssumption DEF NewRow
  <2>. QED BY <1>1, <1>8, <2>2, Basics, Created, StepType DEF TypeOK, Row
<1>9. ASSUME NEW a \in Admin, NEW j \in Job, Remove(a, j) PROVE Ahead(i)'
  BY <1>1, <1>9, Basics, Removed
<1>10. ASSUME NEW a \in Admin, NEW j \in Job, UpdateWrites(a, j) PROVE Ahead(i)'
  BY <1>1, <1>10, Basics, UpdateWritten, StepType DEF TypeOK, Row
<1>11. ASSUME NEW a \in Admin, NEW j \in Job, RunRecords(a, j) PROVE Ahead(i)'
  BY <1>1, <1>11, Basics, RunRecorded, StepType DEF TypeOK, Row
<1>. QED BY <1>2, <1>3, <1>4, <1>5, <1>6, <1>7, <1>8, <1>9, <1>10, <1>11, ActionSteps

\* A row waits for the next slot of its schedule, counted from a time that is over.
LEMMA StepSchedule == IInv /\ [Next]_vars => OwnSchedule'
<1>. DEFINE Own(i) == i \in exists =>
                        past[i].crossed \/ row[i].due <= NextRun(row[i].period, clock)
<1>. SUFFICES ASSUME IInv, [Next]_vars, NEW i \in Job PROVE Own(i)'
  BY Basics, StepType DEF OwnSchedule, TypeOK
<1>1. /\ Own(i) /\ clock \in Nat /\ row[i].due \in Nat /\ row[i].period \in Nat \ {0}
      /\ NextRun(row[i].period, clock) \in Nat
  <2>1. Own(i) /\ clock \in Nat /\ row[i].due \in Nat /\ row[i].period \in Nat \ {0}
    BY Basics, PeriodAssumption DEF IInv, OwnSchedule, Row
  <2>. QED BY <2>1, NextRunAhead
<1>2. CASE Quiet
  <2>1. /\ clock' \in Nat /\ clock <= clock' /\ row' = row /\ exists' = exists
        /\ past' = past
    BY <1>1, <1>2, Quietly DEF tableVars
  <2>2. /\ NextRun(row[i].period, clock) <= NextRun(row[i].period, clock')
        /\ NextRun(row[i].period, clock') \in Nat
    BY <1>1, <2>1, NextRunGrows, NextRunAhead
  <2>3. NextRun(row[i].period, clock)' = NextRun(row[i].period, clock')
    BY <2>1 DEF NextRun
  <2>. QED BY <1>1, <2>1, <2>2, <2>3
<1>3. CASE Poll
  BY <1>1, <1>3, Basics, Polled DEF tableVars
<1>4. CASE Stop \/ Crash
  BY <1>1, <1>4, Basics, Halted DEF tableVars
<1>5. ASSUME NEW j \in Job, Start(j) PROVE Own(i)'
  BY <1>1, <1>5, Basics, Started DEF tableVars
<1>6. ASSUME NEW j \in Job, Record(j) PROVE Own(i)'
  <2>1. clock' = clock /\ exists' = exists
    BY <1>6, Basics, Recorded, Continued
  <2>2. CASE i # j
    BY <1>1, <1>6, <2>1, <2>2, Basics, Recorded
  <2>3. CASE i = j /\ i \in exists
    <3>1. /\ row'[i].due = NextRun(snap[i].period, clock) /\ row'[i].period = row[i].period
          /\ past'[i].crossed <=> snap[i].period # row[i].period
      BY <1>6, <2>3, Basics, Recorded
    <3>. QED BY <1>1, <2>1, <3>1
  <2>. QED BY <2>1, <2>2, <2>3
<1>7. ASSUME NEW j \in Job, RecordFails(j) PROVE Own(i)'
  BY <1>1, <1>7, Basics, NotRecorded, Continued
<1>8. ASSUME NEW a \in Admin, NEW j \in Job, Create(a, j) PROVE Own(i)'
  <2>1. PICK p \in Period : row'[j] = NewRow(p, clock)
    BY <1>8, Basics, Created
  <2>2. /\ row'[j].due = NextRun(row'[j].period, clock)
        /\ NextRun(row'[j].period, clock) \in Nat
    BY <1>1, <2>1, NextRunAhead, PeriodAssumption DEF NewRow
  <2>. QED BY <1>1, <1>8, <2>2, Basics, Created
<1>9. ASSUME NEW a \in Admin, NEW j \in Job, Remove(a, j) PROVE Own(i)'
  BY <1>1, <1>9, Basics, Removed
<1>10. ASSUME NEW a \in Admin, NEW j \in Job, UpdateWrites(a, j) PROVE Own(i)'
  <2>1. CASE i = j /\ i \in exists
    <3>1. /\ row'[i].due = NextRun(row'[i].period, clock) /\ row'[i].due > clock
          /\ clock' = clock /\ row'[i].due \in Nat
      BY <1>10, <2>1, Basics, UpdateWritten, StepType DEF TypeOK, Row
    <3>. QED BY <3>1
  <2>2. CASE ~(i = j /\ i \in exists)
    BY <1>1, <1>10, <2>2, Basics, UpdateWritten
  <2>. QED BY <2>1, <2>2
<1>11. ASSUME NEW a \in Admin, NEW j \in Job, RunRecords(a, j) PROVE Own(i)'
  <2>1. CASE i = j /\ i \in exists
    <3>1. /\ row'[i].due = NextRun(ask[a].row.period, clock) /\ clock' = clock
          /\ row'[i].period = row[i].period
          /\ past'[i].crossed <=> ask[a].row.period # row[i].period
      BY <1>11, <2>1, Basics, RunRecorded
    <3>. QED BY <1>1, <3>1
  <2>2. CASE ~(i = j /\ i \in exists)
    BY <1>1, <1>11, <2>2, Basics, RunRecorded
  <2>. QED BY <2>1, <2>2
<1>. QED BY <1>2, <1>3, <1>4, <1>5, <1>6, <1>7, <1>8, <1>9, <1>10, <1>11, ActionSteps

\* The breaker of a job, and the count of its failures.
Guarded(i) ==
    /\ i \in batch \cup current => past[i].opened <= clock
    /\ i \in exists /\ past[i].opened > clock => row[i].until >= past[i].opened
    /\ BreakerEnabled /\ ~past[i].forgot =>
         /\ past[i].streak <= Budget
         /\ i \in exists => row[i].fails = past[i].streak
         /\ i \in batch \cup current => snap[i].fails = past[i].streak

\* The failure that is one too many opens the breaker and starts a new count.
LEMMA CountedFailure ==
    ASSUME IInv, NEW j \in current, Record(j), BreakerEnabled, ~past[j].forgot
    PROVE  past'[j].streak <= Budget /\ Computed(j).fails = past'[j].streak
<1>1. /\ snap[j].fails = past[j].streak /\ past[j].streak \in Nat /\ past[j].streak <= Budget
      /\ snap[j] \in Row /\ clock \in Nat
  BY Basics DEF IInv, FailsCounted, BreakerHolds, History
<1>2. past'[j].streak = IF pc = "ok" \/ Computed(j).until > 0 THEN 0 ELSE past[j].streak + 1
  BY Basics, Recorded
<1>3. CASE pc = "ok"
  <2>1. Computed(j).fails = 0
    BY <1>1, <1>3 DEF Computed, NextBreaker, Row
  <2>. QED BY <1>2, <1>3, <2>1, BreakerAssumption
<1>4. CASE pc # "ok" /\ snap[j].fails + 1 > Budget
  <2>1. Computed(j).fails = 0 /\ Computed(j).until = clock + Cooldown
    BY <1>1, <1>4 DEF Computed, NextBreaker, Row, BreakerEnabled
  <2>. QED BY <1>1, <1>2, <2>1, BreakerAssumption DEF BreakerEnabled
<1>5. CASE pc # "ok" /\ ~(snap[j].fails + 1 > Budget)
  <2>1. Computed(j).fails = snap[j].fails + 1 /\ Computed(j).until = 0
    BY <1>1, <1>5 DEF Computed, NextBreaker, Row, BreakerEnabled
  <2>. QED BY <1>1, <1>2, <1>5, <2>1, BreakerAssumption
<1>. QED BY <1>3, <1>4, <1>5

\* What one step does to the breaker of a job.
LEMMA StepGuarded ==
    ASSUME IInv, [Next]_vars, NEW i \in Job
    PROVE  Guarded(i)'
<1>1. /\ Guarded(i) /\ clock \in Nat /\ past[i].opened \in Nat /\ past[i].streak \in Nat
      /\ row[i].until \in Nat /\ row[i].fails \in Nat /\ Budget \in Nat
  BY Basics, BreakerAssumption
     DEF IInv, Guarded, BreakerHolds, FailsCounted, History, Row
<1>. USE DEF Guarded
<1>2. CASE Quiet
  BY <1>1, <1>2, Basics, Quietly DEF tableVars
<1>3. CASE Poll
  BY <1>1, <1>3, Basics, Polled, Free DEF tableVars
<1>4. CASE Stop \/ Crash
  BY <1>1, <1>4, Basics, Halted DEF tableVars
<1>5. ASSUME NEW j \in Job, Start(j) PROVE Guarded(i)'
  BY <1>1, <1>5, Basics, Started, Free DEF tableVars
<1>6. ASSUME NEW j \in Job, Record(j) PROVE Guarded(i)'
  <2>1. /\ j \in current /\ current' = {} /\ batch' \subseteq batch
        /\ i = j => i \notin batch'
        /\ UNCHANGED <<clock, exists>>
    BY <1>6, Basics, Recorded, Continued
  <2>2. CASE i # j
    <3>1. row'[i] = row[i] /\ past'[i] = past[i] /\ (i \in batch' => snap'[i] = snap[i])
      BY <1>6, <2>2, Basics, Recorded, Continued
    <3>. QED BY <1>1, <2>1, <3>1
  <2>3. CASE i = j
    <3>1. /\ past'[i].opened = Computed(i).until
          /\ past'[i].forgot = past[i].forgot
          /\ i \in exists => row'[i].fails = Computed(i).fails /\ row'[i].until = Computed(i).until
      BY <1>6, <2>3, Basics, Recorded
    <3>2. Computed(i).until \in Nat
      BY BreakerOf, Basics DEF Computed
    <3>3. i \notin batch' \cup current'
      BY <2>1, <2>3
    <3>4. BreakerEnabled /\ ~past[i].forgot =>
            past'[i].streak <= Budget /\ Computed(i).fails = past'[i].streak
      BY <1>6, <2>1, <2>3, CountedFailure
    <3>. QED BY <2>1, <3>1, <3>2, <3>3, <3>4 DEF BreakerEnabled
  <2>. QED BY <2>2, <2>3
<1>7. ASSUME NEW j \in Job, RecordFails(j) PROVE Guarded(i)'
  BY <1>1, <1>7, Basics, NotRecorded, Continued
<1>8. ASSUME NEW a \in Admin, NEW j \in Job, Create(a, j) PROVE Guarded(i)'
  <2>1. row'[j].fails = 0
    <3>1. PICK p \in Period : row'[j] = NewRow(p, clock)
      BY <1>8, Basics, Created
    <3>. QED BY <3>1 DEF NewRow
  <2>2. j \notin born => past[j].opened = 0 /\ past[j].streak = 0
    BY Basics DEF IInv, Known, NoPast
  <2>. QED BY <1>1, <1>8, <2>1, <2>2, Basics, Created
<1>9. ASSUME NEW a \in Admin, NEW j \in Job, Remove(a, j) PROVE Guarded(i)'
  BY <1>1, <1>9, Basics, Removed
<1>10. ASSUME NEW a \in Admin, NEW j \in Job, UpdateWrites(a, j) PROVE Guarded(i)'
  BY <1>1, <1>10, Basics, UpdateWritten
<1>11. ASSUME NEW a \in Admin, NEW j \in Job, RunRecords(a, j) PROVE Guarded(i)'
  BY <1>1, <1>11, Basics, RunRecorded
<1>. QED BY <1>2, <1>3, <1>4, <1>5, <1>6, <1>7, <1>8, <1>9, <1>10, <1>11, ActionSteps

\* The breakers hold, and failures are counted.
LEMMA StepBreaker == IInv /\ [Next]_vars => BreakerHolds' /\ FailsCounted'
<1>. SUFFICES ASSUME IInv, [Next]_vars PROVE BreakerHolds' /\ FailsCounted'
  OBVIOUS
<1>1. \A i \in Job : Guarded(i)'
  BY StepGuarded
<1>. QED BY <1>1 DEF Guarded, BreakerHolds, FailsCounted

\* What an update has read stays true, until another update marks it.
LEMMA StepReads == IInv /\ [Next]_vars => ReadsCurrent'
<1>. DEFINE Fresh(b, i) == ask[b].at = "write" /\ ~ask[b].stale /\ i \in ask[b].job =>
               ask[b].row.enabled = row[i].enabled /\ ask[b].row.period = row[i].period
<1>. SUFFICES ASSUME IInv, [Next]_vars, NEW b \in Admin, NEW i \in Job, i \in exists'
              PROVE  Fresh(b, i)'
  BY Basics, StepType DEF ReadsCurrent, TypeOK
<1>1. /\ i \in exists => Fresh(b, i)
      /\ ask[b].job \subseteq born /\ ask \in [Admin -> Ask]
  BY DEF IInv, ReadsCurrent, Known, TypeOK, Ask
<1>2. ASSUME UNCHANGED <<exists, row, ask>> PROVE Fresh(b, i)'
  BY <1>1, <1>2
<1>3. CASE Crash
  BY <1>3, Resting DEF Crash
<1>4. ASSUME NEW j \in Job, Record(j) PROVE Fresh(b, i)'
  <2>1. ask' = ask /\ exists' = exists
    BY <1>4, Basics, Recorded DEF Continue
  <2>2. row'[i].enabled = row[i].enabled /\ row'[i].period = row[i].period
    BY <1>4, <2>1, Basics, Recorded
  <2>. QED BY <1>1, <2>1, <2>2
<1>5. ASSUME NEW a \in Admin, NEW j \in Job, Create(a, j) PROVE Fresh(b, i)'
  <2>. DEFINE q == [Idle EXCEPT !.at = "update", !.job = {j},
                                !.want = [Nothing EXCEPT !.enabled = "off"]]
  <2>3. ask' = [ask EXCEPT ![a] = Done] \/ ask' = [ask EXCEPT ![a] = q]
    BY <1>5 DEF Create
  <2>4. q.at = "update"
    BY AskingOf
  <2>. HIDE DEF q
  <2>1. CASE b = a
    <3>1. ask'[a].at # "write"
      BY <1>1, <2>3, <2>4, Resting
    <3>. QED BY <2>1, <3>1
  <2>2. CASE b # a
    <3>1. ask'[b] = ask[b]
      BY <1>1, <2>2, <2>3
    <3>2. j \notin born /\ exists' = exists \cup {j} /\ (i # j => row'[i] = row[i])
      BY <1>5, Basics, Created
    <3>. QED BY <1>1, <3>1, <3>2
  <2>. QED BY <2>1, <2>2
<1>6. ASSUME NEW a \in Admin, NEW j \in Job, UpdateReads(a, j) PROVE Fresh(b, i)'
  <2>1. exists' = exists /\ row' = row
    BY <1>6 DEF UpdateReads, tableVars
  <2>2. CASE b = a
    <3>1. ask'[a].job = {j} /\ ask'[a].row = Shown(row[j])
      BY <1>1, <1>6, AskingOf DEF UpdateReads
    <3>2. Shown(row[j]).enabled = row[j].enabled /\ Shown(row[j]).period = row[j].period
      BY NewRows DEF Shown, Row
    <3>. QED BY <2>1, <2>2, <3>1, <3>2
  <2>3. CASE b # a
    BY <1>1, <1>6, <2>1, <2>3 DEF UpdateReads
  <2>. QED BY <2>2, <2>3
<1>7. ASSUME NEW a \in Admin, NEW j \in Job, UpdateWrites(a, j) PROVE Fresh(b, i)'
  <2>1. CASE b = a
    BY <1>1, <1>7, <2>1, Resting DEF UpdateWrites
  <2>2. CASE b # a /\ i = j /\ i \in exists
    <3>. DEFINE mark == ask[b].stale \/ (ask[b].at = "write" /\ j \in ask[b].job)
    <3>1. ask'[b] = [ask[b] EXCEPT !.stale = mark]
      <4>1. ask' = [c \in Admin |->
                      IF c = a THEN Done
                      ELSE [ask[c] EXCEPT !.stale = @ \/ (ask[c].at = "write"
                                                            /\ j \in ask[c].job)]]
        BY <1>7, <2>2 DEF UpdateWrites
      <4>. QED BY <2>2, <4>1
    <3>2. ask[b] \in Ask
      BY <1>1
    <3>3. ask'[b].at = ask[b].at /\ ask'[b].job = ask[b].job /\ ask'[b].stale = mark
      BY <3>1, <3>2 DEF Ask
    <3>. QED BY <2>2, <3>3
  <2>3. CASE b # a /\ ~(i = j /\ i \in exists)
    <3>1. row'[i] = row[i] /\ exists' = exists
      BY <1>7, <2>3, Basics, UpdateWritten
    <3>2. \/ ask'[b] = ask[b]
          \/ ask'[b] = [ask[b] EXCEPT !.stale = @ \/ (ask[b].at = "write" /\ j \in ask[b].job)]
      BY <1>7, <2>3, <1>1 DEF UpdateWrites
    <3>3. /\ ask'[b].at = ask[b].at /\ ask'[b].job = ask[b].job /\ ask'[b].row = ask[b].row
          /\ ~ask'[b].stale => ~ask[b].stale
      BY <1>1, <3>2 DEF Ask
    <3>. QED BY <1>1, <3>1, <3>3
  <2>. QED BY <2>1, <2>2, <2>3
<1>8. ASSUME NEW a \in Admin, NEW j \in Job, Remove(a, j) PROVE Fresh(b, i)'
  <2>1. exists' = exists \ {j} /\ (i # j => row'[i] = row[i])
    BY <1>8, Basics, Removed
  <2>2. ask' = [ask EXCEPT ![a] = Done]
    BY <1>8 DEF Remove
  <2>. QED BY <1>1, <2>1, <2>2, Resting
<1>9. ASSUME NEW a \in Admin, NEW j \in Job, RunReads(a, j) PROVE Fresh(b, i)'
  <2>1. exists' = exists /\ row' = row
    BY <1>9 DEF RunReads, tableVars
  <2>2. ask'[b] = ask[b] \/ ask'[b].at = "run"
    BY <1>1, <1>9, AskingOf DEF RunReads
  <2>. QED BY <1>1, <2>1, <2>2
<1>10. ASSUME NEW a \in Admin, NEW j \in Job, RunRecords(a, j) PROVE Fresh(b, i)'
  <2>1. exists' = exists
    BY <1>10, Basics, RunRecorded
  <2>2. row'[i].enabled = row[i].enabled /\ row'[i].period = row[i].period
    BY <1>10, <2>1, Basics, RunRecorded
  <2>3. ask' = [ask EXCEPT ![a] = Done]
    BY <1>10 DEF RunRecords
  <2>. QED BY <1>1, <2>1, <2>2, <2>3, Resting
<1>11. ASSUME \/ UNCHANGED vars \/ Attempt \/ Respawn \/ Signal \/ Tick \/ Poll \/ Stop
              \/ \E j \in Job : Start(j) \/ RecordFails(j)
       PROVE  UNCHANGED <<exists, row, ask>>
  BY <1>11 DEF vars, tableVars, Attempt, Respawn, Signal, Tick, Poll, Stop, Start, RecordFails,
               Continue
<1>. QED BY <1>2, <1>3, <1>4, <1>5, <1>6, <1>7, <1>8, <1>9, <1>10, <1>11, Steps

-----------------------------------------------------------------------------
(* The theorems.                                                           *)

\* The invariant the others rest on.
THEOREM InvariantHolds == Spec => []IInv
<1>1. IInv /\ [Next]_vars => IInv'
  BY StepType, StepPhased, StepKnown, StepLate, StepSlots, StepSchedule, StepBreaker, StepReads
     DEF IInv
<1>. QED BY InitInv, <1>1, PTL DEF Spec

\* Types; the breaker of a job in the batch was closed when its row was read.
THEOREM TypeCorrect == Spec => []TypeOK
<1>1. IInv => TypeOK
  BY DEF IInv
<1>. QED BY <1>1, InvariantHolds, PTL

\* A job that was disabled or removed is begun at most once more.
THEOREM LateRunOnce == Spec => []LateRunAtMostOnce
<1>1. IInv => LateRunAtMostOnce
  BY DEF IInv, LateOnce, LateRunAtMostOnce
<1>. QED BY <1>1, InvariantHolds, PTL

\* Breakers stay closed for the cooldown and open within the budget.
THEOREM BreakersHold == Spec => []BreakerHolds
<1>1. IInv => BreakerHolds
  BY DEF IInv
<1>. QED BY <1>1, InvariantHolds, PTL

\* A job waits no longer than for the next slot of its schedule.
THEOREM SchedulesKept == Spec => []OwnSchedule
<1>1. IInv => OwnSchedule
  BY DEF IInv
<1>. QED BY <1>1, InvariantHolds, PTL

\* The scheduler begins a slot once, unless its run could not be recorded.
THEOREM SlotsRunOnce == Spec => SlotRunsOnce
<1>. DEFINE A == \A j \in current' \ current : snap[j].due > past[j].ran \/ past[j].unrecorded
<1>1. IInv /\ [Next]_vars => [A]_vars
  <2>. SUFFICES ASSUME IInv, [Next]_vars, NEW j \in current' \ current
                PROVE  snap[j].due > past[j].ran \/ past[j].unrecorded
    OBVIOUS
  <2>1. ASSUME ~\E i \in Job : Start(i) PROVE current' \subseteq current
    <3>1. CASE Quiet
      BY <3>1, Basics, Quietly
    <3>2. CASE Poll
      BY <3>2, Basics, Polled
    <3>3. CASE Stop \/ Crash
      BY <3>3, Basics, Halted
    <3>4. ASSUME NEW i \in Job, Record(i) \/ RecordFails(i) PROVE current' \subseteq current
      BY <3>4, Basics, Recorded, NotRecorded, Continued
    <3>5. ASSUME NEW a \in Admin, NEW i \in Job,
                 Create(a, i) \/ UpdateWrites(a, i) \/ Remove(a, i) \/ RunRecords(a, i)
          PROVE  current' \subseteq current
      BY <3>5, Basics, Created, UpdateWritten, Removed, RunRecorded
    <3>. QED BY <2>1, <3>1, <3>2, <3>3, <3>4, <3>5, ActionSteps
  <2>2. PICK i \in Job : Start(i)
    BY <2>1
  <2>3. j = i /\ i \in batch
    BY <2>2, Basics, Started
  <2>. QED BY <2>3, Basics DEF IInv, SlotsAhead
<1>. QED BY <1>1, InvariantHolds, PTL DEF Spec, SlotRunsOnce

\* Only an update changes whether a job is enabled and its schedule, and it changes
\* what it was asked to, unless another update made outdated what it had read.
THEOREM UpdatesAsAsked == Spec => OnlyAskedFor
<1>. DEFINE Same(i) == row'[i].enabled = row[i].enabled /\ row'[i].period = row[i].period
            By(i, a) == /\ ask[a].at = "write" /\ ask'[a].at = "done" /\ i \in ask[a].job
                        /\ ask[a].stale \/ Asked(ask[a].want, row[i], row'[i])
            A == \A j \in exists \cap exists' :
                    \/ row'[j].enabled = row[j].enabled /\ row'[j].period = row[j].period
                    \/ \E a \in Admin :
                          /\ ask[a].at = "write" /\ ask'[a].at = "done" /\ j \in ask[a].job
                          /\ ask[a].stale \/ Asked(ask[a].want, row[j], row'[j])
<1>1. IInv /\ [Next]_vars => [A]_vars
  <2>. SUFFICES ASSUME IInv, [Next]_vars, NEW i \in exists \cap exists'
                PROVE  Same(i) \/ \E a \in Admin : By(i, a)
    OBVIOUS
  <2>0. i \in Job /\ i \in born
    BY Basics
  <2>1. CASE Quiet
    BY <2>1, Basics, Quietly DEF tableVars
  <2>2. CASE Poll
    BY <2>2, Basics, Polled DEF tableVars
  <2>3. CASE Stop \/ Crash
    BY <2>3, Basics, Halted DEF tableVars
  <2>4. ASSUME NEW j \in Job, Start(j) PROVE Same(i)
    BY <2>4, Basics, Started DEF tableVars
  <2>5. ASSUME NEW j \in Job, Record(j) PROVE Same(i)
    BY <2>0, <2>5, Basics, Recorded
  <2>6. ASSUME NEW j \in Job, RecordFails(j) PROVE Same(i)
    BY <2>6, Basics, NotRecorded
  <2>7. ASSUME NEW a \in Admin, NEW j \in Job, Create(a, j) PROVE Same(i)
    BY <2>0, <2>7, Basics, Created
  <2>8. ASSUME NEW a \in Admin, NEW j \in Job, Remove(a, j) PROVE Same(i)
    BY <2>0, <2>8, Basics, Removed
  <2>9. ASSUME NEW a \in Admin, NEW j \in Job, RunRecords(a, j) PROVE Same(i)
    BY <2>0, <2>9, Basics, RunRecorded
  <2>10. ASSUME NEW a \in Admin, NEW j \in Job, UpdateWrites(a, j) PROVE Same(i) \/ By(i, a)
    <3>1. CASE i # j
      BY <2>0, <2>10, <3>1, Basics, UpdateWritten
    <3>2. CASE i = j
      <4>1. ask[a].at = "write" /\ i \in ask[a].job
        BY <2>10, <3>2 DEF UpdateWrites
      <4>2. ask'[a].at = "done"
        BY <2>10, <3>2, Resting DEF UpdateWrites
      <4>3. /\ row'[i].enabled = ToWrite(a).enabled /\ row'[i].period = ToWrite(a).period
        BY <2>0, <2>10, <3>2, Basics, UpdateWritten
      <4>4. ASSUME ~ask[a].stale PROVE Asked(ask[a].want, row[i], row'[i])
        <5>1. ask[a].row.enabled = row[i].enabled /\ ask[a].row.period = row[i].period
          BY <4>1, <4>4 DEF IInv, ReadsCurrent
        <5>2. ask[a].want \in Want
          BY DEF IInv, TypeOK
        <5>. QED BY <4>3, <5>1, <5>2 DEF ToWrite, Merged, Asked, Want
      <4>. QED BY <4>1, <4>2, <4>4
    <3>. QED BY <3>1, <3>2
  <2>. QED BY <2>1, <2>2, <2>3, <2>4, <2>5, <2>6, <2>7, <2>8, <2>9, <2>10, ActionSteps
<1>. QED BY <1>1, InvariantHolds, PTL DEF Spec, OnlyAskedFor
=============================================================================
