------------------------- MODULE ReplayGuardProofs -------------------------
(***************************************************************************)
(* For any requests and bodies, time to live and size of the table, and    *)
(* any number of crashes and failed writes: what ReplayGuard says holds.   *)
(***************************************************************************)
EXTENDS ReplayGuard, FiniteSetTheorems, TLAPS

-----------------------------------------------------------------------------
(* The inductive invariant.                                                *)

\* A request that was let in and has not failed.
Inside(q) == req[q].at \in {"reserved", "working", "done", "refused", "lost"}

\* A request has one body, and a time when it was let in.
Dated ==
    /\ clock > 0
    /\ \A q \in Request :
          /\ \A m, n \in req[q].nonce : m = n
          /\ Inside(q) => req[q].since > 0

\* What is written next fits as well.
SnapshotFits == Cardinality(Entries(worker.entries)) <= MaxEntries

\* The worker is behind, by what it is about to write at least.
Behind ==
    /\ persisted <= mutations
    /\ worker.at # "idle" => persisted < worker.target /\ worker.target <= mutations

\* A change of the table that record_mutation has not counted yet.
Uncounted == \E r \in Request : req[r].at \in {"reserved", "forgotten"}

\* Two tables that a restart does not tell apart now.
Same(s, t) == \A n \in Nonce : Live(s[n]) \/ Live(t[n]) => s[n] = t[n]

\* What was counted when the worker began is in its snapshot.
SnapshotCurrent ==
    worker.at = "taken" /\ worker.target = mutations /\ ~Uncounted => Same(seen, worker.entries)

\* The entry of a request inside is its own, unless it lapsed.
EntryKept ==
    \A q \in Request, n \in Nonce : Holds(q, n) => q \in lapsed \/ seen[n] = req[q].since

\* An entry that counts is that of a request inside, unless a restart revived it.
EntryOwned ==
    \A n \in Nonce : Live(seen[n]) =>
        n \in revived \/ \E q \in Request : Holds(q, n) /\ seen[n] = req[q].since

IInv ==
    /\ TypeOK /\ Dated /\ SnapshotFits /\ Behind
    /\ FlushedMeansSaved /\ SnapshotCurrent
    /\ EntryKept /\ EntryOwned

-----------------------------------------------------------------------------
(* Tables.                                                                 *)

Table == [Nonce -> Nat]

\* The entries of a table are finitely many, since hashes are.
LEMMA EntriesFinite == ASSUME NEW t PROVE IsFiniteSet(Entries(t)) /\ IsFiniteSet(LiveIn(t))
BY GuardAssumption, FS_Subset DEF Entries, LiveIn

\* Fewer entries are not more.
LEMMA FewerFit ==
    ASSUME NEW s, NEW t, Entries(s) \subseteq Entries(t), Cardinality(Entries(t)) <= MaxEntries
    PROVE  Cardinality(Entries(s)) <= MaxEntries
<1>1. Cardinality(Entries(s)) <= Cardinality(Entries(t))
  BY EntriesFinite, FS_Subset
<1>2. Cardinality(Entries(s)) \in Nat /\ Cardinality(Entries(t)) \in Nat
  BY EntriesFinite, FS_CardinalityType
<1>. QED BY <1>1, <1>2, GuardAssumption

\* What prune_entries keeps of a table are entries of it that count, not too many.
LEMMA PrunedTable ==
    ASSUME NEW t \in Table, NEW k \in Kept(t)
    PROVE  /\ Only(k, t) \in Table
           /\ \A n \in Nonce : Only(k, t)[n] = t[n] \/ Only(k, t)[n] = 0
           /\ Cardinality(Entries(Only(k, t))) <= MaxEntries
<1>1. k \subseteq LiveIn(t) /\ Cardinality(k) <= MaxEntries
  <2>1. CASE Cardinality(LiveIn(t)) <= MaxEntries
    BY <2>1 DEF Kept
  <2>2. CASE ~(Cardinality(LiveIn(t)) <= MaxEntries)
    <3>1. Kept(t) = {l \in SUBSET LiveIn(t) :
                       /\ Cardinality(l) = MaxEntries
                       /\ \A m \in l, n \in LiveIn(t) \ l : t[n] <= t[m]}
      BY <2>2, Zenon DEF Kept
    <3>2. k \in SUBSET LiveIn(t) /\ Cardinality(k) = MaxEntries
      BY <3>1, Zenon
    <3>. QED BY <3>2, GuardAssumption
  <2>. QED BY <2>1, <2>2
<1>2. Only(k, t) \in Table /\ \A n \in Nonce : Only(k, t)[n] = t[n] \/ Only(k, t)[n] = 0
  BY DEF Only, Table
<1>3. Entries(Only(k, t)) \subseteq k /\ IsFiniteSet(k)
  <2>1. \A n \in Nonce : n \notin k => ~(Only(k, t)[n] > 0)
    BY DEF Only
  <2>. QED BY <1>1, <2>1, EntriesFinite, FS_Subset DEF Entries
<1>4. Cardinality(Entries(Only(k, t))) <= Cardinality(k)
  BY <1>3, FS_Subset
<1>5. Cardinality(Entries(Only(k, t))) \in Nat /\ Cardinality(k) \in Nat
  BY <1>3, EntriesFinite, FS_CardinalityType
<1>. QED BY <1>1, <1>2, <1>4, <1>5, GuardAssumption

\* A table that fits loses nothing that counts.
LEMMA NothingPruned ==
    ASSUME NEW t \in Table, Cardinality(Entries(t)) <= MaxEntries, NEW k \in Kept(t)
    PROVE  k = LiveIn(t)
<1>1. LiveIn(t) \subseteq Entries(t)
  BY DEF LiveIn, Entries, Live
<1>2. Cardinality(LiveIn(t)) <= Cardinality(Entries(t))
  BY <1>1, EntriesFinite, FS_Subset
<1>3. Cardinality(LiveIn(t)) \in Nat /\ Cardinality(Entries(t)) \in Nat
  BY EntriesFinite, FS_CardinalityType
<1>4. Cardinality(LiveIn(t)) <= MaxEntries
  BY <1>2, <1>3, GuardAssumption
<1>. QED BY <1>4 DEF Kept

-----------------------------------------------------------------------------
(* Each part holds at the start and is kept.                               *)

\* The steps, as the proofs split them.
LEMMA Steps ==
    ASSUME Next
    PROVE  \/ FlushBegins \/ FlushSnapshots \/ FlushStores \/ FlushFails \/ Crash \/ Tick
           \/ \E r \in Request : RecordMutation(r) \/ Finish(r)
           \/ \E r \in Request, n \in Nonce : Replayed(r, n) \/ Accepted(r, n) \/ Forget(r, n)
BY DEF Next, Flush, Handle

\* The invariant holds at the start: there is nothing yet.
LEMMA InitInv == Init => IInv
<1>. SUFFICES ASSUME Init PROVE IInv
  OBVIOUS
<1>1. Entries(None) = {}
  BY DEF Entries, None
<1>2. Cardinality(Entries(None)) <= MaxEntries
  BY <1>1, FS_EmptySet, GuardAssumption
<1>. QED
  BY <1>2, GuardAssumption, BoundAssumption
     DEF Init, IInv, TypeOK, Dated, SnapshotFits, Behind, FlushedMeansSaved, SnapshotCurrent,
         EntryKept, EntryOwned, Inside, Holds, Live, Resting, Waiting, None


\* Both tables and the snapshot keep fitting: what is pruned fits, and what is given
\* back or forgotten leaves less.
LEMMA StepFits ==
    ASSUME IInv, [Next]_vars
    PROVE  /\ Cardinality(Entries(seen')) <= MaxEntries
           /\ Cardinality(Entries(file')) <= MaxEntries
           /\ Cardinality(Entries(worker'.entries)) <= MaxEntries
<1>. USE DEF IInv, TypeOK, SnapshotFits, guardVars
<1>1. Cardinality(Entries(None)) <= MaxEntries
  <2>1. Entries(None) = {}
    BY DEF Entries, None
  <2>. QED BY <2>1, FS_EmptySet, GuardAssumption
<1>2. CASE UNCHANGED <<seen, file, worker>>
  BY <1>2
<1>3. CASE FlushBegins \/ FlushFails
  <2>1. worker'.entries = None
    <3>1. CASE FlushBegins
      BY <3>1 DEF FlushBegins, Resting
    <3>2. CASE FlushFails
      BY <3>2 DEF FlushFails, Resting
    <3>. QED BY <1>3, <3>1, <3>2
  <2>2. UNCHANGED <<seen, file>>
    BY <1>3 DEF FlushBegins, FlushFails
  <2>. QED BY <1>1, <2>1, <2>2
<1>4. CASE FlushSnapshots
  BY <1>4, PrunedTable DEF FlushSnapshots, Table
<1>5. CASE FlushStores
  BY <1>1, <1>5 DEF FlushStores, Resting
<1>6. CASE Crash
  BY <1>1, <1>6, PrunedTable DEF Crash, Table, Resting
<1>7. ASSUME NEW r \in Request, NEW n \in Nonce, Accepted(r, n)
      PROVE  Cardinality(Entries(seen')) <= MaxEntries /\ UNCHANGED <<file, worker>>
  <2>1. [seen EXCEPT ![n] = clock] \in Table
    BY DEF Table
  <2>. QED BY <1>7, <2>1, PrunedTable DEF Accepted
<1>8. ASSUME NEW r \in Request, NEW n \in Nonce, Forget(r, n)
      PROVE  Cardinality(Entries(seen')) <= MaxEntries /\ UNCHANGED <<file, worker>>
  <2>1. Entries(seen') \subseteq Entries(seen)
    BY <1>8 DEF Forget, Entries
  <2>. QED BY <1>8, <2>1, FewerFit DEF Forget
<1>9. UNCHANGED <<seen, file, worker>> \/ FlushBegins \/ FlushFails \/ FlushSnapshots
      \/ FlushStores \/ Crash
      \/ \E r \in Request, n \in Nonce : Accepted(r, n) \/ Forget(r, n)
  BY Steps DEF vars, Tick, RecordMutation, Finish, Replayed
<1>. QED BY <1>2, <1>3, <1>4, <1>5, <1>6, <1>7, <1>8, <1>9

\* Types are kept.
LEMMA StepType == IInv /\ [Next]_vars => TypeOK'
<1>. SUFFICES ASSUME IInv, [Next]_vars PROVE TypeOK'
  OBVIOUS
<1>. DEFINE Typed ==
       /\ clock \in Nat /\ mutations \in Nat /\ persisted \in Nat
       /\ seen \in [Nonce -> Nat] /\ file \in [Nonce -> Nat]
       /\ worker \in [at : {"idle", "begun", "taken"}, target : Nat, entries : [Nonce -> Nat]]
       /\ req \in [Request ->
                     [at : {"idle", "replay", "reserved", "working", "done", "refused",
                            "forgotten", "failed", "lost"},
                      nonce : SUBSET Nonce, since : Nat]]
       /\ mishaps \in 0 .. MaxMishaps /\ lapsed \subseteq Request /\ revived \subseteq Nonce
<1>1. SUFFICES Typed'
  BY <1>1, StepFits DEF TypeOK
<1>2. Typed
  BY DEF IInv, TypeOK
<1>. USE BoundAssumption DEF Resting, Move, guardVars, historyVars
<1>3. CASE UNCHANGED vars
  BY <1>2, <1>3 DEF vars
<1>4. CASE FlushBegins
  BY <1>2, <1>4 DEF FlushBegins, None
<1>5. CASE FlushSnapshots
  <2>1. PICK k \in Kept(seen) : seen' = Only(k, seen) /\ worker' = [worker EXCEPT !.at = "taken", !.entries = Only(k, seen)]
    BY <1>5 DEF FlushSnapshots
  <2>2. Only(k, seen) \in Table
    BY <1>2, PrunedTable DEF Table
  <2>. QED BY <1>2, <1>5, <2>1, <2>2 DEF FlushSnapshots, Losing, Table
<1>6. CASE FlushStores
  BY <1>2, <1>6 DEF FlushStores, None
<1>7. CASE FlushFails
  BY <1>2, <1>7 DEF FlushFails, None
<1>8. CASE Crash
  BY <1>2, <1>8, PrunedTable DEF Crash, Losing, None, Table
<1>9. CASE Tick
  BY <1>2, <1>9 DEF Tick
<1>10. ASSUME NEW r \in Request, RecordMutation(r) \/ Finish(r) PROVE Typed'
  BY <1>2, <1>10 DEF RecordMutation, Finish
<1>11. ASSUME NEW r \in Request, NEW n \in Nonce, Replayed(r, n) PROVE Typed'
  BY <1>2, <1>11 DEF Replayed
<1>12. ASSUME NEW r \in Request, NEW n \in Nonce, Accepted(r, n) PROVE Typed'
  <2>1. [seen EXCEPT ![n] = clock] \in Table
    BY <1>2 DEF Table
  <2>2. \A k \in Kept([seen EXCEPT ![n] = clock]) : Only(k, [seen EXCEPT ![n] = clock]) \in Table
    BY <2>1, PrunedTable
  <2>3. seen' \in [Nonce -> Nat]
    BY <1>12, <2>1, <2>2 DEF Accepted, Table
  <2>. QED BY <1>2, <1>12, <2>3 DEF Accepted, Losing
<1>13. ASSUME NEW r \in Request, NEW n \in Nonce, Forget(r, n) PROVE Typed'
  BY <1>2, <1>13 DEF Forget, Losing
<1>. QED BY <1>3, <1>4, <1>5, <1>6, <1>7, <1>8, <1>9, <1>10, <1>11, <1>12, <1>13, Steps

\* Requests are dated when they are let in, and keep their one body.
LEMMA StepDated == IInv /\ [Next]_vars => Dated'
<1>. SUFFICES ASSUME IInv, [Next]_vars PROVE Dated'
  OBVIOUS
<1>. USE DEF IInv, TypeOK, Dated, Inside, Move
<1>1. ASSUME UNCHANGED <<clock, req>> PROVE Dated'
  BY <1>1
<1>2. CASE Tick
  BY <1>2 DEF Tick
<1>3. CASE Crash
  BY <1>3 DEF Crash
<1>4. ASSUME NEW r \in Request, RecordMutation(r) \/ Finish(r) PROVE Dated'
  BY <1>4 DEF RecordMutation, Finish
<1>5. ASSUME NEW r \in Request, NEW n \in Nonce, Replayed(r, n) PROVE Dated'
  BY <1>5 DEF Replayed
<1>6. ASSUME NEW r \in Request, NEW n \in Nonce, Accepted(r, n) PROVE Dated'
  BY <1>6 DEF Accepted
<1>7. ASSUME NEW r \in Request, NEW n \in Nonce, Forget(r, n) PROVE Dated'
  BY <1>7 DEF Forget
<1>8. CASE FlushBegins \/ FlushSnapshots \/ FlushStores \/ FlushFails \/ UNCHANGED vars
  BY <1>1, <1>8 DEF FlushBegins, FlushSnapshots, FlushStores, FlushFails, vars
<1>. QED BY <1>2, <1>3, <1>4, <1>5, <1>6, <1>7, <1>8, Steps

\* persisted_seq is raised to what the worker had read, which is not too much.
LEMMA StepBehind == IInv /\ [Next]_vars => Behind'
<1>. SUFFICES ASSUME IInv, [Next]_vars PROVE Behind'
  OBVIOUS
<1>. USE DEF IInv, TypeOK, Behind, Resting, guardVars
<1>1. CASE FlushBegins
  BY <1>1 DEF FlushBegins
<1>2. CASE FlushSnapshots
  BY <1>2 DEF FlushSnapshots
<1>3. CASE FlushStores
  BY <1>3 DEF FlushStores
<1>4. CASE FlushFails
  BY <1>4 DEF FlushFails
<1>5. CASE Crash
  BY <1>5 DEF Crash
<1>6. ASSUME NEW r \in Request, RecordMutation(r) PROVE Behind'
  BY <1>6 DEF RecordMutation
<1>7. UNCHANGED <<mutations, persisted, worker>>
      \/ FlushBegins \/ FlushSnapshots \/ FlushStores \/ FlushFails \/ Crash
      \/ \E r \in Request : RecordMutation(r)
  BY Steps DEF vars, Tick, Finish, Replayed, Accepted, Forget
<1>. QED BY <1>1, <1>2, <1>3, <1>4, <1>5, <1>6, <1>7

\* An entry that counts after a step counted before it, were it there.
LEMMA LiveBack ==
    ASSUME TypeOK, [Next]_vars, NEW ts \in Nat, Live(ts)'
    PROVE  Live(ts)
<1>1. clock' = clock \/ clock' = clock + 1
  BY Steps DEF vars, FlushBegins, FlushSnapshots, FlushStores, FlushFails, Crash, Tick,
               RecordMutation, Finish, Replayed, Accepted, Forget
<1>. QED BY <1>1, GuardAssumption DEF Live, TypeOK

\* Tables that a restart does not tell apart stay so while neither changes.
LEMMA SameStays ==
    ASSUME TypeOK, [Next]_vars, NEW s \in Table, NEW t \in Table, Same(s, t)
    PROVE  Same(s, t)'
BY LiveBack DEF Same, Table

\* A change of the table is uncounted when it is made.
LEMMA ChangesUncounted ==
    ASSUME TypeOK, NEW r \in Request, NEW n \in Nonce, Accepted(r, n) \/ Forget(r, n)
    PROVE  seen' = seen \/ Uncounted'
BY DEF TypeOK, Accepted, Forget, Uncounted, Move

\* Without one, it stays or is counted: no step counts it silently.
LEMMA CountedAloud ==
    ASSUME TypeOK, [Next]_vars, Uncounted
    PROVE  Uncounted' \/ mutations' = mutations + 1 \/ Crash
<1>. USE DEF TypeOK, Uncounted, Move, guardVars
<1>1. ASSUME UNCHANGED req PROVE Uncounted'
  BY <1>1
<1>2. ASSUME NEW r \in Request, RecordMutation(r) PROVE mutations' = mutations + 1
  BY <1>2 DEF RecordMutation
<1>3. ASSUME NEW r \in Request, Finish(r) PROVE Uncounted'
  BY <1>3 DEF Finish
<1>4. ASSUME NEW r \in Request, NEW n \in Nonce, Replayed(r, n) \/ Accepted(r, n) \/ Forget(r, n)
      PROVE  Uncounted'
  BY <1>4 DEF Replayed, Accepted, Forget
<1>5. CASE FlushBegins \/ FlushSnapshots \/ FlushStores \/ FlushFails \/ Tick \/ UNCHANGED vars
  BY <1>1, <1>5 DEF FlushBegins, FlushSnapshots, FlushStores, FlushFails, Tick, vars
<1>. QED BY <1>2, <1>3, <1>4, <1>5, Steps

\* What a step other than the worker's and a restart does to the guard: a handler
\* changes the table or counts a change, and never both.
LEMMA HandlerSteps ==
    ASSUME TypeOK, [Next]_vars,
           ~FlushBegins, ~FlushSnapshots, ~FlushStores, ~FlushFails, ~Crash
    PROVE  /\ UNCHANGED <<persisted, file, worker>>
           /\ mutations' \in {mutations, mutations + 1}
           /\ seen' = seen \/ Uncounted'
<1>1. ASSUME NEW r \in Request, NEW n \in Nonce, Accepted(r, n) \/ Forget(r, n)
      PROVE  UNCHANGED <<persisted, file, worker, mutations>>
  BY <1>1 DEF Accepted, Forget
<1>2. ASSUME NEW r \in Request, RecordMutation(r)
      PROVE  UNCHANGED <<persisted, file, worker, seen>> /\ mutations' = mutations + 1
  BY <1>2 DEF RecordMutation
<1>3. \/ UNCHANGED <<persisted, file, worker, mutations, seen>>
      \/ \E r \in Request : RecordMutation(r)
      \/ \E r \in Request, n \in Nonce : Accepted(r, n) \/ Forget(r, n)
  BY Steps DEF vars, Tick, Finish, Replayed, guardVars
<1>. QED BY <1>1, <1>2, <1>3, ChangesUncounted

\* What is counted as saved is saved: the worker counts no more than it had read
\* before it took its snapshot.
LEMMA StepFlushed == IInv /\ [Next]_vars => FlushedMeansSaved'
<1>. SUFFICES ASSUME IInv, [Next]_vars, worker'.at = "idle", persisted' = mutations', ~Uncounted'
              PROVE  Same(seen, file)'
  BY DEF FlushedMeansSaved, Same, Uncounted
<1>. USE DEF IInv, TypeOK, Behind
<1>1. CASE Crash
  <2>1. PICK k \in Kept(file) : seen' = Only(k, file)
    BY <1>1 DEF Crash
  <2>2. k = LiveIn(file)
    BY NothingPruned DEF Table
  <2>. QED BY <1>1, <2>1, <2>2 DEF Crash, Same, Only, LiveIn, Live
<1>2. CASE FlushStores
  <2>1. worker.target = mutations /\ worker.at = "taken" /\ file' = worker.entries
    BY <1>2 DEF FlushStores
  <2>2. ~Uncounted /\ UNCHANGED <<seen, clock>>
    BY <1>2 DEF FlushStores, Uncounted
  <2>. QED BY <2>1, <2>2 DEF SnapshotCurrent, Same, Live
<1>3. CASE FlushFails
  BY <1>3 DEF FlushFails
<1>4. CASE FlushBegins \/ FlushSnapshots
  BY <1>4 DEF FlushBegins, FlushSnapshots, Resting
<1>5. CASE ~FlushBegins /\ ~FlushSnapshots /\ ~FlushStores /\ ~FlushFails /\ ~Crash
  <2>1. UNCHANGED <<seen, persisted, file, worker, mutations>>
    BY <1>5, HandlerSteps
  <2>2. ~Uncounted
    BY <1>5, <2>1, CountedAloud
  <2>3. Same(seen, file)
    BY <2>1, <2>2 DEF FlushedMeansSaved, Same, Uncounted
  <2>. QED BY <2>1, <2>3, LiveBack DEF Same
<1>. QED BY <1>1, <1>2, <1>3, <1>4, <1>5

\* The snapshot holds what was counted before the worker began, until it is stored.
LEMMA StepCurrent == IInv /\ [Next]_vars => SnapshotCurrent'
<1>. SUFFICES ASSUME IInv, [Next]_vars, worker'.at = "taken", worker'.target = mutations',
                     ~Uncounted'
              PROVE  Same(seen, worker.entries)'
  BY DEF SnapshotCurrent
<1>. USE DEF IInv, TypeOK, Behind
<1>1. CASE FlushSnapshots
  <2>1. worker'.entries = seen'
    BY <1>1 DEF FlushSnapshots
  <2>. QED BY <2>1 DEF Same
<1>2. CASE FlushBegins \/ FlushStores \/ FlushFails \/ Crash
  <2>1. CASE FlushBegins
    BY <2>1 DEF FlushBegins, Resting
  <2>2. CASE FlushStores \/ FlushFails \/ Crash
    BY <2>2 DEF FlushStores, FlushFails, Crash, Resting
  <2>. QED BY <1>2, <2>1, <2>2
<1>3. CASE ~FlushBegins /\ ~FlushSnapshots /\ ~FlushStores /\ ~FlushFails /\ ~Crash
  <2>1. UNCHANGED <<seen, worker, mutations>>
    BY <1>3, HandlerSteps
  <2>2. ~Uncounted
    BY <1>3, <2>1, CountedAloud
  <2>3. Same(seen, worker.entries)
    BY <2>1, <2>2 DEF SnapshotCurrent
  <2>. QED BY <2>1, <2>3, LiveBack DEF Same
<1>. QED BY <1>1, <1>2, <1>3

\* Who holds an entry after a step held it before, or has just been let in.
LEMMA HeldBefore ==
    ASSUME TypeOK, [Next]_vars, NEW q \in Request, NEW n \in Nonce, Holds(q, n)'
    PROVE  \/ Holds(q, n) /\ req'[q].since = req[q].since
           \/ Accepted(q, n)
<1>. USE GuardAssumption DEF Holds, TypeOK, Move, guardVars
<1>1. CASE FlushBegins \/ FlushSnapshots \/ FlushStores \/ FlushFails \/ UNCHANGED vars
  BY <1>1 DEF FlushBegins, FlushSnapshots, FlushStores, FlushFails, vars
<1>2. CASE Crash
  BY <1>2 DEF Crash
<1>3. CASE Tick
  BY <1>3 DEF Tick
<1>4. ASSUME NEW r \in Request, RecordMutation(r) \/ Finish(r)
      PROVE  Holds(q, n) /\ req'[q].since = req[q].since
  BY <1>4 DEF RecordMutation, Finish
<1>5. ASSUME NEW r \in Request, NEW m \in Nonce, Replayed(r, m) \/ Forget(r, m)
      PROVE  Holds(q, n) /\ req'[q].since = req[q].since
  BY <1>5 DEF Replayed, Forget
<1>6. ASSUME NEW r \in Request, NEW m \in Nonce, Accepted(r, m)
      PROVE  Accepted(q, n) \/ (Holds(q, n) /\ req'[q].since = req[q].since)
  <2>1. CASE r = q
    BY <1>6, <2>1 DEF Accepted
  <2>2. CASE r # q
    BY <1>6, <2>2 DEF Accepted
  <2>. QED BY <2>1, <2>2
<1>. QED BY <1>1, <1>2, <1>3, <1>4, <1>5, <1>6, Steps

\* Whose entry changes has lapsed from then on.
LEMMA ChangeLapses ==
    ASSUME TypeOK, [Next]_vars, NEW q \in Request, NEW n \in req[q].nonce,
           req[q].since > 0, seen[n] = req[q].since, seen'[n] # seen[n]
    PROVE  q \in lapsed'
<1>1. n \in Nonce
  BY DEF TypeOK
<1>2. q \in Losing(seen')
  BY DEF Losing
<1>3. lapsed' # lapsed \cup Losing(seen') =>
         seen' = seen \/ \E r \in Request, m \in Nonce : Accepted(r, m)
  BY Steps DEF vars, FlushBegins, FlushSnapshots, FlushStores, FlushFails, Crash, Tick,
               RecordMutation, Finish, Replayed, Forget, guardVars, historyVars
<1>. QED BY <1>1, <1>2, <1>3 DEF Accepted

\* No request is said to have lapsed and then not to have.
LEMMA LapsedStays == [Next]_vars => lapsed \subseteq lapsed'
BY Steps DEF vars, FlushBegins, FlushSnapshots, FlushStores, FlushFails, Crash, Tick,
             RecordMutation, Finish, Replayed, Accepted, Forget, guardVars, historyVars

\* A request that is let in makes its own entry and otherwise only takes some away.
LEMMA AcceptedTable ==
    ASSUME TypeOK, NEW r \in Request, NEW m \in Nonce, Accepted(r, m), NEW n \in Nonce
    PROVE  seen'[n] = 0 \/ seen'[n] = IF n = m THEN clock ELSE seen[n]
<1>. DEFINE t == [seen EXCEPT ![m] = clock]
<1>1. t \in Table /\ t[n] = IF n = m THEN clock ELSE seen[n]
  BY DEF TypeOK, Table
<1>2. \A k \in Kept(t) : Only(k, t)[n] \in {t[n], 0}
  BY <1>1, PrunedTable
<1>3. seen' = t \/ \E k \in Kept(t) : seen' = Only(k, t)
  BY DEF Accepted
<1>. QED BY <1>1, <1>2, <1>3

\* Whoever is inside keeps the entry, or lapses when it goes.
LEMMA StepKept == IInv /\ [Next]_vars => EntryKept'
<1>. SUFFICES ASSUME IInv, [Next]_vars, NEW q \in Request, NEW n \in Nonce, Holds(q, n)',
                     q \notin lapsed'
              PROVE  seen'[n] = req'[q].since
  BY DEF EntryKept
<1>. USE DEF IInv, TypeOK
<1>1. CASE Accepted(q, n)
  <2>1. seen'[n] # 0 /\ req'[q].since = clock
    BY <1>1 DEF Accepted
  <2>. QED BY <1>1, <2>1, AcceptedTable
<1>2. CASE Holds(q, n) /\ req'[q].since = req[q].since
  <2>1. seen[n] = req[q].since /\ req[q].since > 0 /\ n \in req[q].nonce
    BY <1>2, LapsedStays DEF EntryKept, Dated, Holds, Inside
  <2>. QED BY <1>2, <2>1, ChangeLapses
<1>. QED BY <1>1, <1>2, HeldBefore

\* What a step does to an entry: it stays, goes, is made for a request that is let
\* in now, or comes back with a restart.
LEMMA EntrySteps ==
    ASSUME TypeOK, [Next]_vars, NEW n \in Nonce, seen'[n] # seen[n], seen'[n] > 0
    PROVE  \/ Crash
           \/ seen'[n] = clock /\ \E r \in Request : Accepted(r, n)
<1>. USE DEF TypeOK, guardVars
<1>1. ASSUME FlushSnapshots PROVE FALSE
  BY <1>1, PrunedTable DEF FlushSnapshots, Table
<1>2. ASSUME NEW r \in Request, NEW m \in Nonce, Forget(r, m) PROVE FALSE
  BY <1>2 DEF Forget
<1>3. ASSUME NEW r \in Request, NEW m \in Nonce, Accepted(r, m)
      PROVE  m = n /\ seen'[n] = clock
  BY <1>3, AcceptedTable
<1>4. \/ seen' = seen \/ FlushSnapshots \/ Crash
      \/ \E r \in Request, m \in Nonce : Accepted(r, m) \/ Forget(r, m)
  BY Steps DEF vars, FlushBegins, FlushStores, FlushFails, Tick, RecordMutation, Finish, Replayed
<1>. QED BY <1>1, <1>2, <1>3, <1>4

\* A request stays inside as long as its entry counts.
LEMMA HeldAfter ==
    ASSUME IInv, [Next]_vars, NEW q \in Request, NEW n \in Nonce, Holds(q, n),
           seen[n] = req[q].since, seen'[n] = seen[n], Live(seen[n])'
    PROVE  Holds(q, n)' /\ req'[q].since = req[q].since
<1>1. clock' - req[q].since < TTL /\ seen'[n] > 0 /\ n \in req[q].nonce
  BY DEF Live, Holds
<1>. USE DEF IInv, TypeOK, Holds, Move, guardVars
<1>2. CASE FlushBegins \/ FlushSnapshots \/ FlushStores \/ FlushFails \/ Tick \/ UNCHANGED vars
  BY <1>1, <1>2 DEF FlushBegins, FlushSnapshots, FlushStores, FlushFails, Tick, vars
<1>3. CASE Crash
  BY <1>1, <1>3 DEF Crash
<1>4. ASSUME NEW r \in Request, RecordMutation(r) \/ Finish(r)
      PROVE  Holds(q, n)' /\ req'[q].since = req[q].since
  BY <1>1, <1>4 DEF RecordMutation, Finish
<1>5. ASSUME NEW r \in Request, NEW m \in Nonce, Replayed(r, m) \/ Accepted(r, m)
      PROVE  Holds(q, n)' /\ req'[q].since = req[q].since
  BY <1>1, <1>5 DEF Replayed, Accepted
<1>6. ASSUME NEW r \in Request, NEW m \in Nonce, Forget(r, m)
      PROVE  Holds(q, n)' /\ req'[q].since = req[q].since
  <2>1. r # q
    <3>1. m # n
      BY <1>1, <1>6 DEF Forget
    <3>. QED BY <1>1, <1>6, <3>1 DEF Forget, Dated
  <2>. QED BY <1>1, <1>6, <2>1 DEF Forget
<1>. QED BY <1>2, <1>3, <1>4, <1>5, <1>6, Steps

\* What counts in the table has its owner inside, or came back with a restart.
LEMMA StepOwned == IInv /\ [Next]_vars => EntryOwned'
<1>. SUFFICES ASSUME IInv, [Next]_vars, NEW n \in Nonce, Live(seen[n])', n \notin revived'
              PROVE  \E q \in Request : Holds(q, n)' /\ seen'[n] = req'[q].since
  BY DEF EntryOwned
<1>. USE DEF IInv, TypeOK
<1>1. seen'[n] > 0
  BY DEF Live
<1>2. ASSUME NEW r \in Request, Accepted(r, n)
      PROVE  Holds(r, n)' /\ seen'[n] = req'[r].since
  <2>1. seen'[n] = clock
    BY <1>1, <1>2, AcceptedTable
  <2>. QED BY <1>2, <2>1, GuardAssumption DEF Accepted, Holds
<1>3. CASE ~\E r \in Request : Accepted(r, n)
  <2>1. ~Crash \/ seen'[n] = seen[n]
    BY <1>1 DEF Crash
  <2>2. seen'[n] = seen[n]
    BY <1>1, <1>3, <2>1, EntrySteps
  <2>3. Live(seen[n])
    BY <2>2, LiveBack DEF Live
  <2>4. n \notin revived
    BY <1>3, Steps
       DEF vars, FlushBegins, FlushSnapshots, FlushStores, FlushFails, Crash, Tick,
           RecordMutation, Finish, Replayed, Accepted, Forget, historyVars
  <2>5. PICK q \in Request : Holds(q, n) /\ seen[n] = req[q].since
    BY <2>3, <2>4 DEF EntryOwned
  <2>. QED BY <2>2, <2>5, HeldAfter
<1>. QED BY <1>2, <1>3

\* A request that is not idle any more was answered now.
LEMMA FromIdle ==
    ASSUME TypeOK, Next, NEW r \in Request, req[r].at = "idle", req'[r].at # "idle"
    PROVE  \E m \in Nonce : Accepted(r, m) \/ Replayed(r, m)
<1>. USE DEF TypeOK, Move, guardVars
<1>1. ASSUME NEW s \in Request, RecordMutation(s) \/ Finish(s) PROVE FALSE
  <2>1. r # s
    BY <1>1 DEF RecordMutation, Finish
  <2>. QED BY <1>1, <2>1 DEF RecordMutation, Finish
<1>2. ASSUME NEW s \in Request, NEW m \in Nonce, Forget(s, m) PROVE FALSE
  <2>1. r # s
    BY <1>2 DEF Forget
  <2>. QED BY <1>2, <2>1 DEF Forget
<1>3. ASSUME NEW s \in Request, NEW m \in Nonce, Accepted(s, m) \/ Replayed(s, m) PROVE s = r
  BY <1>3 DEF Accepted, Replayed
<1>4. ASSUME req' = req \/ Crash PROVE FALSE
  BY <1>4 DEF Crash
<1>. QED BY <1>1, <1>2, <1>3, <1>4
         DEF Next, Flush, Handle, FlushBegins, FlushSnapshots, FlushStores, FlushFails, Tick

-----------------------------------------------------------------------------
(* The theorems.                                                           *)

\* The invariant the others rest on.
THEOREM InvariantHolds == Spec => []IInv
<1>1. IInv /\ [Next]_vars => IInv'
  <2>. SUFFICES ASSUME IInv, [Next]_vars PROVE IInv'
    OBVIOUS
  <2>1. SnapshotFits'
    BY StepFits DEF SnapshotFits, Entries
  <2>. QED BY <2>1, StepType, StepDated, StepBehind, StepFlushed, StepCurrent, StepKept, StepOwned
           DEF IInv
<1>. QED BY InitInv, <1>1, PTL DEF Spec

\* Types; the table and the file never hold more than MAX_ENTRIES.
THEOREM TypeCorrect == Spec => []TypeOK
<1>1. IInv => TypeOK
  BY DEF IInv
<1>. QED BY <1>1, InvariantHolds, PTL

\* When the worker has caught up, a restart restores what counts.
THEOREM FlushedIsSaved == Spec => []FlushedMeansSaved
<1>1. IInv => FlushedMeansSaved
  BY DEF IInv
<1>. QED BY <1>1, InvariantHolds, PTL

\* An equal request is not let in twice, unless the entry of the first lapsed.
THEOREM LetInOnce == Spec => AcceptedOnce
<1>. DEFINE A == \A r \in Request : req[r].at = "idle" /\ req'[r].at = "reserved" =>
                    \A n \in req'[r].nonce, q \in Request : Holds(q, n) => q \in lapsed
<1>1. IInv /\ [Next]_vars => [A]_vars
  <2>. SUFFICES ASSUME IInv, Next, NEW r \in Request, req[r].at = "idle",
                       req'[r].at = "reserved", NEW n \in req'[r].nonce, NEW q \in Request,
                       Holds(q, n)
                PROVE  q \in lapsed
    OBVIOUS
  <2>. USE DEF IInv
  <2>1. Accepted(r, n)
    <3>1. PICK m \in Nonce : Accepted(r, m) \/ Replayed(r, m)
      BY FromIdle
    <3>2. Accepted(r, m)
      BY <3>1 DEF TypeOK, Replayed
    <3>3. req'[r].nonce = {m}
      BY <3>2 DEF TypeOK, Accepted
    <3>. QED BY <3>2, <3>3
  <2>2. ~Live(seen[n]) /\ n \in Nonce
    BY <2>1 DEF TypeOK, Accepted, Holds
  <2>3. ~(seen[n] = req[q].since)
    BY <2>2 DEF TypeOK, Holds, Live, Dated, Inside
  <2>. QED BY <2>2, <2>3 DEF EntryKept
<1>. QED BY <1>1, InvariantHolds, PTL DEF Spec, AcceptedOnce

\* A replay is of a request inside, or of one whose entry a restart brought back.
THEOREM ReplaysAreReplays == Spec => ReplayAcked
<1>. DEFINE A == \A r \in Request : req[r].at = "idle" /\ req'[r].at = "replay" =>
                    \A n \in req'[r].nonce : n \in revived \/ \E q \in Request : Holds(q, n)
<1>1. IInv /\ [Next]_vars => [A]_vars
  <2>. SUFFICES ASSUME IInv, Next, NEW r \in Request, req[r].at = "idle",
                       req'[r].at = "replay", NEW n \in req'[r].nonce
                PROVE  n \in revived \/ \E q \in Request : Holds(q, n)
    OBVIOUS
  <2>. USE DEF IInv
  <2>1. Live(seen[n]) /\ n \in Nonce
    <3>1. PICK m \in Nonce : Accepted(r, m) \/ Replayed(r, m)
      BY FromIdle
    <3>2. req'[r].nonce = {m} /\ Replayed(r, m)
      BY <3>1 DEF TypeOK, Replayed, Accepted
    <3>. QED BY <3>2 DEF Replayed
  <2>. QED BY <2>1 DEF EntryOwned
<1>. QED BY <1>1, InvariantHolds, PTL DEF Spec, ReplayAcked
=============================================================================
