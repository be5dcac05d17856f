---------------------------- MODULE ReplayGuard ----------------------------
(***************************************************************************)
(* The gateway's guard against repeated requests                           *)
(* (transport/gateway/replay_guard.rs): a table of the bodies seen within  *)
(* a time to live, which handlers (transport/gateway/handlers) reserve an  *)
(* entry of before they process a request, and give back when processing   *)
(* fails.  A worker thread writes the table to a file whenever it changed; *)
(* the process reads it back when it starts.                               *)
(*                                                                         *)
(* Time is in ticks from 1 on; 0 stands for no entry.  When the table is   *)
(* pruned of entries that do not count any more is left open.              *)
(***************************************************************************)
EXTENDS Naturals, FiniteSets

CONSTANTS
    Nonce,        \* hashes of scope and body
    Request,
    TTL,          \* DEFAULT_TTL_SECS
    MaxEntries,   \* MAX_ENTRIES
    MaxTime,      \* bound: the clock
    MaxMishaps    \* bound: crashes and failed writes

ASSUME GuardAssumption == IsFiniteSet(Nonce) /\ TTL \in Nat \ {0} /\ MaxEntries \in Nat \ {0}
ASSUME BoundAssumption == MaxTime \in Nat /\ MaxMishaps \in Nat

-----------------------------------------------------------------------------
VARIABLES
    clock,
    seen,       \* the table: when each nonce was recorded
    mutations,  \* mutation_seq
    persisted,  \* persisted_seq
    file,       \* replay_guard.json
    worker,     \* the flush worker: where it is, its target_seq and snapshot
    req,        \* per request: where its handler is, its nonce, when it was accepted
    mishaps,    \* history: how many there were
    lapsed,     \* history: requests whose entry was lost, not given back by them
    revived     \* history: nonces whose entry came back with a restart

guardVars == <<seen, mutations, persisted, file, worker>>
historyVars == <<lapsed, revived>>
vars == <<clock, guardVars, req, mishaps, historyVars>>

None == [n \in Nonce |-> 0]
Resting == [at |-> "idle", target |-> 0, entries |-> None]

\* nonce is a set of at most one.
Waiting == [at |-> "idle", nonce |-> {}, since |-> 0]

Init ==
    /\ clock = 1
    /\ seen = None /\ mutations = 0 /\ persisted = 0 /\ file = None
    /\ worker = Resting
    /\ req = [r \in Request |-> Waiting]
    /\ mishaps = 0 /\ lapsed = {} /\ revived = {}

\* Mutation: the last tick of the time to live is forgotten.
LiveButLast(ts) == ts > 0 /\ clock - ts < TTL - 1

Live(ts) == ts > 0 /\ clock - ts < TTL

Entries(table) == {n \in Nonce : table[n] > 0}
LiveIn(table) == {n \in Nonce : Live(table[n])}

Only(kept, table) == [n \in Nonce |-> IF n \in kept THEN table[n] ELSE 0]

\* prune_entries: what may be left of a table.  Beyond MaxEntries the oldest live
\* entries go; among those of one second the order of the map decides.
Kept(table) ==
    LET live == LiveIn(table) IN
    IF Cardinality(live) <= MaxEntries THEN {live}
    ELSE {k \in SUBSET live : /\ Cardinality(k) = MaxEntries
                              /\ \A m \in k, n \in live \ k : table[n] <= table[m]}

-----------------------------------------------------------------------------
(* Handlers.                                                               *)

\* The requests that lose their entry when the table becomes this one.
Losing(table) ==
    {q \in Request : \E n \in req[q].nonce :
        req[q].since > 0 /\ req[q].since = seen[n] /\ table[n] # seen[n]}

Move(r, at) == req' = [req EXCEPT ![r].at = at]

\* check_and_record_hash answers false, and the request is acknowledged.
Replayed(r, n) ==
    /\ req[r].at = "idle"
    /\ Live(seen[n])
    /\ req' = [req EXCEPT ![r] = [at |-> "replay", nonce |-> {n}, since |-> 0]]
    /\ UNCHANGED <<clock, guardVars, mishaps, historyVars>>

\* It records the nonce and may prune the table; it has to when that is too full.
Accepted(r, n) ==
    LET table == [seen EXCEPT ![n] = clock] IN
    /\ req[r].at = "idle"
    /\ ~Live(seen[n])
    /\ \/ Cardinality(Entries(table)) <= MaxEntries /\ seen' = table
       \/ \E k \in Kept(table) : seen' = Only(k, table)
    /\ lapsed' = lapsed \cup Losing(seen') \cup (IF seen'[n] = 0 THEN {r} ELSE {})
    /\ revived' = revived \ {n}
    /\ req' = [req EXCEPT ![r] = [at |-> "reserved", nonce |-> {n}, since |-> clock]]
    /\ UNCHANGED <<clock, mutations, persisted, file, worker, mishaps>>

\* record_mutation, after the lock is released.  It may wake the worker early.
RecordMutation(r) ==
    /\ req[r].at \in {"reserved", "forgotten"}
    /\ mutations' = mutations + 1
    /\ Move(r, IF req[r].at = "reserved" THEN "working" ELSE "failed")
    /\ UNCHANGED <<clock, seen, persisted, file, worker, mishaps, historyVars>>

\* The request was processed, or it was turned down after the reservation: by a
\* limit, a policy, its content, or because the client went away.  WhatsApp and A2A
\* requests that fail end here as well.
Finish(r) ==
    /\ req[r].at = "working"
    /\ Move(r, "done") \/ Move(r, "refused")
    /\ UNCHANGED <<clock, guardVars, mishaps, historyVars>>

\* Mutation: the entry is looked for in another scope.
ForgetElsewhere(r, n) ==
    /\ req[r].at = "working" /\ n \in req[r].nonce
    /\ Move(r, "failed")
    /\ UNCHANGED <<clock, guardVars, mishaps, historyVars>>

\* forget_scoped, after processing failed: whoever's entry it is.
Forget(r, n) ==
    /\ req[r].at = "working" /\ n \in req[r].nonce
    /\ seen' = [seen EXCEPT ![n] = 0]
    /\ Move(r, IF seen[n] > 0 THEN "forgotten" ELSE "failed")
    /\ lapsed' = lapsed \cup Losing(seen')
    /\ UNCHANGED <<clock, mutations, persisted, file, worker, mishaps, revived>>

-----------------------------------------------------------------------------
(* The flush worker: flush_replay_state.                                    *)

FlushBegins ==
    /\ worker.at = "idle"
    /\ persisted < mutations
    /\ worker' = [Resting EXCEPT !.at = "begun", !.target = mutations]
    /\ UNCHANGED <<clock, seen, mutations, persisted, file, req, mishaps, historyVars>>

FlushSnapshots ==
    /\ worker.at = "begun"
    /\ \E k \in Kept(seen) :
          /\ seen' = Only(k, seen)
          /\ lapsed' = lapsed \cup Losing(seen')
          /\ worker' = [worker EXCEPT !.at = "taken", !.entries = Only(k, seen)]
    /\ UNCHANGED <<clock, mutations, persisted, file, req, mishaps, revived>>

\* Mutation: what was recorded meanwhile is taken for persisted.
FlushMarksAll ==
    /\ worker.at = "taken"
    /\ file' = worker.entries
    /\ persisted' = mutations
    /\ worker' = Resting
    /\ UNCHANGED <<clock, seen, mutations, req, mishaps, historyVars>>

\* A temporary file and a rename; then persisted_seq is raised.
FlushStores ==
    /\ worker.at = "taken"
    /\ file' = worker.entries
    /\ persisted' = IF worker.target > persisted THEN worker.target ELSE persisted
    /\ worker' = Resting
    /\ UNCHANGED <<clock, seen, mutations, req, mishaps, historyVars>>

FlushFails ==
    /\ worker.at = "taken"
    /\ mishaps < MaxMishaps
    /\ mishaps' = mishaps + 1
    /\ worker' = Resting
    /\ UNCHANGED <<clock, seen, mutations, persisted, file, req, historyVars>>

-----------------------------------------------------------------------------
\* The process dies and starts again with what the file says.
Crash ==
    /\ mishaps < MaxMishaps
    /\ mishaps' = mishaps + 1
    /\ \E k \in Kept(file) : seen' = Only(k, file)
    /\ lapsed' = lapsed \cup Losing(seen')
    /\ revived' = revived \cup {n \in Nonce : seen'[n] > 0 /\ seen'[n] # seen[n]}
    /\ mutations' = 0 /\ persisted' = 0 /\ worker' = Resting
    /\ req' = [r \in Request |->
                 IF req[r].at \in {"reserved", "working"} THEN [req[r] EXCEPT !.at = "lost"]
                 ELSE IF req[r].at = "forgotten" THEN [req[r] EXCEPT !.at = "failed"]
                 ELSE req[r]]
    /\ UNCHANGED <<clock, file>>

Tick ==
    /\ clock < MaxTime
    /\ clock' = clock + 1
    /\ UNCHANGED <<guardVars, req, mishaps, historyVars>>

Flush == FlushBegins \/ FlushSnapshots \/ FlushStores

Handle(r) ==
    \/ RecordMutation(r) \/ Finish(r)
    \/ \E n \in Nonce : Replayed(r, n) \/ Accepted(r, n) \/ Forget(r, n)

Next == Flush \/ FlushFails \/ Crash \/ Tick \/ \E r \in Request : Handle(r)

Spec == Init /\ [][Next]_vars

-----------------------------------------------------------------------------
(* Properties.                                                             *)

\* Types; the table and the file hold no more than MaxEntries.
TypeOK ==
    /\ clock \in Nat /\ mutations \in Nat /\ persisted \in Nat
    /\ seen \in [Nonce -> Nat] /\ file \in [Nonce -> Nat]
    /\ worker \in [at : {"idle", "begun", "taken"}, target : Nat, entries : [Nonce -> Nat]]
    /\ req \in [Request ->
                  [at : {"idle", "replay", "reserved", "working", "done", "refused",
                         "forgotten", "failed", "lost"},
                   nonce : SUBSET Nonce, since : Nat]]
    /\ mishaps \in 0 .. MaxMishaps /\ lapsed \subseteq Request /\ revived \subseteq Nonce
    /\ Cardinality(Entries(seen)) <= MaxEntries /\ Cardinality(Entries(file)) <= MaxEntries

\* When the worker has nothing left to do, and no handler is about to record a
\* change, a restart would restore exactly the entries that still count: no change
\* slips between the two sequence numbers, whenever the worker reads them.
FlushedMeansSaved ==
    (worker.at = "idle" /\ persisted = mutations
        /\ \A r \in Request : req[r].at \notin {"reserved", "forgotten"})
    => \A n \in Nonce : Live(seen[n]) \/ Live(file[n]) => seen[n] = file[n]

\* Holds for a request that was let in and has not failed, while its entry counts.
Holds(r, n) ==
    /\ n \in req[r].nonce
    /\ req[r].at \in {"reserved", "working", "done", "refused", "lost"}
    /\ clock - req[r].since < TTL

\* No request is let in while an equal one that was let in within the time to live
\* has not failed, unless the entry of that one was lost: by a crash before the next flush, an
\* overflow, or a handler that fails after its own entry has expired and gives back
\* that of another.
AcceptedOnce ==
    [][\A r \in Request : req[r].at = "idle" /\ req'[r].at = "reserved" =>
          \A n \in req'[r].nonce, q \in Request : Holds(q, n) => q \in lapsed]_vars

\* A request is answered as a replay only if an equal one was let in within the
\* time to live and has not failed, so that the client's retry of a failed request
\* is served; a crash may bring back an entry given back since the last flush.
ReplayAcked ==
    [][\A r \in Request : req[r].at = "idle" /\ req'[r].at = "replay" =>
          \A n \in req'[r].nonce : n \in revived \/ \E q \in Request : Holds(q, n)]_vars
=============================================================================
