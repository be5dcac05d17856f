------------------------------ MODULE Sessions ------------------------------
(***************************************************************************)
(* The sessions of one conversation (core/sessions): the binding of its    *)
(* key to a session, the transcripts and their compaction.  Callers        *)
(* resolve the session, record a turn in it, or reset it (/new), each in   *)
(* several statements to PostgreSQL, which is external: a statement or a   *)
(* transaction commits as one, and a transaction reads what is committed.  *)
(*                                                                         *)
(* Left out: metadata, paging, and the messages that restore context after *)
(* a compaction, which hold nothing of the transcript.  A summary has the  *)
(* timestamp of its commit, is not truncated, and quotes no message for    *)
(* its wording (tool activity, decisions).  Every message counts as one    *)
(* token.                                                                  *)
(***************************************************************************)
EXTENDS Naturals, FiniteSets

CONSTANTS
    Client,          \* handlers of messages and operators
    Session,
    NoSession,
    TokenThreshold,  \* CompactionConfig::token_threshold
    KeepPercent,     \* CompactionConfig::keep_fraction
    KeyExchangeLimit,
    MaxStamp         \* bound: timestamps taken

ASSUME SessionsAssumption ==
    /\ NoSession \notin Session
    /\ TokenThreshold \in Nat \ {0}
    /\ KeepPercent \in 0 .. 100
    /\ KeyExchangeLimit \in Nat
    /\ MaxStamp \in Nat

-----------------------------------------------------------------------------
VARIABLES
    state,       \* the table sessions
    bindings,    \* the rows of session_bindings of the key
    transcript,  \* the table chat_messages, per session
    client,      \* per client, where it is and what it has read
    clock,       \* the last timestamp taken
    resolved,    \* history: the sessions that a resolve created
    held         \* history: per client, the sessions bound while it resolves

vars == <<state, bindings, transcript, client, clock, resolved, held>>

\* SessionState, and a row that is not there or not committed yet.
State == {"none", "pending", "active", "compacted", "archived"}

\* A message with its created_at.  It stands for itself, a summary, which is one of
\* the system, for those it quotes: of is a set of timestamps of messages.
Message == [stamp : Nat, role : {"user", "assistant", "system"}, of : SUBSET Nat]

Idle == [at |-> "idle", session |-> NoSession, own |-> FALSE,
         stamp |-> 0, read |-> {}]

Init ==
    /\ state = [s \in Session |-> "none"]
    /\ bindings = {}
    /\ transcript = [s \in Session |-> {}]
    /\ client = [c \in Client |-> Idle]
    /\ clock = 0
    /\ resolved = {}
    /\ held = [c \in Client |-> {}]

Visible(s) == state[s] \in {"active", "compacted", "archived"}

\* A new id: one that nobody remembers from a session deleted since.
Fresh(s) == state[s] = "none" /\ \A c \in Client : client[c].session # s

\* released_at IS NULL: one row at most, by the index session_bindings_active.
Bound == {b.session : b \in {r \in bindings : r.live}}

Resolving == {"choose", "bind", "reload"}

Bind(s) ==
    /\ bindings' = bindings \cup {[session |-> s, live |-> TRUE]}
    /\ held' = [c \in Client |-> IF client[c].at \in Resolving
                                   THEN held[c] \cup {s} ELSE held[c]]

GoWith(c, at, s) == client' = [client EXCEPT ![c] = [Idle EXCEPT !.at = at, !.session = s]]
Go(c, at) == client' = [client EXCEPT ![c].at = at]

\* A failed statement, a lost connection or the end of the process: what was
\* committed stays, an open transaction is rolled back.
RolledBack(c) ==
    [s \in Session |-> IF client[c].own /\ client[c].session = s
                          /\ state[s] = "pending" THEN "none" ELSE state[s]]

Leave(c) == client' = [client EXCEPT ![c] = Idle]

Drop(c) ==
    /\ client[c].at # "idle"
    /\ Leave(c)
    /\ held' = [held EXCEPT ![c] = {}]
    /\ state' = RolledBack(c)
    /\ UNCHANGED <<bindings, transcript, clock, resolved>>

-----------------------------------------------------------------------------
(* resolve_or_create_bound_session                                         *)

\* load_bound_session_in_tx: the state of the session is not asked for.
Resolve(c) ==
    /\ client[c].at = "idle"
    /\ held' = [held EXCEPT ![c] = Bound]
    /\ IF Bound = {} THEN Go(c, "choose")
                     ELSE \E s \in Bound : GoWith(c, "resolved", s)
    /\ UNCHANGED <<state, bindings, transcript, clock, resolved>>

\* The newest active session of the scope: any, since updated_at is left out.
\* Without one, a session is created.
Choose(c) ==
    LET active == {s \in Session : state[s] = "active"} IN
    /\ client[c].at = "choose"
    /\ IF active # {}
         THEN /\ \E s \in active : GoWith(c, "bind", s)
              /\ UNCHANGED <<state, resolved>>
         ELSE \E s \in Session :
                /\ Fresh(s)
                /\ state' = [state EXCEPT ![s] = "pending"]
                /\ resolved' = resolved \cup {s}
                /\ client' = [client EXCEPT ![c].at = "bind", ![c].session = s,
                                            ![c].own = TRUE]
    /\ UNCHANGED <<bindings, transcript, clock, held>>

\* INSERT ... ON CONFLICT DO NOTHING, which waits for the transaction that is
\* inserting the key, and COMMIT.
Claim(c) ==
    LET s == client[c].session IN
    /\ client[c].at = "bind" /\ Bound = {}
    /\ client[c].own \/ Visible(s)          \* REFERENCES sessions(id)
    /\ Bind(s)
    /\ state' = IF client[c].own THEN [state EXCEPT ![s] = "active"] ELSE state
    /\ GoWith(c, "resolved", s)
    /\ UNCHANGED <<transcript, clock, resolved>>

LoseClaim(c) ==
    /\ client[c].at = "bind" /\ Bound # {}
    /\ Go(c, "reload")
    /\ UNCHANGED <<state, bindings, transcript, clock, resolved, held>>

\* Mutation: the loser's session is committed with its transaction.
KeptUnbound(c) ==
    [s \in Session |-> IF client[c].own /\ client[c].session = s
                         THEN "active" ELSE state[s]]

\* delete_session_if_unbound_in_tx
DeletedIfUnbound(c) == RolledBack(c)

\* Mutation: the loser keeps the session it chose.
OwnChoice(c) == {client[c].session}

\* What the caller is given when another transaction bound the key.
Winner(c) == Bound

\* "bound session disappeared during concurrent resolution" is a Drop.
Reload(c) ==
    /\ client[c].at = "reload" /\ Bound # {}
    /\ state' = DeletedIfUnbound(c)
    /\ \E s \in Winner(c) : GoWith(c, "resolved", s)
    /\ UNCHANGED <<bindings, transcript, clock, resolved, held>>

\* The caller names a session by its id (load_provider_history_async).
LoadById(c) ==
    /\ client[c].at = "idle"
    /\ \E s \in Session : Visible(s) /\ GoWith(c, "turn", s)
    /\ UNCHANGED <<state, bindings, transcript, clock, resolved, held>>

-----------------------------------------------------------------------------
(* record_turn: two messages and a compaction.                             *)

\* append_message_with_parts takes the timestamp before its transaction.
Stamp(c) ==
    /\ client[c].at \in {"resolved", "turn", "recorded"}
    /\ clock < MaxStamp
    /\ clock' = clock + 1
    /\ client' = [client EXCEPT
         ![c].at = IF @ = "recorded" THEN "assistant" ELSE "user",
         ![c].stamp = clock']
    /\ held' = [held EXCEPT ![c] = {}]
    /\ UNCHANGED <<state, bindings, transcript, resolved>>

Append(c) ==
    LET s == client[c].session
        n == client[c].stamp IN
    /\ client[c].at \in {"user", "assistant"}
    /\ Visible(s)                           \* REFERENCES sessions(id)
    /\ transcript' = [transcript EXCEPT
         ![s] = @ \cup {[stamp |-> n, role |-> client[c].at, of |-> {n}]}]
    /\ GoWith(c, IF client[c].at = "user" THEN "recorded" ELSE "compact", s)
    /\ UNCHANGED <<state, bindings, clock, resolved, held>>

ShouldCompact(messages) == Cardinality(messages) > TokenThreshold

\* split_index, where keep_count is rounded and below the length.
SplitIndex(messages) ==
    LET n == Cardinality(messages)
        kept == (n * KeepPercent + 50) \div 100 IN
    n - (IF kept < n THEN kept ELSE n - 1)

ToSummarize(messages) ==
    {m \in messages :
       Cardinality({l \in messages : l.stamp <= m.stamp}) <= SplitIndex(messages)}

\* The last message of the summary, which itself is kept.
Cutoff(messages) ==
    CHOOSE m \in ToSummarize(messages) :
      \A l \in ToSummarize(messages) : l.stamp <= m.stamp

\* collect_exchange_pairs: a user's message and an assistant's after it, without
\* another of either between.
ExchangePairs(messages) ==
    {p \in messages \X messages :
       /\ p[1].role = "user" /\ p[2].role = "assistant" /\ p[1].stamp < p[2].stamp
       /\ \A m \in messages :
             p[1].stamp < m.stamp /\ m.stamp < p[2].stamp => m.role = "system"}

KeyExchanges(messages) ==
    LET pairs == ExchangePairs(messages) IN
    {p \in pairs : Cardinality({q \in pairs : p[1].stamp < q[1].stamp}) < KeyExchangeLimit}

\* build_structured_summary: the key exchanges and the user's last message, which
\* is the active context.  Messages of the system are passed over, so that a
\* summary carries nothing over from an earlier one.
Quoted(messages) ==
    {m \in messages :
       \/ \E p \in KeyExchanges(messages) : m \in {p[1], p[2]}
       \/ m.role = "user" /\ \A l \in messages : l.role = "user" => l.stamp <= m.stamp}

\* compact_session_with_config reads the transcript ...
ReadTranscript(c) ==
    LET messages == transcript[client[c].session] IN
    /\ client[c].at = "compact"
    /\ IF ShouldCompact(messages)
         THEN client' = [client EXCEPT ![c].at = "summarize", ![c].read = messages]
         ELSE Leave(c)
    /\ UNCHANGED <<state, bindings, transcript, clock, resolved, held>>

\* Mutation: all that is older than the newest message there is by now.
Everything(s, read) == {m \in transcript[s] : \E l \in transcript[s] : m.stamp < l.stamp}

\* A cutoff that is gone compares to NULL, and nothing is older.
Replaced(s, read) ==
    {m \in transcript[s] : Cutoff(read) \in transcript[s] /\ m.stamp < Cutoff(read).stamp}

\* ... and compact_messages_before replaces its prefix, whatever was appended
\* meanwhile.  The summary comes after the messages that are kept.
Compact(c) ==
    LET s == client[c].session
        read == client[c].read
        summary == [stamp |-> clock + 1, role |-> "system",
                    of |-> {m.stamp : m \in Quoted(ToSummarize(read))}] IN
    /\ client[c].at = "summarize"
    /\ Visible(s)                           \* else the transaction fails
    /\ clock < MaxStamp
    /\ clock' = clock + 1
    /\ transcript' = [transcript EXCEPT ![s] = (@ \ Replaced(s, read)) \cup {summary}]
    /\ state' = [state EXCEPT ![s] = "compacted"]
    /\ Leave(c)
    /\ UNCHANGED <<bindings, resolved, held>>

-----------------------------------------------------------------------------
(* reset_session: four statements, each on its own.                        *)

\* find_active_session: the bound session, or else an active one of the list.
Find(c) ==
    /\ client[c].at = "idle"
    /\ IF Bound = {} THEN Go(c, "list")
                     ELSE \E s \in Bound : GoWith(c, "archive", s)
    /\ UNCHANGED <<state, bindings, transcript, clock, resolved, held>>

List(c) ==
    LET active == {s \in Session : state[s] = "active"} IN
    /\ client[c].at = "list"
    /\ IF active = {} THEN Go(c, "release")
                      ELSE \E s \in active : GoWith(c, "archive", s)
    /\ UNCHANGED <<state, bindings, transcript, clock, resolved, held>>

\* update_session_state
Archive(c) ==
    LET s == client[c].session IN
    /\ client[c].at = "archive" /\ Visible(s)
    /\ state' = [state EXCEPT ![s] = "archived"]
    /\ GoWith(c, "release", NoSession)
    /\ UNCHANGED <<bindings, transcript, clock, resolved, held>>

\* release_binding
Release(c) ==
    /\ client[c].at = "release"
    /\ bindings' = {[b EXCEPT !.live = FALSE] : b \in bindings}
    /\ Go(c, "create")
    /\ UNCHANGED <<state, transcript, clock, resolved, held>>

\* create_session
Create(c) ==
    /\ client[c].at = "create"
    /\ \E s \in Session :
         /\ Fresh(s)
         /\ state' = [state EXCEPT ![s] = "active"]
         /\ resolved' = resolved \ {s}
         /\ GoWith(c, "attach", s)
    /\ UNCHANGED <<bindings, transcript, clock, held>>

\* create_binding: a key bound meanwhile violates the index, which is a Drop.
Attach(c) ==
    /\ client[c].at = "attach" /\ Bound = {} /\ Visible(client[c].session)
    /\ Bind(client[c].session)
    /\ Leave(c)
    /\ UNCHANGED <<state, transcript, clock, resolved>>

-----------------------------------------------------------------------------
(* Operators.                                                              *)

\* create_operator_session
OperatorCreate(s) ==
    /\ Fresh(s)
    /\ state' = [state EXCEPT ![s] = "active"]
    /\ resolved' = resolved \ {s}
    /\ UNCHANGED <<bindings, transcript, client, clock, held>>

\* Mutation: the foreign key does not cascade.
NoCascade(s) == bindings

\* ON DELETE CASCADE
Cascade(s) == {b \in bindings : b.session # s}

\* delete_operator_session
Delete(s) ==
    /\ Visible(s)
    /\ state' = [state EXCEPT ![s] = "none"]
    /\ bindings' = Cascade(s)
    /\ transcript' = [transcript EXCEPT ![s] = {}]
    /\ resolved' = resolved \ {s}
    /\ UNCHANGED <<client, clock, held>>

-----------------------------------------------------------------------------
Next ==
    \/ \E c \in Client :
         \/ Resolve(c) \/ Choose(c) \/ Claim(c) \/ LoseClaim(c) \/ Reload(c)
         \/ LoadById(c) \/ Stamp(c) \/ Append(c) \/ ReadTranscript(c) \/ Compact(c)
         \/ Find(c) \/ List(c) \/ Archive(c) \/ Release(c) \/ Create(c) \/ Attach(c)
         \/ Drop(c)
    \/ \E s \in Session : OperatorCreate(s) \/ Delete(s)

Spec == Init /\ [][Next]_vars

-----------------------------------------------------------------------------
(* Properties.                                                             *)

At == {"idle", "choose", "bind", "reload", "resolved", "turn", "user",
       "recorded", "assistant", "compact", "summarize", "archive", "list",
       "release", "create", "attach"}

\* Types, and the two constraints of the schema: one live binding of the key,
\* and every binding and message of a session that is there.
TypeOK ==
    /\ state \in [Session -> State]
    /\ bindings \subseteq [session : {s \in Session : Visible(s)}, live : BOOLEAN]
    /\ Cardinality(Bound) <= 1
    /\ transcript \in [Session -> SUBSET Message]
    /\ \A s \in Session : transcript[s] # {} => Visible(s)
    /\ client \in [Client -> [at : At, session : Session \cup {NoSession},
                              own : BOOLEAN, stamp : Nat, read : SUBSET Message]]
    /\ clock \in 0 .. MaxStamp
    /\ resolved \subseteq Session
    /\ held \in [Client -> SUBSET Session]

\* Whoever wins the race for the key, a resolve answers with a session the key
\* was bound to at some moment of the call.
ResolvedWasBound ==
    \A c \in Client : client[c].at = "resolved" => client[c].session \in held[c]

\* A session that a resolve created has been bound: the loser of a race for the
\* key leaves none behind.  Only a reset or an operator leaves unbound ones.
NothingStranded ==
    \A s \in Session :
      Visible(s) /\ s \in resolved => \E b \in bindings : b.session = s

\* What a transcript still says: its messages and those its summaries quote.
Remembered(s) == UNION {m.of : m \in transcript[s]}

\* A message that was to be summarised, as it was or quoted by a summary.
ToldOf(n, messages) == \E m \in messages : n \in m.of

\* A message that was appended with an older timestamp after the transcript was read.
LateFor(n, messages) == ~ToldOf(n, messages) /\ \E m \in messages : n < m.stamp

\* As long as its session is there, a message is in the transcript or is quoted,
\* unless a compaction has read it among what it was to summarise and left it out:
\* by the limits of a summary, or since it was known from an earlier summary only.
\* None that was to be kept or came while others compacted is forgotten.  The
\* exception: a compaction read the transcript while the message had its timestamp
\* and was not committed, and deleted it by the timestamp once it was.
ForgottenOnlyRead ==
    [][\A s \in Session : \A n \in Remembered(s) \ Remembered(s)' :
         \/ state'[s] = "none"
         \/ \E c \in Client :
              /\ client[c].at = "summarize" /\ client[c].session = s
              /\ ToldOf(n, ToSummarize(client[c].read)) \/ LateFor(n, client[c].read)]_vars

=============================================================================
