--------------------------- MODULE SessionsProofs ---------------------------
(***************************************************************************)
(* What Sessions promises of a resolve and of a compaction, for any        *)
(* clients, sessions and limits.                                           *)
(***************************************************************************)
EXTENDS Sessions, FiniteSetTheorems, WellFoundedInduction, TLAPS

-----------------------------------------------------------------------------
(* The invariant.                                                          *)

\* Types, without what is counted.
Typed ==
    /\ state \in [Session -> State]
    /\ bindings \subseteq [session : Session, live : BOOLEAN]
    /\ transcript \in [Session -> SUBSET Message]
    /\ client \in [Client -> [at : At, session : Session \cup {NoSession},
                              own : BOOLEAN, stamp : Nat, read : SUBSET Message]]
    /\ clock \in 0 .. MaxStamp
    /\ resolved \subseteq Session
    /\ held \in [Client -> SUBSET Session]

\* Where a client works on a session, it has one.
Placed ==
    \A c \in Client :
       client[c].at \notin {"idle", "choose", "list", "release", "create"}
         => client[c].session \in Session

\* The schema: bindings and messages belong to sessions, and one binding is live.
Schema ==
    /\ \A b \in bindings : Visible(b.session)
    /\ \A s \in Session : transcript[s] # {} => Visible(s)
    /\ \A s, t \in Bound : s = t

\* Whatever is bound while a client resolves is held for it.
HeldAll == \A c \in Client : client[c].at \in Resolving => Bound \subseteq held[c]

\* The messages that are known: committed, or read before they were deleted.
Known(m) == \/ \E s \in Session : m \in transcript[s]
            \/ \E c \in Client : m \in client[c].read

Pending(c) == client[c].at \in {"user", "assistant"}

\* Timestamps are taken from the clock, which runs.
Stamped ==
    /\ \A m \in Message : Known(m) => m.stamp <= clock /\ \A n \in m.of : n <= clock
    /\ \A c \in Client : Pending(c) => client[c].stamp <= clock

\* A timestamp is one client's until its message is committed.
PendingOwned ==
    \A c \in Client : Pending(c) =>
       /\ \A d \in Client : Pending(d) /\ d # c => client[d].stamp # client[c].stamp
       /\ \A m \in Message : Known(m) => m.stamp # client[c].stamp /\ client[c].stamp \notin m.of

\* The messages of a transcript are finitely many, with timestamps of their own.
Ordered(messages) ==
    /\ IsFiniteSet(messages)
    /\ \A l, m \in messages : l.stamp = m.stamp => l = m

AllOrdered ==
    /\ \A s \in Session : Ordered(transcript[s])
    /\ \A c \in Client : Ordered(client[c].read)

\* What a compaction did not read is newer than all it read, or it is a message of
\* which nothing was known then.
ReadBefore ==
    \A c \in Client : client[c].at = "summarize" =>
       /\ ShouldCompact(client[c].read)
       /\ \A m \in transcript[client[c].session] \ client[c].read, l \in client[c].read :
             m.stamp <= l.stamp =>
               /\ m.of = {m.stamp}
               /\ \A k \in client[c].read : m.stamp \notin k.of

IInv ==
    /\ Typed /\ Placed /\ Schema /\ HeldAll /\ ResolvedWasBound /\ NothingStranded
    /\ Stamped /\ PendingOwned /\ AllOrdered /\ ReadBefore

-----------------------------------------------------------------------------
(* The steps.                                                              *)

\* Next, action by action.
LEMMA Steps ==
    ASSUME Next
    PROVE  \/ \E c \in Client :
                \/ Resolve(c) \/ Choose(c) \/ Claim(c) \/ LoseClaim(c) \/ Reload(c)
                \/ LoadById(c) \/ Stamp(c) \/ Append(c) \/ ReadTranscript(c) \/ Compact(c)
                \/ Find(c) \/ List(c) \/ Archive(c) \/ Release(c) \/ Create(c) \/ Attach(c)
                \/ Drop(c)
           \/ \E s \in Session : OperatorCreate(s) \/ Delete(s)
BY DEF Next

\* The invariant holds at the start: there is nothing yet.
LEMMA InitInv == Init => IInv
<1>. SUFFICES ASSUME Init PROVE IInv
  OBVIOUS
<1>1. Typed
  BY SessionsAssumption DEF Init, Typed, Idle, At, State
<1>2. \A c \in Client : client[c].at = "idle" /\ client[c].read = {}
  BY DEF Init, Idle
<1>3. \A m : ~Known(m)
  BY <1>2 DEF Init, Known
<1>4. Placed /\ HeldAll /\ ResolvedWasBound /\ ReadBefore
  BY <1>2 DEF Placed, HeldAll, ResolvedWasBound, ReadBefore, Resolving
<1>5. Schema /\ NothingStranded
  BY DEF Init, Schema, NothingStranded, Bound, Visible
<1>6. Stamped /\ PendingOwned /\ AllOrdered
  BY <1>2, <1>3, FS_EmptySet DEF Init, Stamped, PendingOwned, AllOrdered, Ordered, Pending
<1>. QED BY <1>1, <1>4, <1>5, <1>6 DEF IInv

\* Records of clients.
ClientRecord == [at : At, session : Session \cup {NoSession}, own : BOOLEAN,
                 stamp : Nat, read : SUBSET Message]

\* What a client holds when it rests, and when it goes on with a session.
LEMMA GoingOn ==
    /\ Idle \in ClientRecord /\ Idle.at = "idle" /\ Idle.read = {} /\ Idle.session = NoSession
    /\ \A at \in At, s \in Session \cup {NoSession} :
          /\ [Idle EXCEPT !.at = at, !.session = s] \in ClientRecord
          /\ [Idle EXCEPT !.at = at, !.session = s].at = at
          /\ [Idle EXCEPT !.at = at, !.session = s].session = s
          /\ [Idle EXCEPT !.at = at, !.session = s].read = {}
<1>1. Idle \in ClientRecord /\ Idle.at = "idle" /\ Idle.read = {} /\ Idle.session = NoSession
  BY DEF Idle, ClientRecord, At
<1>. QED BY <1>1 DEF ClientRecord

\* A client that goes on with a session.
LEMMA GoesWith ==
    ASSUME client \in [Client -> ClientRecord], NEW c \in Client, NEW at \in At,
           NEW s \in Session \cup {NoSession}, GoWith(c, at, s)
    PROVE  /\ client' \in [Client -> ClientRecord]
           /\ \A d \in Client : d # c => client'[d] = client[d]
           /\ client'[c].at = at /\ client'[c].session = s /\ client'[c].read = {}
<1>. DEFINE r == [Idle EXCEPT !.at = at, !.session = s]
<1>1. r \in ClientRecord /\ r.at = at /\ r.session = s /\ r.read = {}
  BY GoingOn
<1>2. client' = [client EXCEPT ![c] = r]
  BY DEF GoWith
<1>. HIDE DEF r
<1>. QED BY <1>1, <1>2

\* A client that goes on with what it has.
LEMMA Goes ==
    ASSUME client \in [Client -> ClientRecord], NEW c \in Client, NEW at \in At, Go(c, at)
    PROVE  /\ client' \in [Client -> ClientRecord]
           /\ \A d \in Client : d # c => client'[d] = client[d]
           /\ client'[c].at = at /\ client'[c].session = client[c].session
           /\ client'[c].read = client[c].read
BY DEF Go, ClientRecord

\* A client that is done.
LEMMA Leaves ==
    ASSUME client \in [Client -> ClientRecord], NEW c \in Client, Leave(c)
    PROVE  /\ client' \in [Client -> ClientRecord]
           /\ \A d \in Client : d # c => client'[d] = client[d]
           /\ client'[c] = Idle /\ client'[c].at = "idle" /\ client'[c].read = {}
BY GoingOn DEF Leave

\* A client that makes a session of its own.
LEMMA Makes ==
    ASSUME client \in [Client -> ClientRecord], NEW c \in Client, NEW s \in Session,
           client' = [client EXCEPT ![c].at = "bind", ![c].session = s, ![c].own = TRUE]
    PROVE  /\ client' \in [Client -> ClientRecord]
           /\ \A d \in Client : d # c => client'[d] = client[d]
           /\ client'[c].at = "bind" /\ client'[c].session = s
           /\ client'[c].read = client[c].read
<1>. DEFINE r == [client[c] EXCEPT !.at = "bind", !.session = s, !.own = TRUE]
<1>1. client' = [client EXCEPT ![c] = r]
  OBVIOUS
<1>2. /\ r \in ClientRecord /\ r.at = "bind" /\ r.session = s
      /\ r.read = client[c].read
  <2>1. client[c] \in ClientRecord
    OBVIOUS
  <2>. QED BY <2>1 DEF ClientRecord, At
<1>. HIDE DEF r
<1>. QED BY <1>1, <1>2

\* A client that goes on with a timestamp.
LEMMA StampedRecord ==
    ASSUME client \in [Client -> ClientRecord], NEW c \in Client, NEW at \in At, NEW n \in Nat,
           client' = [client EXCEPT ![c].at = at, ![c].stamp = n]
    PROVE  /\ client' \in [Client -> ClientRecord]
           /\ \A d \in Client : d # c => client'[d] = client[d]
           /\ client'[c].at = at /\ client'[c].stamp = n
           /\ client'[c].session = client[c].session /\ client'[c].read = client[c].read
BY DEF ClientRecord

\* A client that takes a timestamp.
LEMMA Stamps ==
    ASSUME client \in [Client -> ClientRecord], clock \in Nat, NEW c \in Client, Stamp(c)
    PROVE  /\ client' \in [Client -> ClientRecord]
           /\ \A d \in Client : d # c => client'[d] = client[d]
           /\ client'[c].at \in {"user", "assistant"} /\ client'[c].stamp = clock + 1
           /\ client'[c].session = client[c].session /\ client'[c].read = client[c].read
           /\ clock' = clock + 1
<1>. DEFINE at == IF client[c].at = "recorded" THEN "assistant" ELSE "user"
<1>1. client' = [client EXCEPT ![c].at = at, ![c].stamp = clock + 1] /\ clock' = clock + 1
  BY DEF Stamp
<1>2. at \in At /\ at \in {"user", "assistant"}
  BY DEF At
<1>3. PICK n \in Nat : n = clock + 1
  OBVIOUS
<1>. HIDE DEF at
<1>4. client' = [client EXCEPT ![c].at = at, ![c].stamp = n]
  BY <1>1, <1>3
<1>5. /\ client' \in [Client -> ClientRecord]
      /\ \A d \in Client : d # c => client'[d] = client[d]
      /\ client'[c].at = at /\ client'[c].stamp = n
      /\ client'[c].session = client[c].session /\ client'[c].read = client[c].read
  BY <1>2, <1>4, StampedRecord
<1>. QED BY <1>1, <1>2, <1>3, <1>5

\* A client that reads a transcript to compact it.
LEMMA Reads ==
    ASSUME client \in [Client -> ClientRecord], NEW c \in Client,
           NEW messages \in SUBSET Message,
           client' = [client EXCEPT ![c].at = "summarize", ![c].read = messages]
    PROVE  /\ client' \in [Client -> ClientRecord]
           /\ \A d \in Client : d # c => client'[d] = client[d]
           /\ client'[c].at = "summarize" /\ client'[c].read = messages
           /\ client'[c].session = client[c].session
BY DEF ClientRecord, At

\* What a step does to the clients: one of them goes on, with no more than it had
\* read, or takes a timestamp, or reads a transcript.
Kept(d) == client'[d] = client[d]
Moved(d) ==
    /\ client'[d].at \notin {"user", "assistant", "summarize"}
    /\ client'[d].read \subseteq client[d].read
TookStamp(d) ==
    /\ client'[d].at \in {"user", "assistant"} /\ client'[d].stamp = clock + 1
    /\ client'[d].read = client[d].read /\ clock' = clock + 1
    /\ transcript' = transcript
TookTranscript(d) ==
    /\ client'[d].at = "summarize" /\ client'[d].session \in Session
    /\ client'[d].read = transcript[client'[d].session]
    /\ ShouldCompact(client'[d].read)
    /\ transcript' = transcript /\ clock' = clock

Stepped(c) ==
    /\ client' \in [Client -> ClientRecord]
    /\ \A d \in Client : d # c => Kept(d)
    /\ Kept(c) \/ Moved(c) \/ TookStamp(c) \/ TookTranscript(c)
    /\ client'[c].at \notin {"idle", "choose", "list", "release", "create"}
         => client'[c].session \in Session

\* Typed, in the parts that the steps of clients need.
LEMMA TypedClients ==
    ASSUME Typed
    PROVE  /\ client \in [Client -> ClientRecord]
           /\ clock \in Nat
           /\ transcript \in [Session -> SUBSET Message]
           /\ Bound \subseteq Session
BY SessionsAssumption DEF Typed, ClientRecord, Bound

\* What a step of a resolve does to the clients.
LEMMA ResolveStepped ==
    ASSUME Typed, Placed, NEW c \in Client,
           Resolve(c) \/ Choose(c) \/ Claim(c) \/ LoseClaim(c) \/ Reload(c) \/ LoadById(c)
    PROVE  Stepped(c)
<1>. USE TypedClients
<1>. "choose" \in At /\ "resolved" \in At /\ "bind" \in At /\ "reload" \in At /\ "turn" \in At
  BY DEF At
<1>1. CASE Resolve(c)
  <2>1. CASE Bound = {}
    BY <1>1, <2>1, Goes DEF Resolve, Stepped, Kept, Moved
  <2>2. CASE Bound # {}
    <3>1. PICK s \in Bound : GoWith(c, "resolved", s)
      BY <1>1, <2>2 DEF Resolve
    <3>. QED BY <3>1, GoesWith DEF Stepped, Kept, Moved
  <2>. QED BY <2>1, <2>2
<1>2. CASE Choose(c)
  <2>1. CASE \E s \in Session : GoWith(c, "bind", s)
    BY <2>1, GoesWith DEF Stepped, Kept, Moved
  <2>2. CASE \E s \in Session : client' = [client EXCEPT ![c].at = "bind", ![c].session = s,
                                                         ![c].own = TRUE]
    <3>1. PICK s \in Session : client' = [client EXCEPT ![c].at = "bind", ![c].session = s,
                                                         ![c].own = TRUE]
      BY <2>2
    <3>. QED BY <3>1, Makes DEF Stepped, Kept, Moved
  <2>. QED BY <1>2, <2>1, <2>2 DEF Choose
<1>3. CASE Claim(c)
  <2>1. GoWith(c, "resolved", client[c].session) /\ client[c].session \in Session
    BY <1>3 DEF Claim, Placed
  <2>. QED BY <2>1, GoesWith DEF Stepped, Kept, Moved
<1>4. CASE LoseClaim(c)
  <2>1. Go(c, "reload") /\ client[c].session \in Session
    BY <1>4 DEF LoseClaim, Placed
  <2>. QED BY <2>1, Goes DEF Stepped, Kept, Moved
<1>5. CASE Reload(c)
  <2>1. PICK s \in Session : GoWith(c, "resolved", s)
    BY <1>5 DEF Reload, Winner
  <2>. QED BY <2>1, GoesWith DEF Stepped, Kept, Moved
<1>6. CASE LoadById(c)
  <2>1. PICK s \in Session : GoWith(c, "turn", s)
    BY <1>6 DEF LoadById
  <2>. QED BY <2>1, GoesWith DEF Stepped, Kept, Moved
<1>. QED BY <1>1, <1>2, <1>3, <1>4, <1>5, <1>6

\* What a step of a turn does to the clients.
LEMMA TurnStepped ==
    ASSUME Typed, Placed, NEW c \in Client,
           Stamp(c) \/ Append(c) \/ ReadTranscript(c) \/ Compact(c)
    PROVE  Stepped(c)
<1>. USE TypedClients
<1>. "recorded" \in At /\ "compact" \in At
  BY DEF At
<1>1. CASE Stamp(c)
  <2>1. client[c].session \in Session /\ transcript' = transcript
    BY <1>1 DEF Stamp, Placed
  <2>. QED BY <1>1, <2>1, Stamps DEF Stepped, Kept, TookStamp
<1>2. CASE Append(c)
  <2>. DEFINE at == IF client[c].at = "user" THEN "recorded" ELSE "compact"
  <2>1. GoWith(c, at, client[c].session) /\ client[c].session \in Session
    BY <1>2 DEF Append, Placed
  <2>2. at \in At /\ at \notin {"user", "assistant", "summarize"}
    OBVIOUS
  <2>. HIDE DEF at
  <2>. QED BY <2>1, <2>2, GoesWith DEF Stepped, Kept, Moved
<1>3. CASE ReadTranscript(c)
  <2>1. client[c].session \in Session /\ transcript' = transcript /\ clock' = clock
    BY <1>3 DEF ReadTranscript, Placed
  <2>2. CASE Leave(c)
    BY <2>2, Leaves DEF Stepped, Kept, Moved
  <2>3. CASE ~Leave(c)
    <3>1. /\ ShouldCompact(transcript[client[c].session])
          /\ client' = [client EXCEPT ![c].at = "summarize",
                                      ![c].read = transcript[client[c].session]]
      BY <1>3, <2>3 DEF ReadTranscript
    <3>2. transcript[client[c].session] \in SUBSET Message
      BY <2>1
    <3>3. /\ client' \in [Client -> ClientRecord]
          /\ \A d \in Client : d # c => client'[d] = client[d]
          /\ client'[c].at = "summarize" /\ client'[c].session = client[c].session
          /\ client'[c].read = transcript[client[c].session]
      <4>. DEFINE messages == transcript[client[c].session]
      <4>1. client' = [client EXCEPT ![c].at = "summarize", ![c].read = messages]
        BY <3>1
      <4>2. messages \in SUBSET Message
        BY <3>2
      <4>. HIDE DEF messages
      <4>3. /\ client' \in [Client -> ClientRecord]
            /\ \A d \in Client : d # c => client'[d] = client[d]
            /\ client'[c].at = "summarize" /\ client'[c].session = client[c].session
            /\ client'[c].read = messages
        BY <4>1, <4>2, Reads
      <4>. QED BY <4>3 DEF messages
    <3>4. TookTranscript(c)
      BY <2>1, <3>1, <3>3 DEF TookTranscript
    <3>. QED BY <2>1, <3>3, <3>4 DEF Stepped, Kept
  <2>. QED BY <2>2, <2>3
<1>4. CASE Compact(c)
  <2>1. Leave(c)
    BY <1>4 DEF Compact
  <2>. QED BY <2>1, Leaves DEF Stepped, Kept, Moved
<1>. QED BY <1>1, <1>2, <1>3, <1>4

\* What a step of a reset does to the clients.
LEMMA ResetStepped ==
    ASSUME Typed, Placed, NEW c \in Client,
           Find(c) \/ List(c) \/ Archive(c) \/ Release(c) \/ Create(c) \/ Attach(c) \/ Drop(c)
    PROVE  Stepped(c)
<1>. USE TypedClients
<1>. /\ "list" \in At /\ "archive" \in At /\ "release" \in At /\ "create" \in At
     /\ "attach" \in At
  BY DEF At
<1>1. CASE Find(c)
  <2>1. CASE Go(c, "list")
    BY <2>1, Goes DEF Stepped, Kept, Moved
  <2>2. CASE \E s \in Session : GoWith(c, "archive", s)
    BY <2>2, GoesWith DEF Stepped, Kept, Moved
  <2>. QED BY <1>1, <2>1, <2>2 DEF Find
<1>2. CASE List(c)
  <2>1. CASE Go(c, "release")
    BY <2>1, Goes DEF Stepped, Kept, Moved
  <2>2. CASE \E s \in Session : GoWith(c, "archive", s)
    BY <2>2, GoesWith DEF Stepped, Kept, Moved
  <2>. QED BY <1>2, <2>1, <2>2 DEF List
<1>3. CASE Archive(c)
  <2>1. GoWith(c, "release", NoSession)
    BY <1>3 DEF Archive
  <2>. QED BY <2>1, GoesWith DEF Stepped, Kept, Moved
<1>4. CASE Release(c)
  <2>1. Go(c, "create")
    BY <1>4 DEF Release
  <2>. QED BY <2>1, Goes DEF Stepped, Kept, Moved
<1>5. CASE Create(c)
  <2>1. PICK s \in Session : GoWith(c, "attach", s)
    BY <1>5 DEF Create
  <2>. QED BY <2>1, GoesWith DEF Stepped, Kept, Moved
<1>6. CASE Attach(c) \/ Drop(c)
  <2>1. Leave(c)
    BY <1>6 DEF Attach, Drop
  <2>. QED BY <2>1, Leaves DEF Stepped, Kept, Moved
<1>. QED BY <1>1, <1>2, <1>3, <1>4, <1>5, <1>6

\* A session that can be seen stays, whatever a client does.
StaysVisible ==
    /\ state' \in [Session -> State]
    /\ \A s \in Session : Visible(s) => Visible(s)'

\* Rolling back touches no session that can be seen.
LEMMA RollsBack ==
    ASSUME Typed, NEW c \in Client, state' = RolledBack(c)
    PROVE  StaysVisible
<1>1. state \in [Session -> State] /\ "none" \in State
  BY DEF Typed, State
<1>2. state' = [s \in Session |-> IF client[c].own /\ client[c].session = s
                                     /\ state[s] = "pending" THEN "none" ELSE state[s]]
  BY DEF RolledBack
<1>3. state' \in [Session -> State]
  BY <1>1, <1>2
<1>4. \A s \in Session : Visible(s) => state'[s] = state[s]
  BY <1>1, <1>2 DEF Visible
<1>. QED BY <1>3, <1>4 DEF StaysVisible, Visible

\* A session that is created, or changes its state.
LEMMA Sets ==
    ASSUME Typed, NEW s \in Session, NEW v \in State, state' = [state EXCEPT ![s] = v],
           ~Visible(s) \/ v \in {"active", "compacted", "archived"}
    PROVE  StaysVisible
<1>1. state \in [Session -> State]
  BY DEF Typed
<1>. QED BY <1>1 DEF StaysVisible, Visible

\* A client takes no session out of sight.
LEMMA VisibleStays ==
    ASSUME Typed, Placed, NEW c \in Client,
           \/ Resolve(c) \/ Choose(c) \/ Claim(c) \/ LoseClaim(c) \/ Reload(c)
           \/ LoadById(c) \/ Stamp(c) \/ Append(c) \/ ReadTranscript(c) \/ Compact(c)
           \/ Find(c) \/ List(c) \/ Archive(c) \/ Release(c) \/ Create(c) \/ Attach(c)
           \/ Drop(c)
    PROVE  StaysVisible
<1>. /\ "active" \in State /\ "pending" \in State /\ "compacted" \in State
     /\ "archived" \in State
  BY DEF State
<1>1. CASE state' = state
  BY <1>1 DEF StaysVisible, Visible, Typed
<1>2. CASE state' = RolledBack(c)
  BY <1>2, RollsBack
<1>3. CASE \E s \in Session : Fresh(s) /\ \E v \in State : state' = [state EXCEPT ![s] = v]
  BY <1>3, Sets DEF Fresh, Visible
<1>4. CASE \E s \in Session, v \in {"active", "compacted", "archived"} :
              state' = [state EXCEPT ![s] = v]
  BY <1>4, Sets
<1>5. Choose(c) => state' = state \/ \E s \in Session : Fresh(s) /\ state' = [state EXCEPT ![s] = "pending"]
  BY DEF Choose
<1>6. Create(c) => \E s \in Session : Fresh(s) /\ state' = [state EXCEPT ![s] = "active"]
  BY DEF Create
<1>7. Claim(c) => state' = state \/ \E s \in Session : state' = [state EXCEPT ![s] = "active"]
  BY DEF Claim, Placed
<1>8. Compact(c) => \E s \in Session : state' = [state EXCEPT ![s] = "compacted"]
  BY DEF Compact, Placed
<1>9. Archive(c) => \E s \in Session : state' = [state EXCEPT ![s] = "archived"]
  BY DEF Archive, Placed
<1>10. Drop(c) \/ Reload(c) => state' = RolledBack(c)
  BY DEF Drop, Reload, DeletedIfUnbound
<1>11. CASE \/ Resolve(c) \/ LoseClaim(c) \/ LoadById(c) \/ Stamp(c) \/ Append(c)
            \/ ReadTranscript(c) \/ Find(c) \/ List(c) \/ Release(c) \/ Attach(c)
  <2>1. state' = state
    BY <1>11 DEF Resolve, LoseClaim, LoadById, Stamp, Append, ReadTranscript, Find, List,
                 Release, Attach
  <2>. QED BY <2>1, <1>1
<1>12. CASE Choose(c) \/ Create(c)
  BY <1>1, <1>3, <1>5, <1>6, <1>12
<1>13. CASE Claim(c) \/ Compact(c) \/ Archive(c)
  BY <1>1, <1>4, <1>7, <1>8, <1>9, <1>13
<1>14. CASE Drop(c) \/ Reload(c)
  BY <1>2, <1>10, <1>14
<1>. QED BY <1>11, <1>12, <1>13, <1>14

-----------------------------------------------------------------------------
(* Bindings.                                                               *)

\* What a step does to the bindings: nothing, or a session that can be seen is
\* bound where none was, or the bindings are released.
Binds(s) ==
    /\ Bound = {} /\ state'[s] \in {"active", "compacted", "archived"}
    /\ bindings' = bindings \cup {[session |-> s, live |-> TRUE]}
    /\ held' = [c \in Client |-> IF client[c].at \in Resolving
                                   THEN held[c] \cup {s} ELSE held[c]]
Frees == bindings' = {[b EXCEPT !.live = FALSE] : b \in bindings} /\ held' = held

\* A client binds a session, frees the key, or leaves the bindings alone.
LEMMA BindingsSteps ==
    ASSUME Typed, Placed, NEW c \in Client,
           \/ Resolve(c) \/ Choose(c) \/ Claim(c) \/ LoseClaim(c) \/ Reload(c)
           \/ LoadById(c) \/ Stamp(c) \/ Append(c) \/ ReadTranscript(c) \/ Compact(c)
           \/ Find(c) \/ List(c) \/ Archive(c) \/ Release(c) \/ Create(c) \/ Attach(c)
           \/ Drop(c)
    PROVE  \/ bindings' = bindings
           \/ \E s \in Session : Binds(s)
           \/ Frees
<1>1. CASE Claim(c)
  <2>. DEFINE s == client[c].session
  <2>1. s \in Session /\ Bound = {} /\ Bind(s)
    BY <1>1 DEF Claim, Placed
  <2>2. state \in [Session -> State]
    BY DEF Typed
  <2>3. Visible(s) \/ state' = [state EXCEPT ![s] = "active"]
    BY <1>1 DEF Claim
  <2>4. Visible(s) => state' = state \/ state' = [state EXCEPT ![s] = "active"]
    BY <1>1 DEF Claim
  <2>. HIDE DEF s
  <2>5. state'[s] \in {"active", "compacted", "archived"}
    BY <2>1, <2>2, <2>3, <2>4 DEF Visible
  <2>. QED BY <2>1, <2>5 DEF Bind, Binds, Bound, Visible
<1>2. CASE Attach(c)
  <2>. DEFINE s == client[c].session
  <2>1. s \in Session /\ Bound = {} /\ Bind(s) /\ Visible(s) /\ state' = state
    BY <1>2 DEF Attach, Placed
  <2>. QED BY <2>1 DEF Bind, Binds, Visible
<1>3. CASE Release(c)
  BY <1>3 DEF Release, Frees
<1>4. CASE \/ Resolve(c) \/ Choose(c) \/ LoseClaim(c) \/ Reload(c)
           \/ LoadById(c) \/ Stamp(c) \/ Append(c) \/ ReadTranscript(c) \/ Compact(c)
           \/ Find(c) \/ List(c) \/ Archive(c) \/ Create(c) \/ Drop(c)
  BY <1>4 DEF Resolve, Choose, LoseClaim, Reload, LoadById, Stamp, Append, ReadTranscript,
              Compact, Find, List, Archive, Create, Drop
<1>. QED BY <1>1, <1>2, <1>3, <1>4

\* What is bound after such a step.
LEMMA BindsOne ==
    ASSUME Typed, NEW s \in Session, Binds(s)
    PROVE  Bound' = {s} /\ bindings' \subseteq [session : Session, live : BOOLEAN]
<1>. DEFINE new == [session |-> s, live |-> TRUE]
<1>1. bindings' = bindings \cup {new} /\ Bound = {}
  BY DEF Binds
<1>2. new \in [session : Session, live : BOOLEAN] /\ new.session = s /\ new.live
  OBVIOUS
<1>. HIDE DEF new
<1>3. bindings' \subseteq [session : Session, live : BOOLEAN]
  BY <1>1, <1>2 DEF Typed
<1>. QED BY <1>1, <1>2, <1>3 DEF Bound

\* A release frees the key; the rows of its bindings stay.
LEMMA FreesAll ==
    ASSUME Typed, Frees
    PROVE  /\ Bound' = {} /\ bindings' \subseteq [session : Session, live : BOOLEAN]
           /\ \A b \in bindings' : \E a \in bindings : b.session = a.session
           /\ \A a \in bindings : \E b \in bindings' : b.session = a.session
<1>1. bindings \subseteq [session : Session, live : BOOLEAN]
  BY DEF Typed
<1>2. \A a \in bindings : /\ [a EXCEPT !.live = FALSE] \in [session : Session, live : BOOLEAN]
                          /\ [a EXCEPT !.live = FALSE].session = a.session
                          /\ ~[a EXCEPT !.live = FALSE].live
  BY <1>1
<1>3. \A b \in bindings' : b \in [session : Session, live : BOOLEAN] /\ ~b.live
  BY <1>2 DEF Frees
<1>4. Bound' = {}
  BY <1>3 DEF Bound
<1>5. \A b \in bindings' : \E a \in bindings : b.session = a.session
  BY <1>2 DEF Frees
<1>6. \A a \in bindings : \E b \in bindings' : b.session = a.session
  BY <1>2 DEF Frees
<1>. QED BY <1>3, <1>4, <1>5, <1>6

-----------------------------------------------------------------------------
(* Transcripts.                                                            *)

\* What a client's step does to the transcripts: nothing, or it appends the message
\* whose timestamp it has, or it replaces what its compaction has summarised.
Written(c) == [stamp |-> client[c].stamp, role |-> client[c].at, of |-> {client[c].stamp}]
Old(c) == Replaced(client[c].session, client[c].read)
Summarised(c) == {m.stamp : m \in Quoted(ToSummarize(client[c].read))}
Summary(c) == [stamp |-> clock + 1, role |-> "system", of |-> Summarised(c)]
Appends(c) ==
    /\ Pending(c) /\ Visible(client[c].session) /\ clock' = clock
    /\ transcript' = [transcript EXCEPT
         ![client[c].session] = @ \cup {Written(c)}]
    /\ ~Pending(c)' /\ client'[c].at # "summarize" /\ client'[c].read = {}
Compacts(c) ==
    /\ client[c].at = "summarize" /\ Visible(client[c].session) /\ clock' = clock + 1
    /\ transcript' = [transcript EXCEPT
         ![client[c].session] = (@ \ Old(c)) \cup {Summary(c)}]
    /\ client'[c].at = "idle" /\ client'[c].read = {}

\* A client appends, compacts, or leaves the transcripts alone.
LEMMA TranscriptSteps ==
    ASSUME Typed, Placed, NEW c \in Client,
           \/ Resolve(c) \/ Choose(c) \/ Claim(c) \/ LoseClaim(c) \/ Reload(c)
           \/ LoadById(c) \/ Stamp(c) \/ Append(c) \/ ReadTranscript(c) \/ Compact(c)
           \/ Find(c) \/ List(c) \/ Archive(c) \/ Release(c) \/ Create(c) \/ Attach(c)
           \/ Drop(c)
    PROVE  \/ transcript' = transcript /\ (clock' = clock \/ TookStamp(c))
           \/ Appends(c)
           \/ Compacts(c)
<1>. USE TypedClients
<1>1. CASE Stamp(c)
  <2>1. transcript' = transcript
    BY <1>1 DEF Stamp
  <2>. QED BY <1>1, <2>1, Stamps DEF TookStamp
<1>2. CASE Append(c)
  <2>. DEFINE at == IF client[c].at = "user" THEN "recorded" ELSE "compact"
  <2>1. GoWith(c, at, client[c].session) /\ client[c].session \in Session
    BY <1>2 DEF Append, Placed
  <2>2. at \in At /\ at \notin {"user", "assistant", "summarize"}
    BY DEF At
  <2>. HIDE DEF at
  <2>3. client'[c].at \notin {"user", "assistant", "summarize"} /\ client'[c].read = {}
    BY <2>1, <2>2, GoesWith
  <2>. QED BY <1>2, <2>3 DEF Append, Appends, Pending, Written
<1>3. CASE Compact(c)
  <2>1. client'[c].at = "idle" /\ client'[c].read = {}
    BY <1>3, Leaves DEF Compact
  <2>. QED BY <1>3, <2>1 DEF Compact, Compacts, Old, Summary, Summarised
<1>4. CASE \/ Resolve(c) \/ Choose(c) \/ Claim(c) \/ LoseClaim(c) \/ Reload(c)
           \/ LoadById(c) \/ ReadTranscript(c)
  BY <1>4 DEF Resolve, Choose, Claim, LoseClaim, Reload, LoadById, ReadTranscript
<1>5. CASE \/ Find(c) \/ List(c) \/ Archive(c) \/ Release(c) \/ Create(c) \/ Attach(c)
           \/ Drop(c)
  BY <1>5 DEF Find, List, Archive, Release, Create, Attach, Drop
<1>. QED BY <1>1, <1>2, <1>3, <1>4, <1>5

\* Sets of messages that are compacted.
LEMMA ToSummarizeIn ==
    ASSUME NEW messages
    PROVE  ToSummarize(messages) \subseteq messages
BY DEF ToSummarize

\* A summary quotes messages that its compaction has read.
LEMMA SummarisedIn ==
    ASSUME NEW c \in Client, NEW n \in Summarised(c)
    PROVE  \E m \in client[c].read : n = m.stamp
BY ToSummarizeIn DEF Summarised, Quoted

\* What a client writes, field by field.
LEMMA Fields ==
    ASSUME NEW c \in Client
    PROVE  /\ Written(c).stamp = client[c].stamp /\ Written(c).of = {client[c].stamp}
           /\ Summary(c).stamp = clock + 1 /\ Summary(c).of = Summarised(c)
BY DEF Written, Summary

\* What is appended is a message.
LEMMA AppendsMessage ==
    ASSUME Typed, Placed, NEW c \in Client, Appends(c)
    PROVE  /\ Written(c) \in Message
           /\ client[c].session \in Session
           /\ transcript' \in [Session -> SUBSET Message]
<1>. DEFINE s == client[c].session
            new == Written(c)
<1>1. s \in Session
  BY DEF Placed, Appends, Pending
<1>2. client[c].stamp \in Nat /\ client[c].at \in {"user", "assistant"}
  BY TypedClients DEF ClientRecord, Appends, Pending
<1>3. new \in Message
  BY <1>2 DEF Message, Written
<1>4. transcript' = [transcript EXCEPT ![s] = @ \cup {new}]
  BY DEF Appends
<1>. HIDE DEF new, s
<1>5. transcript' \in [Session -> SUBSET Message]
  BY <1>1, <1>3, <1>4, TypedClients
<1>. QED BY <1>1, <1>3, <1>5 DEF new, s

\* What a compaction writes is a message.
LEMMA CompactsMessage ==
    ASSUME Typed, Placed, NEW c \in Client, Compacts(c)
    PROVE  /\ Summary(c) \in Message
           /\ client[c].session \in Session
           /\ transcript' \in [Session -> SUBSET Message]
<1>. DEFINE s == client[c].session
            new == Summary(c)
            old == Old(c)
<1>1. s \in Session
  BY DEF Placed, Compacts
<1>2. client[c].read \subseteq Message
  BY TypedClients DEF ClientRecord
<1>3. \A m \in client[c].read : m.stamp \in Nat
  BY <1>2 DEF Message
<1>4. Summarised(c) \subseteq Nat
  BY <1>3, SummarisedIn
<1>5. clock + 1 \in Nat
  BY TypedClients
<1>6. new \in Message
  BY <1>4, <1>5 DEF Message, Summary
<1>7. transcript' = [transcript EXCEPT ![s] = (@ \ old) \cup {new}]
  BY DEF Compacts
<1>. HIDE DEF new, s, old
<1>8. transcript' \in [Session -> SUBSET Message]
  BY <1>1, <1>6, <1>7, TypedClients
<1>. QED BY <1>1, <1>6, <1>8 DEF new, s

-----------------------------------------------------------------------------
(* Types, places and the schema.                                           *)

ClientStep(c) ==
    \/ Resolve(c) \/ Choose(c) \/ Claim(c) \/ LoseClaim(c) \/ Reload(c)
    \/ LoadById(c) \/ Stamp(c) \/ Append(c) \/ ReadTranscript(c) \/ Compact(c)
    \/ Find(c) \/ List(c) \/ Archive(c) \/ Release(c) \/ Create(c) \/ Attach(c)
    \/ Drop(c)

\* What the lemmas above say of a client's step.
LEMMA ClientSteps ==
    ASSUME Typed, Placed, NEW c \in Client, ClientStep(c)
    PROVE  /\ Stepped(c) /\ StaysVisible
           /\ bindings' = bindings \/ (\E s \in Session : Binds(s)) \/ Frees
           /\ \/ transcript' = transcript /\ (clock' = clock \/ TookStamp(c))
              \/ Appends(c)
              \/ Compacts(c)
<1>1. Stepped(c)
  BY ResolveStepped, TurnStepped, ResetStepped DEF ClientStep
<1>2. StaysVisible
  BY VisibleStays DEF ClientStep
<1>3. bindings' = bindings \/ (\E s \in Session : Binds(s)) \/ Frees
  BY BindingsSteps DEF ClientStep
<1>. QED BY <1>1, <1>2, <1>3, TranscriptSteps DEF ClientStep

\* A session that is created by an operator, and one that is deleted.
LEMMA OperatorSteps ==
    ASSUME Typed, NEW s \in Session, OperatorCreate(s) \/ Delete(s)
    PROVE  /\ client' = client /\ clock' = clock /\ held' = held
           /\ state' \in [Session -> State]
           /\ \A t \in Session : t # s /\ Visible(t) => Visible(t)'
           /\ \/ StaysVisible /\ bindings' = bindings /\ transcript' = transcript
              \/ /\ bindings' = {b \in bindings : b.session # s}
                 /\ transcript' = [transcript EXCEPT ![s] = {}]
           /\ resolved' = resolved \ {s}
<1>. /\ state \in [Session -> State] /\ "active" \in State /\ "none" \in State
  BY DEF Typed, State
<1>1. CASE OperatorCreate(s)
  <2>1. state' = [state EXCEPT ![s] = "active"] /\ StaysVisible
    BY <1>1, Sets DEF OperatorCreate
  <2>. QED BY <1>1, <2>1 DEF OperatorCreate, Visible
<1>2. CASE Delete(s)
  BY <1>2 DEF Delete, Cascade, Visible
<1>. QED BY <1>1, <1>2

\* The clock stays within its bound.
LEMMA ClockStays ==
    ASSUME Typed, NEW c \in Client, ClientStep(c)
    PROVE  clock' \in 0 .. MaxStamp
<1>1. clock \in 0 .. MaxStamp /\ MaxStamp \in Nat
  BY SessionsAssumption DEF Typed
<1>2. CASE Stamp(c) \/ Compact(c)
  <2>1. clock' = clock + 1 /\ clock < MaxStamp
    BY <1>2 DEF Stamp, Compact
  <2>. QED BY <1>1, <2>1
<1>3. CASE ~(Stamp(c) \/ Compact(c))
  <2>1. clock' = clock
    BY <1>3 DEF ClientStep, Resolve, Choose, Claim, LoseClaim, Reload, LoadById, Append,
                ReadTranscript, Find, List, Archive, Release, Create, Attach, Drop
  <2>. QED BY <1>1, <2>1
<1>. QED BY <1>2, <1>3

\* What a step does to the sessions a resolve created.
LEMMA ResolvedSteps ==
    ASSUME Typed, NEW c \in Client, ClientStep(c)
    PROVE  \/ resolved' = resolved
           \/ \E s \in Session : resolved' = resolved \ {s}
           \/ \E s \in Session : /\ resolved' = resolved \cup {s}
                                 /\ state' = [state EXCEPT ![s] = "pending"] /\ Fresh(s)
                                 /\ bindings' = bindings
<1>1. CASE Choose(c)
  BY <1>1 DEF Choose
<1>2. CASE Create(c)
  BY <1>2 DEF Create
<1>3. CASE ~(Choose(c) \/ Create(c))
  BY <1>3 DEF ClientStep, Resolve, Claim, LoseClaim, Reload, LoadById, Stamp, Append, Compact,
              ReadTranscript, Find, List, Archive, Release, Attach, Drop
<1>. QED BY <1>1, <1>2, <1>3

\* Types and places are kept.
LEMMA StepTyped ==
    ASSUME Typed, Placed, Next
    PROVE  Typed' /\ Placed'
<1>1. ASSUME NEW c \in Client, ClientStep(c)
      PROVE  Typed' /\ Placed'
  <2>1. Stepped(c) /\ StaysVisible /\ clock' \in 0 .. MaxStamp
    BY <1>1, ClientSteps, ClockStays
  <2>2. bindings' \subseteq [session : Session, live : BOOLEAN]
    BY <1>1, ClientSteps, BindsOne, FreesAll DEF Typed
  <2>3. transcript' \in [Session -> SUBSET Message]
    BY <1>1, ClientSteps, AppendsMessage, CompactsMessage, TypedClients
  <2>4. resolved' \subseteq Session
    BY <1>1, ResolvedSteps DEF Typed
  <2>5. held' \in [Client -> SUBSET Session]
    <3>1. held \in [Client -> SUBSET Session] /\ Bound \subseteq Session
      BY TypedClients DEF Typed
    <3>2. Claim(c) \/ Attach(c) => client[c].session \in Session
      BY DEF Claim, Attach, Placed
    <3>3. CASE Claim(c) \/ Attach(c)
      BY <3>1, <3>2, <3>3 DEF Claim, Attach, Bind
    <3>4. CASE held' = held \/ held' = [held EXCEPT ![c] = Bound] \/ held' = [held EXCEPT ![c] = {}]
      BY <3>1, <3>4
    <3>5. CASE ~(Claim(c) \/ Attach(c))
      <4>1. held' = held \/ held' = [held EXCEPT ![c] = Bound] \/ held' = [held EXCEPT ![c] = {}]
        BY <1>1, <3>5 DEF ClientStep, Resolve, Choose, LoseClaim, Reload, LoadById, Stamp, Append,
              Compact, ReadTranscript, Find, List, Archive, Release, Create, Drop
      <4>. QED BY <3>4, <4>1
    <3>. QED BY <3>3, <3>5
  <2>6. state' \in [Session -> State] /\ client' \in [Client -> ClientRecord]
    BY <2>1 DEF StaysVisible, Stepped
  <2>7. Placed'
    BY <2>1 DEF Stepped, Kept, Placed
  <2>. QED BY <2>1, <2>2, <2>3, <2>4, <2>5, <2>6, <2>7 DEF Typed, ClientRecord
<1>2. ASSUME NEW s \in Session, OperatorCreate(s) \/ Delete(s)
      PROVE  Typed' /\ Placed'
  <2>1. client' = client /\ clock' = clock /\ held' = held /\ state' \in [Session -> State]
    BY <1>2, OperatorSteps
  <2>2. bindings' \subseteq bindings /\ resolved' \subseteq resolved
    BY <1>2, OperatorSteps
  <2>3. transcript' \in [Session -> SUBSET Message]
    BY <1>2, OperatorSteps, TypedClients
  <2>. QED BY <2>1, <2>2, <2>3 DEF Typed, Placed
<1>. QED BY <1>1, <1>2, Steps DEF ClientStep

\* What belongs to sessions belongs to sessions that are there, and one binding is live.
LEMMA StepSchema ==
    ASSUME Typed, Placed, Schema, Next
    PROVE  Schema'
<1>. \A b \in bindings : b.session \in Session
  BY DEF Typed
<1>1. ASSUME NEW c \in Client, ClientStep(c)
      PROVE  Schema'
  <2>1. StaysVisible
    BY <1>1, ClientSteps
  <2>2. (\A b \in bindings' : Visible(b.session)') /\ (\A s, t \in Bound' : s = t)
    <3>1. CASE bindings' = bindings
      BY <2>1, <3>1 DEF Schema, StaysVisible, Bound
    <3>2. CASE \E s \in Session : Binds(s)
      <4>1. PICK s \in Session : Binds(s)
        BY <3>2
      <4>2. Visible(s)' /\ \A b \in bindings' : b \in bindings \/ b.session = s
        BY <4>1 DEF Binds, Visible
      <4>3. Bound' = {s}
        BY <4>1, BindsOne
      <4>. QED BY <2>1, <4>2, <4>3 DEF Schema, StaysVisible
    <3>3. CASE Frees
      <4>1. Bound' = {} /\ \A b \in bindings' : \E a \in bindings : b.session = a.session
        BY <3>3, FreesAll
      <4>. QED BY <2>1, <4>1 DEF Schema, StaysVisible
    <3>. QED BY <1>1, <3>1, <3>2, <3>3, ClientSteps
  <2>3. \A s \in Session : transcript'[s] # {} => Visible(s)'
    <3>1. \A s \in Session : transcript[s] # {} => Visible(s)'
      BY <2>1 DEF Schema, StaysVisible
    <3>2. CASE transcript' = transcript
      BY <3>1, <3>2
    <3>3. CASE Appends(c)
      <4>1. client[c].session \in Session /\ Visible(client[c].session)
        BY <3>3, AppendsMessage DEF Appends
      <4>2. \A s \in Session : s # client[c].session => transcript'[s] = transcript[s]
        BY <3>3, TypedClients DEF Appends
      <4>. QED BY <2>1, <3>1, <4>1, <4>2 DEF StaysVisible
    <3>4. CASE Compacts(c)
      <4>1. client[c].session \in Session /\ Visible(client[c].session)
        BY <3>4, CompactsMessage DEF Compacts
      <4>2. \A s \in Session : s # client[c].session => transcript'[s] = transcript[s]
        BY <3>4, TypedClients DEF Compacts
      <4>. QED BY <2>1, <3>1, <4>1, <4>2 DEF StaysVisible
    <3>. QED BY <1>1, <3>2, <3>3, <3>4, ClientSteps
  <2>. QED BY <2>2, <2>3 DEF Schema
<1>2. ASSUME NEW s \in Session, OperatorCreate(s) \/ Delete(s)
      PROVE  Schema'
  <2>1. CASE StaysVisible /\ bindings' = bindings /\ transcript' = transcript
    BY <2>1 DEF Schema, StaysVisible, Bound
  <2>2. CASE /\ bindings' = {b \in bindings : b.session # s}
             /\ transcript' = [transcript EXCEPT ![s] = {}]
    <3>1. \A t \in Session : t # s /\ Visible(t) => Visible(t)'
      BY <1>2, OperatorSteps
    <3>2. \A b \in bindings' : Visible(b.session)'
      BY <2>2, <3>1 DEF Schema
    <3>3. Bound' \subseteq Bound
      BY <2>2 DEF Bound
    <3>4. \A t \in Session : transcript'[t] # {} => t # s /\ transcript[t] # {}
      BY <2>2, TypedClients
    <3>. QED BY <3>1, <3>2, <3>3, <3>4 DEF Schema
  <2>. QED BY <1>2, <2>1, <2>2, OperatorSteps
<1>. QED BY <1>1, <1>2, Steps DEF ClientStep

-----------------------------------------------------------------------------
(* Resolving.                                                              *)

\* A step that binds a session: it is held for all that resolve, and given to the
\* one that bound it.
LEMMA BindsHeld ==
    ASSUME Typed, Placed, Schema, HeldAll, ResolvedWasBound,
           NEW c \in Client, Claim(c) \/ Attach(c)
    PROVE  HeldAll' /\ ResolvedWasBound'
<1>. DEFINE s == client[c].session
<1>1. s \in Session /\ Bound = {} /\ Bind(s)
  BY DEF Claim, Attach, Placed
<1>2. \/ Claim(c) /\ client[c].at = "bind" /\ client'[c].at = "resolved" /\ client'[c].session = s
      \/ client'[c].at = "idle"
  <2>1. CASE Claim(c)
    <3>1. "resolved" \in At
      BY DEF At
    <3>. QED BY <1>1, <2>1, <3>1, TypedClients, GoesWith DEF Claim
  <2>2. CASE Attach(c)
    BY <2>2, TypedClients, Leaves DEF Attach
  <2>. QED BY <2>1, <2>2
<1>3. \A d \in Client : d # c => client'[d] = client[d]
  BY ResolveStepped, ResetStepped DEF Stepped, Kept
<1>. HIDE DEF s
<1>4. \A d \in Client : held'[d] = IF client[d].at \in Resolving THEN held[d] \cup {s} ELSE held[d]
  BY <1>1 DEF Bind
<1>5. Bound' = {s}
  <2>1. bindings' = bindings \cup {[session |-> s, live |-> TRUE]}
    BY <1>1 DEF Bind
  <2>2. [session |-> s, live |-> TRUE].session = s /\ [session |-> s, live |-> TRUE].live
    OBVIOUS
  <2>. QED BY <1>1, <2>1, <2>2 DEF Bound
<1>6. "bind" \in Resolving /\ "resolved" \notin Resolving /\ "idle" \notin Resolving
  BY DEF Resolving
<1>7. HeldAll'
  BY <1>2, <1>3, <1>4, <1>5, <1>6 DEF HeldAll, Resolving
<1>8. ResolvedWasBound'
  BY <1>2, <1>3, <1>4, <1>6 DEF ResolvedWasBound
<1>. QED BY <1>7, <1>8

\* A step that binds nothing: whoever resolves keeps what is held for it.
LEMMA OthersHeld ==
    ASSUME Typed, Placed, HeldAll, ResolvedWasBound, NEW c \in Client,
           \A d \in Client : d # c => client'[d] = client[d] /\ held'[d] = held[d],
           Bound' \subseteq Bound,
           client'[c].at \in Resolving => Bound \subseteq held'[c],
           client'[c].at = "resolved" => client'[c].session \in held'[c]
    PROVE  HeldAll' /\ ResolvedWasBound'
BY DEF HeldAll, ResolvedWasBound, Resolving

\* A resolve answers with a session that is held for it, and all that is bound is.
LEMMA StepHeld ==
    ASSUME Typed, Placed, Schema, HeldAll, ResolvedWasBound, Next
    PROVE  HeldAll' /\ ResolvedWasBound'
<1>1. ASSUME NEW c \in Client, ClientStep(c)
      PROVE  HeldAll' /\ ResolvedWasBound'
  <2>. USE TypedClients
  <2>1. \A d \in Client : d # c => client'[d] = client[d]
    BY <1>1, ClientSteps DEF Stepped, Kept
  <2>. held \in [Client -> SUBSET Session]
    BY DEF Typed
  <2>. /\ "choose" \in At /\ "resolved" \in At /\ "bind" \in At /\ "reload" \in At /\ "turn" \in At
       /\ "list" \in At /\ "archive" \in At /\ "release" \in At /\ "create" \in At
       /\ "attach" \in At
    BY DEF At
  <2>2. CASE Resolve(c)
    <3>1. held' = [held EXCEPT ![c] = Bound] /\ Bound' = Bound
      BY <2>2 DEF Resolve, Bound
    <3>2. client'[c].at = "resolved" => client'[c].session \in Bound
      <4>1. CASE Go(c, "choose")
        BY <4>1, Goes
      <4>2. CASE \E s \in Bound : GoWith(c, "resolved", s)
        BY <4>2, GoesWith
      <4>. QED BY <2>2, <4>1, <4>2 DEF Resolve
    <3>. QED BY <2>1, <3>1, <3>2, OthersHeld
  <2>3. CASE Claim(c) \/ Attach(c)
    BY <2>3, BindsHeld
  <2>4. CASE Stamp(c) \/ Drop(c)
    <3>1. held' = [held EXCEPT ![c] = {}] /\ Bound' = Bound
      BY <2>4 DEF Stamp, Drop, Bound
    <3>2. client'[c].at \in {"user", "assistant", "idle"}
      BY <2>4, Stamps, Leaves DEF Drop
    <3>. QED BY <2>1, <3>1, <3>2, OthersHeld DEF Resolving
  <2>5. CASE Release(c)
    <3>1. held' = held /\ Frees
      BY <2>5 DEF Release, Frees
    <3>2. Bound' = {}
      BY <3>1, FreesAll
    <3>3. client'[c].at = "create"
      BY <2>5, Goes DEF Release
    <3>. QED BY <2>1, <3>1, <3>2, <3>3, OthersHeld DEF Resolving
  <2>6. CASE Reload(c)
    <3>1. held' = held /\ Bound' = Bound /\ client[c].at \in Resolving
      BY <2>6 DEF Reload, Bound, Resolving
    <3>2. client'[c].at = "resolved" /\ client'[c].session \in Bound
      <4>1. PICK s \in Bound : GoWith(c, "resolved", s)
        BY <2>6 DEF Reload, Winner
      <4>. QED BY <4>1, GoesWith
    <3>3. Bound \subseteq held[c]
      BY <3>1 DEF HeldAll
    <3>. QED BY <2>1, <3>1, <3>2, <3>3, OthersHeld DEF Resolving
  <2>7. CASE Choose(c) \/ LoseClaim(c)
    <3>1. held' = held /\ Bound' = Bound /\ client[c].at \in Resolving
      BY <2>7 DEF Choose, LoseClaim, Bound, Resolving
    <3>2. client'[c].at \in Resolving
      <4>1. CASE LoseClaim(c)
        BY <4>1, Goes DEF LoseClaim, Resolving
      <4>2. CASE \E s \in Session : GoWith(c, "bind", s)
        BY <4>2, GoesWith DEF Resolving
      <4>3. CASE \E s \in Session : client' = [client EXCEPT ![c].at = "bind", ![c].session = s,
                                                             ![c].own = TRUE]
        BY <4>3, Makes DEF Resolving
      <4>. QED BY <2>7, <4>1, <4>2, <4>3 DEF Choose
    <3>3. Bound \subseteq held[c]
      BY <3>1 DEF HeldAll
    <3>. QED BY <2>1, <3>1, <3>2, <3>3, OthersHeld DEF Resolving
  <2>8. CASE LoadById(c) \/ Append(c) \/ ReadTranscript(c) \/ Compact(c)
    <3>1. held' = held /\ Bound' = Bound
      BY <2>8 DEF LoadById, Append, ReadTranscript, Compact, Bound
    <3>2. client'[c].at \notin Resolving \cup {"resolved"}
      <4>1. CASE LoadById(c)
        BY <4>1, GoesWith DEF LoadById, Resolving
      <4>2. CASE Append(c)
        <5>1. PICK at \in {"recorded", "compact"} : GoWith(c, at, client[c].session)
          BY <4>2 DEF Append
        <5>2. client[c].session \in Session /\ at \in At
          BY <4>2 DEF Append, Placed, At
        <5>. QED BY <5>1, <5>2, GoesWith DEF Resolving
      <4>3. CASE Leave(c)
        BY <4>3, Leaves DEF Resolving
      <4>4. CASE client' = [client EXCEPT ![c].at = "summarize",
                                          ![c].read = transcript[client[c].session]]
                 /\ client[c].session \in Session
        BY <4>4, Reads DEF Resolving
      <4>5. ReadTranscript(c) => client[c].session \in Session
        BY DEF ReadTranscript, Placed
      <4>. QED BY <2>8, <4>1, <4>2, <4>3, <4>4, <4>5 DEF ReadTranscript, Compact
    <3>. QED BY <2>1, <3>1, <3>2, OthersHeld DEF Resolving
  <2>9. CASE Find(c) \/ List(c) \/ Archive(c) \/ Create(c)
    <3>1. held' = held /\ Bound' = Bound
      BY <2>9 DEF Find, List, Archive, Create, Bound
    <3>2. client'[c].at \notin Resolving \cup {"resolved"}
      <4>1. CASE \E at \in {"list", "release"} : Go(c, at)
        BY <4>1, Goes DEF Resolving
      <4>2. CASE \E s \in Session \cup {NoSession}, at \in {"archive", "release", "attach"} :
                    GoWith(c, at, s)
        BY <4>2, GoesWith DEF Resolving
      <4>. QED BY <2>9, <4>1, <4>2 DEF Find, List, Archive, Create
    <3>. QED BY <2>1, <3>1, <3>2, OthersHeld DEF Resolving
  <2>. QED BY <1>1, <2>2, <2>3, <2>4, <2>5, <2>6, <2>7, <2>8, <2>9 DEF ClientStep
<1>2. ASSUME NEW s \in Session, OperatorCreate(s) \/ Delete(s)
      PROVE  HeldAll' /\ ResolvedWasBound'
  <2>1. client' = client /\ held' = held /\ bindings' \subseteq bindings
    BY <1>2, OperatorSteps
  <2>2. Bound' \subseteq Bound
    BY <2>1 DEF Bound
  <2>. QED BY <2>1, <2>2 DEF HeldAll, ResolvedWasBound, Resolving
<1>. QED BY <1>1, <1>2, Steps DEF ClientStep

\* No resolve leaves a session that was never bound.
LEMMA StepStranded ==
    ASSUME Typed, Placed, Schema, NothingStranded, Next
    PROVE  NothingStranded'
<1>1. ASSUME NEW c \in Client, ClientStep(c)
      PROVE  NothingStranded'
  <2>1. \A b \in bindings : \E a \in bindings' : a.session = b.session
    <3>1. CASE \E s \in Session : Binds(s)
      BY <3>1 DEF Binds
    <3>2. CASE Frees
      BY <3>2, FreesAll
    <3>. QED BY <1>1, <3>1, <3>2, ClientSteps
  <2>2. CASE Choose(c)
    <3>1. CASE state' = state /\ resolved' = resolved
      BY <2>1, <3>1 DEF NothingStranded, Visible
    <3>2. CASE \E s \in Session : state' = [state EXCEPT ![s] = "pending"]
                                  /\ resolved' = resolved \cup {s}
      <4>1. PICK s \in Session : state' = [state EXCEPT ![s] = "pending"]
                                 /\ resolved' = resolved \cup {s}
        BY <3>2
      <4>2. state \in [Session -> State]
        BY DEF Typed
      <4>3. ~Visible(s)' /\ \A t \in Session : t # s => (Visible(t)' <=> Visible(t))
        BY <4>1, <4>2 DEF Visible
      <4>. QED BY <2>1, <4>1, <4>3 DEF NothingStranded
    <3>. QED BY <2>2, <3>1, <3>2 DEF Choose
  <2>3. CASE Create(c)
    <3>1. PICK s \in Session : state' = [state EXCEPT ![s] = "active"] /\ resolved' = resolved \ {s}
      BY <2>3 DEF Create
    <3>2. state \in [Session -> State]
      BY DEF Typed
    <3>3. \A t \in Session : t # s => (Visible(t)' <=> Visible(t))
      BY <3>1, <3>2 DEF Visible
    <3>. QED BY <2>1, <3>1, <3>3 DEF NothingStranded
  <2>4. CASE Claim(c)
    <3>. DEFINE s == client[c].session
    <3>1. state \in [Session -> State] /\ resolved' = resolved
      BY <2>4 DEF Typed, Claim
    <3>2. state' = state \/ state' = [state EXCEPT ![s] = "active"]
      BY <2>4 DEF Claim
    <3>3. [session |-> s, live |-> TRUE] \in bindings'
      BY <2>4 DEF Claim, Bind
    <3>. HIDE DEF s
    <3>4. \A t \in Session : t # s => (Visible(t)' <=> Visible(t))
      BY <3>1, <3>2 DEF Visible
    <3>5. \E b \in bindings' : b.session = s
      BY <3>3
    <3>. QED BY <2>1, <3>1, <3>4, <3>5 DEF NothingStranded
  <2>5. CASE Compact(c) \/ Archive(c)
    <3>. DEFINE s == client[c].session
    <3>1. state \in [Session -> State] /\ resolved' = resolved /\ Visible(s)
      BY <2>5 DEF Typed, Compact, Archive
    <3>2. state' = [state EXCEPT ![s] = "compacted"] \/ state' = [state EXCEPT ![s] = "archived"]
      BY <2>5 DEF Compact, Archive
    <3>. HIDE DEF s
    <3>3. \A t \in Session : Visible(t)' => Visible(t)
      BY <3>1, <3>2 DEF Visible
    <3>. QED BY <2>1, <3>1, <3>3 DEF NothingStranded
  <2>6. CASE Reload(c) \/ Drop(c)
    <3>1. state' = RolledBack(c) /\ resolved' = resolved /\ state \in [Session -> State]
      BY <2>6 DEF Typed, Reload, Drop, DeletedIfUnbound
    <3>2. \A t \in Session : Visible(t)' => Visible(t)
      BY <3>1 DEF Visible, RolledBack
    <3>. QED BY <2>1, <3>1, <3>2 DEF NothingStranded
  <2>7. CASE \/ Resolve(c) \/ LoseClaim(c) \/ LoadById(c) \/ Stamp(c) \/ Append(c)
             \/ ReadTranscript(c) \/ Find(c) \/ List(c) \/ Release(c) \/ Attach(c)
    <3>1. state' = state /\ resolved' = resolved
      BY <2>7 DEF Resolve, LoseClaim, LoadById, Stamp, Append, ReadTranscript, Find, List,
                  Release, Attach
    <3>. QED BY <2>1, <3>1 DEF NothingStranded, Visible
  <2>. QED BY <1>1, <2>2, <2>3, <2>4, <2>5, <2>6, <2>7 DEF ClientStep
<1>2. ASSUME NEW s \in Session, OperatorCreate(s) \/ Delete(s)
      PROVE  NothingStranded'
  <2>1. resolved' = resolved \ {s} /\ state \in [Session -> State]
    BY <1>2, OperatorSteps DEF Typed
  <2>2. \A t \in Session : t # s => (Visible(t)' <=> Visible(t))
    BY <1>2, <2>1 DEF OperatorCreate, Delete, Visible
  <2>3. \A b \in bindings : b.session # s => b \in bindings'
    BY <1>2, OperatorSteps
  <2>. QED BY <2>1, <2>2, <2>3 DEF NothingStranded
<1>. QED BY <1>1, <1>2, Steps DEF ClientStep

-----------------------------------------------------------------------------
(* Timestamps.                                                             *)

\* The messages known after a step of a client: those known before, and the one
\* that it appends or writes.
LEMMA KnownAfter ==
    ASSUME Typed, Placed, NEW c \in Client, ClientStep(c)
    PROVE  \A m : Known(m)' =>
              \/ Known(m)
              \/ Appends(c) /\ m = Written(c)
              \/ Compacts(c) /\ m = Summary(c)
<1>. USE TypedClients
<1>1. Stepped(c)
  BY ClientSteps
<1>2. \A s \in Session : \A m \in transcript'[s] :
        \/ m \in transcript[s]
        \/ Appends(c) /\ m = Written(c)
        \/ Compacts(c) /\ m = Summary(c)
  <2>1. CASE transcript' = transcript
    BY <2>1
  <2>2. CASE Appends(c)
    <3>. DEFINE new == Written(c)
    <3>1. transcript' = [transcript EXCEPT ![client[c].session] = @ \cup {new}]
      BY <2>2 DEF Appends
    <3>. HIDE DEF new
    <3>2. \A s \in Session : \A m \in transcript'[s] : m \in transcript[s] \/ m = new
      BY <3>1
    <3>. QED BY <2>2, <3>2 DEF new
  <2>3. CASE Compacts(c)
    <3>. DEFINE new == Summary(c)
    <3>1. transcript' = [transcript EXCEPT ![client[c].session] = (@ \ Old(c)) \cup {new}]
      BY <2>3 DEF Compacts
    <3>. HIDE DEF new
    <3>2. \A s \in Session : \A m \in transcript'[s] : m \in transcript[s] \/ m = new
      BY <3>1
    <3>. QED BY <2>3, <3>2 DEF new
  <2>. QED BY <2>1, <2>2, <2>3, ClientSteps
<1>3. \A d \in Client : \A m \in client'[d].read : Known(m)
  <2>1. ASSUME NEW d \in Client, NEW m \in client'[d].read
        PROVE  Known(m)
    <3>1. CASE m \in client[d].read
      BY <3>1 DEF Known
    <3>2. CASE TookTranscript(d)
      BY <2>1, <3>2 DEF TookTranscript, Known
    <3>. QED BY <1>1, <2>1, <3>1, <3>2 DEF Stepped, Kept, Moved, TookStamp
  <2>. QED BY <2>1
<1>. QED BY <1>2, <1>3 DEF Known

\* What is known after a step of an operator was known before.
LEMMA KnownStill ==
    ASSUME Typed, NEW s \in Session, OperatorCreate(s) \/ Delete(s)
    PROVE  /\ \A m : Known(m)' => Known(m)
           /\ \A t \in Session : transcript'[t] \subseteq transcript[t]
           /\ client' = client /\ clock' = clock
<1>1. /\ client' = client /\ clock' = clock
      /\ transcript' = transcript \/ transcript' = [transcript EXCEPT ![s] = {}]
  BY OperatorSteps
<1>2. \A t \in Session : transcript'[t] \subseteq transcript[t]
  BY <1>1, TypedClients
<1>. QED BY <1>1, <1>2 DEF Known

\* The clock runs.
LEMMA ClockRuns ==
    ASSUME Typed, Placed, NEW c \in Client, ClientStep(c)
    PROVE  /\ clock \in Nat /\ clock' \in Nat /\ clock <= clock'
           /\ TookStamp(c) \/ Compacts(c) => clock' = clock + 1
<1>1. clock' = clock \/ clock' = clock + 1
  BY ClientSteps DEF TookStamp, Appends, Compacts
<1>. QED BY <1>1, TypedClients DEF TookStamp, Compacts

\* Timestamps are of the past, in messages as in clients.
LEMMA StepStamped ==
    ASSUME Typed, Placed, Stamped, Next
    PROVE  Stamped'
<1>1. ASSUME NEW c \in Client, ClientStep(c)
      PROVE  Stamped'
  <2>1. Stepped(c) /\ clock \in Nat /\ clock' \in Nat /\ clock <= clock'
    BY <1>1, ClientSteps, ClockRuns
  <2>2. ASSUME NEW m \in Message, Known(m)'
        PROVE  m.stamp <= clock' /\ \A n \in m.of : n <= clock'
    <3>. m.stamp \in Nat /\ m.of \subseteq Nat
      BY DEF Message
    <3>1. CASE Known(m)
      BY <2>1, <3>1 DEF Stamped
    <3>2. CASE Appends(c) /\ m = Written(c)
      <4>1. m.stamp = client[c].stamp /\ m.of = {client[c].stamp} /\ client[c].stamp <= clock
        BY <3>2, Fields DEF Appends, Stamped
      <4>. QED BY <2>1, <4>1
    <3>3. CASE Compacts(c) /\ m = Summary(c)
      <4>1. m.stamp = clock' /\ m.of = Summarised(c)
        BY <1>1, <3>3, ClockRuns, Fields
      <4>2. client[c].read \subseteq Message
        BY TypedClients DEF ClientRecord
      <4>3. \A n \in Summarised(c) : n <= clock
        BY <4>2, SummarisedIn DEF Stamped, Known
      <4>. QED BY <2>1, <4>1, <4>3
    <3>. QED BY <1>1, <2>2, <3>1, <3>2, <3>3, KnownAfter
  <2>3. ASSUME NEW d \in Client, Pending(d)'
        PROVE  client'[d].stamp <= clock'
    <3>1. client[d].stamp \in Nat
      BY TypedClients DEF ClientRecord
    <3>2. CASE Kept(d)
      BY <2>1, <2>3, <3>1, <3>2 DEF Kept, Pending, Stamped
    <3>3. CASE TookStamp(d)
      BY <2>1, <3>3 DEF TookStamp
    <3>. QED BY <2>1, <2>3, <3>2, <3>3 DEF Stepped, Moved, TookTranscript, Pending
  <2>. QED BY <2>2, <2>3 DEF Stamped
<1>2. ASSUME NEW s \in Session, OperatorCreate(s) \/ Delete(s)
      PROVE  Stamped'
  BY <1>2, KnownStill DEF Stamped, Pending
<1>. QED BY <1>1, <1>2, Steps DEF ClientStep

\* A timestamp that is taken and not used yet is one client's.
LEMMA StepPendingOwned ==
    ASSUME Typed, Placed, Stamped, PendingOwned, Next
    PROVE  PendingOwned'
<1>1. ASSUME NEW a \in Client, ClientStep(a)
      PROVE  PendingOwned'
  <2>1. Stepped(a) /\ clock \in Nat
    BY <1>1, ClientSteps, ClockRuns
  <2>2. \A d \in Client : client[d].stamp \in Nat
    BY TypedClients DEF ClientRecord
  <2>3. \A d \in Client : Pending(d)' =>
          (Kept(d) /\ Pending(d) /\ client[d].stamp <= clock) \/ (d = a /\ TookStamp(a))
    BY <2>1 DEF Stepped, Kept, Moved, TookTranscript, Pending, Stamped
  <2>4. \A m \in Message : m.stamp \in Nat /\ m.of \subseteq Nat
    BY DEF Message
  <2>5. ASSUME NEW c \in Client, Pending(c)', NEW d \in Client, Pending(d)', d # c
        PROVE  client'[d].stamp # client'[c].stamp
    BY <2>1, <2>2, <2>3, <2>5 DEF Kept, TookStamp, PendingOwned
  <2>6. ASSUME NEW c \in Client, Pending(c)', NEW m \in Message, Known(m)'
        PROVE  m.stamp # client'[c].stamp /\ client'[c].stamp \notin m.of
    <3>1. CASE TookStamp(a)
      <4>1. ~Appends(a) /\ ~Compacts(a)
        BY <3>1 DEF TookStamp, Appends, Compacts, Pending
      <4>2. Known(m)
        BY <1>1, <2>6, <4>1, KnownAfter
      <4>3. m.stamp <= clock /\ \A n \in m.of : n <= clock
        BY <4>2 DEF Stamped
      <4>. QED BY <2>1, <2>2, <2>3, <2>4, <2>6, <3>1, <4>2, <4>3
               DEF Kept, TookStamp, PendingOwned
    <3>2. CASE ~TookStamp(a)
      <4>1. Pending(c) /\ client'[c] = client[c] /\ client[c].stamp <= clock
        BY <2>3, <2>6, <3>2 DEF Kept
      <4>2. CASE Known(m)
        BY <4>1, <4>2 DEF PendingOwned
      <4>3. CASE Appends(a) /\ m = Written(a)
        <5>1. a # c /\ Pending(a) /\ m.stamp = client[a].stamp /\ m.of = {client[a].stamp}
          BY <2>6, <4>3, Fields DEF Appends
        <5>. QED BY <4>1, <5>1 DEF PendingOwned
      <4>4. CASE Compacts(a) /\ m = Summary(a)
        <5>1. m.stamp = clock + 1 /\ m.of = Summarised(a)
          BY <4>4, Fields
        <5>2. client[a].read \subseteq Message
          BY TypedClients DEF ClientRecord
        <5>3. client[c].stamp \notin Summarised(a)
          BY <4>1, <5>2, SummarisedIn DEF PendingOwned, Known
        <5>. QED BY <2>1, <2>2, <4>1, <5>1, <5>3
      <4>. QED BY <1>1, <2>6, <4>2, <4>3, <4>4, KnownAfter
    <3>. QED BY <3>1, <3>2
  <2>. QED BY <2>5, <2>6 DEF PendingOwned
<1>2. ASSUME NEW s \in Session, OperatorCreate(s) \/ Delete(s)
      PROVE  PendingOwned'
  BY <1>2, KnownStill DEF PendingOwned, Pending
<1>. QED BY <1>1, <1>2, Steps DEF ClientStep

\* Fewer messages are in order too.
LEMMA OrderedLess ==
    ASSUME NEW messages, Ordered(messages), NEW fewer \in SUBSET messages
    PROVE  Ordered(fewer)
BY FS_Subset DEF Ordered

\* One more message is in order if its timestamp is new.
LEMMA OrderedMore ==
    ASSUME NEW messages, Ordered(messages), NEW m, \A l \in messages : l.stamp # m.stamp
    PROVE  Ordered(messages \cup {m})
BY FS_AddElement DEF Ordered

\* Transcripts stay in order, and so does what is read of them.
LEMMA StepOrdered ==
    ASSUME Typed, Placed, Stamped, PendingOwned, AllOrdered, Next
    PROVE  AllOrdered'
<1>1. ASSUME NEW c \in Client, ClientStep(c)
      PROVE  AllOrdered'
  <2>1. Stepped(c) /\ clock \in Nat
    BY <1>1, ClientSteps, ClockRuns
  <2>2. \A s \in Session : \A m \in transcript[s] : m \in Message /\ Known(m)
    BY TypedClients DEF Known
  <2>3. \A s \in Session : Ordered(transcript'[s])
    <3>1. CASE transcript' = transcript
      BY <3>1 DEF AllOrdered
    <3>2. CASE Appends(c)
      <4>. DEFINE new == Written(c)
                  s == client[c].session
      <4>1. transcript' = [transcript EXCEPT ![s] = @ \cup {new}] /\ s \in Session
        BY <3>2, AppendsMessage DEF Appends
      <4>2. \A l \in transcript[s] : l.stamp # new.stamp
        BY <2>2, <3>2, <4>1, Fields DEF Appends, PendingOwned
      <4>. HIDE DEF new, s
      <4>3. Ordered(transcript[s] \cup {new})
        BY <4>1, <4>2, OrderedMore DEF AllOrdered
      <4>4. \A t \in Session : transcript'[t] = IF t = s THEN transcript[s] \cup {new} ELSE transcript[t]
        BY <4>1, TypedClients
      <4>. QED BY <4>3, <4>4 DEF AllOrdered
    <3>3. CASE Compacts(c)
      <4>. DEFINE new == Summary(c)
                  s == client[c].session
                  rest == transcript[s] \ Old(c)
      <4>1. transcript' = [transcript EXCEPT ![s] = rest \cup {new}] /\ s \in Session
        BY <3>3, CompactsMessage DEF Compacts
      <4>2. \A l \in transcript[s] : l.stamp <= clock /\ l.stamp \in Nat
        BY <2>2, <4>1 DEF Stamped, Message
      <4>3. \A l \in rest : l.stamp # new.stamp
        BY <2>1, <4>2, Fields
      <4>4. rest \in SUBSET transcript[s]
        OBVIOUS
      <4>. HIDE DEF new, s, rest
      <4>5. Ordered(rest)
        BY <4>1, <4>4, OrderedLess DEF AllOrdered
      <4>6. Ordered(rest \cup {new})
        BY <4>3, <4>5, OrderedMore
      <4>7. \A t \in Session : transcript'[t] = IF t = s THEN rest \cup {new} ELSE transcript[t]
        BY <4>1, TypedClients
      <4>. QED BY <4>6, <4>7 DEF AllOrdered
    <3>. QED BY <1>1, <3>1, <3>2, <3>3, ClientSteps
  <2>4. ASSUME NEW d \in Client
        PROVE  Ordered(client'[d].read)
    <3>1. CASE client'[d].read \subseteq client[d].read
      BY <3>1, OrderedLess DEF AllOrdered
    <3>2. CASE TookTranscript(d)
      BY <3>2 DEF TookTranscript, AllOrdered
    <3>. QED BY <2>1, <3>1, <3>2 DEF Stepped, Kept, Moved, TookStamp
  <2>. QED BY <2>3, <2>4 DEF AllOrdered
<1>2. ASSUME NEW s \in Session, OperatorCreate(s) \/ Delete(s)
      PROVE  AllOrdered'
  BY <1>2, KnownStill, OrderedLess DEF AllOrdered
<1>. QED BY <1>1, <1>2, Steps DEF ClientStep

\* What a compaction has not read is newer, or nothing was known of it.
LEMMA StepReadBefore ==
    ASSUME Typed, Placed, Stamped, PendingOwned, ReadBefore, Next
    PROVE  ReadBefore'
<1>1. ASSUME NEW a \in Client, ClientStep(a)
      PROVE  ReadBefore'
  <2>1. Stepped(a) /\ clock \in Nat
    BY <1>1, ClientSteps, ClockRuns
  <2>. SUFFICES ASSUME NEW c \in Client, client'[c].at = "summarize"
                PROVE  /\ ShouldCompact(client'[c].read)
                       /\ \A m \in transcript'[client'[c].session] \ client'[c].read,
                             l \in client'[c].read :
                            m.stamp <= l.stamp =>
                              /\ m.of = {m.stamp}
                              /\ \A k \in client'[c].read : m.stamp \notin k.of
    BY DEF ReadBefore
  <2>2. CASE TookTranscript(c)
    BY <2>2 DEF TookTranscript
  <2>3. CASE client'[c] = client[c]
    <3>. DEFINE s == client[c].session
                read == client[c].read
    <3>1. client[c].at = "summarize" /\ s \in Session /\ read \subseteq Message
      BY <2>3, TypedClients DEF ClientRecord, Placed
    <3>2. ShouldCompact(read)
      BY <3>1 DEF ReadBefore
    <3>3. ASSUME NEW m \in transcript'[s] \ read, NEW l \in read, m.stamp <= l.stamp
          PROVE  m.of = {m.stamp} /\ \A k \in read : m.stamp \notin k.of
      <4>1. l.stamp <= clock /\ l.stamp \in Nat /\ \A k \in read : k \in Message /\ Known(k)
        BY <3>1 DEF Stamped, Known, Message
      <4>2. CASE m \in transcript[s]
        BY <3>1, <3>3, <4>2 DEF ReadBefore
      <4>3. CASE Appends(a) /\ m = Written(a)
        <5>1. Pending(a) /\ m.stamp = client[a].stamp /\ m.of = {client[a].stamp}
          BY <4>3, Fields DEF Appends
        <5>. QED BY <4>1, <5>1 DEF PendingOwned
      <4>4. CASE Compacts(a) /\ m = Summary(a)
        <5>1. m.stamp = clock + 1
          BY <4>4, Fields
        <5>. QED BY <2>1, <3>3, <4>1, <5>1
      <4>5. CASE transcript' = transcript
        BY <3>3, <4>2, <4>5
      <4>6. CASE Appends(a)
        <5>. DEFINE new == Written(a)
        <5>1. transcript' = [transcript EXCEPT ![client[a].session] = @ \cup {new}]
          BY <4>6 DEF Appends
        <5>. HIDE DEF new
        <5>2. m \in transcript[s] \/ m = new
          BY <3>1, <3>3, <5>1, TypedClients
        <5>. QED BY <4>2, <4>3, <4>6, <5>2 DEF new
      <4>7. CASE Compacts(a)
        <5>. DEFINE new == Summary(a)
        <5>1. transcript' = [transcript EXCEPT ![client[a].session] = (@ \ Old(a)) \cup {new}]
          BY <4>7 DEF Compacts
        <5>. HIDE DEF new
        <5>2. m \in transcript[s] \/ m = new
          BY <3>1, <3>3, <5>1, TypedClients
        <5>. QED BY <4>2, <4>4, <4>7, <5>2 DEF new
      <4>. QED BY <1>1, <4>5, <4>6, <4>7, ClientSteps
    <3>. QED BY <2>3, <3>2, <3>3
  <2>. QED BY <2>1, <2>2, <2>3 DEF Stepped, Kept, Moved, TookStamp
<1>2. ASSUME NEW s \in Session, OperatorCreate(s) \/ Delete(s)
      PROVE  ReadBefore'
  <2>1. /\ client' = client
        /\ \A t \in Session : transcript'[t] \subseteq transcript[t]
    BY <1>2, KnownStill
  <2>2. \A c \in Client : client[c].at = "summarize" => client[c].session \in Session
    BY DEF Placed
  <2>. QED BY <2>1, <2>2 DEF ReadBefore
<1>. QED BY <1>1, <1>2, Steps DEF ClientStep

-----------------------------------------------------------------------------
(* What a compaction summarises.                                           *)

\* A set of naturals has a least element.
LEMMA LeastOf ==
    ASSUME NEW T \in SUBSET Nat, T # {}
    PROVE  \E x \in T : \A y \in T : x <= y
<1>. DEFINE less == {ss \in Nat \X Nat : ss[1] < ss[2]}
<1>1. IsWellFoundedOn(less, Nat)
  BY NatLessThanWellFounded DEF OpToRel
<1>2. \A x, y \in Nat : x < y => <<x, y>> \in less
  OBVIOUS
<1>. HIDE DEF less
<1>3. \E x \in T : \A y \in T : ~ (<<y, x>> \in less)
  BY <1>1, WFMin
<1>4. \A x, y \in T : ~ (<<y, x>> \in less) => x <= y
  BY <1>2
<1>. QED BY <1>3, <1>4

\* A bounded set of naturals has a greatest element.
LEMMA GreatestOf ==
    ASSUME NEW T \in SUBSET Nat, T # {}, NEW b \in Nat, \A x \in T : x <= b
    PROVE  \E x \in T : \A y \in T : y <= x
<1>. DEFINE U == {b - x : x \in T}
<1>1. U \in SUBSET Nat /\ U # {}
  <2>1. \A x \in T : b - x \in Nat
    OBVIOUS
  <2>. QED BY <2>1
<1>2. PICK u \in U : \A v \in U : u <= v
  BY <1>1, LeastOf
<1>3. PICK x \in T : u = b - x
  BY <1>2
<1>4. \A y \in T : b - x <= b - y
  BY <1>2, <1>3
<1>. QED BY <1>3, <1>4

\* At least one message is summarised.
LEMMA SplitsOff ==
    ASSUME NEW messages, IsFiniteSet(messages), ShouldCompact(messages)
    PROVE  SplitIndex(messages) \in Nat /\ SplitIndex(messages) >= 1
<1>. DEFINE n == Cardinality(messages)
            kept == (n * KeepPercent + 50) \div 100
<1>1. n \in Nat /\ n > 1
  BY FS_CardinalityType, SessionsAssumption DEF ShouldCompact
<1>2. PICK p \in Nat : p = n * KeepPercent + 50
  BY <1>1, SessionsAssumption
<1>3. p \div 100 \in Nat
  BY <1>2
<1>4. kept \in Nat
  BY <1>2, <1>3
<1>5. SplitIndex(messages) = n - (IF kept < n THEN kept ELSE n - 1)
  BY DEF SplitIndex
<1>. HIDE DEF n, kept
<1>. QED BY <1>1, <1>4, <1>5

\* The cutoff of a compaction is the newest message that it summarises, and it
\* summarises all that are older.
LEMMA CutsOff ==
    ASSUME NEW messages \in SUBSET Message, Ordered(messages), ShouldCompact(messages),
           NEW b \in Nat, \A m \in messages : m.stamp <= b
    PROVE  /\ Cutoff(messages) \in messages
           /\ \A m \in messages : m.stamp < Cutoff(messages).stamp => m \in ToSummarize(messages)
<1>. DEFINE UpTo(m) == {l \in messages : l.stamp <= m.stamp}
            T == ToSummarize(messages)
            k == SplitIndex(messages)
<1>1. k \in Nat /\ k >= 1
  BY SplitsOff DEF Ordered
<1>2. \A m \in messages : m.stamp \in Nat
  BY DEF Message
<1>3. \A m : m \in T <=> m \in messages /\ Cardinality(UpTo(m)) <= k
  BY DEF ToSummarize
<1>4. IsFiniteSet(messages) /\ \A l, m \in messages : l.stamp = m.stamp => l = m
  BY DEF Ordered
<1>5. messages # {}
  BY FS_EmptySet, SessionsAssumption DEF ShouldCompact
<1>6. T # {}
  <2>. DEFINE stamps == {m.stamp : m \in messages}
  <2>1. stamps \in SUBSET Nat /\ stamps # {}
    BY <1>2, <1>5
  <2>2. PICK x \in stamps : \A y \in stamps : x <= y
    BY <2>1, LeastOf
  <2>3. PICK m \in messages : x = m.stamp
    BY <2>2
  <2>4. \A l \in messages : m.stamp <= l.stamp
    BY <2>2, <2>3
  <2>5. UpTo(m) = {m}
    BY <1>2, <1>4, <2>4
  <2>6. Cardinality(UpTo(m)) = 1
    BY <2>5, FS_Singleton
  <2>. QED BY <1>1, <1>3, <2>6
<1>7. \E m \in T : \A l \in T : l.stamp <= m.stamp
  <2>. DEFINE stamps == {m.stamp : m \in T}
  <2>. HIDE DEF T
  <2>1. stamps \in SUBSET Nat /\ stamps # {} /\ \A x \in stamps : x <= b
    BY <1>2, <1>3, <1>6
  <2>2. PICK x \in stamps : \A y \in stamps : y <= x
    BY <2>1, GreatestOf
  <2>. QED BY <2>2
<1>8. Cutoff(messages) \in T
  BY <1>7 DEF Cutoff
<1>9. ASSUME NEW m \in messages, m.stamp < Cutoff(messages).stamp
      PROVE  m \in T
  <2>. DEFINE c == Cutoff(messages)
  <2>1. c \in messages /\ Cardinality(UpTo(c)) <= k
    BY <1>3, <1>8
  <2>. HIDE DEF c
  <2>2. m.stamp < c.stamp
    BY <1>9 DEF c
  <2>3. UpTo(m) \in SUBSET UpTo(c) /\ UpTo(c) \in SUBSET messages
    BY <1>2, <2>1, <2>2
  <2>4. IsFiniteSet(UpTo(c))
    BY <1>4, <2>3, FS_Subset
  <2>5. /\ IsFiniteSet(UpTo(m))
        /\ Cardinality(UpTo(m)) <= Cardinality(UpTo(c))
    BY <2>3, <2>4, FS_Subset
  <2>6. Cardinality(UpTo(m)) \in Nat /\ Cardinality(UpTo(c)) \in Nat
    BY <2>4, <2>5, FS_CardinalityType
  <2>. HIDE DEF UpTo, T, k
  <2>7. Cardinality(UpTo(m)) <= k
    BY <1>1, <2>1, <2>5, <2>6
  <2>. QED BY <1>3, <2>7
<1>. QED BY <1>3, <1>8, <1>9

-----------------------------------------------------------------------------
(* Forgetting.                                                             *)

\* A compaction loses only messages that it was to summarise, or has not read.
LEMMA CompactsForget ==
    ASSUME IInv, NEW c \in Client, Compacts(c), NEW s \in Session,
           NEW n \in Remembered(s) \ Remembered(s)'
    PROVE  /\ client[c].at = "summarize" /\ client[c].session = s
           /\ ToldOf(n, ToSummarize(client[c].read)) \/ LateFor(n, client[c].read)
<1>. DEFINE read == client[c].read
            new == Summary(c)
            s0 == client[c].session
<1>1. Typed /\ Placed /\ Stamped /\ AllOrdered /\ ReadBefore
  BY DEF IInv
<1>2. client[c].at = "summarize"
  BY DEF Compacts
<1>3. /\ read \in SUBSET Message /\ Ordered(read) /\ ShouldCompact(read) /\ clock \in Nat
      /\ \A m \in read : m.stamp <= clock /\ m.stamp \in Nat
  BY <1>1, <1>2, TypedClients DEF ClientRecord, AllOrdered, ReadBefore, Stamped, Known, Message
<1>4. /\ Cutoff(read) \in read
      /\ \A m \in read : m.stamp < Cutoff(read).stamp => m \in ToSummarize(read)
  BY <1>3, CutsOff
<1>5. transcript' = [transcript EXCEPT ![s0] = (@ \ Old(c)) \cup {new}] /\ s0 \in Session
  BY <1>1, CompactsMessage DEF Compacts
<1>6. PICK m \in transcript[s] : n \in m.of
  BY DEF Remembered
<1>7. \A l \in transcript'[s] : n \notin l.of
  BY DEF Remembered
<1>8. s = s0 /\ m \in Old(c) /\ new \in transcript'[s]
  <2>. HIDE DEF new, s0
  <2>1. s # s0 => transcript'[s] = transcript[s]
    BY <1>1, <1>5, TypedClients
  <2>2. s = s0
    BY <1>6, <1>7, <2>1
  <2>3. transcript'[s] = (transcript[s] \ Old(c)) \cup {new}
    BY <1>1, <1>5, <2>2, TypedClients
  <2>. QED BY <1>6, <1>7, <2>2, <2>3
<1>9. m.stamp < Cutoff(read).stamp /\ m \in Message
  BY <1>1, <1>8, TypedClients DEF Old, Replaced
<1>10. CASE m \in read
  <2>1. m \in ToSummarize(read)
    BY <1>4, <1>9, <1>10
  <2>. QED BY <1>2, <1>6, <1>8, <2>1 DEF ToldOf
<1>11. CASE m \notin read
  <2>1. m.stamp <= Cutoff(read).stamp
    BY <1>3, <1>4, <1>9 DEF Message
  <2>2. m.of = {m.stamp} /\ \A k \in read : m.stamp \notin k.of
    BY <1>1, <1>2, <1>4, <1>6, <1>8, <1>11, <2>1 DEF ReadBefore
  <2>3. n = m.stamp
    BY <1>6, <2>2
  <2>. QED BY <1>2, <1>4, <1>8, <1>9, <2>2, <2>3 DEF LateFor, ToldOf
<1>. QED BY <1>10, <1>11

\* A step that appends, and one that leaves the transcripts alone, forgets nothing.
LEMMA AppendsKeep ==
    ASSUME Typed, Placed, NEW c \in Client, Appends(c), NEW s \in Session
    PROVE  Remembered(s) \subseteq Remembered(s)'
<1>. DEFINE new == Written(c)
<1>1. transcript' = [transcript EXCEPT ![client[c].session] = @ \cup {new}]
  BY DEF Appends
<1>. HIDE DEF new
<1>2. transcript[s] \subseteq transcript'[s]
  BY <1>1, TypedClients
<1>. QED BY <1>2 DEF Remembered

\* What a step may forget.
LEMMA StepForgets ==
    ASSUME IInv, Next, NEW s \in Session, NEW n \in Remembered(s) \ Remembered(s)'
    PROVE  \/ state'[s] = "none"
           \/ \E c \in Client :
                /\ client[c].at = "summarize" /\ client[c].session = s
                /\ ToldOf(n, ToSummarize(client[c].read)) \/ LateFor(n, client[c].read)
<1>. Typed /\ Placed
  BY DEF IInv
<1>1. CASE transcript'[s] = transcript[s]
  BY <1>1 DEF Remembered
<1>2. ASSUME NEW c \in Client, ClientStep(c)
      PROVE  \E d \in Client :
                /\ client[d].at = "summarize" /\ client[d].session = s
                /\ ToldOf(n, ToSummarize(client[d].read)) \/ LateFor(n, client[d].read)
  <2>1. ~Appends(c)
    BY AppendsKeep
  <2>2. transcript'[s] # transcript[s]
    BY DEF Remembered
  <2>3. Compacts(c)
    BY <1>2, <2>1, <2>2, ClientSteps
  <2>. QED BY <2>3, CompactsForget
<1>3. ASSUME NEW t \in Session, OperatorCreate(t)
      PROVE  transcript'[s] = transcript[s]
  BY <1>3 DEF OperatorCreate
<1>4. ASSUME NEW t \in Session, Delete(t)
      PROVE  transcript'[s] = transcript[s] \/ state'[s] = "none"
  <2>1. transcript' = [transcript EXCEPT ![t] = {}] /\ state' = [state EXCEPT ![t] = "none"]
    BY <1>4 DEF Delete
  <2>2. s # t => transcript'[s] = transcript[s]
    BY <2>1, TypedClients
  <2>3. s = t => state'[s] = "none"
    BY <2>1 DEF Typed
  <2>. QED BY <2>2, <2>3
<1>. QED BY <1>1, <1>2, <1>3, <1>4, Steps DEF ClientStep

-----------------------------------------------------------------------------
(* The theorems.                                                           *)

\* Every step keeps the inductive invariant.
LEMMA StepInv == IInv /\ [Next]_vars => IInv'
<1>1. ASSUME IInv, Next
      PROVE  IInv'
  <2>. Typed /\ Placed /\ Schema /\ HeldAll /\ ResolvedWasBound /\ NothingStranded
       /\ Stamped /\ PendingOwned /\ AllOrdered /\ ReadBefore
    BY <1>1 DEF IInv
  <2>1. Typed' /\ Placed' /\ Schema' /\ HeldAll' /\ ResolvedWasBound' /\ NothingStranded'
    BY <1>1, StepTyped, StepSchema, StepHeld, StepStranded
  <2>2. Stamped' /\ PendingOwned' /\ AllOrdered' /\ ReadBefore'
    BY <1>1, StepStamped, StepPendingOwned, StepOrdered, StepReadBefore
  <2>. QED BY <2>1, <2>2 DEF IInv
<1>2. ASSUME IInv, UNCHANGED vars
      PROVE  IInv'
  <2>1. Typed' /\ Placed' /\ Schema' /\ HeldAll' /\ ResolvedWasBound' /\ NothingStranded'
    BY <1>2 DEF IInv, vars, Typed, Placed, Schema, HeldAll, ResolvedWasBound, NothingStranded,
                Bound, Visible, Resolving
  <2>2. Stamped' /\ PendingOwned' /\ AllOrdered' /\ ReadBefore'
    BY <1>2 DEF IInv, vars, Stamped, PendingOwned, AllOrdered, ReadBefore, Known, Pending
  <2>. QED BY <2>1, <2>2 DEF IInv
<1>. QED BY <1>1, <1>2

\* The inductive invariant holds always.
THEOREM InvariantHolds == Spec => []IInv
<1>. QED BY InitInv, StepInv, PTL DEF Spec

\* One live binding of the key at most, and nothing of a session that is not there.
LEMMA InvTypes == IInv => TypeOK
<1>. SUFFICES ASSUME IInv PROVE TypeOK
  OBVIOUS
<1>. Typed /\ Schema
  BY DEF IInv
<1>1. Cardinality(Bound) <= 1
  <2>1. CASE Bound = {}
    BY <2>1, FS_EmptySet
  <2>2. CASE Bound # {}
    <3>1. PICK s \in Bound : TRUE
      BY <2>2
    <3>2. Bound = {s}
      BY <3>1 DEF Schema
    <3>3. Cardinality({s}) = 1
      BY FS_Singleton
    <3>. QED BY <3>2, <3>3
  <2>. QED BY <2>1, <2>2
<1>2. bindings \subseteq [session : {s \in Session : Visible(s)}, live : BOOLEAN]
  BY DEF Typed, Schema
<1>. QED BY <1>1, <1>2 DEF Typed, Schema, TypeOK

\* Types and the constraints of the schema hold in every state.
THEOREM TypeCorrect == Spec => []TypeOK
<1>. QED BY InvariantHolds, InvTypes, PTL

\* A resolve answers with a session that was bound to the key during the call.
THEOREM ResolvesBound == Spec => []ResolvedWasBound
<1>1. IInv => ResolvedWasBound
  BY DEF IInv
<1>. QED BY <1>1, InvariantHolds, PTL

\* A session that a resolve created has been bound.
THEOREM NoneStranded == Spec => []NothingStranded
<1>1. IInv => NothingStranded
  BY DEF IInv
<1>. QED BY <1>1, InvariantHolds, PTL

\* A compaction forgets only what it was to summarise, or what was on its way when
\* it read the transcript.
THEOREM ForgottenRead == Spec => ForgottenOnlyRead
<1>. DEFINE Allowed ==
         \A s \in Session : \A n \in Remembered(s) \ Remembered(s)' :
            \/ state'[s] = "none"
            \/ \E c \in Client :
                 /\ client[c].at = "summarize" /\ client[c].session = s
                 /\ ToldOf(n, ToSummarize(client[c].read)) \/ LateFor(n, client[c].read)
<1>1. IInv /\ [Next]_vars => [Allowed]_vars
  <2>1. IInv /\ Next => Allowed
    BY StepForgets
  <2>. QED BY <2>1
<1>. QED BY <1>1, InvariantHolds, PTL DEF Spec, ForgottenOnlyRead
=============================================================================
