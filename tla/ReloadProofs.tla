------------------------------ MODULE ReloadProofs ------------------------------
(***************************************************************************)
(* What a reload does, for any limits and any number of requests: to the   *)
(* configurations of the daemon and of the channel surface (ConfigReload), *)
(* and to the events the surface was about to forward (ChannelSurface,     *)
(* with the routing queues of all its generations, ChannelRuntime).        *)
(***************************************************************************)
EXTENDS ConfigReload, ChannelRuntime, FiniteSetTheorems, SequenceTheorems, TLAPS

-----------------------------------------------------------------------------
\* The types hold at the start.
LEMMA ConfigInitType == ConfigInit => ConfigTypeOK
<1>. SUFFICES ASSUME ConfigInit PROVE ConfigTypeOK
  OBVIOUS
<1>1. {} \in Config /\ 0 \in 0 .. clock /\ clock = 0
  BY DEF ConfigInit, Config
<1>2. /\ file \in [content : Config, mtime : 0 .. clock]
      /\ draft \in [Admin -> [content : Config, mtime : 0 .. clock]]
  BY <1>1 DEF ConfigInit, NoDraft
<1>3. /\ edits \in 0 .. MaxEdits /\ failures \in 0 .. MaxRestarts + 1
      /\ mishaps \in 0 .. MaxFailures /\ reloads \in Nat
  BY ReloadAssumption DEF ConfigInit
<1>4. /\ admin \in [Admin -> {"idle", "loaded", "written", "installed", "done"}]
      /\ surface \in SurfaceState /\ (surface = "off" <=> daemon = "boot")
      /\ daemon \in {"boot", "baseline", "poll", "load", "stop"}
      /\ early \in BOOLEAN /\ overtaken \in BOOLEAN /\ reverted \in BOOLEAN
  BY DEF ConfigInit, SurfaceState
<1>. QED BY <1>1, <1>2, <1>3, <1>4 DEF ConfigInit, ConfigTypeOK

\* They are kept by the steps of an admin request: load, write, install.
LEMMA AdminType ==
    ASSUME ConfigTypeOK, NEW a \in Admin,
           AdminLoads(a) \/ AdminWrites(a) \/ AdminInstalls(a) \/ AdminRequests(a)
    PROVE  ConfigTypeOK'
<1>. USE DEF ConfigTypeOK, fileVars, adminVars, daemonVars, surfaceVars
<1>1. CASE AdminLoads(a)
  BY <1>1 DEF AdminLoads, NoDraft, Config
<1>2. CASE AdminWrites(a)
  <2>0. PICK s \in Setting :
          draft' = [draft EXCEPT ![a] = [content |-> Switched(draft[a].content, s),
                                         mtime |-> clock + 1]]
    BY <1>2 DEF AdminWrites
  <2>1. [content |-> Switched(draft[a].content, s), mtime |-> clock + 1]
           \in [content : Config, mtime : 0 .. clock + 1]
    BY DEF Config, Switched
  <2>2. \A b \in Admin : draft[b] \in [content : Config, mtime : 0 .. clock + 1]
    OBVIOUS
  <2>3. draft' \in [Admin -> [content : Config, mtime : 0 .. clock']]
    BY <1>2, <2>0, <2>1, <2>2 DEF AdminWrites
  <2>4. /\ file' \in [content : Config, mtime : 0 .. clock']
        /\ seen' \in 0 .. clock' /\ clock' \in Nat
    BY <1>2 DEF AdminWrites
  <2>. QED BY <1>2, <2>3, <2>4 DEF AdminWrites
<1>3. CASE AdminInstalls(a)
  BY <1>3 DEF AdminInstalls, Replace, NoDraft, Config
<1>4. CASE AdminRequests(a)
  BY <1>4 DEF AdminRequests
<1>. QED BY <1>1, <1>2, <1>3, <1>4

\* They are kept by an edit of the file.
LEMMA HandEditType == ConfigTypeOK /\ HandEdit => ConfigTypeOK'
<1>. SUFFICES ASSUME ConfigTypeOK, HandEdit PROVE ConfigTypeOK'
  OBVIOUS
<1>. USE DEF ConfigTypeOK, adminVars, daemonVars, surfaceVars
<1>1. clock' = clock + 1 /\ edits' \in 0 .. MaxEdits
  BY ReloadAssumption DEF HandEdit
<1>2. file' \in [content : Config, mtime : 0 .. clock']
  BY <1>1 DEF HandEdit, Replace, Config
<1>3. draft' \in [Admin -> [content : Config, mtime : 0 .. clock']]
  <2>1. \A b \in Admin : draft[b] \in [content : Config, mtime : 0 .. clock + 1]
    OBVIOUS
  <2>. QED BY <1>1, <2>1 DEF HandEdit
<1>. QED BY <1>1, <1>2, <1>3 DEF HandEdit, Replace

\* They are kept by the daemon: spawn, baseline, poll, respawn.
LEMMA DaemonType ==
    ConfigTypeOK /\ (DaemonSpawns \/ DaemonBaseline \/ PollNotices \/ PollLoads \/ DaemonRespawns)
    => ConfigTypeOK'
<1>. USE ReloadAssumption DEF ConfigTypeOK, fileVars, adminVars, surfaceVars
<1>1. ConfigTypeOK /\ (DaemonSpawns \/ DaemonRespawns) => ConfigTypeOK'
  BY DEF DaemonSpawns, DaemonRespawns, Spawn, SurfaceState, Config
<1>2. ConfigTypeOK /\ (DaemonBaseline \/ PollNotices \/ PollLoads) => ConfigTypeOK'
  BY DEF DaemonBaseline, PollNotices, PollLoads
<1>. QED BY <1>1, <1>2

\* The supervisor restarts while it may: the count never passes its limit by
\* more than the failure that exceeds it.
FailuresBounded == surface # "dead" => failures <= MaxRestarts

\* They are kept by the channels component and its supervisor.
LEMMA SurfaceType ==
    /\ ConfigTypeOK /\ FailuresBounded
    /\ \/ SurfaceLoads \/ SurfaceSubscribes \/ SurfaceInits \/ SurfaceInitFails
       \/ SupervisorRestarts \/ SurfaceReloads \/ SurfaceDrains
    => ConfigTypeOK' /\ FailuresBounded'
<1>. USE ReloadAssumption DEF ConfigTypeOK, FailuresBounded, SurfaceState, Config, fileVars,
                              adminVars, daemonVars
<1>1. ConfigTypeOK /\ FailuresBounded /\ SurfaceLoads => ConfigTypeOK' /\ FailuresBounded'
  BY DEF SurfaceLoads, Fails
<1>2. ConfigTypeOK /\ FailuresBounded /\ SurfaceInitFails => ConfigTypeOK' /\ FailuresBounded'
  BY DEF SurfaceInitFails, Fails
<1>3. ConfigTypeOK /\ FailuresBounded /\ (SurfaceSubscribes \/ SurfaceInits \/ SupervisorRestarts)
      => ConfigTypeOK' /\ FailuresBounded'
  BY DEF SurfaceSubscribes, SurfaceInits, SupervisorRestarts
<1>4. ConfigTypeOK /\ FailuresBounded /\ (SurfaceReloads \/ SurfaceDrains)
      => ConfigTypeOK' /\ FailuresBounded'
  BY DEF SurfaceReloads, SurfaceDrains
<1>. QED BY <1>1, <1>2, <1>3, <1>4

\* Every variable keeps its type, and failures stays within MaxRestarts + 1:
\* spawn_component_supervisor stops restarting after that.
THEOREM ConfigTypeCorrect == ConfigSpec => []ConfigTypeOK
<1>. DEFINE Inv == ConfigTypeOK /\ FailuresBounded
<1>1. ConfigInit => Inv
  BY ConfigInitType, ReloadAssumption DEF ConfigInit, FailuresBounded
<1>2. Inv /\ [ConfigNext]_configVars => Inv'
  <2>. SUFFICES ASSUME ConfigTypeOK, FailuresBounded, [ConfigNext]_configVars PROVE Inv'
    OBVIOUS
  <2>1. ASSUME NEW a \in Admin,
               AdminLoads(a) \/ AdminWrites(a) \/ AdminInstalls(a) \/ AdminRequests(a)
        PROVE  Inv'
    BY <2>1, AdminType DEF FailuresBounded, AdminLoads, AdminWrites, AdminInstalls,
                           AdminRequests, surfaceVars
  <2>2. CASE HandEdit
    BY <2>2, HandEditType DEF FailuresBounded, HandEdit, surfaceVars
  <2>3. CASE DaemonSpawns \/ DaemonBaseline \/ PollNotices \/ PollLoads \/ DaemonRespawns
    BY <2>3, DaemonType, ReloadAssumption
       DEF FailuresBounded, DaemonSpawns, DaemonBaseline, PollNotices, PollLoads,
           DaemonRespawns, Spawn, surfaceVars
  <2>4. CASE \/ SurfaceLoads \/ SurfaceSubscribes \/ SurfaceInits \/ SurfaceInitFails
             \/ SupervisorRestarts \/ SurfaceReloads \/ SurfaceDrains
    BY <2>4, SurfaceType
  <2>5. CASE UNCHANGED configVars
    BY <2>5 DEF configVars, ConfigTypeOK, FailuresBounded, fileVars, adminVars, daemonVars, surfaceVars
  <2>. QED BY <2>1, <2>2, <2>3, <2>4, <2>5 DEF ConfigNext
<1>3. Inv => ConfigTypeOK
  OBVIOUS
<1>. QED BY <1>1, <1>2, <1>3, PTL DEF ConfigSpec

-----------------------------------------------------------------------------
\* A config that cannot be loaded is kept out of the daemon and of the channel
\* surface, whatever the order of saves, polls, reload requests and restarts: it
\* is already kept out of what each of them is about to apply.
THEOREM NothingInvalidRuns == ConfigSpec => []OnlyValidRuns
<1>. DEFINE Inv == OnlyValidRuns /\ Valid(candidate) /\ Valid(picked)
<1>1. ConfigInit => Inv
  BY DEF ConfigInit, OnlyValidRuns, Valid
<1>2. Inv /\ [ConfigNext]_configVars => Inv'
  <2>. SUFFICES ASSUME Inv, [ConfigNext]_configVars PROVE Inv'
    OBVIOUS
  <2>. USE DEF OnlyValidRuns, Valid
  <2>1. ASSUME NEW a \in Admin,
               AdminLoads(a) \/ AdminWrites(a) \/ AdminInstalls(a) \/ AdminRequests(a)
        PROVE  Inv'
    BY <2>1 DEF AdminLoads, AdminWrites, AdminInstalls, AdminRequests, daemonVars,
                surfaceVars
  <2>2. CASE HandEdit
    BY <2>2 DEF HandEdit, daemonVars, surfaceVars
  <2>3. CASE DaemonSpawns \/ DaemonBaseline \/ PollNotices
    BY <2>3 DEF DaemonSpawns, DaemonBaseline, PollNotices, Spawn, surfaceVars
  <2>4. CASE PollLoads \/ DaemonRespawns
    BY <2>4 DEF PollLoads, DaemonRespawns, Spawn, surfaceVars
  <2>5. CASE SurfaceLoads \/ SurfaceReloads \/ SurfaceDrains
    BY <2>5 DEF SurfaceLoads, SurfaceReloads, SurfaceDrains, daemonVars
  <2>6. CASE SurfaceSubscribes \/ SurfaceInits \/ SurfaceInitFails \/ SupervisorRestarts
    BY <2>6 DEF SurfaceSubscribes, SurfaceInits, SurfaceInitFails, SupervisorRestarts,
                daemonVars
  <2>7. CASE UNCHANGED configVars
    BY <2>7 DEF configVars, daemonVars, surfaceVars
  <2>. QED BY <2>1, <2>2, <2>3, <2>4, <2>5, <2>6, <2>7 DEF ConfigNext
<1>3. Inv => OnlyValidRuns
  OBVIOUS
<1>. QED BY <1>1, <1>2, <1>3, PTL DEF ConfigSpec

-----------------------------------------------------------------------------
(* What a poll that does nothing has not missed.                           *)

\* The daemon's side: while every change has a later time than the one before,
\* what the poll has not seen is newer than what it has seen, and what it has
\* seen is active, about to become active, or cannot be loaded.
SeenIsKnown ==
    ~early /\ ~overtaken =>
      /\ seen <= file.mtime
      /\ daemon \in {"boot", "baseline"} => file.content = active
      /\ daemon = "poll" /\ file.mtime <= seen /\ Valid(file.content)
         => active = file.content
      /\ daemon = "stop" /\ file.mtime <= seen => candidate = file.content

\* The surface's side: if the file says what the daemon runs with, so does what the
\* surface has loaded, unless the daemon is about to replace both.
SurfaceFollows ==
    ~reverted /\ daemon # "stop" /\ HasLoaded /\ file.content = active => Loaded = active

MissInv == ConfigTypeOK /\ SeenIsKnown /\ SurfaceFollows

\* At the start the daemon has loaded the file, and the surface is not there.
LEMMA InitMiss == ConfigInit => SeenIsKnown /\ SurfaceFollows
BY DEF ConfigInit, SeenIsKnown, SurfaceFollows, HasLoaded, Loaded

\* A change of the file is newer than what was seen, or one of the races is noted.
LEMMA ReplaceKeeps ==
    ASSUME MissInv, NEW new \in [content : Config, mtime : Nat], Replace(new),
           UNCHANGED <<daemonVars, surface, running, picked>>
    PROVE  SeenIsKnown' /\ SurfaceFollows'
<1>1. seen \in Nat /\ file.mtime \in Nat /\ new.mtime \in Nat
  BY DEF MissInv, ConfigTypeOK
<1>2. SeenIsKnown'
  <2>. SUFFICES ASSUME ~early', ~overtaken'
                PROVE  /\ seen < file'.mtime
                       /\ daemon \notin {"boot", "baseline"}
    BY <1>1 DEF SeenIsKnown, daemonVars, Replace
  <2>1. file' = new /\ ~early /\ ~overtaken /\ daemon \notin {"boot", "baseline"}
    BY DEF Replace
  <2>2. ~(new.mtime <= file.mtime)
    BY Zenon DEF Replace
  <2>. QED BY <1>1, <2>1, <2>2 DEF MissInv, SeenIsKnown
<1>3. SurfaceFollows'
  BY DEF MissInv, SurfaceFollows, Replace, daemonVars, HasLoaded, Loaded
<1>. QED BY <1>2, <1>3

\* Both sides are kept by every step.
LEMMA StepMiss == MissInv /\ [ConfigNext]_configVars => SeenIsKnown' /\ SurfaceFollows'
<1>. SUFFICES ASSUME MissInv, [ConfigNext]_configVars
              PROVE  SeenIsKnown' /\ SurfaceFollows'
  OBVIOUS
<1>. USE DEF MissInv
<1>1. ASSUME NEW a \in Admin, AdminInstalls(a)
      PROVE  SeenIsKnown' /\ SurfaceFollows'
  <2>1. draft[a] \in [content : Config, mtime : Nat]
    BY DEF ConfigTypeOK
  <2>. QED BY <1>1, <2>1, ReplaceKeeps DEF AdminInstalls, surfaceVars
<1>2. CASE HandEdit
  <2>. DEFINE new == [content |-> IF Valid(file.content) THEN file.content \cup {Broken}
                                  ELSE file.content \ {Broken},
                      mtime |-> clock + 1]
  <2>1. new \in [content : Config, mtime : Nat]
    BY DEF ConfigTypeOK, Config
  <2>2. Replace(new) /\ UNCHANGED <<daemonVars, surface, running, picked>>
    BY <1>2 DEF HandEdit, surfaceVars
  <2>. HIDE DEF new
  <2>. QED BY <2>1, <2>2, ReplaceKeeps
<1>3. ASSUME UNCHANGED <<file, early, overtaken, reverted, daemonVars, surface, running, picked>>
      PROVE  SeenIsKnown' /\ SurfaceFollows'
  BY <1>3 DEF SeenIsKnown, SurfaceFollows, HasLoaded, Loaded, daemonVars
<1>4. ASSUME NEW a \in Admin, AdminLoads(a) \/ AdminWrites(a) \/ AdminRequests(a)
      PROVE  SeenIsKnown' /\ SurfaceFollows'
  BY <1>3, <1>4 DEF AdminLoads, AdminWrites, AdminRequests, fileVars, surfaceVars
<1>5. CASE DaemonSpawns \/ DaemonRespawns
  <2>1. SeenIsKnown'
    BY <1>5 DEF DaemonSpawns, DaemonRespawns, SeenIsKnown, fileVars, ConfigTypeOK
  <2>2. SurfaceFollows'
    BY <1>5 DEF DaemonSpawns, DaemonRespawns, Spawn, SurfaceFollows, HasLoaded
  <2>. QED BY <2>1, <2>2
<1>6. CASE DaemonBaseline \/ PollNotices
  <2>1. file.mtime \in Nat /\ seen \in Nat
    BY DEF ConfigTypeOK
  <2>2. SeenIsKnown'
    BY <1>6, <2>1 DEF DaemonBaseline, PollNotices, SeenIsKnown, fileVars
  <2>3. SurfaceFollows'
    BY <1>6 DEF DaemonBaseline, PollNotices, SurfaceFollows, HasLoaded, Loaded, fileVars,
                surfaceVars
  <2>. QED BY <2>2, <2>3
<1>7. CASE PollLoads
  <2>1. SeenIsKnown'
    BY <1>7 DEF PollLoads, SeenIsKnown, fileVars, ConfigTypeOK
  <2>2. SurfaceFollows'
    BY <1>7 DEF PollLoads, SurfaceFollows, HasLoaded, Loaded, fileVars, surfaceVars
  <2>. QED BY <2>1, <2>2
<1>8. ASSUME UNCHANGED <<fileVars, daemonVars>>, SurfaceFollows'
      PROVE  SeenIsKnown' /\ SurfaceFollows'
  BY <1>8 DEF SeenIsKnown, fileVars, daemonVars
<1>9. CASE SurfaceLoads \/ SurfaceReloads \/ SurfaceDrains
  BY <1>8, <1>9 DEF SurfaceLoads, SurfaceReloads, SurfaceDrains, Fails, SurfaceFollows,
                    HasLoaded, Loaded, fileVars, daemonVars
<1>10. CASE SurfaceSubscribes \/ SurfaceInits \/ SurfaceInitFails \/ SupervisorRestarts
  BY <1>8, <1>10 DEF SurfaceSubscribes, SurfaceInits, SurfaceInitFails, SupervisorRestarts,
                     Fails, SurfaceFollows, HasLoaded, Loaded, fileVars, daemonVars
<1>11. CASE UNCHANGED configVars
  BY <1>3, <1>11 DEF configVars, fileVars, surfaceVars
<1>. QED
  BY <1>1, <1>2, <1>4, <1>5, <1>6, <1>7, <1>9, <1>10, <1>11 DEF ConfigNext

\* When the poll sees no newer file and the file can be loaded, the daemon and the
\* surface run what it says, whatever requests were lost, however often the
\* components were restarted, and for any number of saves and settings.
THEOREM PollMissesNothing == ConfigSpec => []NothingMissed
<1>1. ConfigInit => SeenIsKnown /\ SurfaceFollows
  BY InitMiss
<1>2. ConfigTypeOK /\ SeenIsKnown /\ SurfaceFollows /\ [ConfigNext]_configVars
      => SeenIsKnown' /\ SurfaceFollows'
  BY StepMiss DEF MissInv
<1>3. SeenIsKnown /\ SurfaceFollows => NothingMissed
  BY DEF SeenIsKnown, SurfaceFollows, NothingMissed, Undisturbed
<1>. QED BY <1>1, <1>2, <1>3, ConfigTypeCorrect, PTL DEF ConfigSpec

-----------------------------------------------------------------------------
(* Sequences: what is merged, set aside and queued, one after the other.   *)

\* Taking the head off the second of two sequences and putting it at the end of the
\* first changes nothing of their concatenation.
LEMMA MoveHead ==
    ASSUME NEW S, NEW s \in Seq(S), NEW t \in Seq(S), t # <<>>
    PROVE  Append(s, Head(t)) \o Tail(t) = s \o t
<1>1. /\ Head(t) \in S /\ Tail(t) \in Seq(S) /\ Len(t) \in Nat \ {0}
      /\ Len(Tail(t)) = Len(t) - 1 /\ Head(t) = t[1]
      /\ \A i \in 1 .. Len(Tail(t)) : Tail(t)[i] = t[i + 1]
  BY HeadTailProperties, EmptySeq
<1>. DEFINE u == Append(s, Head(t))
<1>2. /\ u \in Seq(S) /\ Len(u) = Len(s) + 1 /\ u[Len(s) + 1] = t[1]
      /\ \A i \in 1 .. Len(s) : u[i] = s[i]
  BY <1>1, AppendProperties
<1>. HIDE DEF u
<1>3. Len(s) \in Nat /\ Len(u) + Len(Tail(t)) = Len(s) + Len(t)
  BY <1>1, <1>2, LenProperties
<1>4. /\ u \o Tail(t) \in Seq(S) /\ Len(u \o Tail(t)) = Len(s) + Len(t)
      /\ \A i \in 1 .. Len(s) + Len(t) :
            (u \o Tail(t))[i] = IF i <= Len(s) + 1 THEN u[i] ELSE Tail(t)[i - (Len(s) + 1)]
  <2>1. /\ u \o Tail(t) \in Seq(S) /\ Len(u \o Tail(t)) = Len(u) + Len(Tail(t))
        /\ \A i \in 1 .. Len(u) + Len(Tail(t)) :
              (u \o Tail(t))[i] = IF i <= Len(u) THEN u[i] ELSE Tail(t)[i - Len(u)]
    BY <1>1, <1>2, ConcatProperties
  <2>. QED BY <2>1, <1>2, <1>3
<1>5. /\ s \o t \in Seq(S) /\ Len(s \o t) = Len(s) + Len(t)
      /\ \A i \in 1 .. Len(s) + Len(t) :
            (s \o t)[i] = IF i <= Len(s) THEN s[i] ELSE t[i - Len(s)]
  BY ConcatProperties
<1>6. ASSUME NEW i \in 1 .. Len(s) + Len(t)
      PROVE  (u \o Tail(t))[i] = (s \o t)[i]
  <2>1. CASE i <= Len(s)
    BY <2>1, <1>2, <1>3, <1>4, <1>5
  <2>2. CASE i = Len(s) + 1
    BY <2>2, <1>3, <1>1, <1>2, <1>4, <1>5
  <2>3. CASE i > Len(s) + 1
    <3>1. i - (Len(s) + 1) \in 1 .. Len(Tail(t))
      BY <2>3, <1>1
    <3>2. Tail(t)[i - (Len(s) + 1)] = t[i - Len(s)]
      BY <3>1, <1>1
    <3>. QED BY <2>3, <3>2, <1>4, <1>5
  <2>. QED BY <1>3, <2>1, <2>2, <2>3
<1>7. u \o Tail(t) = s \o t
  BY <1>4, <1>5, <1>6, SeqEqual
<1>. QED BY <1>7 DEF u

\* The end of the second is the end of both.
LEMMA AppendConcat ==
    ASSUME NEW S, NEW s \in Seq(S), NEW t \in Seq(S), NEW x \in S
    PROVE  s \o Append(t, x) = Append(s \o t, x)
<1>1. <<x>> \in Seq(S)
  OBVIOUS
<1>2. Append(t, x) = t \o <<x>> /\ Append(s \o t, x) = (s \o t) \o <<x>>
  BY AppendIsConcat, ConcatProperties
<1>. QED BY <1>1, <1>2, ConcatAssociative

\* The head of the first is the head of both.
LEMMA HeadConcat ==
    ASSUME NEW S, NEW s \in Seq(S), NEW t \in Seq(S), s # <<>>
    PROVE  Head(s \o t) = Head(s) /\ Tail(s \o t) = Tail(s) \o t
<1>1. /\ s \o t \in Seq(S) /\ Len(s \o t) = Len(s) + Len(t) /\ Len(s) \in Nat \ {0}
      /\ \A i \in 1 .. Len(s) + Len(t) :
            (s \o t)[i] = IF i <= Len(s) THEN s[i] ELSE t[i - Len(s)]
  BY ConcatProperties, EmptySeq
<1>2. s \o t # <<>> /\ Len(t) \in Nat
  BY <1>1
<1>3. /\ Head(s \o t) = s[1] /\ Head(s) = s[1]
      /\ Tail(s \o t) \in Seq(S) /\ Len(Tail(s \o t)) = Len(s) + Len(t) - 1
      /\ \A i \in 1 .. Len(s) + Len(t) - 1 : Tail(s \o t)[i] = (s \o t)[i + 1]
      /\ Tail(s) \in Seq(S) /\ Len(Tail(s)) = Len(s) - 1
      /\ \A i \in 1 .. Len(s) - 1 : Tail(s)[i] = s[i + 1]
  BY <1>1, <1>2, HeadTailProperties
<1>4. /\ Tail(s) \o t \in Seq(S) /\ Len(Tail(s) \o t) = Len(s) + Len(t) - 1
      /\ \A i \in 1 .. Len(s) + Len(t) - 1 :
            (Tail(s) \o t)[i] = IF i <= Len(s) - 1 THEN Tail(s)[i] ELSE t[i - (Len(s) - 1)]
  BY <1>1, <1>3, ConcatProperties
<1>5. ASSUME NEW i \in 1 .. Len(s) + Len(t) - 1
      PROVE  Tail(s \o t)[i] = (Tail(s) \o t)[i]
  <2>1. i + 1 \in 1 .. Len(s) + Len(t) /\ Tail(s \o t)[i] = (s \o t)[i + 1]
    BY <1>2, <1>1, <1>3
  <2>2. CASE i <= Len(s) - 1
    BY <2>1, <2>2, <1>1, <1>3, <1>4
  <2>3. CASE i > Len(s) - 1
    BY <2>1, <2>3, <1>1, <1>4
  <2>. QED BY <1>1, <2>2, <2>3
<1>6. Tail(s \o t) = Tail(s) \o t
  BY <1>3, <1>4, <1>5, SeqEqual
<1>. QED BY <1>3, <1>6

\* A concatenation is cut where its parts meet.
LEMMA CutConcat ==
    ASSUME NEW S, NEW s \in Seq(S), NEW t \in Seq(S)
    PROVE  /\ SubSeq(s \o t, 1, Len(s)) = s
           /\ SubSeq(s \o t, Len(s) + 1, Len(s \o t)) = t
<1>. DEFINE st == s \o t
<1>1. /\ st \in Seq(S) /\ Len(st) = Len(s) + Len(t) /\ Len(s) \in Nat /\ Len(t) \in Nat
      /\ \A i \in 1 .. Len(s) + Len(t) : st[i] = IF i <= Len(s) THEN s[i] ELSE t[i - Len(s)]
  BY ConcatProperties, LenProperties
<1>2. \A i \in 1 .. Len(s) + Len(t) : st[i] \in S
  BY <1>1, ElementOfSeq
<1>. HIDE DEF st
<1>3. SubSeq(st, 1, Len(s)) = s
  <2>1. \A i \in 1 .. Len(s) : st[i] \in S
    BY <1>1, <1>2
  <2>2. /\ SubSeq(st, 1, Len(s)) \in Seq(S)
        /\ Len(SubSeq(st, 1, Len(s))) = Len(s)
        /\ \A i \in 1 .. Len(s) : SubSeq(st, 1, Len(s))[i] = st[i]
    BY <1>1, <2>1
  <2>3. \A i \in 1 .. Len(s) : SubSeq(st, 1, Len(s))[i] = s[i]
    BY <1>1, <2>2
  <2>. QED BY <2>2, <2>3, SeqEqual
<1>4. SubSeq(st, Len(s) + 1, Len(st)) = t
  <2>1. \A i \in Len(s) + 1 .. Len(st) : st[i] \in S
    BY <1>1, <1>2
  <2>2. /\ SubSeq(st, Len(s) + 1, Len(st)) \in Seq(S)
        /\ Len(SubSeq(st, Len(s) + 1, Len(st))) = Len(t)
        /\ \A i \in 1 .. Len(t) : SubSeq(st, Len(s) + 1, Len(st))[i] = st[Len(s) + i]
    BY <1>1, <2>1
  <2>3. \A i \in 1 .. Len(t) : SubSeq(st, Len(s) + 1, Len(st))[i] = t[i]
    BY <1>1, <2>2
  <2>. QED BY <2>2, <2>3, SeqEqual
<1>. QED BY <1>3, <1>4 DEF st

\* What is in a part of a sequence.
LEMMA SubSeqFacts ==
    ASSUME NEW S, NEW s \in Seq(S), NEW n \in 0 .. Len(s)
    PROVE  /\ SubSeq(s, 1, n) \in Seq(S) /\ Len(SubSeq(s, 1, n)) = n
           /\ \A i \in 1 .. n : SubSeq(s, 1, n)[i] = s[i]
           /\ SubSeq(s, n + 1, Len(s)) \in Seq(S)
           /\ Len(SubSeq(s, n + 1, Len(s))) = Len(s) - n
           /\ \A i \in 1 .. Len(s) - n : SubSeq(s, n + 1, Len(s))[i] = s[n + i]
<1>1. Len(s) \in Nat /\ n \in Nat /\ \A i \in 1 .. Len(s) : s[i] \in S
  BY LenProperties, ElementOfSeq
<1>2. /\ \A i \in 1 .. n : s[i] \in S
      /\ \A i \in n + 1 .. Len(s) : s[i] \in S
  BY <1>1
<1>. QED BY <1>1, <1>2

\* A sequence's elements are of its type.
LEMMA ToSetType ==
    ASSUME NEW S, NEW s \in Seq(S)
    PROVE  ToSet(s) \subseteq S /\ \A i \in 1 .. Len(s) : s[i] \in ToSet(s)
BY LenProperties, ElementOfSeq DEF ToSet

-----------------------------------------------------------------------------
(* Types of the surface.                                                   *)

Batches == Seq([gen : 1 .. MaxReloads + 1, events : Seq(Message)])

\* What waits, and what is on its way, is a sequence of messages.
LEMMA WaitsType ==
    ASSUME TypeOK
    PROVE  Waits \in Seq(Message) /\ Unforwarded \in Seq(Message)
<1>1. rx \in Seq(Message) /\ pending \in Seq(Message) /\ merged \in Seq(Message)
  BY DEF TypeOK
<1>2. Waits \in Seq(Message)
  BY <1>1, ConcatProperties DEF Waits
<1>. QED BY <1>1, <1>2, ConcatProperties DEF Unforwarded

\* The next candidate is the head of what waits, wherever it is.
LEMMA Takes ==
    ASSUME TypeOK, Waits # <<>>, TakeCandidate
    PROVE  /\ Head(Waits) \in Message
           /\ Tail(Waits) \in Seq(Message)
           /\ Waits' = Tail(Waits)
           /\ rx' \in Seq(Message) /\ Len(rx') <= RxCapacity
           /\ pending' \in Seq(Message) /\ pending' = <<>>
<1>1. /\ rx \in Seq(Message) /\ pending \in Seq(Message)
      /\ Len(rx) \in Nat /\ Len(rx) <= RxCapacity /\ Len(pending) \in Nat /\ Len(pending) <= 1
  BY LenProperties DEF TypeOK
<1>2. Head(Waits) \in Message /\ Tail(Waits) \in Seq(Message)
  BY WaitsType, HeadTailProperties
<1>3. CASE pending # <<>>
  <2>1. pending' = Tail(pending) /\ rx' = rx
    BY <1>3 DEF TakeCandidate
  <2>2. Tail(pending) \in Seq(Message) /\ Len(Tail(pending)) = Len(pending) - 1
    BY <1>1, <1>3, HeadTailProperties
  <2>3. Tail(pending) = <<>>
    BY <1>1, <2>2, EmptySeq
  <2>4. Waits' = Tail(Waits)
    BY <1>1, <1>3, <2>1, HeadConcat DEF Waits
  <2>. QED BY <1>1, <1>2, <2>1, <2>2, <2>3, <2>4
<1>4. CASE pending = <<>>
  <2>1. rx' = Tail(rx) /\ pending' = <<>>
    BY <1>4 DEF TakeCandidate
  <2>2. Waits = rx
    BY <1>1, <1>4, ConcatEmptySeq DEF Waits
  <2>3. Tail(rx) \in Seq(Message) /\ Len(Tail(rx)) = Len(rx) - 1
    BY <1>1, <2>2, HeadTailProperties
  <2>4. Waits' = Tail(rx)
    BY <2>1, <2>3, ConcatEmptySeq DEF Waits
  <2>5. Len(Tail(rx)) <= RxCapacity
    BY <1>1, <2>3, SurfaceAssumption
  <2>6. <<>> \in Seq(Message)
    BY EmptySeq
  <2>. QED BY <1>2, <2>1, <2>2, <2>3, <2>4, <2>5, <2>6
<1>. QED BY <1>3, <1>4

\* A batch that is handed on keeps the type of the history.
LEMMA HandType ==
    ASSUME TypeOK, NEW batch \in Seq(Message), Hand(batch)
    PROVE  /\ at' = "enqueue" /\ merged' = <<>>
           /\ batches' \in Batches
<1>1. gen \in 1 .. MaxReloads + 1
  BY SurfaceAssumption DEF TypeOK
<1>2. [gen |-> gen, events |-> batch] \in [gen : 1 .. MaxReloads + 1, events : Seq(Message)]
  BY <1>1
<1>. QED BY <1>2, AppendProperties DEF Hand, TypeOK, Batches

\* At the start nothing was sent, merged or asked for.
LEMMA SurfaceInitType == Init => TypeOK /\ RequestsConsumed /\ CollectsOneKey
<1>. SUFFICES ASSUME Init PROVE TypeOK /\ RequestsConsumed /\ CollectsOneKey
  OBVIOUS
<1>1. <<>> \in Seq(Message) /\ Len(<<>>) = 0
      /\ <<>> \in Seq([gen : 1 .. MaxReloads + 1, events : Seq(Message)])
  BY EmptySeq
<1>2. Unforwarded = <<>>
  BY <1>1, ConcatEmptySeq DEF Init, Unforwarded, Waits
<1>. QED
  BY <1>1, <1>2, SurfaceAssumption DEF Init, TypeOK, Place, RequestsConsumed, CollectsOneKey

\* The surface's step keeps the types: a collected batch stays below its limit, one
\* event at most is set aside, and each generation is answered for by a request.
LEMMA SurfaceStepType ==
    ASSUME TypeOK, RequestsConsumed, CollectsOneKey, [Next]_vars
    PROVE  TypeOK' /\ RequestsConsumed' /\ CollectsOneKey'
<1>. DEFINE Goal == TypeOK /\ RequestsConsumed /\ CollectsOneKey
<1>0. /\ rx \in Seq(Message) /\ pending \in Seq(Message) /\ merged \in Seq(Message)
      /\ Len(rx) \in Nat /\ Len(pending) \in Nat /\ Len(merged) \in Nat
      /\ batches \in Batches /\ lost \subseteq Message
      /\ <<>> \in Seq(Message) /\ Len(<<>>) = 0
      /\ Waits \in Seq(Message)
  BY LenProperties, EmptySeq, WaitsType DEF TypeOK, Batches
<1>. USE SurfaceAssumption
<1>1. CASE StartSurface
  BY <1>0, <1>1 DEF StartSurface, TypeOK, Place, RequestsConsumed, CollectsOneKey, reloadVars,
                    Batches
<1>2. ASSUME NEW k \in Key, Send(k)
      PROVE  Goal'
  <2>1. [n |-> arrived + 1, key |-> k] \in Message
    BY <1>2 DEF Send, Message, TypeOK
  <2>2. rx' \in Seq(Message) /\ Len(rx') <= RxCapacity
    BY <1>0, <1>2, <2>1, AppendProperties DEF Send
  <2>. QED BY <1>0, <1>2, <2>2 DEF Send, TypeOK, Place, RequestsConsumed, CollectsOneKey,
                                   reloadVars, Batches
<1>3. CASE TakeBase
  <2>1. /\ Head(Waits) \in Message
        /\ rx' \in Seq(Message) /\ Len(rx') <= RxCapacity /\ pending' = <<>>
    BY <1>3, Takes DEF TakeBase
  <2>2. <<Head(Waits)>> \in Seq(Message) /\ Len(<<Head(Waits)>>) = 1
        /\ <<Head(Waits)>>[1] = Head(Waits)
    BY <2>1
  <2>3. CASE Head(Waits).key \in Single \/ MaxMerge = 1
    <3>1. at' = "enqueue" /\ merged' = <<>> /\ batches' \in Batches
      BY <1>3, <2>2, <2>3, HandType DEF TakeBase
    <3>. QED BY <1>0, <1>3, <2>1, <3>1
             DEF TakeBase, TypeOK, Place, RequestsConsumed, CollectsOneKey, reloadVars, Batches
  <2>4. CASE ~(Head(Waits).key \in Single \/ MaxMerge = 1)
    <3>1. at' = "collect" /\ merged' = <<Head(Waits)>> /\ UNCHANGED batches
      BY <1>3, <2>4 DEF TakeBase
    <3>2. Len(merged') \in 1 .. MaxMerge - 1
      BY <2>2, <2>4, <3>1
    <3>3. \A i \in DOMAIN merged' : merged'[i].key = merged'[1].key /\ merged'[i].key \notin Single
      BY <2>2, <2>4, <3>1
    <3>. QED BY <1>0, <1>3, <2>1, <2>2, <3>1, <3>2, <3>3
             DEF TakeBase, TypeOK, Place, RequestsConsumed, CollectsOneKey, reloadVars, Batches
  <2>. QED BY <2>3, <2>4
<1>4. CASE Merge
  <2>1. /\ Head(Waits) \in Message
        /\ rx' \in Seq(Message) /\ Len(rx') <= RxCapacity /\ pending' = <<>>
    BY <1>4, Takes DEF Merge
  <2>2. /\ Append(merged, Head(Waits)) \in Seq(Message)
        /\ Len(Append(merged, Head(Waits))) = Len(merged) + 1
        /\ Append(merged, Head(Waits))[Len(merged) + 1] = Head(Waits)
        /\ \A i \in 1 .. Len(merged) : Append(merged, Head(Waits))[i] = merged[i]
    BY <1>0, <2>1, AppendProperties
  <2>3. CASE Len(merged) + 1 < MaxMerge
    <3>1. at' = "collect" /\ merged' = Append(merged, Head(Waits)) /\ UNCHANGED batches
      BY <1>4, <2>3 DEF Merge
    <3>2. Len(merged) \in 1 .. MaxMerge - 1 /\ Len(merged') \in 1 .. MaxMerge - 1
      BY <1>0, <1>4, <2>2, <2>3, <3>1 DEF Merge, TypeOK
    <3>3. \A i \in DOMAIN merged' : merged'[i].key = merged'[1].key /\ merged'[i].key \notin Single
      <4>1. DOMAIN merged' = 1 .. Len(merged) + 1 /\ DOMAIN merged = 1 .. Len(merged)
        BY <1>0, <2>2, <3>1, LenProperties
      <4>2. merged'[1] = merged[1] /\ 1 \in DOMAIN merged
        BY <2>2, <3>1, <3>2, <4>1
      <4>3. \A i \in DOMAIN merged : merged[i].key = merged[1].key /\ merged[i].key \notin Single
        BY <1>4 DEF Merge, CollectsOneKey
      <4>4. Head(Waits).key = merged[1].key
        BY <1>4 DEF Merge, Matches
      <4>. QED BY <2>2, <3>1, <3>2, <4>1, <4>2, <4>3, <4>4
    <3>. QED BY <1>0, <1>4, <2>1, <2>2, <3>1, <3>2, <3>3
             DEF Merge, TypeOK, Place, RequestsConsumed, CollectsOneKey, reloadVars, Batches
  <2>4. CASE ~(Len(merged) + 1 < MaxMerge)
    <3>1. at' = "enqueue" /\ merged' = <<>> /\ batches' \in Batches
      BY <1>4, <2>2, <2>4, HandType DEF Merge
    <3>. QED BY <1>0, <1>4, <2>1, <3>1
             DEF Merge, TypeOK, Place, RequestsConsumed, CollectsOneKey, reloadVars, Batches
  <2>. QED BY <2>3, <2>4
<1>5. CASE SetAside
  <2>1. at' = "enqueue" /\ merged' = <<>> /\ batches' \in Batches
    BY <1>0, <1>5, HandType DEF SetAside
  <2>2. pending = <<>> /\ Waits = rx
    BY <1>0, <1>5, ConcatEmptySeq DEF SetAside, TypeOK, Waits
  <2>3. /\ Head(rx) \in Message /\ Tail(rx) \in Seq(Message) /\ Len(Tail(rx)) = Len(rx) - 1
    BY <1>0, <1>5, <2>2, HeadTailProperties DEF SetAside
  <2>4. pending' = <<Head(rx)>> /\ rx' = Tail(rx)
    BY <1>5, <2>2 DEF SetAside
  <2>5. /\ pending' \in Seq(Message) /\ Len(pending') = 1
        /\ rx' \in Seq(Message) /\ Len(rx') <= RxCapacity
    BY <1>0, <2>3, <2>4 DEF TypeOK
  <2>. QED BY <1>0, <1>5, <2>1, <2>5
           DEF SetAside, TypeOK, Place, RequestsConsumed, CollectsOneKey, reloadVars, Batches
<1>6. CASE WindowCloses
  <2>1. at' = "enqueue" /\ merged' = <<>> /\ batches' \in Batches
    BY <1>0, <1>6, HandType DEF WindowCloses
  <2>. QED BY <1>0, <1>6, <2>1
           DEF WindowCloses, TypeOK, Place, RequestsConsumed, CollectsOneKey, reloadVars, Batches
<1>7. CASE EnqueueReturns
  BY <1>0, <1>7 DEF EnqueueReturns, TypeOK, Place, RequestsConsumed, CollectsOneKey, reloadVars,
                    Batches
<1>8. CASE RequestReload
  <2>1. Unforwarded' = Unforwarded
    BY <1>8 DEF RequestReload, Unforwarded, Waits, loopVars
  <2>. QED BY <1>0, <1>8, <2>1
           DEF RequestReload, TypeOK, Place, RequestsConsumed, CollectsOneKey, loopVars, Batches
<1>9. CASE ReloadFails \/ ReloadBegins
  <2>1. ToSet(merged) \subseteq Message
    BY <1>0, ToSetType
  <2>2. /\ at \in {"select", "collect"} /\ requests > 0 /\ requests' = requests - 1
        /\ merged' = <<>> /\ at' \in {"select", "stop"}
        /\ lost' = lost \cup ToSet(merged)
        /\ UNCHANGED <<arrived, rx, pending, asked, gen, batches>>
    BY <1>9 DEF ReloadFails, ReloadBegins, ReloadWins
  <2>3. RequestsConsumed'
    BY <2>2 DEF RequestsConsumed, TypeOK
  <2>4. CollectsOneKey'
    BY <2>2 DEF CollectsOneKey
  <2>. QED BY <1>0, <2>1, <2>2, <2>3, <2>4 DEF TypeOK, Place, Batches
<1>10. CASE ReloadEnds
  <2>1. ToSet(Waits) \subseteq Message
    BY <1>0, ToSetType
  <2>2. merged = <<>>
    BY <1>10 DEF ReloadEnds, TypeOK
  <2>3. Unforwarded' = <<>>
    BY <1>10, <1>0, <2>2, ConcatEmptySeq DEF ReloadEnds, Unforwarded, Waits
  <2>. QED BY <1>0, <1>10, <2>1, <2>2, <2>3
           DEF ReloadEnds, TypeOK, Place, RequestsConsumed, CollectsOneKey, Batches
<1>11. CASE UNCHANGED vars
  <2>1. Unforwarded' = Unforwarded
    BY <1>11 DEF vars, Unforwarded, Waits, loopVars
  <2>. QED BY <1>0, <1>11, <2>1
           DEF vars, loopVars, reloadVars, TypeOK, Place, RequestsConsumed, CollectsOneKey
<1>. QED
  BY <1>1, <1>2, <1>3, <1>4, <1>5, <1>6, <1>7, <1>8, <1>9, <1>10, <1>11 DEF Next

-----------------------------------------------------------------------------
(* What a step does to the events that are on their way: they are one      *)
(* sequence, which grows at its end and leaves at its front.               *)

Stays == Unforwarded' = Unforwarded /\ UNCHANGED <<arrived, batches, lost>>

Sends(m) ==
    /\ m.n = arrived + 1
    /\ arrived' = arrived + 1
    /\ Unforwarded' = Append(Unforwarded, m)
    /\ UNCHANGED <<batches, lost>>

Leaves(n) ==
    /\ n \in 1 .. Len(Unforwarded)
    /\ Unforwarded' = SubSeq(Unforwarded, n + 1, Len(Unforwarded))
    /\ UNCHANGED arrived

Forwards(n) ==
    /\ Leaves(n)
    /\ SubSeq(Unforwarded, 1, n) \in Batch
    /\ batches' = Append(batches, [gen |-> gen, events |-> SubSeq(Unforwarded, 1, n)])
    /\ UNCHANGED lost

Loses(n) ==
    /\ Leaves(n)
    /\ lost' = lost \cup ToSet(SubSeq(Unforwarded, 1, n))
    /\ UNCHANGED batches

Moves ==
    \/ Stays
    \/ \E m \in Message : Sends(m)
    \/ \E n \in 1 .. Len(Unforwarded) : Forwards(n) \/ Loses(n)

\* A batch at the front of what is on its way is forwarded.
LEMMA FrontForwarded ==
    ASSUME NEW s \in Batch, NEW t \in Seq(Message),
           Unforwarded = s \o t, Unforwarded' = t,
           Hand(s), UNCHANGED <<arrived, lost>>
    PROVE  Moves
<1>1. s \in Seq(Message) /\ Len(s) \in Nat /\ Len(s) >= 1 /\ Len(t) \in Nat
  BY LenProperties DEF Batch
<1>2. Len(s) \in 1 .. Len(Unforwarded)
  BY <1>1, ConcatProperties
<1>3. /\ SubSeq(Unforwarded, 1, Len(s)) = s
      /\ SubSeq(Unforwarded, Len(s) + 1, Len(Unforwarded)) = t
  BY <1>1, CutConcat
<1>4. Forwards(Len(s))
  BY <1>2, <1>3 DEF Forwards, Leaves, Hand
<1>. QED BY <1>2, <1>4 DEF Moves

\* Something at the front of what is on its way is lost.
LEMMA FrontLost ==
    ASSUME NEW s \in Seq(Message), NEW t \in Seq(Message),
           Unforwarded = s \o t, Unforwarded' = t,
           lost' = lost \cup ToSet(s), UNCHANGED <<arrived, batches>>
    PROVE  Moves
<1>1. Len(s) \in Nat /\ Len(t) \in Nat
  BY LenProperties
<1>2. CASE s = <<>>
  <2>1. ToSet(s) = {}
    BY <1>2 DEF ToSet
  <2>2. Unforwarded = t
    BY <1>2, ConcatEmptySeq
  <2>. QED BY <2>1, <2>2 DEF Moves, Stays
<1>3. CASE s # <<>>
  <2>1. Len(s) \in 1 .. Len(Unforwarded)
    BY <1>1, <1>3, ConcatProperties, EmptySeq
  <2>2. /\ SubSeq(Unforwarded, 1, Len(s)) = s
        /\ SubSeq(Unforwarded, Len(s) + 1, Len(Unforwarded)) = t
    BY CutConcat
  <2>3. Loses(Len(s))
    BY <2>1, <2>2 DEF Loses, Leaves
  <2>. QED BY <2>1, <2>3 DEF Moves
<1>. QED BY <1>2, <1>3

\* What is being collected is a batch, and so is one event.
LEMMA CollectedIsBatch ==
    ASSUME TypeOK, CollectsOneKey
    PROVE  /\ at = "collect" => merged \in Batch
           /\ \A m \in Message : <<m>> \in Batch
<1>1. merged \in Seq(Message) /\ Len(merged) \in Nat /\ DOMAIN merged = 1 .. Len(merged)
  BY LenProperties DEF TypeOK
<1>2. at = "collect" => merged \in Batch
  BY <1>1, SurfaceAssumption DEF Batch, TypeOK, CollectsOneKey
<1>3. \A m \in Message : <<m>> \in Batch
  BY SurfaceAssumption DEF Batch
<1>. QED BY <1>2, <1>3

\* Every step of the surface is one of these moves.
LEMMA StepMoves ==
    ASSUME TypeOK, CollectsOneKey, [Next]_vars
    PROVE  Moves
<1>0. /\ rx \in Seq(Message) /\ pending \in Seq(Message) /\ merged \in Seq(Message)
      /\ Len(merged) \in Nat
      /\ <<>> \in Seq(Message) /\ Len(<<>>) = 0
      /\ Waits \in Seq(Message) /\ Unforwarded \in Seq(Message)
      /\ at # "collect" => merged = <<>> /\ Unforwarded = Waits
  BY LenProperties, EmptySeq, WaitsType, ConcatEmptySeq DEF TypeOK, Unforwarded
<1>1. CASE StartSurface \/ EnqueueReturns \/ RequestReload \/ UNCHANGED vars
  BY <1>1 DEF StartSurface, EnqueueReturns, RequestReload, vars, loopVars, Moves, Stays,
              Unforwarded, Waits
<1>2. ASSUME NEW k \in Key, Send(k)
      PROVE  Moves
  <2>. DEFINE m == [n |-> arrived + 1, key |-> k]
  <2>1. m \in Message /\ m.n = arrived + 1
    BY <1>2, SurfaceAssumption DEF Send, Message, TypeOK
  <2>2. arrived' = arrived + 1 /\ rx' = Append(rx, m)
        /\ UNCHANGED <<pending, merged, batches, lost>>
    BY <1>2 DEF Send
  <2>. HIDE DEF m
  <2>3. Waits' = Append(Waits, m)
    BY <1>0, <2>1, <2>2, AppendConcat DEF Waits
  <2>4. Unforwarded' = Append(Unforwarded, m)
    BY <1>0, <2>1, <2>2, <2>3, AppendConcat DEF Unforwarded
  <2>. QED BY <2>1, <2>2, <2>4 DEF Moves, Sends
<1>3. CASE TakeBase
  <2>1. Head(Waits) \in Message /\ Tail(Waits) \in Seq(Message) /\ Waits' = Tail(Waits)
    BY <1>3, Takes DEF TakeBase
  <2>2. merged = <<>> /\ Unforwarded = Waits /\ UNCHANGED <<arrived, lost>>
    BY <1>0, <1>3 DEF TakeBase
  <2>3. <<Head(Waits)>> \o Tail(Waits) = Waits
    <3>1. Append(<<>>, Head(Waits)) \o Tail(Waits) = <<>> \o Waits
      BY <1>0, <1>3, MoveHead DEF TakeBase
    <3>2. Append(<<>>, Head(Waits)) = <<Head(Waits)>>
      OBVIOUS
    <3>. QED BY <1>0, <3>1, <3>2, ConcatEmptySeq
  <2>4. CASE Head(Waits).key \in Single \/ MaxMerge = 1
    <3>1. Hand(<<Head(Waits)>>)
      BY <1>3, <2>4 DEF TakeBase
    <3>2. Unforwarded' = Tail(Waits)
      BY <2>1, <3>1, ConcatEmptySeq DEF Unforwarded, Hand
    <3>3. <<Head(Waits)>> \in Batch
      BY <2>1, CollectedIsBatch
    <3>. QED BY <2>1, <2>2, <2>3, <3>1, <3>2, <3>3, FrontForwarded
  <2>5. CASE ~(Head(Waits).key \in Single \/ MaxMerge = 1)
    BY <1>3, <2>1, <2>2, <2>3, <2>5 DEF TakeBase, Moves, Stays, Unforwarded
  <2>. QED BY <2>4, <2>5
<1>4. CASE Merge
  <2>1. Head(Waits) \in Message /\ Tail(Waits) \in Seq(Message) /\ Waits' = Tail(Waits)
    BY <1>4, Takes DEF Merge
  <2>. DEFINE grown == Append(merged, Head(Waits))
  <2>2. grown \o Tail(Waits) = Unforwarded
    BY <1>0, <1>4, MoveHead DEF Merge, Unforwarded
  <2>3. CASE Len(merged) + 1 < MaxMerge
    BY <1>4, <2>1, <2>2, <2>3 DEF Merge, Moves, Stays, Unforwarded
  <2>4. CASE ~(Len(merged) + 1 < MaxMerge)
    <3>1. Hand(grown) /\ UNCHANGED <<arrived, lost>>
      BY <1>4, <2>4 DEF Merge
    <3>2. Unforwarded' = Tail(Waits)
      BY <2>1, <3>1, ConcatEmptySeq DEF Unforwarded, Hand
    <3>3. grown \in Batch
      <4>1. /\ grown \in Seq(Message) /\ Len(grown) = Len(merged) + 1
            /\ grown[Len(merged) + 1] = Head(Waits)
            /\ \A i \in 1 .. Len(merged) : grown[i] = merged[i]
            /\ DOMAIN grown = 1 .. Len(merged) + 1 /\ DOMAIN merged = 1 .. Len(merged)
        BY <1>0, <2>1, AppendProperties, LenProperties
      <4>2. Len(merged) \in 1 .. MaxMerge - 1
        BY <1>4 DEF Merge, TypeOK
      <4>3. \A i \in DOMAIN merged : merged[i].key = merged[1].key /\ merged[i].key \notin Single
        BY <1>4 DEF Merge, CollectsOneKey
      <4>4. Head(Waits).key = merged[1].key
        BY <1>4 DEF Merge, Matches
      <4>. HIDE DEF grown
      <4>5. grown[1] = merged[1] /\ 1 \in DOMAIN merged
        BY <1>0, <4>1, <4>2
      <4>6. ASSUME NEW i \in DOMAIN grown
            PROVE  grown[i].key = grown[1].key /\ grown[i].key \notin Single
        <5>1. CASE i \in DOMAIN merged
          BY <4>1, <4>3, <4>5, <5>1
        <5>2. CASE i = Len(merged) + 1
          BY <4>1, <4>3, <4>4, <4>5, <5>2
        <5>. QED BY <1>0, <4>1, <5>1, <5>2
      <4>7. Len(grown) \in 1 .. MaxMerge
        BY <4>1, <4>2, SurfaceAssumption
      <4>. QED BY <4>1, <4>6, <4>7 DEF Batch
    <3>. HIDE DEF grown
    <3>. QED BY <2>1, <2>2, <3>1, <3>2, <3>3, FrontForwarded
  <2>. QED BY <2>3, <2>4
<1>5. CASE SetAside \/ WindowCloses
  <2>1. Hand(merged) /\ UNCHANGED <<arrived, lost>> /\ at = "collect" /\ pending = <<>>
    BY <1>5 DEF SetAside, WindowCloses, TypeOK
  <2>2. Waits' = Waits
    <3>1. CASE WindowCloses
      BY <3>1 DEF WindowCloses, Waits
    <3>2. CASE SetAside
      <4>1. Waits = rx
        BY <1>0, <2>1, ConcatEmptySeq DEF Waits
      <4>2. pending' = <<Head(rx)>> /\ rx' = Tail(rx) /\ rx # <<>>
        BY <2>1, <3>2, <4>1 DEF SetAside
      <4>3. Append(<<>>, Head(rx)) \o Tail(rx) = <<>> \o rx
        BY <1>0, <4>2, MoveHead
      <4>4. Append(<<>>, Head(rx)) = <<Head(rx)>>
        OBVIOUS
      <4>. QED BY <1>0, <4>1, <4>2, <4>3, <4>4, ConcatEmptySeq DEF Waits
    <3>. QED BY <1>5, <3>1, <3>2
  <2>3. Unforwarded' = Waits
    BY <1>0, <2>1, <2>2, ConcatEmptySeq DEF Unforwarded, Hand
  <2>4. merged \in Batch
    BY <2>1, CollectedIsBatch
  <2>5. Unforwarded = merged \o Waits
    BY DEF Unforwarded
  <2>. QED BY <1>0, <2>1, <2>3, <2>4, <2>5, FrontForwarded
<1>6. CASE ReloadFails \/ ReloadBegins
  <2>1. /\ merged' = <<>> /\ lost' = lost \cup ToSet(merged)
        /\ UNCHANGED <<arrived, rx, pending, batches>>
    BY <1>6 DEF ReloadFails, ReloadBegins, ReloadWins
  <2>2. Unforwarded' = Waits
    BY <1>0, <2>1, ConcatEmptySeq DEF Unforwarded, Waits
  <2>3. Unforwarded = merged \o Waits
    BY DEF Unforwarded
  <2>. QED BY <1>0, <2>1, <2>2, <2>3, FrontLost
<1>7. CASE ReloadEnds
  <2>1. /\ merged = <<>> /\ merged' = <<>> /\ rx' = <<>> /\ pending' = <<>>
        /\ lost' = lost \cup ToSet(Waits) /\ UNCHANGED <<arrived, batches>>
    BY <1>7, <1>0 DEF ReloadEnds
  <2>2. Unforwarded' = <<>> /\ Unforwarded = Waits \o <<>>
    BY <1>0, <1>7, <2>1, ConcatEmptySeq DEF Unforwarded, Waits, ReloadEnds
  <2>. QED BY <1>0, <2>1, <2>2, FrontLost
<1>. QED BY <1>1, <1>2, <1>3, <1>4, <1>5, <1>6, <1>7 DEF Next

-----------------------------------------------------------------------------
(* Every event once.                                                       *)

Leaving(n) == SubSeq(Unforwarded, 1, n)

\* What leaves at the front is newer than all that left, older than all that stays,
\* and both parts are in order.
LEMMA FrontAndRest ==
    ASSUME TypeOK, WaitsInOrder, NEW n \in Nat, Leaves(n)
    PROVE  /\ Leaving(n) \in Seq(Message) /\ Len(Leaving(n)) = n /\ n \in Nat \ {0}
           /\ Unforwarded' \in Seq(Message) /\ Len(Unforwarded') = Len(Unforwarded) - n
           /\ ToSet(Unforwarded) = ToSet(Leaving(n)) \cup ToSet(Unforwarded')
           /\ \A i, j \in DOMAIN Leaving(n) : i < j => Leaving(n)[i].n < Leaving(n)[j].n
           /\ \A i, j \in DOMAIN Unforwarded' : i < j => Unforwarded'[i].n < Unforwarded'[j].n
           /\ \A m \in Forwarded \cup lost \cup ToSet(Leaving(n)) :
                \A i \in DOMAIN Unforwarded' : m.n < Unforwarded'[i].n
           /\ \A m \in Forwarded \cup lost :
                \A i \in DOMAIN Leaving(n) : m.n < Leaving(n)[i].n
<1>. DEFINE U == Unforwarded
            V == Unforwarded'
            F == Leaving(n)
<1>0. V = SubSeq(U, n + 1, Len(U)) /\ F = SubSeq(U, 1, n)
  BY DEF Leaves, Leaving
<1>1. /\ U \in Seq(Message) /\ Len(U) \in Nat /\ DOMAIN U = 1 .. Len(U)
      /\ n \in 1 .. Len(U) /\ n \in Nat \ {0} /\ n \in 0 .. Len(U)
  <2>1. U \in Seq(Message) /\ Len(U) \in Nat /\ DOMAIN U = 1 .. Len(U)
    BY WaitsType, LenProperties
  <2>2. n \in 1 .. Len(U)
    BY DEF Leaves
  <2>. QED BY <2>1, <2>2
<1>2. /\ F \in Seq(Message) /\ Len(F) = n /\ DOMAIN F = 1 .. n
      /\ \A i \in 1 .. n : F[i] = U[i]
      /\ V \in Seq(Message) /\ Len(V) = Len(U) - n /\ DOMAIN V = 1 .. Len(U) - n
      /\ \A i \in 1 .. Len(U) - n : V[i] = U[n + i]
  <2>. HIDE DEF U, V, F
  <2>1. /\ F \in Seq(Message) /\ Len(F) = n
        /\ \A i \in 1 .. n : F[i] = U[i]
        /\ V \in Seq(Message) /\ Len(V) = Len(U) - n
        /\ \A i \in 1 .. Len(U) - n : V[i] = U[n + i]
    BY <1>0, <1>1, SubSeqFacts
  <2>. QED BY <2>1, LenProperties
<1>3. /\ \A i, j \in DOMAIN U : i < j => U[i].n < U[j].n
      /\ \A m \in Forwarded \cup lost : \A i \in DOMAIN U : m.n < U[i].n
  BY DEF WaitsInOrder
<1>. HIDE DEF U, V, F
<1>4. ToSet(U) = ToSet(F) \cup ToSet(V)
  <2>1. ASSUME NEW i \in DOMAIN U PROVE U[i] \in ToSet(F) \cup ToSet(V)
    <3>1. CASE i <= n
      BY <1>1, <1>2, <3>1 DEF ToSet
    <3>2. CASE ~(i <= n)
      <4>1. i - n \in 1 .. Len(U) - n /\ V[i - n] = U[i]
        BY <1>1, <1>2, <3>2
      <4>. QED BY <1>2, <4>1 DEF ToSet
    <3>. QED BY <3>1, <3>2
  <2>2. ASSUME NEW i \in DOMAIN F PROVE F[i] \in ToSet(U)
    BY <1>1, <1>2 DEF ToSet
  <2>3. ASSUME NEW i \in DOMAIN V PROVE V[i] \in ToSet(U)
    <3>1. n + i \in DOMAIN U
      BY <1>1, <1>2
    <3>. QED BY <1>2, <3>1 DEF ToSet
  <2>. QED BY <2>1, <2>2, <2>3 DEF ToSet
<1>5. \A i, j \in DOMAIN F : i < j => F[i].n < F[j].n
  BY <1>1, <1>2, <1>3
<1>6. ASSUME NEW i \in DOMAIN V, NEW j \in DOMAIN V, i < j
      PROVE  V[i].n < V[j].n
  <2>1. n + i \in DOMAIN U /\ n + j \in DOMAIN U /\ n + i < n + j
    BY <1>1, <1>2, <1>6
  <2>. QED BY <1>2, <1>3, <2>1
<1>7. ASSUME NEW m \in Forwarded \cup lost \cup ToSet(F), NEW i \in DOMAIN V
      PROVE  m.n < V[i].n
  <2>1. n + i \in DOMAIN U /\ V[i] = U[n + i]
    BY <1>1, <1>2
  <2>2. CASE m \in ToSet(F)
    <3>1. PICK k \in DOMAIN F : m = F[k]
      BY <2>2 DEF ToSet
    <3>2. m = U[k] /\ k \in DOMAIN U /\ k < n + i
      BY <1>1, <1>2, <3>1
    <3>. QED BY <1>3, <2>1, <3>2
  <2>. QED BY <1>3, <1>7, <2>1, <2>2
<1>8. ASSUME NEW m \in Forwarded \cup lost, NEW i \in DOMAIN F
      PROVE  m.n < F[i].n
  BY <1>1, <1>2, <1>3
<1>. QED BY <1>1, <1>2, <1>4, <1>5, <1>6, <1>7, <1>8 DEF U, V, F

\* What the history of batches holds after one more batch.
LEMMA OneBatchMore ==
    ASSUME TypeOK, NEW n \in Nat, Forwards(n), Leaving(n) \in Seq(Message)
    PROVE  /\ Len(batches') = Len(batches) + 1 /\ Len(batches) \in Nat
           /\ DOMAIN batches = 1 .. Len(batches) /\ DOMAIN batches' = 1 .. Len(batches) + 1
           /\ batches'[Len(batches) + 1] = [gen |-> gen, events |-> Leaving(n)]
           /\ \A b \in DOMAIN batches : batches'[b] = batches[b]
           /\ Forwarded' = Forwarded \cup ToSet(Leaving(n))
<1>1. /\ batches \in Batches
      /\ [gen |-> gen, events |-> Leaving(n)] \in [gen : 1 .. MaxReloads + 1, events : Seq(Message)]
      /\ batches' = Append(batches, [gen |-> gen, events |-> Leaving(n)])
  BY SurfaceAssumption DEF TypeOK, Batches, Forwards, Leaving
<1>2. /\ Len(batches') = Len(batches) + 1 /\ Len(batches) \in Nat
      /\ DOMAIN batches = 1 .. Len(batches) /\ DOMAIN batches' = 1 .. Len(batches) + 1
      /\ batches'[Len(batches) + 1] = [gen |-> gen, events |-> Leaving(n)]
      /\ \A b \in DOMAIN batches : batches'[b] = batches[b]
  BY <1>1, AppendProperties, LenProperties DEF Batches
<1>3. ASSUME NEW m \in Message
      PROVE  m \in Forwarded' <=> m \in Forwarded \/ m \in ToSet(Leaving(n))
  <2>1. m \in Forwarded' <=> \E b \in DOMAIN batches' : m \in ToSet(batches'[b].events)
    BY DEF Forwarded, Message
  <2>2. m \in Forwarded <=> \E b \in DOMAIN batches : m \in ToSet(batches[b].events)
    BY DEF Forwarded
  <2>3. \A b \in DOMAIN batches' : b \in DOMAIN batches \/ b = Len(batches) + 1
    BY <1>2
  <2>4. \A b \in DOMAIN batches : b \in DOMAIN batches'
    BY <1>2
  <2>5. Len(batches) + 1 \in DOMAIN batches'
    BY <1>2
  <2>6. batches'[Len(batches) + 1].events = Leaving(n)
    BY <1>2
  <2>. QED BY <1>2, <2>1, <2>2, <2>3, <2>4, <2>5, <2>6
<1>4. ToSet(Leaving(n)) \subseteq Message
  BY ToSetType
<1>5. Forwarded' \subseteq Message /\ Forwarded \subseteq Message
  BY DEF Forwarded, Message
<1>. QED BY <1>2, <1>3, <1>4, <1>5

\* The histories and what is on its way have every event once after every step.
LEMMA MovesKeepOnce ==
    ASSUME TypeOK, EveryEventOnce, Moves
    PROVE  EveryEventOnce'
<1>0. /\ Unforwarded \in Seq(Message) /\ Forwarded \subseteq Message /\ lost \subseteq Message
      /\ Len(Unforwarded) \in Nat /\ DOMAIN Unforwarded = 1 .. Len(Unforwarded)
      /\ ToSet(Unforwarded) \subseteq Message /\ arrived \in Nat
      /\ \A m \in Message : m.n \in Nat
  <2>1. /\ Unforwarded \in Seq(Message) /\ lost \subseteq Message /\ arrived \in Nat
    BY WaitsType, SurfaceAssumption DEF TypeOK
  <2>2. /\ Len(Unforwarded) \in Nat /\ DOMAIN Unforwarded = 1 .. Len(Unforwarded)
        /\ ToSet(Unforwarded) \subseteq Message
    BY <2>1, ToSetType, LenProperties
  <2>3. Forwarded \subseteq Message
    BY DEF Forwarded
  <2>4. \A m \in Message : m.n \in Nat
    BY SurfaceAssumption DEF Message
  <2>. QED BY <2>1, <2>2, <2>3, <2>4
<1>1. /\ {m.n : m \in Forwarded \cup lost \cup ToSet(Unforwarded)} = 1 .. arrived
      /\ \A m \in Forwarded, o \in lost : m.n # o.n
      /\ WaitsInOrder
      /\ BatchesAscend
  BY DEF EveryEventOnce, AllKnown
<1>2. CASE Stays
  <2>1. Forwarded' = Forwarded /\ Unforwarded' = Unforwarded /\ lost' = lost
        /\ batches' = batches /\ arrived' = arrived
    BY <1>2 DEF Stays, Forwarded, Message
  <2>. QED BY <1>1, <2>1 DEF EveryEventOnce, AllKnown, WaitsInOrder, BatchesAscend
<1>3. ASSUME NEW m \in Message, Sends(m)
      PROVE  EveryEventOnce'
  <2>1. /\ m.n = arrived + 1 /\ arrived' = arrived + 1
        /\ Unforwarded' = Append(Unforwarded, m)
        /\ batches' = batches /\ lost' = lost /\ Forwarded' = Forwarded
    BY <1>3 DEF Sends, Forwarded, Message
  <2>2. /\ Unforwarded' \in Seq(Message) /\ DOMAIN Unforwarded' = 1 .. Len(Unforwarded) + 1
        /\ Unforwarded'[Len(Unforwarded) + 1] = m
        /\ \A i \in 1 .. Len(Unforwarded) : Unforwarded'[i] = Unforwarded[i]
    BY <1>0, <2>1, AppendProperties, LenProperties
  <2>3. ToSet(Unforwarded') = ToSet(Unforwarded) \cup {m}
    <3>1. \A i \in DOMAIN Unforwarded' : i \in DOMAIN Unforwarded \/ i = Len(Unforwarded) + 1
      BY <1>0, <2>2
    <3>2. \A i \in DOMAIN Unforwarded : i \in DOMAIN Unforwarded'
      BY <1>0, <2>2
    <3>3. Len(Unforwarded) + 1 \in DOMAIN Unforwarded'
      BY <1>0, <2>2
    <3>. QED BY <1>0, <2>2, <3>1, <3>2, <3>3 DEF ToSet
  <2>4. \A o \in Forwarded \cup lost \cup ToSet(Unforwarded) : o.n \in 1 .. arrived
    BY <1>1
  <2>5. AllKnown'
    <3>1. {o.n : o \in Forwarded' \cup lost' \cup ToSet(Unforwarded')}
             = {o.n : o \in Forwarded \cup lost \cup ToSet(Unforwarded)} \cup {m.n}
      BY <2>1, <2>3
    <3>2. (1 .. arrived) \cup {m.n} = 1 .. arrived'
      BY <1>0, <2>1
    <3>. QED BY <1>1, <3>1, <3>2 DEF AllKnown
  <2>6. WaitsInOrder'
    <3>1. ASSUME NEW i \in DOMAIN Unforwarded', NEW j \in DOMAIN Unforwarded', i < j
          PROVE  Unforwarded'[i].n < Unforwarded'[j].n
      <4>1. i \in DOMAIN Unforwarded /\ Unforwarded'[i] = Unforwarded[i]
        BY <1>0, <2>2, <3>1
      <4>2. CASE j \in DOMAIN Unforwarded
        BY <1>0, <1>1, <2>2, <3>1, <4>1, <4>2 DEF WaitsInOrder
      <4>3. CASE j = Len(Unforwarded) + 1
        <5>1. Unforwarded[i] \in ToSet(Unforwarded)
          BY <4>1 DEF ToSet
        <5>. QED BY <1>0, <2>1, <2>2, <2>4, <4>1, <4>3, <5>1
      <4>. QED BY <1>0, <2>2, <4>2, <4>3
    <3>2. ASSUME NEW o \in Forwarded \cup lost, NEW i \in DOMAIN Unforwarded'
          PROVE  o.n < Unforwarded'[i].n
      <4>1. CASE i \in DOMAIN Unforwarded
        BY <1>0, <1>1, <2>2, <3>2, <4>1 DEF WaitsInOrder
      <4>2. CASE i = Len(Unforwarded) + 1
        BY <1>0, <2>1, <2>2, <2>4, <3>2, <4>2
      <4>. QED BY <1>0, <2>2, <4>1, <4>2
    <3>. QED BY <2>1, <3>1, <3>2 DEF WaitsInOrder
  <2>. QED BY <1>1, <2>1, <2>5, <2>6 DEF EveryEventOnce, BatchesAscend
<1>4. ASSUME NEW n \in 1 .. Len(Unforwarded), Forwards(n)
      PROVE  EveryEventOnce'
  <2>1. Leaves(n) /\ lost' = lost /\ arrived' = arrived
    BY <1>4 DEF Forwards, Leaves
  <2>2. /\ Leaving(n) \in Seq(Message) /\ Len(Leaving(n)) = n /\ DOMAIN Leaving(n) = 1 .. n
        /\ ToSet(Unforwarded) = ToSet(Leaving(n)) \cup ToSet(Unforwarded')
        /\ \A i, j \in DOMAIN Leaving(n) : i < j => Leaving(n)[i].n < Leaving(n)[j].n
        /\ \A i, j \in DOMAIN Unforwarded' : i < j => Unforwarded'[i].n < Unforwarded'[j].n
        /\ \A m \in Forwarded \cup lost \cup ToSet(Leaving(n)) :
             \A i \in DOMAIN Unforwarded' : m.n < Unforwarded'[i].n
        /\ \A m \in Forwarded \cup lost : \A i \in DOMAIN Leaving(n) : m.n < Leaving(n)[i].n
    BY <1>1, <2>1, FrontAndRest, LenProperties
  <2>3. /\ Len(batches) \in Nat
        /\ DOMAIN batches = 1 .. Len(batches) /\ DOMAIN batches' = 1 .. Len(batches) + 1
        /\ batches'[Len(batches) + 1] = [gen |-> gen, events |-> Leaving(n)]
        /\ \A b \in DOMAIN batches : batches'[b] = batches[b]
        /\ Forwarded' = Forwarded \cup ToSet(Leaving(n))
    BY <1>4, <2>2, OneBatchMore
  <2>4. AllKnown'
    BY <1>1, <2>1, <2>2, <2>3 DEF AllKnown
  <2>5. WaitsInOrder'
    BY <2>1, <2>2, <2>3 DEF WaitsInOrder
  <2>6. ASSUME NEW m \in Forwarded', NEW o \in lost'
        PROVE  m.n # o.n
    <3>1. CASE m \in ToSet(Leaving(n))
      <4>1. PICK i \in DOMAIN Leaving(n) : m = Leaving(n)[i]
        BY <3>1 DEF ToSet
      <4>2. o.n < m.n /\ o.n \in Nat /\ m.n \in Nat
        BY <1>0, <2>1, <2>2, <4>1, ToSetType
      <4>. QED BY <4>2
    <3>. QED BY <1>1, <2>1, <2>3, <3>1
  <2>7. ASSUME NEW a \in DOMAIN batches', NEW b \in DOMAIN batches',
               NEW i \in DOMAIN batches'[a].events, NEW j \in DOMAIN batches'[b].events,
               a < b \/ (a = b /\ i < j)
        PROVE  batches'[a].events[i].n < batches'[b].events[j].n
    <3>1. CASE b \in DOMAIN batches
      <4>1. a \in DOMAIN batches
        BY <2>3, <2>7, <3>1
      <4>. QED BY <1>1, <2>3, <2>7, <3>1, <4>1 DEF BatchesAscend
    <3>2. CASE b = Len(batches) + 1 /\ a \in DOMAIN batches
      <4>1. batches'[a] = batches[a] /\ batches'[b].events = Leaving(n)
        BY <2>3, <3>2
      <4>2. batches[a].events[i] \in ToSet(batches[a].events)
        BY <4>1 DEF ToSet
      <4>3. batches[a].events \in Seq(Message)
        <5>1. batches \in Seq([gen : 1 .. MaxReloads + 1, events : Seq(Message)])
          BY DEF TypeOK
        <5>2. batches[a] \in [gen : 1 .. MaxReloads + 1, events : Seq(Message)]
          BY <2>3, <3>2, <5>1, ElementOfSeq
        <5>. QED BY <5>2
      <4>4. batches[a].events[i] \in Message
        BY <4>2, <4>3, ToSetType
      <4>5. batches[a].events[i] \in Forwarded
        BY <3>2, <4>2, <4>4 DEF Forwarded
      <4>. QED BY <2>2, <4>1, <4>5
    <3>3. CASE b = Len(batches) + 1 /\ a = b
      <4>1. batches'[a].events = Leaving(n) /\ i < j
        BY <2>3, <2>7, <3>3
      <4>. QED BY <2>2, <3>3, <4>1
    <3>. QED BY <2>3, <3>1, <3>2, <3>3
  <2>8. BatchesAscend'
    BY <2>7 DEF BatchesAscend
  <2>. QED BY <2>4, <2>5, <2>6, <2>8 DEF EveryEventOnce
<1>5. ASSUME NEW n \in 1 .. Len(Unforwarded), Loses(n)
      PROVE  EveryEventOnce'
  <2>1. /\ Leaves(n) /\ arrived' = arrived /\ batches' = batches /\ Forwarded' = Forwarded
        /\ lost' = lost \cup ToSet(Leaving(n))
    BY <1>5 DEF Loses, Leaves, Leaving, Forwarded, Message
  <2>2. /\ Leaving(n) \in Seq(Message)
        /\ ToSet(Unforwarded) = ToSet(Leaving(n)) \cup ToSet(Unforwarded')
        /\ \A i, j \in DOMAIN Unforwarded' : i < j => Unforwarded'[i].n < Unforwarded'[j].n
        /\ \A m \in Forwarded \cup lost \cup ToSet(Leaving(n)) :
             \A i \in DOMAIN Unforwarded' : m.n < Unforwarded'[i].n
        /\ \A m \in Forwarded \cup lost : \A i \in DOMAIN Leaving(n) : m.n < Leaving(n)[i].n
    BY <1>1, <2>1, FrontAndRest
  <2>3. AllKnown'
    BY <1>1, <2>1, <2>2 DEF AllKnown
  <2>4. WaitsInOrder'
    BY <2>1, <2>2 DEF WaitsInOrder
  <2>5. ASSUME NEW m \in Forwarded', NEW o \in lost'
        PROVE  m.n # o.n
    <3>1. CASE o \in ToSet(Leaving(n))
      <4>1. PICK i \in DOMAIN Leaving(n) : o = Leaving(n)[i]
        BY <3>1 DEF ToSet
      <4>2. m.n < o.n /\ o.n \in Nat /\ m.n \in Nat
        BY <1>0, <2>1, <2>2, <3>1, <4>1, ToSetType
      <4>. QED BY <4>2
    <3>. QED BY <1>1, <2>1, <3>1
  <2>. QED BY <1>1, <2>1, <2>3, <2>4, <2>5 DEF EveryEventOnce, BatchesAscend
<1>. QED BY <1>2, <1>3, <1>4, <1>5 DEF Moves

\* No batch is empty, so there are no more of them than events that left.
LEMMA MovesKeepCount ==
    ASSUME TypeOK, WaitsInOrder, BatchesCounted, Moves
    PROVE  BatchesCounted'
<1>0. /\ Unforwarded \in Seq(Message) /\ Len(Unforwarded) \in Nat /\ arrived \in Nat
      /\ batches \in Batches /\ Len(batches) \in Nat
  BY WaitsType, LenProperties, SurfaceAssumption DEF TypeOK, Batches
<1>1. CASE Stays
  BY <1>1 DEF Stays, BatchesCounted
<1>2. ASSUME NEW m \in Message, Sends(m)
      PROVE  BatchesCounted'
  <2>1. Len(Unforwarded') = Len(Unforwarded) + 1
    BY <1>0, <1>2, AppendProperties DEF Sends
  <2>. QED BY <1>0, <1>2, <2>1 DEF Sends, BatchesCounted
<1>3. ASSUME NEW n \in 1 .. Len(Unforwarded), Forwards(n) \/ Loses(n)
      PROVE  BatchesCounted'
  <2>0. Leaves(n) /\ arrived' = arrived
    BY <1>3 DEF Forwards, Loses, Leaves
  <2>1. /\ Leaving(n) \in Seq(Message) /\ n \in Nat \ {0} /\ arrived' = arrived
        /\ Len(Unforwarded') = Len(Unforwarded) - n
    BY <1>0, <1>3, <2>0, FrontAndRest
  <2>2. Len(batches') = Len(batches) + 1 \/ Len(batches') = Len(batches)
    BY <1>3, <2>1, OneBatchMore DEF Loses
  <2>. QED BY <1>0, <1>3, <2>1, <2>2 DEF BatchesCounted
<1>. QED BY <1>1, <1>2, <1>3 DEF Moves

-----------------------------------------------------------------------------
(* The theorems about the surface.                                         *)

\* Nothing was sent at the start, so nothing is missing.
LEMMA SurfaceInitInv == Init => SurfaceInv
<1>. SUFFICES ASSUME Init PROVE SurfaceInv
  OBVIOUS
<1>1. TypeOK /\ RequestsConsumed /\ CollectsOneKey
  BY SurfaceInitType
<1>2. Unforwarded = <<>> /\ Forwarded = {} /\ lost = {} /\ arrived = 0 /\ batches = <<>>
  BY ConcatEmptySeq, EmptySeq DEF Init, Unforwarded, Waits, Forwarded
<1>3. Len(<<>>) = 0 /\ DOMAIN <<>> = {} /\ ToSet(<<>>) = {}
  BY EmptySeq DEF ToSet
<1>4. BatchesCounted
  BY <1>2, <1>3 DEF BatchesCounted
<1>5. EveryEventOnce
  <2>1. AllKnown
    BY <1>2, <1>3 DEF AllKnown
  <2>2. WaitsInOrder /\ BatchesAscend
    BY <1>2, <1>3 DEF WaitsInOrder, BatchesAscend
  <2>. QED BY <1>2, <2>1, <2>2 DEF EveryEventOnce
<1>. QED BY <1>1, <1>4, <1>5 DEF SurfaceInv

\* Each part of the invariant is kept by every step, from the parts before it.
LEMMA SurfaceStepInv == SurfaceInv /\ [Next]_vars => SurfaceInv'
<1>. SUFFICES ASSUME SurfaceInv, [Next]_vars PROVE SurfaceInv'
  OBVIOUS
<1>1. TypeOK /\ RequestsConsumed /\ CollectsOneKey /\ BatchesCounted /\ EveryEventOnce
  BY DEF SurfaceInv
<1>2. TypeOK' /\ RequestsConsumed' /\ CollectsOneKey'
  BY <1>1, SurfaceStepType
<1>3. Moves
  BY <1>1, StepMoves
<1>4. EveryEventOnce'
  BY <1>1, <1>3, MovesKeepOnce
<1>5. BatchesCounted'
  BY <1>1, <1>3, MovesKeepCount DEF EveryEventOnce
<1>. QED BY <1>2, <1>4, <1>5 DEF SurfaceInv

\* In every state of the surface, for every set of keys, every merge limit and every
\* capacity of the channel.
THEOREM SurfaceInvariant == Spec => []SurfaceInv
<1>1. Init => SurfaceInv
  BY SurfaceInitInv
<1>2. SurfaceInv /\ [Next]_vars => SurfaceInv'
  BY SurfaceStepInv
<1>. QED BY <1>1, <1>2, PTL DEF Spec

\* The variables keep their types: next_event never holds more than one event aside,
\* and never has collected as many as the limit.
THEOREM SurfaceTypeCorrect == Spec => []TypeOK
<1>1. SurfaceInv => TypeOK
  BY DEF SurfaceInv
<1>. QED BY <1>1, SurfaceInvariant, PTL

\* Every event a listener sent is in exactly one place, whatever the coalescer
\* merged, set aside and dropped, and however many reloads there were.
THEOREM EventsOnce == Spec => []EveryEventOnce
<1>1. SurfaceInv => EveryEventOnce
  BY DEF SurfaceInv
<1>. QED BY <1>1, SurfaceInvariant, PTL

\* The events of the history's batches are a history of sequences.
HandedOn == [b \in DOMAIN batches |-> batches[b].events]

\* That history is one of sequences of messages.
LEMMA HandedOnType ==
    ASSUME TypeOK
    PROVE  HandedOn \in Seq(Seq(Message)) /\ DOMAIN HandedOn = DOMAIN batches
<1>1. /\ batches \in Batches /\ Len(batches) \in Nat /\ DOMAIN batches = 1 .. Len(batches)
  BY LenProperties DEF TypeOK, Batches
<1>2. \A b \in DOMAIN batches : batches[b].events \in Seq(Message)
  <2>1. \A b \in DOMAIN batches :
            batches[b] \in [gen : 1 .. MaxReloads + 1, events : Seq(Message)]
    BY <1>1, ElementOfSeq DEF Batches
  <2>. QED BY <2>1
<1>3. HandedOn \in [1 .. Len(batches) -> Seq(Message)]
  BY <1>1, <1>2 DEF HandedOn
<1>4. HandedOn \in Seq(Seq(Message))
  BY <1>1, <1>3, SeqDef
<1>. QED BY <1>3, <1>4

\* Every move is a step of the intake, or none.
LEMMA MovesIntake ==
    ASSUME TypeOK, AllKnown, WaitsInOrder, Moves
    PROVE  [I!INext]_I!intakeVars
<1>0. /\ Unforwarded \in Seq(Message) /\ Len(Unforwarded) \in Nat /\ arrived \in Nat
  BY WaitsType, LenProperties, SurfaceAssumption DEF TypeOK
<1>a. /\ \A s : I!ToSet(s) = ToSet(s)
      /\ HandedOn \in Seq(Seq(Message)) /\ DOMAIN HandedOn = DOMAIN batches
  BY HandedOnType DEF I!ToSet, ToSet
<1>b. I!intakeVars = <<Unforwarded, HandedOn, lost>>
  BY DEF I!intakeVars, HandedOn
<1>1. CASE Stays
  <2>1. HandedOn' = HandedOn
    BY <1>1 DEF Stays, HandedOn
  <2>. QED BY <1>1, <2>1 DEF Stays, I!intakeVars, HandedOn
<1>2. ASSUME NEW m \in Message, Sends(m)
      PROVE  I!INext
  <2>1. m.n \notin {o.n : o \in Forwarded \cup lost \cup ToSet(Unforwarded)}
    <3>1. m.n = arrived + 1
      BY <1>2 DEF Sends
    <3>2. m.n \notin 1 .. arrived
      BY <1>0, <3>1
    <3>. QED BY <3>2 DEF AllKnown
  <2>2. I!Known = ToSet(Unforwarded) \cup Forwarded \cup lost
    <3>1. I!Sent = Forwarded
      BY DEF I!Sent, Forwarded, I!ToSet, ToSet
    <3>. QED BY <1>a, <3>1 DEF I!Known
  <2>3. HandedOn' = HandedOn
    BY <1>2 DEF Sends, HandedOn
  <2>4. I!Arrive(m)
    BY <1>2, <2>1, <2>2, <2>3 DEF Sends, I!Arrive, HandedOn
  <2>. QED BY <2>4 DEF I!INext
<1>3. ASSUME NEW n \in 1 .. Len(Unforwarded), Forwards(n)
      PROVE  I!INext
  <2>1. n \in Nat /\ Leaves(n) /\ Leaving(n) \in Seq(Message) /\ lost' = lost
    BY <1>0, <1>3, FrontAndRest DEF Forwards
  <2>2. /\ Len(batches') = Len(batches) + 1 /\ Len(batches) \in Nat
        /\ DOMAIN batches = 1 .. Len(batches) /\ DOMAIN batches' = 1 .. Len(batches) + 1
        /\ batches'[Len(batches) + 1] = [gen |-> gen, events |-> Leaving(n)]
        /\ \A b \in DOMAIN batches : batches'[b] = batches[b]
    BY <1>3, <2>1, OneBatchMore
  <2>3. HandedOn' = Append(HandedOn, Leaving(n))
    <3>. DEFINE grown == Append(HandedOn, Leaving(n))
    <3>1. /\ grown \in Seq(Seq(Message)) /\ Len(HandedOn) = Len(batches)
          /\ Len(grown) = Len(HandedOn) + 1 /\ grown[Len(HandedOn) + 1] = Leaving(n)
          /\ \A b \in 1 .. Len(HandedOn) : grown[b] = HandedOn[b]
      BY <1>a, <2>1, <2>2, AppendProperties, LenProperties
    <3>2. HandedOn' = [b \in 1 .. Len(batches) + 1 |-> batches'[b].events]
      BY <2>2 DEF HandedOn
    <3>3. HandedOn = [b \in 1 .. Len(batches) |-> batches[b].events]
      BY <2>2 DEF HandedOn
    <3>. HIDE DEF grown
    <3>4. DOMAIN grown = 1 .. Len(batches) + 1
      BY <3>1, LenProperties
    <3>5. ASSUME NEW b \in 1 .. Len(batches) + 1
          PROVE  grown[b] = batches'[b].events
      <4>1. CASE b \in 1 .. Len(batches)
        BY <2>2, <3>1, <3>3, <4>1
      <4>2. CASE b = Len(batches) + 1
        BY <2>2, <3>1, <4>2
      <4>. QED BY <2>2, <4>1, <4>2
    <3>6. grown = [b \in 1 .. Len(batches) + 1 |-> grown[b]]
      BY <3>1, <3>4, SeqDef
    <3>. QED BY <3>2, <3>5, <3>6 DEF grown
  <2>4. I!Forward(n)
    BY <1>3, <2>1, <2>3 DEF Forwards, Leaves, Leaving, I!Forward, HandedOn
  <2>. QED BY <2>4 DEF I!INext
<1>4. ASSUME NEW n \in 1 .. Len(Unforwarded), Loses(n)
      PROVE  I!INext
  <2>1. HandedOn' = HandedOn
    BY <1>4 DEF Loses, HandedOn
  <2>2. I!Lose(n)
    BY <1>4, <1>a, <2>1 DEF Loses, Leaves, I!Lose, HandedOn
  <2>. QED BY <2>2 DEF I!INext
<1>. QED BY <1>1, <1>2, <1>3, <1>4 DEF Moves

\* The loop and its coalescer implement the intake: events are forwarded in order,
\* each once, merged only with neighbours of their key, and what is lost was oldest.
THEOREM ImplementsIntake == Spec => IntakeSpec
<1>1. Init => I!IInit
  <2>. SUFFICES ASSUME Init PROVE I!IInit
    OBVIOUS
  <2>1. Unforwarded = <<>> /\ batches = <<>> /\ lost = {}
    BY ConcatEmptySeq, EmptySeq DEF Init, Unforwarded, Waits
  <2>. QED BY <2>1 DEF I!IInit
<1>2. SurfaceInv /\ [Next]_vars => [I!INext]_I!intakeVars
  BY StepMoves, MovesIntake DEF SurfaceInv, EveryEventOnce
<1>. QED BY <1>1, <1>2, SurfaceInvariant, PTL DEF Spec, IntakeSpec, I!ISpec

\* No sequence has more elements than its length.
LEMMA ToSetSmall ==
    ASSUME NEW S, NEW s \in Seq(S)
    PROVE  IsFiniteSet(ToSet(s)) /\ Cardinality(ToSet(s)) <= Len(s)
<1>1. Len(s) \in Nat /\ DOMAIN s = 1 .. Len(s) /\ s \in [1 .. Len(s) -> S]
  BY LenProperties, SeqDef
<1>2. s \in Surjection(1 .. Len(s), ToSet(s))
  BY <1>1 DEF ToSet, Surjection
<1>3. IsFiniteSet(1 .. Len(s)) /\ Cardinality(1 .. Len(s)) = Len(s)
  BY <1>1, FS_Interval
<1>. QED BY <1>2, <1>3, FS_Surjection

\* A reload that fails drops the future of next_event, and with it the open batch and
\* nothing else: the events set aside and in the channel are there afterwards.
THEOREM FailedReload == Spec => FailedReloadLosesOneBatch
<1>. DEFINE Costs ==
        gen' = gen /\ at' # "stop" =>
          /\ Cardinality(lost' \ lost) < MaxMerge
          /\ \A m, o \in lost' \ lost : m.key = o.key /\ m.key \notin Single
          /\ lost' \cap ToSet(Waits) = {}
<1>1. ASSUME SurfaceInv, [Next]_vars
      PROVE  [Costs]_vars
  <2>. USE <1>1
  <2>a. TypeOK /\ WaitsInOrder /\ CollectsOneKey
    BY DEF SurfaceInv, EveryEventOnce
  <2>b. /\ merged \in Seq(Message) /\ Waits \in Seq(Message)
        /\ lost \subseteq Message /\ gen \in Nat /\ MaxMerge \in Nat \ {0}
    BY <2>a, WaitsType, SurfaceAssumption DEF TypeOK
  <2>0. /\ TypeOK /\ WaitsInOrder /\ CollectsOneKey
        /\ merged \in Seq(Message) /\ Len(merged) \in Nat /\ DOMAIN merged = 1 .. Len(merged)
        /\ Waits \in Seq(Message) /\ Len(Waits) \in Nat /\ DOMAIN Waits = 1 .. Len(Waits)
        /\ \A m \in Message : m.n \in Nat
        /\ lost \subseteq Message /\ gen \in Nat /\ MaxMerge \in Nat \ {0}
    BY <2>a, <2>b, LenProperties DEF Message
  <2>1. /\ DOMAIN Unforwarded = 1 .. Len(merged) + Len(Waits)
        /\ \A i \in 1 .. Len(merged) : Unforwarded[i] = merged[i]
        /\ \A i \in 1 .. Len(Waits) : Unforwarded[Len(merged) + i] = Waits[i]
    <3>1. /\ Unforwarded \in Seq(Message)
          /\ Len(Unforwarded) = Len(merged) + Len(Waits)
          /\ \A i \in 1 .. Len(merged) + Len(Waits) :
                Unforwarded[i] = IF i <= Len(merged) THEN merged[i] ELSE Waits[i - Len(merged)]
      BY <2>0, ConcatProperties DEF Unforwarded
    <3>2. DOMAIN Unforwarded = 1 .. Len(merged) + Len(Waits)
      BY <3>1, LenProperties
    <3>3. \A i \in 1 .. Len(merged) : Unforwarded[i] = merged[i]
      BY <2>0, <3>1
    <3>4. ASSUME NEW i \in 1 .. Len(Waits)
          PROVE  Unforwarded[Len(merged) + i] = Waits[i]
      <4>1. /\ Len(merged) + i \in 1 .. Len(merged) + Len(Waits)
            /\ ~(Len(merged) + i <= Len(merged)) /\ (Len(merged) + i) - Len(merged) = i
        BY <2>0
      <4>. QED BY <3>1, <4>1
    <3>. QED BY <3>2, <3>3, <3>4
  <2>2. ASSUME NEW m \in lost \cup ToSet(merged), NEW o \in ToSet(Waits)
        PROVE  m # o
    <3>1. PICK i \in 1 .. Len(Waits) : o = Waits[i]
      BY <2>0 DEF ToSet
    <3>2. /\ Len(merged) + i \in DOMAIN Unforwarded /\ o = Unforwarded[Len(merged) + i]
      BY <2>0, <2>1, <3>1
    <3>3. m.n < o.n
      <4>1. CASE m \in lost
        BY <2>0, <3>2, <4>1 DEF WaitsInOrder
      <4>2. CASE m \in ToSet(merged)
        <5>1. PICK j \in 1 .. Len(merged) : m = merged[j]
          BY <2>0, <4>2 DEF ToSet
        <5>2. j \in DOMAIN Unforwarded /\ m = Unforwarded[j] /\ j < Len(merged) + i
          BY <2>0, <2>1, <5>1
        <5>. QED BY <2>0, <3>2, <5>2 DEF WaitsInOrder
      <4>. QED BY <4>1, <4>2
    <3>4. m \in Message
      BY <2>0, ToSetType
    <3>. QED BY <2>0, <3>3, <3>4
  <2>3. CASE lost' = lost
    <3>1. lost' \ lost = {} /\ Cardinality({}) = 0
      BY <2>3, FS_EmptySet
    <3>2. Cardinality(lost' \ lost) < MaxMerge
      <4>1. Cardinality(lost' \ lost) = 0
        BY <3>1
      <4>. QED BY <2>0, <4>1
    <3>3. lost' \cap ToSet(Waits) = {}
      BY <2>2, <2>3
    <3>. QED BY <3>1, <3>2, <3>3
  <2>4. CASE ReloadFails
    <3>1. lost' = lost \cup ToSet(merged) /\ at \in {"select", "collect"}
      BY <2>4 DEF ReloadFails, ReloadWins
    <3>2. lost' \cap ToSet(Waits) = {}
      BY <2>2, <3>1
    <3>3. CASE at = "select"
      <4>1. merged = <<>>
        BY <2>0, <3>3 DEF TypeOK
      <4>2. lost' = lost
        BY <3>1, <4>1 DEF ToSet
      <4>. QED BY <2>3, <4>2
    <3>4. CASE at = "collect"
      <4>1. Len(merged) < MaxMerge
        BY <2>0, <3>4 DEF TypeOK
      <4>2. /\ IsFiniteSet(ToSet(merged)) /\ Cardinality(ToSet(merged)) <= Len(merged)
            /\ Cardinality(ToSet(merged)) \in Nat
        BY <2>0, ToSetSmall, FS_CardinalityType
      <4>3. /\ lost' \ lost \in SUBSET ToSet(merged)
            /\ IsFiniteSet(lost' \ lost)
            /\ Cardinality(lost' \ lost) <= Cardinality(ToSet(merged))
        BY <3>1, <4>2, FS_Subset
      <4>4. Cardinality(lost' \ lost) \in Nat
        BY <4>3, FS_CardinalityType
      <4>5. Cardinality(lost' \ lost) < MaxMerge
        BY <2>0, <4>1, <4>2, <4>3, <4>4
      <4>6. \A m \in ToSet(merged) : m.key = merged[1].key /\ m.key \notin Single
        BY <2>0, <3>4 DEF CollectsOneKey, ToSet
      <4>. QED BY <3>2, <4>3, <4>5, <4>6
    <3>. QED BY <3>1, <3>3, <3>4
  <2>5. CASE ReloadBegins
    BY <2>5 DEF ReloadBegins
  <2>6. CASE ReloadEnds
    <3>1. gen' # gen
      BY <2>0, <2>6 DEF ReloadEnds
    <3>. QED BY <3>1
  <2>7. CASE UNCHANGED vars
    BY <2>7
  <2>8. ASSUME NEW k \in Key, Send(k)
        PROVE  lost' = lost
    BY <2>8 DEF Send
  <2>9. ASSUME \/ StartSurface \/ TakeBase \/ Merge \/ SetAside \/ WindowCloses
               \/ EnqueueReturns \/ RequestReload
        PROVE  lost' = lost
    BY <2>9 DEF StartSurface, TakeBase, Merge, SetAside, WindowCloses, EnqueueReturns,
                RequestReload
  <2>. QED BY <1>1, <2>3, <2>4, <2>5, <2>6, <2>7, <2>8, <2>9 DEF Next
<1>2. SurfaceInv /\ [Next]_vars => [Costs]_vars
  BY <1>1
<1>. QED BY <1>2, SurfaceInvariant, PTL DEF Spec, FailedReloadLosesOneBatch

-----------------------------------------------------------------------------
(* The surface with the routing queues of its generations.                 *)

\* The runtime's steps are steps of the surface or leave it alone: what is proved of
\* the surface holds in the runtime.
THEOREM RuntimeIsSurface == RSpec => Spec
<1>1. RInit => Init
  BY DEF RInit
<1>2. [RNext]_runtimeVars => [Next]_vars
  BY DEF RNext, SurfaceStep, HandlerStarts, HandlerReturns, RoutingDrops, Advance, runtimeVars
<1>. QED BY <1>1, <1>2, PTL DEF RSpec, Spec
=============================================================================
