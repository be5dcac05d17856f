---------------------------- MODULE ConfigReload ----------------------------
(***************************************************************************)
(* How a saved configuration reaches the running daemon: the admin routes  *)
(* (runtime/services/management) rewrite config.toml and request a reload  *)
(* of the channel surface; the daemon (platform/daemon/run.rs) polls the   *)
(* file's modification time and restarts its components; the channel       *)
(* surface (transport/channels/startup/listener.rs) loads the file itself  *)
(* when it starts and when a reload is requested; its supervisor           *)
(* (platform/daemon/supervisor.rs) restarts it when it fails.              *)
(*                                                                         *)
(* A configuration is the set of settings that are on.  Live reload is on. *)
(* Every configuration is taken to have a real-time channel: without one   *)
(* the daemon starts no channels component.                                *)
(***************************************************************************)
EXTENDS Naturals

CONSTANTS
    Admin,        \* admin requests, each of which changes one setting
    Setting,      \* settings that can be changed
    MaxEdits,     \* bound: edits of the file by hand
    MaxRestarts,  \* restarts before the supervisor gives up, 10 in the code
    MaxFailures   \* bound: how often init_channel_runtime fails

ASSUME ReloadAssumption == MaxRestarts \in Nat /\ MaxEdits \in Nat /\ MaxFailures \in Nat

\* What makes the file one that cannot be loaded.
Broken == "broken"
ASSUME BrokenAssumption == Broken \notin Setting

Config == SUBSET (Setting \cup {Broken})
Valid(c) == Broken \notin c

-----------------------------------------------------------------------------
VARIABLES
    file,      \* config.toml: its content and modification time
    clock,     \* time of the last write
    admin,     \* per admin request, how far it got
    draft,     \* per admin request, the file it loaded, then is about to install
    edits,     \* history: number of edits by hand

    daemon,    \* "boot", "baseline", "poll", "load" or "stop"
    active,    \* active_config, what the gateway and the scheduler run with
    seen,      \* last_config_modified_at
    candidate, \* the config loaded by the poll

    surface,   \* where the channels component is
    running,   \* the config the channel surface runs with
    picked,    \* the config it has loaded for its next generation
    reloads,   \* reload requests its receiver has not seen
    failures,  \* consecutive_failures of its supervisor
    mishaps,   \* history: failures of init_channel_runtime

    early,     \* history: the file changed before the daemon's baseline
    overtaken, \* history: a save replaced a file with a later modification time
    reverted   \* history: the file went back to what the daemon runs with, while
               \* the channel surface had loaded something else

adminVars == <<admin, draft>>
fileVars == <<file, clock, edits, early, overtaken, reverted>>
daemonVars == <<daemon, active, seen, candidate>>
surfaceVars == <<surface, running, picked, reloads, failures, mishaps>>
configVars == <<adminVars, fileVars, daemonVars, surfaceVars>>

SurfaceState ==
    { "off",        \* not spawned
      "load",       \* start_channels_with_mode loads the file
      "subscribe",  \* then subscribes to reload requests
      "init",       \* init_channel_runtime
      "run",        \* the loop of the surface, or its wait while it is idle
      "drain",      \* a config was loaded for a reload, the listeners stop
      "backoff",    \* the supervisor sleeps before it restarts the component
      "dead" }      \* the supervisor has given up

NoDraft == [content |-> {}, mtime |-> 0]

\* The CLI has loaded the config and calls run.
ConfigInit ==
    /\ file = [content |-> {}, mtime |-> 0] /\ clock = 0 /\ edits = 0
    /\ admin = [a \in Admin |-> "idle"] /\ draft = [a \in Admin |-> NoDraft]
    /\ daemon = "boot" /\ active = {} /\ seen = 0 /\ candidate = {}
    /\ surface = "off" /\ running = {} /\ picked = {}
    /\ reloads = 0 /\ failures = 0 /\ mishaps = 0
    /\ early = FALSE /\ overtaken = FALSE /\ reverted = FALSE

\* The config the channels component has loaded last, while it goes on with it.
HasLoaded == surface \in {"subscribe", "init", "run", "drain"}
Loaded == IF surface = "drain" THEN picked ELSE running

\* The file is replaced by a new one.
Replace(new) ==
    /\ file' = new
    /\ early' = (early \/ daemon \in {"boot", "baseline"})
    /\ overtaken' = (overtaken \/ new.mtime <= file.mtime)
    /\ reverted' = (reverted \/ (HasLoaded /\ new.content = active /\ Loaded # active))

-----------------------------------------------------------------------------
(* Admin requests: load_persisted_runtime_config, save (a temporary file    *)
(* and a rename), request_channel_surface_reload.                           *)

\* It fails if the file cannot be parsed; what save would refuse counts as that.
AdminLoads(a) ==
    /\ daemon # "boot"     \* the routes are served by a component
    /\ admin[a] = "idle"
    /\ admin' = [admin EXCEPT ![a] = IF Valid(file.content) THEN "loaded" ELSE "done"]
    /\ draft' = [draft EXCEPT ![a] = IF Valid(file.content) THEN file ELSE NoDraft]
    /\ UNCHANGED <<fileVars, daemonVars, surfaceVars>>

\* The config with a setting switched.
Switched(c, s) == IF s \in c THEN c \ {s} ELSE c \cup {s}

\* The temporary file is written; its modification time is now.
AdminWrites(a) ==
    /\ admin[a] = "loaded"
    /\ clock' = clock + 1
    /\ admin' = [admin EXCEPT ![a] = "written"]
    /\ \E s \in Setting :
          draft' = [draft EXCEPT ![a] = [content |-> Switched(draft[a].content, s),
                                         mtime |-> clock + 1]]
    /\ UNCHANGED <<file, edits, early, overtaken, reverted, daemonVars, surfaceVars>>

\* rename
AdminInstalls(a) ==
    /\ admin[a] = "written"
    /\ Replace(draft[a])
    /\ admin' = [admin EXCEPT ![a] = "installed"]
    /\ draft' = [draft EXCEPT ![a] = NoDraft]
    /\ UNCHANGED <<clock, edits, daemonVars, surfaceVars>>

\* Without a subscriber the request goes nowhere.
Subscribed == surface \in {"init", "run", "drain"}

AdminRequests(a) ==
    /\ admin[a] = "installed"
    /\ admin' = [admin EXCEPT ![a] = "done"]
    /\ reloads' = IF Subscribed THEN reloads + 1 ELSE reloads
    /\ UNCHANGED <<draft, fileVars, daemonVars, surface, running, picked, failures,
                   mishaps>>

\* The operator breaks the file, or repairs it.
HandEdit ==
    /\ edits < MaxEdits
    /\ edits' = edits + 1
    /\ clock' = clock + 1
    /\ Replace([content |-> IF Valid(file.content) THEN file.content \cup {Broken}
                                                   ELSE file.content \ {Broken},
                mtime |-> clock + 1])
    /\ UNCHANGED <<adminVars, daemonVars, surfaceVars>>

-----------------------------------------------------------------------------
(* The daemon.                                                             *)

\* spawn_supervised_components, with the channels component among them.
Spawn ==
    /\ surface' = "load"
    /\ failures' = 0
    /\ reloads' = 0
    /\ picked' = {}
    /\ UNCHANGED <<running, mishaps>>

DaemonSpawns ==
    /\ daemon = "boot"
    /\ daemon' = "baseline"
    /\ Spawn
    /\ UNCHANGED <<active, seen, candidate, adminVars, fileVars>>

DaemonBaseline ==
    /\ daemon = "baseline"
    /\ daemon' = "poll"
    /\ seen' = file.mtime
    /\ UNCHANGED <<active, candidate, adminVars, fileVars, surfaceVars>>

\* try_config_reload: the modification time is recorded before the file is read.
PollNotices ==
    /\ daemon = "poll"
    /\ file.mtime > seen
    /\ daemon' = "load"
    /\ seen' = file.mtime
    /\ UNCHANGED <<active, candidate, adminVars, fileVars, surfaceVars>>

\* Mutation: the time of the reload is recorded, not that of the file.
PollLoadsAndRecords ==
    /\ daemon = "load"
    /\ seen' = clock
    /\ IF Valid(file.content) /\ file.content # active
       THEN candidate' = file.content /\ daemon' = "stop"
       ELSE daemon' = "poll" /\ UNCHANGED candidate
    /\ UNCHANGED <<active, adminVars, fileVars, surfaceVars>>

\* The candidate is rejected, is no change, or is applied.  One whose proxy the
\* daemon cannot set, which the channel surface would run with, is left out.
PollLoads ==
    /\ daemon = "load"
    /\ IF Valid(file.content) /\ file.content # active
       THEN candidate' = file.content /\ daemon' = "stop"
       ELSE daemon' = "poll" /\ UNCHANGED candidate
    /\ UNCHANGED <<active, seen, adminVars, fileVars, surfaceVars>>

\* Mutation: a new baseline is taken for the new components.
DaemonRespawnsWithBaseline ==
    /\ daemon = "stop"
    /\ daemon' = "poll"
    /\ active' = candidate /\ candidate' = {}
    /\ seen' = file.mtime
    /\ Spawn
    /\ UNCHANGED <<adminVars, fileVars>>

\* The old components have stopped or were aborted; new ones are spawned.
DaemonRespawns ==
    /\ daemon = "stop"
    /\ daemon' = "poll"
    /\ active' = candidate /\ candidate' = {}
    /\ Spawn
    /\ UNCHANGED <<seen, adminVars, fileVars>>

-----------------------------------------------------------------------------
(* The channels component and its supervisor.                              *)

\* Mutation: no limit.
FailsForever ==
    /\ failures' = failures + 1
    /\ surface' = "backoff"

\* The component returns an error: the supervisor counts it and restarts it.
Fails ==
    /\ failures' = failures + 1
    /\ surface' = IF failures + 1 > MaxRestarts THEN "dead" ELSE "backoff"

SurfaceLoads ==
    /\ surface = "load"
    /\ IF Valid(file.content)
       THEN running' = file.content /\ surface' = "subscribe" /\ UNCHANGED failures
       ELSE Fails /\ UNCHANGED running
    /\ UNCHANGED <<picked, reloads, mishaps, adminVars, fileVars, daemonVars>>

\* A new subscription has no requests from before.
SurfaceSubscribes ==
    /\ surface = "subscribe"
    /\ surface' = "init"
    /\ reloads' = 0
    /\ UNCHANGED <<running, picked, failures, mishaps, adminVars, fileVars, daemonVars>>

SurfaceInits ==
    /\ surface = "init"
    /\ surface' = "run"
    /\ UNCHANGED <<running, picked, reloads, failures, mishaps, adminVars, fileVars,
                   daemonVars>>

\* The receiver is dropped with the failed component.
SurfaceInitFails ==
    /\ surface = "init"
    /\ mishaps < MaxFailures
    /\ mishaps' = mishaps + 1
    /\ reloads' = 0
    /\ Fails
    /\ UNCHANGED <<running, picked, adminVars, fileVars, daemonVars>>

SupervisorRestarts ==
    /\ surface = "backoff"
    /\ surface' = "load"
    /\ UNCHANGED <<running, picked, reloads, failures, mishaps, adminVars, fileVars,
                   daemonVars>>

\* Mutation: the file is parsed but not validated.
SurfaceReloadsUnvalidated ==
    /\ surface = "run"
    /\ reloads > 0
    /\ reloads' = reloads - 1
    /\ picked' = file.content /\ surface' = "drain"
    /\ UNCHANGED <<running, failures, mishaps, adminVars, fileVars, daemonVars>>

\* A reload request is received and the file is loaded; if it cannot be loaded,
\* the surface goes on with what it has, an idle one by starting over.
SurfaceReloads ==
    /\ surface = "run"
    /\ reloads > 0
    /\ reloads' = reloads - 1
    /\ IF Valid(file.content)
       THEN picked' = file.content /\ surface' = "drain"
       ELSE surface' \in {"run", "init"} /\ UNCHANGED picked
    /\ UNCHANGED <<running, failures, mishaps, adminVars, fileVars, daemonVars>>

\* The listeners are stopped, the requests made meanwhile are drained, and the
\* next generation starts with the config loaded before.
SurfaceDrains ==
    /\ surface = "drain"
    /\ surface' = "init"
    /\ running' = picked /\ picked' = {}
    /\ reloads' = 0
    /\ UNCHANGED <<failures, mishaps, adminVars, fileVars, daemonVars>>

-----------------------------------------------------------------------------
ConfigNext ==
    \/ \E a \in Admin : \/ AdminLoads(a) \/ AdminWrites(a)
                        \/ AdminInstalls(a) \/ AdminRequests(a)
    \/ HandEdit
    \/ DaemonSpawns
    \/ DaemonBaseline
    \/ PollNotices
    \/ PollLoads
    \/ DaemonRespawns
    \/ SurfaceLoads
    \/ SurfaceSubscribes
    \/ SurfaceInits
    \/ SurfaceInitFails
    \/ SupervisorRestarts
    \/ SurfaceReloads
    \/ SurfaceDrains

ConfigSpec == ConfigInit /\ [][ConfigNext]_configVars

\* The poll ticks every three seconds, tasks and timers make progress, and an
\* admin request that has begun is run to its end.
ConfigFairness ==
    /\ WF_configVars(DaemonSpawns) /\ WF_configVars(DaemonBaseline)
    /\ WF_configVars(PollNotices) /\ WF_configVars(PollLoads) /\ WF_configVars(DaemonRespawns)
    /\ WF_configVars(SurfaceLoads) /\ WF_configVars(SurfaceSubscribes)
    /\ WF_configVars(SurfaceInits) /\ WF_configVars(SupervisorRestarts)
    /\ WF_configVars(SurfaceReloads) /\ WF_configVars(SurfaceDrains)
    /\ \A a \in Admin : /\ WF_configVars(AdminWrites(a)) /\ WF_configVars(AdminInstalls(a))
                        /\ WF_configVars(AdminRequests(a))

ConfigFairSpec == ConfigSpec /\ ConfigFairness

-----------------------------------------------------------------------------
(* Properties.                                                             *)

ConfigTypeOK ==
    /\ clock \in Nat /\ edits \in 0 .. MaxEdits
    /\ file \in [content : Config, mtime : 0 .. clock]
    /\ admin \in [Admin -> {"idle", "loaded", "written", "installed", "done"}]
    /\ draft \in [Admin -> [content : Config, mtime : 0 .. clock]]
    /\ daemon \in {"boot", "baseline", "poll", "load", "stop"}
    /\ active \in Config /\ candidate \in Config /\ seen \in 0 .. clock
    /\ surface \in SurfaceState /\ (surface = "off" <=> daemon = "boot")
    /\ running \in Config /\ picked \in Config
    /\ reloads \in Nat
    /\ failures \in 0 .. MaxRestarts + 1
    /\ mishaps \in 0 .. MaxFailures
    /\ early \in BOOLEAN /\ overtaken \in BOOLEAN /\ reverted \in BOOLEAN

\* A file that cannot be loaded never reaches a component, be it by the poll, by
\* a reload request, by a restart, or by an admin request that saves what it
\* loaded: each path keeps the previous config instead.
OnlyValidRuns == Valid(active) /\ Valid(running)

\* Every component runs the config in the file; a channels component the
\* supervisor has given up stays down until another config is applied.
Settled == active = file.content /\ (running = file.content \/ surface = "dead")

\* What the poll relies on: it has a baseline older than every change, every
\* change has a later modification time than the one before, and none makes the
\* file again what the daemon runs with after the surface moved on alone.
Undisturbed == ~early /\ ~overtaken /\ ~reverted

\* A poll that would do nothing leaves nothing undone: the daemon runs what the
\* file says, and so does the channels component unless it is still to load it.
\* A reload request may be lost between the load and the drain, or made before
\* the subscription; the poll makes up for both, although it compares the file
\* with the daemon's config and never with the surface's.
NothingMissed ==
    Undisturbed /\ daemon = "poll" /\ file.mtime <= seen /\ Valid(file.content)
    => active = file.content /\ (HasLoaded => Loaded = file.content)

\* In the end everything runs what the file says.
EventuallySettled ==
    <>[](Undisturbed /\ Valid(file.content)) => <>[]Settled

\* management.rs: the daemon can apply the changes admin routes persist through
\* its live-reload loop.
AdminChangesApplied == <>[]~early => <>[](active = file.content)
=============================================================================
