--------------------------- MODULE OAuthRecovery ---------------------------
(***************************************************************************)
(* Recovery of a provider whose token has expired                          *)
(* (core/providers/oauth_recovery.rs).  A process has several instances of *)
(* the wrapper: one of each surface, one of every auxiliary model          *)
(* (runtime/services/provider_factory.rs).  Each has its own inner         *)
(* provider, made with a token, its own gate, revision and cooldown.  They *)
(* share the auth profile store, a file (security/auth/store.rs).          *)
(*                                                                         *)
(* A request that fails for its token runs the recover hook                *)
(* (security/auth/broker.rs), which imports the credential the vendor's    *)
(* command line tool has cached and saves it to the store, and then the    *)
(* rebuild hook (core/providers/factory.rs), which reads it from there.    *)
(*                                                                         *)
(* Tokens, access and refresh token together, are numbered in the order    *)
(* they are issued.  The vendor takes one at a time.  Errors that are not  *)
(* about the token pass through unchanged and are left out, and so is time *)
(* but for the end of a cooldown.                                          *)
(***************************************************************************)
EXTENDS Naturals

CONSTANTS
    Wrapper,      \* the instances
    Request,      \* tasks that use one of them, again and again
    Via,          \* [Request -> Wrapper]
    MaxToken,     \* bound: tokens issued
    MaxMishaps    \* bound: failing hooks and requests that are dropped

-----------------------------------------------------------------------------
VARIABLES
    inner,      \* per instance, the token its provider was made with
    revision,   \* provider_revision
    cooling,    \* the instances whose last_failed_at is within the cooldown
    store,      \* the token in the profile store
    cached,     \* the token in the tool's cache; 0 when there is none
    valid,      \* the token the vendor takes, or will issue next
    at,         \* per request, where it is
    observed,   \* the revision it has read
    token,      \* the token it has called with
    loaded,     \* the store as its hook has loaded it
    fresh,      \* the token its hook has imported or rebuilt with
    gone,       \* requests that were dropped while the hook ran: the hook runs on
    mishaps

instanceVars == <<inner, revision, cooling>>
worldVars == <<store, cached, valid>>
requestVars == <<at, observed, token, loaded, fresh, gone>>
vars == <<instanceVars, worldVars, requestVars, mishaps>>

Hook == {"load", "import", "save"}
Recovering == Hook \cup {"rebuild", "install", "publish"}

\* recovery_gate
HasGate(r) == at[r] \in Recovering /\ r \notin gone

Init ==
    /\ inner = [i \in Wrapper |-> 1] /\ revision = [i \in Wrapper |-> 0]
    /\ cooling = {}
    /\ store = 1 /\ cached \in {0, 1} /\ valid = 1
    /\ at = [r \in Request |-> "idle"]
    /\ observed = [r \in Request |-> 0] /\ token = [r \in Request |-> 0]
    /\ loaded = [r \in Request |-> 0] /\ fresh = [r \in Request |-> 0]
    /\ gone = {} /\ mishaps = 0

Mishap == mishaps < MaxMishaps /\ mishaps' = mishaps + 1

Go(r, step) == at' = [at EXCEPT ![r] = step]
Fresh(r, t) == fresh' = [fresh EXCEPT ![r] = t]

-----------------------------------------------------------------------------
(* A request.                                                              *)

\* The revision is read before the provider is cloned.
Observe(r) ==
    /\ at[r] = "idle"
    /\ observed' = [observed EXCEPT ![r] = revision[Via[r]]]
    /\ Go(r, "observed")
    /\ UNCHANGED <<instanceVars, worldVars, token, loaded, fresh, gone, mishaps>>

Call(r) ==
    /\ at[r] = "observed"
    /\ token' = [token EXCEPT ![r] = inner[Via[r]]]
    /\ Go(r, "called")
    /\ UNCHANGED <<instanceVars, worldVars, observed, loaded, fresh, gone, mishaps>>

\* The vendor answers; is_auth_error.
Answered(r) ==
    /\ at[r] = "called"
    /\ IF token[r] = valid THEN Go(r, "idle") ELSE Go(r, "waiting")
    /\ UNCHANGED <<instanceVars, worldVars, observed, token, loaded, fresh, gone, mishaps>>

\* attempt_recovery has the gate.  It returns at once when another task has
\* rebuilt the provider, or during a cooldown.
Enter(r) ==
    /\ at[r] = "waiting"
    /\ \A q \in Request : HasGate(q) => Via[q] # Via[r]
    /\ Go(r, IF revision[Via[r]] # observed[r] THEN "retry"
             ELSE IF Via[r] \in cooling THEN "idle" ELSE "load")
    /\ UNCHANGED <<instanceVars, worldVars, observed, token, loaded, fresh, gone, mishaps>>

\* The second call; whatever comes of it is the answer.
Retry(r) ==
    /\ at[r] = "retry"
    /\ Go(r, "idle")
    /\ UNCHANGED <<instanceVars, worldVars, observed, token, loaded, fresh, gone, mishaps>>

-----------------------------------------------------------------------------
(* The hooks, on threads of their own.                                     *)

\* recover_oauth_profile_for_provider: the store is loaded, ...
HookLoads(r) ==
    /\ at[r] = "load"
    /\ loaded' = [loaded EXCEPT ![r] = store]
    /\ Go(r, "import")
    /\ UNCHANGED <<instanceVars, worldVars, observed, token, fresh, gone, mishaps>>

\* The hook returned false: the cooldown begins.
Unrecovered(r) ==
    /\ Go(r, "idle")
    /\ cooling' = IF r \in gone THEN cooling ELSE cooling \cup {Via[r]}
    /\ gone' = gone \ {r}

\* ... the cached credential imported, if there is one, ...
HookImports(r) ==
    /\ at[r] = "import"
    /\ IF cached = 0
         THEN Unrecovered(r) /\ UNCHANGED fresh      \* Skipped
         ELSE Fresh(r, cached) /\ Go(r, "save") /\ UNCHANGED <<cooling, gone>>
    /\ UNCHANGED <<inner, revision, worldVars, observed, token, loaded, mishaps>>

\* ... and the store saved.  Only a token other than the one that was loaded
\* counts as recovered.
HookSaves(r) ==
    /\ at[r] = "save"
    /\ store' = fresh[r]
    /\ IF fresh[r] # loaded[r] /\ r \notin gone
         THEN Go(r, "rebuild") /\ UNCHANGED <<cooling, gone>>
         ELSE Unrecovered(r)
    /\ UNCHANGED <<inner, revision, cached, valid, observed, token, loaded, fresh, mishaps>>

\* The rebuild hook reads the store.
Rebuild(r) ==
    /\ at[r] = "rebuild"
    /\ Fresh(r, store)
    /\ Go(r, "install")
    /\ UNCHANGED <<instanceVars, worldVars, observed, token, loaded, gone, mishaps>>

\* An error of either hook leaves the cooldown alone.  Only a panic would start
\* it, and a release build aborts on a panic.
HookFails(r) ==
    /\ at[r] \in Hook \cup {"rebuild"}
    /\ Mishap
    /\ Go(r, "idle")
    /\ gone' = gone \ {r}
    /\ UNCHANGED <<instanceVars, worldVars, observed, token, loaded, fresh>>

\* The provider is replaced, then its revision raised; the gate is released.
Install(r) ==
    /\ at[r] = "install"
    /\ inner' = [inner EXCEPT ![Via[r]] = fresh[r]]
    /\ Go(r, "publish")
    /\ UNCHANGED <<revision, cooling, worldVars, observed, token, loaded, fresh, gone, mishaps>>

Publish(r) ==
    /\ at[r] = "publish"
    /\ revision' = [revision EXCEPT ![Via[r]] = @ + 1]
    /\ cooling' = cooling \ {Via[r]}
    /\ Go(r, "retry")
    /\ UNCHANGED <<inner, worldVars, observed, token, loaded, fresh, gone, mishaps>>

\* The caller drops the request at an await: its turn is cancelled.  A hook that
\* has begun runs to its end; what it returns is lost.
Dropped(r) ==
    /\ at[r] \notin {"idle", "publish"} /\ r \notin gone
    /\ Mishap
    /\ IF at[r] \in Hook THEN gone' = gone \cup {r} /\ UNCHANGED at
                         ELSE Go(r, "idle") /\ UNCHANGED gone
    /\ UNCHANGED <<instanceVars, worldVars, observed, token, loaded, fresh>>

-----------------------------------------------------------------------------
(* The world.                                                              *)

CooldownEnds(i) ==
    /\ i \in cooling
    /\ cooling' = cooling \ {i}
    /\ UNCHANGED <<inner, revision, worldVars, requestVars, mishaps>>

\* The vendor takes the token no more.
Expires ==
    /\ valid < MaxToken
    /\ valid' = valid + 1
    /\ UNCHANGED <<instanceVars, store, cached, requestVars, mishaps>>

\* The tool renews its credential, by itself or at a login.
Renew ==
    /\ cached' = valid
    /\ UNCHANGED <<instanceVars, store, valid, requestVars, mishaps>>

\* handle_oauth_login (cli/auth_handler.rs): the operator has it imported.
Login ==
    /\ cached # 0
    /\ store' = cached
    /\ UNCHANGED <<instanceVars, cached, valid, requestVars, mishaps>>

RequestNext(r) ==
    \/ Observe(r) \/ Call(r) \/ Answered(r) \/ Enter(r) \/ Retry(r)
    \/ HookLoads(r) \/ HookImports(r) \/ HookSaves(r) \/ Rebuild(r)
    \/ Install(r) \/ Publish(r)

Next ==
    \/ \E r \in Request : RequestNext(r) \/ HookFails(r) \/ Dropped(r)
    \/ \E i \in Wrapper : CooldownEnds(i)
    \/ Expires \/ Renew \/ Login

Spec == Init /\ [][Next]_vars

\* Requests keep coming and go on, waiters of the gate are served in turn, and
\* cooldowns end.
FairSpec ==
    /\ Spec
    /\ \A r \in Request : WF_vars(RequestNext(r)) /\ SF_vars(Enter(r))
    /\ \A i \in Wrapper : WF_vars(CooldownEnds(i))

-----------------------------------------------------------------------------
(* Properties.                                                             *)

Steps == Recovering \cup {"idle", "observed", "called", "waiting", "retry"}

TypeOK ==
    /\ inner \in [Wrapper -> Nat] /\ revision \in [Wrapper -> Nat]
    /\ cooling \subseteq Wrapper
    /\ store \in Nat /\ cached \in Nat /\ valid \in Nat
    /\ at \in [Request -> Steps]
    /\ observed \in [Request -> Nat] /\ token \in [Request -> Nat]
    /\ loaded \in [Request -> Nat] /\ fresh \in [Request -> Nat]
    /\ gone \subseteq {r \in Request : at[r] \in Hook}
    /\ mishaps \in Nat

\* One recovery serves all requests that failed with the same provider: whoever
\* runs the hooks has failed with the provider that is still installed, however
\* reads of the revision, calls, replacements and dropped requests interleave.
OneRecoveryEach ==
    \A r \in Request :
      at[r] \in Hook \cup {"rebuild", "install"} /\ r \notin gone
         => token[r] = inner[Via[r]]

\* An instance in use whose token has expired comes to use the good one that the
\* store has.
StaleTokenReplaced ==
    \A i \in Wrapper :
      store = valid /\ inner[i] # valid ~> inner[i] = valid \/ store # valid
=============================================================================
