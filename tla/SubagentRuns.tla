---------------------------- MODULE SubagentRuns ----------------------------
(***************************************************************************)
(* Delegation to subagents (core/subagents/runtime.rs, spawn_limits.rs,    *)
(* core/tools/delegate.rs, core/tools/subagent): an execution context, the *)
(* root context of a turn or the context of a subagent, calls the delegate *)
(* tool; the child runs inline, on the task of its caller, or as a run of  *)
(* the orchestrator with a task of its own, which can be cancelled.        *)
(*                                                                         *)
(* A call stands for the child it makes: for its run, the task of the run  *)
(* and the child's context.  A context uses one tool at a time.            *)
(***************************************************************************)
EXTENDS Naturals, FiniteSets

CONSTANTS
    Roots,              \* root contexts: turns of the agent
    RootEntity,         \* the entity each of them acts for
    Calls,              \* bound: the calls that may ever be made
    NoContext,          \* owner of a call not made yet
    RootQuota,          \* DEFAULT_ROOT_CHILD_DELEGATION_QUOTA, 4 in the code
    ChildQuota,         \* DEFAULT_SUBAGENT_CHILD_DELEGATION_QUOTA, 2
    MaxDelegationDepth, \* DEFAULT_MAX_DELEGATION_DEPTH, 2
    MaxDepth,           \* SpawnLimits::max_depth, 3
    MaxDescendants      \* SpawnLimits::max_descendants, 10

ASSUME SubagentAssumption ==
    /\ IsFiniteSet(Roots) /\ IsFiniteSet(Calls)
    /\ Roots \cap Calls = {}
    /\ NoContext \notin Roots \cup Calls
    /\ RootEntity \in [Roots -> {RootEntity[r] : r \in Roots}]
    /\ {RootEntity[r] : r \in Roots} \cap Calls = {}
    /\ {RootQuota, ChildQuota, MaxDelegationDepth, MaxDepth, MaxDescendants}
            \subseteq Nat

Contexts == Roots \cup Calls

-----------------------------------------------------------------------------
VARIABLES
    owner,     \* the context that made the call
    home,      \* the task the child executes on: a root turn or a run
    depth,     \* ctx.delegation_depth of the child
    remaining, \* ctx.remaining_child_delegations of every context
    pc,        \* how far the call is
    runs,      \* status of the orchestrator's entry, "absent" when there is none
    handle,    \* runs whose entry holds the handle of its task
    task,      \* the child's execution
    aborted    \* tasks that were told to stop

vars == <<owner, home, depth, remaining, pc, runs, handle, task, aborted>>

CallState ==
    { "unused",
      "options",   \* a slot is consumed, spawn_with_options is entered
      "checked",   \* check_spawn_allowed said yes
      "inserted",  \* the entry is in the run map
      "started",   \* tokio::spawn has returned
      "returned",  \* the tool returned the run id
      "inline",    \* the caller awaits the child
      "refused" }  \* the tool returned an error

Final == {"completed", "failed", "cancelled"}

TaskState ==
    { "none",
      "running",
      "finished",  \* execute_subagent_task returned, complete_run is next
      "ended",
      "dropped" }  \* stopped by an abort

\* The type invariant.
TypeOK ==
    /\ owner \in [Calls -> Contexts \cup {NoContext}]
    /\ home \in [Calls -> Contexts \cup {NoContext}]
    /\ depth \in [Calls -> Nat]
    /\ remaining \in [Contexts -> Nat]
    /\ pc \in [Calls -> CallState]
    /\ runs \in [Calls -> Final \cup {"absent", "running"}]
    /\ handle \subseteq Calls
    /\ task \in [Calls -> TaskState]
    /\ aborted \subseteq Calls

-----------------------------------------------------------------------------
(* Contexts and their identifiers *)

Quota(x) == IF x \in Roots THEN RootQuota ELSE ChildQuota
Depth(x) == IF x \in Roots THEN 0 ELSE depth[x]
Home(x) == IF x \in Roots THEN x ELSE home[x]

\* A subagent's entity id is a fresh "subagent:<uuid>", its run id another
\* "subagent_<uuid>".
EntityId(x) == IF x \in Roots THEN RootEntity[x] ELSE x
RunId(c) == <<"run", c>>

Entities == {EntityId(x) : x \in Contexts}

\* Between two awaits: the call of the tool has not returned yet.
Calling(x) ==
    \E c \in Calls : owner[c] = x /\ pc[c] \in {"options", "checked", "inserted", "started"}

Awaiting(x) == \E c \in Calls : owner[c] = x /\ pc[c] = "inline" /\ task[c] = "running"

\* The context is executing its tool loop, and may use a tool.  An abort that
\* falls between an await and the tool is one that falls after the tool.
Free(x) ==
    /\ x \in Calls => task[x] = "running"
    /\ Home(x) \notin aborted
    /\ ~ Calling(x) /\ ~ Awaiting(x)

-----------------------------------------------------------------------------
(* The spawn limits, over a lineage: nodes [agent, parent, depth] *)

\* What can be reached from x: the least set closed under the edges.
Below(edges, x) ==
    LET ends == {e[2] : e \in edges} IN
    { y \in ends :
        \A S \in SUBSET ends :
            (\A e \in edges : (e[1] = x \/ e[1] \in S) => e[2] \in S) => y \in S }

Children(lineage) == {<<n.parent, n.agent>> : n \in lineage}

\* Following the parents from x never ends.
HasCycle(x, lineage) ==
    \E S \in SUBSET {n.agent : n \in lineage} :
        x \in S /\ \A a \in S : \E n \in lineage : n.agent = a /\ n.parent \in S

\* Mutation: one run too many.
SpawnAllowedAtTheLimit(x, lineage) ==
    \E n \in lineage :
        /\ n.agent = x
        /\ n.depth + 1 <= MaxDepth
        /\ Cardinality(Below(Children(lineage), x)) <= MaxDescendants

\* check_spawn_allowed.
SpawnAllowed(x, lineage) ==
    \E n \in lineage :
        /\ n.agent = x
        /\ ~ HasCycle(x, lineage)
        /\ n.depth + 1 <= MaxDepth
        /\ Cardinality(Below(Children(lineage), x)) < MaxDescendants

\* Every run there ever was, under its run id and its parent's entity id, and
\* the parent itself when no run has that id.
LineageFor(x) ==
    LET nodes == { [agent |-> RunId(c), parent |-> EntityId(owner[c]), depth |-> depth[c]] :
                     c \in {d \in Calls : runs[d] # "absent"} }
    IN  IF \E n \in nodes : n.agent = x THEN nodes
        ELSE nodes \cup {[agent |-> x, parent |-> NoContext, depth |-> 0]}

-----------------------------------------------------------------------------
(* The calls *)

Init ==
    /\ owner = [c \in Calls |-> NoContext]
    /\ home = [c \in Calls |-> NoContext]
    /\ depth = [c \in Calls |-> 0]
    /\ remaining = [x \in Contexts |-> Quota(x)]
    /\ pc = [c \in Calls |-> "unused"]
    /\ runs = [c \in Calls |-> "absent"]
    /\ handle = {}
    /\ task = [c \in Calls |-> "none"]
    /\ aborted = {}

\* Mutation: a child one deeper than the limit.
BuildDelegationOptionsDeeper(x, c) ==
    /\ Free(x)
    /\ pc[c] = "unused"
    /\ Depth(x) <= MaxDelegationDepth
    /\ remaining[x] > 0
    /\ remaining' = [remaining EXCEPT ![x] = @ - 1]
    /\ owner' = [owner EXCEPT ![c] = x]
    /\ depth' = [depth EXCEPT ![c] = Depth(x) + 1]

\* build_delegation_options: the depth, then one slot of the caller's quota.
BuildDelegationOptions(x, c) ==
    /\ Free(x)
    /\ pc[c] = "unused"
    /\ Depth(x) < MaxDelegationDepth
    /\ remaining[x] > 0
    /\ remaining' = [remaining EXCEPT ![x] = @ - 1]
    /\ owner' = [owner EXCEPT ![c] = x]
    /\ depth' = [depth EXCEPT ![c] = Depth(x) + 1]

\* delegate, run_in_background: spawn_with_options is entered.
DelegateBackground(x, c) ==
    /\ BuildDelegationOptions(x, c)
    /\ home' = [home EXCEPT ![c] = c]
    /\ pc' = [pc EXCEPT ![c] = "options"]
    /\ UNCHANGED <<runs, handle, task, aborted>>

\* delegate, otherwise: run_inline_with_options, no entry in the run map.
DelegateInline(x, c) ==
    /\ BuildDelegationOptions(x, c)
    /\ home' = [home EXCEPT ![c] = Home(x)]
    /\ pc' = [pc EXCEPT ![c] = "inline"]
    /\ task' = [task EXCEPT ![c] = "running"]
    /\ UNCHANGED <<runs, handle, aborted>>

\* subagent_spawn goes to the process-wide orchestrator, which only tests
\* configure: the slot is gone and the tool fails in get_runtime.
SubagentSpawn(x, c) ==
    /\ BuildDelegationOptions(x, c)
    /\ pc' = [pc EXCEPT ![c] = "refused"]
    /\ UNCHANGED <<home, runs, handle, task, aborted>>

\* The first lock of spawn_with_options: a copy of the run map is checked.
CheckSpawn(c) ==
    LET parent == EntityId(owner[c]) IN
    /\ pc[c] = "options"
    /\ pc' = [pc EXCEPT ![c] =
                IF SpawnAllowed(parent, LineageFor(parent)) THEN "checked" ELSE "refused"]
    /\ UNCHANGED <<owner, home, depth, remaining, runs, handle, task, aborted>>

\* The second lock: the run is inserted, without a handle.
InsertRun(c) ==
    /\ pc[c] = "checked"
    /\ pc' = [pc EXCEPT ![c] = "inserted"]
    /\ runs' = [runs EXCEPT ![c] = "running"]
    /\ UNCHANGED <<owner, home, depth, remaining, handle, task, aborted>>

StartTask(c) ==
    /\ pc[c] = "inserted"
    /\ pc' = [pc EXCEPT ![c] = "started"]
    /\ task' = [task EXCEPT ![c] = "running"]
    /\ UNCHANGED <<owner, home, depth, remaining, runs, handle, aborted>>

\* The third lock: the handle is kept while the run is still running.
StoreHandle(c) ==
    /\ pc[c] = "started"
    /\ pc' = [pc EXCEPT ![c] = "returned"]
    /\ handle' = IF runs[c] = "running" THEN handle \cup {c} ELSE handle
    /\ UNCHANGED <<owner, home, depth, remaining, runs, task, aborted>>

-----------------------------------------------------------------------------
(* The children *)

\* execute_subagent_task returns an answer or an error.
ExecuteReturns(c) ==
    /\ Free(c)
    /\ task' = [task EXCEPT ![c] = IF pc[c] = "inline" THEN "ended" ELSE "finished"]
    /\ UNCHANGED <<owner, home, depth, remaining, pc, runs, handle, aborted>>

\* complete_run, which leaves a cancelled run alone.
CompleteRun(c) ==
    /\ task[c] = "finished"
    /\ task' = [task EXCEPT ![c] = "ended"]
    /\ \/ /\ runs[c] = "cancelled"
          /\ UNCHANGED <<runs, handle>>
       \/ /\ runs[c] # "cancelled"
          /\ \E status \in {"completed", "failed"} : runs' = [runs EXCEPT ![c] = status]
          /\ handle' = handle \ {c}
    /\ UNCHANGED <<owner, home, depth, remaining, pc, aborted>>

\* Mutation: the handle is dropped without an abort, which detaches the task.
CancelScopedDetaches(x, c) ==
    /\ Free(x)
    /\ runs[c] = "running"
    /\ EntityId(owner[c]) = EntityId(x)
    /\ runs' = [runs EXCEPT ![c] = "cancelled"]
    /\ handle' = handle \ {c}
    /\ UNCHANGED <<owner, home, depth, remaining, pc, task, aborted>>

\* cancel_scoped by a context with the parent's entity id; the handle, if it
\* is there already, is taken and aborted.
CancelScoped(x, c) ==
    /\ Free(x)
    /\ runs[c] = "running"
    /\ EntityId(owner[c]) = EntityId(x)
    /\ runs' = [runs EXCEPT ![c] = "cancelled"]
    /\ aborted' = IF c \in handle THEN aborted \cup {c} ELSE aborted
    /\ handle' = handle \ {c}
    /\ UNCHANGED <<owner, home, depth, remaining, pc, task>>

\* Mutation: inline children are spawned instead of awaited.
DropTaskAlone(c) ==
    /\ c \in aborted
    /\ task[c] = "running"
    /\ ~ Calling(c)
    /\ task' = [task EXCEPT ![c] = "dropped"]
    /\ UNCHANGED <<owner, home, depth, remaining, pc, runs, handle, aborted>>

\* An aborted task stops at its next await, with the children it runs inline.
DropTask(c) ==
    /\ c \in aborted
    /\ task[c] = "running"
    /\ \A d \in Calls : (home[d] = c /\ task[d] = "running") => ~ Calling(d)
    /\ task' = [d \in Calls |->
                  IF home[d] = c /\ task[d] = "running" THEN "dropped" ELSE task[d]]
    /\ UNCHANGED <<owner, home, depth, remaining, pc, runs, handle, aborted>>

-----------------------------------------------------------------------------
Next ==
    \/ \E x \in Contexts, c \in Calls :
          \/ DelegateBackground(x, c)
          \/ DelegateInline(x, c)
          \/ SubagentSpawn(x, c)
          \/ CancelScoped(x, c)
    \/ \E c \in Calls :
          \/ CheckSpawn(c)
          \/ InsertRun(c)
          \/ StartTask(c)
          \/ StoreHandle(c)
          \/ ExecuteReturns(c)
          \/ CompleteRun(c)
          \/ DropTask(c)

Spec == Init /\ [][Next]_vars

-----------------------------------------------------------------------------
(* Properties *)

RunsOf(e) == {c \in Calls : runs[c] # "absent" /\ EntityId(owner[c]) = e}
ContextsOf(e) == {x \in Contexts : EntityId(x) = e}

\* The quota and the depth bound the tree below every context, inline children
\* and refused calls included: no context has more children than its quota and
\* no child is deeper than max_delegation_depth (build_delegation_options).
DelegationBounded ==
    /\ \A x \in Contexts : Cardinality({c \in Calls : owner[c] = x}) <= Quota(x)
    /\ \A c \in Calls : depth[c] <= MaxDelegationDepth

\* The limit on descendants is checked on a copy of the run map and the run
\* inserted later, so that turns of one entity may pass the check together; the
\* runs of an entity exceed the limit by less than one per context of it.
OvershootBounded ==
    \A e \in Entities :
        Cardinality(RunsOf(e)) < MaxDescendants + Cardinality(ContextsOf(e))

\* A run that has ended keeps its status: complete_run does not overwrite a
\* cancel, nor a cancel the result, in whatever order the two come.
FinalStays ==
    [][\A c \in Calls : runs[c] \in Final => runs'[c] = runs[c]]_vars

\* Once the tool has returned the run id, a cancel of the running run aborts
\* its task: no completion, cancel or late store of the handle has lost it.
CancelAborts ==
    [][\A c \in Calls :
          (pc[c] = "returned" /\ runs[c] = "running" /\ runs'[c] = "cancelled")
              => c \in aborted']_vars

\* An aborted task takes the children it runs inline with it: none of them goes
\* on without the task it executes on (run_inline_with_options is awaited).
NoInlineOrphan ==
    \A c, d \in Calls :
        (task[d] = "running" /\ home[d] = c) => task[c] = "running"

\* spawn_limits.rs says of max_descendants: "Maximum total descendants across
\* all depths".  The code counts the runs whose parent is the entity itself,
\* since a subagent's entity id is never the run id of its lineage node.
DescendantsCapped ==
    LET made == {c \in Calls : runs[c] # "absent"}
        edges == {<<EntityId(owner[c]), EntityId(c)>> : c \in made}
    IN  \A r \in Roots : Cardinality(Below(edges, EntityId(r))) <= MaxDescendants
-----------------------------------------------------------------------------
(* The inductive invariant: how the parts of a call's state agree *)

Entered == {"options", "checked", "inserted", "started"}

\* An entry, a task and an owner are there from the call's respective step on.
CallsAgree ==
    \A c \in Calls :
        /\ owner[c] = NoContext <=> pc[c] = "unused"
        /\ runs[c] = "absent" <=> pc[c] \notin {"inserted", "started", "returned"}
        /\ task[c] = "none" <=> pc[c] \notin {"started", "returned", "inline"}
        /\ pc[c] = "inline" => task[c] # "finished"
        /\ owner[c] \in Calls => task[owner[c]] # "none"

\* A run's status against its task, its handle and the aborts.
RunsAgree ==
    \A c \in Calls :
        /\ task[c] = "finished" => runs[c] \in {"running", "cancelled"}
        /\ runs[c] = "running" => task[c] \in {"none", "running", "finished"}
        /\ runs[c] \in {"completed", "failed"} => task[c] = "ended"
        /\ c \in handle <=> runs[c] = "running" /\ pc[c] = "returned"
        /\ c \in aborted => runs[c] = "cancelled" /\ pc[c] = "returned"

\* A background child has a task of its own, an inline one its caller's, which
\* runs as long as the child does.
HomesAgree ==
    \A c \in Calls :
        /\ pc[c] = "unused" => home[c] = NoContext
        /\ pc[c] \in Entered \cup {"returned"} => home[c] = c
        /\ pc[c] = "inline" => home[c] = Home(owner[c])
        /\ home[c] \in Calls => home[home[c]] = home[c]
        /\ (pc[c] = "inline" /\ task[c] = "running" /\ owner[c] \in Calls)
                => task[owner[c]] = "running"

DepthsAgree ==
    \A c \in Calls :
        IF pc[c] = "unused" THEN depth[c] = 0
        ELSE depth[c] = Depth(owner[c]) + 1

OneCallEach ==
    \A c, d \in Calls :
        (owner[c] = owner[d] /\ pc[c] \in Entered /\ pc[d] \in Entered) => c = d

\* A slot of the quota is gone for every call made.
SlotsConserved ==
    \A x \in Contexts :
        remaining[x] + Cardinality({c \in Calls : owner[c] = x}) = Quota(x)

\* The calls of an entity that are past the check count as its runs.
ClaimsOf(e) == {c \in Calls :
                  /\ runs[c] # "absent" \/ pc[c] = "checked"
                  /\ EntityId(owner[c]) = e}

ClaimsBounded ==
    \A e \in Entities :
        Cardinality(ClaimsOf(e)) < MaxDescendants + Cardinality(ContextsOf(e))

IInv ==
    /\ TypeOK
    /\ CallsAgree
    /\ RunsAgree
    /\ HomesAgree
    /\ DepthsAgree
    /\ OneCallEach
    /\ SlotsConserved
    /\ ClaimsBounded
    /\ DelegationBounded
    /\ OvershootBounded
    /\ NoInlineOrphan
=============================================================================
