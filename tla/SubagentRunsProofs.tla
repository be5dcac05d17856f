------------------------- MODULE SubagentRunsProofs -------------------------
(***************************************************************************)
(* For every set of turns, every number of calls and all limits: IInv is   *)
(* an inductive invariant of SubagentRuns, and what its steps never do.    *)
(***************************************************************************)
EXTENDS SubagentRuns, FiniteSetTheorems, WellFoundedInduction, TLAPS

-----------------------------------------------------------------------------
(* Types.                                                                  *)

\* Quotas are natural numbers.
LEMMA QuotaType == \A x \in Contexts : Quota(x) \in Nat
BY SubagentAssumption DEF Quota

\* So are depths.
LEMMA DepthType == TypeOK => \A x \in Contexts : Depth(x) \in Nat
BY DEF TypeOK, Depth, Contexts

\* A context's home is a context, or nothing before the call is made.
LEMMA HomeType == TypeOK => \A x \in Contexts : Home(x) \in Contexts \cup {NoContext}
BY DEF TypeOK, Home, Contexts

\* The types hold at the start.
LEMMA InitType == Init => TypeOK
BY QuotaType DEF Init, TypeOK, CallState, TaskState

\* They are kept; remaining because a slot is only taken where one is left.
LEMMA StepType == TypeOK /\ [Next]_vars => TypeOK'
<1>. SUFFICES ASSUME TypeOK, [Next]_vars PROVE TypeOK'
  OBVIOUS
<1>. USE DEF TypeOK, CallState, TaskState, Final
<1>1. ASSUME NEW x \in Contexts, NEW c \in Calls, BuildDelegationOptions(x, c)
      PROVE  /\ owner' \in [Calls -> Contexts \cup {NoContext}]
             /\ depth' \in [Calls -> Nat]
             /\ remaining' \in [Contexts -> Nat]
  BY <1>1, DepthType DEF BuildDelegationOptions
<1>2. ASSUME NEW x \in Contexts, NEW c \in Calls, DelegateBackground(x, c)
      PROVE  TypeOK'
  BY <1>1, <1>2 DEF DelegateBackground, Contexts
<1>3. ASSUME NEW x \in Contexts, NEW c \in Calls, DelegateInline(x, c)
      PROVE  TypeOK'
  BY <1>1, <1>3, HomeType DEF DelegateInline
<1>4. ASSUME NEW x \in Contexts, NEW c \in Calls, SubagentSpawn(x, c)
      PROVE  TypeOK'
  BY <1>1, <1>4 DEF SubagentSpawn
<1>5. ASSUME NEW x \in Contexts, NEW c \in Calls, CancelScoped(x, c)
      PROVE  TypeOK'
  BY <1>5 DEF CancelScoped
<1>6. ASSUME NEW c \in Calls, CheckSpawn(c) PROVE TypeOK'
  BY <1>6 DEF CheckSpawn
<1>7. ASSUME NEW c \in Calls, InsertRun(c) PROVE TypeOK'
  BY <1>7 DEF InsertRun
<1>8. ASSUME NEW c \in Calls, StartTask(c) PROVE TypeOK'
  BY <1>8 DEF StartTask
<1>9. ASSUME NEW c \in Calls, StoreHandle(c) PROVE TypeOK'
  BY <1>9 DEF StoreHandle
<1>10. ASSUME NEW c \in Calls, ExecuteReturns(c) PROVE TypeOK'
  BY <1>10 DEF ExecuteReturns
<1>11. ASSUME NEW c \in Calls, CompleteRun(c) PROVE TypeOK'
  BY <1>11 DEF CompleteRun
<1>12. ASSUME NEW c \in Calls, DropTask(c) PROVE TypeOK'
  BY <1>12 DEF DropTask
<1>13. CASE UNCHANGED vars
  BY <1>13 DEF vars
<1>. QED
  BY <1>2, <1>3, <1>4, <1>5, <1>6, <1>7, <1>8, <1>9, <1>10, <1>11, <1>12, <1>13 DEF Next
-----------------------------------------------------------------------------
(* How the parts of a call's state agree.                                  *)

\* The call's entry, task and owner go with its steps.
LEMMA StepCalls == TypeOK /\ CallsAgree /\ RunsAgree /\ [Next]_vars => CallsAgree'
<1>. SUFFICES ASSUME TypeOK, CallsAgree, RunsAgree, [Next]_vars PROVE CallsAgree'
  OBVIOUS
<1>. USE SubagentAssumption DEF TypeOK, CallsAgree, RunsAgree, CallState, TaskState,
          Final, Contexts
<1>1. ASSUME NEW x \in Contexts, NEW c \in Calls, DelegateBackground(x, c) PROVE CallsAgree'
  BY <1>1 DEF DelegateBackground, BuildDelegationOptions, Free
<1>2. ASSUME NEW x \in Contexts, NEW c \in Calls, DelegateInline(x, c) PROVE CallsAgree'
  BY <1>2 DEF DelegateInline, BuildDelegationOptions, Free
<1>3. ASSUME NEW x \in Contexts, NEW c \in Calls, SubagentSpawn(x, c) PROVE CallsAgree'
  BY <1>3 DEF SubagentSpawn, BuildDelegationOptions, Free
<1>4. ASSUME NEW x \in Contexts, NEW c \in Calls, CancelScoped(x, c) PROVE CallsAgree'
  BY <1>4 DEF CancelScoped
<1>5. ASSUME NEW c \in Calls, CheckSpawn(c) PROVE CallsAgree'
  BY <1>5 DEF CheckSpawn
<1>6. ASSUME NEW c \in Calls, InsertRun(c) PROVE CallsAgree'
  BY <1>6 DEF InsertRun
<1>7. ASSUME NEW c \in Calls, StartTask(c) PROVE CallsAgree'
  BY <1>7 DEF StartTask
<1>8. ASSUME NEW c \in Calls, StoreHandle(c) PROVE CallsAgree'
  BY <1>8 DEF StoreHandle
<1>9. ASSUME NEW c \in Calls, ExecuteReturns(c) PROVE CallsAgree'
  BY <1>9 DEF ExecuteReturns, Free
<1>10. ASSUME NEW c \in Calls, CompleteRun(c) PROVE CallsAgree'
  BY <1>10 DEF CompleteRun
<1>11. ASSUME NEW c \in Calls, DropTask(c) PROVE CallsAgree'
  BY <1>11 DEF DropTask
<1>12. CASE UNCHANGED vars
  BY <1>12 DEF vars
<1>. QED
  BY <1>1, <1>2, <1>3, <1>4, <1>5, <1>6, <1>7, <1>8,
     <1>9, <1>10, <1>11, <1>12 DEF Next

\* A handle is there from the return of spawn to the end of the run.
LEMMA StepRuns ==
    TypeOK /\ CallsAgree /\ RunsAgree /\ HomesAgree /\ [Next]_vars
        => RunsAgree'
<1>. SUFFICES ASSUME TypeOK, CallsAgree, RunsAgree, HomesAgree, [Next]_vars
         PROVE RunsAgree'
  OBVIOUS
<1>. USE DEF TypeOK, CallsAgree, RunsAgree, CallState, TaskState, Final
<1>1. ASSUME NEW x \in Contexts, NEW c \in Calls, DelegateBackground(x, c) PROVE RunsAgree'
  BY <1>1 DEF DelegateBackground, BuildDelegationOptions
<1>2. ASSUME NEW x \in Contexts, NEW c \in Calls, DelegateInline(x, c) PROVE RunsAgree'
  BY <1>2 DEF DelegateInline, BuildDelegationOptions
<1>3. ASSUME NEW x \in Contexts, NEW c \in Calls, SubagentSpawn(x, c) PROVE RunsAgree'
  BY <1>3 DEF SubagentSpawn, BuildDelegationOptions
<1>4. ASSUME NEW x \in Contexts, NEW c \in Calls, CancelScoped(x, c) PROVE RunsAgree'
  BY <1>4 DEF CancelScoped
<1>5. ASSUME NEW c \in Calls, CheckSpawn(c) PROVE RunsAgree'
  BY <1>5 DEF CheckSpawn
<1>6. ASSUME NEW c \in Calls, InsertRun(c) PROVE RunsAgree'
  BY <1>6 DEF InsertRun
<1>7. ASSUME NEW c \in Calls, StartTask(c) PROVE RunsAgree'
  BY <1>7 DEF StartTask
<1>8. ASSUME NEW c \in Calls, StoreHandle(c) PROVE RunsAgree'
  BY <1>8 DEF StoreHandle
<1>9. ASSUME NEW c \in Calls, ExecuteReturns(c) PROVE RunsAgree'
  BY <1>9 DEF ExecuteReturns, Free
<1>10. ASSUME NEW c \in Calls, CompleteRun(c) PROVE RunsAgree'
  BY <1>10 DEF CompleteRun
<1>11. ASSUME NEW c \in Calls, DropTask(c) PROVE RunsAgree'
  BY <1>11 DEF DropTask, HomesAgree, Entered
<1>12. CASE UNCHANGED vars
  BY <1>12 DEF vars
<1>. QED
  BY <1>1, <1>2, <1>3, <1>4, <1>5, <1>6, <1>7, <1>8,
     <1>9, <1>10, <1>11, <1>12 DEF Next

\* A child runs on a task that runs.
LEMMA StepHomes ==
    TypeOK /\ CallsAgree /\ RunsAgree /\ HomesAgree /\ [Next]_vars
        => HomesAgree'
<1>. SUFFICES ASSUME TypeOK, CallsAgree, RunsAgree, HomesAgree, [Next]_vars
         PROVE HomesAgree'
  OBVIOUS
<1>. USE SubagentAssumption DEF TypeOK, CallsAgree, RunsAgree, HomesAgree, CallState,
          TaskState, Final, Contexts, Home, Entered
<1>1. ASSUME NEW x \in Contexts, NEW c \in Calls, DelegateBackground(x, c) PROVE HomesAgree'
  BY <1>1 DEF DelegateBackground, BuildDelegationOptions, Free
<1>2. ASSUME NEW x \in Contexts, NEW c \in Calls, DelegateInline(x, c) PROVE HomesAgree'
  BY <1>2 DEF DelegateInline, BuildDelegationOptions, Free
<1>3. ASSUME NEW x \in Contexts, NEW c \in Calls, SubagentSpawn(x, c) PROVE HomesAgree'
  BY <1>3 DEF SubagentSpawn, BuildDelegationOptions, Free
<1>4. ASSUME NEW x \in Contexts, NEW c \in Calls, CancelScoped(x, c) PROVE HomesAgree'
  BY <1>4 DEF CancelScoped
<1>5. ASSUME NEW c \in Calls, CheckSpawn(c) PROVE HomesAgree'
  BY <1>5 DEF CheckSpawn
<1>6. ASSUME NEW c \in Calls, InsertRun(c) PROVE HomesAgree'
  BY <1>6 DEF InsertRun
<1>7. ASSUME NEW c \in Calls, StartTask(c) PROVE HomesAgree'
  BY <1>7 DEF StartTask
<1>8. ASSUME NEW c \in Calls, StoreHandle(c) PROVE HomesAgree'
  BY <1>8 DEF StoreHandle
<1>9. ASSUME NEW c \in Calls, ExecuteReturns(c) PROVE HomesAgree'
  BY <1>9 DEF ExecuteReturns, Free, Awaiting
<1>10. ASSUME NEW c \in Calls, CompleteRun(c) PROVE HomesAgree'
  BY <1>10 DEF CompleteRun
<1>11. ASSUME NEW c \in Calls, DropTask(c) PROVE HomesAgree'
  BY <1>11 DEF DropTask
<1>12. CASE UNCHANGED vars
  BY <1>12 DEF vars
<1>. QED
  BY <1>1, <1>2, <1>3, <1>4, <1>5, <1>6, <1>7, <1>8,
     <1>9, <1>10, <1>11, <1>12 DEF Next

\* A child is one deeper than its caller.
LEMMA StepDepths == TypeOK /\ CallsAgree /\ DepthsAgree /\ [Next]_vars => DepthsAgree'
<1>. SUFFICES ASSUME TypeOK, CallsAgree, DepthsAgree, [Next]_vars PROVE DepthsAgree'
  OBVIOUS
<1>. USE SubagentAssumption DEF TypeOK, CallsAgree, DepthsAgree, CallState, TaskState,
          Final, Contexts, Depth
<1>1. ASSUME NEW x \in Contexts, NEW c \in Calls, DelegateBackground(x, c) PROVE DepthsAgree'
  BY <1>1 DEF DelegateBackground, BuildDelegationOptions, Free
<1>2. ASSUME NEW x \in Contexts, NEW c \in Calls, DelegateInline(x, c) PROVE DepthsAgree'
  BY <1>2 DEF DelegateInline, BuildDelegationOptions, Free
<1>3. ASSUME NEW x \in Contexts, NEW c \in Calls, SubagentSpawn(x, c) PROVE DepthsAgree'
  BY <1>3 DEF SubagentSpawn, BuildDelegationOptions, Free
<1>4. ASSUME NEW x \in Contexts, NEW c \in Calls, CancelScoped(x, c) PROVE DepthsAgree'
  BY <1>4 DEF CancelScoped
<1>5. ASSUME NEW c \in Calls, CheckSpawn(c) PROVE DepthsAgree'
  BY <1>5 DEF CheckSpawn
<1>6. ASSUME NEW c \in Calls, InsertRun(c) PROVE DepthsAgree'
  BY <1>6 DEF InsertRun
<1>7. ASSUME NEW c \in Calls, StartTask(c) PROVE DepthsAgree'
  BY <1>7 DEF StartTask
<1>8. ASSUME NEW c \in Calls, StoreHandle(c) PROVE DepthsAgree'
  BY <1>8 DEF StoreHandle
<1>9. ASSUME NEW c \in Calls, ExecuteReturns(c) PROVE DepthsAgree'
  BY <1>9 DEF ExecuteReturns
<1>10. ASSUME NEW c \in Calls, CompleteRun(c) PROVE DepthsAgree'
  BY <1>10 DEF CompleteRun
<1>11. ASSUME NEW c \in Calls, DropTask(c) PROVE DepthsAgree'
  BY <1>11 DEF DropTask
<1>12. CASE UNCHANGED vars
  BY <1>12 DEF vars
<1>. QED
  BY <1>1, <1>2, <1>3, <1>4, <1>5, <1>6, <1>7, <1>8,
     <1>9, <1>10, <1>11, <1>12 DEF Next

\* A context enters spawn_with_options once at a time.
LEMMA StepOneCall == TypeOK /\ CallsAgree /\ OneCallEach /\ [Next]_vars => OneCallEach'
<1>. SUFFICES ASSUME TypeOK, CallsAgree, OneCallEach, [Next]_vars PROVE OneCallEach'
  OBVIOUS
<1>. USE SubagentAssumption DEF TypeOK, CallsAgree, OneCallEach, CallState, Contexts,
          Entered
<1>1. ASSUME NEW x \in Contexts, NEW c \in Calls, DelegateBackground(x, c) PROVE OneCallEach'
  BY <1>1 DEF DelegateBackground, BuildDelegationOptions, Free, Calling
<1>2. ASSUME NEW x \in Contexts, NEW c \in Calls, DelegateInline(x, c) PROVE OneCallEach'
  BY <1>2 DEF DelegateInline, BuildDelegationOptions
<1>3. ASSUME NEW x \in Contexts, NEW c \in Calls, SubagentSpawn(x, c) PROVE OneCallEach'
  BY <1>3 DEF SubagentSpawn, BuildDelegationOptions
<1>4. ASSUME NEW x \in Contexts, NEW c \in Calls, CancelScoped(x, c) PROVE OneCallEach'
  BY <1>4 DEF CancelScoped
<1>5. ASSUME NEW c \in Calls, CheckSpawn(c) PROVE OneCallEach'
  BY <1>5 DEF CheckSpawn
<1>6. ASSUME NEW c \in Calls, InsertRun(c) PROVE OneCallEach'
  BY <1>6 DEF InsertRun
<1>7. ASSUME NEW c \in Calls, StartTask(c) PROVE OneCallEach'
  BY <1>7 DEF StartTask
<1>8. ASSUME NEW c \in Calls, StoreHandle(c) PROVE OneCallEach'
  BY <1>8 DEF StoreHandle
<1>9. ASSUME NEW c \in Calls, ExecuteReturns(c) PROVE OneCallEach'
  BY <1>9 DEF ExecuteReturns
<1>10. ASSUME NEW c \in Calls, CompleteRun(c) PROVE OneCallEach'
  BY <1>10 DEF CompleteRun
<1>11. ASSUME NEW c \in Calls, DropTask(c) PROVE OneCallEach'
  BY <1>11 DEF DropTask
<1>12. CASE UNCHANGED vars
  BY <1>12 DEF vars
<1>. QED
  BY <1>1, <1>2, <1>3, <1>4, <1>5, <1>6, <1>7, <1>8,
     <1>9, <1>10, <1>11, <1>12 DEF Next

-----------------------------------------------------------------------------
(* Tasks and the children that run on them.                                *)

\* The least-number principle.
LEMMA Least ==
    ASSUME NEW T \in SUBSET Nat, T # {}
    PROVE  \E n \in T : \A m \in T : ~ (m < n)
<1>. DEFINE R == {p \in Nat \X Nat : p[1] < p[2]}
<1>1. IsWellFoundedOn(R, Nat)
  BY NatLessThanWellFounded DEF OpToRel
<1>2. \A m, n \in Nat : m < n => <<m, n>> \in R
  OBVIOUS
<1>. HIDE DEF R
<1>3. PICK n \in T : \A m \in T : ~ (<<m, n>> \in R)
  BY <1>1, WFMin
<1>. QED BY <1>2, <1>3

\* A child that awaits no child of its own is the only one on its task that
\* runs: the least deep of the others would be a child it awaits.
LEMMA NothingBelow ==
    ASSUME TypeOK, CallsAgree, HomesAgree, DepthsAgree,
           NEW c \in Calls, ~ Awaiting(c),
           NEW d \in Calls, task[d] = "running", home[d] = c
    PROVE  d = c
<1>. DEFINE On == {e \in Calls : e # c /\ task[e] = "running" /\ home[e] = c}
            D == {depth[e] : e \in On}
<1>. SUFFICES ASSUME d # c PROVE FALSE
  OBVIOUS
<1>1. D \in SUBSET Nat /\ D # {}
  BY DEF TypeOK
<1>2. PICK n \in D : \A m \in D : ~ (m < n)
  BY <1>1, Least
<1>3. PICK e \in On : depth[e] = n
  OBVIOUS
<1>4. pc[e] = "inline"
  BY DEF TypeOK, CallsAgree, HomesAgree, Entered, CallState
<1>5. owner[e] \in Calls /\ home[owner[e]] = c /\ task[owner[e]] = "running"
  BY <1>4, SubagentAssumption DEF TypeOK, CallsAgree, HomesAgree, Home, Contexts
<1>6. owner[e] # c
  BY <1>4 DEF Awaiting
<1>7. depth[owner[e]] < depth[e]
  BY <1>4, <1>5, SubagentAssumption DEF TypeOK, DepthsAgree, Depth
<1>8. depth[owner[e]] \in D
  BY <1>5, <1>6
<1>. QED BY <1>2, <1>3, <1>7, <1>8

\* No child runs on a task that has stopped.
LEMMA StepOrphan ==
    TypeOK /\ CallsAgree /\ RunsAgree /\ HomesAgree /\ DepthsAgree /\ NoInlineOrphan
    /\ [Next]_vars
        => NoInlineOrphan'
<1>. SUFFICES ASSUME TypeOK, CallsAgree, RunsAgree, HomesAgree, DepthsAgree,
         NoInlineOrphan, [Next]_vars PROVE NoInlineOrphan'
  OBVIOUS
<1>. USE SubagentAssumption DEF TypeOK, NoInlineOrphan, CallState, TaskState, Contexts
<1>1. ASSUME NEW x \in Contexts, NEW c \in Calls, DelegateBackground(x, c) PROVE NoInlineOrphan'
  BY <1>1 DEF DelegateBackground, BuildDelegationOptions, Free, CallsAgree, HomesAgree
<1>2. ASSUME NEW x \in Contexts, NEW c \in Calls, DelegateInline(x, c) PROVE NoInlineOrphan'
  BY <1>2 DEF DelegateInline, BuildDelegationOptions, Free, CallsAgree, HomesAgree, Home
<1>3. ASSUME NEW x \in Contexts, NEW c \in Calls, SubagentSpawn(x, c) PROVE NoInlineOrphan'
  BY <1>3 DEF SubagentSpawn, BuildDelegationOptions, Free
<1>4. ASSUME NEW x \in Contexts, NEW c \in Calls, CancelScoped(x, c) PROVE NoInlineOrphan'
  BY <1>4 DEF CancelScoped
<1>5. ASSUME NEW c \in Calls, CheckSpawn(c) PROVE NoInlineOrphan'
  BY <1>5 DEF CheckSpawn
<1>6. ASSUME NEW c \in Calls, InsertRun(c) PROVE NoInlineOrphan'
  BY <1>6 DEF InsertRun
<1>7. ASSUME NEW c \in Calls, StartTask(c) PROVE NoInlineOrphan'
  BY <1>7 DEF StartTask, HomesAgree, Entered
<1>8. ASSUME NEW c \in Calls, StoreHandle(c) PROVE NoInlineOrphan'
  BY <1>8 DEF StoreHandle
<1>9. ASSUME NEW c \in Calls, ExecuteReturns(c) PROVE NoInlineOrphan'
  BY <1>9, NothingBelow DEF ExecuteReturns, Free
<1>10. ASSUME NEW c \in Calls, CompleteRun(c) PROVE NoInlineOrphan'
  BY <1>10 DEF CompleteRun
<1>11. ASSUME NEW c \in Calls, DropTask(c) PROVE NoInlineOrphan'
  BY <1>11 DEF DropTask, HomesAgree
<1>12. CASE UNCHANGED vars
  BY <1>12 DEF vars
<1>. QED
  BY <1>1, <1>2, <1>3, <1>4, <1>5, <1>6, <1>7, <1>8,
     <1>9, <1>10, <1>11, <1>12 DEF Next

-----------------------------------------------------------------------------
(* The quota and the depth.                                                *)

\* Every set of calls can be counted.
LEMMA CallsFinite == \A S \in SUBSET Calls : IsFiniteSet(S) /\ Cardinality(S) \in Nat
BY SubagentAssumption, FS_Subset, FS_CardinalityType

\* The call takes the slot it is counted against.
LEMMA SlotTaken ==
    ASSUME TypeOK, CallsAgree, SlotsConserved,
           NEW x \in Contexts, NEW c \in Calls, BuildDelegationOptions(x, c)
    PROVE  SlotsConserved'
<1>. SUFFICES ASSUME NEW y \in Contexts
              PROVE  remaining'[y] + Cardinality({d \in Calls : owner'[d] = y}) = Quota(y)
  BY DEF SlotsConserved, Quota
<1>. DEFINE before == {d \in Calls : owner[d] = y}
            after == {d \in Calls : owner'[d] = y}
<1>1. remaining[y] + Cardinality(before) = Quota(y) /\ remaining[y] \in Nat
  BY DEF SlotsConserved, TypeOK
<1>2. c \notin before
  BY SubagentAssumption DEF CallsAgree, BuildDelegationOptions, Contexts
<1>3. IsFiniteSet(before) /\ Cardinality(before) \in Nat
  BY CallsFinite
<1>4. CASE y = x
  <2>1. after = before \cup {c}
    BY <1>4 DEF BuildDelegationOptions, TypeOK
  <2>. HIDE DEF after, before
  <2>2. Cardinality(after) = Cardinality(before) + 1
    BY <2>1, <1>2, <1>3, FS_AddElement
  <2>3. remaining'[y] = remaining[y] - 1
    BY <1>4 DEF BuildDelegationOptions, TypeOK
  <2>. QED BY <2>2, <2>3, <1>1, <1>3, QuotaType DEF after
<1>5. CASE y # x
  <2>1. after = before /\ remaining'[y] = remaining[y]
    BY <1>2, <1>5 DEF BuildDelegationOptions, TypeOK
  <2>. QED BY <2>1, <1>1
<1>. QED BY <1>4, <1>5

\* A delegation takes one slot of its caller; nothing gives one back.
LEMMA StepSlots ==
    TypeOK /\ CallsAgree /\ SlotsConserved /\ [Next]_vars
        => SlotsConserved'
<1>. SUFFICES ASSUME TypeOK, CallsAgree, SlotsConserved, [Next]_vars
              PROVE  SlotsConserved'
  OBVIOUS
<1>1. CASE \E x \in Contexts, c \in Calls : BuildDelegationOptions(x, c)
  BY <1>1, SlotTaken
<1>2. CASE UNCHANGED <<owner, remaining>>
  BY <1>2 DEF SlotsConserved, Quota
<1>3. (\E x \in Contexts, c \in Calls : BuildDelegationOptions(x, c))
        \/ UNCHANGED <<owner, remaining>>
  BY DEF Next, vars, DelegateBackground, DelegateInline, SubagentSpawn, CancelScoped,
         CheckSpawn, InsertRun, StartTask, StoreHandle, ExecuteReturns, CompleteRun,
         DropTask
<1>. QED BY <1>1, <1>2, <1>3

\* Quota and depth bound the tree after a step, since slots and depths agree with it.
LEMMA StepDelegation ==
    TypeOK /\ TypeOK' /\ SlotsConserved' /\ DelegationBounded /\ [Next]_vars
        => DelegationBounded'
<1>. SUFFICES ASSUME TypeOK, TypeOK', SlotsConserved', DelegationBounded, [Next]_vars
              PROVE  DelegationBounded'
  OBVIOUS
<1>1. ASSUME NEW x \in Contexts
      PROVE  Cardinality({c \in Calls : owner'[c] = x}) <= Quota(x)
  <2>1. Cardinality({c \in Calls : owner'[c] = x}) \in Nat
    BY CallsFinite
  <2>2. remaining'[x] \in Nat
    BY DEF TypeOK
  <2>3. remaining'[x] + Cardinality({c \in Calls : owner'[c] = x}) = Quota(x)
    BY DEF SlotsConserved, Quota
  <2>. QED BY <2>1, <2>2, <2>3, QuotaType
<1>2. ASSUME NEW c \in Calls
      PROVE  depth'[c] <= MaxDelegationDepth
  <2>1. CASE \E x \in Contexts, d \in Calls : BuildDelegationOptions(x, d)
    BY <2>1, DepthType, SubagentAssumption DEF DelegationBounded, BuildDelegationOptions, TypeOK
  <2>2. CASE UNCHANGED depth
    BY <2>2 DEF DelegationBounded
  <2>3. (\E x \in Contexts, d \in Calls : BuildDelegationOptions(x, d)) \/ UNCHANGED depth
    BY DEF Next, vars, DelegateBackground, DelegateInline, SubagentSpawn, CancelScoped,
           CheckSpawn, InsertRun, StartTask, StoreHandle, ExecuteReturns, CompleteRun,
           DropTask
  <2>. QED BY <2>1, <2>2, <2>3
<1>. QED BY <1>1, <1>2 DEF DelegationBounded, Quota

-----------------------------------------------------------------------------
(* The limit on descendants.                                               *)

\* The check counts every run of the entity, under its run id.
LEMMA RunsCounted ==
    ASSUME TypeOK, NEW e \in Entities, SpawnAllowed(e, LineageFor(e))
    PROVE  Cardinality(RunsOf(e)) < MaxDescendants
<1>. DEFINE lineage == LineageFor(e)
            edges == Children(lineage)
            ids == {RunId(c) : c \in Calls}
            below == Below(edges, e)
            id == [c \in RunsOf(e) |-> RunId(c)]
<1>1. Cardinality(below) < MaxDescendants
  BY DEF SpawnAllowed
<1>2. IsFiniteSet(ids \cup {e})
  <2>1. [c \in Calls |-> RunId(c)] \in Surjection(Calls, ids)
    BY DEF Surjection
  <2>2. IsFiniteSet(ids)
    BY <2>1, FS_Surjection, SubagentAssumption
  <2>. QED BY <2>2, FS_AddElement
<1>3. \A p \in edges : p[2] \in ids \cup {e}
  BY DEF Children, LineageFor
<1>4. IsFiniteSet(below)
  <2>1. below \subseteq ids \cup {e}
    BY <1>3 DEF Below
  <2>. QED BY <1>2, <2>1, FS_Subset
<1>5. ASSUME NEW c \in RunsOf(e)
      PROVE  RunId(c) \in below
  <2>1. <<e, RunId(c)>> \in edges
    <3>1. [agent |-> RunId(c), parent |-> EntityId(owner[c]), depth |-> depth[c]] \in lineage
      BY DEF LineageFor, RunsOf
    <3>2. EntityId(owner[c]) = e
      BY DEF RunsOf
    <3>. HIDE DEF lineage
    <3>. QED BY <3>1, <3>2 DEF Children
  <2>. HIDE DEF edges
  <2>2. RunId(c) \in {p[2] : p \in edges}
    BY <2>1
  <2>3. ASSUME NEW S, \A p \in edges : (p[1] = e \/ p[1] \in S) => p[2] \in S
        PROVE  RunId(c) \in S
    BY <2>1, <2>3
  <2>. QED BY <2>2, <2>3 DEF Below
<1>6. id \in Injection(RunsOf(e), below)
  <2>1. id \in [RunsOf(e) -> below]
    BY <1>5
  <2>2. \A c, d \in RunsOf(e) : id[c] = id[d] => c = d
    BY DEF RunId
  <2>. HIDE DEF id, below
  <2>. QED BY <2>1, <2>2 DEF Injection, IsInjective
<1>. HIDE DEF below, id
<1>7. Cardinality(RunsOf(e)) <= Cardinality(below)
  BY <1>4, <1>6, FS_Injection
<1>8. Cardinality(RunsOf(e)) \in Nat /\ Cardinality(below) \in Nat
  BY <1>4, CallsFinite, FS_CardinalityType DEF RunsOf
<1>. QED BY <1>1, <1>7, <1>8, SubagentAssumption

\* The contexts of an entity can be counted.
LEMMA ContextsFinite ==
    \A e \in Entities : /\ IsFiniteSet(ContextsOf(e))
                        /\ Cardinality(ContextsOf(e)) \in Nat
                        /\ Cardinality(ContextsOf(e)) > 0
<1>. SUFFICES ASSUME NEW e \in Entities
              PROVE  /\ IsFiniteSet(ContextsOf(e))
                     /\ Cardinality(ContextsOf(e)) \in Nat
                     /\ Cardinality(ContextsOf(e)) > 0
  OBVIOUS
<1>1. IsFiniteSet(Contexts)
  BY SubagentAssumption, FS_Union DEF Contexts
<1>2. IsFiniteSet(ContextsOf(e))
  BY <1>1, FS_Subset DEF ContextsOf
<1>3. ContextsOf(e) # {}
  BY DEF Entities, ContextsOf
<1>. QED BY <1>2, <1>3, FS_CardinalityType, FS_EmptySet

\* The calls of an entity in spawn_with_options belong to different contexts.
LEMMA EnteredBounded ==
    ASSUME TypeOK, CallsAgree, OneCallEach, NEW e \in Entities
    PROVE  LET S == {c \in Calls : pc[c] \in Entered /\ EntityId(owner[c]) = e}
           IN  Cardinality(S) <= Cardinality(ContextsOf(e))
<1>. DEFINE S == {c \in Calls : pc[c] \in Entered /\ EntityId(owner[c]) = e}
            f == [c \in S |-> owner[c]]
<1>1. ASSUME NEW c \in S PROVE owner[c] \in ContextsOf(e)
  BY DEF TypeOK, CallsAgree, ContextsOf, Entered
<1>2. \A c, d \in S : f[c] = f[d] => c = d
  BY DEF OneCallEach
<1>3. f \in Injection(S, ContextsOf(e))
  <2>1. f \in [S -> ContextsOf(e)]
    BY <1>1
  <2>. HIDE DEF f, S
  <2>. QED BY <2>1, <1>2 DEF Injection, IsInjective
<1>. HIDE DEF f, S
<1>4. Cardinality(S) <= Cardinality(ContextsOf(e))
  BY <1>3, ContextsFinite, FS_Injection
<1>. QED BY <1>4 DEF S

\* A call that passes the check claims a place besides those of the runs and of
\* the other calls that passed it before.
LEMMA StepClaims ==
    TypeOK /\ CallsAgree /\ OneCallEach /\ ClaimsBounded /\ [Next]_vars => ClaimsBounded'
<1>. SUFFICES ASSUME TypeOK, CallsAgree, OneCallEach, ClaimsBounded, [Next]_vars,
                     NEW e \in Entities
              PROVE  Cardinality(ClaimsOf(e)') < MaxDescendants + Cardinality(ContextsOf(e))
  BY DEF ClaimsBounded, Entities, EntityId, ContextsOf
<1>1. CASE \E c \in Calls : /\ CheckSpawn(c) /\ EntityId(owner[c]) = e
                            /\ SpawnAllowed(e, LineageFor(e))
  <2>. DEFINE S == {d \in Calls : pc[d] \in Entered /\ EntityId(owner[d]) = e}
  <2>1. ClaimsOf(e)' \subseteq RunsOf(e) \cup S
    BY <1>1 DEF ClaimsOf, RunsOf, CheckSpawn, TypeOK, Entered, EntityId
  <2>2. Cardinality(RunsOf(e)) < MaxDescendants
    BY <1>1, RunsCounted
  <2>3. Cardinality(S) <= Cardinality(ContextsOf(e))
    BY EnteredBounded
  <2>4. /\ IsFiniteSet(RunsOf(e)) /\ Cardinality(RunsOf(e)) \in Nat
        /\ IsFiniteSet(S) /\ Cardinality(S) \in Nat
        /\ Cardinality(RunsOf(e) \cap S) \in Nat
        /\ IsFiniteSet(RunsOf(e) \cup S) /\ Cardinality(RunsOf(e) \cup S) \in Nat
        /\ Cardinality(ClaimsOf(e)') \in Nat
    BY CallsFinite DEF RunsOf, ClaimsOf
  <2>. HIDE DEF S
  <2>5. Cardinality(RunsOf(e) \cup S) <= Cardinality(RunsOf(e)) + Cardinality(S)
    <3>1. Cardinality(RunsOf(e) \cup S)
            = Cardinality(RunsOf(e)) + Cardinality(S) - Cardinality(RunsOf(e) \cap S)
      BY <2>4, FS_Union
    <3>. QED BY <2>4, <3>1
  <2>6. Cardinality(ClaimsOf(e)') <= Cardinality(RunsOf(e) \cup S)
    BY <2>1, <2>4, FS_Subset
  <2>. QED BY <2>2, <2>3, <2>4, <2>5, <2>6, ContextsFinite, SubagentAssumption
<1>2. CASE ClaimsOf(e)' = ClaimsOf(e)
  BY <1>2 DEF ClaimsBounded
<1>3. \/ \E c \in Calls : /\ CheckSpawn(c) /\ EntityId(owner[c]) = e
                          /\ SpawnAllowed(e, LineageFor(e))
      \/ ClaimsOf(e)' = ClaimsOf(e)
  <2>. SUFFICES ASSUME ~ \E c \in Calls : /\ CheckSpawn(c) /\ EntityId(owner[c]) = e
                                          /\ SpawnAllowed(e, LineageFor(e))
                PROVE  ClaimsOf(e)' = ClaimsOf(e)
    OBVIOUS
  <2>. USE DEF ClaimsOf, TypeOK, CallsAgree, EntityId
  <2>1. ASSUME NEW x \in Contexts, NEW c \in Calls, BuildDelegationOptions(x, c),
               UNCHANGED runs, pc' = [pc EXCEPT ![c] = pc'[c]], pc'[c] # "checked"
        PROVE  ClaimsOf(e)' = ClaimsOf(e)
    BY <2>1 DEF BuildDelegationOptions
  <2>2. ASSUME NEW x \in Contexts, NEW c \in Calls,
               DelegateBackground(x, c) \/ DelegateInline(x, c) \/ SubagentSpawn(x, c)
        PROVE  ClaimsOf(e)' = ClaimsOf(e)
    <3>1. /\ BuildDelegationOptions(x, c) /\ UNCHANGED runs
          /\ pc' = [pc EXCEPT ![c] = pc'[c]] /\ pc'[c] # "checked"
      BY <2>2 DEF DelegateBackground, DelegateInline, SubagentSpawn
    <3>. QED BY <3>1, <2>1
  <2>3. ASSUME NEW x \in Contexts, NEW c \in Calls, CancelScoped(x, c)
        PROVE  ClaimsOf(e)' = ClaimsOf(e)
    BY <2>3 DEF CancelScoped
  <2>4. ASSUME NEW c \in Calls, CheckSpawn(c) PROVE ClaimsOf(e)' = ClaimsOf(e)
    <3>. DEFINE parent == EntityId(owner[c])
    <3>1. parent = e => ~ SpawnAllowed(parent, LineageFor(parent))
      BY <2>4
    <3>. HIDE DEF parent
    <3>2. pc'[c] = "checked" => SpawnAllowed(parent, LineageFor(parent))
      BY <2>4, Zenon DEF CheckSpawn, parent
    <3>3. \A d \in Calls : d # c => pc'[d] = pc[d]
      BY <2>4 DEF CheckSpawn
    <3>4. pc[c] = "options" /\ UNCHANGED <<owner, runs>>
      BY <2>4 DEF CheckSpawn
    <3>5. pc'[c] = "checked" => parent # e
      BY <3>1, <3>2
    <3>. QED BY <3>3, <3>4, <3>5 DEF parent
  <2>5. ASSUME NEW c \in Calls, InsertRun(c) PROVE ClaimsOf(e)' = ClaimsOf(e)
    BY <2>5 DEF InsertRun
  <2>6. ASSUME NEW c \in Calls, StartTask(c) PROVE ClaimsOf(e)' = ClaimsOf(e)
    BY <2>6 DEF StartTask
  <2>7. ASSUME NEW c \in Calls, StoreHandle(c) PROVE ClaimsOf(e)' = ClaimsOf(e)
    BY <2>7 DEF StoreHandle
  <2>8. ASSUME NEW c \in Calls, CompleteRun(c) PROVE ClaimsOf(e)' = ClaimsOf(e)
    BY <2>8 DEF CompleteRun
  <2>9. CASE UNCHANGED <<owner, pc, runs>>
    BY <2>9
  <2>10. ASSUME NEW c \in Calls, ExecuteReturns(c) \/ DropTask(c)
         PROVE  UNCHANGED <<owner, pc, runs>>
    BY <2>10 DEF ExecuteReturns, DropTask
  <2>. QED
    BY <2>2, <2>3, <2>4, <2>5, <2>6, <2>7, <2>8, <2>9, <2>10 DEF Next, vars
<1>. QED BY <1>1, <1>2, <1>3

\* The runs of an entity are among its claims.
LEMMA ClaimsCoverRuns == ClaimsBounded => OvershootBounded
<1>. SUFFICES ASSUME ClaimsBounded, NEW e \in Entities
              PROVE  Cardinality(RunsOf(e)) < MaxDescendants + Cardinality(ContextsOf(e))
  BY DEF OvershootBounded
<1>1. IsFiniteSet(ClaimsOf(e)) /\ Cardinality(ClaimsOf(e)) \in Nat
  BY CallsFinite DEF ClaimsOf
<1>2. RunsOf(e) \in SUBSET ClaimsOf(e) /\ Cardinality(RunsOf(e)) \in Nat
  BY CallsFinite DEF ClaimsOf, RunsOf
<1>3. Cardinality(RunsOf(e)) <= Cardinality(ClaimsOf(e))
  BY <1>1, <1>2, FS_Subset
<1>. QED BY <1>1, <1>2, <1>3, ContextsFinite, SubagentAssumption DEF ClaimsBounded

-----------------------------------------------------------------------------
(* The theorems.                                                           *)

\* The invariant holds at the start.
LEMMA InitInv == Init => IInv
<1>. SUFFICES ASSUME Init PROVE IInv
  OBVIOUS
<1>1. TypeOK
  BY InitType
<1>2. CallsAgree /\ RunsAgree /\ HomesAgree /\ DepthsAgree /\ OneCallEach
  BY SubagentAssumption
     DEF Init, CallsAgree, RunsAgree, HomesAgree, DepthsAgree, OneCallEach, Entered
<1>3. \A x \in Contexts : {c \in Calls : owner[c] = x} = {}
  BY SubagentAssumption DEF Init, Contexts
<1>4. SlotsConserved
  BY <1>3, FS_EmptySet, QuotaType DEF Init, SlotsConserved
<1>5. DelegationBounded
  <2>1. \A x \in Contexts : Cardinality({c \in Calls : owner[c] = x}) <= Quota(x)
    BY <1>3, FS_EmptySet, QuotaType
  <2>2. \A c \in Calls : depth[c] <= MaxDelegationDepth
    BY SubagentAssumption DEF Init
  <2>. QED BY <2>1, <2>2 DEF DelegationBounded
<1>6. ClaimsBounded
  <2>1. \A e \in Entities : ClaimsOf(e) = {}
    BY DEF Init, ClaimsOf
  <2>. QED BY <2>1, FS_EmptySet, ContextsFinite, SubagentAssumption DEF ClaimsBounded
<1>7. NoInlineOrphan
  BY DEF Init, NoInlineOrphan
<1>. QED BY <1>1, <1>2, <1>4, <1>5, <1>6, <1>7, ClaimsCoverRuns DEF IInv

\* Every step keeps it.
LEMMA StepInv == IInv /\ [Next]_vars => IInv'
<1>. SUFFICES ASSUME IInv, [Next]_vars PROVE IInv'
  OBVIOUS
<1>. USE DEF IInv
<1>1. TypeOK' /\ CallsAgree' /\ RunsAgree' /\ HomesAgree' /\ DepthsAgree' /\ OneCallEach'
  BY StepType, StepCalls, StepRuns, StepHomes, StepDepths, StepOneCall
<1>2. SlotsConserved'
  BY StepSlots
<1>3. DelegationBounded'
  BY <1>1, <1>2, StepDelegation
<1>4. ClaimsBounded'
  BY StepClaims
<1>5. OvershootBounded'
  BY <1>4, ClaimsCoverRuns, PTL
<1>6. NoInlineOrphan'
  BY StepOrphan
<1>. QED BY <1>1, <1>2, <1>3, <1>4, <1>5, <1>6

\* IInv holds in every reachable state.
THEOREM InvariantHolds == Spec => []IInv
BY InitInv, StepInv, PTL DEF Spec

\* Types.
THEOREM TypeCorrect == Spec => []TypeOK
<1>1. IInv => TypeOK
  BY DEF IInv
<1>. QED BY <1>1, InvariantHolds, PTL

\* No context has more children than its quota and none is too deep.
THEOREM DelegationIsBounded == Spec => []DelegationBounded
<1>1. IInv => DelegationBounded
  BY DEF IInv
<1>. QED BY <1>1, InvariantHolds, PTL

\* Racing turns exceed the limit on descendants by less than their number.
THEOREM OvershootIsBounded == Spec => []OvershootBounded
<1>1. IInv => OvershootBounded
  BY DEF IInv
<1>. QED BY <1>1, InvariantHolds, PTL

\* No inline child goes on without the task it executes on.
THEOREM InlineChildrenStop == Spec => []NoInlineOrphan
<1>1. IInv => NoInlineOrphan
  BY DEF IInv
<1>. QED BY <1>1, InvariantHolds, PTL

\* Once a run has ended its status stays.
THEOREM StatusIsFinal == Spec => FinalStays
<1>1. IInv /\ [Next]_vars => [\A c \in Calls : runs[c] \in Final => runs'[c] = runs[c]]_vars
  <2>. SUFFICES ASSUME IInv, Next, NEW c \in Calls, runs[c] \in Final
                PROVE  runs'[c] = runs[c]
    OBVIOUS
  <2>. USE DEF IInv, TypeOK, CallsAgree, RunsAgree, Final
  <2>1. ASSUME NEW d \in Calls, InsertRun(d) PROVE runs'[c] = runs[c]
    BY <2>1 DEF InsertRun
  <2>2. ASSUME NEW d \in Calls, CompleteRun(d) PROVE runs'[c] = runs[c]
    BY <2>2 DEF CompleteRun
  <2>3. ASSUME NEW x \in Contexts, NEW d \in Calls, CancelScoped(x, d)
        PROVE  runs'[c] = runs[c]
    BY <2>3 DEF CancelScoped
  <2>4. \/ UNCHANGED runs
        \/ \E d \in Calls : InsertRun(d) \/ CompleteRun(d)
        \/ \E x \in Contexts, d \in Calls : CancelScoped(x, d)
    BY DEF Next, DelegateBackground, DelegateInline, SubagentSpawn, CheckSpawn, StartTask,
           StoreHandle, ExecuteReturns, DropTask
  <2>. QED BY <2>1, <2>2, <2>3, <2>4
<1>. QED BY <1>1, InvariantHolds, PTL DEF Spec, FinalStays

\* A cancel of a running run whose id was returned aborts its task.
THEOREM CancelReachesTask == Spec => CancelAborts
<1>. DEFINE A == \A c \in Calls :
                    (pc[c] = "returned" /\ runs[c] = "running" /\ runs'[c] = "cancelled")
                        => c \in aborted'
<1>1. IInv /\ [Next]_vars => [A]_vars
  <2>. SUFFICES ASSUME IInv, Next, NEW c \in Calls,
                       pc[c] = "returned", runs[c] = "running", runs'[c] = "cancelled"
                PROVE  c \in aborted'
    OBVIOUS
  <2>. USE DEF IInv, TypeOK, RunsAgree, Final
  <2>1. ASSUME NEW x \in Contexts, NEW d \in Calls, CancelScoped(x, d)
        PROVE  c \in aborted'
    BY <2>1 DEF CancelScoped
  <2>2. (\E x \in Contexts, d \in Calls : CancelScoped(x, d)) \/ runs'[c] # "cancelled"
    <3>1. ASSUME NEW d \in Calls, InsertRun(d) PROVE runs'[c] # "cancelled"
      BY <3>1 DEF InsertRun
    <3>2. ASSUME NEW d \in Calls, CompleteRun(d) PROVE runs'[c] # "cancelled"
      BY <3>2 DEF CompleteRun
    <3>3. \/ UNCHANGED runs
          \/ \E d \in Calls : InsertRun(d) \/ CompleteRun(d)
          \/ \E x \in Contexts, d \in Calls : CancelScoped(x, d)
      BY DEF Next, DelegateBackground, DelegateInline, SubagentSpawn, CheckSpawn, StartTask,
             StoreHandle, ExecuteReturns, DropTask
    <3>. QED BY <3>1, <3>2, <3>3
  <2>. QED BY <2>1, <2>2
<1>. QED BY <1>1, InvariantHolds, PTL DEF Spec, CancelAborts

=============================================================================
