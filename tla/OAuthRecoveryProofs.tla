------------------------ MODULE OAuthRecoveryProofs ------------------------
(***************************************************************************)
(* One recovery serves all requests that failed with the same provider,    *)
(* for any instances, requests and number of mishaps.                      *)
(***************************************************************************)
EXTENDS OAuthRecovery, TLAPS

\* The gate of an instance has one holder.
OneHolder ==
    \A r, q \in Request : HasGate(r) /\ HasGate(q) /\ Via[r] = Via[q] => r = q

\* Revisions only rise.
Behind == \A r \in Request : observed[r] <= revision[Via[r]]

Replacing(i) == \E q \in Request : at[q] = "publish" /\ Via[q] = i

\* Who has read the present revision has called the present provider, unless that
\* one is being replaced.
Faithful ==
    \A r \in Request :
      at[r] \in {"called", "waiting"} /\ observed[r] = revision[Via[r]]
         => token[r] = inner[Via[r]] \/ Replacing(Via[r])

IInv == TypeOK /\ OneHolder /\ Behind /\ Faithful /\ OneRecoveryEach

ViaTyped == Via \in [Request -> Wrapper]

-----------------------------------------------------------------------------
\* Each conjunct holds at first.
LEMMA InitInv == ASSUME ViaTyped, Init PROVE IInv
BY DEF Init, ViaTyped, IInv, TypeOK, OneHolder, Behind, Faithful, OneRecoveryEach, HasGate,
       Recovering, Hook, Steps

\* Every step keeps the types.
LEMMA StepType == ASSUME ViaTyped, TypeOK, [Next]_vars PROVE TypeOK'
<1>. USE DEF TypeOK, ViaTyped, Go, Fresh, worldVars, instanceVars, requestVars, Mishap
<1>1. ASSUME NEW r \in Request, Observe(r) PROVE TypeOK'
  BY <1>1 DEF Observe, Steps, Recovering, Hook
<1>2. ASSUME NEW r \in Request, Call(r) PROVE TypeOK'
  BY <1>2 DEF Call, Steps, Recovering, Hook
<1>3. ASSUME NEW r \in Request, Answered(r) PROVE TypeOK'
  BY <1>3 DEF Answered, Steps, Recovering, Hook
<1>4. ASSUME NEW r \in Request, Enter(r) PROVE TypeOK'
  BY <1>4 DEF Enter, Steps, Recovering, Hook
<1>5. ASSUME NEW r \in Request, Retry(r) PROVE TypeOK'
  BY <1>5 DEF Retry, Steps, Recovering, Hook
<1>6. ASSUME NEW r \in Request, HookLoads(r) PROVE TypeOK'
  BY <1>6 DEF HookLoads, Steps, Recovering, Hook
<1>7. ASSUME NEW r \in Request, HookImports(r) PROVE TypeOK'
  BY <1>7 DEF HookImports, Unrecovered, Steps, Recovering, Hook
<1>8. ASSUME NEW r \in Request, HookSaves(r) PROVE TypeOK'
  BY <1>8 DEF HookSaves, Unrecovered, Steps, Recovering, Hook
<1>9. ASSUME NEW r \in Request, Rebuild(r) PROVE TypeOK'
  BY <1>9 DEF Rebuild, Steps, Recovering, Hook
<1>10. ASSUME NEW r \in Request, Install(r) PROVE TypeOK'
  BY <1>10 DEF Install, Steps, Recovering, Hook
<1>11. ASSUME NEW r \in Request, Publish(r) PROVE TypeOK'
  BY <1>11 DEF Publish, Steps, Recovering, Hook
<1>12. ASSUME NEW r \in Request, HookFails(r) PROVE TypeOK'
  BY <1>12 DEF HookFails, Steps, Recovering, Hook
<1>13. ASSUME NEW r \in Request, Dropped(r) PROVE TypeOK'
  BY <1>13 DEF Dropped, Steps, Recovering, Hook
<1>14. CASE UNCHANGED vars
  BY <1>14 DEF vars
<1>15. ASSUME NEW i \in Wrapper, CooldownEnds(i) PROVE TypeOK'
  BY <1>15 DEF CooldownEnds
<1>16. CASE Expires \/ Renew \/ Login
  BY <1>16 DEF Expires, Renew, Login
<1>. QED
  BY <1>1, <1>2, <1>3, <1>4, <1>5, <1>6, <1>7, <1>8, <1>9, <1>10, <1>11, <1>12, <1>13, <1>14,
     <1>15, <1>16 DEF Next, RequestNext

\* A step that starts no recovery and neither replaces nor publishes a provider.
\* Nobody gets the gate, and what a request has read or called with changes only
\* where it reads or calls.
Quiet ==
    /\ UNCHANGED <<inner, revision>>
    /\ \A r \in Request :
         /\ HasGate(r)' => HasGate(r)
         /\ \/ at'[r] = at[r]
            \/ at'[r] \in Recovering /\ at[r] \in Recovering
            \/ at'[r] \in {"idle", "observed", "retry"}
            \/ at[r] = "called" /\ at'[r] = "waiting"
            \/ at[r] = "observed" /\ at'[r] = "called" /\ token'[r] = inner[Via[r]]
         /\ (at'[r] = "publish") <=> (at[r] = "publish")
         /\ observed'[r] = observed[r] \/ observed'[r] = revision[Via[r]]
         /\ at'[r] \notin {"idle", "observed"} => observed'[r] = observed[r]
         /\ at[r] # "observed" => token'[r] = token[r]

\* Such a step keeps the invariant.
LEMMA StepQuiet == ASSUME ViaTyped, IInv, TypeOK', Quiet PROVE IInv'
<1>1. OneHolder'
  BY DEF IInv, OneHolder, Quiet
<1>2. Behind'
  BY DEF IInv, Behind, Quiet, TypeOK, ViaTyped
<1>3. Faithful'
  BY DEF IInv, Faithful, Quiet, Replacing, Recovering, Hook
<1>4. OneRecoveryEach'
  BY DEF IInv, OneRecoveryEach, Quiet, HasGate, Recovering, Hook
<1>. QED BY <1>1, <1>2, <1>3, <1>4 DEF IInv

\* Most steps are such.
LEMMA QuietSteps ==
  ASSUME ViaTyped, TypeOK, NEW r \in Request,
         \/ Observe(r) \/ Call(r) \/ Answered(r) \/ Retry(r) \/ HookLoads(r) \/ HookImports(r)
         \/ HookSaves(r) \/ Rebuild(r) \/ HookFails(r) \/ Dropped(r)
  PROVE  Quiet
<1>. USE DEF Quiet, TypeOK, HasGate, Recovering, Hook, Go, instanceVars
<1>1. CASE Observe(r) BY <1>1 DEF Observe
<1>2. CASE Call(r) BY <1>2 DEF Call
<1>3. CASE Answered(r) BY <1>3 DEF Answered
<1>4. CASE Retry(r) BY <1>4 DEF Retry
<1>5. CASE HookLoads(r) BY <1>5 DEF HookLoads
<1>6. CASE HookImports(r) BY <1>6 DEF HookImports, Unrecovered
<1>7. CASE HookSaves(r) BY <1>7 DEF HookSaves, Unrecovered
<1>8. CASE Rebuild(r) BY <1>8 DEF Rebuild
<1>9. CASE HookFails(r) BY <1>9 DEF HookFails
<1>10. CASE Dropped(r) BY <1>10 DEF Dropped
<1>. QED BY <1>1, <1>2, <1>3, <1>4, <1>5, <1>6, <1>7, <1>8, <1>9, <1>10

\* Who enters with the revision unchanged has called the provider that is there:
\* nobody is replacing it, since the gate was free.
LEMMA StepEnter == ASSUME ViaTyped, IInv, TypeOK', NEW r \in Request, Enter(r) PROVE IInv'
<1>. USE DEF Enter, Go, instanceVars
<1>1. ~Replacing(Via[r])
  BY DEF IInv, TypeOK, Replacing, HasGate, Recovering, Hook
<1>2. OneHolder'
  BY DEF IInv, TypeOK, OneHolder, HasGate, Recovering, Hook
<1>3. Behind'
  BY DEF IInv, Behind
<1>4. Faithful'
  BY DEF IInv, TypeOK, Faithful, Replacing
<1>5. OneRecoveryEach'
  BY <1>1 DEF IInv, TypeOK, Faithful, OneRecoveryEach, Hook
<1>. QED BY <1>2, <1>3, <1>4, <1>5 DEF IInv

\* A replaced provider is about to be published.
LEMMA StepInstall == ASSUME ViaTyped, IInv, TypeOK', NEW r \in Request, Install(r) PROVE IInv'
<1>. USE DEF Install, Go
<1>1. HasGate(r)
  BY DEF IInv, TypeOK, HasGate, Recovering, Hook
<1>2. OneHolder'
  BY <1>1 DEF IInv, TypeOK, OneHolder, HasGate, Recovering, Hook
<1>3. Behind'
  BY DEF IInv, Behind
<1>4. Faithful'
  <2>1. SUFFICES ASSUME NEW q \in Request, at'[q] \in {"called", "waiting"},
                        observed'[q] = revision'[Via[q]]
                 PROVE  token'[q] = inner'[Via[q]] \/ Replacing(Via[q])'
    BY DEF Faithful
  <2>2. CASE Via[q] = Via[r]
    BY <2>2 DEF IInv, TypeOK, Replacing
  <2>3. CASE Via[q] # Via[r]
    BY <2>1, <2>3 DEF IInv, TypeOK, Faithful, Replacing, ViaTyped
  <2>. QED BY <2>2, <2>3
<1>5. OneRecoveryEach'
  BY <1>1 DEF IInv, TypeOK, OneRecoveryEach, OneHolder, HasGate, Recovering, Hook, ViaTyped
<1>. QED BY <1>2, <1>3, <1>4, <1>5 DEF IInv

\* After the revision has risen, nobody has read the present one.
LEMMA StepPublish == ASSUME ViaTyped, IInv, TypeOK', NEW r \in Request, Publish(r) PROVE IInv'
<1>. USE DEF Publish, Go
<1>1. HasGate(r)
  BY DEF IInv, TypeOK, HasGate, Recovering, Hook
<1>2. OneHolder'
  BY DEF IInv, TypeOK, OneHolder, HasGate, Recovering, Hook
<1>3. Behind'
  BY DEF IInv, TypeOK, Behind, ViaTyped
<1>4. Faithful'
  <2>1. SUFFICES ASSUME NEW q \in Request, at'[q] \in {"called", "waiting"},
                        observed'[q] = revision'[Via[q]]
                 PROVE  token'[q] = inner'[Via[q]] \/ Replacing(Via[q])'
    BY DEF Faithful
  <2>2. CASE Via[q] = Via[r]
    BY <2>1, <2>2 DEF IInv, TypeOK, Behind, ViaTyped
  <2>3. CASE Via[q] # Via[r]
    BY <2>1, <2>3 DEF IInv, TypeOK, Faithful, Replacing, ViaTyped
  <2>. QED BY <2>2, <2>3
<1>5. OneRecoveryEach'
  BY DEF IInv, TypeOK, OneRecoveryEach, Hook
<1>. QED BY <1>2, <1>3, <1>4, <1>5 DEF IInv

-----------------------------------------------------------------------------
\* The invariant the other rests on.
THEOREM InvariantHolds == ASSUME ViaTyped PROVE Spec => []IInv
<1>1. Init => IInv
  BY InitInv
<1>2. IInv /\ [Next]_vars => IInv'
  <2>. SUFFICES ASSUME IInv, [Next]_vars PROVE IInv'
    OBVIOUS
  <2>1. TypeOK'
    BY StepType DEF IInv
  <2>2. ASSUME NEW r \in Request, RequestNext(r) \/ HookFails(r) \/ Dropped(r) PROVE IInv'
    BY <2>1, <2>2, QuietSteps, StepQuiet, StepEnter, StepInstall, StepPublish
       DEF RequestNext, IInv
  <2>3. ASSUME UNCHANGED <<inner, revision, requestVars>> PROVE IInv'
    BY <2>1, <2>3 DEF requestVars, IInv, OneHolder, Behind, Faithful, OneRecoveryEach, HasGate,
                      Replacing
  <2>. QED
    BY <2>2, <2>3 DEF Next, CooldownEnds, Expires, Renew, Login, vars, instanceVars
<1>. QED BY <1>1, <1>2, PTL DEF Spec

\* One recovery serves all who failed with the same provider.
THEOREM RecoveredOnce == ASSUME ViaTyped PROVE Spec => []OneRecoveryEach
<1>1. IInv => OneRecoveryEach
  BY DEF IInv
<1>. QED BY <1>1, InvariantHolds, PTL
=============================================================================
