-------------------------- MODULE AutoscalerProofs --------------------------
(***************************************************************************)
(* That the whole autoscaler does to its offline-resize controller only    *)
(* what OfflineResize is modelled to meet, for every set of claims and     *)
(* Pods, and what follows for the whole from the theorems about its parts. *)
(***************************************************************************)
EXTENDS Autoscaler, FiniteSetTheorems, TLAPS

-----------------------------------------------------------------------------
(***************************************************************************)
(* The runner                                                              *)
(***************************************************************************)
\* The claims in use are among those that Pods mount.
LEMMA UsedClaims == Used \subseteq Mounted /\ Used' \subseteq Mounted
BY DEF Used, Mounted

\* Pods come and go, for the runner, as claims in use do.
LEMMA PodsAsTargets ==
    ASSUME RunnerWaits
    PROVE  [R!Next]_(R!vars)
<1> DEFINE old == [a \in {PVCA} |-> Used]
           new == [a \in {PVCA} |-> Used']
<1>1. CASE Used' = Used
  BY <1>1, Zenon DEF RunnerWaits, claimVars, pvcaVars, runnerVars,
                     R!vars, R!pvcVars, R!pvcaVars, R!runVars, R!timeVars
<1>2. CASE Used' # Used
  <2>1. new = [old EXCEPT ![PVCA] = Used'] /\ old[PVCA] = Used
    OBVIOUS
  <2>2. R!TargetChanges(PVCA)
    BY <1>2, <2>1, UsedClaims, Zenon
       DEF RunnerWaits, claimVars, pvcaVars, runnerVars, R!TargetChanges,
           R!pvcVars, R!runVars, R!timeVars
  <2> QED
    BY <2>2, Zenon DEF R!Next, R!UsersAct
<1> QED
  BY <1>1, <1>2

\* Every step is one of the runner as PeriodicRunner has it, or none of it.
LEMMA StepsOfRunner ==
    ASSUME [Next]_vars
    PROVE  [R!Next]_(R!vars)
<1>1. CASE RunnerWorks
  <2>1. \/ R!StartTick \/ R!FetchPVCs(PVCA) \/ R!FetchFails(PVCA) \/ R!StartPVCA(PVCA)
        \/ \E p \in PVCs : \/ R!SkipClaim(p) \/ R!SettleClaim(p)
                           \/ R!PlanResize(p) \/ R!PlanRecovery(p)
        \/ R!ResizePVC \/ R!ResizePVCFails \/ R!Recover \/ R!RecoverConflict \/ R!RecoverFails
        \/ R!SetStatus
    BY <1>1, Zenon DEF RunnerWorks, StartTick, RunnerReads, StatusWritten, ResizePVC,
                       ResizePVCFails, Recover, RecoverFails
  <2> QED
    BY <2>1, Zenon DEF R!Next, R!RunnerWorks
<1>2. ASSUME NEW p \in PVCs, StorageWorks(p) PROVE R!Next
  <2>1. \/ R!Bind(p) \/ R!ExpansionStarts(p) \/ R!FileSystemPending(p) \/ R!ExpansionDone(p)
        \/ \E kind \in R!AllFailKinds : R!ExpansionFails(p, kind)
    BY <1>2, RunnerAssumption, Zenon
       DEF StorageWorks, Bind, ExpansionStarts, VolumeExpanded, ExpansionDone, ExpansionFails
  <2> QED
    BY <2>1, Zenon DEF R!Next, R!StorageWorks
<1>3. ASSUME NEW p \in PVCs, ControllerWorks(p) PROVE [R!Next]_(R!vars)
  BY <1>3, PodsAsTargets DEF ControllerWorks
<1>4. ASSUME NEW k \in Pods, PodLives(k) PROVE [R!Next]_(R!vars)
  BY <1>4, PodsAsTargets DEF PodLives
<1>5. CASE Crash
  BY <1>5, PodsAsTargets DEF Crash, R!Next
<1>6. CASE UNCHANGED vars
  BY <1>6, PodsAsTargets DEF vars, RunnerWaits
<1> QED
  BY <1>1, <1>2, <1>3, <1>4, <1>5, <1>6 DEF Next

\* What is known of PeriodicRunner can be used of the whole.
LEMMA RunnerOfTheWhole == Spec => R!Spec
<1>1. Init => R!Init
  BY DEF Init
<1>2. [Next]_vars => [R!Next]_(R!vars)
  BY StepsOfRunner
<1> QED
  BY <1>1, <1>2, PTL DEF Spec, R!Spec

-----------------------------------------------------------------------------
(***************************************************************************)
(* The controller.  What it reads of a claim, where the storage system     *)
(* grants exactly what is requested and only the runner changes requests.  *)
(***************************************************************************)
Wanted(p) == cap[p] # 0 /\ spec[p] > cap[p]

Annotated(p) == prev[p] # R!NoAnnotation

Pending(p) == "FileSystemResizePending" \in conds[p]

\* A step changes nothing of it.
SameView ==
    \A p \in PVCs :
        Wanted(p)' = Wanted(p) /\ Annotated(p)' = Annotated(p) /\ Pending(p)' = Pending(p)

\* The invariants of PeriodicRunner that make the runner keep to what OfflineResize
\* expects of it.
RunnerInv == R!TypeOK /\ R!PatchInv /\ R!RequestInv /\ R!TargetedInv

\* The types of what the claims' view is computed from.
LEMMA ClaimTypes ==
    ASSUME RunnerInv, NEW p \in PVCs
    PROVE  /\ spec[p] \in Nat \ {0} /\ cap[p] \in Nat
           /\ DOMAIN spec = PVCs /\ DOMAIN cap = PVCs /\ DOMAIN prev = PVCs
           /\ DOMAIN conds = PVCs /\ DOMAIN alloc = PVCs /\ DOMAIN failed = PVCs
BY DEF RunnerInv, R!TypeOK, R!PVCTypeOK

\* A write that leaves the view as it is.
LEMMA Touched ==
    ASSUME NEW p \in PVCs, SameView, UNCHANGED <<error, recs, policies>>, UNCHANGED podVars,
           UNCHANGED <<delayed, work>>, O!ClaimEvent(p)
    PROVE  O!Next
<1>1. /\ [q \in PVCs |-> cap[q] # 0 /\ spec[q] > cap[q]]'
            = [q \in PVCs |-> cap[q] # 0 /\ spec[q] > cap[q]]
      /\ [q \in PVCs |-> prev[q] # R!NoAnnotation]' = [q \in PVCs |-> prev[q] # R!NoAnnotation]
      /\ [q \in PVCs |-> "FileSystemResizePending" \in conds[q]]'
            = [q \in PVCs |-> "FileSystemResizePending" \in conds[q]]
  BY Zenon DEF SameView, Wanted, Annotated, Pending
<1>2. O!ClaimTouched(p)
  BY <1>1, Zenon DEF O!ClaimTouched, O!claimVars, O!podVars, O!pvcaVars, podVars
<1> QED
  BY <1>2, Zenon DEF O!Next, O!ClaimChanges

\* A step of the runner that writes nothing the controller reads.
LEMMA Unseen ==
    ASSUME UNCHANGED <<claimVars, recs, policies>>, Elsewhere, UNCHANGED queue
    PROVE  UNCHANGED O!vars
BY Zenon DEF claimVars, Elsewhere, podVars, O!vars, O!claimVars, O!podVars, O!pvcaVars, O!queueVars

\* The patch of a scale-up is, for the controller, a resize that is requested: the
\* claim had what it asked for.
LEMMA ScaleUpRequested ==
    ASSUME RunnerInv, Elsewhere, phase = "resize", R!ApplyResize, PatchEvent,
           UNCHANGED <<cap, conds, recs, policies>>
    PROVE  O!Next
<1> PICK p \in PVCs : p = patch.pvc
  BY DEF RunnerInv, R!TypeOK, R!RunnerTypeOK
<1>1. /\ p \in PVCs /\ cap[p] # 0 /\ spec[p] = cap[p] /\ patch.spec = spec[p]
      /\ patch.spec < patch.target /\ patch.target \in Nat
  BY DEF RunnerInv, R!TypeOK, R!RunnerTypeOK, R!Patches, R!RequestInv, R!PatchInv
<1>2. /\ spec' = [spec EXCEPT ![p] = patch.target]
      /\ prev' = [prev EXCEPT ![p] = patch.spec]
  BY DEF R!ApplyResize
<1>3. spec[p] \in Nat \ {0} /\ cap[p] \in Nat /\ DOMAIN spec = PVCs /\ DOMAIN prev = PVCs
  BY <1>1, ClaimTypes
<1>4. spec'[p] # spec[p] /\ \A q \in PVCs : spec'[q] # spec[q] => q = p
  BY <1>1, <1>2, <1>3
<1>5. O!ClaimEvent(p)
  BY <1>1, <1>4, Zenon DEF PatchEvent
<1>6. ~Wanted(p) /\ Wanted(p)' /\ Annotated(p)'
  BY <1>1, <1>2, <1>3 DEF Wanted, Annotated, R!NoAnnotation
<1>7. \A q \in PVCs \ {p} : Wanted(q)' = Wanted(q) /\ Annotated(q)' = Annotated(q)
  BY <1>1, <1>2, <1>3 DEF Wanted, Annotated
<1> DEFINE wanted == [q \in PVCs |-> cap[q] # 0 /\ spec[q] > cap[q]]
           annotated == [q \in PVCs |-> prev[q] # R!NoAnnotation]
<1>8. wanted' = [wanted EXCEPT ![p] = TRUE] /\ annotated' = [annotated EXCEPT ![p] = TRUE]
  BY <1>1, <1>6, <1>7, Zenon DEF Wanted, Annotated
<1>9. ~wanted[p]
  BY <1>1, <1>6, Zenon DEF Wanted
<1>10. O!ResizeRequested(p)
  BY <1>5, <1>8, <1>9, Zenon DEF O!ResizeRequested, O!podVars, O!pvcaVars, Elsewhere, podVars
<1> QED
  BY <1>1, <1>10, Zenon DEF O!Next, O!ClaimChanges

\* The patch of a recovery leaves the resize outstanding.
LEMMA RecoveryTouches ==
    ASSUME RunnerInv, Elsewhere, phase = "recover", ~patch.touched,
           spec' = [spec EXCEPT ![patch.pvc] = patch.target], PatchEvent,
           UNCHANGED <<cap, prev, conds, recs, policies>>
    PROVE  O!Next
<1> DEFINE p == patch.pvc
<1>1. /\ p \in PVCs /\ patch.target \in Nat
      /\ cap[p] < patch.target /\ patch.target < spec[p]
  BY DEF RunnerInv, R!TypeOK, R!RunnerTypeOK, R!Patches, R!PatchInv
<1>2. spec[p] \in Nat \ {0} /\ cap[p] \in Nat /\ DOMAIN spec = PVCs
  BY <1>1, ClaimTypes
<1>3. spec'[p] # spec[p] /\ \A q \in PVCs : spec'[q] # spec[q] => q = p
  BY <1>1, <1>2
<1>4. O!ClaimEvent(p)
  BY <1>1, <1>3, Zenon DEF PatchEvent
<1>5. \A q \in PVCs : Wanted(q)' = Wanted(q)
  BY <1>1, <1>2 DEF Wanted
<1>6. SameView
  BY <1>5, Zenon DEF SameView, Annotated, Pending
<1> QED
  BY <1>1, <1>4, <1>6, Touched, Zenon DEF Elsewhere

\* A patch that does not reach the claim is no event.
LEMMA PatchLost ==
    ASSUME Elsewhere, PatchEvent, UNCHANGED <<claimVars, recs, policies>>
    PROVE  UNCHANGED O!vars
<1>1. UNCHANGED queue
  BY Zenon DEF PatchEvent, claimVars
<1> QED
  BY <1>1, Unseen

\* The runner's steps other than the status update.
LEMMA RunnerSeen ==
    ASSUME RunnerInv, RunnerWorks, ~StatusWritten
    PROVE  O!Next \/ UNCHANGED O!vars
<1>1. CASE StartTick
  <2>1. UNCHANGED <<claimVars, recs, policies>>
    BY <1>1, Zenon DEF StartTick, R!StartTick, R!pvcVars, R!pvcaVars, claimVars
  <2> QED
    BY <1>1, <2>1, Unseen DEF StartTick
<1>2. CASE RunnerReads
  <2>1. UNCHANGED <<claimVars, recs, policies>>
    BY <1>2, Zenon DEF RunnerReads, R!FetchPVCs, R!StartPVCA, R!SkipClaim, R!SettleClaim,
       R!PlanResize, R!PlanRecovery, R!RecoverConflict, R!pvcVars, R!pvcaVars, claimVars
  <2> QED
    BY <1>2, <2>1, Unseen DEF RunnerReads
<1>3. CASE ResizePVC \/ ResizePVCFails
  <2>1. /\ Elsewhere /\ PatchEvent /\ phase = "resize"
        /\ UNCHANGED <<cap, conds, alloc, failed, recs, policies>>
        /\ R!ApplyResize \/ UNCHANGED <<prev, spec>>
    BY <1>3, Zenon DEF ResizePVC, ResizePVCFails, R!ResizePVC, R!ResizePVCFails, R!pvcaVars
  <2>2. CASE R!ApplyResize
    BY <2>1, <2>2, ScaleUpRequested
  <2>3. CASE UNCHANGED <<prev, spec>>
    BY <2>1, <2>3, PatchLost, Zenon DEF claimVars
  <2> QED
    BY <2>1, <2>2, <2>3
<1>4. CASE Recover \/ RecoverFails
  <2>1. /\ Elsewhere /\ PatchEvent /\ phase = "recover"
        /\ UNCHANGED <<cap, prev, conds, alloc, failed, recs, policies>>
        /\ \/ ~patch.touched /\ spec' = [spec EXCEPT ![patch.pvc] = patch.target]
           \/ UNCHANGED spec
    BY <1>4, Zenon DEF Recover, RecoverFails, R!Recover, R!RecoverFails, R!pvcaVars
  <2>2. CASE ~patch.touched /\ spec' = [spec EXCEPT ![patch.pvc] = patch.target]
    BY <2>1, <2>2, RecoveryTouches
  <2>3. CASE UNCHANGED spec
    BY <2>1, <2>3, PatchLost, Zenon DEF claimVars
  <2> QED
    BY <2>1, <2>2, <2>3
<1> QED
  BY <1>1, <1>2, <1>3, <1>4, Zenon DEF RunnerWorks

\* The status update, and the one that clears the recommendations, is a tick of the
\* runner when it changes the claims recommended for.
LEMMA StatusSeen ==
    ASSUME RunnerInv, RunnerInv', StatusWritten
    PROVE  O!Next \/ UNCHANGED O!vars
<1> DEFINE listed == {p \in PVCs : recs[PVCA][p] # R!NoRec}
<1>1. UNCHANGED <<claimVars, policies>>
  BY Zenon DEF StatusWritten, R!SetStatus, R!FetchFails, R!pvcVars, claimVars
<1>2. listed' \subseteq Mounted
  BY DEF RunnerInv, R!TargetedInv, R!OfTargets
<1>3. O!PVCAEvent /\ Elsewhere
  BY Zenon DEF StatusWritten
<1>4. CASE listed' = listed
  <2>1. UNCHANGED queue
    BY <1>1, <1>3, <1>4, Zenon DEF O!PVCAEvent, O!PVCARecommendationsOrPoliciesChanged
  <2> QED
    BY <1>1, <1>3, <1>4, <2>1, Zenon
       DEF claimVars, Elsewhere, podVars, O!vars, O!claimVars, O!podVars, O!pvcaVars, O!queueVars
<1>5. CASE listed' # listed
  <2>1. O!RunnerTick
    BY <1>1, <1>2, <1>3, <1>5, CompositionAssumption, Zenon
       DEF O!RunnerTick, Mounted, claimVars, Elsewhere, podVars, O!claimVars, O!podVars
  <2> QED
    BY <2>1, Zenon DEF O!Next
<1> QED
  BY <1>4, <1>5

\* The storage system's steps.
LEMMA StorageSeen ==
    ASSUME RunnerInv, ViewInv, NEW p \in PVCs, StorageWorks(p)
    PROVE  O!Next
<1>0. /\ spec[p] \in Nat \ {0} /\ cap[p] \in Nat
      /\ DOMAIN cap = PVCs /\ DOMAIN conds = PVCs
  BY ClaimTypes
<1>1. CASE Bind(p)
  <2>1. /\ cap[p] = 0 /\ cap' = [cap EXCEPT ![p] = R!RoundUp(spec[p], 1)]
        /\ UNCHANGED <<spec, prev, conds, recs, policies>>
        /\ Elsewhere /\ O!ClaimEvent(p)
    BY <1>1, Zenon DEF Bind, R!Bind, R!EnvUnchanged, R!pvcaVars
  <2>2. R!RoundUp(spec[p], 1) = spec[p]
    BY <1>0 DEF R!RoundUp, R!CeilDiv
  <2>3. \A q \in PVCs : Wanted(q)' = Wanted(q)
    BY <1>0, <2>1, <2>2 DEF Wanted
  <2>4. SameView
    BY <2>1, <2>3, Zenon DEF SameView, Annotated, Pending
  <2> QED
    BY <2>1, <2>4, Touched, Zenon DEF Elsewhere
<1>2. CASE ExpansionStarts(p)
  <2>1. /\ ~R!Expanding(p)
        /\ conds' = [conds EXCEPT ![p] = (@ \ {"FileSystemResizePending"}) \cup {"Resizing"}]
        /\ UNCHANGED <<spec, cap, prev, recs, policies>>
        /\ Elsewhere /\ O!ClaimEvent(p)
    BY <1>2, Zenon DEF ExpansionStarts, R!ExpansionStarts, R!EnvUnchanged, R!pvcaVars
  <2>2. \A q \in PVCs : Pending(q)' = Pending(q)
    BY <1>0, <2>1 DEF Pending, ViewInv
  <2>3. SameView
    BY <2>1, <2>2, Zenon DEF SameView, Wanted, Annotated
  <2> QED
    BY <2>1, <2>3, Touched, Zenon DEF Elsewhere
<1>3. CASE VolumeExpanded(p) \/ ExpansionDone(p)
  BY <1>3, Zenon DEF VolumeExpanded, ExpansionDone, O!Next, O!ClaimChanges
<1>4. ASSUME NEW kind \in FailKinds, NEW message \in ErrorKinds, ExpansionFails(p, kind, message)
      PROVE  O!Next
  <2>1. /\ ~Pending(p) /\ R!Expanding(p)
        /\ conds' \in {conds, [conds EXCEPT ![p] = @ \ {"Resizing", "FileSystemResizePending"}]}
        /\ error' = [error EXCEPT ![p] = message]
        /\ UNCHANGED <<spec, cap, prev, recs, policies>>
        /\ UNCHANGED podVars /\ UNCHANGED <<delayed, work>> /\ O!ClaimEvent(p)
    BY <1>4, Zenon DEF ExpansionFails, R!ExpansionFails, R!EnvUnchanged, R!pvcaVars, Pending
  <2>2. message = "offline" => p \in OfflineOnly /\ O!Attached(p)
    BY <1>4 DEF ExpansionFails
  <2>3. Wanted(p)
    BY <1>0, <2>1 DEF Wanted, RunnerInv, R!RequestInv, R!ClaimInv
  <2>4. \A q \in PVCs : Pending(q)' = Pending(q)
    BY <1>0, <2>1 DEF Pending
  <2>5. SameView
    BY <2>1, <2>4, Zenon DEF SameView, Wanted, Annotated
  <2>6. CASE message = error[p]
    <3>1. error' = error
      BY <2>1, <2>6 DEF ViewInv
    <3> QED
      BY <2>1, <2>5, <3>1, Touched, Zenon
  <2>7. CASE message # error[p]
    <3>1. /\ [q \in PVCs |-> cap[q] # 0 /\ spec[q] > cap[q]][p]
          /\ ~[q \in PVCs |-> "FileSystemResizePending" \in conds[q]][p]
      BY <2>1, <2>3, Zenon DEF Wanted, Pending
    <3>2. [q \in PVCs |-> "FileSystemResizePending" \in conds[q]]'
            = [q \in PVCs |-> "FileSystemResizePending" \in conds[q]]
      BY <2>4, Zenon DEF Pending
    <3>3. O!ExpansionFails(p, message)
      BY <2>1, <2>2, <2>7, <3>1, <3>2, Zenon
         DEF O!ExpansionFails, O!podVars, O!pvcaVars, podVars
    <3> QED
      BY <3>3, Zenon DEF O!Next, O!ClaimChanges
  <2> QED
    BY <2>6, <2>7
<1> QED
  BY <1>1, <1>2, <1>3, <1>4, Zenon DEF StorageWorks

\* Every step is one of the controller and its environment as OfflineResize has them,
\* or none of theirs.
LEMMA StepsOfController ==
    ASSUME RunnerInv, RunnerInv', ViewInv, [Next]_vars
    PROVE  [O!Next]_(O!vars)
<1>1. CASE RunnerWorks
  BY <1>1, RunnerSeen, StatusSeen
<1>2. ASSUME NEW p \in PVCs, StorageWorks(p) PROVE O!Next
  BY <1>2, StorageSeen
<1>3. ASSUME NEW p \in PVCs, ControllerWorks(p) PROVE O!Next
  BY <1>3, Zenon DEF ControllerWorks, O!Next
<1>4. ASSUME NEW k \in Pods, PodLives(k) PROVE O!Next
  BY <1>4, Zenon DEF PodLives, O!PodLives, O!Next
<1>5. CASE Crash
  BY <1>5, Zenon DEF Crash, O!Next
<1>6. CASE UNCHANGED vars
  <2>1. UNCHANGED <<claimVars, recs, policies>> /\ Elsewhere /\ UNCHANGED queue
    BY <1>6, Zenon DEF vars, pvcaVars, controllerVars, Elsewhere
  <2> QED
    BY <2>1, Unseen
<1> QED
  BY <1>1, <1>2, <1>3, <1>4, <1>5, <1>6 DEF Next

\* Claims are healthy initially.
LEMMA ViewInvInit == Init => ViewInv
BY DEF Init, ViewInv, R!Init, O!Init

\* Which steps write the claims' conditions and errors.
LEMMA ViewInvStep ==
    ASSUME RunnerInv, ViewInv, [Next]_vars
    PROVE  ViewInv'
<1>1. CASE UNCHANGED <<error, conds, alloc, failed>>
  BY <1>1 DEF ViewInv, R!Expanding
<1>2. ASSUME NEW p \in PVCs, StorageWorks(p) PROVE ViewInv'
  <2>0. /\ spec[p] \in Nat \ {0}
        /\ DOMAIN conds = PVCs /\ DOMAIN alloc = PVCs /\ DOMAIN failed = PVCs
    BY ClaimTypes
  <2>1. error' \in [PVCs -> {"none", "offline", "other"}]
    <3>1. error' = error \/ \E message \in ErrorKinds \cup {"none"} : error' = [error EXCEPT ![p] = message]
      BY <1>2, Zenon DEF StorageWorks, Bind, ExpansionStarts, VolumeExpanded, ExpansionDone,
         ExpansionFails, Elsewhere, O!VolumeExpanded, O!ResizeDone
    <3> QED
      BY <3>1, ControllerAssumption DEF ViewInv
  <2>2. CASE Bind(p)
    BY <2>1, <2>2 DEF Bind, R!Bind, ViewInv, R!Expanding
  <2>3. CASE ExpansionStarts(p)
    BY <2>0, <2>1, <2>3 DEF ExpansionStarts, R!ExpansionStarts, ViewInv, R!Expanding
  <2>4. CASE VolumeExpanded(p)
    BY <2>0, <2>1, <2>4 DEF VolumeExpanded, R!FileSystemPending, ViewInv, R!Expanding
  <2>5. CASE ExpansionDone(p)
    BY <2>0, <2>1, <2>5 DEF ExpansionDone, R!ExpansionDone, ViewInv, R!Expanding
  <2>6. ASSUME NEW kind \in FailKinds, NEW message \in ErrorKinds, ExpansionFails(p, kind, message)
        PROVE  ViewInv'
    BY <2>0, <2>1, <2>6 DEF ExpansionFails, R!ExpansionFails, ViewInv, R!Expanding
  <2> QED
    BY <1>2, <2>2, <2>3, <2>4, <2>5, <2>6, Zenon DEF StorageWorks
<1>3. CASE RunnerWorks
  <2>1. UNCHANGED error
    BY <1>3, Zenon DEF RunnerWorks, StartTick, RunnerReads, StatusWritten, ResizePVC,
       ResizePVCFails, Recover, RecoverFails, Elsewhere
  <2>2. UNCHANGED <<conds, alloc, failed>>
    <3>1. CASE StartTick \/ RunnerReads
      BY <3>1, Zenon DEF StartTick, RunnerReads, R!StartTick, R!FetchPVCs, R!StartPVCA,
         R!SkipClaim, R!SettleClaim, R!PlanResize, R!PlanRecovery, R!RecoverConflict, R!pvcVars
    <3>2. CASE StatusWritten
      BY <3>2, Zenon DEF StatusWritten, R!SetStatus, R!FetchFails, R!pvcVars
    <3>3. CASE ResizePVC \/ ResizePVCFails \/ Recover \/ RecoverFails
      BY <3>3, Zenon DEF ResizePVC, ResizePVCFails, Recover, RecoverFails,
         R!ResizePVC, R!ResizePVCFails, R!Recover, R!RecoverFails
    <3> QED
      BY <1>3, <3>1, <3>2, <3>3, Zenon DEF RunnerWorks
  <2> QED
    BY <1>1, <2>1, <2>2
<1>4. ASSUME NEW p \in PVCs, ControllerWorks(p) PROVE UNCHANGED <<error, conds, alloc, failed>>
  BY <1>4, Zenon DEF ControllerWorks, RunnerWaits, claimVars, O!ControllerWorks, O!claimVars,
     O!Reconcile, O!ReconcileFails, O!ReconcileDone, O!Requeue, O!RemoveGate,
     O!RemoveGateFails, O!Evict, O!EvictPassesOver, O!EvictFails
<1>5. ASSUME NEW k \in Pods, PodLives(k) PROVE UNCHANGED <<error, conds, alloc, failed>>
  BY <1>5, Zenon DEF PodLives, RunnerWaits, claimVars, O!claimVars,
     O!Handle, O!PodStored, O!PodRuns, O!PodGone, O!PodScheduled
<1>6. ASSUME Crash \/ UNCHANGED vars PROVE UNCHANGED <<error, conds, alloc, failed>>
  BY <1>6, Zenon DEF Crash, vars, RunnerWaits, claimVars, R!Crash, R!pvcVars, O!Restart, O!claimVars
<1> QED
  BY <1>1, <1>2, <1>3, <1>4, <1>5, <1>6 DEF Next

-----------------------------------------------------------------------------
(***************************************************************************)
(* The theorems about PeriodicRunner speak of P, its definitions           *)
(* instantiated once more as R has them.  The two are the same             *)
(* specification, definition by definition.                                *)
(***************************************************************************)
P == INSTANCE PeriodicRunnerRefinement WITH
         PVCAs <- {PVCA}, TargetSets <- SUBSET Mounted, Unsupported <- {}, UserSizes <- {},
         Percents <- {90}, LagSizes <- {0}, Granule <- 1, Faults <- RunnerFaults,
         Kubernetes134 <- TRUE, MaxNow <- 0, targets <- [a \in {PVCA} |-> Used]

\* What PeriodicRunner assumes of its constants holds of these.
LEMMA RunnerAssumptions ==
    /\ P!ClaimAssumption
    /\ P!PolicyAssumption
    /\ P!SizeAssumption
    /\ P!SwitchAssumption
    /\ P!ResolutionAssumption
<1>1. P!IsFiniteSet({PVCA})
  BY FS_Singleton, Zenon DEF P!IsFiniteSet, IsFiniteSet
<1>2. P!ClaimAssumption
  BY <1>1, RunnerAssumption, ControllerAssumption DEF P!ClaimAssumption, Mounted
<1>3. P!PolicyAssumption
  BY RunnerAssumption, Zenon
     DEF P!PolicyAssumption, P!Policy, R!Policy, P!Strategies, R!Strategies
<1>4. P!SizeAssumption
  BY RunnerAssumption DEF P!SizeAssumption
<1>5. P!SwitchAssumption
  BY RunnerAssumption, Zenon
     DEF P!SwitchAssumption, P!AllFaults, R!AllFaults, P!AllFailKinds, R!AllFailKinds
<1>6. P!ResolutionAssumption
  BY RunnerAssumption DEF P!ResolutionAssumption
<1> QED
  BY <1>2, <1>3, <1>4, <1>5, <1>6

\* The same values.
LEMMA SameValues ==
    /\ R!NoTick = P!NoTick
    /\ R!NoJob = P!NoJob
    /\ R!NoPatch = P!NoPatch
    /\ R!NoRecs = P!NoRecs
    /\ R!NoRec = P!NoRec
BY ZenonT(30)
   DEF R!NoTick, P!NoTick, R!NoJob, P!NoJob, R!NoPatch, P!NoPatch, R!NoRecs, P!NoRecs,
       R!NoRec, P!NoRec, R!NoReading, P!NoReading, R!NoSize, P!NoSize, R!Never, P!Never

\* The same decisions about a claim.
LEMMA SameDecisions ==
    ASSUME NEW p
    PROVE  /\ R!Verdict(p) = P!Verdict(p)
           /\ R!CurrentPolicy(p) = P!CurrentPolicy(p)
           /\ R!Target(p, R!CurrentPolicy(p)) = P!Target(p, P!CurrentPolicy(p))
           /\ R!RecoverySize(spec[p], cap[p]) = P!RecoverySize(spec[p], cap[p])
           /\ R!UpdatedRec(p) = P!UpdatedRec(p)
           /\ R!ReportedStatus(p, R!Verdict(p)) = P!ReportedStatus(p, P!Verdict(p))
<1>1. \A S : R!Cardinality(S) = P!Cardinality(S)
  BY ZenonT(30) DEF R!Cardinality, P!Cardinality, R!IsFiniteSet, P!IsFiniteSet
<1>2. R!CurrentPolicy(p) = P!CurrentPolicy(p)
  BY ZenonT(30) DEF R!CurrentPolicy, P!CurrentPolicy, R!GetVolumePolicy, P!GetVolumePolicy
<1>3. \A policy : R!Target(p, policy) = P!Target(p, policy)
  BY ZenonT(30)
     DEF R!Target, P!Target, R!RecommendedSize, P!RecommendedSize, R!SteppedSize,
         P!SteppedSize, R!CeilDiv, P!CeilDiv, R!Larger, P!Larger, R!NoSize, P!NoSize,
         R!AtMaxCapacity, P!AtMaxCapacity
<1>4. R!RecoverySize(spec[p], cap[p]) = P!RecoverySize(spec[p], cap[p])
  BY ZenonT(30)
     DEF R!RecoverySize, P!RecoverySize, R!RoundUp, P!RoundUp, R!CeilDiv, P!CeilDiv,
         R!Larger, P!Larger
<1>5. R!UpdatedRec(p) = P!UpdatedRec(p)
  BY SameValues, ZenonT(30) DEF R!UpdatedRec, P!UpdatedRec, R!Never, P!Never
<1>6. R!Verdict(p) = P!Verdict(p)
  BY <1>1, <1>2, <1>3, <1>4, ZenonT(30)
     DEF R!Verdict, P!Verdict, R!Owners, P!Owners, R!HasPolicy, P!HasPolicy, R!ValidPVC,
         P!ValidPVC, R!UsableMetrics, P!UsableMetrics, R!IsStale, P!IsStale, R!Distance,
         P!Distance, R!ShouldRecover, P!ShouldRecover, R!IsResizeInProgress,
         P!IsResizeInProgress, R!Unparsable, P!Unparsable, R!NoAnnotation, P!NoAnnotation,
         R!OverThreshold, P!OverThreshold, R!NoSize, P!NoSize, R!IsInCooldown,
         P!IsInCooldown, R!Never, P!Never
<1>7. R!ReportedStatus(p, R!Verdict(p)) = P!ReportedStatus(p, P!Verdict(p))
  BY <1>2, <1>6 DEF R!ReportedStatus, P!ReportedStatus
<1> QED
  BY <1>2, <1>3, <1>4, <1>5, <1>6, <1>7

\* The same steps.
LEMMA SameNext == R!Next = P!Next
<1> USE SameValues
<1> USE DEF R!pvcVars, P!pvcVars, R!pvcaVars, P!pvcaVars, R!runVars, P!runVars, R!timeVars,
    P!timeVars
<1>1. R!StartTick = P!StartTick
  BY ZenonT(30)
     DEF R!StartTick, P!StartTick
<1>2. ASSUME NEW a PROVE R!FetchPVCs(a) = P!FetchPVCs(a)
  BY ZenonT(30)
     DEF R!FetchPVCs, P!FetchPVCs
<1>3. ASSUME NEW a PROVE R!FetchFails(a) = P!FetchFails(a)
  BY ZenonT(30)
     DEF R!FetchFails, P!FetchFails, R!EndTick, P!EndTick
<1>4. \A a : R!StartPVCA(a) = P!StartPVCA(a)
  BY ZenonT(30)
     DEF R!StartPVCA, P!StartPVCA, R!HasPolicy, P!HasPolicy
<1>5. ASSUME NEW p PROVE R!SkipClaim(p) = P!SkipClaim(p)
  <2>1. R!Verdict(p) = P!Verdict(p)
    BY SameDecisions, SMTT(20)
  <2> QED
    BY <2>1, ZenonT(30)
       DEF R!SkipClaim, P!SkipClaim, R!Skipped, P!Skipped
<1>6. ASSUME NEW p PROVE R!GetFails(p) = P!GetFails(p)
  <2>1. R!Verdict(p) = P!Verdict(p)
    BY SameDecisions, SMTT(20)
  <2> QED
    BY <2>1, ZenonT(30)
       DEF R!GetFails, P!GetFails
<1>7. ASSUME NEW p PROVE R!SettleClaim(p) = P!SettleClaim(p)
  <2>1. /\ R!Verdict(p) = P!Verdict(p)
        /\ R!UpdatedRec(p) = P!UpdatedRec(p)
        /\ R!Target(p, R!CurrentPolicy(p)) = P!Target(p, P!CurrentPolicy(p))
        /\ R!ReportedStatus(p, R!Verdict(p)) = P!ReportedStatus(p, P!Verdict(p))
    BY SameDecisions, SMTT(20)
  <2> QED
    BY <2>1, ZenonT(30)
       DEF R!SettleClaim, P!SettleClaim, R!Settled, P!Settled
<1>8. ASSUME NEW p PROVE R!PlanResize(p) = P!PlanResize(p)
  <2>1. /\ R!Verdict(p) = P!Verdict(p)
        /\ R!UpdatedRec(p) = P!UpdatedRec(p)
        /\ R!Target(p, R!CurrentPolicy(p)) = P!Target(p, P!CurrentPolicy(p))
    BY SameDecisions, SMTT(20)
  <2> QED
    BY <2>1, ZenonT(30)
       DEF R!PlanResize, P!PlanResize
<1>9. ASSUME NEW p PROVE R!PlanRecovery(p) = P!PlanRecovery(p)
  <2>1. /\ R!Verdict(p) = P!Verdict(p)
        /\ R!UpdatedRec(p) = P!UpdatedRec(p)
        /\ R!RecoverySize(spec[p], cap[p]) = P!RecoverySize(spec[p], cap[p])
    BY SameDecisions, SMTT(20)
  <2> QED
    BY <2>1, ZenonT(30)
       DEF R!PlanRecovery, P!PlanRecovery
<1>10. R!ResizePVC = P!ResizePVC
  BY ZenonT(30)
     DEF R!ResizePVC, P!ResizePVC, R!Admits, P!Admits, R!ApplyResize, P!ApplyResize,
         R!PatchDone, P!PatchDone
<1>11. R!ResizePVCFails = P!ResizePVCFails
  BY ZenonT(30)
     DEF R!ResizePVCFails, P!ResizePVCFails, R!Admits, P!Admits, R!ApplyResize,
         P!ApplyResize, R!PatchDone, P!PatchDone
<1>12. R!Recover = P!Recover
  BY ZenonT(30)
     DEF R!Recover, P!Recover, R!Admits, P!Admits, R!PatchDone, P!PatchDone
<1>13. R!RecoverConflict = P!RecoverConflict
  BY ZenonT(30)
     DEF R!RecoverConflict, P!RecoverConflict, R!PatchDone, P!PatchDone
<1>14. R!RecoverFails = P!RecoverFails
  BY ZenonT(30)
     DEF R!RecoverFails, P!RecoverFails, R!Admits, P!Admits, R!PatchDone, P!PatchDone
<1>15. R!SetStatus = P!SetStatus
  BY ZenonT(30)
     DEF R!SetStatus, P!SetStatus, R!AggregatedResizing, P!AggregatedResizing,
         R!AggregatedRecommendation, P!AggregatedRecommendation, R!NextPVCA, P!NextPVCA,
         R!EndTick, P!EndTick
<1>16. R!SetStatusFails = P!SetStatusFails
  BY ZenonT(30)
     DEF R!SetStatusFails, P!SetStatusFails, R!NextPVCA, P!NextPVCA, R!EndTick, P!EndTick
<1>17. R!Crash = P!Crash
  BY ZenonT(30)
     DEF R!Crash, P!Crash, R!EndTick, P!EndTick
<1>18. \A p : R!StorageWorks(p) = P!StorageWorks(p)
  BY ZenonT(30)
     DEF R!StorageWorks, P!StorageWorks, R!Bind, P!Bind, R!RoundUp, P!RoundUp, R!CeilDiv,
         P!CeilDiv, R!Touch, P!Touch, R!EnvUnchanged, P!EnvUnchanged, R!ExpansionStarts,
         P!ExpansionStarts, R!Expanding, P!Expanding, R!FileSystemPending,
         P!FileSystemPending, R!ExpansionDone, P!ExpansionDone, R!AllFailKinds,
         P!AllFailKinds, R!ExpansionFails, P!ExpansionFails, R!ModifyVolume,
         P!ModifyVolume
<1>19. R!UsersAct = P!UsersAct
  BY ZenonT(30)
     DEF R!UsersAct, P!UsersAct, R!UserResizes, P!UserResizes, R!Admits, P!Admits,
         R!Touch, P!Touch, R!EnvUnchanged, P!EnvUnchanged, R!UserGarblesAnnotation,
         P!UserGarblesAnnotation, R!Unparsable, P!Unparsable, R!UserEditsPolicies,
         P!UserEditsPolicies, R!ValidLists, P!ValidLists, R!validateVolumePolicies,
         P!validateVolumePolicies, R!TargetChanges, P!TargetChanges
<1>20. R!TimePasses = P!TimePasses
  BY ZenonT(30)
     DEF R!TimePasses, P!TimePasses
<1>21. R!RunnerWorks = P!RunnerWorks
  BY <1>1, <1>2, <1>3, <1>4, <1>5, <1>6, <1>7, <1>8, <1>9, <1>10,
     <1>11, <1>12, <1>13, <1>14, <1>15, <1>16, ZenonT(30)
     DEF R!RunnerWorks, P!RunnerWorks
<1> QED
  BY <1>17, <1>18, <1>19, <1>20, <1>21, ZenonT(30) DEF R!Next, P!Next

\* The same specification.
LEMMA SameRunner == R!Spec => P!Spec
<1>1. R!Init => P!Init
  BY ZenonT(30)
     DEF R!Init, P!Init, R!NoAnnotation, P!NoAnnotation, R!ValidLists, P!ValidLists,
         R!validateVolumePolicies, P!validateVolumePolicies, R!NoRecs, P!NoRecs, R!NoRec,
         P!NoRec, R!NoSize, P!NoSize, R!Never, P!Never, R!NoTick, P!NoTick, R!NoReading,
         P!NoReading, R!NoJob, P!NoJob, R!NoPatch, P!NoPatch
<1>2. [R!Next]_(R!vars) => [P!Next]_(P!vars)
  BY SameNext, ZenonT(30)
     DEF R!vars, P!vars, R!pvcVars, P!pvcVars, R!pvcaVars, P!pvcaVars, R!runVars,
         P!runVars, R!timeVars, P!timeVars
<1> QED
  BY <1>1, <1>2, PTL DEF R!Spec, P!Spec

\* The same invariants.
LEMMA SameInvariants ==
    P!TypeOK /\ P!PatchInv /\ P!RequestInv /\ P!TargetedInv => RunnerInv
<1>1. P!TypeOK => R!TypeOK
  BY ZenonT(30)
     DEF R!TypeOK, P!TypeOK, R!PVCTypeOK, P!PVCTypeOK, R!Unparsable, P!Unparsable,
         R!AllFailKinds, P!AllFailKinds, R!PVCATypeOK, P!PVCATypeOK, R!Policy, P!Policy,
         R!Strategies, P!Strategies, R!Rec, P!Rec, R!Never, P!Never, R!CondStatus,
         P!CondStatus, R!RunnerTypeOK, P!RunnerTypeOK, R!Ticks, P!Ticks, R!Reading,
         P!Reading, R!Jobs, P!Jobs, R!Patches, P!Patches
<1>2. P!PatchInv => R!PatchInv
  BY SameDecisions, ZenonT(30) DEF R!PatchInv, P!PatchInv
<1>3. P!RequestInv => R!RequestInv
  BY ZenonT(30)
     DEF R!RequestInv, P!RequestInv, R!ClaimInv, P!ClaimInv, R!NoAnnotation,
         P!NoAnnotation, R!Unparsable, P!Unparsable, R!Expanding, P!Expanding
<1>4. P!TargetedInv => R!TargetedInv
  BY SameValues, ZenonT(30) DEF R!TargetedInv, P!TargetedInv, R!OfTargets, P!OfTargets
<1> QED
  BY <1>1, <1>2, <1>3, <1>4 DEF RunnerInv

-----------------------------------------------------------------------------
(***************************************************************************)
(* The whole                                                               *)
(***************************************************************************)
\* The runner's invariants hold of the whole autoscaler.
LEMMA RunnerSound == Spec => []RunnerInv
<1>1. P!ExactWorld
  BY DEF P!ExactWorld
<1>2. P!Spec => [](P!TypeOK /\ P!PatchInv /\ P!RequestInv)
  BY <1>1, RunnerAssumptions, P!RequestsSound
<1>3. P!Spec => [](P!TypeOK /\ P!TickInv /\ P!TargetedInv)
  BY RunnerAssumptions, P!RecommendationsTargeted
<1> QED
  BY <1>2, <1>3, SameRunner, SameInvariants, RunnerOfTheWhole, PTL

\* What OfflineResize leaves to its environment covers all that the runner and the storage
\* system do: a scale-up finds the claim satisfied, a recovery leaves its resize
\* outstanding, and the runner recommends only for claims that Pods mount.
THEOREM AutoscalerImplementsController == Spec => ImplementsOfflineResize
<1>1. Init => O!Init
  BY DEF Init
<1>2. RunnerInv /\ ViewInv /\ [Next]_vars => ViewInv'
  BY ViewInvStep
<1>3. RunnerInv /\ RunnerInv' /\ ViewInv /\ [Next]_vars => [O!Next]_(O!vars)
  BY StepsOfController
<1> QED
  BY <1>1, <1>2, <1>3, ViewInvInit, RunnerSound, PTL DEF Spec, ImplementsOfflineResize, O!Spec

\* What is proved of the runner holds of the whole autoscaler: evictions, the gate and
\* crashes of the process make no resize overlap another, no scale-up exceed the maximum,
\* no recovery shrink a volume, and claims live as ClaimLife says.
THEOREM AutoscalerRequestsSafe ==
    Spec => /\ []P!NoPhantomResize
            /\ P!OneResizeAtATime
            /\ P!ScaleUpWithinMax
            /\ P!RecoveryAboveCapacity
            /\ P!ImplementsClaimLife
<1>1. P!ExactWorld
  BY DEF P!ExactWorld
<1>2. P!Spec => []P!NoPhantomResize
  BY <1>1, RunnerAssumptions, P!NoPhantom
<1>3. P!Spec => P!OneResizeAtATime
  BY <1>1, RunnerAssumptions, P!ResizesDoNotOverlap
<1>4. P!Spec => P!ScaleUpWithinMax
  BY RunnerAssumptions, P!MaxCapacityHonoured
<1>5. P!Spec => P!RecoveryAboveCapacity
  BY RunnerAssumptions, P!RecoverySafe
<1>6. P!Spec => P!ImplementsClaimLife
  BY <1>1, RunnerAssumptions, P!RunnerImplementsClaimLife
<1> QED
  BY <1>2, <1>3, <1>4, <1>5, <1>6, SameRunner, RunnerOfTheWhole, PTL

-----------------------------------------------------------------------------
(***************************************************************************)
(* Likewise the theorems about OfflineResize speak of C.                   *)
(***************************************************************************)
C == INSTANCE OfflineResizeProofs WITH
         WorkloadTarget <- TRUE, ResizeStrategies <- R!Strategies, Faults <- ControllerFaults,
         wanted    <- [p \in PVCs |-> cap[p] # 0 /\ spec[p] > cap[p]],
         annotated <- [p \in PVCs |-> prev[p] # R!NoAnnotation],
         pending   <- [p \in PVCs |-> "FileSystemResizePending" \in conds[p]],
         listed    <- {p \in PVCs : recs[PVCA][p] # R!NoRec},
         strategy  <- policies[PVCA][1].strategy

\* What OfflineResize assumes of its constants holds of these.
LEMMA ControllerAssumptions == C!WorkloadAssumption /\ C!ControllerAssumption
BY ControllerAssumption, Zenon
   DEF C!WorkloadAssumption, C!ControllerAssumption, R!Strategies, O!AllFaults, C!AllFaults

\* The same steps of the controller and its environment.
LEMMA SameControllerNext == O!Next = C!Next
<1> USE DEF O!claimVars, C!claimVars, O!podVars, C!podVars, O!pvcaVars, C!pvcaVars,
    O!queueVars, C!queueVars, O!NoWork, C!NoWork
<1>1. \A S : O!Cardinality(S) = C!Cardinality(S)
  BY ZenonT(30) DEF O!Cardinality, C!Cardinality, O!IsFiniteSet, C!IsFiniteSet
<1>2. ASSUME NEW p PROVE O!Reconcile(p) = C!Reconcile(p)
  BY <1>1, ZenonT(30)
     DEF O!Reconcile, C!Reconcile, O!Busy, C!Busy, O!Plan, C!Plan, O!GateIsDue, C!GateIsDue,
         O!PodsUsingPVC, C!PodsUsingPVC, O!Exists, C!Exists, O!HasOwningPVCA,
         C!HasOwningPVCA, O!IsOfflineResizeEnabled, C!IsOfflineResizeEnabled,
         O!IsOfflineResizeRequired, C!IsOfflineResizeRequired
<1>3. ASSUME NEW p PROVE O!ReconcileFails(p) = C!ReconcileFails(p)
  BY <1>1, ZenonT(30)
     DEF O!ReconcileFails, C!ReconcileFails, O!Busy, C!Busy
<1>4. ASSUME NEW p PROVE O!ReconcileDone(p) = C!ReconcileDone(p) /\ O!Requeue(p) = C!Requeue(p)
  BY ZenonT(30)
     DEF O!ReconcileDone, C!ReconcileDone, O!Return, C!Return, O!Requeue, C!Requeue
<1>5. ASSUME NEW p, NEW k PROVE O!RemoveGate(p, k) = C!RemoveGate(p, k)
  BY ZenonT(30)
     DEF O!RemoveGate, C!RemoveGate, O!Exists, C!Exists
<1>6. ASSUME NEW p, NEW k PROVE O!RemoveGateFails(p, k) = C!RemoveGateFails(p, k)
  BY ZenonT(30)
     DEF O!RemoveGateFails, C!RemoveGateFails, O!Return, C!Return, O!Exists, C!Exists
<1>7. ASSUME NEW p, NEW k PROVE O!Evict(p, k) = C!Evict(p, k)
  BY ZenonT(30)
     DEF O!Evict, C!Evict, O!Exists, C!Exists
<1>8. ASSUME NEW p, NEW k PROVE O!EvictPassesOver(p, k) = C!EvictPassesOver(p, k)
  BY ZenonT(30)
     DEF O!EvictPassesOver, C!EvictPassesOver, O!Exists, C!Exists
<1>9. ASSUME NEW p, NEW k PROVE O!EvictFails(p, k) = C!EvictFails(p, k)
  BY ZenonT(30)
     DEF O!EvictFails, C!EvictFails, O!Return, C!Return
<1>10. \A p : O!ControllerWorks(p) = C!ControllerWorks(p)
  BY <1>2, <1>3, <1>4, <1>5, <1>6, <1>7, <1>8, <1>9, ZenonT(30)
     DEF O!ControllerWorks, C!ControllerWorks
<1>11. \A p : O!ClaimEvent(p) = C!ClaimEvent(p)
  BY ZenonT(30)
     DEF O!ClaimEvent, C!ClaimEvent, O!PVCIsInResizeErrorOrFileSystemResizePending,
         C!PVCIsInResizeErrorOrFileSystemResizePending
<1>12. \A p : O!ClaimChanges(p) = C!ClaimChanges(p)
  <2>1. ASSUME NEW p PROVE O!ResizeRequested(p) = C!ResizeRequested(p) /\ O!ClaimTouched(p) = C!ClaimTouched(p)
    BY <1>11, ZenonT(30) DEF O!ResizeRequested, C!ResizeRequested, O!ClaimTouched, C!ClaimTouched
  <2>2. ASSUME NEW p, NEW kind PROVE O!ExpansionFails(p, kind) = C!ExpansionFails(p, kind)
    BY <1>11, ZenonT(30) DEF O!ExpansionFails, C!ExpansionFails, O!Attached, C!Attached
  <2>3. ASSUME NEW p PROVE O!VolumeExpanded(p) = C!VolumeExpanded(p)
    BY <1>11, ZenonT(30)
       DEF O!VolumeExpanded, C!VolumeExpanded, O!CanExpand, C!CanExpand, O!Attached, C!Attached,
           O!VolumeHasGrown, C!VolumeHasGrown
  <2>4. ASSUME NEW p PROVE O!ResizeDone(p) = C!ResizeDone(p)
    BY <1>11, ZenonT(30)
       DEF O!ResizeDone, C!ResizeDone, O!CanExpand, C!CanExpand, O!Attached, C!Attached,
           O!VolumeHasGrown, C!VolumeHasGrown
  <2> QED
    BY <2>1, <2>2, <2>3, <2>4, ZenonT(30) DEF O!ClaimChanges, C!ClaimChanges
<1>13. ASSUME NEW k PROVE O!Handle(k) = C!Handle(k)
  BY ZenonT(30)
     DEF O!Handle, C!Handle, O!ShouldGate, C!ShouldGate, O!NeedsOffline, C!NeedsOffline,
         O!HasOwningPVCA, C!HasOwningPVCA, O!IsOfflineResizeEnabled,
         C!IsOfflineResizeEnabled, O!IsOfflineResizeRequired, C!IsOfflineResizeRequired
<1>14. \A k : O!PodLives(k) = C!PodLives(k)
  BY <1>13, ZenonT(30)
     DEF O!PodLives, C!PodLives, O!PodStored, C!PodStored, O!PodCreated, C!PodCreated,
         O!MapPodToPVCs, C!MapPodToPVCs, O!PodScheduled, C!PodScheduled, O!PodRuns,
         C!PodRuns, O!PodGone, C!PodGone
<1>15. \A k : O!UserDeletesPod(k) = C!UserDeletesPod(k)
  BY ZenonT(30)
     DEF O!UserDeletesPod, C!UserDeletesPod, O!Exists, C!Exists
<1>16. O!Restart = C!Restart
  BY ZenonT(30)
     DEF O!Restart, C!Restart, O!PVCIsInResizeErrorOrFileSystemResizePending,
         C!PVCIsInResizeErrorOrFileSystemResizePending, O!MapPodToPVCs, C!MapPodToPVCs,
         O!Exists, C!Exists
<1>17. O!RunnerTick = C!RunnerTick /\ O!UserChangesStrategy = C!UserChangesStrategy
  BY ZenonT(30)
     DEF O!RunnerTick, C!RunnerTick, O!UserChangesStrategy, C!UserChangesStrategy,
         O!PVCAEvent, C!PVCAEvent, O!PVCARecommendationsOrPoliciesChanged,
         C!PVCARecommendationsOrPoliciesChanged, O!MapPVCAToPVCs, C!MapPVCAToPVCs
<1> QED
  BY <1>10, <1>12, <1>14, <1>15, <1>16, <1>17, ZenonT(30) DEF O!Next, C!Next

\* The same specification.
LEMMA SameController == O!Spec => C!Spec
<1>1. O!Init => C!Init
  BY ZenonT(30) DEF O!Init, C!Init, O!NoWork, C!NoWork
<1>2. [O!Next]_(O!vars) => [C!Next]_(C!vars)
  BY SameControllerNext, ZenonT(30)
     DEF O!vars, C!vars, O!claimVars, C!claimVars, O!podVars, C!podVars, O!pvcaVars,
         C!pvcaVars, O!queueVars, C!queueVars
<1> QED
  BY <1>1, <1>2, PTL DEF O!Spec, C!Spec

\* The same properties.
LEMMA SameGates == C!NoStrandedGate => O!NoStrandedGate
BY ZenonT(30)
   DEF O!NoStrandedGate, C!NoStrandedGate, O!Exists, C!Exists, O!GateIsDue, C!GateIsDue,
       O!Busy, C!Busy, O!NoWork, C!NoWork

LEMMA SameEvictions == C!EvictionNeeded => O!EvictionNeeded
<1>1. [C!EvictsIfNeeded]_(C!vars) => [O!EvictsIfNeeded]_(O!vars)
  BY ZenonT(30)
     DEF O!EvictsIfNeeded, C!EvictsIfNeeded, O!Evicted, C!Evicted, O!vars, C!vars,
         O!claimVars, C!claimVars, O!podVars, C!podVars, O!pvcaVars, C!pvcaVars,
         O!queueVars, C!queueVars
<1> QED
  BY <1>1, PTL DEF O!EvictionNeeded, C!EvictionNeeded

\* In the whole process, with the runner's ticks, patches and recoveries between the steps of
\* controller and webhook, no Pod keeps a gate that no event will remove, as long as
\* every expansion leaves the file system to the kubelet.
THEOREM AutoscalerStrandsNoGate ==
    ASSUME "noNodeExpansion" \notin ControllerFaults
    PROVE  Spec => []O!NoStrandedGate
<1>1. C!Spec => []C!NoStrandedGate
  BY ControllerAssumptions, C!NoGateStranded
<1> QED
  BY <1>1, SameController, SameGates, AutoscalerImplementsController, PTL DEF ImplementsOfflineResize

\* In the whole process, a Pod with one claim is evicted only while a scale-up of the runner
\* waits for its volume: recoveries keep the request above the capacity, and a volume
\* whose Pod is to be evicted does not grow before.
THEOREM AutoscalerEvictsWhenNeeded ==
    ASSUME O!SingleMounts, "delete" \notin ControllerFaults
    PROVE  Spec => EvictionNeeded
<1>1. C!SingleMounts
  BY DEF O!SingleMounts, C!SingleMounts
<1>2. C!Spec => C!EvictionNeeded
  BY <1>1, ControllerAssumptions, C!EvictionsNeeded
<1> QED
  BY <1>2, SameController, SameEvictions, AutoscalerImplementsController, PTL
     DEF ImplementsOfflineResize, EvictionNeeded

=============================================================================
