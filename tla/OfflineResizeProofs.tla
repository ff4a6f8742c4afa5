------------------------- MODULE OfflineResizeProofs -------------------------
(***************************************************************************)
(* No gate is stranded, no Pod is scheduled that has to be held, and none  *)
(* is evicted for nothing, for every set of claims and Pods and any number *)
(* of workers: what offline_policies and offline_faults check for two Pods *)
(* or claims.                                                              *)
(***************************************************************************)
EXTENDS OfflineResize, TLAPS

\* The controller's steps keep the types.
LEMMA ControllerTypes ==
    ASSUME TypeOK, NEW p \in PVCs, ControllerWorks(p)
    PROVE  TypeOK'
<1> USE DEF TypeOK, NoWork, Works
<1>1. CASE Reconcile(p)
  <2>1. Plan(p) \in Works
    BY DEF Plan, PodsUsingPVC
  <2> QED
    BY <1>1, <2>1 DEF Reconcile, claimVars, podVars, pvcaVars
<1>2. CASE ReconcileFails(p)
  BY <1>2 DEF ReconcileFails, claimVars, podVars, pvcaVars
<1>3. CASE ReconcileDone(p)
  BY <1>3 DEF ReconcileDone, Return, claimVars, podVars, pvcaVars
<1>4. CASE Requeue(p)
  BY <1>4 DEF Requeue, claimVars, podVars, pvcaVars
<1>5. ASSUME NEW k \in Pods, RemoveGate(p, k)
      PROVE  TypeOK'
  BY <1>5 DEF RemoveGate, claimVars, pvcaVars
<1>6. ASSUME NEW k \in Pods, RemoveGateFails(p, k)
      PROVE  TypeOK'
  BY <1>6 DEF RemoveGateFails, Return, claimVars, podVars, pvcaVars
<1>7. ASSUME NEW k \in Pods, Evict(p, k)
      PROVE  TypeOK'
  BY <1>7 DEF Evict, PodStates, claimVars, pvcaVars
<1>8. ASSUME NEW k \in Pods, EvictPassesOver(p, k)
      PROVE  TypeOK'
  BY <1>8 DEF EvictPassesOver, claimVars, podVars, pvcaVars
<1>9. ASSUME NEW k \in Pods, EvictFails(p, k)
      PROVE  TypeOK'
  BY <1>9 DEF EvictFails, Return, claimVars, podVars, pvcaVars
<1> QED
  BY <1>1, <1>2, <1>3, <1>4, <1>5, <1>6, <1>7, <1>8, <1>9 DEF ControllerWorks

\* So do the steps of Pods and claims.
LEMMA PodTypes ==
    ASSUME TypeOK, NEW k \in Pods, PodLives(k) \/ UserDeletesPod(k)
    PROVE  TypeOK'
<1> USE WorkloadAssumption DEF TypeOK, PodStates, claimVars, pvcaVars, queueVars
<1>1. CASE Handle(k)
  <2>1. ShouldGate(k) \in BOOLEAN
    BY DEF ShouldGate
  <2> QED
    BY <1>1, <2>1, Zenon DEF Handle
<1>2. CASE PodStored(k)
  BY <1>2 DEF PodStored, PodCreated, MapPodToPVCs
<1>3. CASE PodScheduled(k)
  BY <1>3 DEF PodScheduled
<1>4. CASE PodRuns(k)
  BY <1>4 DEF PodRuns
<1>5. CASE PodGone(k)
  BY <1>5 DEF PodGone
<1>6. CASE UserDeletesPod(k)
  BY <1>6 DEF UserDeletesPod
<1> QED
  BY <1>1, <1>2, <1>3, <1>4, <1>5, <1>6 DEF PodLives

LEMMA ClaimTypes ==
    ASSUME TypeOK, NEW p \in PVCs, ClaimChanges(p)
    PROVE  TypeOK'
<1> USE DEF TypeOK, ClaimEvent, claimVars, podVars, pvcaVars
<1>1. CASE ResizeRequested(p)
  BY <1>1 DEF ResizeRequested
<1>2. CASE ClaimTouched(p)
  BY <1>2 DEF ClaimTouched
<1>3. ASSUME NEW kind \in ErrorKinds, ExpansionFails(p, kind)
      PROVE  TypeOK'
  BY <1>3, ControllerAssumption DEF ExpansionFails
<1>4. CASE VolumeExpanded(p)
  BY <1>4 DEF VolumeExpanded, VolumeHasGrown
<1>5. CASE ResizeDone(p)
  BY <1>5 DEF ResizeDone, VolumeHasGrown
<1> QED
  BY <1>1, <1>2, <1>3, <1>4, <1>5 DEF ClaimChanges

LEMMA TypeStep == TypeOK /\ [Next]_vars => TypeOK'
<1> SUFFICES ASSUME TypeOK, [Next]_vars
             PROVE  TypeOK'
  OBVIOUS
<1>1. CASE Restart
  BY <1>1, WorkloadAssumption
     DEF Restart, TypeOK, MapPodToPVCs, NoWork, Works, claimVars, podVars, pvcaVars
<1>2. CASE RunnerTick
  BY <1>2, WorkloadAssumption DEF RunnerTick, TypeOK, PVCAEvent, MapPVCAToPVCs, claimVars, podVars
<1>3. CASE UserChangesStrategy
  BY <1>3 DEF UserChangesStrategy, TypeOK, PVCAEvent, MapPVCAToPVCs, claimVars, podVars
<1>4. CASE UNCHANGED vars
  BY <1>4 DEF vars, TypeOK, claimVars, podVars, pvcaVars, queueVars
<1> QED
  BY <1>1, <1>2, <1>3, <1>4, ControllerTypes, PodTypes, ClaimTypes DEF Next

\* Types are kept by every step.
THEOREM OfflineTypeCorrect == Spec => []TypeOK
<1>1. Init => TypeOK
  BY DEF Init, TypeOK, PodStates, NoWork, Works
<1> QED
  BY <1>1, TypeStep, PTL DEF Spec

-----------------------------------------------------------------------------
Safe == TypeOK /\ GateInv /\ NoStrandedGate

\* A Reconcile that is through with one Pod is still the same Reconcile.
LEMMA PodDealtWith ==
    ASSUME TypeOK, NEW p \in PVCs, NEW k, work[p].step # "none",
           work' = [work EXCEPT ![p].todo = @ \ {k}]
    PROVE  /\ work'[p].step = work[p].step
           /\ work'[p].todo = work[p].todo \ {k}
           /\ \A q \in PVCs \ {p} : work'[q] = work[q]
           /\ Busy' = Busy
<1>1. work[p] \in Works /\ work'[p] = [work[p] EXCEPT !.todo = @ \ {k}]
  BY DEF TypeOK
<1>2. work'[p].step = work[p].step /\ work'[p].todo = work[p].todo \ {k}
  BY <1>1 DEF Works
<1>3. \A q \in PVCs \ {p} : work'[q] = work[q]
  BY DEF TypeOK
<1>4. work[p] # NoWork /\ work'[p] # NoWork
  BY <1>2 DEF NoWork
<1> QED
  BY <1>2, <1>3, <1>4 DEF Busy

\* A step strands no gate when it brings no gate and no Pod, makes no gate due, forgets no
\* claim, and lets a Reconcile that removes gates drop a Pod only with its gate.
LEMMA GatesKept ==
    ASSUME GateInv, NoStrandedGate, UNCHANGED <<claimVars, pvcaVars>>,
           \A k \in Pods : (gated'[k] => gated[k]) /\ (Exists(k)' => Exists(k)),
           queue \cup delayed \cup Busy \subseteq (queue \cup delayed \cup Busy)',
           \A q \in PVCs : work'[q].step = "remove" =>
               /\ work[q].step = "remove"
               /\ q \in queue => q \in queue'
               /\ \A k \in work[q].todo : gated'[k] => k \in work'[q].todo
    PROVE  GateInv' /\ NoStrandedGate'
<1>1. \A q : GateIsDue(q)' = GateIsDue(q)
  BY DEF GateIsDue, claimVars
<1>2. GateInv'
  BY DEF GateInv, claimVars
<1>3. NoStrandedGate'
  <2> SUFFICES ASSUME NEW k \in Pods, Exists(k)', gated'[k]
               PROVE  \E q \in Mounts[k] : ~GateIsDue(q)' \/ q \in (queue \cup delayed \cup Busy)'
    BY DEF NoStrandedGate
  <2>1. PICK q \in Mounts[k] : ~GateIsDue(q) \/ q \in queue \cup delayed \cup Busy
    BY DEF NoStrandedGate
  <2> QED
    BY <1>1, <2>1
<1> QED
  BY <1>2, <1>3

\* The controller's steps strand no gate: a Reconcile that ends without a retry has
\* removed the gates it knows of, and the others have put the claim into the queue.
LEMMA ControllerGates ==
    ASSUME Safe, NEW p \in PVCs, ControllerWorks(p)
    PROVE  GateInv' /\ NoStrandedGate'
<1>0. /\ GateInv /\ NoStrandedGate
      /\ pod \in [Pods -> PodStates] /\ gated \in [Pods -> BOOLEAN] /\ work \in [PVCs -> Works]
      /\ wanted \in [PVCs -> BOOLEAN] /\ annotated \in [PVCs -> BOOLEAN] /\ pending \in [PVCs -> BOOLEAN]
      /\ DOMAIN error = PVCs
  BY DEF Safe, TypeOK
<1> USE <1>0 DEF GateInv, NoStrandedGate, Busy, GateIsDue, Exists, claimVars, podVars, pvcaVars,
            NoWork, Works
<1>1. CASE Reconcile(p)
  <2>1. GateIsDue(p) => Plan(p).step = "remove" /\ Plan(p).todo = {k \in Pods : Exists(k) /\ p \in Mounts[k] /\ gated[k]}
    BY DEF Plan, PodsUsingPVC
  <2>2. ~GateIsDue(p) => Plan(p).step # "remove"
    BY DEF Plan
  <2>3. GateInv'
    BY <1>1, <2>1, <2>2 DEF Reconcile
  <2>4. NoStrandedGate'
    BY <1>1, <2>1 DEF Reconcile
  <2> QED
    BY <2>3, <2>4, Zenon
<1>2. CASE ReconcileFails(p)
  <2>1. work[p].step # "remove"
    BY <1>2 DEF ReconcileFails
  <2>2. UNCHANGED <<claimVars, podVars, pvcaVars, work>> /\ queue' = queue \ {p} /\ delayed' = delayed \cup {p}
    BY <1>2 DEF ReconcileFails
  <2>3. Busy' = Busy /\ \A j \in Pods : Exists(j)' = Exists(j)
    BY <2>2
  <2> HIDE DEF GateInv, NoStrandedGate, Busy, GateIsDue, Exists, NoWork, Works, claimVars, pvcaVars
  <2> QED
    BY <2>1, <2>2, <2>3, GatesKept
<1>3. CASE ReconcileDone(p)
  <2>1. GateInv'
    BY <1>3 DEF ReconcileDone, Return
  <2>2. NoStrandedGate'
    BY <1>3 DEF ReconcileDone, Return
  <2> QED
    BY <2>1, <2>2
<1>4. CASE Requeue(p)
  <2>1. UNCHANGED <<claimVars, podVars, pvcaVars, work>> /\ queue' = queue \cup {p} /\ delayed' = delayed \ {p}
    BY <1>4 DEF Requeue
  <2>2. Busy' = Busy /\ \A j \in Pods : Exists(j)' = Exists(j)
    BY <2>1
  <2> HIDE DEF GateInv, NoStrandedGate, Busy, GateIsDue, Exists, NoWork, Works, claimVars, pvcaVars
  <2> QED
    BY <2>1, <2>2, GatesKept
<1>5. ASSUME NEW k \in Pods, RemoveGate(p, k)
      PROVE  GateInv' /\ NoStrandedGate'
  <2> HIDE <1>0 DEF GateInv, NoStrandedGate, Busy, GateIsDue, NoWork, Works
  <2>1. TypeOK /\ work[p].step # "none" /\ work' = [work EXCEPT ![p].todo = @ \ {k}]
    BY <1>5 DEF Safe, RemoveGate
  <2>2. /\ work'[p].step = work[p].step /\ work'[p].todo = work[p].todo \ {k}
        /\ \A q \in PVCs \ {p} : work'[q] = work[q]
        /\ Busy' = Busy
    <3> HIDE DEF Exists, claimVars, podVars, pvcaVars
    <3> QED
      BY <2>1, PodDealtWith, Zenon
  <2>3. /\ UNCHANGED <<claimVars, pvcaVars, queue, delayed>>
        /\ \A j \in Pods : (gated'[j] => gated[j]) /\ (Exists(j)' => Exists(j))
        /\ ~gated'[k]
    BY <1>0, <1>5 DEF RemoveGate
  <2> HIDE DEF Exists, claimVars, podVars, pvcaVars
  <2>4. \A q \in PVCs : work'[q].step = "remove" =>
            work[q].step = "remove" /\ \A j \in work[q].todo : gated'[j] => j \in work'[q].todo
    BY <2>2, <2>3
  <2> QED
    BY <1>0, <2>2, <2>3, <2>4, GatesKept
<1>6. ASSUME NEW k \in Pods, RemoveGateFails(p, k)
      PROVE  GateInv' /\ NoStrandedGate'
  <2>1. /\ UNCHANGED <<claimVars, podVars, pvcaVars, queue>>
        /\ work' = [work EXCEPT ![p] = NoWork] /\ delayed' = delayed \cup {p}
    BY <1>6 DEF RemoveGateFails, Return
  <2>2. work'[p].step # "remove" /\ \A q \in PVCs \ {p} : work'[q] = work[q]
    BY <2>1
  <2>3. Busy \subseteq Busy' \cup {p} /\ \A j \in Pods : Exists(j)' = Exists(j)
    BY <2>1
  <2> HIDE DEF GateInv, NoStrandedGate, Busy, GateIsDue, Exists, NoWork, Works, claimVars, pvcaVars
  <2> QED
    BY <2>1, <2>2, <2>3, GatesKept
<1>7. ASSUME NEW k \in Pods, Evict(p, k)
      PROVE  GateInv' /\ NoStrandedGate'
  <2> HIDE <1>0 DEF GateInv, NoStrandedGate, Busy, GateIsDue, NoWork, Works
  <2>1. TypeOK /\ work[p].step # "none" /\ work' = [work EXCEPT ![p].todo = @ \ {k}]
    BY <1>7 DEF Safe, Evict
  <2>2. /\ work'[p].step = work[p].step /\ work'[p].todo = work[p].todo \ {k}
        /\ \A q \in PVCs \ {p} : work'[q] = work[q]
        /\ Busy' = Busy
    <3> HIDE DEF Exists, claimVars, podVars, pvcaVars
    <3> QED
      BY <2>1, PodDealtWith, Zenon
  <2>3. /\ UNCHANGED <<claimVars, pvcaVars, queue, delayed>>
        /\ \A j \in Pods : (gated'[j] => gated[j]) /\ (Exists(j)' => Exists(j))
        /\ work[p].step = "evict"
    BY <1>0, <1>7 DEF Evict
  <2> HIDE DEF Exists, claimVars, podVars, pvcaVars
  <2>4. \A q \in PVCs : work'[q].step = "remove" =>
            work[q].step = "remove" /\ \A j \in work[q].todo : gated'[j] => j \in work'[q].todo
    BY <2>2, <2>3
  <2> QED
    BY <1>0, <2>2, <2>3, <2>4, GatesKept
<1>8. ASSUME NEW k \in Pods, EvictPassesOver(p, k)
      PROVE  GateInv' /\ NoStrandedGate'
  <2> HIDE <1>0 DEF GateInv, NoStrandedGate, Busy, GateIsDue, NoWork, Works
  <2>1. TypeOK /\ work[p].step # "none" /\ work' = [work EXCEPT ![p].todo = @ \ {k}]
    BY <1>8 DEF Safe, EvictPassesOver
  <2>2. /\ work'[p].step = work[p].step /\ work'[p].todo = work[p].todo \ {k}
        /\ \A q \in PVCs \ {p} : work'[q] = work[q]
        /\ Busy' = Busy
    <3> HIDE DEF Exists, claimVars, podVars, pvcaVars
    <3> QED
      BY <2>1, PodDealtWith, Zenon
  <2>3. /\ UNCHANGED <<claimVars, pvcaVars, queue, delayed>>
        /\ \A j \in Pods : (gated'[j] => gated[j]) /\ (Exists(j)' => Exists(j))
        /\ work[p].step = "evict"
    BY <1>0, <1>8 DEF EvictPassesOver
  <2> HIDE DEF Exists, claimVars, podVars, pvcaVars
  <2>4. \A q \in PVCs : work'[q].step = "remove" =>
            work[q].step = "remove" /\ \A j \in work[q].todo : gated'[j] => j \in work'[q].todo
    BY <2>2, <2>3
  <2> QED
    BY <1>0, <2>2, <2>3, <2>4, GatesKept
<1>9. ASSUME NEW k \in Pods, EvictFails(p, k)
      PROVE  GateInv' /\ NoStrandedGate'
  <2>1. /\ UNCHANGED <<claimVars, podVars, pvcaVars, queue>>
        /\ work' = [work EXCEPT ![p] = NoWork] /\ delayed' = delayed \cup {p}
    BY <1>9 DEF EvictFails, Return
  <2>2. work'[p].step # "remove" /\ \A q \in PVCs \ {p} : work'[q] = work[q]
    BY <2>1
  <2>3. Busy \subseteq Busy' \cup {p} /\ \A j \in Pods : Exists(j)' = Exists(j)
    BY <2>1
  <2> HIDE DEF GateInv, NoStrandedGate, Busy, GateIsDue, Exists, NoWork, Works, claimVars, pvcaVars
  <2> QED
    BY <2>1, <2>2, <2>3, GatesKept
<1> HIDE <1>0 DEF GateInv, NoStrandedGate
<1> QED
  BY <1>1, <1>2, <1>3, <1>4, <1>5, <1>6, <1>7, <1>8, <1>9 DEF ControllerWorks

\* A Pod that is stored with a gate puts all its claims into the queue.
LEMMA PodGates ==
    ASSUME Safe, NEW k \in Pods, PodLives(k) \/ UserDeletesPod(k)
    PROVE  GateInv' /\ NoStrandedGate'
<1>0. /\ GateInv /\ NoStrandedGate
      /\ pod \in [Pods -> PodStates] /\ gated \in [Pods -> BOOLEAN] /\ work \in [PVCs -> Works]
      /\ wanted \in [PVCs -> BOOLEAN] /\ annotated \in [PVCs -> BOOLEAN] /\ pending \in [PVCs -> BOOLEAN]
      /\ DOMAIN error = PVCs
  BY DEF Safe, TypeOK
<1> USE <1>0, WorkloadAssumption
    DEF GateInv, NoStrandedGate, Busy, GateIsDue, Exists, claimVars, pvcaVars, queueVars
<1>1. CASE Handle(k)
  <2>1. ShouldGate(k) => Mounts[k] # {}
    BY DEF ShouldGate
  <2>2. \A j \in Pods : Exists(j)' => j # k /\ Exists(j)
    BY <1>1 DEF Handle
  <2>3. \A j \in Pods : gated'[j] => gated[j] \/ (j = k /\ ShouldGate(k))
    BY <1>1 DEF Handle
  <2> QED
    BY <1>1, <2>1, <2>2, <2>3 DEF Handle
<1>2. CASE PodStored(k)
  BY <1>2 DEF PodStored, PodCreated, MapPodToPVCs
<1>3. CASE PodScheduled(k)
  BY <1>3 DEF PodScheduled
<1>4. CASE PodRuns(k)
  BY <1>4 DEF PodRuns
<1>5. CASE PodGone(k)
  BY <1>5 DEF PodGone
<1>6. CASE UserDeletesPod(k)
  BY <1>6 DEF UserDeletesPod
<1> HIDE <1>0 DEF GateInv, NoStrandedGate
<1> QED
  BY <1>1, <1>2, <1>3, <1>4, <1>5, <1>6 DEF PodLives

\* An expansion that makes a gate due is an event, as the claim is annotated.
LEMMA ClaimGates ==
    ASSUME Safe, "noNodeExpansion" \notin Faults, NEW p \in PVCs, ClaimChanges(p)
    PROVE  GateInv' /\ NoStrandedGate'
<1>0. /\ GateInv /\ NoStrandedGate
      /\ pod \in [Pods -> PodStates] /\ gated \in [Pods -> BOOLEAN] /\ work \in [PVCs -> Works]
      /\ wanted \in [PVCs -> BOOLEAN] /\ annotated \in [PVCs -> BOOLEAN] /\ pending \in [PVCs -> BOOLEAN]
      /\ DOMAIN error = PVCs
  BY DEF Safe, TypeOK
<1> USE <1>0 DEF GateInv, NoStrandedGate, Busy, GateIsDue, Exists, podVars, pvcaVars, claimVars,
            ClaimEvent, PVCIsInResizeErrorOrFileSystemResizePending
<1>1. CASE ResizeRequested(p)
  BY <1>1 DEF ResizeRequested
<1>2. CASE ClaimTouched(p)
  BY <1>2 DEF ClaimTouched
<1>3. ASSUME NEW kind \in ErrorKinds, ExpansionFails(p, kind)
      PROVE  GateInv' /\ NoStrandedGate'
  BY <1>3, ControllerAssumption DEF ExpansionFails
<1>4. CASE VolumeExpanded(p)
  <2>1. annotated'[p] /\ pending'[p] /\ queue' = queue \cup {p}
    BY <1>4 DEF VolumeExpanded, CanExpand
  <2>2. GateInv'
    BY <1>4, <2>1 DEF VolumeExpanded
  <2>3. \A q \in PVCs \ {p} : pending'[q] = pending[q] /\ error'[q] = error[q]
    BY <1>4 DEF VolumeExpanded
  <2>4. Busy' = Busy
    BY <1>4 DEF VolumeExpanded
  <2>5. \A q \in PVCs \ {p} : GateIsDue(q)' = GateIsDue(q)
    BY <2>3
  <2>6. UNCHANGED <<pod, gated, delayed>> /\ \A j \in Pods : Exists(j)' = Exists(j)
    BY <1>4 DEF VolumeExpanded
  <2>7. NoStrandedGate'
    <3> HIDE DEF Busy, GateIsDue, Exists
    <3> SUFFICES ASSUME NEW j \in Pods, Exists(j)', gated'[j]
                 PROVE  \E q \in Mounts[j] : ~GateIsDue(q)' \/ q \in (queue \cup delayed \cup Busy)'
      OBVIOUS
    <3>1. PICK q \in Mounts[j] : ~GateIsDue(q) \/ q \in queue \cup delayed \cup Busy
      BY <2>6
    <3>2. q \in PVCs
      BY WorkloadAssumption
    <3> QED
      BY <2>1, <2>4, <2>5, <2>6, <3>1, <3>2
  <2> QED
    BY <2>2, <2>7
<1>5. CASE ResizeDone(p)
  BY <1>5 DEF ResizeDone
<1> HIDE <1>0 DEF GateInv, NoStrandedGate
<1> QED
  BY <1>1, <1>2, <1>3, <1>4, <1>5 DEF ClaimChanges

LEMMA SafeStep ==
    ASSUME "noNodeExpansion" \notin Faults
    PROVE  Safe /\ [Next]_vars => Safe'
<1> SUFFICES ASSUME Safe, [Next]_vars
             PROVE  Safe'
  OBVIOUS
<1>1. TypeOK'
  BY TypeStep DEF Safe
<1> SUFFICES GateInv' /\ NoStrandedGate'
  BY <1>1 DEF Safe
<1>0. /\ GateInv /\ NoStrandedGate
      /\ pod \in [Pods -> PodStates] /\ gated \in [Pods -> BOOLEAN] /\ work \in [PVCs -> Works]
      /\ wanted \in [PVCs -> BOOLEAN] /\ annotated \in [PVCs -> BOOLEAN] /\ pending \in [PVCs -> BOOLEAN]
      /\ DOMAIN error = PVCs
  BY DEF Safe, TypeOK
<1> USE <1>0 DEF GateInv, NoStrandedGate, Busy, GateIsDue, Exists, claimVars, podVars, pvcaVars
<1>2. CASE Restart
  BY <1>2, WorkloadAssumption DEF Restart, MapPodToPVCs, NoWork
<1>3. CASE RunnerTick
  BY <1>3 DEF RunnerTick, PVCAEvent
<1>4. CASE UserChangesStrategy
  BY <1>4 DEF UserChangesStrategy, PVCAEvent
<1>5. CASE UNCHANGED vars
  BY <1>5 DEF vars, queueVars
<1>6. ASSUME NEW p \in PVCs, ControllerWorks(p) \/ ClaimChanges(p)
      PROVE  GateInv' /\ NoStrandedGate'
  BY <1>1, <1>6, ControllerGates, ClaimGates, Zenon
<1>7. ASSUME NEW k \in Pods, PodLives(k) \/ UserDeletesPod(k)
      PROVE  GateInv' /\ NoStrandedGate'
  BY <1>1, <1>7, PodGates, Zenon
<1> HIDE <1>0 DEF GateInv, NoStrandedGate
<1> QED
  BY <1>2, <1>3, <1>4, <1>5, <1>6, <1>7 DEF Next

\* No gate is stranded, however calls fail, Pods and processes die, users change the
\* strategy and the runner drops recommendations, as long as every expansion leaves
\* the file system to the kubelet: the gate of a Pod stays only while one of its
\* claims is in error or a Reconcile of one of them is to come.
THEOREM NoGateStranded ==
    ASSUME "noNodeExpansion" \notin Faults
    PROVE  Spec => []NoStrandedGate
<1>1. Init => Safe
  BY DEF Init, Safe, TypeOK, GateInv, NoStrandedGate, PodStates, NoWork, Works
<1>2. Safe => NoStrandedGate
  BY DEF Safe
<1> QED
  BY <1>1, <1>2, SafeStep, PTL DEF Spec

-----------------------------------------------------------------------------
(***************************************************************************)
(* Pods are held                                                           *)
(***************************************************************************)
\* Where nobody but the controller makes Pods go, the webhook answers, and the runner
\* keeps its recommendations.
Undisturbed == Faults \cap {"webhook", "delete", "runner"} = {}

\* A Reconcile plans to remove the gates of Pods that need not be held, and to evict
\* Pods that run and whose claim has an owner.
LEMMA PlanHolds ==
    ASSUME TypeOK, HoldInv, SingleMounts, NEW p \in PVCs, NEW k \in Plan(p).todo
    PROVE  /\ k \in Pods /\ p \in Mounts[k]
           /\ Plan(p).step = "remove" => pod[k] = "waiting" /\ gated[k] /\ needed[k] = {}
           /\ Plan(p).step = "evict" => p \in listed /\ pod[k] = "running"
<1>1. CASE GateIsDue(p)
  <2>1. Plan(p).step = "remove" /\ k \in Pods /\ Exists(k) /\ p \in Mounts[k] /\ gated[k]
    BY <1>1 DEF Plan, PodsUsingPVC
  <2>2. pod[k] = "waiting"
    BY <2>1 DEF HoldInv, Exists
  <2>3. needed[k] = {}
    BY <1>1, <2>1 DEF HoldInv, SingleMounts
  <2> QED
    BY <2>1, <2>2, <2>3
<1>2. CASE ~GateIsDue(p)
  BY <1>2 DEF Plan, PodsUsingPVC, HasOwningPVCA, NoWork
<1> QED
  BY <1>1, <1>2, Zenon

\* The controller evicts Pods whose successors will be held, and removes no gate that
\* is still needed.
LEMMA ControllerHolds ==
    ASSUME TypeOK, HoldInv, SingleMounts, NEW p \in PVCs, ControllerWorks(p)
    PROVE  HoldInv'
<1>0. /\ pod \in [Pods -> PodStates] /\ gated \in [Pods -> BOOLEAN] /\ work \in [PVCs -> Works]
      /\ \A q \in PVCs : work[q].todo \subseteq Pods
  BY DEF TypeOK, Works
<1>1. CASE Reconcile(p)
  <2>1. UNCHANGED <<claimVars, podVars, pvcaVars>> /\ work' = [work EXCEPT ![p] = Plan(p)]
    BY <1>1 DEF Reconcile
  <2>2. \A k \in Plan(p).todo : 
           /\ p \in Mounts[k]
           /\ Plan(p).step = "remove" => pod[k] = "waiting" /\ gated[k] /\ needed[k] = {}
           /\ Plan(p).step = "evict" => p \in listed /\ pod[k] = "running"
    BY PlanHolds, Zenon
  <2> QED
    BY <1>0, <2>1, <2>2 DEF HoldInv, GateIsDue, claimVars, podVars, pvcaVars
<1>2. CASE ReconcileFails(p) \/ Requeue(p)
  BY <1>2 DEF ReconcileFails, Requeue, HoldInv, GateIsDue, claimVars, podVars, pvcaVars
<1>3. CASE UNCHANGED <<claimVars, podVars, pvcaVars>> /\ work' = [work EXCEPT ![p] = NoWork]
  BY <1>0, <1>3 DEF HoldInv, GateIsDue, NoWork, claimVars, podVars, pvcaVars
<1>4. CASE ReconcileDone(p)
  BY <1>3, <1>4 DEF ReconcileDone, Return
<1>5. ASSUME NEW k \in Pods, RemoveGateFails(p, k) \/ EvictFails(p, k)
      PROVE  HoldInv'
  BY <1>3, <1>5 DEF RemoveGateFails, EvictFails, Return
<1>6. ASSUME NEW k \in Pods, RemoveGate(p, k) \/ Evict(p, k) \/ EvictPassesOver(p, k)
      PROVE  HoldInv'
  <2>1. work[p].step # "none" /\ work' = [work EXCEPT ![p].todo = @ \ {k}]
    BY <1>6 DEF RemoveGate, Evict, EvictPassesOver
  <2>2. /\ work'[p].step = work[p].step /\ work'[p].todo = work[p].todo \ {k}
        /\ \A q \in PVCs \ {p} : work'[q] = work[q]
    BY <2>1, PodDealtWith, Zenon
  <2>3. UNCHANGED <<error, pending, needed, listed>> /\ k \in work[p].todo
    BY <1>6 DEF RemoveGate, Evict, EvictPassesOver, claimVars, podVars, pvcaVars
  <2>4. \A q \in PVCs \ {p} : k \notin work[q].todo
    BY <2>3 DEF HoldInv, SingleMounts
  <2>5. \A q : GateIsDue(q)' = GateIsDue(q)
    BY <2>3 DEF GateIsDue
  <2>6. CASE RemoveGate(p, k)
    <3>1. UNCHANGED pod /\ gated' = [gated EXCEPT ![k] = FALSE] /\ needed[k] = {}
      BY <2>6 DEF RemoveGate, HoldInv
    <3> QED
      BY <1>0, <2>2, <2>3, <2>4, <2>5, <3>1 DEF HoldInv
  <2>7. CASE Evict(p, k)
    <3>1. UNCHANGED gated /\ pod' = [pod EXCEPT ![k] = "terminating"] /\ ~gated[k]
      BY <1>0, <2>7 DEF Evict, HoldInv
    <3>2. Mounts[k] \subseteq listed
      BY <2>7 DEF Evict, HoldInv, SingleMounts
    <3> QED
      BY <1>0, <2>2, <2>3, <2>4, <2>5, <3>1, <3>2 DEF HoldInv
  <2>8. CASE EvictPassesOver(p, k)
    <3>1. UNCHANGED <<pod, gated>>
      BY <2>8 DEF EvictPassesOver, podVars
    <3> QED
      BY <2>2, <2>3, <2>5, <3>1 DEF HoldInv
  <2> QED
    BY <1>6, <2>6, <2>7, <2>8
<1> QED
  BY <1>1, <1>2, <1>4, <1>5, <1>6 DEF ControllerWorks

\* The webhook gates a Pod whose claim has to be resized offline: the claim has the owner
\* for which its last Pod was evicted.
LEMMA PodHolds ==
    ASSUME TypeOK, HoldInv, SingleMounts, Undisturbed, NEW k \in Pods, PodLives(k)
    PROVE  HoldInv'
<1>0. /\ pod \in [Pods -> PodStates] /\ gated \in [Pods -> BOOLEAN] /\ needed \in [Pods -> SUBSET PVCs]
      /\ \A q \in PVCs : work[q].todo \subseteq Pods
  BY DEF TypeOK, Works
<1>1. CASE Handle(k)
  <2>1. /\ pod[k] = "absent" /\ pod' = [pod EXCEPT ![k] = "admitted"]
        /\ gated' = [gated EXCEPT ![k] = ShouldGate(k)]
        /\ needed' = [needed EXCEPT ![k] = {p \in Mounts[k] : NeedsOffline(p) /\ IsOfflineResizeEnabled}]
        /\ UNCHANGED <<error, pending, listed, work>>
    BY <1>1 DEF Handle, Undisturbed, claimVars, pvcaVars, queueVars
  <2>2. \A p \in needed'[k] : p \in Mounts[k] /\ ShouldGate(k) /\ ~GateIsDue(p)
    BY <1>0, <2>1 DEF HoldInv, ShouldGate, HasOwningPVCA, NeedsOffline, IsOfflineResizeRequired, GateIsDue
  <2>3. \A q : GateIsDue(q)' = GateIsDue(q)
    BY <2>1 DEF GateIsDue
  <2>4. \A p \in PVCs : k \in work[p].todo => work[p].step \notin {"remove", "evict"}
    BY <2>1 DEF HoldInv
  <2>5. ShouldGate(k) \in BOOLEAN
    BY DEF ShouldGate
  <2> HIDE DEF ShouldGate
  <2> QED
    BY <1>0, <2>1, <2>2, <2>3, <2>4, <2>5 DEF HoldInv
<1>2. CASE PodStored(k) \/ PodScheduled(k) \/ PodRuns(k)
  <2>1. UNCHANGED <<error, pending, gated, needed, listed, work>>
    BY <1>2 DEF PodStored, PodScheduled, PodRuns, claimVars, pvcaVars, queueVars
  <2>2. \E to \in {"waiting", "starting", "running"} :
           /\ pod' = [pod EXCEPT ![k] = to]
           /\ pod[k] \notin {"running", "terminating", "absent"}
           /\ to # "waiting" => ~gated[k]
    BY <1>0, <1>2 DEF PodStored, PodScheduled, PodRuns, HoldInv
  <2>3. \A q : GateIsDue(q)' = GateIsDue(q)
    BY <2>1 DEF GateIsDue
  <2> QED
    BY <1>0, <2>1, <2>2, <2>3 DEF HoldInv
<1>3. CASE PodGone(k)
  <2>1. /\ pod[k] = "terminating" /\ pod' = [pod EXCEPT ![k] = "absent"]
        /\ gated' = [gated EXCEPT ![k] = FALSE]
        /\ UNCHANGED <<error, pending, needed, listed, work>>
    BY <1>3 DEF PodGone, claimVars, pvcaVars, queueVars
  <2>2. needed[k] = {}
    BY <2>1 DEF HoldInv
  <2>3. \A q : GateIsDue(q)' = GateIsDue(q)
    BY <2>1 DEF GateIsDue
  <2> QED
    BY <1>0, <2>1, <2>2, <2>3 DEF HoldInv
<1> QED
  BY <1>1, <1>2, <1>3 DEF PodLives

\* A gate becomes due only when the volume has grown, and no Pod is to be held for it.
LEMMA ClaimHolds ==
    ASSUME TypeOK, HoldInv, NEW p \in PVCs, ClaimChanges(p)
    PROVE  HoldInv'
<1>0. /\ needed \in [Pods -> SUBSET PVCs] /\ pending \in [PVCs -> BOOLEAN] /\ DOMAIN error = PVCs
      /\ \A q \in PVCs : work[q].todo \subseteq Pods
  BY DEF TypeOK, Works
<1>1. UNCHANGED <<pod, gated, listed, work>>
  BY DEF ClaimChanges, ResizeRequested, ClaimTouched, ExpansionFails, VolumeExpanded, ResizeDone, podVars, pvcaVars
<1>2. \A q \in PVCs \ {p} : GateIsDue(q)' = GateIsDue(q)
  BY <1>0 DEF ClaimChanges, ResizeRequested, ClaimTouched, ExpansionFails, VolumeExpanded, ResizeDone,
              GateIsDue, claimVars
<1>3. \/ needed' = needed /\ (GateIsDue(p)' => GateIsDue(p))
      \/ needed' = [k \in Pods |-> needed[k] \ {p}]
  BY <1>0, ControllerAssumption
     DEF ClaimChanges, ResizeRequested, ClaimTouched, ExpansionFails, VolumeExpanded, ResizeDone,
         VolumeHasGrown, GateIsDue, claimVars, podVars
<1>4. \A k \in Pods : needed'[k] \subseteq needed[k] /\ \A q \in needed'[k] : ~GateIsDue(q) => ~GateIsDue(q)'
  BY <1>0, <1>2, <1>3
<1> QED
  BY <1>0, <1>1, <1>4 DEF HoldInv

LEMMA PodsHeldStep ==
    ASSUME SingleMounts, Undisturbed
    PROVE  TypeOK /\ HoldInv /\ [Next]_vars => HoldInv'
<1> SUFFICES ASSUME TypeOK, HoldInv, [Next]_vars
             PROVE  HoldInv'
  OBVIOUS
<1>1. CASE Restart
  BY <1>1 DEF Restart, HoldInv, GateIsDue, NoWork, claimVars, podVars, pvcaVars
<1>2. CASE RunnerTick
  <2>1. listed \subseteq listed' /\ UNCHANGED <<error, pending, podVars, work>>
    BY <1>2 DEF RunnerTick, Undisturbed, claimVars
  <2> QED
    BY <2>1 DEF HoldInv, GateIsDue, podVars
<1>3. CASE UserChangesStrategy
  BY <1>3 DEF UserChangesStrategy, HoldInv, GateIsDue, claimVars, podVars
<1>4. CASE UNCHANGED vars
  BY <1>4 DEF vars, HoldInv, GateIsDue, claimVars, podVars, pvcaVars, queueVars
<1>5. \A k \in Pods : ~UserDeletesPod(k)
  BY DEF UserDeletesPod, Undisturbed
<1> QED
  BY <1>1, <1>2, <1>3, <1>4, <1>5, ControllerHolds, PodHolds, ClaimHolds DEF Next

\* A Pod that was re-created while its volume had to be resized offline is scheduled only
\* when the resize is ready to be finalized, where each Pod mounts one claim, the
\* webhook answers, Pods die by evictions only and no recommendation is dropped:
\* whatever calls of the controller fail, whenever it restarts and however the
\* strategy changes.
THEOREM PodsHeld ==
    ASSUME SingleMounts, Undisturbed
    PROVE  Spec => HeldUntilReady
<1>1. Init => HoldInv
  BY DEF Init, HoldInv, NoWork
<1>2. TypeOK /\ HoldInv /\ [Next]_vars => HoldInv'
  BY PodsHeldStep
<1>3. ASSUME TypeOK, HoldInv, [Next]_vars, NEW k \in Pods, pod[k] = "waiting", pod'[k] = "starting"
      PROVE  needed[k] = {}
  <2>1. \E j \in Pods : PodScheduled(j) /\ j = k
    <3>1. pod' # pod
      BY <1>3
    <3>2. ASSUME NEW j \in Pods, NEW to \in {"terminating", "admitted", "waiting", "running", "absent"},
                 pod' = [pod EXCEPT ![j] = to]
          PROVE  FALSE
      BY <1>3, <3>2 DEF TypeOK
    <3>3. ASSUME NEW j \in Pods, PodScheduled(j)
          PROVE  j = k
      BY <1>3, <3>3 DEF PodScheduled, TypeOK
    <3>4. ASSUME NEW p \in PVCs, ControllerWorks(p) \/ ClaimChanges(p)
          PROVE  FALSE
      <4>1. ~ClaimChanges(p)
        BY <3>1 DEF ClaimChanges, ResizeRequested, ClaimTouched, ExpansionFails, VolumeExpanded,
                    ResizeDone, podVars
      <4>2. \E j \in Pods : Evict(p, j)
        BY <3>1, <3>4, <4>1, Zenon
           DEF ControllerWorks, Reconcile, ReconcileFails, ReconcileDone, Requeue, RemoveGate,
               RemoveGateFails, EvictPassesOver, EvictFails, podVars
      <4> QED
        BY <3>2, <4>2, Zenon DEF Evict
    <3>5. ASSUME NEW j \in Pods, PodLives(j) \/ UserDeletesPod(j)
          PROVE  PodScheduled(j)
      BY <3>2, <3>5 DEF PodLives, Handle, PodStored, PodRuns, PodGone, UserDeletesPod
    <3>6. ~Restart /\ ~RunnerTick /\ ~UserChangesStrategy /\ ~UNCHANGED vars
      BY <3>1, Zenon DEF Restart, RunnerTick, UserChangesStrategy, vars, podVars
    <3> QED
      BY <1>3, <3>3, <3>4, <3>5, <3>6 DEF Next
  <2>2. ~gated[k]
    BY <2>1 DEF PodScheduled
  <2> QED
    BY <1>3, <2>2 DEF HoldInv
<1>4. TypeOK /\ HoldInv /\ [Next]_vars =>
        [\A k \in Pods : pod[k] = "waiting" /\ pod'[k] = "starting" => needed[k] = {}]_vars
  BY <1>3
<1> QED
  BY <1>1, <1>2, <1>4, OfflineTypeCorrect, PTL DEF Spec, HeldUntilReady

-----------------------------------------------------------------------------
(***************************************************************************)
(* Evictions                                                               *)
(***************************************************************************)
\* The controller lists running Pods of a volume that waits to be detached, and takes
\* those it has evicted off the list.
LEMMA ControllerEvicts ==
    ASSUME TypeOK, EvictInv, SingleMounts, NEW p \in PVCs, ControllerWorks(p)
    PROVE  EvictInv'
<1>0. /\ pod \in [Pods -> PodStates] /\ work \in [PVCs -> Works]
      /\ \A q \in PVCs : work[q].todo \subseteq Pods
  BY DEF TypeOK, Works
<1>1. UNCHANGED claimVars
  BY Zenon DEF ControllerWorks, Reconcile, ReconcileFails, ReconcileDone, Requeue, RemoveGate,
               RemoveGateFails, Evict, EvictPassesOver, EvictFails
<1>2. CASE Reconcile(p)
  <2>1. UNCHANGED pod /\ work' = [work EXCEPT ![p] = Plan(p)]
    BY <1>2 DEF Reconcile, podVars
  <2>2. \A k \in Plan(p).todo :
           /\ p \in Mounts[k]
           /\ Plan(p).step = "evict" =>
                 pod[k] = "running" /\ wanted[p] /\ ~pending[p] /\ p \in OfflineOnly
    BY DEF Plan, PodsUsingPVC, GateIsDue, IsOfflineResizeRequired, EvictInv, NoWork
  <2> QED
    BY <1>0, <1>1, <2>1, <2>2 DEF EvictInv, claimVars
<1>3. CASE ReconcileFails(p) \/ Requeue(p)
  BY <1>1, <1>3 DEF ReconcileFails, Requeue, EvictInv, claimVars, podVars
<1>4. CASE UNCHANGED pod /\ work' = [work EXCEPT ![p] = NoWork]
  BY <1>0, <1>1, <1>4 DEF EvictInv, NoWork, claimVars
<1>5. CASE ReconcileDone(p)
  BY <1>4, <1>5 DEF ReconcileDone, Return, podVars
<1>6. ASSUME NEW k \in Pods, RemoveGateFails(p, k) \/ EvictFails(p, k)
      PROVE  EvictInv'
  BY <1>4, <1>6 DEF RemoveGateFails, EvictFails, Return, podVars
<1>7. ASSUME NEW k \in Pods, RemoveGate(p, k) \/ Evict(p, k) \/ EvictPassesOver(p, k)
      PROVE  EvictInv'
  <2>1. /\ work[p].step # "none" /\ work' = [work EXCEPT ![p].todo = @ \ {k}]
        /\ k \in work[p].todo
        /\ pod' = pod \/ pod' = [pod EXCEPT ![k] = "terminating"]
    BY <1>7 DEF RemoveGate, Evict, EvictPassesOver, podVars
  <2>2. /\ work'[p].step = work[p].step /\ work'[p].todo = work[p].todo \ {k}
        /\ \A q \in PVCs \ {p} : work'[q] = work[q]
    BY <2>1, PodDealtWith, Zenon
  <2>3. \A q \in PVCs \ {p} : k \notin work[q].todo
    BY <2>1 DEF EvictInv, SingleMounts
  <2>4. \A q \in PVCs : k \notin work'[q].todo
    BY <2>2, <2>3
  <2>5. \A q \in PVCs : /\ work'[q].step = work[q].step
                        /\ \A j \in work'[q].todo : j \in work[q].todo /\ pod'[j] = pod[j]
    BY <1>0, <2>1, <2>2, <2>4
  <2> QED
    BY <1>1, <2>5 DEF EvictInv, claimVars
<1> QED
  BY <1>2, <1>3, <1>5, <1>6, <1>7 DEF ControllerWorks

\* A Pod on the list stays as it is until the eviction arrives.
LEMMA PodEvicts ==
    ASSUME TypeOK, EvictInv, NEW k \in Pods, PodLives(k)
    PROVE  EvictInv'
<1>0. pod \in [Pods -> PodStates] /\ \A q \in PVCs : work[q].todo \subseteq Pods
  BY DEF TypeOK, Works
<1>1. UNCHANGED <<claimVars, work>>
  BY Zenon DEF PodLives, Handle, PodStored, PodScheduled, PodRuns, PodGone, queueVars
<1>2. pod[k] # "running" /\ \A j \in Pods \ {k} : pod'[j] = pod[j]
  BY <1>0 DEF PodLives, Handle, PodStored, PodScheduled, PodRuns, PodGone
<1> QED
  BY <1>0, <1>1, <1>2 DEF EvictInv, claimVars

\* A volume with a Pod on the list is attached, so it does not grow.
LEMMA ClaimEvicts ==
    ASSUME TypeOK, EvictInv, NEW p \in PVCs, ClaimChanges(p)
    PROVE  EvictInv'
<1>0. /\ wanted \in [PVCs -> BOOLEAN] /\ pending \in [PVCs -> BOOLEAN] /\ DOMAIN error = PVCs
      /\ \A q \in PVCs : work[q].todo \subseteq Pods
  BY DEF TypeOK, Works
<1>1. UNCHANGED <<pod, work>>
  BY Zenon DEF ClaimChanges, ResizeRequested, ClaimTouched, ExpansionFails, VolumeExpanded,
               ResizeDone, podVars
<1>2. CASE ResizeRequested(p) \/ ClaimTouched(p)
  BY <1>0, <1>1, <1>2 DEF ResizeRequested, ClaimTouched, EvictInv, claimVars
<1>3. ASSUME NEW kind \in ErrorKinds, ExpansionFails(p, kind)
      PROVE  EvictInv'
  BY <1>0, <1>1, <1>3 DEF ExpansionFails, EvictInv
<1>4. CASE VolumeExpanded(p) \/ ResizeDone(p)
  <2>1. CanExpand(p) \/ pending[p]
    BY <1>4 DEF VolumeExpanded, ResizeDone
  <2>2. work[p].step = "evict" => work[p].todo = {}
    BY <1>0, <2>1 DEF CanExpand, Attached, EvictInv
  <2>3. \A q \in PVCs \ {p} : wanted'[q] = wanted[q] /\ pending'[q] = pending[q] /\ error'[q] = error[q]
    BY <1>0, <1>4 DEF VolumeExpanded, ResizeDone
  <2>4. error'[p] = "offline" => error[p] = "offline" /\ wanted'[p] = wanted[p]
    BY <1>0, <1>4 DEF VolumeExpanded, ResizeDone
  <2> QED
    BY <1>1, <2>2, <2>3, <2>4 DEF EvictInv
<1> QED
  BY <1>2, <1>3, <1>4 DEF ClaimChanges

LEMMA EvictStep ==
    ASSUME SingleMounts, "delete" \notin Faults
    PROVE  TypeOK /\ EvictInv /\ [Next]_vars => EvictInv'
<1> SUFFICES ASSUME TypeOK, EvictInv, [Next]_vars
             PROVE  EvictInv'
  OBVIOUS
<1>1. CASE Restart
  BY <1>1 DEF Restart, EvictInv, NoWork, claimVars, podVars
<1>2. CASE RunnerTick \/ UserChangesStrategy
  BY <1>2 DEF RunnerTick, UserChangesStrategy, EvictInv, claimVars, podVars
<1>3. CASE UNCHANGED vars
  BY <1>3 DEF vars, EvictInv, claimVars, podVars, queueVars
<1>4. \A k \in Pods : ~UserDeletesPod(k)
  BY DEF UserDeletesPod
<1> QED
  BY <1>1, <1>2, <1>3, <1>4, ControllerEvicts, PodEvicts, ClaimEvicts DEF Next

\* No eviction arrives when the volume it was planned for has grown, where each Pod mounts
\* one claim and Pods die by evictions only: however long evictions take or are
\* retried, whatever fails and whenever the process restarts.
THEOREM EvictionsNeeded ==
    ASSUME SingleMounts, "delete" \notin Faults
    PROVE  Spec => EvictionNeeded
<1>1. Init => EvictInv
  BY DEF Init, EvictInv, NoWork
<1>2. TypeOK /\ EvictInv /\ [Next]_vars => EvictInv'
  BY EvictStep
<1>3. EvictInv => EvictsIfNeeded
  BY DEF EvictInv, EvictsIfNeeded, Evicted
<1> QED
  BY <1>1, <1>2, <1>3, OfflineTypeCorrect, PTL DEF Spec, EvictionNeeded

=============================================================================
