------------------------ MODULE PeriodicRunnerStatus ------------------------
(***************************************************************************)
(* What the runner remembers from tick to tick: the recommended targets    *)
(* and the times of the last resizes, which live in the status of the      *)
(* autoscaler objects, and the ticks that read and write them.             *)
(***************************************************************************)
EXTENDS PeriodicRunnerProofs, FiniteSetTheorems

-----------------------------------------------------------------------------
(***************************************************************************)
(* Steps, as far as the tick is concerned                                  *)
(***************************************************************************)
\* The loop body of reconcilePVCA up to the patch.
ClaimStep(p) == SkipClaim(p) \/ GetFails(p) \/ SettleClaim(p) \/ PlanResize(p) \/ PlanRecovery(p)

\* Steps that leave the runner where it is.
QuietStep ==
    \/ \E p \in PVCs : ClaimWrite(p)
    \/ \E a \in PVCAs : UserEditsPolicies(a) \/ TargetChanges(a)
    \/ TimePasses
    \/ UNCHANGED vars

\* Every step is one of these.
LEMMA TickKinds ==
    ASSUME [Next]_vars
    PROVE  \/ StartTick
           \/ \E a \in PVCAs : FetchPVCs(a) \/ FetchFails(a) \/ StartPVCA(a)
           \/ \E p \in PVCs : ClaimStep(p)
           \/ PatchStep
           \/ SetStatus \/ SetStatusFails \/ Crash
           \/ QuietStep
BY Zenon DEF Next, RunnerWorks, UsersAct, ClaimWrite, ClaimStep, PatchStep, QuietStep

\* A quiet step changes neither the tick nor what the runner has written.
LEMMA QuietFrame ==
    ASSUME TypeOK, QuietStep
    PROVE  /\ UNCHANGED <<recs, phase, tick, job, lastScaled>>
           /\ patch'.pvc = patch.pvc
           /\ now' \in {now, now + 1}
<1>1. ASSUME NEW p \in PVCs, ClaimWrite(p)
      PROVE  UNCHANGED <<recs, phase, tick, job, lastScaled, now>> /\ patch'.pvc = patch.pvc
  <2>1. Touch(p) /\ UNCHANGED <<recs, phase, tick, job, lastScaled, now>>
    BY <1>1, ClaimWriteFrame DEF pvcaVars, timeVars
  <2> QED
    BY <2>1 DEF Touch, TypeOK, RunnerTypeOK, Patches
<1>2. ASSUME NEW a \in PVCAs, UserEditsPolicies(a) \/ TargetChanges(a)
      PROVE  UNCHANGED <<recs, phase, tick, job, patch, lastScaled, now>>
  BY <1>2 DEF UserEditsPolicies, TargetChanges, runVars, timeVars
<1>3. ASSUME TimePasses \/ UNCHANGED vars
      PROVE  UNCHANGED <<recs, phase, tick, job, patch, lastScaled>> /\ now' \in {now, now + 1}
  BY <1>3 DEF TimePasses, vars, pvcaVars, runVars, timeVars
<1> QED
  BY <1>1, <1>2, <1>3 DEF QuietStep

\* The loop body works on one claim of the job and leaves the other recommendations.
LEMMA ClaimStepFrame ==
    ASSUME TypeOK, NEW p \in PVCs, ClaimStep(p)
    PROVE  /\ phase = "claim" /\ phase' \in {"claim", "resize", "recover"}
           /\ UNCHANGED <<pvcVars, pvcaVars, tick, timeVars>>
           /\ job.pvca \in PVCAs /\ p \in job.todo
           /\ job'.pvca = job.pvca
           /\ job'.todo = job.todo \ {p}
           /\ \A q \in PVCs \ {p} : job'.recs[q] = job.recs[q]
           /\ phase' \in {"resize", "recover"} => patch'.pvc = p
           /\ phase' = "resize" => Verdict(p) = "resize"
           /\ phase' = "recover" => Verdict(p) = "recover"
<1>1. /\ phase = "claim" /\ phase' \in {"claim", "resize", "recover"}
      /\ UNCHANGED <<pvcVars, pvcaVars, tick, timeVars>>
      /\ p \in job.todo
      /\ phase' \in {"resize", "recover"} => patch'.pvc = p
      /\ phase' = "resize" => Verdict(p) = "resize"
      /\ phase' = "recover" => Verdict(p) = "recover"
  BY DEF ClaimStep, SkipClaim, GetFails, SettleClaim, PlanResize, PlanRecovery
<1>2. job.pvca \in PVCAs /\ job \in Jobs
  BY <1>1 DEF TypeOK, RunnerTypeOK
<1>3. CASE SkipClaim(p) \/ GetFails(p)
  <2>1. job'.pvca = job.pvca /\ job'.todo = job.todo \ {p} /\ job'.recs = job.recs
    BY <1>2, <1>3, Zenon DEF SkipClaim, GetFails, Jobs
  <2> QED
    BY <1>1, <1>2, <2>1
<1>4. CASE SettleClaim(p) \/ PlanResize(p) \/ PlanRecovery(p)
  <2>1. \/ \E rec : job' = [job EXCEPT !.todo = @ \ {p}, !.recs[p] = rec]
        \/ \E rec, status :
              job' = [job EXCEPT !.todo = @ \ {p}, !.recs[p] = rec, !.conds = @ \cup status]
    BY <1>4, Zenon DEF SettleClaim, PlanResize, PlanRecovery
  <2>2. /\ job'.pvca = job.pvca /\ job'.todo = job.todo \ {p}
        /\ \A q \in PVCs \ {p} : job'.recs[q] = job.recs[q]
    <3>1. ASSUME NEW rec, job' = [job EXCEPT !.todo = @ \ {p}, !.recs[p] = rec]
          PROVE  /\ job'.pvca = job.pvca /\ job'.todo = job.todo \ {p}
                 /\ \A q \in PVCs \ {p} : job'.recs[q] = job.recs[q]
      BY <1>2, <3>1 DEF Jobs
    <3>2. ASSUME NEW rec, NEW status,
                 job' = [job EXCEPT !.todo = @ \ {p}, !.recs[p] = rec, !.conds = @ \cup status]
          PROVE  /\ job'.pvca = job.pvca /\ job'.todo = job.todo \ {p}
                 /\ \A q \in PVCs \ {p} : job'.recs[q] = job.recs[q]
      BY <1>2, <3>2 DEF Jobs
    <3> QED
      BY <2>1, <3>1, <3>2, Zenon
  <2> QED
    BY <1>1, <1>2, <2>2
<1> QED
  BY <1>3, <1>4 DEF ClaimStep

\* What the loop body makes of the recommendation of its claim.
LEMMA ClaimStepRec ==
    ASSUME TypeOK, NEW p \in PVCs, ClaimStep(p)
    PROVE  \/ job'.recs[p] = job.recs[p]
           \/ job'.recs[p] = UpdatedRec(p)
           \/ Verdict(p) = "off" /\ job'.recs[p].last = UpdatedRec(p).last
<1>1. job \in Jobs /\ job.recs \in [PVCs -> Rec] /\ UpdatedRec(p) \in Rec
  BY UpdatedRecType DEF TypeOK, RunnerTypeOK, Jobs
<1>2. CASE SkipClaim(p) \/ GetFails(p)
  BY <1>1, <1>2, Zenon DEF SkipClaim, GetFails, Jobs
<1>3. CASE PlanResize(p) \/ PlanRecovery(p)
  <2>1. job' = [job EXCEPT !.todo = @ \ {p}, !.recs[p] = UpdatedRec(p)]
    BY <1>3, Zenon DEF PlanResize, PlanRecovery
  <2> QED
    BY <1>1, <2>1 DEF Jobs
<1>4. CASE SettleClaim(p) /\ Verdict(p) # "off"
  BY <1>1, <1>4 DEF SettleClaim, Jobs
<1>5. CASE SettleClaim(p) /\ Verdict(p) = "off"
  <2>1. job'.recs[p] = [UpdatedRec(p) EXCEPT !.target = Target(p, CurrentPolicy(p))]
    BY <1>1, <1>5 DEF SettleClaim, Jobs
  <2> QED
    BY <1>1, <1>5, <2>1 DEF Rec
<1> QED
  BY <1>2, <1>3, <1>4, <1>5 DEF ClaimStep

\* The end of a patch changes the recommendation of the patched claim only.
LEMMA PatchFrame ==
    ASSUME TypeOK, PatchStep
    PROVE  /\ UNCHANGED <<pvcaVars, tick, now>>
           /\ job.pvca \in PVCAs
           /\ job'.pvca = job.pvca /\ job'.todo = job.todo
           /\ \A q \in PVCs \ {patch.pvc} : job'.recs[q] = job.recs[q]
<1>1. phase \in {"resize", "recover"} /\ patch.pvc \in PVCs
  BY PatchEffect
<1>2. job \in Jobs /\ job.pvca \in PVCAs
  BY <1>1 DEF TypeOK, RunnerTypeOK
<1>3. UNCHANGED <<pvcaVars, tick, now>>
  BY DEF PatchStep, ResizePVC, ResizePVCFails, Recover, RecoverConflict, RecoverFails, timeVars
<1>4. PICK status, rec : job' = [job EXCEPT !.recs[patch.pvc] = rec, !.conds = @ \cup status]
  BY Zenon DEF PatchStep, ResizePVC, ResizePVCFails, Recover, RecoverConflict, RecoverFails, PatchDone
<1> QED
  BY <1>1, <1>2, <1>3, <1>4 DEF Jobs

\* When no answer is lost, the recommendation of the patched claim tells what the
\* patch did: the new target, and for a scale-up the time.
LEMMA PatchOutcome ==
    ASSUME TypeOK, PatchStep, "lostReply" \notin Faults
    PROVE  \/ /\ UNCHANGED <<spec, lastScaled>>
              /\ job'.recs[patch.pvc] = job.recs[patch.pvc]
           \/ /\ phase = "resize"
              /\ spec' = [spec EXCEPT ![patch.pvc] = patch.target]
              /\ lastScaled' = [lastScaled EXCEPT ![patch.pvc] = now]
              /\ job'.recs[patch.pvc] = [target |-> patch.target, last |-> now]
           \/ /\ phase = "recover"
              /\ spec' = [spec EXCEPT ![patch.pvc] = patch.target]
              /\ UNCHANGED lastScaled
              /\ job'.recs[patch.pvc].target = patch.target
              /\ job'.recs[patch.pvc].last = job.recs[patch.pvc].last
<1>1. patch.pvc \in PVCs
  BY PatchEffect
<1>2. job \in Jobs /\ job.recs \in [PVCs -> Rec]
  BY DEF TypeOK, RunnerTypeOK, Jobs
<1>3. ASSUME NEW status, NEW rec, PatchDone(status, rec) PROVE job'.recs[patch.pvc] = rec
  BY <1>1, <1>2, <1>3 DEF PatchDone, Jobs
<1>4. CASE ResizePVC
  BY <1>3, <1>4 DEF ResizePVC, ApplyResize
<1>5. CASE Recover
  <2>1. job'.recs[patch.pvc] = [job.recs[patch.pvc] EXCEPT !.target = patch.target]
    BY <1>3, <1>5 DEF Recover
  <2> QED
    BY <1>1, <1>2, <1>5, <2>1 DEF Recover, Rec, timeVars
<1>6. CASE ResizePVCFails \/ RecoverConflict \/ RecoverFails
  <2>1. job'.recs[patch.pvc] = job.recs[patch.pvc]
    BY <1>3, <1>6 DEF ResizePVCFails, RecoverConflict, RecoverFails
  <2>2. UNCHANGED <<spec, lastScaled>>
    BY <1>6 DEF ResizePVCFails, RecoverConflict, RecoverFails, pvcVars, timeVars
  <2> QED
    BY <2>1, <2>2
<1> QED
  BY <1>4, <1>5, <1>6 DEF PatchStep

-----------------------------------------------------------------------------
(***************************************************************************)
(* The course of a tick                                                    *)
(***************************************************************************)
\* A claim that reconcilePVCA does not find ambiguous has been fetched for no other PVCA.
LEMMA SoleOwner ==
    ASSUME TypeOK, NEW a \in PVCAs, NEW p \in PVCs, p \in tick.fetched[a],
           ~(Cardinality(Owners(p)) > 1), NEW b \in PVCAs \ {a}
    PROVE  p \notin tick.fetched[b]
<1> SUFFICES ASSUME p \in tick.fetched[b] PROVE FALSE
  OBVIOUS
<1>1. {a, b} \subseteq Owners(p) /\ Owners(p) \subseteq PVCAs
  BY DEF Owners
<1>2. IsFiniteSet(Owners(p))
  BY <1>1, FS_Subset, ClaimAssumption
<1>3. Cardinality({a} \cup {b}) = 2
  <2>1. IsFiniteSet({a}) /\ Cardinality({a}) = 1
    BY FS_Singleton, Zenon
  <2>2. Cardinality({a} \cup {b}) = IF b \in {a} THEN Cardinality({a}) ELSE Cardinality({a}) + 1
    BY <2>1, FS_AddElement, Zenon
  <2> QED
    BY <2>1, <2>2
<1>4. {a} \cup {b} \in SUBSET Owners(p)
  BY <1>1
<1>5. 2 <= Cardinality(Owners(p)) /\ Cardinality(Owners(p)) \in Nat
  BY <1>2, <1>3, <1>4, FS_Subset, FS_CardinalityType
<1> QED
  BY <1>5

\* No tick is under way initially.
LEMMA TickInvInit == Init => TickInv
BY DEF Init, TickInv, NoTick

\* The end of a tick.
LEMMA TickInvEnd == EndTick => TickInv'
BY DEF EndTick, TickInv, NoTick

\* Every step keeps the order of the tick.
LEMMA TickInvStep == TypeOK /\ TypeOK' /\ TickInv /\ [Next]_vars => TickInv'
<1> SUFFICES ASSUME TypeOK, TypeOK', TickInv, [Next]_vars PROVE TickInv'
  OBVIOUS
<1>0. tick \in Ticks
  BY DEF TypeOK, RunnerTypeOK
<1>1. CASE StartTick
  BY <1>1, TickStarts DEF TickInv
<1>2. ASSUME NEW a \in PVCAs, FetchPVCs(a) PROVE TickInv'
  BY <1>0, <1>2 DEF FetchPVCs, TickInv, Ticks
<1>3. ASSUME NEW a \in PVCAs, FetchFails(a) PROVE TickInv'
  <2>1. CASE EndTick
    BY <2>1, TickInvEnd
  <2>2. CASE ~EndTick
    <3>1. /\ tick' = [tick EXCEPT !.toFetch = @ \ {a}]
          /\ phase' = IF tick.toFetch = {a} THEN "pick" ELSE "fetch"
      BY <1>3, <2>2 DEF FetchFails
    <3> QED
      BY <1>0, <3>1 DEF TickInv, Ticks
  <2> QED
    BY <2>1, <2>2
<1>4. ASSUME NEW a \in PVCAs, StartPVCA(a) PROVE TickInv'
  BY <1>0, <1>4 DEF StartPVCA, TickInv, Ticks
<1>5. ASSUME NEW p \in PVCs, ClaimStep(p) PROVE TickInv'
  <2>1. /\ phase = "claim" /\ phase' \in {"claim", "resize", "recover"}
        /\ tick' = tick /\ job.pvca \in PVCAs /\ job'.pvca = job.pvca
        /\ p \in job.todo /\ job'.todo = job.todo \ {p}
        /\ phase' \in {"resize", "recover"} => patch'.pvc = p
    BY <1>5, ClaimStepFrame
  <2>2. p \in tick.fetched[job.pvca]
    BY <2>1 DEF TickInv
  <2>3. phase' \in {"resize", "recover"} => \A b \in PVCAs \ {job.pvca} : p \notin tick.fetched[b]
    <3>1. phase' \in {"resize", "recover"} => ~(Cardinality(Owners(p)) > 1)
      BY <1>5, ClaimStepFrame, ResizeVerdict, RecoverVerdict
    <3> QED
      BY <2>1, <2>2, <3>1, SoleOwner
  <2> QED
    BY <2>1, <2>2, <2>3 DEF TickInv
<1>6. CASE PatchStep
  BY <1>6, PatchFrame, PatchEffect DEF TickInv
<1>7. CASE SetStatus \/ SetStatusFails
  <2>1. CASE EndTick
    BY <2>1, TickInvEnd
  <2>2. CASE ~EndTick
    BY <1>7, <2>2 DEF SetStatus, SetStatusFails, NextPVCA, TickInv
  <2> QED
    BY <2>1, <2>2
<1>8. CASE Crash
  BY <1>8, TickInvEnd DEF Crash
<1>9. CASE QuietStep
  BY <1>9, QuietFrame DEF TickInv
<1> QED
  BY <1>1, <1>2, <1>3, <1>4, <1>5, <1>6, <1>7, <1>8, <1>9, TickKinds

\* reconcileAll fetches for every PVCA before it reconciles one, and patches a claim only
\* when it has fetched it for a single PVCA, whatever fails or changes meanwhile.
THEOREM TicksSound == Spec => [](TypeOK /\ TickInv)
<1>1. TypeOK /\ TypeOK' /\ TickInv /\ [Next]_vars => TickInv'
  BY TickInvStep
<1> QED
  BY <1>1, TickInvInit, TypeCorrect, PTL DEF Spec

\* The end of a tick leaves nothing fetched.
LEMMA TargetedEnd ==
    ASSUME TargetedInv, EndTick, UNCHANGED targets,
           \A a \in PVCAs : recs'[a] = recs[a] \/ OfTargets(recs'[a])
    PROVE  TargetedInv'
<1>1. \A a \in PVCAs : tick'.fetched[a] = {} /\ tick'.recs[a] = NoRecs
  BY DEF EndTick, NoTick
<1>2. job'.recs = NoRecs
  BY DEF EndTick, NoJob
<1>3. OfTargets(NoRecs)
  BY DEF OfTargets, NoRecs
<1> QED
  BY <1>1, <1>2, <1>3 DEF TargetedInv, OfTargets

\* Every step keeps to the claims of the targets.
LEMMA TargetedInvStep ==
    ASSUME TypeOK, TickInv, TargetedInv, [Next]_vars
    PROVE  TargetedInv'
<1>0. tick \in Ticks /\ OfTargets(NoRecs)
  BY DEF TypeOK, RunnerTypeOK, OfTargets, NoRecs
<1>1. CASE StartTick
  <2>1. /\ UNCHANGED <<targets, recs, job>> /\ tick'.recs = recs
        /\ \A a \in PVCAs : tick'.fetched[a] = {}
    BY <1>1, TickStarts, Zenon
  <2> QED
    BY <2>1 DEF TargetedInv, OfTargets
<1>2. ASSUME NEW a \in PVCAs, FetchPVCs(a) PROVE TargetedInv'
  <2>1. /\ UNCHANGED <<targets, recs, job>> /\ tick'.recs = tick.recs
        /\ \A b \in PVCAs \ {a} : tick'.fetched[b] = tick.fetched[b]
        /\ tick'.fetched[a] = targets[a]
    BY <1>0, <1>2 DEF FetchPVCs, pvcaVars, Ticks
  <2> QED
    BY <2>1 DEF TargetedInv, OfTargets
<1>3. ASSUME NEW a \in PVCAs, FetchFails(a) PROVE TargetedInv'
  <2>1. targets' = targets /\ (recs' = recs \/ recs' = [recs EXCEPT ![a] = NoRecs])
    BY <1>3, Zenon DEF FetchFails
  <2>2. \A b \in PVCAs : recs'[b] = recs[b] \/ recs'[b] = NoRecs
    BY <2>1 DEF TypeOK, PVCATypeOK
  <2>3. CASE EndTick
    BY <1>0, <2>1, <2>2, <2>3, TargetedEnd
  <2>4. CASE ~EndTick
    <3>1. tick' = [tick EXCEPT !.toFetch = @ \ {a}] /\ job' = job
      BY <1>3, <2>4 DEF FetchFails
    <3>2. tick'.recs = tick.recs /\ tick'.fetched = tick.fetched
      BY <1>0, <3>1 DEF Ticks
    <3> QED
      BY <1>0, <2>1, <2>2, <3>1, <3>2 DEF TargetedInv, OfTargets
  <2> QED
    BY <2>3, <2>4
<1>4. ASSUME NEW a \in PVCAs, StartPVCA(a) PROVE TargetedInv'
  <2>1. /\ UNCHANGED <<targets, recs>>
        /\ tick'.recs = tick.recs /\ tick'.fetched = tick.fetched
    BY <1>0, <1>4 DEF StartPVCA, pvcaVars, Ticks
  <2>2. \A p \in PVCs : job'.recs[p] # NoRec => p \in tick.fetched[a]
    BY <1>4 DEF StartPVCA
  <2> QED
    BY <2>1, <2>2 DEF TargetedInv, OfTargets
<1>5. ASSUME NEW p \in PVCs, ClaimStep(p) PROVE TargetedInv'
  <2>1. /\ UNCHANGED <<targets, recs, tick>> /\ phase = "claim"
        /\ job.pvca \in PVCAs /\ p \in job.todo
        /\ \A q \in PVCs \ {p} : job'.recs[q] = job.recs[q]
    BY <1>5, ClaimStepFrame DEF pvcaVars
  <2>2. p \in tick.fetched[job.pvca]
    BY <2>1 DEF TickInv
  <2> QED
    BY <2>1, <2>2 DEF TargetedInv, OfTargets
<1>6. CASE PatchStep
  <2>1. /\ UNCHANGED <<targets, recs, tick>> /\ phase \in {"resize", "recover"}
        /\ job.pvca \in PVCAs
        /\ \A q \in PVCs \ {patch.pvc} : job'.recs[q] = job.recs[q]
    BY <1>6, PatchFrame, PatchEffect DEF pvcaVars
  <2>2. patch.pvc \in tick.fetched[job.pvca]
    BY <2>1 DEF TickInv
  <2> QED
    BY <2>1, <2>2 DEF TargetedInv, OfTargets
<1>7. CASE SetStatus \/ SetStatusFails
  <2>1. NextPVCA /\ targets' = targets
    BY <1>7, Zenon DEF SetStatus, SetStatusFails, pvcaVars
  <2>2. recs' = recs \/ recs' = [recs EXCEPT ![job.pvca] = job.recs]
    BY <1>7, Zenon DEF SetStatus, SetStatusFails, pvcaVars
  <2>3. \A a \in PVCAs : recs'[a] = recs[a] \/ recs'[a] = job.recs
    BY <2>2 DEF TypeOK, PVCATypeOK
  <2>4. OfTargets(job.recs)
    BY DEF TargetedInv
  <2>5. CASE EndTick
    BY <2>1, <2>3, <2>4, <2>5, TargetedEnd
  <2>6. CASE ~EndTick
    <3>1. tick' = tick /\ job' = NoJob
      BY <2>1, <2>6 DEF NextPVCA
    <3> QED
      BY <1>0, <2>1, <2>3, <2>4, <3>1 DEF TargetedInv, OfTargets, NoJob
  <2> QED
    BY <2>5, <2>6
<1>8. CASE Crash
  BY <1>8, TargetedEnd, Zenon DEF Crash, pvcaVars
<1>9. CASE QuietStep
  <2>1. UNCHANGED <<recs, tick, job>>
    BY <1>9, QuietFrame
  <2>2. \A a \in PVCAs : targets'[a] = targets[a] \/ targets'[a] \in TargetSets
    <3>1. ASSUME NEW p \in PVCs, ClaimWrite(p) PROVE targets' = targets
      BY <3>1, ClaimWriteFrame DEF pvcaVars
    <3>2. ASSUME NEW a \in PVCAs, UserEditsPolicies(a) PROVE targets' = targets
      BY <3>2, Zenon DEF UserEditsPolicies
    <3>3. ASSUME NEW a \in PVCAs, TargetChanges(a), NEW b \in PVCAs
          PROVE  targets'[b] = targets[b] \/ targets'[b] \in TargetSets
      BY <3>3 DEF TargetChanges, TypeOK, PVCATypeOK
    <3>4. ASSUME TimePasses \/ UNCHANGED vars PROVE targets' = targets
      BY <3>4, Zenon DEF TimePasses, vars, pvcaVars
    <3> QED
      BY <1>9, <3>1, <3>2, <3>3, <3>4 DEF QuietStep
  <2> QED
    BY <2>1, <2>2 DEF TargetedInv, OfTargets
<1> QED
  BY <1>1, <1>2, <1>3, <1>4, <1>5, <1>6, <1>7, <1>8, <1>9, TickKinds

\* The status recommends sizes only for claims that a Pod of some target has mounted:
\* neither a tick that outlives the Pods nor a claim left out of it adds others.
THEOREM RecommendationsTargeted == Spec => [](TypeOK /\ TickInv /\ TargetedInv)
<1>1. Init => TargetedInv
  BY DEF Init, TargetedInv, OfTargets, NoTick, NoJob, NoRecs
<1>2. TypeOK /\ TickInv /\ TargetedInv /\ [Next]_vars => TargetedInv'
  BY TargetedInvStep
<1> QED
  BY <1>1, <1>2, TicksSound, PTL DEF Spec

-----------------------------------------------------------------------------
(***************************************************************************)
(* Recommended targets                                                     *)
(***************************************************************************)
\* Every status the runner computes is written: no answer and no status update is
\* lost, and the process does not die within a tick.
ReliableWrites == Faults \cap {"lostReply", "status", "crash"} = {}

\* Nobody asks for recommendations without resizes.
NeverOff == \A list \in PolicyLists : \A i \in DOMAIN list : list[i].strategy # "Off"

\* Only the runner changes requests.
LEMMA RequestsKept ==
    ASSUME UserSizes = {}, QuietStep
    PROVE  spec' = spec
<1>1. ASSUME NEW p, ClaimWrite(p) PROVE spec' = spec
  BY <1>1, Zenon DEF ClaimWrite, StorageWorks, Bind, ExpansionStarts, FileSystemPending, ExpansionDone,
              ExpansionFails, ModifyVolume, UserResizes, UserGarblesAnnotation
<1> QED
  BY <1>1, Zenon DEF QuietStep, UserEditsPolicies, TargetChanges, TimePasses, vars, pvcVars

\* Where no policy says Off, no claim is settled for it.
LEMMA NoOffVerdict ==
    ASSUME TypeOK, PoliciesInv, NeverOff, job.pvca \in PVCAs, NEW p \in PVCs
    PROVE  Verdict(p) # "off"
<1> SUFFICES ASSUME Verdict(p) = "off" PROVE FALSE
  OBVIOUS
<1>1. HasPolicy(p, tick.policies[job.pvca]) /\ CurrentPolicy(p).strategy = "Off"
  BY OffVerdict
<1>2. tick.policies[job.pvca] \in Seq(Policy)
  BY DEF TypeOK, RunnerTypeOK, Ticks
<1>3. PICK i \in DOMAIN tick.policies[job.pvca] : CurrentPolicy(p) = tick.policies[job.pvca][i]
  BY <1>1, <1>2, PolicyFound DEF CurrentPolicy
<1>4. tick.policies[job.pvca] \in PolicyLists
  BY <1>3 DEF PoliciesInv, ValidLists
<1> QED
  BY <1>1, <1>3, <1>4 DEF NeverOff

\* No recommendation is in force initially.
LEMMA StatusInvInit == Init => StatusInv
<1> SUFFICES ASSUME Init PROVE StatusInv
  OBVIOUS
<1>1. phase = "idle" /\ tick.left = {} /\ \A a \in PVCAs : recs[a] = NoRecs
  BY EmptyTick, Zenon DEF Init
<1>2. \A p \in PVCs : NoRecs[p] = NoRec
  BY Zenon DEF NoRecs
<1> QED
  BY <1>1, <1>2, Zenon DEF StatusInv, TargetsCurrent

\* The job of one PVCA ends, in the status and in the tick.
LEMMA StatusWritten ==
    ASSUME TypeOK, TickInv, StatusInv, SetStatus
    PROVE  StatusInv'
<1>1. /\ phase = "claim" /\ job.pvca \in PVCAs
      /\ recs' = [recs EXCEPT ![job.pvca] = job.recs]
      /\ NextPVCA /\ spec' = spec
  BY DEF SetStatus, TypeOK, RunnerTypeOK, pvcVars
<1>2. recs'[job.pvca] = job.recs /\ \A a \in PVCAs \ {job.pvca} : recs'[a] = recs[a]
  BY <1>1 DEF TypeOK, PVCATypeOK
<1>3. tick.toFetch = {} /\ Unwritten = tick.left \cup {job.pvca}
  BY <1>1 DEF TickInv, Unwritten
<1>4. \A a \in PVCAs \ tick.left :
         /\ TargetsCurrent(recs[a])'
         /\ \A p \in PVCs : recs'[a][p] # NoRec => p \in tick.fetched[a]
  BY <1>1, <1>2, <1>3 DEF StatusInv, TargetsCurrent
<1>5. CASE tick.left = {}
  <2>1. phase' = "idle" /\ tick' = NoTick
    BY <1>1, <1>5 DEF NextPVCA, EndTick
  <2> QED
    BY <1>4, <1>5, <2>1 DEF StatusInv, NoTick
<1>6. CASE tick.left # {}
  <2>1. phase' = "pick" /\ tick' = tick
    BY <1>1, <1>6 DEF NextPVCA
  <2>2. Unwritten' = tick.left
    BY <1>3, <2>1 DEF Unwritten
  <2> QED
    BY <1>1, <1>4, <2>1, <2>2 DEF StatusInv
<1> QED
  BY <1>5, <1>6

\* The loop body keeps the targets.
LEMMA StatusClaimStep ==
    ASSUME TypeOK, TickInv, StatusInv, PoliciesInv, NeverOff, NEW p \in PVCs, ClaimStep(p)
    PROVE  StatusInv'
<1>1. /\ phase = "claim" /\ phase' \in {"claim", "resize", "recover"}
      /\ UNCHANGED <<spec, recs, tick>> /\ job.pvca \in PVCAs /\ job'.pvca = job.pvca
      /\ p \in job.todo
      /\ \A q \in PVCs \ {p} : job'.recs[q] = job.recs[q]
  BY ClaimStepFrame DEF pvcVars, pvcaVars
<1>2. Unwritten' = Unwritten
  BY <1>1 DEF Unwritten
<1>3. p \in tick.fetched[job.pvca]
  BY <1>1 DEF TickInv
<1>4. job'.recs[p] = job.recs[p] \/ job'.recs[p] = UpdatedRec(p)
  BY <1>1, ClaimStepRec, NoOffVerdict
<1>5. job'.recs[p] # NoRec => job'.recs[p].target = spec[p]
  BY <1>1, <1>4 DEF UpdatedRec, StatusInv, TargetsCurrent
<1>6. \A q \in PVCs : job'.recs[q] # NoRec => q \in tick.fetched[job.pvca] /\ job'.recs[q].target = spec[q]
  BY <1>1, <1>3, <1>5 DEF StatusInv, TargetsCurrent
<1> QED
  BY <1>1, <1>2, <1>6 DEF StatusInv, TargetsCurrent

\* A patch and its answer change the request and the target alike.
LEMMA StatusPatchStep ==
    ASSUME TypeOK, TickInv, StatusInv, "lostReply" \notin Faults, PatchStep
    PROVE  StatusInv'
<1>1. /\ phase \in {"resize", "recover"} /\ phase' = "claim" /\ patch.pvc \in PVCs
      /\ UNCHANGED <<recs, tick>> /\ job.pvca \in PVCAs /\ job'.pvca = job.pvca
      /\ \A q \in PVCs \ {patch.pvc} : job'.recs[q] = job.recs[q]
  BY PatchFrame, PatchEffect DEF pvcaVars
<1>2. Unwritten' = Unwritten /\ job.pvca \in Unwritten /\ job.pvca \notin tick.left
  BY <1>1 DEF Unwritten, TickInv
<1>3. /\ patch.pvc \in tick.fetched[job.pvca]
      /\ \A b \in PVCAs \ {job.pvca} : patch.pvc \notin tick.fetched[b]
  BY <1>1 DEF TickInv
<1>4. /\ \A q \in PVCs \ {patch.pvc} : spec'[q] = spec[q]
      /\ \/ spec'[patch.pvc] = spec[patch.pvc] /\ job'.recs[patch.pvc] = job.recs[patch.pvc]
         \/ spec'[patch.pvc] = job'.recs[patch.pvc].target
  BY <1>1, PatchOutcome DEF TypeOK, PVCTypeOK
<1>5. \A q \in PVCs : job'.recs[q] # NoRec => q \in tick.fetched[job.pvca] /\ job'.recs[q].target = spec'[q]
  <2>1. \A q \in PVCs : job.recs[q] # NoRec => job.recs[q].target = spec[q] /\ q \in tick.fetched[job.pvca]
    BY <1>1, Zenon DEF StatusInv, TargetsCurrent
  <2>2. ASSUME NEW q \in PVCs, job'.recs[q] # NoRec
        PROVE  q \in tick.fetched[job.pvca] /\ job'.recs[q].target = spec'[q]
    <3>1. CASE q = patch.pvc
      BY <1>3, <1>4, <2>1, <2>2, <3>1, Zenon
    <3>2. CASE q # patch.pvc
      <4>1. job'.recs[q] = job.recs[q] /\ spec'[q] = spec[q]
        BY <1>1, <1>4, <3>2, Zenon
      <4> QED
        BY <2>1, <2>2, <4>1, Zenon
    <3> QED
      BY <3>1, <3>2, Zenon
  <2> QED
    BY <2>2, Zenon
<1>6. ASSUME NEW a \in PVCAs \ Unwritten
      PROVE  /\ \A q \in PVCs : recs[a][q] # NoRec => q \in tick.fetched[a]
             /\ \A q \in PVCs : recs[a][q] # NoRec => recs[a][q].target = spec'[q]
  BY <1>1, <1>2, <1>3, <1>4 DEF StatusInv, TargetsCurrent
<1>7. ASSUME NEW a \in tick.left, NEW q \in tick.fetched[a], tick.recs[a][q] # NoRec
      PROVE  tick.recs[a][q].target = spec'[q]
  <2>1. a \in PVCAs \ {job.pvca} /\ q \in PVCs
    BY <1>2 DEF TypeOK, RunnerTypeOK, Ticks
  <2> QED
    BY <1>3, <1>4, <1>7, <2>1, Zenon DEF StatusInv
<1>8. \A a \in PVCAs \ Unwritten' :
         /\ TargetsCurrent(recs[a])'
         /\ \A q \in PVCs : recs'[a][q] # NoRec => q \in tick'.fetched[a]
  BY <1>1, <1>2, <1>6, Zenon DEF TargetsCurrent
<1>9. \A a \in tick'.left : \A q \in tick'.fetched[a] :
         tick'.recs[a][q] # NoRec => tick'.recs[a][q].target = spec'[q]
  BY <1>1, <1>7, Zenon
<1>10. /\ TargetsCurrent(job.recs)'
       /\ \A q \in PVCs : job'.recs[q] # NoRec => q \in tick'.fetched[job'.pvca]
  BY <1>1, <1>5, Zenon DEF TargetsCurrent
<1> QED
  BY <1>1, <1>8, <1>9, <1>10, Zenon DEF StatusInv

\* Every step keeps the recommended targets those of the requests.
LEMMA StatusInvStep ==
    ASSUME UserSizes = {}, ReliableWrites, NeverOff,
           TypeOK, TickInv, PoliciesInv, StatusInv, [Next]_vars
    PROVE  StatusInv'
<1>0. tick \in Ticks
  BY DEF TypeOK, RunnerTypeOK
<1>1. CASE StartTick
  <2>1. /\ phase = "idle" /\ phase' = "fetch" /\ UNCHANGED <<spec, recs>>
        /\ tick'.toFetch = PVCAs /\ tick'.left = {} /\ tick'.recs = recs
    BY <1>1, TickStarts, Zenon
  <2>2. Unwritten = {} /\ PVCAs \subseteq Unwritten'
    BY <2>1, Zenon DEF Unwritten, TickInv
  <2> QED
    BY <2>1, <2>2 DEF StatusInv, TargetsCurrent
<1>2. ASSUME NEW a \in PVCAs, FetchPVCs(a) PROVE StatusInv'
  <2>1. /\ phase = "fetch" /\ phase' \in {"fetch", "pick"} /\ UNCHANGED <<spec, recs>>
        /\ a \in tick.toFetch
        /\ tick'.toFetch = tick.toFetch \ {a} /\ tick'.left = tick.left \cup {a}
        /\ tick'.recs = tick.recs
        /\ \A b \in PVCAs \ {a} : tick'.fetched[b] = tick.fetched[b]
        /\ tick'.fetched[a] \subseteq PVCs
    BY <1>0, <1>2 DEF FetchPVCs, pvcVars, pvcaVars, Ticks, TypeOK, PVCATypeOK
  <2>2. Unwritten' = Unwritten /\ a \in Unwritten
    BY <2>1 DEF Unwritten
  <2>3. \A b \in tick'.left : b \in PVCAs /\ tick'.fetched[b] \subseteq PVCs
    BY <1>0, <2>1 DEF Ticks
  <2> QED
    BY <2>1, <2>2, <2>3 DEF StatusInv, TargetsCurrent
<1>3. ASSUME NEW a \in PVCAs, FetchFails(a) PROVE StatusInv'
  <2>1. /\ phase = "fetch" /\ a \in tick.toFetch /\ spec' = spec
        /\ recs' = [recs EXCEPT ![a] = NoRecs]
    BY <1>3 DEF FetchFails, pvcVars, ReliableWrites
  <2>2. recs'[a] = NoRecs /\ \A b \in PVCAs \ {a} : recs'[b] = recs[b]
    BY <2>1 DEF TypeOK, PVCATypeOK
  <2>3. Unwritten = tick.toFetch \cup tick.left
    BY <2>1 DEF Unwritten
  <2>4. CASE EndTick
    <3>1. tick.toFetch = {a} /\ tick.left = {}
      BY <1>3, <2>1, <2>4 DEF FetchFails, EndTick
    <3>2. phase' = "idle" /\ tick' = NoTick
      BY <2>4 DEF EndTick
    <3>3. \A b \in PVCAs : TargetsCurrent(recs[b])'
      BY <2>1, <2>2, <2>3, <3>1 DEF StatusInv, TargetsCurrent, NoRecs
    <3> QED
      BY <3>2, <3>3, Zenon DEF StatusInv, NoTick
  <2>5. CASE ~EndTick
    <3>1. /\ tick' = [tick EXCEPT !.toFetch = @ \ {a}] /\ phase' \in {"fetch", "pick"}
      BY <1>3, <2>5 DEF FetchFails
    <3>2. /\ tick'.toFetch = tick.toFetch \ {a} /\ tick'.left = tick.left
          /\ tick'.recs = tick.recs /\ tick'.fetched = tick.fetched
      BY <1>0, <3>1 DEF Ticks
    <3>3. Unwritten' = (tick.toFetch \ {a}) \cup tick.left
      BY <3>1, <3>2 DEF Unwritten
    <3> QED
      BY <2>1, <2>2, <2>3, <3>1, <3>2, <3>3 DEF StatusInv, TargetsCurrent, NoRecs
  <2> QED
    BY <2>4, <2>5
<1>4. ASSUME NEW a \in PVCAs, StartPVCA(a) PROVE StatusInv'
  <2>1. /\ phase = "pick" /\ phase' = "claim" /\ UNCHANGED <<spec, recs>>
        /\ a \in tick.left
        /\ tick'.left = tick.left \ {a}
        /\ tick'.toFetch = tick.toFetch /\ tick'.recs = tick.recs /\ tick'.fetched = tick.fetched
        /\ job'.pvca = a
    BY <1>0, <1>4 DEF StartPVCA, pvcVars, pvcaVars, Ticks
  <2>2. \A p \in PVCs : job'.recs[p] # NoRec => p \in tick.fetched[a] /\ job'.recs[p] = tick.recs[a][p]
    BY <1>4 DEF StartPVCA
  <2>3. Unwritten' = Unwritten
    BY <2>1 DEF Unwritten
  <2> QED
    BY <2>1, <2>2, <2>3 DEF StatusInv, TargetsCurrent
<1>5. ASSUME NEW p \in PVCs, ClaimStep(p) PROVE StatusInv'
  BY <1>5, StatusClaimStep
<1>6. CASE PatchStep
  BY <1>6, StatusPatchStep DEF ReliableWrites
<1>7. CASE SetStatus
  BY <1>7, StatusWritten
<1>8. ~SetStatusFails /\ ~Crash
  BY DEF SetStatusFails, Crash, ReliableWrites
<1>9. CASE QuietStep
  <2>1. UNCHANGED <<spec, recs, phase, tick, job>>
    BY <1>9, QuietFrame, RequestsKept
  <2> QED
    BY <2>1 DEF StatusInv, TargetsCurrent, Unwritten
<1> QED
  BY <1>1, <1>2, <1>3, <1>4, <1>5, <1>6, <1>7, <1>8, <1>9, TickKinds

\* Between ticks every recommended target is the request of its claim, for any number of
\* PVCAs, shared claims and changing targets, when all status writes succeed, nobody else
\* changes requests and no policy is Off.
THEOREM StatusTells ==
    ASSUME UserSizes = {}, ReliableWrites, NeverOff
    PROVE  Spec => []StatusTellsRequest
<1>1. Init => PoliciesInv /\ StatusInv
  BY StatusInvInit, EmptyTick, Zenon DEF Init, PoliciesInv
<1>2. TypeOK /\ TickInv /\ PoliciesInv /\ StatusInv /\ [Next]_vars => PoliciesInv' /\ StatusInv'
  BY PoliciesInvStep, StatusInvStep
<1>3. TickInv /\ StatusInv => StatusTellsRequest
  BY DEF TickInv, StatusInv, StatusTellsRequest, TargetsCurrent, Unwritten
<1> QED
  BY <1>1, <1>2, <1>3, TicksSound, PTL DEF Spec

-----------------------------------------------------------------------------
(***************************************************************************)
(* Cooldown                                                                *)
(***************************************************************************)
\* Every tick finds the claims of every target, and writes what it computes.
ReliableTicks == Faults \cap {"fetch", "lostReply", "status", "crash"} = {}

\* A step after which every PVCA has the claims it had, and no claim has lost its policy;
\* users may replace the policies otherwise.
KeepsClaims ==
    /\ targets' = targets
    /\ \A a \in PVCAs : \A p \in targets[a] : HasPolicy(p, policies[a]) => HasPolicy(p, policies'[a])

\* The workloads keep the claims they mount.
SteadyStep == KeepsClaims /\ \A a \in PVCAs : targets[a] # {}

\* updateVolumeRecommendationForPVC and the loop body keep lastResizeTime.
LEMMA LastKept ==
    ASSUME TypeOK, NEW p \in PVCs, ClaimStep(p), NEW q \in PVCs
    PROVE  job'.recs[q].last = job.recs[q].last
<1>1. UpdatedRec(p).last = job.recs[p].last
  BY DEF UpdatedRec, NoRec
<1> QED
  BY <1>1, ClaimStepFrame, ClaimStepRec

\* The policy of a claim is that of the job's PVCA in the tick.
LEMMA PolicyKept ==
    ASSUME tick' = tick, job'.pvca = job.pvca
    PROVE  \A p : CurrentPolicy(p)' = CurrentPolicy(p)
BY DEF CurrentPolicy, GetVolumePolicy

\* Nothing has been scaled up initially.
LEMMA CooldownInvInit == Init => CooldownInv
<1> SUFFICES ASSUME Init PROVE CooldownInv
  OBVIOUS
<1>1. /\ phase = "idle" /\ tick.toFetch = {} /\ tick.left = {}
      /\ \A p \in PVCs : lastScaled[p] = Never
      /\ \A a \in PVCAs : recs[a] = NoRecs
  BY EmptyTick, Zenon DEF Init
<1>2. \A p \in PVCs : NoRecs[p].last = Never
  BY DEF NoRecs, NoRec
<1>3. \A a \in PVCAs, p \in PVCs : MemoryInv(a, p)
  BY <1>1, <1>2, Zenon DEF MemoryInv
<1> QED
  BY <1>1, <1>3, Zenon DEF CooldownInv

\* The claim of a pending patch is the target of the job's PVCA alone.
LEMMA PatchSole ==
    ASSUME TypeOK, TickInv, CooldownInv, phase \in {"resize", "recover"}
    PROVE  SoleTarget(job.pvca, patch.pvc)
<1>1. tick.toFetch = {} /\ job.pvca \in PVCAs /\ patch.pvc \in PVCs
  BY DEF TickInv, TypeOK, RunnerTypeOK
<1>2. \A a \in PVCAs : tick.fetched[a] = targets[a]
  BY <1>1 DEF CooldownInv
<1> QED
  BY <1>1, <1>2 DEF TickInv, SoleTarget

\* A scale-up is planned only after the cooldown of the last one.
LEMMA CooldownOver ==
    ASSUME TypeOK, TickInv, CooldownInv, NEW p \in PVCs, phase = "claim", p \in job.todo,
           Verdict(p) = "resize"
    PROVE  /\ HasPolicy(p, tick.policies[job.pvca])
           /\ lastScaled[p] # Never => now - lastScaled[p] >= CurrentPolicy(p).cooldown
<1>1. job.pvca \in PVCAs /\ tick.toFetch = {} /\ p \in tick.fetched[job.pvca]
  BY DEF TypeOK, RunnerTypeOK, TickInv
<1>2. HasPolicy(p, tick.policies[job.pvca]) /\ ~IsInCooldown(p, CurrentPolicy(p))
  BY ResizeVerdict, Zenon
<1>3. \A b \in PVCAs \ {job.pvca} : p \notin tick.fetched[b]
  BY <1>1, ResizeVerdict, SoleOwner, Zenon
<1>4. SoleTarget(job.pvca, p)
  BY <1>1, <1>3 DEF CooldownInv, SoleTarget
<1>5. job.recs[p].last = lastScaled[p]
  BY <1>1, <1>4, Zenon DEF CooldownInv, MemoryInv
<1>6. lastScaled[p] # Never => lastScaled[p] \in Nat /\ lastScaled[p] <= now
  BY Zenon DEF CooldownInv, TypeOK
<1>7. CurrentPolicy(p).cooldown \in Int /\ now \in Nat
  BY <1>1, <1>2, CurrentPolicyType DEF Policy, TypeOK
<1> QED
  BY <1>2, <1>5, <1>6, <1>7 DEF IsInCooldown

\* The loop body keeps what is remembered.
LEMMA CooldownClaimStep ==
    ASSUME TypeOK, TickInv, CooldownInv, NEW p \in PVCs, ClaimStep(p)
    PROVE  CooldownInv'
<1>1. /\ phase = "claim" /\ phase' \in {"claim", "resize", "recover"}
      /\ UNCHANGED <<policies, targets, recs, tick, now, lastScaled>>
      /\ job'.pvca = job.pvca /\ p \in job.todo
      /\ phase' \in {"resize", "recover"} => patch'.pvc = p
      /\ phase' = "resize" => Verdict(p) = "resize"
  BY ClaimStepFrame, Zenon DEF pvcaVars, timeVars
<1>2. Unwritten' = Unwritten
  BY <1>1 DEF Unwritten
<1>3. ASSUME NEW a \in PVCAs, NEW q \in PVCs, SoleTarget(a, q)' PROVE MemoryInv(a, q)'
  <2>1. MemoryInv(a, q)
    BY <1>1, <1>3, Zenon DEF CooldownInv, SoleTarget
  <2> QED
    BY <1>1, <1>2, <2>1, LastKept, Zenon DEF MemoryInv, HasPolicy
<1>4. phase' = "resize" =>
         /\ HasPolicy(p, tick.policies[job.pvca])
         /\ lastScaled[p] # Never => now - lastScaled[p] >= CurrentPolicy(p).cooldown
  BY <1>1, CooldownOver
<1>5. \A q : CurrentPolicy(q)' = CurrentPolicy(q)
  BY <1>1, PolicyKept
<1> QED
  BY <1>1, <1>3, <1>4, <1>5, Zenon DEF CooldownInv, HasPolicy

\* A scale-up is noted in the recommendation when it is applied.
LEMMA CooldownPatchStep ==
    ASSUME TypeOK, TickInv, CooldownInv, "lostReply" \notin Faults, PatchStep
    PROVE  CooldownInv'
<1>1. /\ phase \in {"resize", "recover"} /\ phase' = "claim" /\ patch.pvc \in PVCs
      /\ UNCHANGED <<policies, targets, recs, tick, now>>
      /\ job.pvca \in PVCAs /\ job'.pvca = job.pvca
      /\ \A q \in PVCs \ {patch.pvc} : job'.recs[q] = job.recs[q]
  BY PatchFrame, PatchEffect DEF pvcaVars
<1>2. Unwritten' = Unwritten /\ job.pvca \in Unwritten /\ job.pvca \notin tick.left /\ tick.toFetch = {}
  BY <1>1 DEF Unwritten, TickInv
<1>3. SoleTarget(job.pvca, patch.pvc)
  BY <1>1, PatchSole
<1>4. /\ \A q \in PVCs \ {patch.pvc} : lastScaled'[q] = lastScaled[q]
      /\ \/ /\ lastScaled'[patch.pvc] = lastScaled[patch.pvc]
            /\ job'.recs[patch.pvc].last = job.recs[patch.pvc].last
         \/ /\ phase = "resize" /\ lastScaled'[patch.pvc] = now /\ job'.recs[patch.pvc].last = now
  BY <1>1, PatchOutcome DEF TypeOK
<1>5. ASSUME NEW a \in PVCAs, NEW q \in PVCs, SoleTarget(a, q)' PROVE MemoryInv(a, q)'
  <2>1. SoleTarget(a, q) /\ MemoryInv(a, q)
    BY <1>1, <1>5, Zenon DEF CooldownInv, SoleTarget
  <2>2. CASE q # patch.pvc
    BY <1>1, <1>2, <1>4, <2>1, <2>2, Zenon DEF MemoryInv, HasPolicy
  <2>3. CASE q = patch.pvc
    <3>1. a = job.pvca
      BY <1>1, <1>3, <2>1, <2>3, Zenon DEF SoleTarget
    <3>2. phase = "resize" => HasPolicy(q, policies[a])
      BY <1>1, <2>1, <2>3, <3>1, Zenon DEF CooldownInv, MemoryInv
    <3> QED
      BY <1>1, <1>2, <1>4, <2>1, <2>3, <3>1, <3>2, Zenon DEF MemoryInv, HasPolicy
  <2> QED
    BY <2>2, <2>3
<1>6. \A q \in PVCs : lastScaled'[q] # Never => lastScaled'[q] <= now
  <2>1. now \in Nat /\ \A q \in PVCs : lastScaled[q] # Never => lastScaled[q] <= now
    BY Zenon DEF CooldownInv, TypeOK
  <2> QED
    BY <1>4, <2>1
<1> QED
  BY <1>1, <1>5, <1>6, Zenon DEF CooldownInv

\* The status of one PVCA is written.
LEMMA CooldownWritten ==
    ASSUME TypeOK, TickInv, CooldownInv, SetStatus
    PROVE  CooldownInv'
<1>1. /\ phase = "claim" /\ job.pvca \in PVCAs
      /\ recs' = [recs EXCEPT ![job.pvca] = job.recs]
      /\ NextPVCA /\ UNCHANGED <<policies, targets, now, lastScaled>>
  BY Zenon DEF SetStatus, TypeOK, RunnerTypeOK, timeVars
<1>2. recs'[job.pvca] = job.recs /\ \A a \in PVCAs \ {job.pvca} : recs'[a] = recs[a]
  BY <1>1 DEF TypeOK, PVCATypeOK
<1>3. tick.toFetch = {} /\ Unwritten = tick.left \cup {job.pvca}
  BY <1>1 DEF TickInv, Unwritten
<1>4. ASSUME NEW a \in PVCAs, NEW q \in PVCs, SoleTarget(a, q)'
      PROVE  /\ MemoryInv(a, q)
             /\ a \notin tick.left => recs'[a][q].last = lastScaled[q]
  <2>1. MemoryInv(a, q)
    BY <1>1, <1>4 DEF CooldownInv, SoleTarget
  <2> QED
    BY <1>1, <1>2, <1>3, <2>1, Zenon DEF MemoryInv
<1>5. CASE tick.left = {}
  <2>1. phase' = "idle" /\ tick' = NoTick
    BY <1>1, <1>5 DEF NextPVCA, EndTick
  <2>2. tick'.toFetch = {} /\ tick'.left = {} /\ Unwritten' = {}
    BY <2>1 DEF Unwritten, NoTick
  <2>3. ASSUME NEW a \in PVCAs, NEW q \in PVCs, SoleTarget(a, q)' PROVE MemoryInv(a, q)'
    <3>1. MemoryInv(a, q) /\ recs'[a][q].last = lastScaled[q]
      BY <1>4, <1>5, <2>3, Zenon
    <3> QED
      BY <1>1, <2>1, <2>2, <3>1, Zenon DEF MemoryInv
  <2> QED
    BY <1>1, <2>1, <2>3, Zenon DEF CooldownInv
<1>6. CASE tick.left # {}
  <2>1. phase' = "pick" /\ tick' = tick
    BY <1>1, <1>6 DEF NextPVCA
  <2>2. Unwritten' = tick.left
    BY <1>3, <2>1 DEF Unwritten
  <2>3. ASSUME NEW a \in PVCAs, NEW q \in PVCs, SoleTarget(a, q)' PROVE MemoryInv(a, q)'
    <3>1. MemoryInv(a, q) /\ (a \notin tick.left => recs'[a][q].last = lastScaled[q])
      BY <1>4, <2>3, Zenon
    <3>2. HasPolicy(q, tick.policies[a])' <=> HasPolicy(q, tick.policies[a])
      BY <2>1, Zenon DEF HasPolicy
    <3>3. HasPolicy(q, policies[a])' <=> HasPolicy(q, policies[a])
      BY <1>1, Zenon DEF HasPolicy
    <3> QED
      BY <1>1, <2>1, <2>2, <3>1, <3>2, <3>3, Zenon DEF MemoryInv
  <2> QED
    BY <1>1, <2>1, <2>3, Zenon DEF CooldownInv
<1> QED
  BY <1>5, <1>6

\* Steps outside the tick keep what is remembered, when no claim loses its policy.
LEMMA CooldownQuietStep ==
    ASSUME TypeOK, CooldownInv, KeepsClaims, QuietStep
    PROVE  CooldownInv'
<1>1. /\ UNCHANGED <<recs, phase, tick, job, lastScaled>>
      /\ patch'.pvc = patch.pvc /\ now' \in {now, now + 1}
  BY QuietFrame
<1>2. Unwritten' = Unwritten /\ \A q : CurrentPolicy(q)' = CurrentPolicy(q)
  BY <1>1, PolicyKept, Zenon DEF Unwritten
<1>3. ASSUME NEW a \in PVCAs, NEW q \in PVCs, SoleTarget(a, q)' PROVE MemoryInv(a, q)'
  <2>1. MemoryInv(a, q) /\ q \in targets[a]
    BY <1>3, Zenon DEF KeepsClaims, CooldownInv, SoleTarget
  <2>2. HasPolicy(q, policies[a]) => HasPolicy(q, policies[a])'
    BY <2>1, Zenon DEF KeepsClaims, HasPolicy
  <2>3. HasPolicy(q, tick.policies[a])' <=> HasPolicy(q, tick.policies[a])
    BY <1>1 DEF HasPolicy
  <2> QED
    BY <1>1, <1>2, <2>1, <2>2, <2>3, Zenon DEF MemoryInv
<1>4. now \in Nat /\ \A q \in PVCs : lastScaled[q] # Never => lastScaled[q] \in Nat
  BY DEF TypeOK
<1>5. \A q \in PVCs : lastScaled'[q] # Never => lastScaled'[q] <= now'
  <2>1. \A q \in PVCs : lastScaled[q] # Never => lastScaled[q] <= now
    BY Zenon DEF CooldownInv
  <2> QED
    BY <1>1, <1>4, <2>1
<1>6. phase = "resize" =>
         /\ HasPolicy(patch.pvc, tick.policies[job.pvca])
         /\ lastScaled[patch.pvc] # Never =>
               now' - lastScaled[patch.pvc] >= CurrentPolicy(patch.pvc).cooldown
  <2> SUFFICES ASSUME phase = "resize" PROVE
         /\ HasPolicy(patch.pvc, tick.policies[job.pvca])
         /\ lastScaled[patch.pvc] # Never =>
               now' - lastScaled[patch.pvc] >= CurrentPolicy(patch.pvc).cooldown
    OBVIOUS
  <2>1. HasPolicy(patch.pvc, tick.policies[job.pvca]) /\ patch.pvc \in PVCs /\ job.pvca \in PVCAs
    BY DEF CooldownInv, TypeOK, RunnerTypeOK
  <2>2. CurrentPolicy(patch.pvc).cooldown \in Int
    BY <2>1, CurrentPolicyType DEF Policy
  <2>3. lastScaled[patch.pvc] # Never =>
           now - lastScaled[patch.pvc] >= CurrentPolicy(patch.pvc).cooldown
    BY Zenon DEF CooldownInv
  <2> QED
    BY <1>1, <1>4, <2>1, <2>2, <2>3
<1> QED
  BY <1>1, <1>2, <1>3, <1>5, <1>6, Zenon DEF CooldownInv, HasPolicy, KeepsClaims

\* Every step that keeps the claims keeps what is remembered of them.
LEMMA CooldownInvStep ==
    ASSUME ReliableTicks, TypeOK, TickInv, CooldownInv, Next, SteadyStep
    PROVE  CooldownInv'
<1>0. tick \in Ticks /\ targets' = targets
  BY DEF TypeOK, RunnerTypeOK, SteadyStep, KeepsClaims
<1>1. CASE StartTick
  <2>1. /\ phase = "idle" /\ phase' = "fetch" /\ UNCHANGED <<policies, recs, now, lastScaled>>
        /\ tick'.toFetch = PVCAs /\ tick'.left = {} /\ tick'.recs = recs /\ tick'.policies = policies
    BY <1>1, TickStarts, Zenon
  <2>2. Unwritten = {} /\ PVCAs \subseteq Unwritten'
    BY <2>1, Zenon DEF Unwritten, TickInv
  <2>3. ASSUME NEW a \in PVCAs, NEW q \in PVCs, SoleTarget(a, q)' PROVE MemoryInv(a, q)'
    <3>1. MemoryInv(a, q)
      BY <1>0, <2>3 DEF CooldownInv, SoleTarget
    <3> QED
      BY <2>1, <2>2, <3>1, Zenon DEF MemoryInv, HasPolicy
  <2> QED
    BY <2>1, <2>3 DEF CooldownInv
<1>2. ASSUME NEW a \in PVCAs, FetchPVCs(a) PROVE CooldownInv'
  <2>1. /\ phase = "fetch" /\ phase' \in {"fetch", "pick"}
        /\ UNCHANGED <<policies, recs, now, lastScaled>>
        /\ a \in tick.toFetch
        /\ tick'.toFetch = tick.toFetch \ {a} /\ tick'.left = tick.left \cup {a}
        /\ tick'.recs = tick.recs /\ tick'.policies = tick.policies
        /\ tick'.fetched[a] = targets[a]
        /\ \A b \in PVCAs \ {a} : tick'.fetched[b] = tick.fetched[b]
    BY <1>0, <1>2 DEF FetchPVCs, pvcaVars, timeVars, Ticks
  <2>2. Unwritten' = Unwritten
    BY <2>1 DEF Unwritten
  <2>3. ASSUME NEW b \in PVCAs, NEW q \in PVCs, SoleTarget(b, q)' PROVE MemoryInv(b, q)'
    <3>1. MemoryInv(b, q)
      BY <1>0, <2>3, Zenon DEF CooldownInv, SoleTarget
    <3> QED
      BY <2>1, <2>2, <3>1, Zenon DEF MemoryInv, HasPolicy
  <2> QED
    BY <1>0, <2>1, <2>3, Zenon DEF CooldownInv
<1>3. \A a \in PVCAs : ~FetchFails(a)
  BY DEF FetchFails, ReliableTicks, SteadyStep
<1>4. ASSUME NEW a \in PVCAs, StartPVCA(a) PROVE CooldownInv'
  <2>1. /\ phase = "pick" /\ phase' = "claim" /\ UNCHANGED <<policies, recs, now, lastScaled>>
        /\ a \in tick.left
        /\ tick'.left = tick.left \ {a} /\ tick'.toFetch = tick.toFetch
        /\ tick'.recs = tick.recs /\ tick'.policies = tick.policies /\ tick'.fetched = tick.fetched
        /\ job'.pvca = a
    BY <1>0, <1>4 DEF StartPVCA, pvcaVars, timeVars, Ticks
  <2>2. tick.toFetch = {} /\ Unwritten' = Unwritten
    BY <2>1, Zenon DEF Unwritten, TickInv
  <2>3. ASSUME NEW q \in PVCs, SoleTarget(a, q) PROVE job'.recs[q].last = lastScaled[q]
    <3>1. MemoryInv(a, q) /\ q \in tick.fetched[a]
      BY <2>1, <2>2, <2>3, Zenon DEF CooldownInv, SoleTarget
    <3>2. job'.recs[q] = IF HasPolicy(q, tick.policies[a]) THEN tick.recs[a][q] ELSE NoRec
      BY <1>4, <3>1 DEF StartPVCA
    <3>3. CASE HasPolicy(q, tick.policies[a])
      BY <2>1, <3>1, <3>2, <3>3, Zenon DEF MemoryInv
    <3>4. CASE ~HasPolicy(q, tick.policies[a])
      <4>1. lastScaled[q] = Never
        BY <2>1, <3>1, <3>4, Zenon DEF MemoryInv
      <4> QED
        BY <3>2, <3>4, <4>1 DEF NoRec
    <3> QED
      BY <3>3, <3>4, Zenon
  <2>4. ASSUME NEW b \in PVCAs, NEW q \in PVCs, SoleTarget(b, q)' PROVE MemoryInv(b, q)'
    <3>1. SoleTarget(b, q) /\ MemoryInv(b, q)
      BY <1>0, <2>4, Zenon DEF CooldownInv, SoleTarget
    <3> QED
      BY <2>1, <2>2, <2>3, <3>1, Zenon DEF MemoryInv, HasPolicy
  <2> QED
    BY <1>0, <2>1, <2>4, Zenon DEF CooldownInv
<1>5. ASSUME NEW p \in PVCs, ClaimStep(p) PROVE CooldownInv'
  BY <1>5, CooldownClaimStep
<1>6. CASE PatchStep
  BY <1>6, CooldownPatchStep DEF ReliableTicks
<1>7. CASE SetStatus
  BY <1>7, CooldownWritten
<1>8. ~SetStatusFails /\ ~Crash
  BY DEF SetStatusFails, Crash, ReliableTicks
<1>9. CASE QuietStep
  BY <1>9, CooldownQuietStep DEF SteadyStep
<1> QED
  BY <1>1, <1>2, <1>3, <1>4, <1>5, <1>6, <1>7, <1>8, <1>9, TickKinds

\* Two scale-ups of a claim are at least the cooldown of its policy apart, for any number
\* of PVCAs and claims and while users edit policies, when fetches, answers and status
\* updates are reliable, the workloads keep their claims and the claims keep a policy.
THEOREM CooldownKept ==
    ASSUME ReliableTicks
    PROVE  Spec /\ [][SteadyStep]_vars => CooldownRespected
<1>1. TypeOK /\ TickInv /\ CooldownInv /\ [Next]_vars /\ [SteadyStep]_vars => CooldownInv'
  <2>1. ASSUME TypeOK, CooldownInv, UNCHANGED vars PROVE CooldownInv'
    <3>1. KeepsClaims
      BY <2>1, Zenon DEF KeepsClaims, vars, pvcaVars
    <3> QED
      BY <2>1, <3>1, CooldownQuietStep DEF QuietStep
  <2> QED
    BY <2>1, CooldownInvStep
<1>2. ASSUME TypeOK, CooldownInv, [Next]_vars, NEW p \in PVCs, ScaledUp(p), lastScaled[p] # Never
      PROVE  now - lastScaled[p] >= CurrentPolicy(p).cooldown
  BY <1>2, PatchedClaim, Zenon DEF ScaledUp, CooldownInv
<1>3. TypeOK /\ CooldownInv /\ [Next]_vars =>
         [\A p \in PVCs : ScaledUp(p) /\ lastScaled[p] # Never =>
             now - lastScaled[p] >= CurrentPolicy(p).cooldown]_vars
  BY <1>2
<1> QED
  BY <1>1, <1>3, CooldownInvInit, TicksSound, PTL DEF Spec, CooldownRespected

=============================================================================
