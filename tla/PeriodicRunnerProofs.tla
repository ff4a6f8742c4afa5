------------------------ MODULE PeriodicRunnerProofs ------------------------
(***************************************************************************)
(* Theorems about the periodic runner, for every set of claims, autoscaler *)
(* objects and policies, every resolution and every combination of faults. *)
(***************************************************************************)
EXTENDS PeriodicRunner, VolumeSizingProofs, WellFoundedInduction

-----------------------------------------------------------------------------
(***************************************************************************)
(* Policies and recommendations                                            *)
(***************************************************************************)
\* A claim that matches a policy list has a policy, the first match.
LEMMA PolicyFound ==
    ASSUME NEW list \in Seq(Policy), NEW p \in PVCs, HasPolicy(p, list)
    PROVE  /\ GetVolumePolicy(p, list) \in Policy
           /\ \E i \in DOMAIN list : GetVolumePolicy(p, list) = list[i]
<1> DEFINE T == {i \in DOMAIN list : p \in list[i].match}
           R == OpToRel(<, Nat)
<1>1. T \subseteq Nat /\ T # {}
  BY DEF HasPolicy
<1>2. PICK i \in T : \A j \in T : ~(<<j, i>> \in R)
  <2>1. IsWellFoundedOn(R, Nat)
    BY NatLessThanWellFounded
  <2> HIDE DEF R, T
  <2> QED
    BY <1>1, <2>1, WFMin, Zenon
<1>3. \A j \in T : ~(j < i)
  BY <1>1, <1>2, Zenon DEF OpToRel
<1>4. /\ i \in DOMAIN list
      /\ p \in list[i].match
      /\ \A j \in DOMAIN list : j < i => p \notin list[j].match
  BY <1>3
<1>5. \E k \in DOMAIN list : GetVolumePolicy(p, list) = list[k]
  BY <1>4, Zenon DEF GetVolumePolicy
<1> QED
  BY <1>5

\* The absence of a recommendation is a recommendation of its type.
LEMMA NoRecType == NoRec \in Rec /\ NoRecs \in [PVCs -> Rec]
BY DEF NoRec, NoRecs, Rec, NoSize, Never

\* The target of recommendResize is a size.
LEMMA TargetType ==
    ASSUME NEW n \in Nat, NEW policy \in Policy
    PROVE  RecommendedSize(n, policy.step, policy.minStep, policy.max) \in Nat
<1>1. policy.step \in Nat /\ policy.minStep \in Nat /\ policy.max \in Nat
  BY DEF Policy
<1> QED
  BY <1>1, RecommendedSizeBounds DEF NoSize

-----------------------------------------------------------------------------
(***************************************************************************)
(* Type correctness                                                        *)
(***************************************************************************)
\* The runner between ticks is well typed.
LEMMA EmptyTypes == NoTick \in Ticks /\ NoJob \in Jobs /\ NoPatch \in Patches
BY NoRecType DEF NoTick, NoJob, NoPatch, Ticks, Jobs, Patches, NoReading, Reading, CondStatus, NoSize

\* Nothing has been read and nothing is left to do between ticks.
LEMMA EmptyTick ==
    /\ NoTick.toFetch = {} /\ NoTick.left = {}
    /\ \A a \in PVCAs : NoTick.policies[a] = <<>> /\ NoTick.fetched[a] = {}
BY DEF NoTick

\* The initial states are well typed.
LEMMA InitTypeOK == Init => TypeOK
<1> SUFFICES ASSUME Init PROVE TypeOK
  OBVIOUS
<1>1. PVCTypeOK
  BY SizeAssumption, Zenon DEF Init, PVCTypeOK, NoAnnotation, Unparsable
<1>2. PVCATypeOK
  BY NoRecType, PolicyAssumption, ClaimAssumption DEF Init, PVCATypeOK, CondStatus, ValidLists
<1>3. RunnerTypeOK
  BY EmptyTypes DEF Init, RunnerTypeOK
<1> QED
  BY <1>1, <1>2, <1>3 DEF Init, TypeOK, Never

\* What the code has established when it decides to patch a claim.
LEMMA ResizeVerdict ==
    ASSUME NEW p \in PVCs, Verdict(p) = "resize"
    PROVE  /\ ~(Cardinality(Owners(p)) > 1)
           /\ HasPolicy(p, tick.policies[job.pvca])
           /\ ValidPVC(p, CurrentPolicy(p))
           /\ UsableMetrics(p)
           /\ ~ShouldRecover(p)
           /\ ~IsResizeInProgress(p)
           /\ Target(p, CurrentPolicy(p)) # NoSize
           /\ CurrentPolicy(p).strategy # "Off"
           /\ ~IsInCooldown(p, CurrentPolicy(p))
BY DEF Verdict

\* What the code has established when it calls Recover and Recover patches.
LEMMA RecoverVerdict ==
    ASSUME NEW p \in PVCs, Verdict(p) = "recover"
    PROVE  /\ ~(Cardinality(Owners(p)) > 1)
           /\ ValidPVC(p, CurrentPolicy(p))
           /\ ShouldRecover(p)
           /\ Kubernetes134
           /\ RecoverySize(spec[p], cap[p]) < spec[p]
BY DEF Verdict

\* A claim left alone for the Off strategy has a policy, and the policy says so.
LEMMA OffVerdict ==
    ASSUME NEW p \in PVCs, Verdict(p) = "off"
    PROVE  HasPolicy(p, tick.policies[job.pvca]) /\ CurrentPolicy(p).strategy = "Off"
BY DEF Verdict

\* The policy in force is a policy, and the target computed from it a size.
LEMMA CurrentPolicyType ==
    ASSUME TypeOK, job.pvca \in PVCAs, NEW p \in PVCs, HasPolicy(p, tick.policies[job.pvca])
    PROVE  CurrentPolicy(p) \in Policy /\ Target(p, CurrentPolicy(p)) \in Nat
<1>1. tick.policies[job.pvca] \in Seq(Policy)
  BY DEF TypeOK, RunnerTypeOK, Ticks
<1>2. CurrentPolicy(p) \in Policy
  BY <1>1, PolicyFound DEF CurrentPolicy
<1>3. spec[p] \in Nat
  BY DEF TypeOK, PVCTypeOK
<1> QED
  BY <1>2, <1>3, TargetType DEF Target

\* updateVolumeRecommendationForPVC returns a recommendation.
LEMMA UpdatedRecType ==
    ASSUME TypeOK, NEW p \in PVCs
    PROVE  UpdatedRec(p) \in Rec
BY DEF TypeOK, RunnerTypeOK, PVCTypeOK, Jobs, UpdatedRec, Rec, Never

\* The status a claim reports is one of the three condition statuses.
LEMMA ReportedStatusType ==
    ASSUME NEW p, NEW v
    PROVE  ReportedStatus(p, v) \subseteq {"True", "False", "Unknown"}
BY DEF ReportedStatus

\* Every step keeps the claims well typed.
LEMMA PVCTypeStep == TypeOK /\ [Next]_vars => PVCTypeOK'
<1> SUFFICES ASSUME TypeOK, [Next]_vars PROVE PVCTypeOK'
  OBVIOUS
<1> USE DEF TypeOK, PVCTypeOK
<1>1. CASE UNCHANGED pvcVars
  BY <1>1 DEF pvcVars
<1>2. CASE ResizePVC \/ ResizePVCFails
  <2>1. patch \in Patches /\ patch.pvc \in PVCs /\ patch.target \in Nat \ {0} /\ patch.spec \in Nat
    BY <1>2 DEF RunnerTypeOK, Patches, ResizePVC, ResizePVCFails
  <2>2. UNCHANGED <<cap, conds, alloc, failed>>
    BY <1>2 DEF ResizePVC, ResizePVCFails
  <2>3. UNCHANGED <<prev, spec>> \/ ApplyResize
    BY <1>2 DEF ResizePVC, ResizePVCFails
  <2> QED
    BY <2>1, <2>2, <2>3 DEF ApplyResize
<1>3. CASE Recover \/ RecoverFails
  <2>1. patch \in Patches /\ patch.pvc \in PVCs /\ patch.target \in Nat \ {0}
    BY <1>3 DEF RunnerTypeOK, Patches, Recover, RecoverFails
  <2> QED
    BY <1>3, <2>1 DEF Recover, RecoverFails
<1>4. ASSUME NEW p \in PVCs, StorageWorks(p) PROVE PVCTypeOK'
  <2>1. CASE Bind(p)
    <3>1. RoundUp(spec[p], Granule) \in Nat
      BY RoundUpBounds, SizeAssumption
    <3> QED
      BY <2>1, <3>1 DEF Bind
  <2>2. CASE ExpansionStarts(p)
    BY <2>2 DEF ExpansionStarts
  <2>3. CASE FileSystemPending(p)
    BY <2>3 DEF FileSystemPending
  <2>4. CASE ExpansionDone(p)
    <3>1. RoundUp(alloc[p], Granule) \in Nat
      BY RoundUpBounds, SizeAssumption
    <3> QED
      BY <2>4, <3>1 DEF ExpansionDone
  <2>5. ASSUME NEW kind \in AllFailKinds, ExpansionFails(p, kind) PROVE PVCTypeOK'
    BY <2>5 DEF ExpansionFails
  <2>6. CASE ModifyVolume(p)
    BY <2>6 DEF ModifyVolume
  <2> QED
    BY <1>4, <2>1, <2>2, <2>3, <2>4, <2>5, <2>6 DEF StorageWorks
<1>5. CASE UsersAct
  <2>1. ASSUME NEW p \in PVCs, UserResizes(p) PROVE PVCTypeOK'
    BY <2>1, SizeAssumption DEF UserResizes
  <2>2. ASSUME NEW p \in PVCs, UserGarblesAnnotation(p) PROVE PVCTypeOK'
    BY <2>2 DEF UserGarblesAnnotation
  <2>3. ASSUME NEW a \in PVCAs, UserEditsPolicies(a) \/ TargetChanges(a) PROVE PVCTypeOK'
    BY <2>3, <1>1 DEF UserEditsPolicies, TargetChanges
  <2> QED
    BY <1>5, <2>1, <2>2, <2>3 DEF UsersAct
<1>6. ASSUME RunnerWorks, ~(ResizePVC \/ ResizePVCFails), ~(Recover \/ RecoverFails)
      PROVE  UNCHANGED pvcVars
  BY <1>6, Zenon DEF RunnerWorks, StartTick, FetchPVCs, FetchFails, StartPVCA, SkipClaim, GetFails, SettleClaim,
              PlanResize, PlanRecovery, RecoverConflict, SetStatus, SetStatusFails
<1>7. ASSUME Crash \/ TimePasses \/ UNCHANGED vars PROVE UNCHANGED pvcVars
  BY <1>7 DEF Crash, TimePasses, vars
<1> QED
  BY <1>1, <1>2, <1>3, <1>4, <1>5, <1>6, <1>7 DEF Next

\* Every step keeps the autoscaler objects well typed.
LEMMA PVCATypeStep == TypeOK /\ [Next]_vars => PVCATypeOK'
<1> SUFFICES ASSUME TypeOK, [Next]_vars PROVE PVCATypeOK'
  OBVIOUS
<1> USE DEF TypeOK, PVCATypeOK
<1>1. CASE UNCHANGED pvcaVars
  BY <1>1 DEF pvcaVars
<1>2. ASSUME NEW a \in PVCAs, FetchFails(a) PROVE PVCATypeOK'
  <2>1. /\ UNCHANGED <<policies, targets>>
        /\ recs' = [recs EXCEPT ![a] = NoRecs] \/ UNCHANGED recs
        /\ available' = [available EXCEPT ![a] = "False"] \/ UNCHANGED available
        /\ \/ \E c \in {"none", "Unknown"} : resizing' = [resizing EXCEPT ![a] = c]
           \/ UNCHANGED resizing
    BY <1>2 DEF FetchFails
  <2> QED
    BY <2>1, NoRecType, Zenon DEF CondStatus
<1>3. CASE SetStatus
  <2>1. job.pvca \in PVCAs /\ job.recs \in [PVCs -> Rec]
    BY <1>3 DEF SetStatus, RunnerTypeOK, Jobs
  <2>2. AggregatedResizing(job.conds) \in CondStatus
    BY DEF AggregatedResizing, CondStatus
  <2>3. AggregatedRecommendation(job.failed) \in CondStatus
    BY DEF AggregatedRecommendation, CondStatus
  <2> QED
    BY <1>3, <2>1, <2>2, <2>3 DEF SetStatus
<1>4. ASSUME NEW a \in PVCAs, UserEditsPolicies(a) PROVE PVCATypeOK'
  BY <1>4, PolicyAssumption DEF UserEditsPolicies, ValidLists
<1>5. ASSUME NEW a \in PVCAs, TargetChanges(a) PROVE PVCATypeOK'
  BY <1>5, ClaimAssumption DEF TargetChanges
<1>6. ASSUME RunnerWorks, ~SetStatus, \A a \in PVCAs : ~FetchFails(a)
      PROVE  UNCHANGED pvcaVars
  BY <1>6, Zenon DEF RunnerWorks, StartTick, FetchPVCs, StartPVCA, SkipClaim, GetFails, SettleClaim,
              PlanResize, PlanRecovery, ResizePVC, ResizePVCFails, Recover, RecoverConflict,
              RecoverFails, SetStatusFails
<1>7. ASSUME NEW p \in PVCs, StorageWorks(p) \/ UserResizes(p) \/ UserGarblesAnnotation(p)
      PROVE  UNCHANGED pvcaVars
  BY <1>7, SMTT(30) DEF StorageWorks, Bind, ExpansionStarts, FileSystemPending, ExpansionDone,
              ExpansionFails, ModifyVolume, UserResizes, UserGarblesAnnotation, EnvUnchanged
<1>8. ASSUME Crash \/ TimePasses \/ UNCHANGED vars PROVE UNCHANGED pvcaVars
  BY <1>8 DEF Crash, TimePasses, vars
<1> QED
  BY <1>1, <1>2, <1>3, <1>4, <1>5, <1>6, <1>7, <1>8 DEF Next, UsersAct

\* The end of a tick leaves the runner well typed.
LEMMA EndTickType == EndTick => RunnerTypeOK'
BY EmptyTypes DEF EndTick, RunnerTypeOK

\* A write to a claim marks the pending patch and changes nothing else in it.
LEMMA TouchType ==
    ASSUME RunnerTypeOK, NEW p, Touch(p), UNCHANGED <<phase, tick, job>>
    PROVE  RunnerTypeOK'
BY Zenon DEF RunnerTypeOK, Touch, Patches

\* The end of a patch leaves the runner well typed.
LEMMA PatchDoneType ==
    ASSUME RunnerTypeOK, phase \in {"resize", "recover"}, NEW rec \in Rec,
           NEW status \in SUBSET {"True", "False", "Unknown"},
           PatchDone(status, rec), UNCHANGED tick
    PROVE  RunnerTypeOK'
<1>1. job' \in Jobs /\ job'.pvca = job.pvca
  BY Zenon DEF RunnerTypeOK, PatchDone, Jobs
<1> QED
  BY <1>1, EmptyTypes DEF RunnerTypeOK, PatchDone

\* Every step keeps the state of the runner well typed.
LEMMA RunnerTypeStep == TypeOK /\ [Next]_vars => RunnerTypeOK'
<1> SUFFICES ASSUME TypeOK, [Next]_vars PROVE RunnerTypeOK'
  OBVIOUS
<1>0. RunnerTypeOK /\ PVCTypeOK /\ PVCATypeOK /\ now \in Nat
  BY DEF TypeOK
<1>1. CASE UNCHANGED runVars
  BY <1>0, <1>1 DEF runVars, RunnerTypeOK
<1>2. CASE StartTick
  <2>1. tick' \in Ticks
    <3> DEFINE C == {cap[p] : p \in PVCs} \cup LagSizes
    <3>1. PICK metrics \in [PVCs -> [capacity : C, space : Percents, inodes : Percents]] :
             tick' = [policies |-> policies, recs |-> recs, resizing |-> resizing,
                      metrics |-> metrics, toFetch |-> PVCAs,
                      fetched |-> [a \in PVCAs |-> {}], left |-> {}]
      BY <1>2, Zenon DEF StartTick
    <3>2. C \subseteq Nat /\ Percents \subseteq Nat
      <4>1. \A p \in PVCs : cap[p] \in Nat
        BY <1>0 DEF PVCTypeOK
      <4>2. LagSizes \subseteq Nat /\ Percents \subseteq Nat
        BY SizeAssumption
      <4> QED
        BY <4>1, <4>2, Zenon
    <3> HIDE DEF C
    <3>3. metrics \in [PVCs -> Reading]
      BY <3>2, Zenon DEF Reading
    <3> QED
      BY <1>0, <3>1, <3>3, SMTT(30) DEF Ticks, PVCATypeOK
  <2> QED
    BY <1>0, <1>2, <2>1, SMTT(30) DEF StartTick, RunnerTypeOK
<1>3. ASSUME NEW a \in PVCAs, FetchPVCs(a) PROVE RunnerTypeOK'
  <2>1. tick' \in Ticks
    BY <1>0, <1>3, Zenon DEF FetchPVCs, Ticks, RunnerTypeOK, PVCATypeOK
  <2> QED
    BY <1>0, <1>3, <2>1 DEF FetchPVCs, RunnerTypeOK
<1>4. ASSUME NEW a \in PVCAs, FetchFails(a) PROVE RunnerTypeOK'
  <2>1. CASE EndTick
    BY <2>1, EndTickType
  <2>2. CASE ~EndTick
    <3>1. /\ tick' = [tick EXCEPT !.toFetch = @ \ {a}]
          /\ phase' \in {"pick", "fetch"}
          /\ phase = "fetch"
          /\ UNCHANGED <<job, patch>>
      BY <1>4, <2>2 DEF FetchFails
    <3>2. tick' \in Ticks
      BY <1>0, <3>1, Zenon DEF Ticks, RunnerTypeOK
    <3> QED
      BY <1>0, <3>1, <3>2 DEF RunnerTypeOK
  <2> QED
    BY <2>1, <2>2
<1>5. ASSUME NEW a \in PVCAs, StartPVCA(a) PROVE RunnerTypeOK'
  <2>1. tick' \in Ticks
    BY <1>0, <1>5, Zenon DEF StartPVCA, Ticks, RunnerTypeOK
  <2>2. job' \in Jobs /\ job'.pvca = a
    BY <1>0, <1>5, NoRecType DEF StartPVCA, Jobs, Ticks, RunnerTypeOK
  <2> QED
    BY <1>0, <1>5, <2>1, <2>2 DEF StartPVCA, RunnerTypeOK
<1>6. ASSUME NEW p \in PVCs, SkipClaim(p) \/ GetFails(p) PROVE RunnerTypeOK'
  <2>1. job' \in Jobs /\ job'.pvca = job.pvca
    BY <1>0, <1>6, Zenon DEF SkipClaim, GetFails, Jobs, RunnerTypeOK
  <2> QED
    BY <1>0, <1>6, <2>1 DEF SkipClaim, GetFails, RunnerTypeOK
<1>7. ASSUME NEW p \in PVCs, SettleClaim(p) PROVE RunnerTypeOK'
  <2> DEFINE rec == IF Verdict(p) = "off"
                    THEN [UpdatedRec(p) EXCEPT !.target = Target(p, CurrentPolicy(p))]
                    ELSE UpdatedRec(p)
             status == ReportedStatus(p, Verdict(p))
  <2>1. job.pvca \in PVCAs
    BY <1>0, <1>7 DEF SettleClaim, RunnerTypeOK
  <2>2. rec \in Rec
    <3>1. CASE Verdict(p) = "off"
      <4>1. Target(p, CurrentPolicy(p)) \in Nat
        BY <2>1, <3>1, OffVerdict, CurrentPolicyType
      <4>2. UpdatedRec(p) \in Rec
        BY UpdatedRecType
      <4> QED
        BY <3>1, <4>1, <4>2 DEF Rec
    <3>2. CASE Verdict(p) # "off"
      BY <3>2, UpdatedRecType
    <3> QED
      BY <3>1, <3>2
  <2>3. status \subseteq {"True", "False", "Unknown"}
    BY ReportedStatusType
  <2>4. job' = [job EXCEPT !.todo = @ \ {p}, !.recs[p] = rec, !.conds = @ \cup status]
    BY <1>7 DEF SettleClaim
  <2> HIDE DEF rec, status
  <2>5. job' \in Jobs /\ job'.pvca = job.pvca
    BY <1>0, <2>2, <2>3, <2>4, Zenon DEF Jobs, RunnerTypeOK
  <2> QED
    BY <1>0, <1>7, <2>5 DEF SettleClaim, RunnerTypeOK
<1>8. ASSUME NEW p \in PVCs, PlanResize(p) PROVE RunnerTypeOK'
  <2>1. job.pvca \in PVCAs
    BY <1>0, <1>8 DEF PlanResize, RunnerTypeOK
  <2>2. Target(p, CurrentPolicy(p)) \in Nat \ {0}
    BY <1>8, <2>1, ResizeVerdict, CurrentPolicyType DEF PlanResize, NoSize
  <2>3. patch' \in Patches /\ patch'.pvc = p /\ patch'.target # 0
    BY <1>0, <1>8, <2>2 DEF PlanResize, Patches, PVCTypeOK
  <2>4. job' \in Jobs /\ job'.pvca = job.pvca
    BY <1>0, <1>8, UpdatedRecType, Zenon DEF PlanResize, Jobs, RunnerTypeOK
  <2> QED
    BY <1>0, <1>8, <2>1, <2>3, <2>4 DEF PlanResize, RunnerTypeOK
<1>9. ASSUME NEW p \in PVCs, PlanRecovery(p) PROVE RunnerTypeOK'
  <2>1. RecoverySize(spec[p], cap[p]) \in Nat \ {0}
    BY <1>0, RecoverySizeAboveCapacity DEF PVCTypeOK
  <2>2. patch' \in Patches /\ patch'.pvc = p /\ patch'.target # 0
    BY <1>0, <1>9, <2>1 DEF PlanRecovery, Patches, PVCTypeOK
  <2>3. job' \in Jobs /\ job'.pvca = job.pvca
    BY <1>0, <1>9, UpdatedRecType, Zenon DEF PlanRecovery, Jobs, RunnerTypeOK
  <2> QED
    BY <1>0, <1>9, <2>2, <2>3 DEF PlanRecovery, RunnerTypeOK
<1>10. CASE ResizePVC \/ ResizePVCFails \/ Recover \/ RecoverConflict \/ RecoverFails
  <2>1. phase \in {"resize", "recover"} /\ UNCHANGED tick
    BY <1>10 DEF ResizePVC, ResizePVCFails, Recover, RecoverConflict, RecoverFails
  <2>2. patch.pvc \in PVCs /\ patch.target \in Nat /\ job.recs[patch.pvc] \in Rec
    BY <1>0, <2>1 DEF RunnerTypeOK, Patches, Jobs
  <2>3. PICK status \in SUBSET {"True", "False", "Unknown"}, rec \in Rec : PatchDone(status, rec)
    <3>1. CASE ResizePVC
      BY <1>0, <2>2, <3>1 DEF ResizePVC, Rec
    <3>2. CASE Recover
      BY <2>2, <3>2 DEF Recover, Rec
    <3>3. CASE ResizePVCFails \/ RecoverConflict \/ RecoverFails
      BY <2>2, <3>3 DEF ResizePVCFails, RecoverConflict, RecoverFails
    <3> QED
      BY <1>10, <3>1, <3>2, <3>3
  <2> QED
    BY <1>0, <2>1, <2>3, PatchDoneType
<1>11. CASE SetStatus \/ SetStatusFails
  <2>1. CASE EndTick
    BY <2>1, EndTickType
  <2>2. CASE ~EndTick
    BY <1>0, <1>11, <2>2, EmptyTypes, SMTT(30) DEF SetStatus, SetStatusFails, NextPVCA, RunnerTypeOK
  <2> QED
    BY <2>1, <2>2
<1>12. CASE Crash
  BY <1>12, EndTickType DEF Crash
<1>13. ASSUME NEW p \in PVCs, StorageWorks(p) \/ UserResizes(p) \/ UserGarblesAnnotation(p)
       PROVE  RunnerTypeOK'
  <2>1. Touch(p) /\ UNCHANGED <<phase, tick, job>>
    BY <1>13, SMTT(30) DEF StorageWorks, Bind, ExpansionStarts, FileSystemPending, ExpansionDone,
                 ExpansionFails, ModifyVolume, UserResizes, UserGarblesAnnotation, EnvUnchanged
  <2> QED
    BY <1>0, <2>1, TouchType
<1>14. ASSUME NEW a \in PVCAs, UserEditsPolicies(a) \/ TargetChanges(a) PROVE UNCHANGED runVars
  BY <1>14 DEF UserEditsPolicies, TargetChanges
<1>15. ASSUME TimePasses \/ UNCHANGED vars PROVE UNCHANGED runVars
  BY <1>15 DEF TimePasses, vars
<1> QED
  BY <1>1, <1>2, <1>3, <1>4, <1>5, <1>6, <1>7, <1>8, <1>9, <1>10, <1>11, <1>12, <1>13, <1>14,
     <1>15 DEF Next, RunnerWorks, UsersAct

\* Every step keeps the clock and the history well typed.
LEMMA TimeTypeStep ==
    TypeOK /\ [Next]_vars => now' \in Nat /\ lastScaled' \in [PVCs -> Nat \cup {Never}]
<1> SUFFICES ASSUME TypeOK, [Next]_vars
             PROVE  now' \in Nat /\ lastScaled' \in [PVCs -> Nat \cup {Never}]
  OBVIOUS
<1>1. UNCHANGED timeVars \/ TimePasses \/ ResizePVC \/ ResizePVCFails
  BY Zenon DEF Next, RunnerWorks, UsersAct, StorageWorks, EnvUnchanged, StartTick, FetchPVCs, FetchFails,
         StartPVCA, SkipClaim, GetFails, SettleClaim, PlanResize, PlanRecovery, Recover, RecoverConflict,
         RecoverFails, SetStatus, SetStatusFails, Crash, Bind, ExpansionStarts, FileSystemPending,
         ExpansionDone, ExpansionFails, ModifyVolume, UserResizes, UserGarblesAnnotation,
         UserEditsPolicies, TargetChanges, vars
<1> QED
  BY <1>1, SMTT(30) DEF TypeOK, timeVars, TimePasses, ResizePVC, ResizePVCFails, ApplyResize

\* Type correctness, for every combination of faults and every environment.
THEOREM TypeCorrect == Spec => []TypeOK
<1>1. TypeOK /\ [Next]_vars => TypeOK'
  BY PVCTypeStep, PVCATypeStep, RunnerTypeStep, TimeTypeStep DEF TypeOK
<1> QED
  BY InitTypeOK, <1>1, PTL DEF Spec

-----------------------------------------------------------------------------
(***************************************************************************)
(* Which steps do what                                                     *)
(***************************************************************************)
\* A tick begins with the policies and the status of all PVCAs, and with metrics.
LEMMA TickStarts ==
    ASSUME StartTick
    PROVE  /\ phase = "idle" /\ phase' = "fetch"
           /\ UNCHANGED <<spec, cap, policies, targets, recs, job, now, lastScaled>>
           /\ tick'.policies = policies /\ tick'.recs = recs
           /\ tick'.toFetch = PVCAs /\ tick'.left = {}
           /\ \A a \in PVCAs : tick'.fetched[a] = {}
           /\ \A p \in PVCs :
                 tick'.metrics[p].capacity \in {cap[p]} \cup {c \in LagSizes : c < cap[p]}
<1>1. PICK metrics :
         /\ \A p \in PVCs : metrics[p].capacity \in {cap[p]} \cup {c \in LagSizes : c < cap[p]}
         /\ tick' = [policies |-> policies, recs |-> recs, resizing |-> resizing,
                     metrics |-> metrics, toFetch |-> PVCAs,
                     fetched |-> [a \in PVCAs |-> {}], left |-> {}]
  BY Zenon DEF StartTick
<1>2. /\ tick'.policies = policies /\ tick'.recs = recs /\ tick'.metrics = metrics
      /\ tick'.toFetch = PVCAs /\ tick'.left = {}
      /\ \A a \in PVCAs : tick'.fetched[a] = {}
  BY ONLY <1>1
<1>3. /\ phase = "idle" /\ phase' = "fetch"
      /\ UNCHANGED <<spec, cap, policies, targets, recs, job, now, lastScaled>>
  BY Zenon DEF StartTick, pvcVars, pvcaVars, timeVars
<1> QED
  BY <1>1, <1>2, <1>3, Zenon

\* The steps of the environment on one claim.
ClaimWrite(p) == StorageWorks(p) \/ UserResizes(p) \/ UserGarblesAnnotation(p)

\* A write of the environment to a claim concerns nothing but claims and the pending patch.
LEMMA ClaimWriteFrame ==
    ASSUME NEW p, ClaimWrite(p)
    PROVE  Touch(p) /\ UNCHANGED <<pvcaVars, phase, tick, job, timeVars>>
BY DEF ClaimWrite, StorageWorks, Bind, ExpansionStarts, FileSystemPending, ExpansionDone,
       ExpansionFails, ModifyVolume, UserResizes, UserGarblesAnnotation, EnvUnchanged

\* A write to one claim leaves the others as they are.
LEMMA ClaimWriteLocal ==
    ASSUME TypeOK, NEW p \in PVCs, ClaimWrite(p), NEW q \in PVCs, q # p
    PROVE  /\ spec'[q] = spec[q] /\ cap'[q] = cap[q] /\ prev'[q] = prev[q]
           /\ alloc'[q] = alloc[q] /\ failed'[q] = failed[q]
<1> USE DEF TypeOK, PVCTypeOK
<1>1. CASE Bind(p)
  BY <1>1 DEF Bind
<1>2. CASE ExpansionStarts(p)
  BY <1>2 DEF ExpansionStarts
<1>3. CASE FileSystemPending(p)
  BY <1>3 DEF FileSystemPending
<1>4. CASE ExpansionDone(p)
  BY <1>4 DEF ExpansionDone
<1>5. ASSUME NEW kind, ExpansionFails(p, kind)
      PROVE  /\ spec' = spec /\ cap' = cap /\ prev' = prev
             /\ alloc' = alloc /\ failed'[q] = failed[q]
  BY <1>5 DEF ExpansionFails
<1>6. CASE ModifyVolume(p)
  BY <1>6 DEF ModifyVolume
<1>7. CASE UserResizes(p)
  BY <1>7 DEF UserResizes
<1>8. CASE UserGarblesAnnotation(p)
  BY <1>8 DEF UserGarblesAnnotation
<1> QED
  BY <1>1, <1>2, <1>3, <1>4, <1>5, <1>6, <1>7, <1>8 DEF ClaimWrite, StorageWorks

PlainStep ==
    /\ UNCHANGED pvcVars
    /\ \/ phase' \notin {"resize", "recover"}
       \/ UNCHANGED runVars

PatchStep == ResizePVC \/ ResizePVCFails \/ Recover \/ RecoverConflict \/ RecoverFails

\* Every step plans a patch, ends one, writes a claim from outside or matters to
\* neither claims nor patches.
LEMMA StepKinds ==
    ASSUME [Next]_vars
    PROVE  \/ \E p \in PVCs : PlanResize(p) \/ PlanRecovery(p)
           \/ PatchStep
           \/ \E p \in PVCs : ClaimWrite(p)
           \/ PlainStep
<1>1. ASSUME NEW a, FetchPVCs(a) \/ FetchFails(a) \/ StartPVCA(a) PROVE PlainStep
  BY <1>1 DEF PlainStep, FetchPVCs, FetchFails, StartPVCA, EndTick
<1>2. ASSUME NEW p, SkipClaim(p) \/ GetFails(p) \/ SettleClaim(p) PROVE PlainStep
  BY <1>2 DEF PlainStep, SkipClaim, GetFails, SettleClaim
<1>3. ASSUME StartTick \/ SetStatus \/ SetStatusFails \/ Crash PROVE PlainStep
  BY <1>3, Zenon DEF PlainStep, StartTick, SetStatus, SetStatusFails, NextPVCA, EndTick, Crash
<1>4. ASSUME NEW a, UserEditsPolicies(a) \/ TargetChanges(a) PROVE PlainStep
  BY <1>4 DEF PlainStep, UserEditsPolicies, TargetChanges
<1>5. ASSUME TimePasses \/ UNCHANGED vars PROVE PlainStep
  BY <1>5 DEF PlainStep, TimePasses, vars
<1> QED
  BY <1>1, <1>2, <1>3, <1>4, <1>5 DEF Next, RunnerWorks, UsersAct, ClaimWrite, PatchStep

\* What a scale-up and a recovery do to the claims.
LEMMA PatchEffect ==
    ASSUME TypeOK, PatchStep
    PROVE  /\ patch.pvc \in PVCs /\ patch.target \in Nat \ {0} /\ patch.spec \in Nat
           /\ phase \in {"resize", "recover"}
           /\ phase' = "claim"
           /\ UNCHANGED <<cap, conds, alloc, failed>>
           /\ \/ UNCHANGED <<spec, prev>>
              \/ /\ phase = "resize"
                 /\ spec' = [spec EXCEPT ![patch.pvc] = patch.target]
                 /\ prev' = [prev EXCEPT ![patch.pvc] = patch.spec]
              \/ /\ phase = "recover"
                 /\ ~patch.touched
                 /\ spec' = [spec EXCEPT ![patch.pvc] = patch.target]
                 /\ prev' = prev
<1>1. phase \in {"resize", "recover"} /\ phase' = "claim" /\ UNCHANGED <<cap, conds, alloc, failed>>
  BY DEF PatchStep, ResizePVC, ResizePVCFails, Recover, RecoverConflict, RecoverFails, PatchDone, pvcVars
<1>2. patch.pvc \in PVCs /\ patch.target \in Nat \ {0} /\ patch.spec \in Nat
  BY <1>1 DEF TypeOK, RunnerTypeOK, Patches
<1>3. CASE ResizePVC \/ ResizePVCFails
  BY <1>1, <1>2, <1>3 DEF ResizePVC, ResizePVCFails, ApplyResize
<1>4. CASE Recover
  BY <1>1, <1>2, <1>4 DEF Recover
<1>5. CASE RecoverConflict
  BY <1>1, <1>2, <1>5 DEF RecoverConflict, pvcVars
<1>6. CASE RecoverFails
  BY <1>1, <1>2, <1>6 DEF RecoverFails
<1> QED
  BY <1>3, <1>4, <1>5, <1>6 DEF PatchStep

-----------------------------------------------------------------------------
(***************************************************************************)
(* Patches                                                                 *)
(***************************************************************************)
\* A planned scale-up grows the request, within the maximum of its policy.
LEMMA PlannedResize ==
    ASSUME TypeOK, NEW p \in PVCs, PlanResize(p)
    PROVE  /\ phase' = "resize" /\ patch'.pvc = p /\ patch'.spec = spec[p]
           /\ spec[p] < patch'.target
           /\ patch'.target <= CurrentPolicy(p).max
           /\ CurrentPolicy(p)' = CurrentPolicy(p)
           /\ CurrentPolicy(p).strategy # "Off"
<1> DEFINE policy == CurrentPolicy(p)
<1>1. job.pvca \in PVCAs
  BY DEF PlanResize, TypeOK, RunnerTypeOK
<1>2. Verdict(p) = "resize"
  BY DEF PlanResize
<1>3. policy \in Policy /\ policy.strategy # "Off" /\ Target(p, policy) # NoSize
  BY <1>1, <1>2, ResizeVerdict, CurrentPolicyType
<1>4. CurrentPolicy(p)' = policy
  <2>1. tick' = tick /\ job'.pvca = job.pvca
    BY DEF PlanResize, TypeOK, RunnerTypeOK, Jobs
  <2> QED
    BY <2>1 DEF CurrentPolicy, GetVolumePolicy
<1>5. /\ phase' = "resize"
      /\ patch' = [pvc |-> p, spec |-> spec[p], target |-> Target(p, policy), touched |-> FALSE]
  BY DEF PlanResize
<1>6. spec[p] \in Nat
  BY DEF TypeOK, PVCTypeOK
<1> HIDE DEF policy
<1>7. policy.step \in Nat /\ policy.minStep \in Nat /\ policy.max \in Nat
  BY <1>3 DEF Policy
<1>8. spec[p] < Target(p, policy) /\ Target(p, policy) <= policy.max
  BY <1>3, <1>6, <1>7, RecommendedSizeBounds DEF Target
<1> QED
  BY <1>3, <1>4, <1>5, <1>8 DEF policy

\* A planned recovery shrinks the request of a failed expansion and stays a step
\* above the capacity.
LEMMA PlannedRecovery ==
    ASSUME TypeOK, NEW p \in PVCs, PlanRecovery(p)
    PROVE  /\ phase' = "recover" /\ patch'.pvc = p
           /\ cap[p] < patch'.target /\ patch'.target < spec[p]
           /\ cap[p] # 0 /\ cap[p] + ScalingResolution <= patch'.target
           /\ failed[p] # "no"
           /\ UNCHANGED pvcVars
<1>1. Verdict(p) = "recover"
  BY DEF PlanRecovery
<1>2. cap[p] \in Nat /\ spec[p] \in Nat
  BY DEF TypeOK, PVCTypeOK
<1>3. /\ phase' = "recover" /\ patch'.pvc = p
      /\ patch'.target = RecoverySize(spec[p], cap[p])
      /\ UNCHANGED pvcVars
  BY DEF PlanRecovery
<1> QED
  BY <1>1, <1>2, <1>3, RecoverVerdict, RecoverySizeAboveCapacity, Zenon DEF ShouldRecover, ValidPVC

\* No patch is pending initially.
LEMMA PatchInvInit == Init => PatchInv
BY DEF Init, PatchInv

\* Every step keeps what is known of the pending patch.
LEMMA PatchInvStep == TypeOK /\ TypeOK' /\ PatchInv /\ [Next]_vars => PatchInv'
<1> SUFFICES ASSUME TypeOK, TypeOK', PatchInv, [Next]_vars PROVE PatchInv'
  OBVIOUS
<1>1. ASSUME NEW p \in PVCs, PlanResize(p) PROVE PatchInv'
  BY <1>1, PlannedResize DEF PatchInv
<1>2. ASSUME NEW p \in PVCs, PlanRecovery(p) PROVE PatchInv'
  BY <1>2, PlannedRecovery DEF PatchInv, pvcVars
<1>3. CASE PatchStep
  BY <1>3, PatchEffect DEF PatchInv
<1>4. ASSUME NEW p \in PVCs, ClaimWrite(p) PROVE PatchInv'
  <2>1. Touch(p) /\ UNCHANGED <<phase, tick, job>>
    BY <1>4, ClaimWriteFrame
  <2>2. CASE phase = "resize"
    <3>1. patch'.pvc = patch.pvc /\ patch'.target = patch.target /\ patch'.spec = patch.spec
      BY <2>1 DEF Touch, TypeOK, RunnerTypeOK, Patches
    <3>2. \A q : CurrentPolicy(q)' = CurrentPolicy(q)
      BY <2>1 DEF CurrentPolicy, GetVolumePolicy
    <3> QED
      BY <2>1, <2>2, <3>1, <3>2 DEF PatchInv
  <2>3. CASE phase = "recover"
    <3>1. CASE patch.pvc = p
      BY <2>1, <2>3, <3>1 DEF Touch, PatchInv, TypeOK, RunnerTypeOK, Patches
    <3>2. CASE patch.pvc # p
      <4>1. patch.pvc \in PVCs /\ patch' = patch
        BY <2>1, <2>3, <3>2 DEF Touch, TypeOK, RunnerTypeOK
      <4> QED
        BY <1>4, <2>1, <2>3, <3>2, <4>1, ClaimWriteLocal DEF PatchInv
    <3> QED
      BY <3>1, <3>2
  <2>4. CASE phase \notin {"resize", "recover"}
    BY <2>1, <2>4 DEF PatchInv
  <2> QED
    BY <2>2, <2>3, <2>4
<1>5. CASE PlainStep
  <2>1. CASE phase' \notin {"resize", "recover"}
    BY <2>1 DEF PatchInv
  <2>2. CASE UNCHANGED runVars
    <3>1. \A q : CurrentPolicy(q)' = CurrentPolicy(q)
      BY <2>2 DEF runVars, CurrentPolicy, GetVolumePolicy
    <3> QED
      BY <1>5, <2>2, <3>1 DEF PlainStep, runVars, pvcVars, PatchInv
  <2> QED
    BY <1>5, <2>1, <2>2 DEF PlainStep
<1> QED
  BY <1>1, <1>2, <1>3, <1>4, <1>5, StepKinds

\* A patch between its computation and its application stays what recommendResize or
\* Recover computed: within the maximum and growing the copy it was computed from, or
\* above the capacity and below the request while nobody has written the claim.
THEOREM PatchesSound == Spec => [](TypeOK /\ PatchInv)
<1>1. Init => PatchInv
  BY PatchInvInit
<1>2. TypeOK /\ TypeOK' /\ PatchInv /\ [Next]_vars => PatchInv'
  BY PatchInvStep
<1>3. Spec => []TypeOK
  BY TypeCorrect
<1> QED
  BY <1>1, <1>2, <1>3, PTL DEF Spec

\* A step that scales up or recovers a claim ends the patch for it.
LEMMA PatchedClaim ==
    ASSUME TypeOK, [Next]_vars, NEW p \in PVCs, ScaledUp(p) \/ Recovered(p)
    PROVE  /\ PatchStep
           /\ p = patch.pvc /\ spec'[p] = patch.target
           /\ Recovered(p) => ~patch.touched
<1>1. phase \in {"resize", "recover"} /\ phase' = "claim" /\ spec'[p] # spec[p]
  BY DEF ScaledUp, Recovered
<1>2. PatchStep
  <2>1. ASSUME NEW q \in PVCs, PlanResize(q) \/ PlanRecovery(q) PROVE FALSE
    BY <1>1, <2>1 DEF PlanResize, PlanRecovery
  <2>2. ASSUME NEW q \in PVCs, ClaimWrite(q) PROVE FALSE
    BY <1>1, <2>2, ClaimWriteFrame
  <2>3. ~PlainStep
    BY <1>1 DEF PlainStep, pvcVars
  <2> QED
    BY <2>1, <2>2, <2>3, StepKinds
<1> QED
  BY <1>1, <1>2, PatchEffect DEF Recovered, TypeOK, PVCTypeOK

\* resizePVC never asks for more than the maxCapacity of the policy in force when
\* the tick began, whatever fails and whoever writes the claim in between.
THEOREM MaxCapacityHonoured == Spec => ScaleUpWithinMax
<1>1. ASSUME TypeOK, PatchInv, [Next]_vars, NEW p \in PVCs, ScaledUp(p)
      PROVE  spec'[p] <= CurrentPolicy(p).max
  BY <1>1, PatchedClaim DEF ScaledUp, PatchInv
<1>2. TypeOK /\ PatchInv /\ [Next]_vars =>
         [\A p \in PVCs : ScaledUp(p) => spec'[p] <= CurrentPolicy(p).max]_vars
  BY <1>1
<1> QED
  BY <1>2, PatchesSound, PTL DEF Spec, ScaleUpWithinMax

\* Recover never reduces a request to the capacity or below, and never raises one,
\* whoever writes the claim between the read and the patch.
THEOREM RecoverySafe == Spec => RecoveryAboveCapacity
<1>1. ASSUME TypeOK, PatchInv, [Next]_vars, NEW p \in PVCs, Recovered(p)
      PROVE  cap[p] < spec'[p] /\ spec'[p] < spec[p]
  BY <1>1, PatchedClaim DEF Recovered, PatchInv
<1>2. TypeOK /\ PatchInv /\ [Next]_vars =>
         [\A p \in PVCs : Recovered(p) => cap[p] < spec'[p] /\ spec'[p] < spec[p]]_vars
  BY <1>1
<1> QED
  BY <1>2, PatchesSound, PTL DEF Spec, RecoveryAboveCapacity

-----------------------------------------------------------------------------
(***************************************************************************)
(* The webhook and the step of a scale-up                                  *)
(***************************************************************************)
\* recommendResize, with a minimum step of at least one resolution step, returns a
\* size one resolution step or more above the request.
LEMMA RecommendedStep ==
    ASSUME NEW size \in Nat, NEW step \in Nat, NEW minStep \in Nat, NEW max \in Nat,
           minStep >= ScalingResolution,
           RecommendedSize(size, step, minStep, max) # NoSize
    PROVE  RecommendedSize(size, step, minStep, max) - size >= ScalingResolution
<1> DEFINE stepped == SteppedSize(size, step, minStep)
<1>1. stepped \in Nat /\ stepped >= size + minStep
  BY SteppedSizeBounds
<1>2. RecommendedSize(size, step, minStep, max) =
          IF stepped <= size THEN NoSize
          ELSE IF stepped <= max THEN stepped
          ELSE IF AtMaxCapacity(size, max) THEN NoSize ELSE max
  BY DEF RecommendedSize
<1> HIDE DEF stepped
<1> QED
  BY <1>1, <1>2, ResolutionAssumption DEF AtMaxCapacity

\* A planned scale-up is a whole step.
LEMMA PlannedStep ==
    ASSUME TypeOK, StepInv, NEW p \in PVCs, PlanResize(p)
    PROVE  patch'.target - patch'.spec >= ScalingResolution
<1> DEFINE policy == CurrentPolicy(p)
           list == tick.policies[job.pvca]
<1>1. job.pvca \in PVCAs /\ Verdict(p) = "resize"
  BY DEF PlanResize, TypeOK, RunnerTypeOK
<1>2. HasPolicy(p, list) /\ Target(p, policy) # NoSize
  BY <1>1, ResizeVerdict, Zenon
<1>3. policy \in Policy
  BY <1>1, <1>2, CurrentPolicyType
<1>4. list \in Seq(Policy)
  BY <1>1 DEF TypeOK, RunnerTypeOK, Ticks
<1>5. \E i \in DOMAIN list : policy = list[i]
  BY <1>2, <1>4, PolicyFound DEF CurrentPolicy
<1>6. policy.minStep >= ScalingResolution
  BY <1>1, <1>5 DEF StepInv, validateVolumePolicies
<1>7. patch' = [pvc |-> p, spec |-> spec[p], target |-> Target(p, policy), touched |-> FALSE]
  BY DEF PlanResize
<1>8. spec[p] \in Nat
  BY DEF TypeOK, PVCTypeOK
<1> HIDE DEF policy
<1>9. policy.step \in Nat /\ policy.minStep \in Nat /\ policy.max \in Nat
  BY <1>3 DEF Policy
<1> QED
  BY <1>2, <1>6, <1>7, <1>8, <1>9, RecommendedStep DEF Target

\* Initially the policies have passed ValidateCreate and no patch is pending.
LEMMA StepInvInit == Init => StepInv
<1> SUFFICES ASSUME Init PROVE StepInv
  OBVIOUS
<1>1. phase # "resize"
  BY Zenon DEF Init
<1>2. ASSUME NEW a \in PVCAs PROVE validateVolumePolicies(policies[a])
  BY DEF Init, ValidLists
<1>3. ASSUME NEW a \in PVCAs PROVE validateVolumePolicies(tick.policies[a])
  <2>1. tick.policies[a] = <<>>
    BY <1>3, EmptyTick, Zenon DEF Init
  <2> QED
    BY <2>1 DEF validateVolumePolicies
<1> QED
  BY <1>1, <1>2, <1>3, Zenon DEF StepInv

\* What a step does to the policies in force and to those of the tick.
LEMMA PoliciesStep ==
    ASSUME TypeOK, [Next]_vars, NEW a \in PVCAs
    PROVE  /\ policies'[a] = policies[a] \/ policies'[a] \in ValidLists
           /\ tick'.policies[a] \in {tick.policies[a], policies[a], <<>>}
<1> USE DEF TypeOK, PVCATypeOK, RunnerTypeOK, Ticks
<1>1. CASE StartTick
  BY <1>1, TickStarts, Zenon
<1>2. ASSUME NEW b \in PVCAs, FetchPVCs(b) \/ FetchFails(b) \/ StartPVCA(b)
      PROVE  policies' = policies /\ tick'.policies[a] \in {tick.policies[a], <<>>}
  <2>1. CASE FetchPVCs(b) \/ StartPVCA(b)
    BY <2>1, Zenon DEF FetchPVCs, StartPVCA, pvcaVars
  <2>2. CASE FetchFails(b)
    <3>1. policies' = policies /\ (tick' = NoTick \/ tick' = [tick EXCEPT !.toFetch = @ \ {b}])
      BY <2>2 DEF FetchFails, EndTick
    <3>2. CASE tick' = NoTick
      BY <3>1, <3>2, EmptyTick, Zenon
    <3>3. CASE tick' = [tick EXCEPT !.toFetch = @ \ {b}]
      <4>1. tick'.policies = tick.policies
        BY <3>3
      <4> QED
        BY <3>1, <4>1
    <3> QED
      BY <3>1, <3>2, <3>3
  <2> QED
    BY <1>2, <2>1, <2>2, Zenon
<1>3. ASSUME NEW p, SkipClaim(p) \/ GetFails(p) \/ SettleClaim(p) \/ PlanResize(p) \/ PlanRecovery(p)
      PROVE  policies' = policies /\ tick' = tick
  BY <1>3 DEF SkipClaim, GetFails, SettleClaim, PlanResize, PlanRecovery, pvcaVars
<1>4. ASSUME PatchStep PROVE policies' = policies /\ tick' = tick
  BY <1>4 DEF PatchStep, ResizePVC, ResizePVCFails, Recover, RecoverConflict, RecoverFails, pvcaVars
<1>5. ASSUME SetStatus \/ SetStatusFails \/ Crash
      PROVE  policies' = policies /\ tick'.policies[a] \in {tick.policies[a], <<>>}
  <2>1. policies' = policies
    BY <1>5, Zenon DEF SetStatus, SetStatusFails, Crash, pvcaVars
  <2>2. tick' = NoTick \/ tick' = tick
    BY <1>5, Zenon DEF SetStatus, SetStatusFails, Crash, NextPVCA, EndTick
  <2>3. CASE tick' = NoTick
    BY <2>1, <2>3, EmptyTick, Zenon
  <2> QED
    BY <2>1, <2>2, <2>3
<1>6. ASSUME NEW p \in PVCs, ClaimWrite(p) PROVE policies' = policies /\ tick' = tick
  BY <1>6, ClaimWriteFrame DEF pvcaVars
<1>7. ASSUME NEW b \in PVCAs, UserEditsPolicies(b) \/ TargetChanges(b)
      PROVE  (policies'[a] = policies[a] \/ policies'[a] \in ValidLists) /\ tick' = tick
  BY <1>7 DEF UserEditsPolicies, TargetChanges, runVars
<1>8. ASSUME TimePasses \/ UNCHANGED vars PROVE policies' = policies /\ tick' = tick
  BY <1>8 DEF TimePasses, vars, pvcaVars, runVars
<1> QED
  BY <1>1, <1>2, <1>3, <1>4, <1>5, <1>6, <1>7, <1>8, Zenon
     DEF Next, RunnerWorks, UsersAct, ClaimWrite, PatchStep

\* Users write the policies, and the tick copies them.
LEMMA PoliciesInvStep == TypeOK /\ PoliciesInv /\ [Next]_vars => PoliciesInv'
BY PoliciesStep DEF PoliciesInv

\* Every step keeps policies validated and pending scale-ups whole steps.
LEMMA StepInvStep == TypeOK /\ StepInv /\ [Next]_vars => StepInv'
<1> SUFFICES ASSUME TypeOK, StepInv, [Next]_vars PROVE StepInv'
  OBVIOUS
<1>1. \A a \in PVCAs : (validateVolumePolicies(policies[a]) /\ validateVolumePolicies(tick.policies[a]))'
  <2>1. validateVolumePolicies(<<>>)
    BY DEF validateVolumePolicies
  <2> QED
    BY <2>1, PoliciesStep, Zenon DEF StepInv, ValidLists
<1>2. phase' = "resize" => patch'.target - patch'.spec >= ScalingResolution
  <2>1. ASSUME NEW p \in PVCs, PlanResize(p)
        PROVE  patch'.target - patch'.spec >= ScalingResolution
    BY <2>1, PlannedStep
  <2>2. ASSUME NEW p \in PVCs, PlanRecovery(p) PROVE phase' # "resize"
    BY <2>2 DEF PlanRecovery
  <2>3. ASSUME PatchStep PROVE phase' # "resize"
    BY <2>3, PatchEffect
  <2>4. ASSUME NEW p \in PVCs, ClaimWrite(p)
        PROVE  phase' = phase /\ patch'.target = patch.target /\ patch'.spec = patch.spec
    BY <2>4, ClaimWriteFrame DEF Touch, TypeOK, RunnerTypeOK, Patches
  <2>5. ASSUME PlainStep PROVE phase' # "resize" \/ UNCHANGED <<phase, patch>>
    BY <2>5 DEF PlainStep, runVars
  <2> QED
    BY <2>1, <2>2, <2>3, <2>4, <2>5, StepKinds DEF StepInv
<1> QED
  BY <1>1, <1>2 DEF StepInv

\* resizePVC never asks for less than one resolution step (1Gi) above the request its
\* target was computed from, because ValidateCreate and ValidateUpdate let no smaller
\* minStepAbsolute pass, whatever users and storage do meanwhile.
THEOREM ScaleUpsAreSteps == Spec => ScaleUpIsAStep
<1>1. TypeOK /\ StepInv /\ [Next]_vars => StepInv'
  BY StepInvStep
<1>2. ASSUME TypeOK, StepInv, [Next]_vars, NEW p \in PVCs, ScaledUp(p)
      PROVE  spec'[p] - patch.spec >= ScalingResolution
  BY <1>2, PatchedClaim DEF ScaledUp, StepInv
<1>3. TypeOK /\ StepInv /\ [Next]_vars =>
         [\A p \in PVCs : ScaledUp(p) => spec'[p] - patch.spec >= ScalingResolution]_vars
  BY <1>2
<1> QED
  BY <1>1, <1>3, StepInvInit, TypeCorrect, PTL DEF Spec, ScaleUpIsAStep

=============================================================================
