-------------------------- MODULE MCPeriodicRunner --------------------------
(***************************************************************************)
(* Small instances of the periodic runner.  One resolution step (1Gi) is   *)
(* two units, so that sizes that are no multiple of it exist.              *)
(***************************************************************************)
EXTENDS PeriodicRunner

MCPolicy(claims, max, cooldown, strategy) ==
    [match |-> claims, max |-> max, step |-> 50, minStep |-> 2, threshold |-> 80,
     cooldown |-> cooldown, strategy |-> strategy]

InPlaceTo(max) == <<MCPolicy(PVCs, max, 0, "InPlace")>>

PoliciesFixed == {InPlaceTo(12)}
TooSmallSteps == [MCPolicy(PVCs, 12, 0, "InPlace") EXCEPT !.step = 5, !.minStep = 1]
PoliciesEdited == {InPlaceTo(12), InPlaceTo(9), <<MCPolicy(PVCs, 12, 0, "Off")>>,
                   <<MCPolicy({}, 12, 0, "InPlace")>>, <<TooSmallSteps>>}
PoliciesCooldown == {<<MCPolicy(PVCs, 12, 2, "InPlace")>>}

AllMounted == {PVCs}
MountedOrGone == {PVCs, {}}
OneEach == {{p} : p \in PVCs}
=============================================================================
