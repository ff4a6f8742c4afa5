---------------------------- MODULE MCAutoscaler ----------------------------
(***************************************************************************)
(* Small instances of the whole autoscaler.                                *)
(***************************************************************************)
EXTENDS Autoscaler

PoliciesFixed ==
    {<<[match |-> PVCs, max |-> 9, step |-> 50, minStep |-> 2, threshold |-> 80, cooldown |-> 0,
        strategy |-> "PreferInPlace"]>>}

SharedMounts == [k \in Pods |-> PVCs]

=============================================================================
