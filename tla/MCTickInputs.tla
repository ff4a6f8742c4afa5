---------------------------- MODULE MCTickInputs ----------------------------
(***************************************************************************)
(* A small instance: the Pods of one workload mount p1 and both claims,    *)
(* the Pod of another mounts p2, and the volume of p1 grows.               *)
(***************************************************************************)
EXTENDS TickInputs, TLC

CONSTANTS k1, k2, k3, p1, p2, w1, w2

MCTargetPods == w1 :> {k1, k2} @@ w2 :> {k3}

MCMounts == k1 :> {p1} @@ k2 :> {p1, p2} @@ k3 :> {p2}

MCUsage == [c \in Claims |-> IF c = p1 THEN [bytes |-> 3, inodes |-> 1] ELSE [bytes |-> 1, inodes |-> 3]]

=============================================================================
