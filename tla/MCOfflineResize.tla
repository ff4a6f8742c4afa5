-------------------------- MODULE MCOfflineResize ---------------------------
(***************************************************************************)
(* Small instances of the offline-resize controller.                       *)
(***************************************************************************)
EXTENDS OfflineResize

\* Every Pod mounts every claim.
SharedMounts == [k \in Pods |-> PVCs]

=============================================================================
