-------------------------------- MODULE MCPod --------------------------------
(* Pods, templates and one ReplicaSet, for the runs in MCPod*.cfg.           *)
EXTENDS Pod
=============================================================================
