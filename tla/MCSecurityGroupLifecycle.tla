---------------------- MODULE MCSecurityGroupLifecycle ----------------------
(***************************************************************************)
(* One Cluster with two pools, the second created later.                   *)
(***************************************************************************)
EXTENDS SecurityGroupLifecycle

MCClusterOf == [p \in Pool |-> "c1"]

\* The whole cluster, one of its pools, or both at once.
MCReferences == {{KCP("c1")}, {KMP("p1")}, {KCP("c1"), KMP("p1")}}

=============================================================================
