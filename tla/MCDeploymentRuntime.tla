------------------------- MODULE MCDeploymentRuntime -------------------------
(* Model values and bounds for TLC runs of DeploymentRuntime: a virtual        *)
(* component of two pipeline components that share one with another, as        *)
(* kubernetes-master and kubernetes-node share containerd, and one of its own. *)
EXTENDS DeploymentRuntime, TLC

CONSTANTS etcd, containerd, redis, master, node, h1, h2

AllComponents == {etcd, containerd, redis}
AllVirtuals == {master, node, redis}
AllMembers == (master :> {etcd, containerd}) @@ (node :> {containerd}) @@ (redis :> {redis})
DeployOrder == (etcd :> 1) @@ (containerd :> 2) @@ (redis :> 3)
OneClient == {h1}
TwoClients == {h1, h2}

On(mode, n) == [mode |-> mode, scope |-> "component", name |-> n, dry |-> FALSE]
Cleanup == [mode |-> "rollback", scope |-> "all", name |-> "all", dry |-> FALSE]
DeployAll == [mode |-> "deploy", scope |-> "all", name |-> "all", dry |-> FALSE]
Rehearse(n) == [On("deploy", n) EXCEPT !.dry = TRUE]

LiveMix == {DeployAll, Cleanup, On("deploy", redis), Rehearse(redis), On("phase", redis)}
FaultMix == {Cleanup, On("deploy", master)}
CleanupMix == {On("deploy", master), On("deploy", redis), On("rollback", node), Cleanup}
DeployAndCleanup == {On("deploy", master), Cleanup}
DeployOnly == {On("deploy", redis)}
Siblings == {On("deploy", master), On("deploy", node)}
MasterOnly == {On("deploy", master)}
=============================================================================
