-------------------------- MODULE MCPoolAttachment --------------------------
(***************************************************************************)
(* Small instances of PoolAttachment.  Pools, instances and SecurityGroups *)
(* are strings whose value tells their kind; they are of one cluster.      *)
(***************************************************************************)
EXTENDS PoolAttachment

MCClusterOf == [p \in Pool |-> "A"]

\* The pool "bare" is an Auto Scaling group whose template names no group.
MCKindOf == [p \in Pool |-> IF p = "bare" THEN "asg" ELSE p]

MCPoolOf == [i \in Instance |-> CASE i = "i-asg" -> "asg"
                                  [] i = "i-vng" -> "vng"
                                  [] i = "i-karpenter" -> "karpenter"]

\* Both SecurityGroups share one pool, and the second may reference them all.
AsgRefs  == [s \in SG |-> IF s = "sg1" THEN {"asg"} ELSE Pool]
SpotRefs == [s \in SG |-> IF s = "sg1" THEN {"vng"} ELSE Pool]

\* A pool each, in one cluster: they meet at its lock.
LiveRefs == [s \in SG |-> IF s = "sg1" THEN {"asg"} ELSE {"vng"}]

=============================================================================
