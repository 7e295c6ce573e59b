--------------------------- MODULE PoolAttachment ---------------------------
(***************************************************************************)
(* The cloud side of the SecurityGroup controller: reconciles of several   *)
(* SecurityGroups add and remove their group in the launch templates,      *)
(* Auto Scaling groups, Ocean launch specs and instances of machine pools. *)
(* Every call to AWS or Spot is a step of its own, made with what earlier  *)
(* calls returned; the lock of the cluster is all that keeps two           *)
(* read-modify-write sequences apart.                                      *)
(*                                                                         *)
(* A SecurityGroup stands for its process: the work queue never hands one  *)
(* key to two workers.  Its references are the set of pools they resolve   *)
(* to.                                                                     *)
(***************************************************************************)
EXTENDS Integers, Sequences, FiniteSets

CONSTANTS
    SG,          \* SecurityGroups, and the AWS groups they own
    Base,        \* the group kops gives its nodes
    Pool,        \* KopsMachinePools
    Cluster,
    Instance,
    ClusterOf,   \* the cluster of a pool
    KindOf,      \* "asg", "vng" (SpotInst Ocean) or "karpenter"
    PoolOf,      \* the pool an instance belongs to
    Bare,        \* pools whose launch template names no group
    Refs,        \* the pools a SecurityGroup may reference
    Deletable,   \* SecurityGroups that may be deleted
    NoOne,       \* not a SecurityGroup: the lock is free
    MaxEdits,    \* bound on edits of references
    MaxFaults    \* bound on failed calls and restarts

Group == SG \cup {Base}
Kind  == {"asg", "vng", "karpenter"}

ASSUME ConstantsAssumption ==
    /\ Pool # {} /\ Cluster # {}
    /\ ClusterOf \in [Pool -> Cluster]
    /\ KindOf \in [Pool -> Kind]
    /\ PoolOf \in [Instance -> Pool]
    /\ Bare \subseteq Pool
    /\ Refs \in [SG -> SUBSET Pool]
    /\ Deletable \subseteq SG
    /\ NoOne \notin SG
    /\ Base \notin SG
    /\ MaxEdits \in Nat
    /\ MaxFaults \in Nat

VARIABLES
    spec,        \* Spec.InfrastructureRef, as pools
    applied,     \* Status.AppliedInfrastructureRef, as pools
    object,      \* the SecurityGroup: "live", "deleting" or "gone"
    csg,         \* whether its Crossplane SecurityGroup exists
    existing,    \* the groups that exist in AWS
    lt,          \* the versions of a launch template: the groups each names
    asg,         \* the launch template version an Auto Scaling group runs
    vng,         \* the groups of an Ocean launch spec
    state,       \* the state of an instance
    groups,      \* the groups of an instance
    lock,        \* clusterLocks: who holds the mutex of a cluster
    pc,          \* the next call of a reconcile
    phase,       \* "attach", "detach" or "delete"
    cluster,     \* SecurityGroupReconciliation.clusterName
    seen,        \* the references the reconcile read
    todo,        \* pools left in this phase
    pool,        \* the pool being worked on
    asgSeen,     \* the version the Auto Scaling group ran when described
    version,     \* the latest template version, as read or as created
    wanted,      \* the groups to write to the template or launch spec
    ids,         \* instances listed, then those left to modify
    snap,        \* their groups, as described
    failed,      \* the reconcile returns an error
    conflict,    \* the object changed since the reconcile read it
    attached,    \* history: pools whose last attach by the SecurityGroup
                 \* returned nil and where it has not begun to detach since
    gaveUp,      \* history: the deletion went on after a failed detach, since
                 \* it last began with its Crossplane SecurityGroup in place
    edits,
    faults

object_vars == <<spec, applied, object, csg>>
cloud_vars  == <<existing, lt, asg, vng, state, groups>>
call_vars   == <<pool, asgSeen, version, wanted, ids, snap>>
run_vars    == <<phase, cluster, seen, todo, failed, gaveUp>>
vars == <<object_vars, cloud_vars, call_vars, run_vars,
          lock, pc, conflict, attached, edits, faults>>

Step == {"idle", "lock", "next", "template", "create", "roll",
         "spec", "running", "instances", "modify", "unlock", "save"}

\* The steps between taking and releasing the lock.
Locked == {"next", "template", "create", "roll",
           "spec", "running", "instances", "modify", "unlock"}

\* The steps that work on one pool.
Working == {"template", "create", "roll",
            "spec", "running", "instances", "modify"}

ObjectsOK ==
    /\ spec \in [SG -> SUBSET Pool]
    /\ applied \in [SG -> SUBSET Pool]
    /\ object \in [SG -> {"live", "deleting", "gone"}]
    /\ csg \in [SG -> BOOLEAN]

CloudOK ==
    /\ existing \in SUBSET Group
    /\ lt \in [Pool -> Seq(SUBSET Group)]
    /\ asg \in [Pool -> Nat \ {0}]
    /\ \A p \in Pool : asg[p] <= Len(lt[p])
    /\ vng \in [Pool -> SUBSET Group]
    /\ state \in [Instance -> {"absent", "running", "shutting-down", "terminated"}]
    /\ groups \in [Instance -> SUBSET Group]

RunsOK ==
    /\ lock \in [Cluster -> SG \cup {NoOne}]
    /\ pc \in [SG -> Step]
    /\ phase \in [SG -> {"attach", "detach", "delete"}]
    /\ cluster \in [SG -> Cluster]
    /\ seen \in [SG -> SUBSET Pool]
    /\ todo \in [SG -> SUBSET Pool]
    /\ failed \in [SG -> BOOLEAN]
    /\ conflict \in [SG -> BOOLEAN]
    /\ attached \in [SG -> SUBSET Pool]
    /\ gaveUp \in [SG -> BOOLEAN]

CallsOK ==
    /\ pool \in [SG -> Pool]
    /\ asgSeen \in [SG -> Nat]
    /\ version \in [SG -> Nat]
    /\ \A s \in SG : pc[s] = "roll" => version[s] \in 1..Len(lt[pool[s]])
    /\ wanted \in [SG -> SUBSET Group]
    /\ ids \in [SG -> SUBSET Instance]
    /\ snap \in [SG -> [Instance -> SUBSET Group]]

TypeOK ==
    /\ ObjectsOK
    /\ CloudOK
    /\ RunsOK
    /\ CallsOK
    /\ edits \in Nat
    /\ faults \in Nat

InitGroups(p) == IF p \in Bare THEN {} ELSE {Base}

Init ==
    /\ spec \in [SG -> SUBSET Pool]
    /\ \A s \in SG : spec[s] # {} /\ spec[s] \subseteq Refs[s]
    /\ applied = [s \in SG |-> {}]
    /\ object = [s \in SG |-> "live"]
    /\ csg = [s \in SG |-> TRUE]
    /\ existing = Group
    /\ lt = [p \in Pool |-> <<InitGroups(p)>>]
    /\ asg = [p \in Pool |-> 1]
    /\ vng = [p \in Pool |-> InitGroups(p)]
    /\ state = [i \in Instance |-> "absent"]
    /\ groups = [i \in Instance |-> {}]
    /\ lock = [c \in Cluster |-> NoOne]
    /\ pc = [s \in SG |-> "idle"]
    /\ phase = [s \in SG |-> "attach"]
    /\ cluster = [s \in SG |-> CHOOSE c \in Cluster : TRUE]
    /\ seen = [s \in SG |-> {}]
    /\ todo = [s \in SG |-> {}]
    /\ pool = [s \in SG |-> CHOOSE p \in Pool : TRUE]
    /\ asgSeen = [s \in SG |-> 0]
    /\ version = [s \in SG |-> 0]
    /\ wanted = [s \in SG |-> {}]
    /\ ids = [s \in SG |-> {}]
    /\ snap = [s \in SG |-> [i \in Instance |-> {}]]
    /\ failed = [s \in SG |-> FALSE]
    /\ conflict = [s \in SG |-> FALSE]
    /\ attached = [s \in SG |-> {}]
    /\ gaveUp = [s \in SG |-> FALSE]
    /\ edits = 0
    /\ faults = 0

-----------------------------------------------------------------------------
(* What the calls read.                                                    *)

Latest(p) == lt[p][Len(lt[p])]

\* The groups an instance launched now would get.
LaunchGroups(p) == IF KindOf[p] = "vng" THEN vng[p] ELSE lt[p][asg[p]]

\* The groups of a launch spec, as ListVNGsFromClusterName finds it by the name
\* of its pool.
LaunchSpec(p) == vng[p]

\* Faulty variant of WithGroup: the groups just read are not carried over.
WithGroupOnly(s, current) == {s}

\* CheckSecurityGroupExists for each of the groups.
StillExisting(current) == current \cap existing

\* The groups a write aims for, from the groups just read: an attach drops
\* the groups that no longer exist and adds its own, a detach drops its own.
WithGroup(s, current) == StillExisting(current) \cup {s}
WithoutGroup(s, current) == current \ {s}

Wanted(s, current) ==
    IF phase[s] = "attach" THEN WithGroup(s, current) ELSE WithoutGroup(s, current)

\* Instances the Auto Scaling group lists with its description.
AsgInstances(p) ==
    {i \in Instance : PoolOf[i] = p /\ state[i] \in {"running", "shutting-down"}}

\* Instances an Ocean launch spec is looked up by: running ones only.
VngInstances(p) == {i \in Instance : PoolOf[i] = p /\ state[i] = "running"}

\* Instances tagged with the node pool and with the cluster of the reconcile,
\* whatever their state.
KarpenterInstances(s, p) ==
    {i \in Instance : PoolOf[i] = p /\ ClusterOf[p] = cluster[s] /\ state[i] # "absent"}

\* The described instances that a reconcile goes on to modify: an attach
\* leaves out those on their way down, a detach only those gone.
ToAttach(s) == {i \in ids[s] : state[i] = "running" /\ s \notin groups[i]}
ToDetach(s) == {i \in ids[s] : state[i] # "terminated" /\ s \in groups[i]}

ToModify(s) == IF phase[s] = "attach" THEN ToAttach(s) ELSE ToDetach(s)

\* The clusters a reconcile may take for its own: retrieveInfraRefInfo stops
\* at the first reference that resolves, which depends on their order and on
\* failed reads.
InfraClusters(s) == {ClusterOf[p] : p \in spec[s]}

-----------------------------------------------------------------------------
(* The reconcile of a SecurityGroup, up to the lock and between pools.     *)

\* Get and retrieveInfraRefInfo.
Reconcile(s) ==
    /\ pc[s] = "idle"
    /\ object[s] # "gone"
    /\ \E c \in InfraClusters(s) : cluster' = [cluster EXCEPT ![s] = c]
    /\ seen' = [seen EXCEPT ![s] = spec[s]]
    /\ phase' = [phase EXCEPT ![s] = IF object[s] = "deleting" THEN "delete" ELSE "attach"]
    /\ pc' = [pc EXCEPT ![s] = "lock"]
    /\ UNCHANGED <<object_vars, cloud_vars, call_vars, todo, failed, gaveUp,
                   lock, conflict, attached, edits, faults>>

\* Faulty variant of Lock, for the mutation checks: it does not wait.
LockWithoutWaiting(s) ==
    /\ pc[s] = "lock"
    /\ lock' = [lock EXCEPT ![cluster[s]] = s]
    /\ todo' = [todo EXCEPT ![s] = IF phase[s] = "delete" /\ ~csg[s] THEN {} ELSE seen[s]]
    /\ gaveUp' = [gaveUp EXCEPT ![s] = @ /\ ~csg[s]]
    /\ pc' = [pc EXCEPT ![s] = "next"]
    /\ UNCHANGED <<object_vars, cloud_vars, call_vars, phase, cluster, seen, failed,
                   conflict, attached, edits, faults>>

\* Faulty variant of Lock: a deletion goes through the references it recorded
\* as applied.
LockForApplied(s) ==
    /\ pc[s] = "lock"
    /\ lock[cluster[s]] = NoOne
    /\ lock' = [lock EXCEPT ![cluster[s]] = s]
    /\ todo' = [todo EXCEPT ![s] = IF phase[s] = "delete" THEN applied[s] ELSE seen[s]]
    /\ gaveUp' = [gaveUp EXCEPT ![s] = @ /\ ~csg[s]]
    /\ pc' = [pc EXCEPT ![s] = "next"]
    /\ UNCHANGED <<object_vars, cloud_vars, call_vars, phase, cluster, seen, failed,
                   conflict, attached, edits, faults>>

\* mu.Lock; a deletion whose Crossplane SecurityGroup is gone detaches nothing.
Lock(s) ==
    /\ pc[s] = "lock"
    /\ lock[cluster[s]] = NoOne
    /\ lock' = [lock EXCEPT ![cluster[s]] = s]
    /\ todo' = [todo EXCEPT ![s] = IF phase[s] = "delete" /\ ~csg[s] THEN {} ELSE seen[s]]
    /\ gaveUp' = [gaveUp EXCEPT ![s] = @ /\ ~csg[s]]
    /\ pc' = [pc EXCEPT ![s] = "next"]
    /\ UNCHANGED <<object_vars, cloud_vars, call_vars, phase, cluster, seen, failed,
                   conflict, attached, edits, faults>>

\* ensureAttachReferences is done: ensureDetachRemovedReferences follows.
ThenDetachRemoved(s) ==
    /\ pc[s] = "next"
    /\ todo[s] = {}
    /\ phase[s] = "attach"
    /\ ~failed[s]
    /\ phase' = [phase EXCEPT ![s] = "detach"]
    /\ todo' = [todo EXCEPT ![s] = applied[s] \ seen[s]]
    /\ UNCHANGED <<object_vars, cloud_vars, call_vars, cluster, seen, failed, gaveUp,
                   lock, pc, conflict, attached, edits, faults>>

\* Faulty variant of Finish: a deletion does not go through its references.
FinishBeforeDetaching(s) ==
    /\ pc[s] = "next"
    /\ todo[s] = {} \/ phase[s] = "delete"
    /\ phase[s] = "attach" => failed[s]
    /\ csg' = [csg EXCEPT ![s] = @ /\ phase[s] # "delete"]
    /\ pc' = [pc EXCEPT ![s] = "unlock"]
    /\ UNCHANGED <<spec, applied, object, cloud_vars, call_vars, run_vars,
                   lock, conflict, attached, edits, faults>>

\* The end of a reconcile under the lock.  A deletion deletes the Crossplane
\* SecurityGroup, whatever became of the detaches.
Finish(s) ==
    /\ pc[s] = "next"
    /\ todo[s] = {}
    /\ phase[s] = "attach" => failed[s]
    /\ csg' = [csg EXCEPT ![s] = @ /\ phase[s] # "delete"]
    /\ pc' = [pc EXCEPT ![s] = "unlock"]
    /\ UNCHANGED <<spec, applied, object, cloud_vars, call_vars, run_vars,
                   lock, conflict, attached, edits, faults>>

\* Faulty variant of Unlock: the error path leaves without unlocking.
UnlockUnlessFailed(s) ==
    /\ pc[s] = "unlock"
    /\ lock' = IF failed[s] THEN lock ELSE [lock EXCEPT ![cluster[s]] = NoOne]
    /\ pc' = [pc EXCEPT ![s] = "save"]
    /\ UNCHANGED <<object_vars, cloud_vars, call_vars, run_vars,
                   conflict, attached, edits, faults>>

Unlock(s) ==
    /\ pc[s] = "unlock"
    /\ lock' = [lock EXCEPT ![cluster[s]] = NoOne]
    /\ pc' = [pc EXCEPT ![s] = "save"]
    /\ UNCHANGED <<object_vars, cloud_vars, call_vars, run_vars,
                   conflict, attached, edits, faults>>

\* The reconcile is over, and its locals are gone.
End(s) ==
    /\ pc' = [pc EXCEPT ![s] = "idle"]
    /\ phase' = [phase EXCEPT ![s] = "attach"]
    /\ seen' = [seen EXCEPT ![s] = {}]
    /\ todo' = [todo EXCEPT ![s] = {}]
    /\ failed' = [failed EXCEPT ![s] = FALSE]
    /\ conflict' = [conflict EXCEPT ![s] = FALSE]
    /\ UNCHANGED <<cluster, gaveUp>>

\* The deferred Update and Status().Update, after the lock is released: both
\* are refused when the object changed since it was read.
Save(s) ==
    /\ pc[s] = "save"
    /\ LET saved == ~conflict[s] /\ ~failed[s] IN
       /\ applied' = IF saved /\ phase[s] # "delete"
                     THEN [applied EXCEPT ![s] = seen[s]] ELSE applied
       /\ object' = IF saved /\ phase[s] = "delete"
                    THEN [object EXCEPT ![s] = "gone"] ELSE object
    /\ End(s)
    /\ UNCHANGED <<spec, csg, cloud_vars, call_vars, lock, attached, edits, faults>>

-----------------------------------------------------------------------------
(* The calls for one pool.                                                 *)

\* attachKopsMachinePool and detachSGFromKopsMachinePool turn to the next pool.
Turn(s, p) ==
    /\ pc[s] = "next"
    /\ p \in todo[s]
    /\ pool' = [pool EXCEPT ![s] = p]
    /\ todo' = [todo EXCEPT ![s] = @ \ {p}]
    /\ attached' = IF phase[s] = "attach" THEN attached
                   ELSE [attached EXCEPT ![s] = @ \ {p}]

\* The function returns, and its locals are gone.
Return(s) ==
    /\ pc' = [pc EXCEPT ![s] = "next"]
    /\ asgSeen' = [asgSeen EXCEPT ![s] = 0]
    /\ version' = [version EXCEPT ![s] = 0]
    /\ wanted' = [wanted EXCEPT ![s] = {}]
    /\ ids' = [ids EXCEPT ![s] = {}]
    /\ snap' = [snap EXCEPT ![s] = [i \in Instance |-> {}]]
    /\ UNCHANGED pool

\* The attach or detach of the pool returns nil.
Done(s) ==
    /\ Return(s)
    /\ attached' = IF phase[s] = "attach"
                   THEN [attached EXCEPT ![s] = @ \cup {pool[s]}] ELSE attached
    /\ UNCHANGED <<todo, failed, gaveUp>>

\* It returns an error: the other pools of the reference may still have their
\* turn, the references after it do so only in a deletion, which logs the
\* error and goes on.
Error(s) ==
    /\ Return(s)
    /\ \E rest \in SUBSET todo[s] : todo' = [todo EXCEPT ![s] = rest]
    /\ failed' = [failed EXCEPT ![s] = @ \/ phase[s] # "delete"]
    /\ gaveUp' = [gaveUp EXCEPT ![s] = @ \/ phase[s] = "delete"]
    /\ UNCHANGED attached

\* attachSGToASG, detachSGFromASG: DescribeAutoScalingGroups.
DescribeASG(s, p) ==
    /\ KindOf[p] = "asg"
    /\ Turn(s, p)
    /\ asgSeen' = [asgSeen EXCEPT ![s] = asg[p]]
    /\ ids' = [ids EXCEPT ![s] = AsgInstances(p)]
    /\ pc' = [pc EXCEPT ![s] = "template"]
    /\ UNCHANGED <<object_vars, cloud_vars, version, wanted, snap,
                   phase, cluster, seen, failed, gaveUp, lock, conflict, edits, faults>>

\* GetLastLaunchTemplateVersion, and for an attach CheckSecurityGroupExists on
\* each group: an attach that would change nothing creates no version.
ReadTemplate(s) ==
    /\ pc[s] = "template"
    /\ Latest(pool[s]) # {}
    /\ version' = [version EXCEPT ![s] = Len(lt[pool[s]])]
    /\ wanted' = [wanted EXCEPT ![s] = Wanted(s, Latest(pool[s]))]
    /\ pc' = [pc EXCEPT ![s] =
                IF phase[s] = "attach" /\ wanted'[s] = Latest(pool[s])
                THEN "roll" ELSE "create"]
    /\ UNCHANGED <<object_vars, cloud_vars, run_vars, pool, asgSeen, ids, snap,
                   lock, conflict, attached, edits, faults>>

\* A template that names no group is an error, for an attach and a detach.
RefuseBareTemplate(s) ==
    /\ pc[s] = "template"
    /\ Latest(pool[s]) = {}
    /\ Error(s)
    /\ UNCHANGED <<object_vars, cloud_vars, phase, cluster, seen,
                   lock, conflict, edits, faults>>

\* The effect of CreateLaunchTemplateVersion: the groups are replaced whole.
NewVersion(s) == lt' = [lt EXCEPT ![pool[s]] = Append(@, wanted[s])]

\* Faulty variant of CreateVersion: the version is guessed, not read from the
\* answer.
CreateVersionGuessed(s) ==
    /\ pc[s] = "create"
    /\ NewVersion(s)
    /\ version' = [version EXCEPT ![s] = @ + 2]
    /\ pc' = [pc EXCEPT ![s] = "roll"]
    /\ UNCHANGED <<object_vars, run_vars, existing, asg, vng, state, groups,
                   pool, asgSeen, wanted, ids, snap,
                   lock, conflict, attached, edits, faults>>

CreateVersion(s) ==
    /\ pc[s] = "create"
    /\ NewVersion(s)
    /\ version' = [version EXCEPT ![s] = Len(lt[pool[s]]) + 1]
    /\ pc' = [pc EXCEPT ![s] = "roll"]
    /\ UNCHANGED <<object_vars, run_vars, existing, asg, vng, state, groups,
                   pool, asgSeen, wanted, ids, snap,
                   lock, conflict, attached, edits, faults>>

\* Faulty variant of NewAsgVersion: the new version is not put to use.
AsgKeepsVersion(s) == asg' = asg

\* The effect of UpdateAutoScalingGroup, called when the version differs from
\* the one the group ran when it was described.
NewAsgVersion(s) ==
    asg' = IF version[s] # asgSeen[s] THEN [asg EXCEPT ![pool[s]] = version[s]] ELSE asg

RollASG(s) ==
    /\ pc[s] = "roll"
    /\ NewAsgVersion(s)
    /\ pc' = [pc EXCEPT ![s] = "instances"]
    /\ UNCHANGED <<object_vars, run_vars, call_vars, existing, lt, vng, state, groups,
                   lock, conflict, attached, edits, faults>>

\* Faulty variant of ListVNGs: an attach too returns at once when the launch
\* spec needs no change.
ListVNGsOrReturn(s, p) ==
    /\ KindOf[p] = "vng"
    /\ Turn(s, p)
    /\ wanted' = [wanted EXCEPT ![s] = Wanted(s, LaunchSpec(p))]
    /\ pc' = [pc EXCEPT ![s] = IF wanted'[s] # LaunchSpec(p) THEN "spec" ELSE "next"]
    /\ UNCHANGED <<object_vars, cloud_vars, asgSeen, version, ids, snap,
                   phase, cluster, seen, failed, gaveUp, lock, conflict, edits, faults>>

\* attachSGToVNG, detachSGFromVNG: the launch spec as ListVNGsFromClusterName
\* returned it.  A detach that does not find the group in it returns at once.
ListVNGs(s, p) ==
    /\ KindOf[p] = "vng"
    /\ Turn(s, p)
    /\ wanted' = [wanted EXCEPT ![s] = Wanted(s, LaunchSpec(p))]
    /\ pc' = [pc EXCEPT ![s] =
                IF wanted'[s] # LaunchSpec(p) THEN "spec"
                ELSE IF phase[s] = "attach" THEN "running" ELSE "next"]
    /\ UNCHANGED <<object_vars, cloud_vars, asgSeen, version, ids, snap,
                   phase, cluster, seen, failed, gaveUp, lock, conflict, edits, faults>>

\* Faulty variant of NewLaunchSpec: an attach sends its own group only.
NewLaunchSpecOwnOnly(s) ==
    vng' = [vng EXCEPT ![pool[s]] = IF phase[s] = "attach" THEN {s} ELSE wanted[s]]

\* The effect of UpdateLaunchSpec.
NewLaunchSpec(s) == vng' = [vng EXCEPT ![pool[s]] = wanted[s]]

UpdateLaunchSpec(s) ==
    /\ pc[s] = "spec"
    /\ NewLaunchSpec(s)
    /\ pc' = [pc EXCEPT ![s] = "running"]
    /\ UNCHANGED <<object_vars, run_vars, call_vars, existing, lt, asg, state, groups,
                   lock, conflict, attached, edits, faults>>

DescribeVngInstances(s) ==
    /\ pc[s] = "running"
    /\ ids' = [ids EXCEPT ![s] = VngInstances(pool[s])]
    /\ pc' = [pc EXCEPT ![s] = "instances"]
    /\ UNCHANGED <<object_vars, cloud_vars, run_vars, pool, asgSeen, version, wanted, snap,
                   lock, conflict, attached, edits, faults>>

\* The Karpenter branch: GetInstancesWithFilter.
ListKarpenterInstances(s, p) ==
    /\ KindOf[p] = "karpenter"
    /\ Turn(s, p)
    /\ ids' = [ids EXCEPT ![s] = KarpenterInstances(s, p)]
    /\ pc' = [pc EXCEPT ![s] = "instances"]
    /\ UNCHANGED <<object_vars, cloud_vars, asgSeen, version, wanted, snap,
                   phase, cluster, seen, failed, gaveUp, lock, conflict, edits, faults>>

\* getInstances, and which of them the loop goes on to modify.
DescribeInstances(s) ==
    /\ pc[s] = "instances"
    /\ ids' = [ids EXCEPT ![s] = ToModify(s)]
    /\ snap' = [snap EXCEPT ![s] =
                  [i \in Instance |-> IF i \in ToModify(s) THEN groups[i] ELSE {}]]
    /\ pc' = [pc EXCEPT ![s] = "modify"]
    /\ UNCHANGED <<object_vars, cloud_vars, run_vars, pool, asgSeen, version, wanted,
                   lock, conflict, attached, edits, faults>>

\* Faulty variant of NewGroups: an attach sends its own group only.
NewGroupsOwnOnly(s, i) ==
    /\ i \in ids[s]
    /\ state[i] = "running"
    /\ groups' = [groups EXCEPT ![i] =
                    IF phase[s] = "attach" THEN {s} ELSE snap[s][i] \ {s}]

\* The effect of ModifyInstanceAttribute: the groups are replaced whole.
NewGroups(s, i) ==
    /\ i \in ids[s]
    /\ state[i] = "running"
    /\ groups' = [groups EXCEPT ![i] =
                    IF phase[s] = "attach" THEN snap[s][i] \cup {s} ELSE snap[s][i] \ {s}]

ModifyInstance(s, i) ==
    /\ pc[s] = "modify"
    /\ NewGroups(s, i)
    /\ ids' = [ids EXCEPT ![s] = @ \ {i}]
    /\ UNCHANGED <<object_vars, run_vars, existing, lt, asg, vng, state,
                   pool, asgSeen, version, wanted, snap,
                   lock, pc, conflict, attached, edits, faults>>

PoolDone(s) ==
    /\ pc[s] = "modify"
    /\ ids[s] = {}
    /\ Done(s)
    /\ UNCHANGED <<object_vars, cloud_vars, phase, cluster, seen,
                   lock, conflict, edits, faults>>

\* An error on the instances is an event and no more, except for the attach
\* to a Karpenter pool.  The instances after the failing one are skipped.
InstancesFail(s) ==
    /\ IF KindOf[pool[s]] = "karpenter" /\ phase[s] = "attach" THEN Error(s) ELSE Done(s)
    /\ UNCHANGED <<object_vars, existing, lt, asg, vng, state,
                   phase, cluster, seen, lock, conflict, edits>>

\* An instance shut down since it was listed, or listed while shutting down,
\* refuses the modification.
ModifyRefused(s, i) ==
    /\ pc[s] = "modify"
    /\ i \in ids[s]
    /\ state[i] # "running"
    /\ InstancesFail(s)
    /\ UNCHANGED <<groups, faults>>

-----------------------------------------------------------------------------
(* Failed calls: an error comes back, and a write may have been made all    *)
(* the same when its answer was lost.                                      *)

Fault == faults < MaxFaults /\ faults' = faults + 1

\* DescribeAutoScalingGroups, ListLaunchSpecs or DescribeInstances, the first
\* call for a pool.
FirstCallFails(s, p) ==
    /\ Fault
    /\ pc[s] = "next"
    /\ p \in todo[s]
    /\ \E rest \in SUBSET (todo[s] \ {p}) : todo' = [todo EXCEPT ![s] = rest]
    /\ failed' = [failed EXCEPT ![s] = @ \/ phase[s] # "delete"]
    /\ gaveUp' = [gaveUp EXCEPT ![s] = @ \/ phase[s] = "delete"]
    /\ UNCHANGED <<object_vars, cloud_vars, call_vars, phase, cluster, seen,
                   lock, pc, conflict, attached, edits>>

ReadFails(s) ==
    /\ Fault
    /\ pc[s] \in {"template", "running"}
    /\ Error(s)
    /\ UNCHANGED <<object_vars, cloud_vars, phase, cluster, seen,
                   lock, conflict, edits>>

WriteFails(s) ==
    /\ Fault
    /\ \/ pc[s] = "create" /\ NewVersion(s) /\ UNCHANGED <<asg, vng>>
       \/ pc[s] = "roll" /\ NewAsgVersion(s) /\ UNCHANGED <<lt, vng>>
       \/ pc[s] = "spec" /\ NewLaunchSpec(s) /\ UNCHANGED <<lt, asg>>
       \/ pc[s] \in {"create", "roll", "spec"} /\ UNCHANGED <<lt, asg, vng>>
    /\ Error(s)
    /\ UNCHANGED <<object_vars, existing, state, groups,
                   phase, cluster, seen, lock, conflict, edits>>

InstanceCallFails(s) ==
    /\ Fault
    /\ pc[s] \in {"instances", "modify"}
    /\ ids[s] # {}
    /\ \/ UNCHANGED groups
       \/ pc[s] = "modify" /\ \E i \in ids[s] : NewGroups(s, i)
    /\ InstancesFail(s)

\* CreateOrUpdateCrossplaneSecurityGroup fails, or the Crossplane SecurityGroup
\* is not ready: no reference is attached or detached.
GroupNotReady(s) ==
    /\ Fault
    /\ pc[s] = "next"
    /\ phase[s] = "attach"
    /\ todo[s] = seen[s]
    /\ failed' = [failed EXCEPT ![s] = TRUE]
    /\ pc' = [pc EXCEPT ![s] = "unlock"]
    /\ UNCHANGED <<object_vars, cloud_vars, call_vars,
                   phase, cluster, seen, todo, gaveUp, lock, conflict, attached, edits>>

\* Get of a pool, or Delete of the Crossplane SecurityGroup: the deletion
\* returns and the finalizer stays.
DeleteFails(s) ==
    /\ Fault
    /\ pc[s] = "next"
    /\ phase[s] = "delete"
    /\ csg[s]
    /\ \E exists \in BOOLEAN : /\ todo[s] # {} => exists
                             /\ csg' = [csg EXCEPT ![s] = exists]
    /\ failed' = [failed EXCEPT ![s] = TRUE]
    /\ pc' = [pc EXCEPT ![s] = "unlock"]
    /\ UNCHANGED <<spec, applied, object, cloud_vars, call_vars,
                   phase, cluster, seen, todo, gaveUp, lock, conflict, attached, edits>>

SaveFails(s) ==
    /\ Fault
    /\ pc[s] = "save"
    /\ End(s)
    /\ UNCHANGED <<object_vars, cloud_vars, call_vars, lock, attached, edits>>

\* The operator dies and starts again: mutexes and reconciles are memory.
Restart ==
    /\ Fault
    /\ \E s \in SG : pc[s] # "idle"
    /\ lock' = [c \in Cluster |-> NoOne]
    /\ pc' = [s \in SG |-> "idle"]
    /\ phase' = [s \in SG |-> "attach"]
    /\ seen' = [s \in SG |-> {}]
    /\ todo' = [s \in SG |-> {}]
    /\ asgSeen' = [s \in SG |-> 0]
    /\ version' = [s \in SG |-> 0]
    /\ wanted' = [s \in SG |-> {}]
    /\ ids' = [s \in SG |-> {}]
    /\ snap' = [s \in SG |-> [i \in Instance |-> {}]]
    /\ failed' = [s \in SG |-> FALSE]
    /\ conflict' = [s \in SG |-> FALSE]
    /\ UNCHANGED <<object_vars, cloud_vars, cluster, pool, attached, gaveUp, edits>>

-----------------------------------------------------------------------------
(* Users, AWS and Crossplane.                                              *)

EditSpec(s) ==
    /\ object[s] = "live"
    /\ edits < MaxEdits
    /\ edits' = edits + 1
    /\ \E refs \in SUBSET Refs[s] \ {{}, spec[s]} : spec' = [spec EXCEPT ![s] = refs]
    /\ conflict' = [conflict EXCEPT ![s] = pc[s] # "idle"]
    /\ UNCHANGED <<applied, object, csg, cloud_vars, call_vars, run_vars,
                   lock, pc, attached, faults>>

DeleteSG(s) ==
    /\ s \in Deletable
    /\ object[s] = "live"
    /\ object' = [object EXCEPT ![s] = "deleting"]
    /\ conflict' = [conflict EXCEPT ![s] = pc[s] # "idle"]
    /\ UNCHANGED <<spec, applied, csg, cloud_vars, call_vars, run_vars,
                   lock, pc, attached, edits, faults>>

\* Crossplane deletes the AWS group, which AWS refuses while an instance has it.
DeleteGroup(s) ==
    /\ ~csg[s]
    /\ s \in existing
    /\ \A i \in Instance : s \notin groups[i]
    /\ existing' = existing \ {s}
    /\ UNCHANGED <<object_vars, lt, asg, vng, state, groups, call_vars, run_vars,
                   lock, pc, conflict, attached, edits, faults>>

\* AWS starts no instance with a group that does not exist.
Launch(i) ==
    /\ state[i] = "absent"
    /\ LaunchGroups(PoolOf[i]) \subseteq existing
    /\ state' = [state EXCEPT ![i] = "running"]
    /\ groups' = [groups EXCEPT ![i] = LaunchGroups(PoolOf[i])]
    /\ UNCHANGED <<object_vars, existing, lt, asg, vng, call_vars, run_vars,
                   lock, pc, conflict, attached, edits, faults>>

ShutDown(i) ==
    /\ state[i] = "running"
    /\ state' = [state EXCEPT ![i] = "shutting-down"]
    /\ UNCHANGED <<object_vars, existing, lt, asg, vng, groups, call_vars, run_vars,
                   lock, pc, conflict, attached, edits, faults>>

Terminate(i) ==
    /\ state[i] = "shutting-down"
    /\ state' = [state EXCEPT ![i] = "terminated"]
    /\ groups' = [groups EXCEPT ![i] = {}]
    /\ UNCHANGED <<object_vars, existing, lt, asg, vng, call_vars, run_vars,
                   lock, pc, conflict, attached, edits, faults>>

-----------------------------------------------------------------------------
(* The system.                                                             *)

\* What the goroutine of a reconcile does once it has the lock.
Proceed(s) ==
    \/ ThenDetachRemoved(s)
    \/ Finish(s)
    \/ Unlock(s)
    \/ Save(s)
    \/ \E p \in Pool : \/ DescribeASG(s, p)
                      \/ ListVNGs(s, p)
                      \/ ListKarpenterInstances(s, p)
    \/ ReadTemplate(s)
    \/ RefuseBareTemplate(s)
    \/ CreateVersion(s)
    \/ RollASG(s)
    \/ UpdateLaunchSpec(s)
    \/ DescribeVngInstances(s)
    \/ DescribeInstances(s)
    \/ \E i \in Instance : ModifyInstance(s, i) \/ ModifyRefused(s, i)
    \/ PoolDone(s)

Fails(s) ==
    \/ \E p \in Pool : FirstCallFails(s, p)
    \/ ReadFails(s)
    \/ WriteFails(s)
    \/ InstanceCallFails(s)
    \/ GroupNotReady(s)
    \/ DeleteFails(s)
    \/ SaveFails(s)

User(s) == EditSpec(s) \/ DeleteSG(s)

Aws == (\E s \in SG : DeleteGroup(s))
       \/ \E i \in Instance : Launch(i) \/ ShutDown(i) \/ Terminate(i)

Next ==
    \/ \E s \in SG : Reconcile(s) \/ Lock(s) \/ Proceed(s) \/ Fails(s) \/ User(s)
    \/ Aws
    \/ Restart

Spec == Init /\ [][Next]_vars

\* Every result of a reconcile requeues the object (after an hour, half an
\* hour or a back-off); a goroutine that is not blocked goes on; sync.Mutex
\* hands itself to a waiter that has waited for long.
Fairness == \A s \in SG : /\ WF_vars(Reconcile(s))
                         /\ SF_vars(Lock(s))
                         /\ WF_vars(Proceed(s))

FairSpec == Spec /\ Fairness

-----------------------------------------------------------------------------
(* Properties.                                                             *)

\* The groups the next write to a pool's template or launch spec starts from.
Members(p) == IF KindOf[p] = "vng" THEN vng[p] ELSE Latest(p)

\* Two reconciles never work on the same pool at once: what the mutex of the
\* cluster is for (README.md, Worker count).
OneWriterPerPool ==
    \A s, t \in SG : s # t /\ pc[s] \in Working /\ pc[t] \in Working => pool[s] # pool[t]

\* The mutex of a cluster is held only by a reconcile of that cluster that has
\* yet to release it: no path out of a reconcile, through failed calls and the
\* end of the process, leaves it locked behind.
NoLockLeaked ==
    \A c \in Cluster :
        lock[c] # NoOne => pc[lock[c]] \in Locked /\ cluster[lock[c]] = c

\* No lost update: an existing group enters or leaves a template, a launch
\* spec or a running instance only by a call of its own SecurityGroup's
\* reconcile, although every write replaces the whole list of groups by one
\* computed from an earlier read.
OwnMembershipStep ==
    \A s \in existing \cap SG :
        LET moves == pc'[s] # pc[s] \/ ids'[s] # ids[s] IN
        /\ \A p \in Pool :
              (s \in Members(p)) # (s \in Members(p)')
                 => moves /\ pc[s] \in {"create", "spec"} /\ pool[s] = p
        /\ \A i \in Instance :
              state[i] = "running" /\ state'[i] = "running"
                 /\ (s \in groups[i]) # (s \in groups'[i])
                    => moves /\ pc[s] = "modify"

OwnMembershipOnly == [][OwnMembershipStep]_vars

\* An Auto Scaling group is never moved back to an older version of its launch
\* template, although UpdateAutoScalingGroup writes a number chosen earlier.
NotRolledBackStep == \A p \in Pool : asg'[p] >= asg[p]

NeverRolledBack == [][NotRolledBackStep]_vars

\* A pool whose attach returned nil launches its instances with the group
\* until its SecurityGroup begins to detach it or is deleted, whatever other
\* reconciles do to the same template, their failed calls and restarts included.
AttachedStays ==
    \A s \in SG : csg[s] =>
        \A p \in attached[s] : KindOf[p] # "karpenter" => s \in LaunchGroups(p)

\* A deletion detaches the group from the pools it references before it deletes
\* the Crossplane SecurityGroup (docs/README.md, Security Group deep dive), or it
\* has logged the detach that failed, "moving on with the deletion process": a
\* group deleted while a template names it would stop the pool from launching.
\* That the detach is done again after a restart, a refused update or a Delete
\* that failed, and that no other reconcile puts the group back, is what it
\* takes.  A pool that an edit took out of the spec just before is nobody's to
\* detach; where nothing was edited, no other pool has the group.
DetachedBeforeDeleted ==
    \A s \in SG, p \in Pool :
        ~csg[s] /\ ~gaveUp[s] /\ (p \in spec[s] \/ edits = 0) => s \notin LaunchGroups(p)

\* The detailed reconciles implement the abstract ones.  Groups that do not
\* exist any more, which the next attach drops from a template, are no groups
\* of a pool; a pool of Karpenter has no configuration to vouch for; and a
\* deletion gives the group up when it deletes the Crossplane SecurityGroup.
LatestOf   == [p \in Pool |-> Members(p) \cap existing \cap SG]
LaunchedOf == [p \in Pool |-> LaunchGroups(p) \cap existing \cap SG]
HeldOf     == [s \in SG |-> {p \in attached[s] : csg[s] /\ KindOf[p] # "karpenter"}]

Groups == INSTANCE PoolGroups WITH latest <- LatestOf, launch <- LaunchedOf, held <- HeldOf

\* Whatever the interleaving of calls, failures and restarts, what the pools
\* see is single additions and removals by the group's own SecurityGroup, put
\* to use newest first, and none taken from a pool that is vouched for.
ImplementsPoolGroups == Groups!Spec

\* The group is where the references say: in what the pool launches and in
\* the instances it runs.
InPlace(s, p) ==
    /\ KindOf[p] # "karpenter" => s \in LaunchGroups(p)
    /\ \A i \in Instance : PoolOf[i] = p /\ state[i] = "running" => s \in groups[i]

\* Once edits, failures and launches cease, every referenced pool has the
\* group in its template and in all its running instances, those included
\* that were launched between two calls of a reconcile.
Converges == <>[](\A s \in SG : object[s] = "live" => \A p \in spec[s] : InPlace(s, p))

\* No reconcile waits for the lock of its cluster forever.
LockGranted == \A s \in SG : pc[s] = "lock" ~> pc[s] # "lock"

=============================================================================
