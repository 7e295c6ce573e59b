# Verification of the crossplane infrastructure operator

TLA+ specifications of the operator under `src/`, small instances that TLC
model-checks, and proofs that TLAPS checks. The operator reconciles two kinds
of objects: a `SecurityGroup`, which it creates in AWS through Crossplane and
attaches to the machine pools it references, and a labelled `Cluster`, which it
adds to a `ClusterMesh` and connects with the other members.

Paths below: `C` is `src/internal/controller/ec2.aws/securitygroup_controller.go`,
`M` is `src/internal/controller/clustermesh.infrastructure/clustermesh_controller.go`,
`X` is `src/pkg/crossplane/crossplane.go`.

## Inventory

| Component | State | Operations | Module |
|---|---|---|---|
| SecurityGroup controller, attachments (`C`, `pkg/aws`, `pkg/spot`) | launch templates, Auto Scaling groups, Ocean launch specs, instances and their groups; the mutex of each cluster | `Reconcile`, `attachKopsMachinePool`, `detachSGFromKopsMachinePool`, `ensureDetachRemovedReferences`, `reconcileDelete` | `PoolAttachment`, which implements `PoolGroups` |
| SecurityGroup controller, references (`C`) | `Spec.InfrastructureRef`, `Status.AppliedInfrastructureRef`, finalizers on the SecurityGroup, its pools and control planes, the Crossplane SecurityGroup and its readiness | `reconcileNormal`, `ensureAttachReferences`, the finalizer functions, `releaseDeletingKopsMachinePools`, `CreateOrUpdateCrossplaneSecurityGroup` | `SecurityGroupLifecycle` |
| ClusterMesh controller (`M`, `X`) | the ClusterMesh with its members, peering references and conditions, VPCPeeringConnections, Routes, one SecurityGroup per member | joining, `ReconcilePeerings`, `ReconcileSecurityGroups`, `ReconcileRoutes`, `validateClusterMesh`, `reconcileDelete`, the deferred patch and status update | `ClusterMesh`, which implements `MeshLinks` |
| Dry run (`pkg/dryrun`, `runOnce` of `cmd/main.go`) | the plan: objects, changes in the cloud, outcomes, write errors; the queue of targets | `Once`, `run`, `reconcile`, `forget`, `SetResult`, the wrapping clients, the exit code | `DryRunPlan` |
| Request filter (`pkg/clusterfilter`) | none | two predicates over an object and its references | not modelled: `DryRunPlan` takes every answer they may give |
| Credentials and region (`pkg/kops`) | none | reads of a Secret and of the KopsControlPlane | not modelled: a failure ends a reconcile before it does anything |
| Manager, flags (`cmd/main.go`), metrics, API types | none that decides | wiring and declarations | not modelled |

**How they interact.** The two controllers run in one process on work queues
(5 SecurityGroup workers and 1 Cluster worker by default) and read Kubernetes
through a cache. The ClusterMesh controller creates the SecurityGroup of each
member, which the SecurityGroup controller then attaches to the member's
pools, and deletes it when the member leaves. Crossplane brings up the
SecurityGroups, peerings and routes. Several SecurityGroups write the same
launch template; all members of a mesh write the same ClusterMesh. The dry run
takes both reconcilers as they are, and puts a recording client under them.

**What is hard.** Every write to AWS replaces a whole list (the groups of a
template, of a launch spec, of an instance) by one computed from an earlier
read; every write to a ClusterMesh replaces its list of members. Calls fail,
also after they took effect, and the operator restarts between any two of them.
Users edit references and labels, pools and clusters come and go, and AWS
launches and terminates instances, in the middle of a reconcile. Errors of some
calls are logged only. A plan is made by several workers, and its context may
end at any moment.

**What makes a component correct.**

- Attachments: no reconcile undoes another's; what was attached stays attached
  until its owner lets go; a referenced pool gets the group in its template and
  in its instances; a group is detached before it is deleted; nobody waits for
  a mutex forever.
- References: what is recorded as applied is so; a finalizer goes with what it
  guards; a deletion leaves nothing behind, ends, and holds up no one else's.
- Mesh: two members have one peering; a cluster enters and leaves a mesh by its
  own reconcile only; a leaver takes its peerings and only those; the mesh comes
  to rest connected, and says so.
- Dry run: every target has one outcome, nothing of a first attempt stays in the
  plan after a retry, and the exit code says that the plan is whole only when it
  is.

`PROJECT.json` lists the hazards with their lines and the properties on them.

## Plan

Done: `PoolAttachment` with the abstract `PoolGroups`, `ClusterMesh` with the
abstract `MeshLinks`, and the proofs that both are implemented;
`SecurityGroupLifecycle`; `DryRunPlan`; proofs of every invariant and action
property that a passing run checks.

Left, in this order:

1. `ClusterMesh`: the conditions of routes and SecurityGroups and the status
   lists that nothing reads (`CrossplaneSecurityGroupRef`, `RoutesRef`).
2. `ClusterMesh`: a Cluster that is itself deleted (`M:147`), which is an error
   from then on.
3. `ClusterMesh` over `SecurityGroupLifecycle`: the SecurityGroup of a member
   with its references and finalizers, in place of `GroupGone`.

## The modules

| Module | Is |
|---|---|
| `PoolAttachment` | several SecurityGroups and the pools they write, call by call |
| `PoolGroups` | what they promise together, abstractly; `PoolAttachment` implements it |
| `SecurityGroupLifecycle` | one SecurityGroup, its references and finalizers, reference by reference |
| `ClusterMesh` | several Clusters, their meshes, peerings, SecurityGroups and routes |
| `MeshLinks` | what they promise together, abstractly; `ClusterMesh` implements it |
| `DryRunPlan` | the workers of `--dry-run --once` and the plan they write |
| `PoolAttachmentProofs`, `PoolRefinementProofs`, `PoolDetachProofs`, `PoolGroupsProofs`, `SecurityGroupLifecycleProofs`, `ClusterMeshProofs`, `MeshRefinementProofs`, `DryRunPlanProofs` | theorems |
| `MCPoolAttachment`, `MCSecurityGroupLifecycle`, `MCClusterMesh`, `MCDryRunPlan` | the instances for TLC |

Each operator whose comment begins with "Faulty variant" is a plausible bug: put
in the place of the definition after it, it makes the property fail that
`PROJECT.json` names beside it under "mutants".

### `PoolAttachment`

One process per SecurityGroup; the work queue never runs one key twice at a
time. Every call to EC2, Auto Scaling or Spot is a step of its own:

| Code | Model |
|---|---|
| `Reconcile` up to the lock, `retrieveInfraRefInfo` | `Reconcile`: `seen`, `phase`, `cluster` (of any reference: which one resolves first depends on order and failures) |
| `clusterLock(...).Lock()` / deferred `Unlock` | `Lock`, `Unlock` on `lock` |
| `attachSGToASG`, `detachSGFromASG` | `DescribeASG`, `ReadTemplate` or `RefuseBareTemplate`, `CreateVersion`, `RollASG`, then the instances |
| `attachSGToVNG`, `detachSGFromVNG` | `ListVNGs`, `UpdateLaunchSpec`, `DescribeVngInstances`, then the instances |
| the Karpenter branches | `ListKarpenterInstances`, then the instances |
| `AttachSecurityGroupToInstances`, `Detach...` | `DescribeInstances`, `ModifyInstance`, `ModifyRefused`, `PoolDone` |
| `ensureDetachRemovedReferences` | `ThenDetachRemoved`: phase `"detach"` over `applied \ seen` |
| `reconcileDelete` | phase `"delete"`: detaches are logged when they fail; `Finish` deletes the Crossplane SecurityGroup |
| the deferred `Update` and `Status().Update` | `Save`, after `Unlock` as Go runs deferred calls in reverse; refused when `conflict` |
| any failing call | `FirstCallFails`, `ReadFails`, `WriteFails` and `InstanceCallFails` (with or without the effect of the call), `GroupNotReady`, `DeleteFails`, `SaveFails` |
| a restart | `Restart` |

`EditSpec`, `DeleteSG`, `DeleteGroup`, `Launch`, `ShutDown` and `Terminate` are
the environment. Two variables are history, which nothing reads but properties:
`attached`, the pools whose attach succeeded and whose detach has not begun, and
`gaveUp`, whether a deletion has logged a detach that failed since it took the
lock with its Crossplane SecurityGroup still there.

Abstractions. References are the set of pools they resolve to, so their order is
any order; a control plane reference is the set of its pools. An error in the
middle of a reference skips some of the pools left: exactly which depends on
the order, so any subset. The operator is the only writer of templates and
launch specs. A cached read that is stale is a reconcile that began earlier. The
first reconcile (finalizer, creation and readiness of the Crossplane
SecurityGroup) lies before `Init`, in `SecurityGroupLifecycle`; a later one that
finds it not ready is `GroupNotReady`. Nested errors, events, conditions and
metrics are left out.

### `PoolGroups` and the refinement

The groups of a pool as two sets, those of its newest configuration (`latest`)
and those it launches instances with (`launch`), and the pools each SecurityGroup
vouches for (`held`). A step adds or removes one SecurityGroup's own group, puts
the newest configuration to use, begins or ends to vouch, or deletes a group.
`Remove` asks that the owner no longer vouches. Nothing of locks, versions, reads
and failed calls is left.

`PoolAttachment` gives the refinement mapping. `latest` is the last template
version or the launch spec, `launch` the version the Auto Scaling group uses,
both without groups that do not exist any more (the next attach drops those) and
without the base group of kops; `held` is `attached` while the Crossplane
SecurityGroup is there, without Karpenter pools, which have no configuration.
`ImplementsPoolGroups` is checked by `asg` and `spot`, and proved. What a vouched
pool has then follows abstractly, from ten lines (`PoolGroupsProofs`).

### `SecurityGroupLifecycle`

One SecurityGroup. What an attach does to a pool is `PoolAttachment`; here a pool
carries the group or does not, and the work for one reference is one step.

| Code | Model |
|---|---|
| `Reconcile`, `retrieveInfraRefInfo` | `Reconcile`, enabled when some reference `Resolves` |
| `CreateOrUpdateCrossplaneSecurityGroup`, the readiness condition | `CreateOrUpdateGroup`, `CheckGroup`, `GroupNotAvailable`, `GroupCallFails` |
| `ensureAttachReferences` with `releaseDeletingKopsMachinePools`, `addKMPFinalizer`, `addKCPFinalizer` | `AttachReference`, `AttachUnresolved`, `AttachFails` over `Released`, `Attachable`, `Unheld` |
| `ensureDetachRemovedReferences` with `removeKMPFinalizer`, `removeKCPFinalizer` | `ThenDetachRemoved`, `DetachRemoved`, `DetachNotFound`, `DetachFails`, `AllDetached` over `RemovedRefs`, `Reached` |
| `reconcileDelete` | `ReconcileDelete`, `ReleaseReference`, `SkipReference`, `DeleteGroup`, `DeleteCallFails` |
| the deferred updates | `Save`, `SaveFails` over `Persist`, `Recorded` |
| a restart | `Restart` |

`EditSpec`, `DeleteSG`, `GroupReady`, `CreatePool`, `DeleteCluster`,
`DeleteObject` and `Goes` are the environment: users, Crossplane, Cluster API,
which deletes the pools of a Cluster and then its control plane, and the API
server, which lets a deleted object go when its last finalizer is off.

Abstractions. One step per reference: between its calls nothing else writes what
it writes, but for patches refused after a concurrent change, and those are
refused by choice (each counts as a fault). Other SecurityGroups meet this one in
such patches only. `gaveUp` is history, as in `PoolAttachment`: whether a
deletion has logged a detach or a patch that failed since it began with its
references. Reference lists are sets, so their order is any order. Users
edit a SecurityGroup that is not being deleted. A paused one does nothing and is
left out.

### `ClusterMesh`

One process per Cluster, at most `Workers` of them busy. `member` is
`Spec.Clusters` with, for a member, the number of route tables that was recorded
when it joined: of the fields of a `ClusterSpec`, this stands for those that
change (`PopulateClusterSpec` asks AWS at every reconcile), and name and CIDR are
the identity of a Cluster. `view` tells whether the copy a reconcile holds is
still current, which is what the resource version of an `Update`, of the merge
patch (it carries the whole object) and of `Status().Update` decides; a copy of a
ClusterMesh that was deleted since (`"gone"`) makes void owner references besides.

The operator reads through its cache. `behind` is the versions of a ClusterMesh
that the cache has yet to be told of, oldest first, so a read (`Seen`) returns the
oldest and may be outdated already when it is made, with any number of workers
(`CacheLag` has `"meshes"`). `known` is the peerings in the cache (`"peerings"`).
Each of the two catches up at any time, on its own.

| Code | Model |
|---|---|
| `Reconcile`, `PopulateClusterSpec`, `isClusterBelongToAnyMesh` | `Reconcile`, `ReconcileRemoved`, `ReconcileOutsider` |
| `reconcileNormal` | `GetMesh` over `Seen` and `Take`, `CreateMesh`, `Join` |
| `ReconcilePeerings` | `ListPeerings` over `Owned`, `CreatePeering`, `PeeringsDone` |
| `ReconcileSecurityGroups` | `WriteGroup`, `OwnGroup` |
| `ReconcileRoutes`, `manageCrossplaneRoutes` | `ListForRoutes`, `ManageRoutes` |
| `validateClusterMesh` | `Validate`: the condition of the peerings, in `report` |
| `reconcileDelete` | `GetMeshToLeave`, `DeleteGroup`, `DeletePeering`, `LeaveMesh`, `DeleteMesh` |
| the deferred calls | `Patch`, `UpdateStatus` (peering references and condition, put back after the patch has read the ClusterMesh anew) |
| failures | `CallFails`, `Restart`; the lost answer of a call is the call followed by a failure |

`Relabel`, `AddRouteTable`, `PeeringReady`, `GroupGone`, `MeshSeen` and
`PeeringsSeen` are the environment. AWS makes one peering of two VPCs ready and
none of a VPC with itself.

`misled` is history: the meshes that an outdated read has changed. A reconcile
misleads a mesh when it creates a peering for a copy of it that is old, goes by a
list of peerings that is not what the mesh owns, or deletes it although its copy is
not current. Every other write for an outdated copy is refused or harmless. What the
code does then is in the model, and most properties except these meshes; that
nothing else is excepted is `NeverMisled`: with one worker and caches that do not
lag, `misled` stays empty.

Abstractions. Peerings, routes and the ClusterMesh are deleted at once, and
garbage collection runs with the deletion, as it does for what is created with an
owner that is gone. `Inside` says which clusters' names are part of which peerings'
names, as `strings.Contains` (`M:392`) finds them in `<requester>-<accepter>`:
names may match across the hyphen, so that the removal of `a-b` selects the peering
`x-a-b-y` of `x-a` and `b-y`, although no name of the three is part of another.
Peerings are told apart by the pair, not by the joined name, on which two pairs
may agree when names have hyphens (`a`, `b-c` and `a-b`, `c`). The cache of peerings
catches up at once, with all there is. A cached read of a Cluster or a
KopsControlPlane that is outdated is a reconcile that began earlier. One of a Route
makes a create that is refused as existing, which is a failed call; one of a
SecurityGroup makes an update that is refused, but in a deletion: a SecurityGroup
that the cache does not show yet is not deleted there, which is not modelled. The ids
of routes, the status lists that nothing decides on (`CrossplaneSecurityGroupRef`,
`RoutesRef`) and the conditions of routes and SecurityGroups are left out.

### `MeshLinks` and the refinement

The members of every mesh, its links, and the links on its record. A cluster
joins, or leaves when no link on record of it is left; two members are linked
once, by either; a link goes by the hand of one of its ends; the last member takes
the mesh along; and the record forgets no link there is. A mesh may be lost
(`Lose`), and nothing is promised of it from then on. Nothing of reads, copies,
versions and failed calls is left.

`ClusterMesh` gives the mapping: `members` is `Spec.Clusters`, `links` the
peerings a mesh owns, `recorded` its status, each empty for the meshes that are
`misled`, which are the ones `lost`: an outdated read that changes a mesh is a
`Lose`, all others have to be steps of the abstract specification. That a cluster leaves in one write at
the end of a reconcile which deleted its peerings one by one before, from a list
read at its start, is what the refinement hides. It holds through failures, and
says what is left of "a leaver takes its peerings along" then: those on record.
`ImplementsMeshLinks` is checked by `mesh_live`, and proved.

### `DryRunPlan`

One process per source (a Cluster or a SecurityGroup that is listed) and the main
goroutine. A reconcile is any program that makes finitely many writes, goes on or
stops when one is refused, and returns what it likes; so the results hold of both
reconcilers as they are and as they may become.

| Code | Model |
|---|---|
| `runOnce` | `Sync`, `Report`, `Expire` (the end of the context), `Fails` |
| `Once`, and the filter of `--cluster` | `List`: some targets are skipped, as paused ones are |
| `run` | `Check`, `Hand`, `NotHanded`, `CloseAndWait`, `WorkersOf` (at least one) |
| `reconcile`, `reconcileOnce`, `describe` | `Again`, `Finish` over `ReconcileOnce`, `Outcome`, `Describe` |
| `loggingClient` | `Accepted` or `Refused` with `Refusals`, `Knows` (what the plan created is known to later calls) |
| the recording clients of AWS and Spot | `CloudWrite` |
| `Plan` | `Recorded`, `RecordWriteError`, `Forget`, `CreatedInPlan`, `SetResult`, `Summary`, `ExitCode` |

`Step` is one write of a reconcile, `Stop` an end it comes to by anything else.
`targets`, `did` and `failed` are history: what was listed, what the last attempt
of a source wrote, and whether a write failed in it.

## The runs

| Run | Instance | Shows |
|---|---|---|
| `asg` | 2 SecurityGroups on one Auto Scaling pool with 1 instance, one of them also on a pool with a bare template and deleted at any point, 1 failure | `ImplementsPoolGroups`, `OneWriterPerPool`, `NoLockLeaked`, `OwnMembershipOnly` (no lost update), `NeverRolledBack`, `AttachedStays`, `DetachedBeforeDeleted` |
| `spot` | 2 SecurityGroups on one Ocean pool, one of them also on a Karpenter pool with 1 instance and deleted at any point, 1 edit, 1 failure | the same for the other branches: `ImplementsPoolGroups`, `OwnMembershipOnly`, `AttachedStays`, `DetachedBeforeDeleted` |
| `live` | 2 SecurityGroups with an Auto Scaling and an Ocean pool of one cluster, an instance each that starts at any time, 1 failure | `Converges`, `LockGranted` |
| `lifecycle` | a Cluster with a pool and one created later, references to either or both, 1 edit, 1 failure, refused patch or restart; the SecurityGroup, the pools and the Cluster deleted at any point | `AppliedIsSo`, `GoesCleanly`, `Attaches`, `DeletionEnds`, `PoolsReleased` |
| `mesh_workers` | 2 clusters, 2 workers, a lagging cache of peerings, 1 change of label or route tables | `MembersOnlyByOwn` |
| `mesh_three` | 3 clusters, 2 meshes, 1 worker, 1 change of labels | `OnePeeringPerPair`, `PeeringsJoinMembers`, `UnpeeredByOwn` |
| `mesh_live` | 2 clusters, 1 worker, a lagging cache of ClusterMeshes, 1 change of labels, 1 failure | `OnePeeringPerPair`, `PeeringsJoinMembers`, `MembersOnlyByOwn`, `ImplementsMeshLinks`, `Converges`, `ReportSettles` |
| `dry_run` | 2 Clusters of one mesh (2 workers), 2 SecurityGroups, one paused (1 worker), a filter, 3 writes, 2 faults, the context ends at any point | `EveryTargetReported`, `OutcomeFinal`, `LastAttemptOnly`, `CleanExit`, `PhasesApart`, `Finishes` |

`asg`, `lifecycle`, `mesh_workers` and `dry_run` check the type invariants too.
`mesh_workers` and `mesh_three` take their clusters as model values with
`SYMMETRY Alike`, all their permutations: no name is part of another there, nothing
else in the module tells clusters apart, and none of their properties is a liveness
property.

Runs that end in a violation show where the code differs from what the
repository says of it:

| Run | What happens |
|---|---|
| `left_behind` | The finalizer is persisted last, after the Crossplane SecurityGroup was created and attached: a SecurityGroup deleted during its first reconcile goes at once and leaves them. `src/docs/README.md:88` says the finalizer is there to detach first. |
| `stuck` | A SecurityGroup none of whose references resolves fails before it looks at its deletion, so it can never go. A test says it should be removed "even if kmp reference doesn't exist"; it calls `reconcileDelete` directly. |
| `mesh_info` | The entry of a member is never updated. When its route tables change, it does not equal its entry any more and peers with itself; that peering is never ready and holds up the routes of the mesh. `src/docs/README.md:38` and a test say otherwise. |
| `mesh_names` | Removing cluster `A` deletes the peerings of cluster `AB` (`strings.Contains`). `src/docs/README.md:49`. |

**Why the bounds are enough.** A lost update needs two writers and one object:
two SecurityGroups on one pool, two clusters of one mesh. A pool more adds no
interaction, as reconciles meet at one pool at a time; `asg` and `spot` have a
second one so that a deletion has several to detach, of the branches of each
kind. A failure lets a reconcile fail after its write, or die, and the next one
repair, while the other SecurityGroup writes in between. One edit takes a pool
out of the references or puts it in. One instance suffices because the loop over
instances treats each alone, and it may start, shut down and disappear at every
point. A pool that is there and one that is not, with a control plane above both,
are the cases that references and finalizers tell apart. Three clusters are the
least with which a leaver and a bystander pair coexist, and every distribution of
them over no mesh and two is an initial state; the change of a label lets one
leave, or be in two meshes at once. An outdated copy needs one cluster that joins
or leaves between two reconciles of another, which two clusters and a change of
labels give: `mesh_live` reaches a peering with a cluster that has left, and the
deletion of a mesh that a cluster has just joined. The list of peerings lags in
`mesh_workers` only; all safety properties of meshes are proved for caches of both
kinds that lag. With names, two are nested and a third is the
peer. Of a plan, two sources that write one object (one creates what the other
changes) and one conflict that is retried with a second fault in the retry are
the least; three writes give a source something to forget while another keeps
something. The proofs need none of these bounds. `MaxEdits`, `MaxFaults`, `MaxInfo` and
`MaxWrites` are the only bounds; what a mesh does with two workers and nested
names at once is not run.

**Deadlock** is checked but where the system may really stop: a SecurityGroup
that is gone (`lifecycle`, `left_behind`, `stuck`), and a run of `--once` that
has ended (`dry_run`).

**What does not hold, and is assumed away.** Each is a limit of the results, and
a hazard in `PROJECT.json` or an assumption of a theorem:

- A SecurityGroup whose references are of two clusters takes one lock, that of
  the first reference that resolves, and writes the pools of both. The run
  instances and `SingleCluster` in the proofs keep references to one cluster.
  `NoLockLeaked` holds without it.
- A pool that leaves the spec, with the SecurityGroup deleted before a reconcile
  detaches it, is detached by nobody: a deletion goes through the spec.
  `DetachedBeforeDeleted` and `GoesCleanly` speak of the pools of the spec, and
  `DetachedBeforeDeleted` of all pools where nothing was edited.
- Failed detaches are logged ("moving on with the deletion process"), that of a
  template that names no group included, and skip the pools after them of the same
  control plane. Both properties except a SecurityGroup whose deletion has logged
  one since it last began with its references (`gaveUp`). Any other failure, a
  restart, a refused update, is within what they promise.
- An instance launched during a detach keeps the group; nothing looks at it again.
- `OnePeeringPerPair` needs one worker (`src/README.md:17`: "Keep the value at 1")
  and a cache that shows the peering created by the reconcile before: with an
  outdated list of peerings a pair gets two, even with one worker. It leaves out
  the meshes that are `misled`, and so do `PeeringsJoinMembers`, `UnpeeredByOwn`
  (of a deletion) and the refinement.
- With an outdated ClusterMesh, one worker and no failure, a peering with a cluster
  that has left is created: A leaves {A, B}, and B, whose copy still has A, creates
  `B-A`. B's patch and status update are refused and logged; the peering stays, in
  no status.
- With an outdated ClusterMesh a mesh is deleted that is not empty any more: A
  leaves by a copy {A}, B has joined in between, and `Delete` carries no resource
  version. B's peerings and SecurityGroup go too. B joins a new mesh at its next
  reconcile (`Converges`); but when B lost its label too, it is in no mesh then, and
  if its reconcile created its SecurityGroup for the mesh that is gone, nothing
  deletes it: `Converges` asks for no SecurityGroup of a cluster without a label
  only when nothing was misled.
- If the cache of ClusterMeshes is behind at every reconcile, a cluster that leaves
  and one that joins may undo each other's work for ever, by refused writes and by
  deletions of a mesh that the other has just created: `Converges` and
  `ReportSettles` assume that it catches up again and again (see Fairness).
- Two clusters that are in two meshes at once, after a change of label that
  nothing takes out of the first, may get a peering each way, one for each mesh:
  `OnePeeringPerPair` speaks of the peerings of one mesh.
- A failure between the creation of a peering and the status update leaves a
  peering that the next deletion does not know of: `PeeringsJoinMembers` asks for
  no failure, `ImplementsMeshLinks` says what holds with failures.
- A mesh left with one member keeps the condition it had, as nothing is computed
  for it: `ReportSettles` speaks of meshes of several.
- References are told apart by name when removed ones are looked for: a pool with
  the name of its cluster is not detached. `NamesTellApart` in the proofs.

## Fairness

- `WF(Reconcile)`: every result requeues the SecurityGroup: an error with a
  back-off, success after a period, and the queue has workers.
- `SF(Lock)`: `sync.Mutex` hands itself to a waiter that has waited for long
  (its starvation mode); weak fairness would let another reconcile barge in.
- `WF(Proceed)`: a goroutine that is not blocked runs, and AWS answers.
- `SF(Start)` for a Cluster: the work queue is first in, first out, so a Cluster
  gets its turn although workers are busy with others in between.
- `[]<>(Busy = {} /\ UpToDate)` and `SF(Start /\ UpToDate)` for a Cluster: again
  and again all caches catch up while no reconcile is under way, and a Cluster is
  not forever reconciled only at other times. Results requeue a Cluster after 30
  minutes or an hour (`M:60-62`); a cache lags by fractions of a second.
- `WF(GroupReady)`, `WF(PeeringReady)`, `WF(GroupGone)`: Crossplane brings up
  what AWS accepts, and a deleted SecurityGroup of a member loses its finalizer
  (`DeletionEnds` shows when).
- `WF(Main)`, `WF(Reconcile(s))` in the dry run: goroutines run, and a reconcile
  makes finitely many calls. Nothing is assumed of when the context ends.

Nothing is assumed of users, of failures (they are bounded) or of instances.

## The proofs

Every theorem holds for all values of the constants that `ConstantsAssumption`
of its module admits, which TLC evaluates on every instance, under the further
assumptions named. No invariant below is inductive as it stands; each proof adds
what the steps rely on, shows each part preserved (one lemma per part or per
group of actions, one step per action), and concludes with one temporal step.

**`PoolAttachmentProofs`.** `TypeCorrect` (among others, the version given to an
Auto Scaling group exists in its template); `LockReturned`, for any references
(a lock is held by a reconcile that has yet to release it, which is inductive);
and under `SingleCluster` (every SecurityGroup references pools of one cluster)
`MutualExclusion`, `AttachmentsKept`, `NoLostUpdate`, `VersionsAdvance`. The
invariant `Inv` adds:

- `RefsInv`: what a reconcile works on comes from the references it may have,
  so it is in the cluster `SingleCluster` speaks of;
- `LockInv`: the cluster of a reconcile is that of its references, and between
  `Lock` and `Unlock` it holds that mutex; with `RefsInv` this gives
  `OneWriterPerPool` (lemma `LockExcludes`), which all of the following use;
- `KindInv`: the branch a reconcile is in fits the kind of its pool, so a write
  to a template is to the pool of an Auto Scaling group;
- `FreshInv`: what was read and is still to be used is still so: the version
  described is the one in use, the version read is the latest, and the groups
  to write differ from those there by the reconcile's own at most;
- `InstancesInv`: the same of the instances described and still to be modified;
- `AttachInv`: a pool counted as attached carries the group in its launch spec,
  or in every template version from the running one on.

The action properties follow from `FreshInv`, `InstancesInv` and `KindInv` on a
single step.

**`PoolRefinementProofs`.** `Implements`, under `SingleCluster`: every initial
state and every step maps to one of `PoolGroups`, or to a stutter. Steps that
touch no configuration stutter; the writes map to `Add` and `Remove` by
`FreshInv`, the roll of an Auto Scaling group to `UseLatest`, the end of an
attach to `Vouch` by `AttachInv`. **`PoolGroupsProofs`** adds `VouchedIsKept`.

**`PoolDetachProofs`.** `DetachedHolds`, under `SingleCluster` alone: failures,
restarts, edits and bare templates are in. A pool is off for a group (`Off`) when
nothing it may launch with from now on has it: its launch spec, or every template
version from the running one on. `DetachInv` says:

- `SpecInv`: a deletion works on the references of the spec, which is edited no
  more, and without edits so does every reconcile;
- `OwnInv`: what is about to be written adds no group but the writer's, so that
  off stays off under the writes of others (lemmas `PoolWrites`, `OffStays`);
- `Deleting`: the pools a deletion has turned to are off, or it has logged a
  failure, or it is at the one it works on and about to write it without the
  group;
- `Deleted`: once the Crossplane SecurityGroup is gone, the pools of the spec are
  off or a failure was logged, and what still runs is a deletion that is done
  with its pools.

A restart or a refused update throws a reconcile back to its start, from which it
detaches all pools again; that the Crossplane SecurityGroup is deleted by a
reconcile that has been through all of them is what the step of `Finish` shows.

**`SecurityGroupLifecycleProofs`.** `TypeCorrect`, `LeavesCleanly`, through all
failures, and `AppliedHolds` under `NamesTellApart`. `RunInv` says what a deletion
has read stays so, and where errors lead; `WorldInv` that pools exist only under
their control plane; `AttachInv` and `CleanInv` what the loops over references have
done so far: a pool that comes and goes in between must not undo it. `CleanInv`
also carries what a deletion has done from one reconcile to the next: once the
Crossplane SecurityGroup is deleted, the next attempt does not look at the
references again.

**`ClusterMeshProofs`.** `TypeCorrect`; for any number of workers and any cache,
`MembersByOwnHolds`, from `ReadInv` (a copy that is still current differs from
the object in the entry of its reader alone), and, under `NamesApart` (the name of a
cluster is part of the names of its own peerings alone, whatever hyphens do),
`UnpeeredByOwnHolds` (`LeaveInv`). With one worker and any cache, from `Serial` (no
other Cluster is being reconciled): `OnePeeringHolds` (`TodoInv`: a mesh that is
not misled has no peering against one still to be created) and, of behaviours
without failures, `PeeringsJoinMembersHolds` (`RunInv`: a reconcile whose copy is
current works on the members the mesh has; `KeptInv`: every peering of a mesh that is not misled is in
its status or in the copy of the reconcile under way, so that who leaves knows of
all it has). The number of meshes is any: what a reconcile does for one mesh leaves
what is claimed of the others alone, although it deletes peerings by name.

**`MeshRefinementProofs`.** `ImplementsLinks`, with one worker and names apart, for
any cache. `StatusInv` says what a reconcile with a current copy of a mesh that
is not misled knows of the status it will write: its list lacks no peering that the status names and the mesh has, nor has
it one that neither names nor exists; and when a leaver is about to write itself
out, no peering that the status names of it exists. `Join`, `CreateMesh` and
`Patch` map to `Join` or `Leave`, `CreatePeering` to `Connect`, `DeletePeering` to
`Disconnect`, `DeleteMesh` to `Disband`, `UpdateStatus` to `Record`, a step that
misleads a mesh to `Lose`, all else to a stutter. `LinkedOnce` is then proved of
`MeshLinks` alone. `NeverMisled` shows what the exceptions amount to: with one worker
and caches that do not lag, no mesh is misled, so all of the above holds of every
mesh (`NoLagInv`: with one worker a copy read from an up-to-date cache is current
until its reconcile ends).

**`DryRunPlanProofs`.** `TypeCorrect`; `NoTargetLost` and `PhasesHold` from
`QueueInv` (where a target is between the list and its outcome);
`LastAttemptHolds` from `WrittenBy` (the plan has of a source what its attempt
wrote, at every moment); `OutcomeIsFinal` from `QueueInv` and what a step of one
source leaves of the others (`RunsBeforeOutcome`); `CleanExitHolds` from `OutcomeInv` and `ExitInv`, across
the single step that sums the plan up.

So every invariant and action property of the passing runs is a theorem.
Model-checked only: liveness, which is beyond this prover (`Converges` of both
modules, `LockGranted`, `ReportSettles`, `Attaches`, `DeletionEnds`,
`PoolsReleased`, `Finishes`).

## Not modelled

- The text of conditions, events, diffs and logs; metrics; leader election (one
  operator is assumed to run).
- Tags and ingress rules of a Crossplane SecurityGroup beyond the set of clusters
  it allows.
- Groups of an instance beyond those in its template, and limits of AWS on them.
- The request filter, credentials and region: pure functions and reads, whose
  answers are choices in the modules.
- The conditions of a ClusterMesh for routes and SecurityGroups, and the status
  lists that no step reads; a Cluster that is itself deleted (`M:147`): see the
  plan.
- Flag parsing, wiring and declarations: nothing there has a step.
