----------------------- MODULE SecurityGroupLifecycle -----------------------
(***************************************************************************)
(* The life of one SecurityGroup: its references to KopsMachinePools and   *)
(* KopsControlPlanes, its own finalizer and the one it puts on them, its   *)
(* Crossplane SecurityGroup, edits, deletion, pools and clusters that come *)
(* and go.  What an attach and a detach do to a pool is PoolAttachment;    *)
(* here the configuration of a pool carries the group or does not.         *)
(*                                                                         *)
(* What a reconcile does for one reference is one step: reads, attachments *)
(* and patches of one reference commute with the steps of users, and the   *)
(* patches a concurrent change would refuse are refused by choice.         *)
(* Another SecurityGroup meets this one in refused patches only.           *)
(***************************************************************************)
EXTENDS Integers, FiniteSets

CONSTANTS
    Pool,         \* names of KopsMachinePools
    Cluster,      \* names of Clusters, and of their KopsControlPlanes
    ClusterOf,    \* Spec.ClusterName and the cluster label of a pool
    Late,         \* pools that are created later, if at all
    References,   \* the reference lists a user may give, as sets
    MaxEdits,     \* bound on edits of the references
    MaxFaults     \* bound on failed calls, refused patches and restarts

KMP(p) == [kind |-> "KopsMachinePool", name |-> p]
KCP(c) == [kind |-> "KopsControlPlane", name |-> c]

\* The objects a reference may name.
Pools  == {KMP(p) : p \in Pool}
Planes == {KCP(c) : c \in Cluster}
Object == Pools \cup Planes

ASSUME ConstantsAssumption ==
    /\ ClusterOf \in [Pool -> Cluster]
    /\ Late \subseteq Pool
    /\ References # {}
    /\ \A refs \in References : refs # {} /\ refs \subseteq Object
    /\ MaxEdits \in Nat
    /\ MaxFaults \in Nat

VARIABLES
    object,      \* the SecurityGroup: "live", "deleting" or "gone"
    finalizer,   \* whether it has its own finalizer
    spec,        \* Spec.InfrastructureRef
    applied,     \* Status.AppliedInfrastructureRef
    csg,         \* the Crossplane SecurityGroup: "none", "pending", "ready"
    state,       \* of pools and control planes: "absent", "live", "deleting", "gone"
    held,        \* those with the finalizer of the SecurityGroup
    carries,     \* the pools whose configuration names the group
    ending,      \* the Clusters being deleted
    pc,          \* the next step of the reconcile
    deletes,     \* whether the reconcile read an object being deleted
    seen,        \* the references it read
    seenApplied, \* the applied references it read
    todo,        \* references left in this phase
    failed,      \* it returns an error
    conflict,    \* the object changed since it was read
    gaveUp,      \* history: since a deletion began with its references, it has
                 \* logged a detach or a patch that failed
    edits,
    faults

object_vars == <<object, finalizer, spec, applied, gaveUp>>
world_vars  == <<state, held, carries, ending>>
run_vars    == <<deletes, seen, seenApplied, todo, failed>>
vars == <<object_vars, csg, world_vars, run_vars, pc, conflict, edits, faults>>

Exists(o) == state[o] \in {"live", "deleting"}

\* Only what exists has a finalizer or a configuration, and references are
\* worked on once the group has an ID.
TypeOK ==
    /\ object \in {"live", "deleting", "gone"}
    /\ finalizer \in BOOLEAN
    /\ spec \in References
    /\ applied \in References \cup {{}}
    /\ csg \in {"none", "pending", "ready"}
    /\ state \in [Object -> {"absent", "live", "deleting", "gone"}]
    /\ held \subseteq {o \in Object : Exists(o)}
    /\ carries \subseteq {o \in Pools : Exists(o)}
    /\ ending \subseteq Cluster
    /\ pc \in {"idle", "group", "ready", "attach", "detach", "delete", "release", "save"}
    /\ pc \in {"attach", "detach"} => csg = "ready"
    /\ deletes \in BOOLEAN
    /\ seen \in References \cup {{}}
    /\ seenApplied \in References \cup {{}}
    /\ todo \subseteq Object
    /\ failed \in BOOLEAN
    /\ conflict \in BOOLEAN
    /\ gaveUp \in BOOLEAN
    /\ edits \in 0..MaxEdits
    /\ faults \in 0..MaxFaults

Init ==
    /\ object = "live"
    /\ finalizer = FALSE
    /\ spec \in References
    /\ applied = {}
    /\ csg = "none"
    /\ state = [o \in Object |-> IF o \in {KMP(p) : p \in Late} THEN "absent" ELSE "live"]
    /\ held = {}
    /\ carries = {}
    /\ ending = {}
    /\ pc = "idle"
    /\ deletes = FALSE
    /\ seen = {}
    /\ seenApplied = {}
    /\ todo = {}
    /\ failed = FALSE
    /\ conflict = FALSE
    /\ gaveUp = FALSE
    /\ edits = 0
    /\ faults = 0

-----------------------------------------------------------------------------
(* References.                                                             *)

IsPool(r) == r.kind = "KopsMachinePool"

Plane(r) == IF IsPool(r) THEN KCP(ClusterOf[r.name]) ELSE r

\* The reference tells the cluster, its credentials and its network: those of
\* a pool are read from its control plane.
Resolves(r) == Exists(r) /\ Exists(Plane(r))

\* The pools a reference stands for: GetKopsMachinePoolsWithLabel for a control
\* plane.
PoolsOf(r) == {o \in Pools : Exists(o) /\ r \in {o, Plane(o)}}

\* What a reference puts its finalizer on.
Reached(r) == {o \in PoolsOf(r) \cup {r} : Exists(o)}

Deleting(os) == {o \in os : state[o] = "deleting"}

\* Faulty variant of Released: deleting pools are left out, not released.
ReleasedNone(r) == {}

\* Pools being deleted are released rather than attached, when it is a control
\* plane that is referenced and its Cluster stays.
Released(r) ==
    IF IsPool(r) \/ r.name \in ending THEN {} ELSE Deleting(PoolsOf(r)) \cap held

\* The others are attached.
Attachable(r) ==
    IF IsPool(r) \/ r.name \in ending THEN PoolsOf(r)
    ELSE PoolsOf(r) \ Deleting(PoolsOf(r))

\* The objects that lack the finalizer and are given it: the pools of a control
\* plane only along with it.  An object being deleted is given none by the API
\* server.
Unheld(r) ==
    IF r \in held THEN {}
    ELSE (Attachable(r) \cup {r}) \ (held \cup Deleting(Object))

\* Faulty variant of RemovedRefs: every applied reference.
RemovedRefsAll == seenApplied

\* The applied references whose name the spec has not.
RemovedRefs == {r \in seenApplied : \A s \in seen : s.name # r.name}

\* Faulty variant of ReferencesToAttach: only the references not applied yet.
ReferencesNotApplied == seen \ seenApplied

\* The references a reconcile attaches.
ReferencesToAttach == seen

\* Faulty variant of ReferencesToDetach: the applied references.
ReferencesApplied == seenApplied

\* The references a deletion detaches.
ReferencesToDetach == seen

-----------------------------------------------------------------------------
(* The reconcile, up to its references.                                    *)

Fault == faults < MaxFaults /\ faults' = faults + 1

\* Nothing is refused, or the API server or AWS refuses some of the calls.
Unless(nothing) == IF nothing THEN UNCHANGED faults ELSE Fault

\* The reconcile ends, and with it its locals.
End ==
    /\ pc' = "idle"
    /\ deletes' = FALSE
    /\ seen' = {}
    /\ seenApplied' = {}
    /\ todo' = {}
    /\ failed' = FALSE
    /\ conflict' = FALSE

\* The reconcile fails: the deferred updates follow.
Fail ==
    /\ pc' = "save"
    /\ failed' = TRUE
    /\ todo' = {}

\* Get and retrieveInfraRefInfo, which looks for one reference that resolves
\* before the deletion is looked at.
Reconcile ==
    /\ pc = "idle"
    /\ object # "gone"
    /\ \E r \in spec : Resolves(r)
    /\ deletes' = (object = "deleting")
    /\ seen' = spec
    /\ seenApplied' = applied
    /\ pc' = IF object = "deleting" THEN "delete" ELSE "group"
    /\ UNCHANGED <<object_vars, csg, world_vars, todo, failed, conflict, edits, faults>>

\* The finalizer is added to the copy in memory; CreateOrUpdate.
CreateOrUpdateGroup ==
    /\ pc = "group"
    /\ csg' = IF csg = "none" THEN "pending" ELSE csg
    /\ pc' = "ready"
    /\ UNCHANGED <<object_vars, world_vars, run_vars, conflict, edits, faults>>

\* Faulty variant of GroupAvailable: no condition yet counts as available.
GroupExists == csg # "none"

\* The Ready condition of the Crossplane SecurityGroup is there, and true.
GroupAvailable == csg = "ready"

\* Get of the Crossplane SecurityGroup.
CheckGroup ==
    /\ pc = "ready"
    /\ GroupAvailable
    /\ todo' = ReferencesToAttach
    /\ pc' = "attach"
    /\ UNCHANGED <<object_vars, csg, world_vars, deletes, seen, seenApplied, failed,
                   conflict, edits, faults>>

GroupNotAvailable ==
    /\ pc = "ready"
    /\ ~GroupAvailable
    /\ Fail
    /\ UNCHANGED <<object_vars, csg, world_vars, deletes, seen, seenApplied,
                   conflict, edits, faults>>

\* A call for the Crossplane SecurityGroup fails.
GroupCallFails ==
    /\ Fault
    /\ pc \in {"group", "ready"}
    /\ \/ pc = "group" /\ csg' = IF csg = "none" THEN "pending" ELSE csg
       \/ UNCHANGED csg
    /\ Fail
    /\ UNCHANGED <<object_vars, world_vars, deletes, seen, seenApplied,
                   conflict, edits>>

-----------------------------------------------------------------------------
(* A reconcile of a SecurityGroup that stays.                              *)

\* ensureAttachReferences, for one reference.  A detach that fails while a
\* deleting pool is released is an event, a patch that is refused is one too.
AttachReference(r) ==
    /\ pc = "attach"
    /\ r \in todo
    /\ Resolves(r)
    /\ \E kept \in SUBSET Released(r), refused \in SUBSET (Released(r) \cup Unheld(r)) :
          /\ Unless(kept \cup refused = {})
          /\ carries' = (carries \ (Released(r) \ kept)) \cup Attachable(r)
          /\ held' = (held \ (Released(r) \ refused)) \cup (Unheld(r) \ refused)
    /\ todo' = todo \ {r}
    /\ UNCHANGED <<object_vars, csg, state, ending, deletes, seen, seenApplied, failed,
                   pc, conflict, edits>>

\* The reference does not resolve any more.
AttachUnresolved(r) ==
    /\ pc = "attach"
    /\ r \in todo
    /\ ~Resolves(r)
    /\ Fail
    /\ UNCHANGED <<object_vars, csg, world_vars, deletes, seen, seenApplied,
                   conflict, edits, faults>>

\* A read fails, or some of the pools are not attached: the references after
\* it wait for the next reconcile.
AttachFails(r) ==
    /\ Fault
    /\ pc = "attach"
    /\ r \in todo
    /\ Resolves(r)
    /\ \/ UNCHANGED <<carries, held>>
       \/ /\ \E attached \in SUBSET Attachable(r) :
                carries' = (carries \ Released(r)) \cup attached
          /\ held' = held \ Released(r)
    /\ Fail
    /\ UNCHANGED <<object_vars, csg, state, ending, deletes, seen, seenApplied,
                   conflict, edits>>

ThenDetachRemoved ==
    /\ pc = "attach"
    /\ todo = {}
    /\ todo' = RemovedRefs
    /\ pc' = "detach"
    /\ UNCHANGED <<object_vars, csg, world_vars, deletes, seen, seenApplied, failed,
                   conflict, edits, faults>>

\* ensureDetachRemovedReferences, for one reference.
DetachRemoved(r) ==
    /\ pc = "detach"
    /\ r \in todo
    /\ Exists(r)
    /\ carries' = carries \ PoolsOf(r)
    /\ \E refused \in SUBSET (Reached(r) \cap held) :
          /\ Unless(refused = {})
          /\ held' = held \ (Reached(r) \ refused)
    /\ todo' = todo \ {r}
    /\ UNCHANGED <<object_vars, csg, state, ending, deletes, seen, seenApplied, failed,
                   pc, conflict, edits>>

\* What was referenced does not exist any more: an error, in every reconcile
\* from now on.
DetachNotFound(r) ==
    /\ pc = "detach"
    /\ r \in todo
    /\ ~Exists(r)
    /\ Fail
    /\ UNCHANGED <<object_vars, csg, world_vars, deletes, seen, seenApplied,
                   conflict, edits, faults>>

DetachFails(r) ==
    /\ Fault
    /\ pc = "detach"
    /\ r \in todo
    /\ \E detached \in SUBSET PoolsOf(r) : carries' = carries \ detached
    /\ Fail
    /\ UNCHANGED <<object_vars, csg, state, held, ending, deletes, seen, seenApplied,
                   conflict, edits>>

AllDetached ==
    /\ pc = "detach"
    /\ todo = {}
    /\ pc' = "save"
    /\ UNCHANGED <<object_vars, csg, world_vars, run_vars, conflict, edits, faults>>

-----------------------------------------------------------------------------
(* A reconcile of a SecurityGroup being deleted.                           *)

ReconcileDelete ==
    /\ pc = "delete"
    /\ IF csg = "none" THEN pc' = "save" /\ UNCHANGED todo
                       ELSE pc' = "release" /\ todo' = ReferencesToDetach
    /\ gaveUp' = (csg = "none" /\ gaveUp)
    /\ UNCHANGED <<object, finalizer, spec, applied, csg, world_vars, deletes, seen, seenApplied, failed,
                   conflict, edits, faults>>

\* One reference.  A pool that is not detached keeps the finalizer; under a
\* control plane that is referenced, it loses it.
ReleaseReference(r) ==
    /\ pc = "release"
    /\ r \in todo
    /\ Exists(r)
    /\ \E kept \in SUBSET PoolsOf(r), refused \in SUBSET (Reached(r) \cap held) :
          LET loses == IF IsPool(r) THEN Reached(r) \ kept ELSE Reached(r) IN
          /\ Unless(kept \cup refused = {})
          /\ carries' = carries \ (PoolsOf(r) \ kept)
          /\ held' = held \ (loses \ refused)
          /\ gaveUp' = (gaveUp \/ kept \cup refused # {})
    /\ todo' = todo \ {r}
    /\ UNCHANGED <<object, finalizer, spec, applied, csg, state, ending, deletes, seen,
                   seenApplied, failed, pc, conflict, edits>>

\* Faulty variant of SkipReference: what does not exist is an error.
SkipReferenceNot(r) ==
    /\ pc = "release"
    /\ r \in todo
    /\ ~Exists(r)
    /\ Fail
    /\ UNCHANGED <<object_vars, csg, world_vars, deletes, seen, seenApplied,
                   conflict, edits, faults>>

\* It does not exist any more.
SkipReference(r) ==
    /\ pc = "release"
    /\ r \in todo
    /\ ~Exists(r)
    /\ todo' = todo \ {r}
    /\ UNCHANGED <<object_vars, csg, world_vars, deletes, seen, seenApplied, failed,
                   pc, conflict, edits, faults>>

DeleteGroup ==
    /\ pc = "release"
    /\ todo = {}
    /\ csg' = "none"
    /\ pc' = "save"
    /\ UNCHANGED <<object_vars, world_vars, run_vars, conflict, edits, faults>>

\* A read, or the deletion of the Crossplane SecurityGroup, fails.
DeleteCallFails ==
    /\ Fault
    /\ pc \in {"delete", "release"}
    /\ \/ UNCHANGED csg
       \/ pc = "release" /\ todo = {} /\ csg' = "none"
    /\ Fail
    /\ UNCHANGED <<object_vars, world_vars, deletes, seen, seenApplied, conflict, edits>>

-----------------------------------------------------------------------------
(* The deferred updates.                                                   *)

\* The Update persists the finalizer, or its removal, after an error too; it
\* is refused when the object changed since it was read, or went.
Persist ==
    /\ finalizer' = IF conflict THEN finalizer ELSE ~deletes \/ failed
    /\ object' = IF deletes /\ ~failed /\ ~conflict THEN "gone" ELSE object

\* What Status().Update, which follows for an object that stays, leaves.
Recorded == IF conflict \/ failed \/ deletes THEN applied ELSE seen

Save ==
    /\ pc = "save"
    /\ Persist
    /\ applied' = Recorded
    /\ End
    /\ UNCHANGED <<spec, gaveUp, csg, world_vars, edits, faults>>

\* One of the two updates fails, or both do: an Update that failed does not
\* keep the Status().Update from being made.
SaveFails ==
    /\ Fault
    /\ pc = "save"
    /\ \/ Persist /\ UNCHANGED applied
       \/ UNCHANGED <<finalizer, object>> /\ applied' \in {applied, Recorded}
    /\ End
    /\ UNCHANGED <<spec, gaveUp, csg, world_vars, edits>>

Restart ==
    /\ Fault
    /\ pc # "idle"
    /\ End
    /\ UNCHANGED <<object_vars, csg, world_vars, edits>>

-----------------------------------------------------------------------------
(* Users, Crossplane, and the operators of clusters and pools.             *)

EditSpec ==
    /\ object = "live"
    /\ edits < MaxEdits
    /\ edits' = edits + 1
    /\ \E refs \in References \ {spec} : spec' = refs
    /\ conflict' = (pc # "idle")
    /\ UNCHANGED <<object, finalizer, applied, gaveUp, csg, world_vars, run_vars, pc, faults>>

\* Without its finalizer the SecurityGroup goes at once.
DeleteSG ==
    /\ object = "live"
    /\ object' = IF finalizer THEN "deleting" ELSE "gone"
    /\ conflict' = (pc # "idle")
    /\ UNCHANGED <<finalizer, spec, applied, gaveUp, csg, world_vars, run_vars, pc, edits,
                   faults>>

GroupReady ==
    /\ csg = "pending"
    /\ csg' = "ready"
    /\ UNCHANGED <<object_vars, world_vars, run_vars, pc, conflict, edits, faults>>

CreatePool(o) ==
    /\ o \in Pools
    /\ state[o] = "absent"
    /\ state[Plane(o)] = "live"
    /\ Plane(o).name \notin ending
    /\ state' = [state EXCEPT ![o] = "live"]
    /\ UNCHANGED <<object_vars, csg, held, carries, ending, run_vars, pc, conflict, edits, faults>>

DeleteCluster(c) ==
    /\ c \notin ending
    /\ ending' = ending \cup {c}
    /\ UNCHANGED <<object_vars, csg, state, held, carries, run_vars, pc, conflict, edits, faults>>

\* A user deletes a pool; Cluster API the pools of a Cluster, and its control
\* plane after them.
DeleteObject(o) ==
    /\ state[o] = "live"
    /\ o \in Planes => o.name \in ending /\ PoolsOf(o) = {}
    /\ state' = [state EXCEPT ![o] = "deleting"]
    /\ UNCHANGED <<object_vars, csg, held, carries, ending, run_vars, pc, conflict, edits, faults>>

\* An object goes when it has no finalizer left, a pool with its configuration.
Goes(o) ==
    /\ state[o] = "deleting"
    /\ o \notin held
    /\ state' = [state EXCEPT ![o] = "gone"]
    /\ carries' = carries \ {o}
    /\ UNCHANGED <<object_vars, csg, held, ending, run_vars, pc, conflict, edits, faults>>

-----------------------------------------------------------------------------
(* The system.                                                             *)

\* What the reconcile does next.
Proceed ==
    \/ CreateOrUpdateGroup
    \/ CheckGroup
    \/ GroupNotAvailable
    \/ \E r \in Object : \/ AttachReference(r)
                        \/ AttachUnresolved(r)
                        \/ DetachRemoved(r)
                        \/ DetachNotFound(r)
                        \/ ReleaseReference(r)
                        \/ SkipReference(r)
    \/ ThenDetachRemoved
    \/ AllDetached
    \/ ReconcileDelete
    \/ DeleteGroup
    \/ Save

Fails ==
    \/ GroupCallFails
    \/ \E r \in Object : AttachFails(r) \/ DetachFails(r)
    \/ DeleteCallFails
    \/ SaveFails
    \/ Restart

Others ==
    \/ EditSpec
    \/ DeleteSG
    \/ GroupReady
    \/ \E o \in Object : CreatePool(o) \/ DeleteObject(o) \/ Goes(o)
    \/ \E c \in Cluster : DeleteCluster(c)

Next == Reconcile \/ Proceed \/ Fails \/ Others

Spec == Init /\ [][Next]_vars

\* Every result of a reconcile requeues the object, a goroutine goes on, and
\* Crossplane creates the group it is asked for.
Fairness == WF_vars(Reconcile) /\ WF_vars(Proceed) /\ WF_vars(GroupReady)

FairSpec == Spec /\ Fairness

-----------------------------------------------------------------------------
(* Properties.                                                             *)

Referenced == UNION {PoolsOf(r) : r \in spec}

\* A SecurityGroup that is gone leaves nothing behind: its finalizer is there
\* "to allow to proper detachment of the Security Group from the resources
\* referenced before it's deleted" (docs/README.md, Deep Dive).
NothingLeft ==
    object = "gone" /\ pc = "idle" => csg = "none" /\ carries = {} /\ held = {}

\* The reconcile that lets a SecurityGroup go has deleted its Crossplane
\* SecurityGroup, and no pool or control plane it references has the group or
\* the finalizer, whatever was created, deleted or edited since they were
\* attached, and however often the deletion failed or died and began anew; or
\* it has logged a detach or a patch that failed, "moving on with the deletion
\* process".
GoesCleanlyStep ==
    object = "deleting" /\ object' = "gone" =>
        /\ csg = "none"
        /\ ~gaveUp => \A r \in spec : Reached(r) \cap (carries \cup held) = {}

GoesCleanly == [][GoesCleanlyStep]_vars

\* When the references are about to be recorded as applied, the pools they stand for have
\* the group, and those that only removed references stood for do not, through
\* failed calls and pools that come and go.  Left out are pools that a removed
\* and a kept reference both stand for, which the second phase detaches, those
\* being deleted, and those that came up after they were listed.
AppliedIsSo ==
    LET removed == UNION {PoolsOf(r) : r \in seenApplied \ seen}
        kept    == UNION {PoolsOf(r) : r \in seen}
    IN  pc = "save" /\ ~failed /\ ~deletes =>
            /\ removed \cap carries = {}
            /\ \A o \in kept \ removed :
                  state[o] = "live" /\ o.name \notin Late => o \in carries

\* A SecurityGroup whose references all resolve comes to have its group in all
\* of the pools they stand for, those created later included.
Attaches ==
    (object = "live" /\ \A r \in spec : Resolves(r))
        ~> \/ object # "live" \/ \E r \in spec : ~Resolves(r)
           \/ \A o \in Referenced : state[o] = "live" => o \in carries

\* A deletion comes to an end as long as one reference resolves.
DeletionEnds ==
    object = "deleting" ~> object = "gone" \/ \A r \in spec : ~Resolves(r)

\* A deletion comes to an end: "should remove security group even if kmp
\* reference doesn't exist" (securitygroup_controller_test.go).
DeletionCompletes == object = "deleting" ~> object = "gone"

\* A pool being deleted is not kept by the finalizer when its control plane is
\* what is referenced: it is released, unless the Cluster is being deleted too,
\* and Cluster API waits for the deletion of the SecurityGroup.
PoolsReleased ==
    \A o \in Pools :
        (state[o] = "deleting" /\ o \in held)
            ~> \/ o \notin held
               \/ object = "gone"
               \/ Plane(o).name \in ending
               \/ Plane(o) \notin spec
               \/ \E r \in spec : ~Resolves(r)

=============================================================================
