-------------------- MODULE SecurityGroupLifecycleProofs --------------------
(***************************************************************************)
(* Proofs about SecurityGroupLifecycle, for every set of pools, clusters   *)
(* and reference lists and all bounds: type correctness, what is recorded  *)
(* as applied is attached, and a deletion leaves nothing behind.           *)
(***************************************************************************)
EXTENDS SecurityGroupLifecycle, TLAPS

\* A pool and a cluster never have one name: references are told apart by
\* their names alone when those to detach are looked for.
NamesTellApart == Pool \cap Cluster = {}

\* The reconcile: what it read of an object being deleted stays so, and an
\* error leads to the deferred updates.
RunInv ==
    /\ deletes => /\ object = "deleting"
                  /\ seen = spec
                  /\ ~conflict
                  /\ pc \in {"delete", "release", "save"}
    /\ pc \in {"delete", "release"} => deletes
    /\ failed => pc = "save"
    /\ conflict => pc # "idle"
    /\ pc = "detach" => todo \subseteq RemovedRefs

\* Pools are created while their control plane is there, and go before it.
WorldInv ==
    /\ \A o \in Planes : state[o] # "absent" /\ (state[o] # "live" => PoolsOf(o) = {})
    /\ \A o \in Pools : state[o] = "absent" => o.name \in Late

\* A pool that was there all along, and stays.
Due(o) == state[o] = "live" /\ o.name \notin Late

Removed == UNION {PoolsOf(r) : r \in seenApplied \ seen}

\* What the two phases of a reconcile have done so far.
AttachInv ==
    /\ pc = "attach" => \A r \in seen \ todo : \A o \in PoolsOf(r) : Due(o) => o \in carries
    /\ pc = "detach" =>
          /\ \A r \in seen : \A o \in PoolsOf(r) \ Removed : Due(o) => o \in carries
          /\ \A r \in RemovedRefs \ todo : PoolsOf(r) \cap carries = {}
    /\ AppliedIsSo

\* Nothing that a reference reaches has the group or the finalizer.
Clean(r) == Reached(r) \cap (carries \cup held) = {}

\* What a deletion has done so far, in this reconcile or, once the Crossplane
\* SecurityGroup is deleted, in an earlier one that failed or died.
CleanInv ==
    /\ csg = "none" /\ object = "live" => carries = {} /\ held = {}
    /\ csg = "none" /\ object = "deleting" /\ ~gaveUp => \A r \in spec : Clean(r)
    /\ pc = "release" /\ ~gaveUp => \A r \in seen \ todo : Clean(r)
    /\ pc = "save" /\ deletes /\ ~failed => csg = "none"

Inv == TypeOK /\ RunInv /\ WorldInv /\ AttachInv /\ CleanInv

-----------------------------------------------------------------------------
(* Objects.                                                                *)

\* A pool is no control plane, and its control plane is one.
LEMMA ObjectFacts ==
  /\ Object = Pools \cup Planes
  /\ \A o \in Pools : /\ o \notin Planes
                      /\ IsPool(o)
                      /\ Plane(o) \in Planes
                      /\ o.name \in Pool
  /\ \A o \in Planes : /\ o \notin Pools
                       /\ ~IsPool(o)
                       /\ Plane(o) = o
                       /\ o.name \in Cluster
  BY ConstantsAssumption DEF Object, Pools, Planes, IsPool, Plane, KMP, KCP

\* What a reference reaches exists, and its pools are pools.
LEMMA ReachedFacts ==
  ASSUME NEW r \in Object
  PROVE  /\ PoolsOf(r) \subseteq {o \in Pools : Exists(o)}
         /\ Reached(r) \subseteq {o \in Object : Exists(o)}
         /\ PoolsOf(r) \subseteq Reached(r)
         /\ Released(r) \subseteq PoolsOf(r) \cap held
         /\ Attachable(r) \subseteq PoolsOf(r)
         /\ Exists(r) => Unheld(r) \subseteq {o \in Object : Exists(o)}
  BY ObjectFacts DEF PoolsOf, Reached, Released, Attachable, Unheld, Deleting

LEMMA ReferenceFacts ==
  /\ {} \subseteq Object
  /\ \A refs \in References \cup {{}} : refs \subseteq Object
  BY ConstantsAssumption

-----------------------------------------------------------------------------
(* Types.                                                                  *)

WorldOK ==
    /\ state \in [Object -> {"absent", "live", "deleting", "gone"}]
    /\ held \subseteq {o \in Object : Exists(o)}
    /\ carries \subseteq {o \in Pools : Exists(o)}
    /\ ending \subseteq Cluster

FlagsOK ==
    /\ finalizer \in BOOLEAN
    /\ deletes \in BOOLEAN
    /\ failed \in BOOLEAN
    /\ conflict \in BOOLEAN
    /\ gaveUp \in BOOLEAN

RestOK ==
    /\ object \in {"live", "deleting", "gone"}
    /\ spec \in References
    /\ applied \in References \cup {{}}
    /\ csg \in {"none", "pending", "ready"}
    /\ pc \in {"idle", "group", "ready", "attach", "detach", "delete", "release", "save"}
    /\ pc \in {"attach", "detach"} => csg = "ready"
    /\ seen \in References \cup {{}}
    /\ seenApplied \in References \cup {{}}
    /\ todo \subseteq Object
    /\ edits \in 0..MaxEdits
    /\ faults \in 0..MaxFaults

LEMMA TypeOKParts == TypeOK <=> WorldOK /\ FlagsOK /\ RestOK
  BY DEF TypeOK, WorldOK, FlagsOK, RestOK

LEMMA InitTypeOK == Init => TypeOK
  <1> SUFFICES ASSUME Init PROVE WorldOK /\ FlagsOK /\ RestOK
    BY TypeOKParts
  <1>1. WorldOK
    BY DEF Init, WorldOK
  <1>2. FlagsOK
    BY Zenon DEF Init, FlagsOK
  <1>3. RestOK
    BY ConstantsAssumption DEF Init, RestOK
  <1> QED
    BY <1>1, <1>2, <1>3

\* The steps that change pools, control planes and Clusters.
WorldSteps ==
    \/ \E r \in Object : \/ AttachReference(r)
                        \/ AttachFails(r)
                        \/ DetachRemoved(r)
                        \/ DetachFails(r)
                        \/ ReleaseReference(r)
    \/ \E o \in Object : CreatePool(o) \/ DeleteObject(o) \/ Goes(o)

LEMMA WorldChanges ==
  [Next]_vars => WorldSteps \/ UNCHANGED <<state, held, carries>>
  <1> SUFFICES ASSUME [Next]_vars, ~WorldSteps PROVE UNCHANGED <<state, held, carries>>
    OBVIOUS
  <1> USE DEF world_vars
  <1>1. CASE UNCHANGED vars
    BY <1>1 DEF vars
  <1>2. CASE Reconcile \/ CreateOrUpdateGroup \/ CheckGroup \/ GroupNotAvailable \/ GroupCallFails
    BY <1>2 DEF Reconcile, CreateOrUpdateGroup, CheckGroup, GroupNotAvailable, GroupCallFails
  <1>3. ASSUME NEW r \in Object, AttachUnresolved(r) \/ DetachNotFound(r) \/ SkipReference(r)
        PROVE  UNCHANGED <<state, held, carries>>
    BY <1>3 DEF AttachUnresolved, DetachNotFound, SkipReference
  <1>4. CASE ThenDetachRemoved \/ AllDetached \/ ReconcileDelete \/ DeleteGroup \/ DeleteCallFails
    BY <1>4 DEF ThenDetachRemoved, AllDetached, ReconcileDelete, DeleteGroup, DeleteCallFails
  <1>5. CASE Save \/ SaveFails \/ Restart \/ EditSpec \/ DeleteSG \/ GroupReady
    BY <1>5 DEF Save, SaveFails, Restart, EditSpec, DeleteSG, GroupReady
  <1>6. ASSUME NEW c \in Cluster, DeleteCluster(c) PROVE UNCHANGED <<state, held, carries>>
    BY <1>6 DEF DeleteCluster
  <1> QED
    BY <1>1, <1>2, <1>3, <1>4, <1>5, <1>6 DEF Next, Proceed, Fails, Others, WorldSteps

LEMMA WorldOKStep == TypeOK /\ [Next]_vars => WorldOK'
  <1> SUFFICES ASSUME TypeOK, [Next]_vars PROVE WorldOK'
    OBVIOUS
  <1> USE DEF Exists
  <1>1. WorldOK
    BY TypeOKParts
  <1>2. ending' \subseteq Cluster
    <2>1. CASE \E c \in Cluster : DeleteCluster(c)
      BY <1>1, <2>1 DEF WorldOK, DeleteCluster
    <2>2. CASE ~\E c \in Cluster : DeleteCluster(c)
      <3>1. ending' = ending
        <4> USE DEF world_vars
        <4>1. CASE UNCHANGED vars
          BY <4>1 DEF vars
        <4>2. CASE Reconcile \/ CreateOrUpdateGroup \/ CheckGroup \/ GroupNotAvailable \/ GroupCallFails
          BY <4>2 DEF Reconcile, CreateOrUpdateGroup, CheckGroup, GroupNotAvailable, GroupCallFails
        <4>3. ASSUME NEW r \in Object, \/ AttachReference(r) \/ AttachUnresolved(r) \/ AttachFails(r)
                                       \/ DetachRemoved(r) \/ DetachNotFound(r) \/ DetachFails(r)
                                       \/ ReleaseReference(r) \/ SkipReference(r)
              PROVE  ending' = ending
          BY <4>3 DEF AttachReference, AttachUnresolved, AttachFails, DetachRemoved, DetachNotFound,
                      DetachFails, ReleaseReference, SkipReference
        <4>4. CASE ThenDetachRemoved \/ AllDetached \/ ReconcileDelete \/ DeleteGroup \/ DeleteCallFails
          BY <4>4 DEF ThenDetachRemoved, AllDetached, ReconcileDelete, DeleteGroup, DeleteCallFails
        <4>5. CASE Save \/ SaveFails \/ Restart \/ EditSpec \/ DeleteSG \/ GroupReady
          BY <4>5 DEF Save, SaveFails, Restart, EditSpec, DeleteSG, GroupReady
        <4>6. ASSUME NEW o \in Object, CreatePool(o) \/ DeleteObject(o) \/ Goes(o) PROVE ending' = ending
          BY <4>6 DEF CreatePool, DeleteObject, Goes
        <4> QED
          BY <2>2, <4>1, <4>2, <4>3, <4>4, <4>5, <4>6 DEF Next, Proceed, Fails, Others
      <3> QED
        BY <1>1, <3>1 DEF WorldOK
    <2> QED
      BY <2>1, <2>2
  <1>3. CASE UNCHANGED <<state, held, carries>>
    BY <1>1, <1>2, <1>3 DEF WorldOK
  <1>4. ASSUME NEW r \in Object, AttachReference(r) PROVE WorldOK'
    BY <1>1, <1>2, <1>4, ReachedFacts DEF WorldOK, AttachReference, Resolves
  <1>5. ASSUME NEW r \in Object, AttachFails(r) PROVE WorldOK'
    BY <1>1, <1>2, <1>5, ReachedFacts DEF WorldOK, AttachFails
  <1>6. ASSUME NEW r \in Object, DetachRemoved(r) \/ DetachFails(r) PROVE WorldOK'
    BY <1>1, <1>2, <1>6 DEF WorldOK, DetachRemoved, DetachFails
  <1>7. ASSUME NEW r \in Object, ReleaseReference(r) PROVE WorldOK'
    BY <1>1, <1>2, <1>7 DEF WorldOK, ReleaseReference
  <1>8. ASSUME NEW o \in Object, CreatePool(o) \/ DeleteObject(o) PROVE WorldOK'
    <2>1. state' = [state EXCEPT ![o] = "live"] \/ state' = [state EXCEPT ![o] = "deleting"]
      BY <1>8 DEF CreatePool, DeleteObject
    <2>2. held' = held /\ carries' = carries
      BY <1>8 DEF CreatePool, DeleteObject
    <2>3. \A x \in Object : Exists(x) => Exists(x)'
      BY <1>1, <2>1 DEF WorldOK
    <2> QED
      BY <1>1, <1>2, <2>1, <2>2, <2>3, ObjectFacts DEF WorldOK
  <1>9. ASSUME NEW o \in Object, Goes(o) PROVE WorldOK'
    BY <1>1, <1>2, <1>9 DEF WorldOK, Goes
  <1> QED
    BY <1>3, <1>4, <1>5, <1>6, <1>7, <1>8, <1>9, WorldChanges DEF WorldSteps

LEMMA FlagsOKStep == TypeOK /\ [Next]_vars => FlagsOK'
  <1> SUFFICES ASSUME TypeOK, [Next]_vars PROVE FlagsOK'
    OBVIOUS
  <1> USE DEF FlagsOK, object_vars, run_vars, End, Fail
  <1>1. FlagsOK
    BY TypeOKParts
  <1>2. CASE UNCHANGED vars
    BY <1>1, <1>2, Zenon DEF vars
  <1>3. CASE Reconcile
    BY <1>1, <1>3, Zenon DEF Reconcile
  <1>4. CASE CreateOrUpdateGroup \/ CheckGroup \/ GroupNotAvailable \/ GroupCallFails
    BY <1>1, <1>4, Zenon DEF CreateOrUpdateGroup, CheckGroup, GroupNotAvailable, GroupCallFails
  <1>5. ASSUME NEW r \in Object, \/ AttachReference(r) \/ AttachUnresolved(r) \/ AttachFails(r)
                                 \/ DetachRemoved(r) \/ DetachNotFound(r) \/ DetachFails(r)
                                 \/ ReleaseReference(r) \/ SkipReference(r)
        PROVE  FlagsOK'
    BY <1>1, <1>5, Zenon
    DEF AttachReference, AttachUnresolved, AttachFails, DetachRemoved, DetachNotFound,
        DetachFails, ReleaseReference, SkipReference
  <1>6. CASE ThenDetachRemoved \/ AllDetached \/ ReconcileDelete \/ DeleteGroup \/ DeleteCallFails
    BY <1>1, <1>6, Zenon DEF ThenDetachRemoved, AllDetached, ReconcileDelete, DeleteGroup, DeleteCallFails
  <1>7. CASE Save \/ SaveFails \/ Restart
    BY <1>1, <1>7, Zenon DEF Save, SaveFails, Restart, Persist
  <1>8. CASE EditSpec \/ DeleteSG \/ GroupReady
    BY <1>1, <1>8, Zenon DEF EditSpec, DeleteSG, GroupReady
  <1>9. ASSUME NEW o \in Object, CreatePool(o) \/ DeleteObject(o) \/ Goes(o) PROVE FlagsOK'
    BY <1>1, <1>9, Zenon DEF CreatePool, DeleteObject, Goes
  <1>10. ASSUME NEW c \in Cluster, DeleteCluster(c) PROVE FlagsOK'
    BY <1>1, <1>10, Zenon DEF DeleteCluster
  <1> QED
    BY <1>2, <1>3, <1>4, <1>5, <1>6, <1>7, <1>8, <1>9, <1>10 DEF Next, Proceed, Fails, Others

LEMMA RestOKStep == TypeOK /\ [Next]_vars => RestOK'
  <1> SUFFICES ASSUME TypeOK, [Next]_vars PROVE RestOK'
    OBVIOUS
  <1> USE ConstantsAssumption, ReferenceFacts
      DEF RestOK, object_vars, run_vars, End, Fail, Fault, Unless
  <1>1. RestOK
    BY TypeOKParts
  <1>2. CASE UNCHANGED vars
    BY <1>1, <1>2 DEF vars
  <1>3. CASE Reconcile
    BY <1>1, <1>3 DEF Reconcile
  <1>4. CASE CreateOrUpdateGroup \/ CheckGroup \/ GroupNotAvailable
    BY <1>1, <1>4 DEF CreateOrUpdateGroup, CheckGroup, GroupNotAvailable, GroupAvailable, ReferencesToAttach
  <1>5. CASE GroupCallFails \/ DeleteCallFails
    BY <1>1, <1>5 DEF GroupCallFails, DeleteCallFails
  <1>6. ASSUME NEW r \in Object, AttachReference(r) \/ DetachRemoved(r) PROVE RestOK'
    BY <1>1, <1>6 DEF AttachReference, DetachRemoved
  <1>7. ASSUME NEW r \in Object, ReleaseReference(r) \/ SkipReference(r) PROVE RestOK'
    BY <1>1, <1>7 DEF ReleaseReference, SkipReference
  <1>8. ASSUME NEW r \in Object, \/ AttachUnresolved(r) \/ AttachFails(r)
                                 \/ DetachNotFound(r) \/ DetachFails(r)
        PROVE  RestOK'
    BY <1>1, <1>8 DEF AttachUnresolved, AttachFails, DetachNotFound, DetachFails
  <1>9. CASE ThenDetachRemoved \/ AllDetached
    BY <1>1, <1>9 DEF ThenDetachRemoved, AllDetached, RemovedRefs
  <1>10. CASE ReconcileDelete \/ DeleteGroup
    BY <1>1, <1>10 DEF ReconcileDelete, DeleteGroup, ReferencesToDetach
  <1>11. CASE Save \/ SaveFails
    <2>1. object' \in {"gone", object} /\ applied' \in {applied, seen}
      BY <1>11, Zenon DEF Save, SaveFails, Persist, Recorded
    <2> QED
      BY <1>1, <1>11, <2>1 DEF Save, SaveFails
  <1>12. CASE Restart \/ EditSpec \/ GroupReady
    BY <1>1, <1>12 DEF Restart, EditSpec, GroupReady
  <1>13. CASE DeleteSG
    <2>1. object' \in {"gone", "deleting"}
      BY <1>13 DEF DeleteSG
    <2> QED
      BY <1>1, <1>13, <2>1 DEF DeleteSG
  <1>14. ASSUME NEW o \in Object, CreatePool(o) \/ DeleteObject(o) \/ Goes(o) PROVE RestOK'
    BY <1>1, <1>14 DEF CreatePool, DeleteObject, Goes
  <1>15. ASSUME NEW c \in Cluster, DeleteCluster(c) PROVE RestOK'
    BY <1>1, <1>15 DEF DeleteCluster
  <1> QED
    BY <1>2, <1>3, <1>4, <1>5, <1>6, <1>7, <1>8, <1>9, <1>10, <1>11, <1>12, <1>13, <1>14, <1>15
    DEF Next, Proceed, Fails, Others

LEMMA TypeOKStep == TypeOK /\ [Next]_vars => TypeOK'
  <1> SUFFICES ASSUME TypeOK, [Next]_vars PROVE (WorldOK /\ FlagsOK /\ RestOK)'
    BY TypeOKParts, PTL
  <1> QED
    BY WorldOKStep, FlagsOKStep, RestOKStep

\* Every reachable state is well typed: only what exists has a finalizer or a
\* configuration with the group, and pools are worked on when the Crossplane
\* SecurityGroup is ready.
THEOREM TypeCorrect == Spec => []TypeOK
  BY InitTypeOK, TypeOKStep, PTL DEF Spec

-----------------------------------------------------------------------------
(* The reconcile and the world.                                            *)

LEMMA RunInvStep == TypeOK /\ RunInv /\ [Next]_vars => RunInv'
  <1> SUFFICES ASSUME TypeOK, RunInv, [Next]_vars PROVE RunInv'
    OBVIOUS
  <1> USE DEF RunInv, object_vars, run_vars
  <1>1. CASE UNCHANGED vars
    BY <1>1 DEF vars, RemovedRefs
  <1>2. CASE Reconcile
    <2>1. UNCHANGED <<object, spec, failed, conflict>> /\ ~failed /\ ~conflict
      BY <1>2 DEF Reconcile
    <2>2. deletes' <=> object = "deleting"
      BY <1>2, Zenon DEF Reconcile
    <2> QED
      BY <1>2, <2>1, <2>2 DEF Reconcile
  <1>3. CASE CreateOrUpdateGroup \/ CheckGroup
    BY <1>3 DEF CreateOrUpdateGroup, CheckGroup
  <1>4. CASE GroupNotAvailable \/ GroupCallFails
    BY <1>4 DEF GroupNotAvailable, GroupCallFails, Fail
  <1>5. ASSUME NEW r \in Object, AttachReference(r) \/ DetachRemoved(r) PROVE RunInv'
    BY <1>5 DEF AttachReference, DetachRemoved, RemovedRefs
  <1>6. ASSUME NEW r \in Object, ReleaseReference(r) \/ SkipReference(r) PROVE RunInv'
    BY <1>6 DEF ReleaseReference, SkipReference
  <1>7. ASSUME NEW r \in Object, \/ AttachUnresolved(r) \/ AttachFails(r)
                                 \/ DetachNotFound(r) \/ DetachFails(r)
        PROVE  RunInv'
    BY <1>7 DEF AttachUnresolved, AttachFails, DetachNotFound, DetachFails, Fail
  <1>8. CASE ThenDetachRemoved \/ AllDetached
    BY <1>8 DEF ThenDetachRemoved, AllDetached, RemovedRefs
  <1>9. CASE ReconcileDelete \/ DeleteGroup
    BY <1>9 DEF ReconcileDelete, DeleteGroup
  <1>10. CASE DeleteCallFails
    BY <1>10 DEF DeleteCallFails, Fail
  <1>11. CASE Save \/ SaveFails \/ Restart
    BY <1>11 DEF Save, SaveFails, Restart, End
  <1>12. CASE EditSpec \/ DeleteSG
    <2>1. /\ UNCHANGED <<run_vars, pc>>
          /\ ~deletes
      BY <1>12 DEF EditSpec, DeleteSG
    <2>2. conflict' => pc # "idle"
      BY <1>12, Zenon DEF EditSpec, DeleteSG
    <2> QED
      BY <2>1, <2>2 DEF RemovedRefs
  <1>15. CASE GroupReady
    BY <1>15 DEF GroupReady, RemovedRefs
  <1>13. ASSUME NEW o \in Object, CreatePool(o) \/ DeleteObject(o) \/ Goes(o) PROVE RunInv'
    BY <1>13 DEF CreatePool, DeleteObject, Goes, RemovedRefs
  <1>14. ASSUME NEW c \in Cluster, DeleteCluster(c) PROVE RunInv'
    BY <1>14 DEF DeleteCluster, RemovedRefs
  <1> QED
    BY <1>1, <1>2, <1>3, <1>4, <1>5, <1>6, <1>7, <1>8, <1>9, <1>10, <1>11, <1>12, <1>13, <1>14,
       <1>15
    DEF Next, Proceed, Fails, Others

LEMMA StateChanges ==
  [Next]_vars => \/ \E o \in Object : CreatePool(o) \/ DeleteObject(o) \/ Goes(o)
                 \/ UNCHANGED state
  BY WorldChanges
  DEF WorldSteps, AttachReference, AttachFails, DetachRemoved, DetachFails, ReleaseReference

LEMMA WorldInvStep == TypeOK /\ WorldInv /\ [Next]_vars => WorldInv'
  <1> SUFFICES ASSUME TypeOK, WorldInv, [Next]_vars PROVE WorldInv'
    OBVIOUS
  <1> USE ObjectFacts DEF WorldInv, PoolsOf, Exists
  <1>0. state \in [Object -> {"absent", "live", "deleting", "gone"}]
    BY DEF TypeOK
  <1>1. CASE UNCHANGED state
    BY <1>1
  <1>2. ASSUME NEW o \in Object, CreatePool(o) PROVE WorldInv'
    BY <1>0, <1>2 DEF CreatePool
  <1>3. ASSUME NEW o \in Object, DeleteObject(o) PROVE WorldInv'
    BY <1>0, <1>3 DEF DeleteObject
  <1>4. ASSUME NEW o \in Object, Goes(o) PROVE WorldInv'
    BY <1>0, <1>4 DEF Goes
  <1> QED
    BY <1>1, <1>2, <1>3, <1>4, StateChanges

-----------------------------------------------------------------------------
(* What a deletion leaves.                                                 *)

\* What is clean stays so while nothing is added.
LEMMA CleanKept ==
  ASSUME TypeOK, NEW r \in Object, Clean(r), carries' \subseteq carries, held' \subseteq held
  PROVE  Clean(r)'
  BY ObjectFacts DEF TypeOK, Clean, Reached, PoolsOf, Exists

\* A reference whose turn comes is clean when nothing is refused.
LEMMA ReleaseCleans ==
  ASSUME TypeOK, NEW r \in Object, ReleaseReference(r), ~gaveUp'
  PROVE  Clean(r)' /\ ~gaveUp
  <1>1. PICK kept \in SUBSET PoolsOf(r), refused \in SUBSET (Reached(r) \cap held) :
           /\ carries' = carries \ (PoolsOf(r) \ kept)
           /\ held' = held \ ((IF IsPool(r) THEN Reached(r) \ kept ELSE Reached(r)) \ refused)
           /\ gaveUp' = (gaveUp \/ kept \cup refused # {})
    BY DEF ReleaseReference
  <1>2. kept = {} /\ refused = {} /\ ~gaveUp
    BY <1>1
  <1>3. carries' = carries \ PoolsOf(r) /\ held' = held \ Reached(r) /\ state' = state
    BY <1>1, <1>2 DEF ReleaseReference
  <1>4. carries \cap Reached(r) \subseteq PoolsOf(r)
    BY ObjectFacts DEF TypeOK, Reached, PoolsOf, Exists
  <1>5. Reached(r)' = Reached(r)
    BY <1>3 DEF Reached, PoolsOf, Exists
  <1> QED
    BY <1>2, <1>3, <1>4, <1>5 DEF Clean

\* A reference that is skipped reaches nothing: its pools went before it.
LEMMA AbsentIsClean ==
  ASSUME TypeOK, WorldInv, NEW r \in Object, ~Exists(r)
  PROVE  Clean(r)
  <1>1. PoolsOf(r) = {}
    BY ObjectFacts DEF WorldInv, PoolsOf, Exists, TypeOK
  <1> QED
    BY <1>1 DEF Clean, Reached

\* The steps that neither add a group or a finalizer nor begin a deletion anew.
LEMMA CleanSteps ==
  ASSUME TypeOK, CleanInv, UNCHANGED <<object, spec, gaveUp, csg, seen>>,
         carries' \subseteq carries, held' \subseteq held
  PROVE  /\ csg' = "none" /\ object' = "live" => carries' = {} /\ held' = {}
         /\ csg' = "none" /\ object' = "deleting" /\ ~gaveUp' => \A r \in spec' : Clean(r)'
         /\ pc = "release" /\ ~gaveUp' => \A r \in seen' \ todo : Clean(r)'
  <1>1. spec \subseteq Object /\ seen \subseteq Object
    BY ReferenceFacts DEF TypeOK
  <1>2. \A r \in Object : Clean(r) => Clean(r)'
    BY CleanKept
  <1> QED
    BY <1>1, <1>2 DEF CleanInv

LEMMA CleanInvStep == TypeOK /\ RunInv /\ WorldInv /\ CleanInv /\ [Next]_vars => CleanInv'
  <1> SUFFICES ASSUME TypeOK, RunInv, WorldInv, CleanInv, [Next]_vars PROVE CleanInv'
    OBVIOUS
  <1> USE DEF RunInv, object_vars, run_vars, world_vars
  <1>0. /\ seen \subseteq Object /\ todo \subseteq Object /\ spec \subseteq Object
        /\ object \in {"live", "deleting", "gone"}
    BY ReferenceFacts DEF TypeOK
  <1>1. CASE UNCHANGED vars
    BY <1>1, CleanSteps DEF vars, CleanInv
  <1>2. CASE Reconcile
    BY <1>2, CleanSteps DEF Reconcile, CleanInv, Clean, Reached, PoolsOf, Exists
  <1>3. CASE CreateOrUpdateGroup
    BY <1>3 DEF CreateOrUpdateGroup, CleanInv
  <1>4. CASE CheckGroup \/ GroupNotAvailable
    BY <1>4, CleanSteps DEF CheckGroup, GroupNotAvailable, Fail, CleanInv
  <1>5. CASE GroupCallFails
    <2>1. CASE csg' = csg
      BY <1>5, <2>1, CleanSteps DEF GroupCallFails, Fail, CleanInv
    <2>2. CASE csg' # csg
      BY <1>5, <2>2 DEF GroupCallFails, Fail, CleanInv
    <2> QED
      BY <2>1, <2>2
  <1>6. ASSUME NEW r \in Object, \/ AttachReference(r) \/ AttachFails(r)
                                 \/ DetachRemoved(r) \/ DetachFails(r)
        PROVE  CleanInv'
    BY <1>6 DEF AttachReference, AttachFails, DetachRemoved, DetachFails, Fail, TypeOK, CleanInv
  <1>7. ASSUME NEW r \in Object, AttachUnresolved(r) \/ DetachNotFound(r)
        PROVE  CleanInv'
    BY <1>7, CleanSteps DEF AttachUnresolved, DetachNotFound, Fail, CleanInv
  <1>8. CASE ThenDetachRemoved \/ AllDetached
    BY <1>8, CleanSteps DEF ThenDetachRemoved, AllDetached, CleanInv
  <1>9. CASE ReconcileDelete
    <2>1. CASE csg = "none"
      <3>1. gaveUp' = gaveUp
        BY <1>9, <2>1 DEF ReconcileDelete, TypeOK
      <3> QED
        BY <1>9, <2>1, <3>1, CleanSteps DEF ReconcileDelete, CleanInv
    <2>2. CASE csg # "none"
      BY <1>9, <2>2 DEF ReconcileDelete, ReferencesToDetach, CleanInv
    <2> QED
      BY <2>1, <2>2
  <1>10. ASSUME NEW r \in Object, ReleaseReference(r) PROVE CleanInv'
    <2>1. /\ UNCHANGED <<object, spec, csg, deletes, seen, failed, pc>>
          /\ pc = "release" /\ todo' = todo \ {r}
          /\ carries' \subseteq carries /\ held' \subseteq held
      BY <1>10 DEF ReleaseReference
    <2>2. \A x \in Object : Clean(x) => Clean(x)'
      BY <2>1, CleanKept
    <2>3. ~gaveUp' => ~gaveUp /\ Clean(r)'
      BY <1>10, ReleaseCleans
    <2> QED
      BY <1>0, <2>1, <2>2, <2>3 DEF CleanInv
  <1>11. ASSUME NEW r \in Object, SkipReference(r) PROVE CleanInv'
    <2>1. Clean(r)
      BY <1>11, AbsentIsClean DEF SkipReference
    <2>2. \A x \in Object : Clean(x) => Clean(x)'
      BY <1>11, CleanKept DEF SkipReference
    <2>3. /\ UNCHANGED <<object, spec, gaveUp, csg, seen, pc, carries, held>>
          /\ pc = "release" /\ todo' = todo \ {r}
      BY <1>11 DEF SkipReference
    <2> QED
      BY <1>0, <2>1, <2>2, <2>3 DEF CleanInv
  <1>12. CASE DeleteGroup \/ DeleteCallFails
    <2>1. \A x \in Object : Clean(x) => Clean(x)'
      BY <1>12, CleanKept DEF DeleteGroup, DeleteCallFails
    <2>2. /\ UNCHANGED <<object, spec, gaveUp, carries, held>>
          /\ deletes /\ pc' = "save"
          /\ csg' = csg \/ (pc = "release" /\ todo = {} /\ csg' = "none")
      BY <1>12 DEF DeleteGroup, DeleteCallFails, Fail
    <2>3. failed' \/ csg' = "none"
      BY <1>12 DEF DeleteGroup, DeleteCallFails, Fail
    <2> QED
      BY <1>0, <2>1, <2>2, <2>3 DEF CleanInv
  <1>13. CASE Save \/ SaveFails \/ Restart
    <2>1. /\ UNCHANGED <<spec, gaveUp, csg, carries, held, state>>
          /\ pc' = "idle"
      BY <1>13 DEF Save, SaveFails, Restart, End
    <2>2. object' \in {object, "gone"}
      BY <1>13, Zenon DEF Save, SaveFails, Restart, Persist
    <2>3. \A x \in Object : Clean(x) => Clean(x)'
      BY <2>1, CleanKept
    <2> QED
      BY <1>0, <2>1, <2>2, <2>3 DEF CleanInv
  <1>14. CASE EditSpec
    BY <1>14, CleanKept DEF EditSpec, CleanInv
  <1>15. CASE DeleteSG
    <2>1. /\ object = "live" /\ object' \in {"gone", "deleting"}
          /\ UNCHANGED <<spec, gaveUp, csg, seen, todo, pc, deletes, failed, carries, held>>
      BY <1>15 DEF DeleteSG
    <2>2. csg = "none" => \A x \in Object : Clean(x)
      BY <2>1 DEF CleanInv, Clean
    <2>3. \A x \in Object : Clean(x) => Clean(x)'
      BY <2>1, CleanKept
    <2> QED
      BY <1>0, <2>1, <2>2, <2>3 DEF CleanInv
  <1>16. CASE GroupReady
    <2>1. \A x \in Object : Clean(x) => Clean(x)'
      BY <1>16, CleanKept DEF GroupReady
    <2> QED
      BY <1>0, <1>16, <2>1 DEF GroupReady, CleanInv
  <1>17. ASSUME NEW o \in Object, CreatePool(o) \/ DeleteObject(o) \/ Goes(o) PROVE CleanInv'
    <2>1. /\ UNCHANGED <<object, spec, gaveUp, csg, seen, todo, pc, deletes, failed>>
          /\ carries' \subseteq carries /\ held' \subseteq held
      BY <1>17 DEF CreatePool, DeleteObject, Goes
    <2> QED
      BY <2>1, CleanSteps DEF CleanInv
  <1>18. ASSUME NEW c \in Cluster, DeleteCluster(c) PROVE CleanInv'
    BY <1>18, CleanSteps DEF DeleteCluster, CleanInv
  <1> QED
    BY <1>1, <1>2, <1>3, <1>4, <1>5, <1>6, <1>7, <1>8, <1>9, <1>10, <1>11, <1>12, <1>13, <1>14,
       <1>15, <1>16, <1>17, <1>18
    DEF Next, Proceed, Fails, Others

\* The step that lets a SecurityGroup go.
LEMMA LetsGo ==
  ASSUME TypeOK, RunInv, CleanInv, [Next]_vars
  PROVE  GoesCleanlyStep
  <1> SUFFICES ASSUME object = "deleting", object' = "gone" PROVE
           /\ csg = "none"
           /\ ~gaveUp => \A r \in spec : Reached(r) \cap (carries \cup held) = {}
    BY DEF GoesCleanlyStep
  <1>1. pc = "save" /\ deletes /\ ~failed
    <2> USE DEF object_vars
    <2>1. CASE UNCHANGED vars
      BY <2>1 DEF vars
    <2>2. CASE Reconcile \/ CreateOrUpdateGroup \/ CheckGroup \/ GroupNotAvailable \/ GroupCallFails
      BY <2>2 DEF Reconcile, CreateOrUpdateGroup, CheckGroup, GroupNotAvailable, GroupCallFails
    <2>3. ASSUME NEW r \in Object, \/ AttachReference(r) \/ AttachUnresolved(r) \/ AttachFails(r)
                                   \/ DetachRemoved(r) \/ DetachNotFound(r) \/ DetachFails(r)
                                   \/ ReleaseReference(r) \/ SkipReference(r)
          PROVE  FALSE
      BY <2>3 DEF AttachReference, AttachUnresolved, AttachFails, DetachRemoved, DetachNotFound,
                  DetachFails, ReleaseReference, SkipReference
    <2>4. CASE ThenDetachRemoved \/ AllDetached \/ ReconcileDelete \/ DeleteGroup \/ DeleteCallFails
      BY <2>4 DEF ThenDetachRemoved, AllDetached, ReconcileDelete, DeleteGroup, DeleteCallFails
    <2>5. CASE Save \/ SaveFails
      <3>1. pc = "save" /\ object' \in {object, IF deletes /\ ~failed /\ ~conflict THEN "gone" ELSE object}
        BY <2>5, Zenon DEF Save, SaveFails, Persist
      <3>2. CASE deletes /\ ~failed /\ ~conflict
        BY <3>1, <3>2
      <3>3. CASE ~(deletes /\ ~failed /\ ~conflict)
        BY <3>1, <3>3
      <3> QED
        BY <3>2, <3>3
    <2>6. CASE Restart \/ EditSpec \/ DeleteSG \/ GroupReady
      BY <2>6 DEF Restart, EditSpec, DeleteSG, GroupReady
    <2>7. ASSUME NEW o \in Object, CreatePool(o) \/ DeleteObject(o) \/ Goes(o) PROVE FALSE
      BY <2>7 DEF CreatePool, DeleteObject, Goes
    <2>8. ASSUME NEW c \in Cluster, DeleteCluster(c) PROVE FALSE
      BY <2>8 DEF DeleteCluster
    <2> QED
      BY <2>1, <2>2, <2>3, <2>4, <2>5, <2>6, <2>7, <2>8 DEF Next, Proceed, Fails, Others
  <1> QED
    BY <1>1 DEF RunInv, CleanInv, Clean

LEMMA InitInvs == Init => RunInv /\ WorldInv /\ CleanInv
  <1> SUFFICES ASSUME Init PROVE RunInv /\ WorldInv /\ CleanInv
    OBVIOUS
  <1>1. RunInv
    BY DEF Init, RunInv
  <1>2. WorldInv
    <2>1. {KMP(p) : p \in Late} \subseteq Pools
      BY ConstantsAssumption DEF Pools
    <2>2. \A o \in {KMP(p) : p \in Late} : o.name \in Late
      BY DEF KMP
    <2> QED
      BY <2>1, <2>2, ObjectFacts DEF Init, WorldInv
  <1>3. CleanInv
    BY DEF Init, CleanInv
  <1> QED
    BY <1>1, <1>2, <1>3

\* The reconcile that lets a SecurityGroup go has deleted its Crossplane
\* SecurityGroup and left no pool or control plane that is referenced with the
\* group or the finalizer, or has logged a detach or a patch that failed.
THEOREM LeavesCleanly == Spec => GoesCleanly
  <1>1. Init => TypeOK /\ RunInv /\ WorldInv /\ CleanInv
    BY InitTypeOK, InitInvs
  <1>2. TypeOK /\ RunInv /\ WorldInv /\ CleanInv /\ [Next]_vars
            => (TypeOK /\ RunInv /\ WorldInv /\ CleanInv)'
    BY TypeOKStep, RunInvStep, WorldInvStep, CleanInvStep
  <1>3. TypeOK /\ RunInv /\ WorldInv /\ CleanInv /\ [Next]_vars => [GoesCleanlyStep]_vars
    BY LetsGo
  <1> QED
    BY <1>1, <1>2, <1>3, PTL DEF Spec, GoesCleanly

-----------------------------------------------------------------------------
(* What is recorded as applied.                                            *)

\* The pools that are due under the references of rs have the group, but for
\* those a removed reference stands for.
Given(rs) == \A r \in rs : \A o \in PoolsOf(r) \ Removed : Due(o) => o \in carries

\* The pools of the references of rs do not have it.
Taken(rs) == \A r \in rs : PoolsOf(r) \cap carries = {}

LEMMA AppliedParts ==
  AppliedIsSo <=> (pc = "save" /\ ~failed /\ ~deletes => Given(seen) /\ Taken(seenApplied \ seen))
  BY DEF AppliedIsSo, Given, Taken, Removed, Due, PoolsOf

\* Nothing else happens than that pools come and go: one that is due now was so
\* before, for the same references.
LEMMA ComesAndGoes ==
  ASSUME TypeOK, WorldInv,
         \/ \E o \in Object : CreatePool(o) \/ DeleteObject(o) \/ Goes(o)
         \/ UNCHANGED <<state, carries>>
  PROVE  /\ \A x \in Pools : Due(x)' => Due(x) /\ (x \in carries => x \in carries')
         /\ \A x \in Pools : Due(x)' => Exists(x) /\ Exists(x)'
         /\ carries' \subseteq carries
  <1> USE ObjectFacts DEF Due, Exists
  <1>0. state \in [Object -> {"absent", "live", "deleting", "gone"}]
    BY DEF TypeOK
  <1>1. CASE UNCHANGED <<state, carries>>
    BY <1>1
  <1>2. ASSUME NEW o \in Object, CreatePool(o)
        PROVE  /\ state' = [state EXCEPT ![o] = "live"] /\ carries' = carries
               /\ o.name \in Late
    BY <1>2 DEF CreatePool, WorldInv
  <1>3. ASSUME NEW o \in Object, DeleteObject(o)
        PROVE  state' = [state EXCEPT ![o] = "deleting"] /\ carries' = carries
    BY <1>3 DEF DeleteObject
  <1>4. ASSUME NEW o \in Object, Goes(o)
        PROVE  state' = [state EXCEPT ![o] = "gone"] /\ carries' = carries \ {o}
    BY <1>4 DEF Goes
  <1>5. ASSUME NEW o \in Object, CreatePool(o)
        PROVE  /\ \A x \in Pools : Due(x)' => Due(x) /\ (x \in carries => x \in carries')
               /\ \A x \in Pools : Due(x)' => Exists(x) /\ Exists(x)'
               /\ carries' \subseteq carries
    BY <1>0, <1>2, <1>5
  <1>6. ASSUME NEW o \in Object, DeleteObject(o)
        PROVE  /\ \A x \in Pools : Due(x)' => Due(x) /\ (x \in carries => x \in carries')
               /\ \A x \in Pools : Due(x)' => Exists(x) /\ Exists(x)'
               /\ carries' \subseteq carries
    BY <1>0, <1>3, <1>6
  <1>7. ASSUME NEW o \in Object, Goes(o)
        PROVE  /\ \A x \in Pools : Due(x)' => Due(x) /\ (x \in carries => x \in carries')
               /\ \A x \in Pools : Due(x)' => Exists(x) /\ Exists(x)'
               /\ carries' \subseteq carries
    BY <1>0, <1>4, <1>7
  <1> QED
    BY <1>1, <1>5, <1>6, <1>7

\* So the progress of a reconcile is kept.
LEMMA ProgressKept ==
  ASSUME TypeOK, WorldInv, UNCHANGED <<seen, seenApplied>>,
         \/ \E o \in Object : CreatePool(o) \/ DeleteObject(o) \/ Goes(o)
         \/ UNCHANGED <<state, carries>>,
         NEW rs \in SUBSET Object
  PROVE  /\ Given(rs) => Given(rs)'
         /\ Taken(rs) => Taken(rs)'
         /\ (\A r \in rs : \A o \in PoolsOf(r) : Due(o) => o \in carries)
                => (\A r \in rs : \A o \in PoolsOf(r) : Due(o) => o \in carries)'
  <1>0. carries \subseteq {o \in Pools : Exists(o)}
    BY DEF TypeOK
  <1>1. \A r \in Object : \A o \in PoolsOf(r)' : Due(o)' => o \in Pools /\ o \in PoolsOf(r)
    BY ComesAndGoes DEF PoolsOf
  <1>2. \A o \in Pools : Due(o)' /\ o \in Removed => o \in Removed'
    BY ComesAndGoes DEF Removed, PoolsOf
  <1>3. Given(rs) => Given(rs)'
    BY <1>1, <1>2, ComesAndGoes DEF Given
  <1>4. Taken(rs) => Taken(rs)'
    BY <1>0, ComesAndGoes DEF Taken, PoolsOf
  <1>5. (\A r \in rs : \A o \in PoolsOf(r) : Due(o) => o \in carries)
            => (\A r \in rs : \A o \in PoolsOf(r) : Due(o) => o \in carries)'
    BY <1>1, ComesAndGoes
  <1> QED
    BY <1>3, <1>4, <1>5

\* The references to detach are those that are removed.
LEMMA RemovedByName ==
  ASSUME TypeOK, NamesTellApart
  PROVE  RemovedRefs = seenApplied \ seen
  <1>1. seen \subseteq Object /\ seenApplied \subseteq Object
    BY ReferenceFacts DEF TypeOK
  <1>2. \A r, s \in Object : r.name = s.name => r = s
    BY DEF NamesTellApart, Object, Pools, Planes, KMP, KCP
  <1> QED
    BY <1>1, <1>2 DEF RemovedRefs

\* The first phase, for one reference.
LEMMA AttachGives ==
  ASSUME TypeOK, NEW r \in Object, AttachReference(r)
  PROVE  /\ \A x \in Pools : Due(x) /\ x \in carries => x \in carries'
         /\ \A x \in PoolsOf(r) : Due(x) => x \in carries'
         /\ UNCHANGED state
  <1>1. PICK kept \in SUBSET Released(r) :
           carries' = (carries \ (Released(r) \ kept)) \cup Attachable(r)
    BY DEF AttachReference
  <1>2. \A x \in Released(r) : state[x] = "deleting"
    BY DEF Released, Deleting
  <1>3. \A x \in PoolsOf(r) : Due(x) => x \in Attachable(r)
    BY DEF Attachable, Deleting, Due
  <1> QED
    BY <1>1, <1>2, <1>3 DEF Due, AttachReference

\* The first phase has done its part for the references it is through with.
Attaching == \A r \in seen \ todo : \A o \in PoolsOf(r) : Due(o) => o \in carries

LEMMA AttachParts ==
  AttachInv <=> /\ pc = "attach" => Attaching
                /\ pc = "detach" => Given(seen) /\ Taken(RemovedRefs \ todo)
                /\ pc = "save" /\ ~failed /\ ~deletes =>
                      Given(seen) /\ Taken(seenApplied \ seen)
  BY AppliedParts DEF AttachInv, Given, Taken, Attaching

LEMMA AttachInvStep ==
  ASSUME NamesTellApart
  PROVE  TypeOK /\ RunInv /\ WorldInv /\ AttachInv /\ [Next]_vars => AttachInv'
  <1> SUFFICES ASSUME TypeOK, RunInv, WorldInv, AttachInv, [Next]_vars PROVE AttachInv'
    OBVIOUS
  <1>b. (AttachInv <=> /\ pc = "attach" => Attaching
                       /\ pc = "detach" => Given(seen) /\ Taken(RemovedRefs \ todo)
                       /\ pc = "save" /\ ~failed /\ ~deletes =>
                             Given(seen) /\ Taken(seenApplied \ seen))'
    BY AttachParts, PTL
  <1>c. seen \subseteq Object /\ seenApplied \subseteq Object /\ RemovedRefs \subseteq Object
    BY ReferenceFacts DEF TypeOK, RemovedRefs
  <1> USE DEF object_vars, run_vars, world_vars
  <1>1. ASSUME UNCHANGED <<seen, seenApplied, todo, pc, failed, deletes>>,
               \/ \E o \in Object : CreatePool(o) \/ DeleteObject(o) \/ Goes(o)
               \/ UNCHANGED <<state, carries>>
        PROVE  AttachInv'
    <2>1. Attaching => Attaching'
      BY <1>c, <1>1, ProgressKept DEF Attaching
    <2>2. Given(seen) => Given(seen)'
      BY <1>c, <1>1, ProgressKept DEF Given
    <2>3. Taken(RemovedRefs \ todo) => Taken(RemovedRefs \ todo)'
      <3>1. RemovedRefs' = RemovedRefs
        BY <1>1 DEF RemovedRefs
      <3> QED
        BY <1>c, <1>1, <3>1, ProgressKept DEF Taken
    <2>4. Taken(seenApplied \ seen) => Taken(seenApplied \ seen)'
      BY <1>c, <1>1, ProgressKept DEF Taken
    <2> QED
      BY AttachParts, <1>b, <1>1, <2>1, <2>2, <2>3, <2>4
  <1>2. CASE UNCHANGED vars \/ EditSpec \/ DeleteSG \/ GroupReady
    BY <1>1, <1>2 DEF vars, EditSpec, DeleteSG, GroupReady
  <1>3. ASSUME NEW o \in Object, CreatePool(o) \/ DeleteObject(o) \/ Goes(o) PROVE AttachInv'
    BY <1>1, <1>3 DEF CreatePool, DeleteObject, Goes
  <1>4. ASSUME NEW c \in Cluster, DeleteCluster(c) PROVE AttachInv'
    BY <1>1, <1>4 DEF DeleteCluster
  <1>5. CASE Reconcile \/ CreateOrUpdateGroup \/ Save \/ SaveFails \/ Restart
    BY <1>b, <1>5 DEF Reconcile, CreateOrUpdateGroup, Save, SaveFails, Restart, End
  <1>6. CASE CheckGroup
    BY <1>b, <1>6 DEF CheckGroup, ReferencesToAttach, Attaching
  <1>7. CASE GroupNotAvailable \/ GroupCallFails \/ DeleteCallFails
    BY <1>b, <1>7 DEF GroupNotAvailable, GroupCallFails, DeleteCallFails, Fail
  <1>8. ASSUME NEW r \in Object, \/ AttachUnresolved(r) \/ AttachFails(r)
                                 \/ DetachNotFound(r) \/ DetachFails(r)
        PROVE  AttachInv'
    BY <1>b, <1>8 DEF AttachUnresolved, AttachFails, DetachNotFound, DetachFails, Fail
  <1>9. ASSUME NEW r \in Object, AttachReference(r) PROVE AttachInv'
    <2>1. pc = "attach" /\ pc' = "attach" /\ seen' = seen /\ todo' = todo \ {r}
      BY <1>9 DEF AttachReference
    <2>2. \A x \in Object : PoolsOf(x)' = PoolsOf(x)
      BY <1>9, AttachGives DEF PoolsOf, Exists
    <2>3. \A x : Due(x)' <=> Due(x)
      BY <1>9, AttachGives DEF Due
    <2>4. \A x \in Object : PoolsOf(x) \subseteq Pools
      BY DEF PoolsOf
    <2>5. Attaching'
      BY AttachParts, <1>c, <1>9, <2>1, <2>2, <2>3, <2>4, AttachGives DEF Attaching
    <2> QED
      BY <1>b, <2>1, <2>5
  <1>10. CASE ThenDetachRemoved
    <2>1. Given(seen)
      BY AttachParts, <1>10 DEF ThenDetachRemoved, Attaching, Given
    <2>2. Given(seen)'
      BY <1>10, <2>1 DEF ThenDetachRemoved, Given, Removed, PoolsOf, Due, Exists
    <2>3. RemovedRefs' \ todo' = {}
      BY <1>10 DEF ThenDetachRemoved, RemovedRefs
    <2> QED
      BY <1>b, <1>10, <2>2, <2>3 DEF ThenDetachRemoved, Taken
  <1>11. ASSUME NEW r \in Object, DetachRemoved(r) PROVE AttachInv'
    <2>1. /\ pc = "detach" /\ pc' = "detach" /\ todo' = todo \ {r} /\ r \in todo
          /\ UNCHANGED <<seen, seenApplied, state>> /\ carries' = carries \ PoolsOf(r)
      BY <1>11 DEF DetachRemoved
    <2>2. r \in seenApplied \ seen
      BY <2>1, RemovedByName DEF RunInv
    <2>3. PoolsOf(r) \subseteq Removed
      BY <2>2 DEF Removed
    <2>4. (\A x \in Object : PoolsOf(x)' = PoolsOf(x)) /\ Removed' = Removed /\ RemovedRefs' = RemovedRefs
      BY <2>1 DEF PoolsOf, Exists, Removed, RemovedRefs
    <2>5. \A x : Due(x)' <=> Due(x)
      BY <2>1 DEF Due
    <2>6. Given(seen)'
      BY AttachParts, <1>c, <2>1, <2>3, <2>4, <2>5 DEF Given
    <2>7. Taken(RemovedRefs \ todo)'
      BY AttachParts, <1>c, <2>1, <2>4 DEF Taken
    <2> QED
      BY <1>b, <2>1, <2>6, <2>7
  <1>12. CASE AllDetached
    <2>1. Given(seen) /\ Taken(seenApplied \ seen)
      BY AttachParts, <1>12, RemovedByName DEF AllDetached
    <2>2. Given(seen)'
      BY <1>12, <2>1 DEF AllDetached, Given, Removed, PoolsOf, Due, Exists
    <2>3. Taken(seenApplied \ seen)'
      BY <1>12, <2>1 DEF AllDetached, Taken, PoolsOf, Exists
    <2> QED
      BY <1>b, <1>12, <2>2, <2>3 DEF AllDetached
  <1>13. CASE ReconcileDelete \/ DeleteGroup
    BY <1>b, <1>13 DEF ReconcileDelete, DeleteGroup, RunInv
  <1>14. ASSUME NEW r \in Object, ReleaseReference(r) \/ SkipReference(r) PROVE AttachInv'
    BY <1>b, <1>14 DEF ReleaseReference, SkipReference
  <1> QED
    BY <1>2, <1>3, <1>4, <1>5, <1>6, <1>7, <1>8, <1>9, <1>10, <1>11, <1>12, <1>13, <1>14
    DEF Next, Proceed, Fails, Others

\* When a reconcile is about to record its references as applied, the pools they
\* stand for have the group and those that only removed references stood for do
\* not, through failed calls, edits, restarts and pools that come and go.
THEOREM AppliedHolds ==
  ASSUME NamesTellApart
  PROVE  Spec => []AppliedIsSo
  <1>1. Init => TypeOK /\ RunInv /\ WorldInv /\ AttachInv
    BY InitTypeOK, InitInvs DEF Init, AttachInv, AppliedIsSo
  <1>2. TypeOK /\ RunInv /\ WorldInv /\ AttachInv /\ [Next]_vars
            => (TypeOK /\ RunInv /\ WorldInv /\ AttachInv)'
    BY TypeOKStep, RunInvStep, WorldInvStep, AttachInvStep
  <1>3. AttachInv => AppliedIsSo
    BY DEF AttachInv
  <1> QED
    BY <1>1, <1>2, <1>3, PTL DEF Spec

=============================================================================
