-------------------------- MODULE ClusterMeshProofs --------------------------
(***************************************************************************)
(* Proofs about ClusterMesh, for all sets of clusters and meshes: type     *)
(* correctness, that no update of a ClusterMesh is lost and, with names    *)
(* apart, that a peering goes by the hand of a cluster it joins; with one  *)
(* worker, that two clusters have one peering, of members of the mesh.     *)
(***************************************************************************)
EXTENDS ClusterMesh, FiniteSetTheorems, TLAPS

-----------------------------------------------------------------------------
(* Types.                                                                  *)

UserOK ==
    /\ label \in [Cluster -> Mesh \cup {None}]
    /\ info \in [Cluster -> 1..MaxInfo]
    /\ edits \in Nat
    /\ faults \in Nat

MeshOK ==
    /\ exists \in [Mesh -> BOOLEAN]
    /\ member \in [Mesh -> [Cluster -> 0..MaxInfo]]
    /\ status \in [Mesh -> SUBSET Pair]
    /\ reported \in [Mesh -> BOOLEAN]
    /\ behind \in [Mesh -> Seq(Version)]

PeerOK ==
    /\ owner \in [Pair -> Mesh \cup {None}]
    /\ ready \in SUBSET Pair
    /\ known \in SUBSET (Pair \X Mesh \X BOOLEAN)
    /\ routes \in SUBSET (Pair \X Cluster \X (1..MaxInfo))

GroupOK ==
    /\ sg \in [Cluster -> {"none", "live", "deleting"}]
    /\ allowed \in [Cluster -> SUBSET Cluster]
    /\ sgOwners \in [Cluster -> SUBSET Mesh]

PcOK ==
    /\ pc \in [Cluster -> Step]
    /\ mesh \in [Cluster -> Mesh]
    /\ view \in [Cluster -> {"current", "old", "gone"}]
    /\ misled \in SUBSET Mesh

LocalOK ==
    /\ current \in [Cluster -> 0..MaxInfo]
    /\ mine \in [Cluster -> [Cluster -> 0..MaxInfo]]
    /\ refs \in [Cluster -> SUBSET Pair]
    /\ report \in [Cluster -> BOOLEAN]
    /\ todo \in [Cluster -> SUBSET Pair]

LEMMA TypeOKParts == TypeOK <=> UserOK /\ MeshOK /\ PeerOK /\ GroupOK /\ PcOK /\ LocalOK
  BY DEF TypeOK, UserOK, MeshOK, PeerOK, GroupOK, PcOK, LocalOK

LEMMA InitTypeOK == Init => TypeOK
  <1> SUFFICES ASSUME Init PROVE UserOK /\ MeshOK /\ PeerOK /\ GroupOK /\ PcOK /\ LocalOK
    BY TypeOKParts
  <1> USE ConstantsAssumption DEF Init, Nobody
  <1>1. UserOK /\ MeshOK
    BY DEF UserOK, MeshOK
  <1>2. PeerOK /\ GroupOK
    BY DEF PeerOK, GroupOK
  <1>3. PcOK /\ LocalOK
    BY DEF PcOK, LocalOK, Step
  <1> QED
    BY <1>1, <1>2, <1>3

\* What the API server may return of a ClusterMesh, and what a write leaves the
\* cache to be told.
LEMMA SeenOK == ASSUME MeshOK, NEW m \in Mesh PROVE Present(m) \in Version /\ Seen(m) \in Version
  <1>1. Present(m) \in Version
    BY DEF MeshOK, Present, Version
  <1>2. behind[m] \in Seq(Version)
    BY DEF MeshOK
  <1>3. behind[m] # <<>> => Head(behind[m]) \in Version
    BY <1>2
  <1> QED
    BY <1>1, <1>3 DEF Seen

LEMMA WrittenOK ==
  ASSUME MeshOK, NEW m \in Mesh, Written(m)
  PROVE  behind' \in [Mesh -> Seq(Version)]
  <1>1. Append(behind[m], Present(m)) \in Seq(Version)
    BY SeenOK DEF MeshOK
  <1> QED
    BY <1>1 DEF Written, MeshOK

LEMMA MisledOK ==
  ASSUME PcOK, NEW m \in Mesh, NEW b, Misled(m, b)
  PROVE  misled' \in SUBSET Mesh
  BY DEF Misled, PcOK

\* The cache is told of what the others did, and changes nothing itself.
LEMMA CacheChanges ==
  ASSUME Cache
  PROVE  UNCHANGED <<user_vars, exists, member, status, reported, owner, ready, routes, sg_vars,
                     run_vars, pc, view, misled, edits, faults>>
  BY DEF Cache, MeshSeen, PeeringsSeen, mesh_vars, peer_vars

\* The steps of a reconcile that change its locals and nothing else.
Locals(c) ==
    \/ Start(c) \/ ReconcileOutsider(c)
    \/ GetMesh(c) \/ ListPeerings(c) \/ PeeringsDone(c) \/ ListForRoutes(c) \/ Validate(c)
    \/ GetMeshToLeave(c) \/ LeaveMesh(c)

LEMMA LocalsChange ==
  ASSUME NEW c \in Cluster, Locals(c)
  PROVE  UNCHANGED <<user_vars, mesh_vars, peer_vars, sg_vars, edits, faults>>
  BY DEF Locals, Start, Reconcile, ReconcileRemoved, ReconcileOutsider, GetMesh, ListPeerings,
         PeeringsDone, ListForRoutes, Validate, GetMeshToLeave, LeaveMesh, vars

LEMMA UserOKStep == TypeOK /\ [Next]_vars => UserOK'
  <1> SUFFICES ASSUME TypeOK, [Next]_vars PROVE UserOK'
    OBVIOUS
  <1>0. UserOK
    BY TypeOKParts
  <1> USE <1>0, ConstantsAssumption DEF UserOK, user_vars
  <1>1. CASE UNCHANGED vars
    BY <1>1 DEF vars
  <1>2. ASSUME NEW c \in Cluster, Locals(c) PROVE UserOK'
    BY <1>2, LocalsChange
  <1>3. ASSUME NEW c \in Cluster, \/ CreateMesh(c) \/ Join(c) \/ WriteGroup(c) \/ OwnGroup(c)
                                  \/ DeleteGroup(c) \/ DeleteMesh(c) \/ Patch(c) \/ UpdateStatus(c)
        PROVE  UserOK'
    BY <1>3 DEF CreateMesh, Join, WriteGroup, OwnGroup, DeleteGroup, DeleteMesh, Patch, UpdateStatus
  <1>4. ASSUME NEW c \in Cluster, NEW p \in Pair,
               CreatePeering(c, p) \/ ManageRoutes(c, p) \/ DeletePeering(c, p)
        PROVE  UserOK'
    BY <1>4 DEF CreatePeering, ManageRoutes, DeletePeering
  <1>5. ASSUME NEW c \in Cluster, CallFails(c) PROVE UserOK'
    BY <1>5 DEF CallFails, Fault
  <1>6. ASSUME NEW c \in Cluster, User(c) PROVE UserOK'
    BY <1>6 DEF User, Relabel, AddRouteTable
  <1>7. CASE Crossplane \/ Restart \/ Cache
    BY <1>7, CacheChanges DEF Crossplane, PeeringReady, GroupGone, Restart, Fault
  <1> QED
    BY <1>1, <1>2, <1>3, <1>4, <1>5, <1>6, <1>7 DEF Next, Proceed, Locals

LEMMA MeshOKStep == TypeOK /\ [Next]_vars => MeshOK'
  <1> SUFFICES ASSUME TypeOK, [Next]_vars PROVE MeshOK'
    OBVIOUS
  <1>0. MeshOK /\ PcOK /\ LocalOK
    BY TypeOKParts
  <1> USE <1>0, ConstantsAssumption DEF MeshOK, PcOK, LocalOK, mesh_vars
  <1>1. CASE UNCHANGED vars
    BY <1>1 DEF vars
  <1>2. ASSUME NEW c \in Cluster, Locals(c) PROVE MeshOK'
    BY <1>2, LocalsChange
  <1>3. ASSUME NEW c \in Cluster, WriteGroup(c) \/ OwnGroup(c) \/ DeleteGroup(c)
        PROVE  MeshOK'
    BY <1>3 DEF WriteGroup, OwnGroup, DeleteGroup
  <1>4. ASSUME NEW c \in Cluster, NEW p \in Pair,
               CreatePeering(c, p) \/ ManageRoutes(c, p) \/ DeletePeering(c, p)
        PROVE  MeshOK'
    BY <1>4 DEF CreatePeering, ManageRoutes, DeletePeering
  <1>5. ASSUME NEW c \in Cluster, CallFails(c) \/ User(c) PROVE MeshOK'
    BY <1>5 DEF CallFails, User, Relabel, AddRouteTable
  <1>6. CASE Crossplane \/ Restart \/ PeeringsSeen
    BY <1>6 DEF Crossplane, PeeringReady, GroupGone, Restart, PeeringsSeen
  <1>7. ASSUME NEW c \in Cluster, CreateMesh(c) PROVE MeshOK'
    <2>1. behind' = behind \/ Written(mesh[c])
      BY <1>7 DEF CreateMesh
    <2>2. behind' \in [Mesh -> Seq(Version)]
      BY <2>1, WrittenOK
    <2> QED
      <3>1. UNCHANGED <<status, reported>>
        BY <1>7 DEF CreateMesh
      <3>2. \/ UNCHANGED <<exists, member>>
            \/ /\ exists' = [exists EXCEPT ![mesh[c]] = TRUE]
               /\ member' = [member EXCEPT ![mesh[c]] = [Nobody EXCEPT ![c] = current[c]]]
        BY <1>7 DEF CreateMesh
      <3>3. [Nobody EXCEPT ![c] = current[c]] \in [Cluster -> 0..MaxInfo]
        BY DEF Nobody
      <3>4. exists' \in [Mesh -> BOOLEAN]
        BY <3>2
      <3>5. member' \in [Mesh -> [Cluster -> 0..MaxInfo]]
        <4> DEFINE first == [Nobody EXCEPT ![c] = current[c]]
        <4> HIDE DEF first
        <4> QED
          BY <3>2, <3>3 DEF first
      <3> QED
        BY <2>2, <3>1, <3>4, <3>5
  <1>8. ASSUME NEW c \in Cluster, Join(c) \/ Patch(c) PROVE MeshOK'
    <2>1. behind' = behind \/ Written(mesh[c])
      BY <1>8 DEF Join, Patch
    <2>2. behind' \in [Mesh -> Seq(Version)]
      BY <2>1, WrittenOK
    <2> QED
      BY <1>8, <2>2 DEF Join, Patch
  <1>9. ASSUME NEW c \in Cluster, DeleteMesh(c) PROVE MeshOK'
    <2>1. behind' = behind \/ Written(mesh[c])
      BY <1>9 DEF DeleteMesh
    <2>2. behind' \in [Mesh -> Seq(Version)]
      BY <2>1, WrittenOK
    <2> QED
      <3>1. \/ UNCHANGED <<exists, member>>
            \/ /\ exists' = [exists EXCEPT ![mesh[c]] = FALSE]
               /\ member' = [member EXCEPT ![mesh[c]] = Nobody]
        BY <1>9 DEF DeleteMesh
      <3>2. exists' \in [Mesh -> BOOLEAN]
        BY <3>1
      <3>3. Nobody \in [Cluster -> 0..MaxInfo]
        BY DEF Nobody
      <3>4. member' \in [Mesh -> [Cluster -> 0..MaxInfo]]
        BY <3>1, <3>3
      <3>5. status' \in [Mesh -> SUBSET Pair] /\ reported' \in [Mesh -> BOOLEAN]
        BY <1>9 DEF DeleteMesh
      <3> QED
        BY <2>2, <3>2, <3>4, <3>5
  <1>10. ASSUME NEW c \in Cluster, UpdateStatus(c) PROVE MeshOK'
    <2>1. UNCHANGED <<exists, member>> /\ (behind' = behind \/ Written(mesh[c]))
      BY <1>10 DEF UpdateStatus
    <2>2. status' = status \/ status' = [status EXCEPT ![mesh[c]] = refs[c]]
      BY <1>10 DEF UpdateStatus
    <2>3. reported' = reported \/ reported' = [reported EXCEPT ![mesh[c]] = report[c]]
      BY <1>10 DEF UpdateStatus
    <2>4. behind' \in [Mesh -> Seq(Version)]
      BY <2>1, WrittenOK
    <2>5. status' \in [Mesh -> SUBSET Pair]
      BY <2>2
    <2>6. reported' \in [Mesh -> BOOLEAN]
      BY <2>3
    <2> QED
      BY <2>1, <2>4, <2>5, <2>6
  <1>11. ASSUME NEW m \in Mesh, MeshSeen(m) PROVE MeshOK'
    <2>1. behind[m] \in Seq(Version) /\ behind[m] # <<>>
      BY <1>11 DEF MeshSeen
    <2>2. Tail(behind[m]) \in Seq(Version)
      BY <2>1
    <2> QED
      BY <1>11, <2>2 DEF MeshSeen
  <1> QED
    BY <1>1, <1>2, <1>3, <1>4, <1>5, <1>6, <1>7, <1>8, <1>9, <1>10, <1>11
    DEF Next, Proceed, Locals, Cache

LEMMA PeerOKStep == TypeOK /\ [Next]_vars => PeerOK'
  <1> SUFFICES ASSUME TypeOK, [Next]_vars PROVE PeerOK'
    OBVIOUS
  <1>0. PeerOK /\ PcOK /\ LocalOK
    BY TypeOKParts
  <1> USE <1>0, ConstantsAssumption DEF PeerOK, PcOK, LocalOK, peer_vars
  <1>1. CASE UNCHANGED vars
    BY <1>1 DEF vars
  <1>2. ASSUME NEW c \in Cluster, Locals(c) PROVE PeerOK'
    BY <1>2, LocalsChange
  <1>3. ASSUME NEW c \in Cluster, \/ CreateMesh(c) \/ Join(c) \/ WriteGroup(c) \/ OwnGroup(c)
                                  \/ DeleteGroup(c) \/ Patch(c) \/ UpdateStatus(c)
        PROVE  PeerOK'
    BY <1>3 DEF CreateMesh, Join, WriteGroup, OwnGroup, DeleteGroup, Patch, UpdateStatus
  <1>4. ASSUME NEW c \in Cluster, NEW p \in Pair, CreatePeering(c, p) PROVE PeerOK'
    BY <1>4 DEF CreatePeering, NewPeering
  <1>5. ASSUME NEW c \in Cluster, NEW p \in Pair, ManageRoutes(c, p) PROVE PeerOK'
    <2>1. RoutesOver(p, c, current[c]) \subseteq Pair \X Cluster \X (1..MaxInfo)
      BY DEF RoutesOver
    <2> QED
      BY <1>5, <2>1 DEF ManageRoutes, MissingRoutes
  <1>6. ASSUME NEW c \in Cluster, NEW p \in Pair, DeletePeering(c, p) PROVE PeerOK'
    BY <1>6 DEF DeletePeering, Remove
  <1>7. ASSUME NEW c \in Cluster, DeleteMesh(c) PROVE PeerOK'
    BY <1>7 DEF DeleteMesh, Remove
  <1>8. ASSUME NEW c \in Cluster, CallFails(c) \/ User(c) PROVE PeerOK'
    BY <1>8 DEF CallFails, User, Relabel, AddRouteTable
  <1>9. CASE Crossplane \/ Restart
    BY <1>9 DEF Crossplane, PeeringReady, GroupGone, Restart, Peerings
  <1>10. CASE Cache
    <2>1. \A p \in Peerings : owner[p] \in Mesh /\ ReadyAndSynced(p) \in BOOLEAN
      BY DEF Peerings, ReadyAndSynced
    <2>2. Listing \subseteq Pair \X Mesh \X BOOLEAN
      BY <2>1 DEF Listing, Peerings
    <2>3. known' = known \/ known' = Listing
      BY <1>10 DEF Cache, MeshSeen, PeeringsSeen
    <2> QED
      BY <1>10, <2>2, <2>3, CacheChanges
  <1> QED
    BY <1>1, <1>2, <1>3, <1>4, <1>5, <1>6, <1>7, <1>8, <1>9, <1>10 DEF Next, Proceed, Locals

LEMMA GroupOKStep == TypeOK /\ [Next]_vars => GroupOK'
  <1> SUFFICES ASSUME TypeOK, [Next]_vars PROVE GroupOK'
    OBVIOUS
  <1>0. GroupOK /\ PcOK /\ LocalOK
    BY TypeOKParts
  <1> USE <1>0, ConstantsAssumption DEF GroupOK, PcOK, LocalOK, sg_vars
  <1>1. CASE UNCHANGED vars
    BY <1>1 DEF vars
  <1>2. ASSUME NEW c \in Cluster, Locals(c) PROVE GroupOK'
    BY <1>2, LocalsChange
  <1>3. ASSUME NEW c \in Cluster, CreateMesh(c) \/ Join(c) \/ Patch(c) \/ UpdateStatus(c)
        PROVE  GroupOK'
    BY <1>3 DEF CreateMesh, Join, Patch, UpdateStatus
  <1>4. ASSUME NEW c \in Cluster, NEW p \in Pair,
               CreatePeering(c, p) \/ ManageRoutes(c, p) \/ DeletePeering(c, p)
        PROVE  GroupOK'
    BY <1>4 DEF CreatePeering, ManageRoutes, DeletePeering
  <1>5. ASSUME NEW c \in Cluster, WriteGroup(c) PROVE GroupOK'
    BY <1>5 DEF WriteGroup, Members
  <1>6. ASSUME NEW c \in Cluster, OwnGroup(c) PROVE GroupOK'
    BY <1>6 DEF OwnGroup
  <1>7. ASSUME NEW c \in Cluster, DeleteGroup(c) \/ GroupGone(c) PROVE GroupOK'
    <2>1. CASE DeleteGroup(c)
      BY <2>1 DEF DeleteGroup
    <2>2. CASE GroupGone(c)
      BY <2>2 DEF GroupGone
    <2> QED
      BY <1>7, <2>1, <2>2
  <1>8. ASSUME NEW c \in Cluster, DeleteMesh(c) PROVE GroupOK'
    <2>1. \/ UNCHANGED <<sg, sgOwners>>
          \/ /\ sg' = [d \in Cluster |-> IF sgOwners[d] = {mesh[c]} THEN "deleting" ELSE sg[d]]
             /\ sgOwners' = [d \in Cluster |-> sgOwners[d] \ {mesh[c]}]
      BY <1>8 DEF DeleteMesh
    <2>2. UNCHANGED allowed
      BY <1>8 DEF DeleteMesh
    <2> QED
      BY <2>1, <2>2
  <1>9. ASSUME NEW c \in Cluster, CallFails(c) \/ User(c) PROVE GroupOK'
    BY <1>9 DEF CallFails, User, Relabel, AddRouteTable
  <1>10. CASE (\E p \in Pair : PeeringReady(p)) \/ Restart \/ Cache
    BY <1>10, CacheChanges DEF PeeringReady, Restart
  <1> QED
    BY <1>1, <1>2, <1>3, <1>4, <1>5, <1>6, <1>7, <1>8, <1>9, <1>10
    DEF Next, Proceed, Locals, Crossplane

LEMMA TouchedOK ==
  ASSUME PcOK, NEW c \in Cluster, NEW m \in Mesh, Touched(c, m)
  PROVE  view' \in [Cluster -> {"current", "old", "gone"}]
  BY DEF PcOK, Touched

LEMMA ForgetOK == ASSUME LocalOK, NEW c \in Cluster, Forget(c) PROVE LocalOK'
  <1> USE ConstantsAssumption DEF LocalOK, Forget, Nobody
  <1>1. 0 \in 0..MaxInfo /\ [d \in Cluster |-> 0] \in [Cluster -> 0..MaxInfo]
    OBVIOUS
  <1>2. current' \in [Cluster -> 0..MaxInfo] /\ refs' \in [Cluster -> SUBSET Pair]
    BY <1>1
  <1>3. mine' \in [Cluster -> [Cluster -> 0..MaxInfo]] /\ todo' \in [Cluster -> SUBSET Pair]
    BY <1>1
  <1> QED
    BY <1>2, <1>3

\* The steps of a reconcile move its own pc, to a step there is, or leave it.
Moves(c) == pc' = pc \/ \E s \in Step : pc' = [pc EXCEPT ![c] = s]

LEMMA PcMoves ==
  ASSUME TypeOK, NEW c \in Cluster, Start(c) \/ Proceed(c) \/ CallFails(c)
  PROVE  Moves(c)
  <1> USE DEF Moves, Step
  <1>1. CASE Start(c)
    BY <1>1 DEF Start, Reconcile, ReconcileRemoved
  <1>2. CASE GetMesh(c) \/ CreateMesh(c) \/ Join(c) \/ ListPeerings(c)
    BY <1>2 DEF GetMesh, CreateMesh, Join, ListPeerings
  <1>3. ASSUME NEW p \in Pair, CreatePeering(c, p) \/ ManageRoutes(c, p) \/ DeletePeering(c, p)
        PROVE  Moves(c)
    BY <1>3 DEF CreatePeering, ManageRoutes, DeletePeering
  <1>4. CASE PeeringsDone(c) \/ WriteGroup(c) \/ OwnGroup(c) \/ ListForRoutes(c) \/ Validate(c)
    BY <1>4 DEF PeeringsDone, WriteGroup, OwnGroup, ListForRoutes, Validate
  <1>5. CASE GetMeshToLeave(c) \/ DeleteGroup(c) \/ LeaveMesh(c) \/ DeleteMesh(c)
    BY <1>5 DEF GetMeshToLeave, DeleteGroup, LeaveMesh, DeleteMesh
  <1>6. CASE Patch(c) \/ UpdateStatus(c)
    BY <1>6 DEF Patch, UpdateStatus
  <1>7. CASE CallFails(c)
    BY <1>7 DEF CallFails, Deferred
  <1> QED
    BY <1>1, <1>2, <1>3, <1>4, <1>5, <1>6, <1>7 DEF Proceed

LEMMA PcOKStep == TypeOK /\ [Next]_vars => PcOK'
  <1> SUFFICES ASSUME TypeOK, [Next]_vars PROVE PcOK'
    OBVIOUS
  <1>0. PcOK
    BY TypeOKParts
  <1>1. CASE UNCHANGED vars
    BY <1>0, <1>1 DEF PcOK, vars, run_vars
  <1>2. ASSUME NEW c \in Cluster, Moves(c), mesh' = mesh, misled' \in SUBSET Mesh,
               view' \in [Cluster -> {"current", "old", "gone"}]
        PROVE  PcOK'
    BY <1>0, <1>2 DEF Moves, PcOK
  <1>3. ASSUME NEW c \in Cluster, Start(c) PROVE PcOK'
    <2>1. Moves(c) /\ view' = view /\ misled' = misled
      BY <1>3, PcMoves DEF Start, Reconcile, ReconcileRemoved
    <2>2. \E m \in Mesh : mesh' = [mesh EXCEPT ![c] = m]
      BY <1>3, TypeOKParts DEF Start, Reconcile, ReconcileRemoved, ClusterMeshEnabled, UserOK
    <2> QED
      BY <1>0, <2>1, <2>2 DEF Moves, PcOK
  <1>4. ASSUME NEW c \in Cluster, \/ CreateMesh(c) \/ ListPeerings(c)
                                  \/ PeeringsDone(c) \/ WriteGroup(c) \/ OwnGroup(c)
                                  \/ ListForRoutes(c) \/ Validate(c)
                                  \/ DeleteGroup(c) \/ LeaveMesh(c)
        PROVE  PcOK'
    <2>1. mesh' = mesh /\ view' = view
      BY <1>4 DEF CreateMesh, ListPeerings, PeeringsDone, WriteGroup, OwnGroup,
                  ListForRoutes, Validate, DeleteGroup, LeaveMesh, run_vars
    <2>2. misled' = misled \/ \E b \in BOOLEAN : Misled(mesh[c], b)
      BY <1>4 DEF CreateMesh, ListPeerings, PeeringsDone, WriteGroup, OwnGroup,
                  ListForRoutes, Validate, DeleteGroup, LeaveMesh
    <2>3. misled' \in SUBSET Mesh
      BY <1>0, <2>2, MisledOK DEF PcOK
    <2> QED
      BY <1>0, <1>2, <1>4, <2>1, <2>3, PcMoves DEF Proceed, PcOK
  <1>5. ASSUME NEW c \in Cluster, NEW p \in Pair,
               CreatePeering(c, p) \/ ManageRoutes(c, p) \/ DeletePeering(c, p)
        PROVE  PcOK'
    <2>1. UNCHANGED <<pc, mesh, view>>
      BY <1>5 DEF CreatePeering, ManageRoutes, DeletePeering
    <2>2. misled' = misled \/ \E b \in BOOLEAN : Misled(mesh[c], b)
      BY <1>5 DEF CreatePeering, ManageRoutes, DeletePeering
    <2> QED
      BY <1>0, <2>1, <2>2, MisledOK DEF PcOK
  <1>6. ASSUME NEW c \in Cluster, Join(c) \/ Patch(c) \/ UpdateStatus(c) PROVE PcOK'
    <2>1. mesh' = mesh /\ misled' \in SUBSET Mesh
      BY <1>0, <1>6 DEF Join, Patch, UpdateStatus, run_vars, PcOK
    <2>2. \/ view' = view
          \/ view' = [view EXCEPT ![c] = "current"]
          \/ Touched(c, mesh[c])
      BY <1>6 DEF Join, Patch, UpdateStatus
    <2>3. view' \in [Cluster -> {"current", "old", "gone"}]
      <3>1. mesh[c] \in Mesh
        BY <1>0 DEF PcOK
      <3>2. CASE Touched(c, mesh[c])
        BY <1>0, <3>1, <3>2, TouchedOK
      <3> QED
        BY <1>0, <2>2, <3>2 DEF PcOK
    <2> QED
      BY <1>2, <1>6, <2>1, <2>3, PcMoves DEF Proceed
  <1>7. ASSUME NEW c \in Cluster, DeleteMesh(c) PROVE PcOK'
    <2>1. mesh' = mesh /\ \E b \in BOOLEAN : Misled(mesh[c], b)
      BY <1>7 DEF DeleteMesh
    <2>2. misled' \in SUBSET Mesh
      BY <1>0, <2>1, MisledOK DEF PcOK
    <2>3. view' \in [Cluster -> {"current", "old", "gone"}]
      BY <1>0, <1>7 DEF DeleteMesh, PcOK
    <2> QED
      BY <1>2, <1>7, <2>1, <2>2, <2>3, PcMoves DEF Proceed
  <1>8. ASSUME NEW c \in Cluster, CallFails(c) PROVE PcOK'
    <2>1. /\ UNCHANGED <<mesh, misled>>
          /\ view' = view \/ view' = [view EXCEPT ![c] = "current"]
      BY <1>8 DEF CallFails
    <2> QED
      BY <1>0, <1>2, <1>8, <2>1, PcMoves DEF PcOK
  <1>9. CASE Restart
    BY <1>0, <1>9 DEF Restart, PcOK, Step
  <1>10. ASSUME NEW c \in Cluster, User(c) \/ ReconcileOutsider(c) PROVE PcOK'
    BY <1>0, <1>1, <1>10 DEF User, Relabel, AddRouteTable, ReconcileOutsider, PcOK, run_vars
  <1>11. CASE Crossplane \/ Cache
    BY <1>0, <1>11, CacheChanges DEF Crossplane, PeeringReady, GroupGone, PcOK, run_vars
  <1>12. ASSUME NEW c \in Cluster, GetMesh(c) \/ GetMeshToLeave(c) PROVE PcOK'
    <2>1. /\ UNCHANGED <<mesh, misled>>
          /\ view' = view \/ view' = [view EXCEPT ![c] = ViewOf(mesh[c])]
      BY <1>12 DEF GetMesh, GetMeshToLeave, Take
    <2>2. ViewOf(mesh[c]) \in {"current", "old", "gone"}
      BY DEF ViewOf
    <2>3. view' \in [Cluster -> {"current", "old", "gone"}] /\ misled' \in SUBSET Mesh
      BY <1>0, <2>1, <2>2 DEF PcOK
    <2> QED
      BY <1>2, <1>12, <2>1, <2>3, PcMoves DEF Proceed
  <1> QED
    BY <1>1, <1>3, <1>4, <1>5, <1>6, <1>7, <1>8, <1>9, <1>10, <1>11, <1>12 DEF Next, Proceed

LEMMA LocalOKStep == TypeOK /\ [Next]_vars => LocalOK'
  <1> SUFFICES ASSUME TypeOK, [Next]_vars PROVE LocalOK'
    OBVIOUS
  <1>0. LocalOK /\ PcOK /\ MeshOK /\ UserOK
    BY TypeOKParts
  <1>1. CASE UNCHANGED <<current, mine, refs, report, todo>>
    BY <1>0, <1>1 DEF LocalOK
  <1>2. ASSUME NEW c \in Cluster, Start(c) PROVE LocalOK'
    <2>1. UNCHANGED <<mine, refs, report, todo>>
      BY <1>2 DEF Start, Reconcile, ReconcileRemoved
    <2>2. current' = current \/ current' = [current EXCEPT ![c] = info[c]]
      BY <1>2 DEF Start, Reconcile, ReconcileRemoved, PopulateClusterSpec
    <2>3. info[c] \in 0..MaxInfo
      BY <1>0, ConstantsAssumption DEF UserOK
    <2> QED
      BY <1>0, <2>1, <2>2, <2>3 DEF LocalOK
  <1>3. ASSUME NEW c \in Cluster, GetMesh(c) PROVE LocalOK'
    <2>1. PICK read \in Version : read = Seen(mesh[c])
      BY <1>0, SeenOK DEF PcOK
    <2>2. /\ read.member \in [Cluster -> 0..MaxInfo]
          /\ read.status \in SUBSET Pair
          /\ read.reported \in BOOLEAN
      BY DEF Version
    <2>3. [read.member EXCEPT ![c] = current[c]] \in [Cluster -> 0..MaxInfo]
      BY <1>0, <2>2 DEF LocalOK
    <2>4. UNCHANGED <<current, todo>>
      BY <1>3 DEF GetMesh
    <2>5. /\ refs' = refs \/ refs' = [refs EXCEPT ![c] = read.status]
          /\ report' = report \/ report' = [report EXCEPT ![c] = read.reported]
      BY <1>3, <2>1 DEF GetMesh, Take
    <2>6. \/ mine' = mine
          \/ mine' = [mine EXCEPT ![c] = read.member]
          \/ mine' = [mine EXCEPT ![c] = [read.member EXCEPT ![c] = current[c]]]
      BY <1>3, <2>1 DEF GetMesh
    <2>7. mine' \in [Cluster -> [Cluster -> 0..MaxInfo]]
      BY <1>0, <2>2, <2>3, <2>6 DEF LocalOK
    <2> QED
      BY <1>0, <2>2, <2>4, <2>5, <2>7 DEF LocalOK
  <1>4. ASSUME NEW c \in Cluster, \/ CreateMesh(c) \/ UpdateStatus(c) \/ DeleteMesh(c)
        PROVE  LocalOK'
    BY <1>0, <1>4, ForgetOK DEF CreateMesh, UpdateStatus, DeleteMesh
  <1>5. ASSUME NEW c \in Cluster, ListPeerings(c) PROVE LocalOK'
    <2>1. Owned(mesh[c]) \in SUBSET Pair
      BY DEF Owned
    <2>2. PICK ps \in SUBSET Pair : todo' = [todo EXCEPT ![c] = ps]
      BY <1>5 DEF ListPeerings, Pair, Members
    <2>3. refs' = [refs EXCEPT ![c] = Owned(mesh[c])] /\ UNCHANGED <<current, mine, report>>
      BY <1>5 DEF ListPeerings
    <2> QED
      BY <1>0, <2>1, <2>2, <2>3 DEF LocalOK
  <1>6. ASSUME NEW c \in Cluster, NEW p \in Pair,
               CreatePeering(c, p) \/ ManageRoutes(c, p) \/ DeletePeering(c, p)
        PROVE  LocalOK'
    <2>1. UNCHANGED <<current, mine, report>> /\ todo' = [todo EXCEPT ![c] = todo[c] \ {p}]
      BY <1>0, <1>6 DEF CreatePeering, ManageRoutes, DeletePeering, LocalOK
    <2>2. \E ps \in {refs[c], refs[c] \cup {p}, refs[c] \ {p}} : refs' = [refs EXCEPT ![c] = ps]
      BY <1>0, <1>6 DEF CreatePeering, ManageRoutes, DeletePeering, LocalOK
    <2>3. todo[c] \ {p} \in SUBSET Pair /\ \A ps \in {refs[c], refs[c] \cup {p}, refs[c] \ {p}} : ps \in SUBSET Pair
      BY <1>0 DEF LocalOK
    <2> QED
      BY <1>0, <2>1, <2>2, <2>3 DEF LocalOK
  <1>7. ASSUME NEW c \in Cluster, \/ Join(c) \/ PeeringsDone(c) \/ WriteGroup(c) \/ OwnGroup(c)
                                  \/ Patch(c) \/ User(c)
        PROVE  LocalOK'
    BY <1>1, <1>7 DEF Join, PeeringsDone, WriteGroup, OwnGroup, Patch, User, Relabel,
                      AddRouteTable, run_vars
  <1>8. ASSUME NEW c \in Cluster, ListForRoutes(c) PROVE LocalOK'
    <2>1. PICK reached \in SUBSET Pair : todo' = [todo EXCEPT ![c] = reached]
      BY <1>8 DEF ListForRoutes, OwnedReady
    <2>2. UNCHANGED <<current, mine, refs, report>>
      BY <1>8 DEF ListForRoutes
    <2> QED
      BY <1>0, <2>1, <2>2 DEF LocalOK
  <1>9. ASSUME NEW c \in Cluster, GetMeshToLeave(c) PROVE LocalOK'
    <2>1. PICK read \in Version : read = Seen(mesh[c])
      BY <1>0, SeenOK DEF PcOK
    <2>2. /\ read.member \in [Cluster -> 0..MaxInfo]
          /\ read.status \in SUBSET Pair
          /\ read.reported \in BOOLEAN
      BY DEF Version
    <2>3. UNCHANGED <<current, todo>>
      BY <1>9 DEF GetMeshToLeave
    <2>4. /\ refs' = refs \/ refs' = [refs EXCEPT ![c] = read.status]
          /\ report' = report \/ report' = [report EXCEPT ![c] = read.reported]
          /\ mine' = mine \/ mine' = [mine EXCEPT ![c] = read.member]
      BY <1>9, <2>1 DEF GetMeshToLeave, Take
    <2> QED
      BY <1>0, <2>2, <2>3, <2>4 DEF LocalOK
  <1>10. ASSUME NEW c \in Cluster, DeleteGroup(c) PROVE LocalOK'
    <2>1. Named(c, refs[c]) \in SUBSET Pair
      BY <1>0 DEF Named, LocalOK
    <2> QED
      BY <1>0, <1>10, <2>1 DEF DeleteGroup, LocalOK
  <1>11. ASSUME NEW c \in Cluster, LeaveMesh(c) PROVE LocalOK'
    <2>1. UNCHANGED <<current, refs, report, todo>>
      BY <1>11 DEF LeaveMesh
    <2>2. mine' = [mine EXCEPT ![c] = [mine[c] EXCEPT ![c] = 0]]
      BY <1>0, <1>11 DEF LeaveMesh, LocalOK
    <2>3. [mine[c] EXCEPT ![c] = 0] \in [Cluster -> 0..MaxInfo]
      BY <1>0, ConstantsAssumption DEF LocalOK
    <2> QED
      BY <1>0, <2>1, <2>2, <2>3 DEF LocalOK
  <1>12. ASSUME NEW c \in Cluster, CallFails(c) PROVE LocalOK'
    <2>1. Forget(c) \/ UNCHANGED <<current, mine, refs, report, todo>>
      BY <1>12 DEF CallFails
    <2> QED
      BY <1>0, <1>1, <2>1, ForgetOK
  <1>13. CASE Restart
    BY <1>0, <1>13, ConstantsAssumption DEF Restart, Nobody, LocalOK
  <1>14. CASE Crossplane \/ Cache \/ UNCHANGED vars
    BY <1>1, <1>14, CacheChanges DEF Crossplane, PeeringReady, GroupGone, vars, run_vars
  <1>15. ASSUME NEW c \in Cluster, ReconcileOutsider(c) PROVE LocalOK'
    BY <1>14, <1>15 DEF ReconcileOutsider
  <1>16. ASSUME NEW c \in Cluster, Validate(c) PROVE LocalOK'
    <2>1. UNCHANGED <<current, mine, refs, todo>>
      BY <1>16 DEF Validate
    <2>2. PICK b \in BOOLEAN : report' = [report EXCEPT ![c] = b]
      <3>1. report[c] \in BOOLEAN
        BY <1>0 DEF LocalOK
      <3>2. AllReady(mesh[c]) \in BOOLEAN
        BY DEF AllReady
      <3> QED
        BY <1>16, <3>1, <3>2 DEF Validate
    <2> QED
      BY <1>0, <2>1, <2>2 DEF LocalOK
  <1> QED
    BY <1>2, <1>3, <1>4, <1>5, <1>6, <1>7, <1>8, <1>9, <1>10, <1>11, <1>12, <1>13, <1>14, <1>15, <1>16
    DEF Next, Proceed

LEMMA TypeOKStep == TypeOK /\ [Next]_vars => TypeOK'
  <1> SUFFICES ASSUME TypeOK, [Next]_vars
               PROVE  (UserOK /\ MeshOK /\ PeerOK /\ GroupOK /\ PcOK /\ LocalOK)'
    BY TypeOKParts, PTL
  <1> QED
    BY UserOKStep, MeshOKStep, PeerOKStep, GroupOKStep, PcOKStep, LocalOKStep

\* Every reachable state is well typed.
THEOREM TypeCorrect == Spec => []TypeOK
  BY InitTypeOK, TypeOKStep, PTL DEF Spec

-----------------------------------------------------------------------------
(* No lost update, for any number of workers and any cache.                *)

NotReading == {"idle", "get", "create", "leave"}

\* What the resource version vouches for: a copy that no write has made old
\* differs from the ClusterMesh in the entry of its reader alone.
Fresh(c) ==
    IF pc[c] \in NotReading
    THEN view[c] = "current" /\ mine[c] = Nobody
    ELSE view[c] = "current" =>
            /\ exists[mesh[c]]
            /\ \A d \in Cluster \ {c} : mine[c][d] = member[mesh[c]][d]

ReadInv == \A c \in Cluster : Fresh(c)

LEMMA ReadInvInit == Init => ReadInv
  BY DEF Init, ReadInv, Fresh, NotReading

\* A step that leaves the meshes and the views alone keeps the copies of the
\* clusters whose reconcile it is not.
LEMMA OthersFresh ==
  ASSUME TypeOK, ReadInv, NEW c \in Cluster, Moves(c), UNCHANGED <<exists, member>>,
         \A d \in Cluster \ {c} : view'[d] = view[d] /\ mesh'[d] = mesh[d] /\ mine'[d] = mine[d]
  PROVE  \A d \in Cluster \ {c} : Fresh(d)'
  <1> SUFFICES ASSUME NEW d \in Cluster \ {c} PROVE Fresh(d)'
    OBVIOUS
  <1>1. pc'[d] = pc[d]
    BY TypeOKParts DEF Moves, PcOK
  <1> QED
    BY <1>1 DEF ReadInv, Fresh

\* One that the reconcile of c takes between two calls keeps its own copy.
LEMMA SameCopyFresh ==
  ASSUME TypeOK, ReadInv, NEW c \in Cluster, Moves(c), UNCHANGED <<exists, member, mesh, mine, view>>,
         pc[c] \in NotReading <=> pc'[c] \in NotReading
  PROVE  ReadInv'
  <1>1. \A d \in Cluster \ {c} : Fresh(d)'
    BY OthersFresh
  <1>2. Fresh(c)'
    BY DEF ReadInv, Fresh
  <1> QED
    BY <1>1, <1>2 DEF ReadInv

\* A write by c to its mesh makes every other copy of it old.
LEMMA WriteFresh ==
  ASSUME TypeOK, ReadInv, NEW c \in Cluster, pc[c] \notin NotReading, view[c] = "current",
         Moves(c), Touched(c, mesh[c]), UNCHANGED <<exists, mesh>>,
         \A m \in Mesh \ {mesh[c]} : member'[m] = member[m],
         \A d \in Cluster \ {c} : mine'[d] = mine[d]
  PROVE  \A d \in Cluster \ {c} : Fresh(d)'
  <1> SUFFICES ASSUME NEW d \in Cluster \ {c} PROVE Fresh(d)'
    OBVIOUS
  <1>1. pc'[d] = pc[d] /\ mesh[d] \in Mesh
    BY TypeOKParts DEF Moves, PcOK
  <1>2. view'[d] = IF pc[d] \notin NotReading /\ mesh[d] = mesh[c] /\ view[d] = "current"
                   THEN "old" ELSE view[d]
    BY DEF Touched, Reading, NotReading
  <1> QED
    BY <1>1, <1>2 DEF ReadInv, Fresh

\* A copy that is current is what the API server has.
LEMMA ReadPresent ==
  ASSUME NEW m \in Mesh, ViewOf(m) = "current"
  PROVE  /\ Seen(m).exists = exists[m]
         /\ Seen(m).member = member[m]
         /\ Seen(m).status = status[m]
  BY DEF ViewOf, Seen, Present

LEMMA ReadInvStep == TypeOK /\ ReadInv /\ [Next]_vars => ReadInv'
  <1> SUFFICES ASSUME TypeOK, ReadInv, [Next]_vars PROVE ReadInv'
    OBVIOUS
  <1>0. PcOK /\ LocalOK /\ MeshOK
    BY TypeOKParts
  <1>1. CASE UNCHANGED <<exists, member, pc, mesh, mine, view>>
    BY <1>1 DEF ReadInv, Fresh
  <1>2. ASSUME NEW c \in Cluster, Start(c) PROVE ReadInv'
    <2>1. Moves(c) /\ pc'[c] \in NotReading /\ UNCHANGED <<exists, member, mine, view>>
      BY <1>0, <1>2, PcMoves
      DEF Start, Reconcile, ReconcileRemoved, mesh_vars, PcOK, NotReading
    <2>2. \A d \in Cluster \ {c} : mesh'[d] = mesh[d]
      BY <1>0, <1>2 DEF Start, Reconcile, ReconcileRemoved, PcOK
    <2>3. pc[c] \in NotReading
      BY <1>2 DEF Start, Reconcile, ReconcileRemoved, NotReading
    <2>4. \A d \in Cluster \ {c} : Fresh(d)'
      BY <2>1, <2>2, OthersFresh
    <2>5. Fresh(c)'
      BY <2>1, <2>3 DEF ReadInv, Fresh, Nobody
    <2> QED
      BY <2>4, <2>5 DEF ReadInv
  <1>3. ASSUME NEW c \in Cluster, GetMesh(c) PROVE ReadInv'
    <2>1. Moves(c) /\ UNCHANGED <<exists, member, mesh>> /\ pc[c] \in NotReading /\ mesh[c] \in Mesh
      BY <1>0, <1>3, PcMoves DEF GetMesh, mesh_vars, Proceed, NotReading, PcOK
    <2>2. \A d \in Cluster \ {c} : mine'[d] = mine[d] /\ view'[d] = view[d]
      BY <1>0, <1>3 DEF GetMesh, Take, LocalOK, PcOK
    <2>3. \A d \in Cluster \ {c} : Fresh(d)'
      BY <2>1, <2>2, OthersFresh
    <2>4. CASE Seen(mesh[c]).exists
      <3>1. pc'[c] \notin NotReading /\ view'[c] = ViewOf(mesh[c])
        BY <1>0, <1>3, <2>4 DEF GetMesh, Take, NotReading, PcOK
      <3>2. Seen(mesh[c]).member \in [Cluster -> 0..MaxInfo]
        BY <1>0, <2>1, SeenOK DEF Version
      <3>3. \A d \in Cluster \ {c} : mine'[c][d] = Seen(mesh[c]).member[d]
        BY <1>0, <1>3, <2>4, <3>2 DEF GetMesh, LocalOK
      <3>4. Fresh(c)'
        BY <2>1, <2>4, <3>1, <3>3, ReadPresent DEF Fresh
      <3> QED
        BY <2>3, <3>4 DEF ReadInv
    <2>5. CASE ~Seen(mesh[c]).exists
      <3>1. pc'[c] \in NotReading /\ UNCHANGED <<mine, view>>
        BY <1>0, <1>3, <2>5 DEF GetMesh, NotReading, PcOK
      <3> QED
        BY <2>1, <2>3, <3>1 DEF ReadInv, Fresh
    <2> QED
      BY <2>4, <2>5
  <1>4. ASSUME NEW c \in Cluster, CreateMesh(c) PROVE ReadInv'
    <2>1. Moves(c) /\ pc[c] \in NotReading /\ pc'[c] \in NotReading /\ UNCHANGED <<mesh, view>>
      BY <1>0, <1>4, PcMoves DEF CreateMesh, Proceed, PcOK, NotReading
    <2>2. mine' = [mine EXCEPT ![c] = Nobody]
      BY <1>4 DEF CreateMesh, Forget
    <2>3. \A m \in Mesh : exists[m] => exists'[m] /\ member'[m] = member[m]
      BY <1>0, <1>4 DEF CreateMesh, MeshOK, PcOK
    <2>4. \A d \in Cluster \ {c} : pc'[d] = pc[d] /\ mine'[d] = mine[d]
      BY <1>0, <2>1, <2>2 DEF Moves, PcOK, LocalOK
    <2>5. \A d \in Cluster \ {c} : Fresh(d)'
      BY <1>0, <2>1, <2>3, <2>4 DEF ReadInv, Fresh, PcOK, Nobody
    <2>6. Fresh(c)'
      BY <1>0, <2>1, <2>2 DEF ReadInv, Fresh, LocalOK, Nobody
    <2> QED
      BY <2>5, <2>6 DEF ReadInv
  <1>5. ASSUME NEW c \in Cluster, Join(c) \/ Patch(c) PROVE ReadInv'
    <2>1. /\ Moves(c)
          /\ pc[c] \notin NotReading
          /\ pc'[c] \notin NotReading
          /\ UNCHANGED <<exists, mesh, mine>>
      BY <1>0, <1>5, PcMoves DEF Join, Patch, Proceed, run_vars, PcOK, NotReading
    <2>2. CASE UNCHANGED <<member, view>>
      BY <2>1, <2>2, SameCopyFresh
    <2>3. CASE /\ view[c] = "current"
               /\ member' = [member EXCEPT ![mesh[c]] = mine[c]]
               /\ Touched(c, mesh[c])
      <3>1. \A d \in Cluster \ {c} : Fresh(d)'
        BY <1>0, <2>1, <2>3, WriteFresh DEF MeshOK
      <3>2. member'[mesh[c]] = mine[c] /\ exists[mesh[c]]
        BY <1>0, <2>1, <2>3 DEF MeshOK, PcOK, ReadInv, Fresh
      <3>3. Fresh(c)'
        BY <2>1, <3>2 DEF Fresh
      <3> QED
        BY <3>1, <3>3 DEF ReadInv
    <2> QED
      BY <1>5, <2>2, <2>3 DEF Join, Patch
  <1>6. ASSUME NEW c \in Cluster, \/ ListPeerings(c) \/ PeeringsDone(c) \/ WriteGroup(c)
                                  \/ OwnGroup(c) \/ ListForRoutes(c) \/ Validate(c)
                                  \/ DeleteGroup(c)
        PROVE  ReadInv'
    <2>1. Moves(c) /\ UNCHANGED <<exists, member, mesh, mine, view>>
      BY <1>6, PcMoves DEF ListPeerings, PeeringsDone, WriteGroup, OwnGroup, ListForRoutes,
         Validate, DeleteGroup, Proceed, run_vars, mesh_vars
    <2>2. pc[c] \notin NotReading /\ pc'[c] \notin NotReading
      BY <1>0, <1>6 DEF ListPeerings, PeeringsDone, WriteGroup, OwnGroup, ListForRoutes,
         Validate, DeleteGroup, NotReading, PcOK
    <2> QED
      BY <2>1, <2>2, SameCopyFresh
  <1>7. ASSUME NEW c \in Cluster, NEW p \in Pair,
               CreatePeering(c, p) \/ ManageRoutes(c, p) \/ DeletePeering(c, p)
        PROVE  ReadInv'
    BY <1>1, <1>7 DEF CreatePeering, ManageRoutes, DeletePeering, mesh_vars
  <1>8. ASSUME NEW c \in Cluster, GetMeshToLeave(c) PROVE ReadInv'
    <2>1. Moves(c) /\ UNCHANGED <<exists, member, mesh>> /\ pc[c] \in NotReading /\ mesh[c] \in Mesh
      BY <1>0, <1>8, PcMoves DEF GetMeshToLeave, mesh_vars, Proceed, NotReading, PcOK
    <2>2. \A d \in Cluster \ {c} : mine'[d] = mine[d] /\ view'[d] = view[d]
      BY <1>0, <1>8 DEF GetMeshToLeave, Take, LocalOK, PcOK
    <2>3. \A d \in Cluster \ {c} : Fresh(d)'
      BY <2>1, <2>2, OthersFresh
    <2>4. CASE Seen(mesh[c]).exists
      <3>1. /\ pc'[c] \notin NotReading
            /\ view'[c] = ViewOf(mesh[c])
            /\ mine'[c] = Seen(mesh[c]).member
        BY <1>0, <1>8, <2>4 DEF GetMeshToLeave, Take, NotReading, PcOK, LocalOK
      <3>2. Fresh(c)'
        BY <2>1, <2>4, <3>1, ReadPresent DEF Fresh
      <3> QED
        BY <2>3, <3>2 DEF ReadInv
    <2>5. CASE ~Seen(mesh[c]).exists
      <3>1. pc'[c] \in NotReading /\ UNCHANGED <<mine, view>>
        BY <1>0, <1>8, <2>5 DEF GetMeshToLeave, NotReading, PcOK
      <3> QED
        BY <2>1, <2>3, <3>1 DEF ReadInv, Fresh
    <2> QED
      BY <2>4, <2>5
  <1>9. ASSUME NEW c \in Cluster, LeaveMesh(c) PROVE ReadInv'
    <2>1. Moves(c) /\ UNCHANGED <<exists, member, mesh, view>>
      BY <1>9, PcMoves DEF LeaveMesh, mesh_vars, Proceed
    <2>2. \A d \in Cluster \ {c} : mine'[d] = mine[d] /\ mine'[c][d] = mine[c][d]
      BY <1>0, <1>9 DEF LeaveMesh, LocalOK
    <2>3. \A d \in Cluster \ {c} : Fresh(d)'
      BY <2>1, <2>2, OthersFresh
    <2>4. pc[c] \notin NotReading /\ pc'[c] \notin NotReading
      BY <1>0, <1>9 DEF LeaveMesh, NotReading, PcOK
    <2>5. Fresh(c)'
      BY <2>1, <2>2, <2>4 DEF ReadInv, Fresh
    <2> QED
      BY <2>3, <2>5 DEF ReadInv
  <1>10. ASSUME NEW c \in Cluster, DeleteMesh(c) PROVE ReadInv'
    <2>1. Moves(c) /\ pc'[c] \in NotReading /\ mesh' = mesh
      BY <1>0, <1>10, PcMoves DEF DeleteMesh, Proceed, PcOK, NotReading
    <2>2. mine' = [mine EXCEPT ![c] = Nobody]
      BY <1>10 DEF DeleteMesh, Forget
    <2>3. view'[c] = "current"
      BY <1>0, <1>10 DEF DeleteMesh, PcOK
    <2>4. \A m \in Mesh \ {mesh[c]} : exists'[m] = exists[m] /\ member'[m] = member[m]
      BY <1>0, <1>10 DEF DeleteMesh, MeshOK, mesh_vars
    <2>5. \A d \in Cluster \ {c} : pc'[d] = pc[d] /\ mine'[d] = mine[d] /\ mesh[d] \in Mesh
      BY <1>0, <2>1, <2>2 DEF Moves, PcOK, LocalOK
    <2>6. \A d \in Cluster \ {c} : Fresh(d)'
      <3>1. CASE exists[mesh[c]]
        <4>1. \A d \in Cluster \ {c} :
                 view'[d] = IF pc[d] \notin NotReading /\ mesh[d] = mesh[c] THEN "gone" ELSE view[d]
          BY <1>10, <3>1 DEF DeleteMesh, Reading, NotReading
        <4> QED
          BY <2>1, <2>4, <2>5, <4>1 DEF ReadInv, Fresh, Nobody
      <3>2. CASE ~exists[mesh[c]]
        <4>1. UNCHANGED <<exists, member>> /\ view' = [view EXCEPT ![c] = "current"]
          BY <1>10, <3>2 DEF DeleteMesh, mesh_vars
        <4> QED
          BY <1>0, <2>1, <2>5, <4>1, OthersFresh DEF PcOK
      <3> QED
        BY <3>1, <3>2
    <2>7. Fresh(c)'
      BY <1>0, <2>1, <2>2, <2>3 DEF Fresh, LocalOK, Nobody
    <2> QED
      BY <2>6, <2>7 DEF ReadInv
  <1>11. ASSUME NEW c \in Cluster, UpdateStatus(c) PROVE ReadInv'
    <2>1. /\ Moves(c) /\ pc[c] \notin NotReading /\ pc'[c] \in NotReading
          /\ UNCHANGED <<exists, member, mesh>>
      BY <1>0, <1>11, PcMoves DEF UpdateStatus, Proceed, PcOK, NotReading
    <2>2. mine' = [mine EXCEPT ![c] = Nobody]
      BY <1>11 DEF UpdateStatus, Forget
    <2>3. \A d \in Cluster \ {c} : mine'[d] = mine[d]
      BY <1>0, <2>2 DEF LocalOK
    <2>4. CASE view' = [view EXCEPT ![c] = "current"]
      <3>1. \A d \in Cluster \ {c} : Fresh(d)'
        BY <1>0, <2>1, <2>3, <2>4, OthersFresh DEF PcOK
      <3> QED
        BY <1>0, <2>1, <2>2, <2>4, <3>1 DEF ReadInv, Fresh, PcOK, LocalOK, Nobody
    <2>5. CASE view[c] = "current" /\ Touched(c, mesh[c])
      <3>1. \A d \in Cluster \ {c} : Fresh(d)'
        BY <2>1, <2>3, <2>5, WriteFresh
      <3>2. view'[c] = "current"
        BY <2>5 DEF Touched
      <3> QED
        BY <1>0, <2>1, <2>2, <3>1, <3>2 DEF ReadInv, Fresh, LocalOK, Nobody
    <2> QED
      BY <1>11, <2>4, <2>5 DEF UpdateStatus
  <1>12. ASSUME NEW c \in Cluster, CallFails(c) PROVE ReadInv'
    <2>1. Moves(c) /\ UNCHANGED <<exists, member, mesh>>
      BY <1>12, PcMoves DEF CallFails, mesh_vars
    <2>2. CASE pc'[c] = "idle"
      <3>1. mine' = [mine EXCEPT ![c] = Nobody] /\ view' = [view EXCEPT ![c] = "current"]
        BY <1>0, <1>12, <2>2 DEF CallFails, Forget, PcOK
      <3>2. \A d \in Cluster \ {c} : Fresh(d)'
        BY <1>0, <2>1, <3>1, OthersFresh DEF PcOK, LocalOK
      <3> QED
        BY <1>0, <2>2, <3>1, <3>2 DEF ReadInv, Fresh, NotReading, PcOK, LocalOK, Nobody
    <2>3. CASE pc'[c] # "idle"
      <3>1. UNCHANGED <<mine, view>> /\ pc'[c] \notin NotReading
        BY <1>0, <1>12, <2>3 DEF CallFails, Deferred, PcOK, NotReading
      <3>2. pc[c] \notin NotReading
        <4>1. SUFFICES ASSUME pc[c] \in NotReading PROVE FALSE
          OBVIOUS
        <4>2. Members(mine[c]) = {}
          BY <4>1 DEF ReadInv, Fresh, Members, BelongsToMesh, Nobody
        <4> QED
          BY <1>0, <1>12, <2>3, <4>1, <4>2 DEF CallFails, Deferred, PcOK, NotReading
      <3> QED
        BY <2>1, <3>1, <3>2, SameCopyFresh
    <2> QED
      BY <2>2, <2>3
  <1>13. CASE Restart
    BY <1>13 DEF Restart, ReadInv, Fresh, NotReading, Nobody
  <1>14. ASSUME NEW c \in Cluster, User(c) \/ ReconcileOutsider(c) PROVE ReadInv'
    BY <1>1, <1>14 DEF User, Relabel, AddRouteTable, ReconcileOutsider, vars, run_vars, mesh_vars
  <1>15. CASE Crossplane \/ Cache \/ UNCHANGED vars
    BY <1>1, <1>15, CacheChanges DEF Crossplane, PeeringReady, GroupGone, vars, run_vars, mesh_vars
  <1> QED
    BY <1>2, <1>3, <1>4, <1>5, <1>6, <1>7, <1>8, <1>9, <1>10, <1>11, <1>12, <1>13, <1>14, <1>15
    DEF Next, Proceed

LEMMA MemberWriters ==
  ASSUME Next, ~ UNCHANGED member
  PROVE  \E c \in Cluster : CreateMesh(c) \/ Join(c) \/ Patch(c) \/ DeleteMesh(c)
  <1>1. ASSUME NEW c \in Cluster, Start(c) \/ ReconcileOutsider(c) \/ User(c) \/ CallFails(c)
        PROVE  UNCHANGED member
    BY <1>1 DEF Start, User, Reconcile, ReconcileRemoved, ReconcileOutsider, Relabel, AddRouteTable,
                CallFails, vars, mesh_vars
  <1>2. ASSUME NEW c \in Cluster, NEW p \in Pair,
               CreatePeering(c, p) \/ ManageRoutes(c, p) \/ DeletePeering(c, p)
        PROVE  UNCHANGED member
    BY <1>2 DEF CreatePeering, ManageRoutes, DeletePeering, mesh_vars
  <1>3. ASSUME NEW c \in Cluster, \/ GetMesh(c) \/ ListPeerings(c) \/ PeeringsDone(c)
                                  \/ WriteGroup(c) \/ OwnGroup(c) \/ ListForRoutes(c)
                                  \/ Validate(c) \/ GetMeshToLeave(c) \/ DeleteGroup(c)
                                  \/ LeaveMesh(c) \/ UpdateStatus(c)
        PROVE  UNCHANGED member
    BY <1>3 DEF GetMesh, ListPeerings, PeeringsDone, WriteGroup, OwnGroup, ListForRoutes, Validate,
                GetMeshToLeave, DeleteGroup, LeaveMesh, UpdateStatus, mesh_vars
  <1>4. ASSUME Crossplane \/ Restart \/ Cache PROVE UNCHANGED member
    BY <1>4, CacheChanges DEF Crossplane, PeeringReady, GroupGone, Restart, mesh_vars
  <1> QED
    BY <1>1, <1>2, <1>3, <1>4 DEF Next, Proceed

\* While a ClusterMesh exists, a cluster enters or leaves its spec only by a
\* step of its own reconcile, for any number of workers and any cache: the
\* resource version refuses every write of a copy that another write made old.
THEOREM MembersByOwnHolds == Spec => MembersOnlyByOwn
  <1>1. TypeOK /\ ReadInv /\ [Next]_vars => [OwnMembershipStep]_vars
    <2> SUFFICES ASSUME TypeOK, ReadInv, Next,
                        NEW m \in Mesh, NEW d \in Cluster, exists[m], exists'[m],
                        member[m][d] # member'[m][d]
                 PROVE  pc'[d] # pc[d]
      BY DEF OwnMembershipStep
    <2>0. PcOK /\ MeshOK
      BY TypeOKParts
    <2>1. ~ UNCHANGED member
      OBVIOUS
    <2>2. PICK c \in Cluster : CreateMesh(c) \/ Join(c) \/ Patch(c) \/ DeleteMesh(c)
      BY <2>1, MemberWriters
    <2>3. ~ CreateMesh(c) /\ ~ DeleteMesh(c)
      <3>1. ASSUME CreateMesh(c) PROVE FALSE
        <4>1. /\ ~exists[mesh[c]]
              /\ member' = [member EXCEPT ![mesh[c]] = [Nobody EXCEPT ![c] = current[c]]]
          BY <2>1, <3>1 DEF CreateMesh
        <4> QED
          BY <2>0, <4>1 DEF MeshOK
      <3>2. ASSUME DeleteMesh(c) PROVE FALSE
        <4>1. /\ exists' = [exists EXCEPT ![mesh[c]] = FALSE]
              /\ member' = [member EXCEPT ![mesh[c]] = Nobody]
          BY <2>1, <3>2 DEF DeleteMesh, mesh_vars
        <4> QED
          BY <2>0, <4>1 DEF MeshOK
      <3> QED
        BY <3>1, <3>2
    <2>4. /\ view[c] = "current"
          /\ pc[c] \notin NotReading
          /\ member' = [member EXCEPT ![mesh[c]] = mine[c]]
          /\ pc'[c] # pc[c]
      BY <2>0, <2>1, <2>2, <2>3 DEF Join, Patch, NotReading, PcOK
    <2>5. d = c
      BY <2>0, <2>4 DEF ReadInv, Fresh, MeshOK
    <2> QED
      BY <2>4, <2>5
  <1> QED
    BY <1>1, InitTypeOK, TypeOKStep, ReadInvInit, ReadInvStep, PTL DEF Spec, MembersOnlyByOwn

-----------------------------------------------------------------------------
(* One worker: reconciles do not overlap, and a copy is worth what it was  *)
(* worth when it was read.                                                 *)

OneWorker == Workers = 1

Serial == \A c, d \in Cluster : pc[c] # "idle" /\ pc[d] # "idle" => c = d

LEMMA SerialInit == Init => Serial
  BY DEF Init, Serial

LEMMA StartsAlone ==
  ASSUME OneWorker, NEW c \in Cluster, Start(c)
  PROVE  \A d \in Cluster : pc[d] = "idle"
  <1>1. Busy \subseteq Cluster /\ IsFiniteSet(Busy)
    BY ConstantsAssumption, FS_Subset DEF Busy
  <1>2. Cardinality(Busy) < 1 /\ Cardinality(Busy) \in Nat
    BY <1>1, FS_CardinalityType DEF OneWorker, Start, Reconcile, ReconcileRemoved
  <1>3. Busy = {}
    BY <1>1, <1>2, FS_EmptySet
  <1> QED
    BY <1>3 DEF Busy

LEMMA OthersIdle ==
  ASSUME TypeOK, Serial, NEW c \in Cluster, pc[c] # "idle", Moves(c)
  PROVE  \A d \in Cluster \ {c} : pc[d] = "idle" /\ pc'[d] = "idle"
  BY TypeOKParts DEF Serial, Moves, PcOK

LEMMA ProceedIsBusy ==
  ASSUME NEW c \in Cluster, Proceed(c) \/ CallFails(c)
  PROVE  pc[c] # "idle"
  BY DEF Proceed, GetMesh, CreateMesh, Join, ListPeerings, CreatePeering, ManageRoutes,
     DeletePeering, PeeringsDone, WriteGroup, OwnGroup, ListForRoutes, Validate,
     GetMeshToLeave, DeleteGroup, LeaveMesh, DeleteMesh, Patch, UpdateStatus, CallFails

LEMMA SerialStep == TypeOK /\ Serial /\ OneWorker /\ [Next]_vars => Serial'
  <1> SUFFICES ASSUME TypeOK, Serial, OneWorker, [Next]_vars PROVE Serial'
    OBVIOUS
  <1>0. PcOK
    BY TypeOKParts
  <1>1. CASE UNCHANGED pc
    BY <1>1 DEF Serial
  <1>2. ASSUME NEW c \in Cluster, Start(c) PROVE Serial'
    <2>1. \A d \in Cluster \ {c} : pc'[d] = "idle"
      BY <1>0, <1>2, StartsAlone, PcMoves DEF Moves, PcOK
    <2> QED
      BY <2>1 DEF Serial
  <1>3. ASSUME NEW c \in Cluster, Proceed(c) \/ CallFails(c) PROVE Serial'
    <2>1. \A d \in Cluster \ {c} : pc'[d] = "idle"
      BY <1>3, ProceedIsBusy, PcMoves, OthersIdle
    <2> QED
      BY <2>1 DEF Serial
  <1>4. CASE Restart
    BY <1>4 DEF Restart, Serial
  <1>5. ASSUME NEW c \in Cluster, User(c) \/ ReconcileOutsider(c) PROVE Serial'
    BY <1>1, <1>5 DEF User, Relabel, AddRouteTable, ReconcileOutsider, vars
  <1>6. CASE Crossplane \/ Cache \/ UNCHANGED vars
    BY <1>1, <1>6, CacheChanges DEF Crossplane, PeeringReady, GroupGone, vars
  <1> QED
    BY <1>2, <1>3, <1>4, <1>5, <1>6 DEF Next

\* With the others idle, a write makes no copy old.
LEMMA NoneTouched ==
  ASSUME TypeOK, Serial, NEW c \in Cluster, pc[c] # "idle", NEW m, Touched(c, m)
  PROVE  view' = view
  <1>1. Reading \ {c} = {}
    BY DEF Serial, Reading
  <1>2. view \in [Cluster -> {"current", "old", "gone"}]
    BY TypeOKParts DEF PcOK
  <1> QED
    BY <1>1, <1>2 DEF Touched

LEMMA OwnerWriters ==
  ASSUME Next, ~ UNCHANGED owner
  PROVE  \E c \in Cluster : \/ DeleteMesh(c)
                           \/ \E p \in Pair : CreatePeering(c, p) \/ DeletePeering(c, p)
  <1>1. ASSUME NEW c \in Cluster, Start(c) \/ ReconcileOutsider(c) \/ User(c) \/ CallFails(c)
        PROVE  UNCHANGED owner
    BY <1>1 DEF Start, User, Reconcile, ReconcileRemoved, ReconcileOutsider, Relabel, AddRouteTable,
                CallFails, vars, peer_vars
  <1>2. ASSUME NEW c \in Cluster, NEW p \in Pair, ManageRoutes(c, p) PROVE UNCHANGED owner
    BY <1>2 DEF ManageRoutes
  <1>3. ASSUME NEW c \in Cluster, \/ GetMesh(c) \/ CreateMesh(c) \/ Join(c) \/ ListPeerings(c)
                                  \/ PeeringsDone(c) \/ WriteGroup(c) \/ OwnGroup(c)
                                  \/ ListForRoutes(c) \/ Validate(c)
        PROVE  UNCHANGED owner
    BY <1>3 DEF GetMesh, CreateMesh, Join, ListPeerings, PeeringsDone, WriteGroup, OwnGroup,
                ListForRoutes, Validate, peer_vars
  <1>4. ASSUME NEW c \in Cluster, \/ GetMeshToLeave(c) \/ DeleteGroup(c) \/ LeaveMesh(c)
                                  \/ Patch(c) \/ UpdateStatus(c)
        PROVE  UNCHANGED owner
    BY <1>4 DEF GetMeshToLeave, DeleteGroup, LeaveMesh, Patch, UpdateStatus, peer_vars
  <1>5. ASSUME Crossplane \/ Restart \/ Cache PROVE UNCHANGED owner
    BY <1>5, CacheChanges DEF Crossplane, PeeringReady, GroupGone, Restart, peer_vars
  <1> QED
    BY <1>1, <1>2, <1>3, <1>4, <1>5 DEF Next, Proceed

-----------------------------------------------------------------------------
(* Who takes a peering down.                                               *)

\* The name of a cluster is part of the name of no peering but its own.
NamesApart == \A i \in Inside : i[1] \in {i[2][1], i[2][2]}

\* What a leaving cluster is about to delete names it, and a mesh it is about
\* to delete has nobody left in its copy.
LeaveInv ==
    \A c \in Cluster :
        /\ pc[c] = "unpeer" => \A p \in todo[c] : c \in {p[1], p[2]}
        /\ pc[c] = "delete" => \A d \in Cluster : mine[c][d] = 0

LEMMA LeaveInvInit == Init => LeaveInv
  BY DEF Init, LeaveInv

LEMMA LeaveInvStep == TypeOK /\ NamesApart /\ LeaveInv /\ [Next]_vars => LeaveInv'
  <1> SUFFICES ASSUME TypeOK, NamesApart, LeaveInv, [Next]_vars PROVE LeaveInv'
    OBVIOUS
  <1>0. PcOK /\ LocalOK
    BY TypeOKParts
  <1>1. CASE UNCHANGED <<pc, mine, todo>>
    BY <1>1 DEF LeaveInv
  <1>2. ASSUME NEW c \in Cluster, Moves(c), pc'[c] \notin {"unpeer", "delete"},
               \A d \in Cluster \ {c} : mine'[d] = mine[d] /\ todo'[d] = todo[d]
        PROVE  LeaveInv'
    BY <1>0, <1>2 DEF LeaveInv, Moves, PcOK
  <1>3. ASSUME NEW c \in Cluster, Start(c) \/ GetMesh(c) \/ CreateMesh(c) PROVE LeaveInv'
    <2>1. Moves(c) /\ pc'[c] \notin {"unpeer", "delete"}
      BY <1>0, <1>3, PcMoves
      DEF Start, Reconcile, ReconcileRemoved, GetMesh, CreateMesh, Proceed, PcOK
    <2>2. \A d \in Cluster \ {c} : mine'[d] = mine[d] /\ todo'[d] = todo[d]
      BY <1>0, <1>3 DEF Start, Reconcile, ReconcileRemoved, GetMesh, CreateMesh, Forget, LocalOK
    <2> QED
      BY <1>2, <2>1, <2>2
  <1>4. ASSUME NEW c \in Cluster, \/ Join(c) \/ PeeringsDone(c) \/ WriteGroup(c) \/ OwnGroup(c)
                                  \/ Validate(c) \/ Patch(c)
        PROVE  LeaveInv'
    <2>1. Moves(c) /\ pc'[c] \notin {"unpeer", "delete"} /\ UNCHANGED <<mine, todo>>
      BY <1>0, <1>4, PcMoves DEF Join, PeeringsDone, WriteGroup, OwnGroup, Validate, Patch,
         Proceed, PcOK, run_vars
    <2> QED
      BY <1>2, <2>1
  <1>5. ASSUME NEW c \in Cluster, \/ ListPeerings(c) \/ ListForRoutes(c) \/ GetMeshToLeave(c)
        PROVE  LeaveInv'
    <2>1. Moves(c) /\ pc'[c] \notin {"unpeer", "delete"}
      BY <1>0, <1>5, PcMoves DEF ListPeerings, ListForRoutes, GetMeshToLeave, Proceed, PcOK
    <2>2. \A d \in Cluster \ {c} : mine'[d] = mine[d] /\ todo'[d] = todo[d]
      BY <1>0, <1>5 DEF ListPeerings, ListForRoutes, GetMeshToLeave, LocalOK
    <2> QED
      BY <1>2, <2>1, <2>2
  <1>6. ASSUME NEW c \in Cluster, NEW p \in Pair,
               CreatePeering(c, p) \/ ManageRoutes(c, p) \/ DeletePeering(c, p)
        PROVE  LeaveInv'
    <2>1. UNCHANGED <<pc, mine>> /\ todo' = [todo EXCEPT ![c] = @ \ {p}]
      BY <1>6 DEF CreatePeering, ManageRoutes, DeletePeering
    <2>2. \A d \in Cluster : todo'[d] \subseteq todo[d]
      BY <1>0, <2>1 DEF LocalOK
    <2> QED
      BY <2>1, <2>2 DEF LeaveInv
  <1>7. ASSUME NEW c \in Cluster, DeleteGroup(c) PROVE LeaveInv'
    <2>1. pc' = [pc EXCEPT ![c] = "unpeer"] /\ mine' = mine
      BY <1>7 DEF DeleteGroup
    <2>2. todo' = [todo EXCEPT ![c] = Named(c, refs[c])]
      BY <1>7 DEF DeleteGroup
    <2>3. \A p \in Named(c, refs[c]) : c \in {p[1], p[2]}
      <3> SUFFICES ASSUME NEW p \in Named(c, refs[c]) PROVE c \in {p[1], p[2]}
        OBVIOUS
      <3>1. <<c, p>> \in Inside
        BY DEF Named
      <3> QED
        BY <3>1 DEF NamesApart
    <2> QED
      BY <1>0, <2>1, <2>2, <2>3 DEF LeaveInv, PcOK, LocalOK
  <1>8. ASSUME NEW c \in Cluster, LeaveMesh(c) PROVE LeaveInv'
    <2>1. /\ pc' = [pc EXCEPT ![c] = IF Members(mine'[c]) = {} THEN "delete" ELSE "patch"]
          /\ todo' = todo
      BY <1>8 DEF LeaveMesh
    <2>2. \A d \in Cluster \ {c} : mine'[d] = mine[d]
      BY <1>0, <1>8 DEF LeaveMesh, LocalOK
    <2>3. pc'[c] = "delete" => \A d \in Cluster : mine'[c][d] = 0
      BY <1>0, <2>1 DEF PcOK, Members, BelongsToMesh
    <2>4. pc'[c] # "unpeer" /\ \A d \in Cluster \ {c} : pc'[d] = pc[d]
      BY <1>0, <2>1 DEF PcOK
    <2> QED
      BY <2>1, <2>2, <2>3, <2>4 DEF LeaveInv
  <1>9. ASSUME NEW c \in Cluster, DeleteMesh(c) \/ UpdateStatus(c) PROVE LeaveInv'
    <2>1. Moves(c) /\ pc'[c] \notin {"unpeer", "delete"}
      BY <1>0, <1>9, PcMoves DEF DeleteMesh, UpdateStatus, Proceed, PcOK
    <2>2. \A d \in Cluster \ {c} : mine'[d] = mine[d] /\ todo'[d] = todo[d]
      BY <1>0, <1>9 DEF DeleteMesh, UpdateStatus, Forget, LocalOK
    <2> QED
      BY <1>2, <2>1, <2>2
  <1>10. ASSUME NEW c \in Cluster, CallFails(c) PROVE LeaveInv'
    <2>1. Moves(c) /\ pc'[c] \notin {"unpeer", "delete"}
      BY <1>0, <1>10, PcMoves DEF CallFails, Deferred, PcOK
    <2>2. \A d \in Cluster \ {c} : mine'[d] = mine[d] /\ todo'[d] = todo[d]
      BY <1>0, <1>10 DEF CallFails, Forget, LocalOK
    <2> QED
      BY <1>2, <2>1, <2>2
  <1>11. CASE Restart
    BY <1>11 DEF Restart, LeaveInv
  <1>12. ASSUME NEW c \in Cluster, User(c) \/ ReconcileOutsider(c) PROVE LeaveInv'
    BY <1>1, <1>12 DEF User, Relabel, AddRouteTable, ReconcileOutsider, vars, run_vars
  <1>13. CASE Crossplane \/ Cache \/ UNCHANGED vars
    BY <1>1, <1>13, CacheChanges DEF Crossplane, PeeringReady, GroupGone, vars, run_vars
  <1> QED
    BY <1>3, <1>4, <1>5, <1>6, <1>7, <1>8, <1>9, <1>10, <1>11, <1>12, <1>13 DEF Next, Proceed

\* Where the name of a cluster is part of no peering's name but of its own, the
\* peering of two members goes by the hand of one of them, for any number of
\* workers, of clusters and of meshes, whatever fails and however old the caches
\* are, but in a mesh that was deleted on the word of an outdated copy.
THEOREM UnpeeredByOwnHolds == NamesApart => (Spec => UnpeeredByOwn)
  <1>1. TypeOK /\ ReadInv /\ LeaveInv /\ [Next]_vars => [UnpeeredByOwnStep]_vars
    <2> SUFFICES ASSUME TypeOK, ReadInv, LeaveInv, Next,
                        NEW p \in Peerings, owner'[p] = None, owner[p] \notin misled',
                        member[owner[p]][p[1]] # 0, member[owner[p]][p[2]] # 0
                 PROVE  \E c \in {p[1], p[2]} : pc[c] \in {"unpeer", "delete"}
      BY DEF UnpeeredByOwnStep
    <2>0. PcOK /\ LocalOK /\ MeshOK /\ PeerOK /\ p \in Pair /\ owner[p] # None
      BY TypeOKParts DEF Peerings
    <2>1. ~ UNCHANGED owner
      BY <2>0
    <2>2. PICK c \in Cluster : \/ DeleteMesh(c)
                              \/ \E q \in Pair : CreatePeering(c, q) \/ DeletePeering(c, q)
      BY <2>1, OwnerWriters
    <2>3. CASE DeleteMesh(c)
      <3>1. exists[mesh[c]] /\ pc[c] = "delete"
        BY <2>1, <2>3 DEF DeleteMesh, peer_vars
      <3>2. owner[p] = mesh[c]
        BY <2>0, <2>3, <3>1 DEF DeleteMesh, Remove, PeeringsOf
      <3>3. view[c] = "current"
        BY <2>3, <3>1, <3>2 DEF DeleteMesh, Misled
      <3>4. \A d \in Cluster \ {c} : member[mesh[c]][d] = 0
        BY <3>1, <3>3 DEF ReadInv, Fresh, NotReading, LeaveInv
      <3>5. p[1] = c
        BY <2>0, <3>2, <3>4 DEF Pair
      <3> QED
        BY <3>1, <3>5
    <2>4. ASSUME NEW q \in Pair, CreatePeering(c, q) PROVE FALSE
      <3>1. mesh[c] # None
        BY <2>0, ConstantsAssumption DEF PcOK
      <3>2. owner' = NewPeering(q, mesh[c])
        BY <2>1, <2>4 DEF CreatePeering
      <3> QED
        BY <2>0, <3>1, <3>2 DEF NewPeering, PeerOK
    <2>5. ASSUME NEW q \in Pair, DeletePeering(c, q) PROVE c \in {p[1], p[2]} /\ pc[c] = "unpeer"
      <3>1. q = p /\ p \in todo[c] /\ pc[c] = "unpeer"
        BY <2>0, <2>5 DEF DeletePeering, Remove
      <3> QED
        BY <3>1 DEF LeaveInv
    <2> QED
      BY <2>2, <2>3, <2>4, <2>5
  <1>2. SUFFICES ASSUME NamesApart PROVE Spec => UnpeeredByOwn
    OBVIOUS
  <1>3. TypeOK /\ LeaveInv /\ [Next]_vars => LeaveInv'
    BY <1>2, LeaveInvStep
  <1> QED
    BY <1>1, <1>3, InitTypeOK, TypeOKStep, ReadInvInit, ReadInvStep, LeaveInvInit, PTL
    DEF Spec, UnpeeredByOwn

-----------------------------------------------------------------------------
(* What a reconcile is about, with one worker.                             *)

Normal == {"peerings", "peer", "group", "own", "routes", "route"}

\* The member a reconcile adds to its copy of the list, or takes off it, is its
\* own cluster, and a current copy is what the mesh has but for that; nobody
\* writes a list without members.
Run(c) ==
    /\ pc[c] \in {"get", "create"} => current[c] # 0
    /\ pc[c] \in Normal \cup {"join"} => mine[c][c] # 0
    /\ pc[c] \in Normal \cup {"ungroup", "unpeer"} /\ view[c] = "current" =>
          mine[c] = member[mesh[c]]
    /\ pc[c] = "patch" => Members(mine[c]) # {}
    /\ pc[c] = "delete" /\ view[c] = "current" => member[mesh[c]][c] # 0
    /\ pc[c] = "peer" => todo[c] \subseteq {c} \X Members(mine[c])

\* Whatever exists has members, and what does not exist has none.
Peopled == \A m \in Mesh : IF exists[m] THEN Members(member[m]) # {} ELSE member[m] = Nobody

RunInv == Peopled /\ \A c \in Cluster : Run(c)

LEMMA RunInvInit == Init => RunInv
  BY DEF Init, RunInv, Peopled, Run, Normal

LEMMA HasMember ==
  ASSUME NEW recorded, NEW c \in Cluster, recorded[c] # 0
  PROVE  Members(recorded) # {}
  BY DEF Members, BelongsToMesh

\* A step of the reconcile of c: the others are idle.
LEMMA RunOfOne ==
  ASSUME TypeOK, Serial, NEW c \in Cluster, pc[c] # "idle", Moves(c), Run(c)', Peopled'
  PROVE  RunInv'
  <1>1. \A d \in Cluster \ {c} : pc'[d] = "idle"
    BY OthersIdle
  <1> QED
    BY <1>1 DEF RunInv, Run, Normal

LEMMA SamePeople == UNCHANGED <<exists, member>> /\ Peopled => Peopled'
  BY DEF Peopled, Members, BelongsToMesh, Nobody

LEMMA RunReads ==
  ASSUME TypeOK, ReadInv, Serial, RunInv, NEW c \in Cluster,
         \/ GetMesh(c) \/ ListPeerings(c) \/ GetMeshToLeave(c) \/ DeleteGroup(c) \/ LeaveMesh(c)
  PROVE  RunInv'
  <1>0. PcOK /\ LocalOK /\ MeshOK /\ mesh[c] \in Mesh
    BY TypeOKParts DEF PcOK
  <1>1. pc[c] # "idle" /\ Moves(c) /\ Run(c)
    BY PcMoves, ProceedIsBusy DEF Proceed, RunInv
  <1>2. UNCHANGED <<exists, member, mesh, current>>
    BY DEF GetMesh, ListPeerings, GetMeshToLeave, DeleteGroup, LeaveMesh, mesh_vars
  <1>3. ASSUME Run(c)' PROVE RunInv'
    BY <1>1, <1>2, <1>3, RunOfOne, SamePeople DEF RunInv
  <1>4. CASE GetMesh(c)
    <2>1. pc[c] = "get" /\ current[c] # 0
      BY <1>1, <1>4 DEF GetMesh, Run
    <2>2. CASE Seen(mesh[c]).exists
      <3> DEFINE read == Seen(mesh[c]).member
      <3>1. read \in [Cluster -> 0..MaxInfo]
        BY <1>0, SeenOK DEF Version
      <3>2. /\ pc'[c] = IF read[c] # 0 THEN "peerings" ELSE "join"
            /\ mine'[c] = IF read[c] # 0 THEN read ELSE [read EXCEPT ![c] = current[c]]
            /\ view'[c] = ViewOf(mesh[c])
        BY <1>0, <1>4, <2>2 DEF GetMesh, Take, PcOK, LocalOK
      <3>3. mine'[c][c] # 0
        <4> HIDE DEF read
        <4> QED
          BY <2>1, <3>1, <3>2
      <3>4. pc'[c] = "peerings" /\ view'[c] = "current" => mine'[c] = member[mesh[c]]
        BY <1>0, <3>2, ReadPresent
      <3>5. pc'[c] \in {"peerings", "join"}
        BY <3>2
      <3> QED
        BY <1>2, <1>3, <3>3, <3>4, <3>5 DEF Run, Normal
    <2>3. CASE ~Seen(mesh[c]).exists
      <3>1. pc'[c] = "create"
        BY <1>0, <1>4, <2>3 DEF GetMesh, PcOK
      <3> QED
        BY <1>2, <1>3, <2>1, <3>1 DEF Run, Normal
    <2> QED
      BY <2>2, <2>3
  <1>5. CASE ListPeerings(c)
    <2>1. pc[c] = "peerings" /\ pc'[c] = "peer" /\ UNCHANGED <<mine, view>>
      BY <1>0, <1>5 DEF ListPeerings, PcOK
    <2>2. todo'[c] \subseteq {c} \X Members(mine[c])
      BY <1>0, <1>5 DEF ListPeerings, LocalOK
    <2> QED
      BY <1>1, <1>2, <1>3, <2>1, <2>2 DEF Run, Normal, Members, BelongsToMesh
  <1>6. CASE GetMeshToLeave(c)
    <2>1. \/ /\ pc'[c] = "ungroup"
             /\ mine'[c] = Seen(mesh[c]).member
             /\ view'[c] = ViewOf(mesh[c])
          \/ pc'[c] = "idle"
      BY <1>0, <1>6 DEF GetMeshToLeave, Take, PcOK, LocalOK
    <2> QED
      BY <1>0, <1>2, <1>3, <2>1, ReadPresent DEF Run, Normal
  <1>7. CASE DeleteGroup(c)
    <2>1. pc[c] = "ungroup" /\ pc'[c] = "unpeer" /\ UNCHANGED <<mine, view>>
      BY <1>0, <1>7 DEF DeleteGroup, PcOK
    <2> QED
      BY <1>1, <1>2, <1>3, <2>1 DEF Run, Normal
  <1>8. CASE LeaveMesh(c)
    <2>1. /\ pc[c] = "unpeer" /\ view' = view
          /\ pc'[c] = IF Members(mine'[c]) = {} THEN "delete" ELSE "patch"
      BY <1>0, <1>8 DEF LeaveMesh, PcOK
    <2>2. ASSUME Members(mine'[c]) = {}, view[c] = "current" PROVE member[mesh[c]][c] # 0
      <3>1. Members(member[mesh[c]]) # {} /\ mine[c] = member[mesh[c]]
        BY <1>0, <1>1, <2>1, <2>2 DEF RunInv, Peopled, ReadInv, Fresh, NotReading, Run
      <3>2. PICK d \in Cluster : member[mesh[c]][d] # 0
        BY <3>1 DEF Members, BelongsToMesh
      <3>3. \A e \in Cluster \ {c} : mine'[c][e] = mine[c][e]
        BY <1>0, <1>8 DEF LeaveMesh, LocalOK
      <3>4. mine'[c][d] = 0
        BY <2>2 DEF Members, BelongsToMesh
      <3> QED
        BY <3>1, <3>2, <3>3, <3>4
    <2> QED
      BY <1>2, <1>3, <2>1, <2>2 DEF Run, Normal, Members, BelongsToMesh
  <1> QED
    BY <1>4, <1>5, <1>6, <1>7, <1>8

LEMMA RunBetween ==
  ASSUME TypeOK, Serial, RunInv, NEW c \in Cluster,
         \/ PeeringsDone(c) \/ WriteGroup(c) \/ OwnGroup(c) \/ ListForRoutes(c) \/ Validate(c)
         \/ \E p \in Pair : CreatePeering(c, p) \/ ManageRoutes(c, p) \/ DeletePeering(c, p)
  PROVE  RunInv'
  <1>0. PcOK /\ LocalOK
    BY TypeOKParts
  <1>1. pc[c] # "idle" /\ Moves(c) /\ Run(c)
    BY PcMoves, ProceedIsBusy DEF Proceed, RunInv
  <1>2. UNCHANGED <<exists, member, mesh, mine, view>>
    BY DEF PeeringsDone, WriteGroup, OwnGroup, ListForRoutes, Validate, CreatePeering, ManageRoutes,
           DeletePeering, mesh_vars, run_vars
  <1>3. \/ /\ pc[c] \in Normal
           /\ pc'[c] \in {"group", "own", "routes", "route", "patch"}
        \/ /\ pc' = pc /\ pc[c] \in {"peer", "route", "unpeer"}
           /\ todo'[c] \subseteq todo[c]
    <2>1. CASE \/ PeeringsDone(c) \/ WriteGroup(c) \/ OwnGroup(c) \/ ListForRoutes(c) \/ Validate(c)
      BY <1>0, <2>1 DEF PeeringsDone, WriteGroup, OwnGroup, ListForRoutes, Validate, Normal, PcOK
    <2>2. ASSUME NEW p \in Pair, CreatePeering(c, p) \/ ManageRoutes(c, p) \/ DeletePeering(c, p)
          PROVE  pc' = pc /\ pc[c] \in {"peer", "route", "unpeer"} /\ todo'[c] \subseteq todo[c]
      BY <1>0, <2>2 DEF CreatePeering, ManageRoutes, DeletePeering, LocalOK
    <2> QED
      BY <2>1, <2>2
  <1>4. pc[c] \in Normal => Members(mine[c]) # {}
    BY <1>1, HasMember DEF Run
  <1>5. Members(mine[c])' = Members(mine[c])
    BY <1>2 DEF Members, BelongsToMesh
  <1>6. Run(c)'
    BY <1>1, <1>2, <1>3, <1>4, <1>5 DEF Run, Normal
  <1> QED
    BY <1>1, <1>2, <1>6, RunOfOne, SamePeople DEF RunInv

LEMMA RunWrites ==
  ASSUME TypeOK, ReadInv, Serial, RunInv, NEW c \in Cluster,
         \/ CreateMesh(c) \/ Join(c) \/ DeleteMesh(c) \/ Patch(c) \/ UpdateStatus(c) \/ CallFails(c)
  PROVE  RunInv'
  <1>0. PcOK /\ LocalOK /\ MeshOK /\ mesh[c] \in Mesh
    BY TypeOKParts DEF PcOK
  <1>1. pc[c] # "idle" /\ Moves(c) /\ Run(c) /\ Fresh(c) /\ Peopled
    BY PcMoves, ProceedIsBusy DEF Proceed, RunInv, ReadInv
  <1>2. ASSUME view[c] = "current", pc[c] \notin NotReading, Members(mine[c]) # {},
               exists' = exists, member' = [member EXCEPT ![mesh[c]] = mine[c]]
        PROVE  Peopled'
    <2>1. exists[mesh[c]]
      BY <1>1, <1>2 DEF Fresh
    <2>2. \A m \in Mesh : member'[m] = IF m = mesh[c] THEN mine[c] ELSE member[m]
      BY <1>0, <1>2 DEF MeshOK
    <2> QED
      BY <1>1, <1>2, <2>1, <2>2 DEF Peopled, Members, BelongsToMesh, Nobody
  <1>3. CASE Join(c)
    <2>1. UNCHANGED <<exists, mesh, mine>> /\ pc[c] = "join" /\ mine[c][c] # 0
      BY <1>1, <1>3 DEF Join, run_vars, Run
    <2>2. Members(mine[c]) # {} /\ Members(mine[c])' = Members(mine[c])
      BY <2>1, HasMember DEF Members, BelongsToMesh
    <2>3. CASE view[c] = "current"
      <3>1. pc'[c] = "peerings" /\ member' = [member EXCEPT ![mesh[c]] = mine[c]]
        BY <1>0, <1>3, <2>3 DEF Join, PcOK
      <3>2. member'[mesh[c]] = mine[c]
        BY <1>0, <3>1 DEF MeshOK
      <3>3. Run(c)'
        BY <2>1, <3>1, <3>2 DEF Run, Normal
      <3>4. Peopled'
        BY <1>2, <2>1, <2>2, <2>3, <3>1 DEF NotReading
      <3> QED
        BY <1>1, <3>3, <3>4, RunOfOne
    <2>4. CASE view[c] # "current"
      <3>1. pc'[c] = "patch" /\ member' = member
        BY <1>0, <1>3, <2>4 DEF Join, PcOK
      <3>2. Run(c)'
        BY <2>2, <3>1 DEF Run, Normal
      <3> QED
        BY <1>1, <2>1, <3>1, <3>2, RunOfOne, SamePeople
    <2> QED
      BY <2>3, <2>4
  <1>4. CASE CreateMesh(c)
    <2>1. pc'[c] = "idle" /\ current[c] # 0
      BY <1>0, <1>1, <1>4 DEF CreateMesh, PcOK, Run
    <2>2. Peopled'
      <3>1. CASE exists[mesh[c]]
        BY <1>1, <1>4, <3>1, SamePeople DEF CreateMesh
      <3>2. CASE ~exists[mesh[c]]
        <4>1. /\ exists' = [exists EXCEPT ![mesh[c]] = TRUE]
              /\ member' = [member EXCEPT ![mesh[c]] = [Nobody EXCEPT ![c] = current[c]]]
          BY <1>4, <3>2 DEF CreateMesh
        <4>2. member'[mesh[c]][c] # 0
          BY <1>0, <2>1, <4>1 DEF MeshOK, Nobody
        <4>3. Members(member'[mesh[c]]) # {}
          BY <4>2, HasMember
        <4>4. \A m \in Mesh : m # mesh[c] => exists'[m] = exists[m] /\ member'[m] = member[m]
          BY <1>0, <4>1 DEF MeshOK
        <4>5. exists'[mesh[c]]
          BY <1>0, <4>1 DEF MeshOK
        <4> QED
          BY <1>1, <4>3, <4>4, <4>5 DEF Peopled, Members, BelongsToMesh, Nobody
      <3> QED
        BY <3>1, <3>2
    <2>3. Run(c)'
      BY <2>1 DEF Run, Normal
    <2> QED
      BY <1>1, <2>2, <2>3, RunOfOne
  <1>5. CASE DeleteMesh(c)
    <2>1. pc'[c] = "idle"
      BY <1>0, <1>5 DEF DeleteMesh, PcOK
    <2>2. Peopled'
      <3>1. CASE ~exists[mesh[c]]
        BY <1>1, <1>5, <3>1, SamePeople DEF DeleteMesh, mesh_vars
      <3>2. CASE exists[mesh[c]]
        <4>1. /\ exists' = [exists EXCEPT ![mesh[c]] = FALSE]
              /\ member' = [member EXCEPT ![mesh[c]] = Nobody]
          BY <1>5, <3>2 DEF DeleteMesh
        <4>2. /\ ~exists'[mesh[c]] /\ member'[mesh[c]] = Nobody
              /\ \A m \in Mesh : m # mesh[c] => exists'[m] = exists[m] /\ member'[m] = member[m]
          BY <1>0, <4>1 DEF MeshOK
        <4> QED
          BY <1>1, <4>2 DEF Peopled, Members, BelongsToMesh, Nobody
      <3> QED
        BY <3>1, <3>2
    <2>3. Run(c)'
      BY <2>1 DEF Run, Normal
    <2> QED
      BY <1>1, <2>2, <2>3, RunOfOne
  <1>6. CASE Patch(c)
    <2>1. pc[c] = "patch" /\ pc'[c] = "status" /\ UNCHANGED <<exists, mesh, mine>>
      BY <1>0, <1>6 DEF Patch, PcOK, run_vars
    <2>2. Members(mine[c]) # {}
      BY <1>1, <2>1 DEF Run
    <2>3. \/ member' = member
          \/ view[c] = "current" /\ member' = [member EXCEPT ![mesh[c]] = mine[c]]
      BY <1>6 DEF Patch
    <2>4. Peopled'
      BY <1>1, <1>2, <2>1, <2>2, <2>3, SamePeople DEF NotReading
    <2>5. Run(c)'
      BY <2>1 DEF Run, Normal
    <2> QED
      BY <1>1, <2>4, <2>5, RunOfOne
  <1>7. CASE UpdateStatus(c) \/ CallFails(c)
    <2>1. /\ pc'[c] \in {"idle", "patch", "status"}
          /\ UNCHANGED <<exists, member>>
      BY <1>0, <1>7 DEF UpdateStatus, CallFails, Deferred, mesh_vars, PcOK
    <2>2. pc'[c] = "patch" => Members(mine[c]) # {} /\ mine' = mine
      BY <1>0, <1>7 DEF UpdateStatus, CallFails, Deferred, PcOK
    <2>3. Run(c)'
      BY <2>1, <2>2 DEF Run, Normal, Members, BelongsToMesh
    <2> QED
      BY <1>1, <2>1, <2>3, RunOfOne, SamePeople
  <1> QED
    BY <1>3, <1>4, <1>5, <1>6, <1>7

LEMMA RunStarts ==
  ASSUME TypeOK, OneWorker, RunInv, NEW c \in Cluster, Start(c)
  PROVE  RunInv'
  <1>0. PcOK /\ LocalOK /\ UserOK
    BY TypeOKParts
  <1>1. UNCHANGED <<exists, member>>
    BY DEF Start, Reconcile, ReconcileRemoved, mesh_vars
  <1>2. \A d \in Cluster \ {c} : pc'[d] = "idle"
    BY <1>0, StartsAlone, PcMoves DEF Moves, PcOK
  <1>3. info[c] # 0
    BY <1>0, ConstantsAssumption DEF UserOK
  <1>4. (pc'[c] = "get" /\ current'[c] = info[c]) \/ pc'[c] = "leave"
    BY <1>0 DEF Start, Reconcile, ReconcileRemoved, PopulateClusterSpec, PcOK, LocalOK
  <1>5. \A d \in Cluster : Run(d)'
    BY <1>2, <1>3, <1>4 DEF Run, Normal
  <1> QED
    BY <1>1, <1>5, SamePeople DEF RunInv

LEMMA RunInvStep ==
  ASSUME TypeOK, ReadInv, Serial, RunInv, OneWorker, [Next]_vars
  PROVE  RunInv'
  <1>1. CASE UNCHANGED <<exists, member, pc, mesh, current, mine, todo, view>>
    BY <1>1, SamePeople DEF RunInv, Run, Members, BelongsToMesh
  <1>2. ASSUME NEW c \in Cluster, Start(c) \/ Proceed(c) \/ CallFails(c) PROVE RunInv'
    BY <1>2, RunStarts, RunReads, RunBetween, RunWrites DEF Proceed
  <1>3. CASE Restart
    BY <1>3, SamePeople DEF Restart, RunInv, Run, Normal, mesh_vars
  <1>4. ASSUME NEW c \in Cluster, User(c) \/ ReconcileOutsider(c) PROVE RunInv'
    BY <1>1, <1>4 DEF User, Relabel, AddRouteTable, ReconcileOutsider, vars, run_vars, mesh_vars
  <1>5. CASE Crossplane \/ Cache \/ UNCHANGED vars
    BY <1>1, <1>5, CacheChanges DEF Crossplane, PeeringReady, GroupGone, vars, run_vars, mesh_vars
  <1> QED
    BY <1>2, <1>3, <1>4, <1>5 DEF Next

-----------------------------------------------------------------------------
(* One peering of two clusters.                                            *)

\* What a reconcile is about to create has no peering of its mesh against it,
\* unless an outdated read has changed that mesh.
TodoInv ==
    \A c \in Cluster : pc[c] = "peer" =>
        \A p \in todo[c] : p[1] = c /\ (mesh[c] \notin misled => owner[Reverse(p)] # mesh[c])

LEMMA TodoInvInit == Init => TodoInv /\ OnePeeringPerPair
  BY DEF Init, TodoInv, OnePeeringPerPair, Peerings

LEMMA ReverseTwice == \A p \in Pair : Reverse(p) \in Pair /\ Reverse(Reverse(p)) = p
  BY DEF Pair, Reverse

\* What an outdated read has changed stays so.
LEMMA MisledGrows == [Next]_vars => misled \subseteq misled'
  <1> SUFFICES ASSUME [Next]_vars PROVE misled \subseteq misled'
    OBVIOUS
  <1>1. ASSUME NEW c \in Cluster, \/ Start(c) \/ ReconcileOutsider(c) \/ User(c) \/ CallFails(c)
        PROVE  misled' = misled
    BY <1>1 DEF Start, Reconcile, ReconcileRemoved, ReconcileOutsider, User, Relabel,
                AddRouteTable, CallFails, vars
  <1>2. ASSUME NEW c \in Cluster, \/ GetMesh(c) \/ CreateMesh(c) \/ Join(c) \/ PeeringsDone(c)
                                  \/ WriteGroup(c) \/ OwnGroup(c) \/ ListForRoutes(c)
                                  \/ Validate(c) \/ GetMeshToLeave(c) \/ DeleteGroup(c)
                                  \/ LeaveMesh(c) \/ Patch(c) \/ UpdateStatus(c)
        PROVE  misled' = misled
    BY <1>2 DEF GetMesh, CreateMesh, Join, PeeringsDone, WriteGroup, OwnGroup, ListForRoutes,
                Validate, GetMeshToLeave, DeleteGroup, LeaveMesh, Patch, UpdateStatus
  <1>3. ASSUME NEW c \in Cluster, ListPeerings(c) \/ DeleteMesh(c) PROVE misled \subseteq misled'
    BY <1>3 DEF ListPeerings, DeleteMesh, Misled
  <1>4. ASSUME NEW c \in Cluster, NEW p \in Pair,
               CreatePeering(c, p) \/ ManageRoutes(c, p) \/ DeletePeering(c, p)
        PROVE  misled \subseteq misled'
    BY <1>4 DEF CreatePeering, ManageRoutes, DeletePeering, Misled
  <1>5. CASE Crossplane \/ Restart \/ Cache \/ UNCHANGED vars
    BY <1>5, CacheChanges DEF Crossplane, PeeringReady, GroupGone, Restart, vars
  <1> QED
    BY <1>1, <1>2, <1>3, <1>4, <1>5 DEF Next, Proceed

\* What the three writers of owners do to them.
LEMMA CreatedPeering ==
  ASSUME TypeOK, NEW c \in Cluster, NEW p \in Pair, CreatePeering(c, p)
  PROVE  /\ \A q \in Pair : owner'[q] = IF q = p /\ owner[p] = None /\ view[c] # "gone"
                                        THEN mesh[c] ELSE owner[q]
         /\ view[c] = "old" /\ owner[p] = None => mesh[c] \in misled'
         /\ misled \subseteq misled'
  BY TypeOKParts DEF CreatePeering, NewPeering, PeerOK, Misled

\* A new peering in a mesh that no outdated read has changed is that of a
\* current copy.
LEMMA CreatedCurrent ==
  ASSUME TypeOK, NEW c \in Cluster, NEW p \in Pair, CreatePeering(c, p), owner[p] = None,
         view[c] # "gone", mesh[c] \notin misled'
  PROVE  view[c] = "current" /\ mesh[c] \notin misled
  BY CreatedPeering, TypeOKParts DEF PcOK

LEMMA DeletedPeering ==
  ASSUME NEW c \in Cluster, NEW p \in Pair, DeletePeering(c, p)
  PROVE  \A q \in Pair : owner'[q] = IF q = p THEN None ELSE owner[q]
  BY DEF DeletePeering, Remove

LEMMA DeletedMesh ==
  ASSUME NEW c \in Cluster, DeleteMesh(c)
  PROVE  \A q \in Pair : owner'[q] = IF exists[mesh[c]] /\ owner[q] = mesh[c] THEN None
                                     ELSE owner[q]
  BY DEF DeleteMesh, Remove, PeeringsOf, peer_vars

\* No peering appears, but one that a reconcile was about to create.
Fewer == \A q \in Pair : owner'[q] \in {owner[q], None}

LEMMA PeeringsGrow ==
  ASSUME Next
  PROVE  Fewer \/ \E c \in Cluster : \E p \in Pair : CreatePeering(c, p)
  <1>1. CASE UNCHANGED owner
    BY <1>1 DEF Fewer
  <1>2. ASSUME NEW c \in Cluster, DeleteMesh(c) PROVE Fewer
    BY <1>2, DeletedMesh DEF Fewer
  <1>3. ASSUME NEW c \in Cluster, NEW p \in Pair, DeletePeering(c, p) PROVE Fewer
    BY <1>3, DeletedPeering DEF Fewer
  <1> QED
    BY <1>1, <1>2, <1>3, OwnerWriters

LEMMA PairsStep ==
  ASSUME TypeOK, TodoInv, OnePeeringPerPair, [Next]_vars
  PROVE  OnePeeringPerPair'
  <1> SUFFICES ASSUME NEW p \in Peerings', p[1] # p[2], owner'[p] \notin misled'
               PROVE  owner'[Reverse(p)] # owner'[p]
    BY DEF OnePeeringPerPair
  <1>1. p \in Pair /\ owner'[p] # None /\ Reverse(p) \in Pair /\ Reverse(p) # p
    BY ReverseTwice DEF Peerings, Pair, Reverse
  <1>2. owner[p] # None /\ owner[p] \notin misled => owner[Reverse(p)] # owner[p]
    BY <1>1 DEF OnePeeringPerPair, Peerings
  <1>3. CASE Fewer \/ UNCHANGED vars
    BY <1>1, <1>2, <1>3, MisledGrows DEF Fewer, vars, peer_vars
  <1>4. ASSUME NEW c \in Cluster, NEW q \in Pair, CreatePeering(c, q)
        PROVE  owner'[Reverse(p)] # owner'[p]
    <2> DEFINE new == owner[q] = None /\ view[c] # "gone"
    <2>1. /\ owner'[p] = IF p = q /\ new THEN mesh[c] ELSE owner[p]
          /\ owner'[Reverse(p)] = IF Reverse(p) = q /\ new THEN mesh[c] ELSE owner[Reverse(p)]
          /\ misled \subseteq misled'
      BY <1>1, <1>4, CreatedPeering
    <2>2. mesh[c] \notin misled' => owner[Reverse(q)] # mesh[c]
      BY <1>4, <2>1 DEF CreatePeering, TodoInv
    <2>3. CASE p = q
      BY <1>1, <1>2, <2>1, <2>2, <2>3
    <2>4. CASE p # q
      <3>1. Reverse(p) = q => Reverse(q) = p
        BY <1>1, ReverseTwice
      <3> QED
        BY <1>1, <1>2, <2>1, <2>2, <2>4, <3>1
    <2> QED
      BY <2>3, <2>4
  <1> QED
    BY <1>3, <1>4, PeeringsGrow

\* A step of c keeps what the others are about to create: they are idle.
LEMMA TodoOfOne ==
  ASSUME TypeOK, Serial, NEW c \in Cluster, pc[c] # "idle", Moves(c),
         pc'[c] = "peer" => \A p \in todo'[c] :
                               /\ p[1] = c
                               /\ mesh'[c] \notin misled' => owner'[Reverse(p)] # mesh'[c]
  PROVE  TodoInv'
  BY OthersIdle DEF TodoInv

LEMMA TodoStep ==
  ASSUME TypeOK, Serial, TodoInv, OneWorker, [Next]_vars
  PROVE  TodoInv'
  <1>0. PcOK /\ LocalOK
    BY TypeOKParts
  <1>1. CASE UNCHANGED <<owner, pc, mesh, todo, misled>>
    BY <1>1 DEF TodoInv
  <1>2. ASSUME NEW c \in Cluster, Start(c) PROVE TodoInv'
    <2>1. pc'[c] # "peer"
      BY <1>0, <1>2 DEF Start, Reconcile, ReconcileRemoved, PcOK
    <2>2. \A d \in Cluster : pc'[d] # "peer"
      BY <1>0, <1>2, <2>1, StartsAlone, PcMoves DEF Moves, PcOK
    <2> QED
      BY <2>2 DEF TodoInv
  <1>3. ASSUME NEW c \in Cluster, Proceed(c) \/ CallFails(c), pc'[c] # "peer" PROVE TodoInv'
    BY <1>3, TodoOfOne, PcMoves, ProceedIsBusy
  <1>4. ASSUME NEW c \in Cluster, ListPeerings(c) PROVE TodoInv'
    <2>1. Moves(c) /\ pc[c] # "idle" /\ mesh[c] \in Mesh /\ UNCHANGED <<owner, mesh>>
      BY <1>0, <1>4, PcMoves, ProceedIsBusy DEF ListPeerings, Proceed, PcOK, peer_vars
    <2>2. refs'[c] = Owned(mesh[c])
      BY <1>0, <1>4 DEF ListPeerings, LocalOK
    <2>3. todo'[c] = {p \in {c} \X Members(mine[c]) :
                         /\ ~(p[2] = c /\ mine[c][c] = current[c])
                         /\ p \notin refs'[c]
                         /\ Reverse(p) \notin refs'[c]}
      BY <1>0, <1>4 DEF ListPeerings, LocalOK
    <2>4. {c} \X Members(mine[c]) \subseteq Pair
      BY DEF Pair, Members
    <2>5. mesh[c] \notin misled' => Owned(mesh[c]) = PeeringsOf(mesh[c])
      BY <1>4 DEF ListPeerings, Misled
    <2>6. \A p \in todo'[c] : /\ p[1] = c
                              /\ mesh[c] \notin misled' => owner[Reverse(p)] # mesh[c]
      BY <2>2, <2>3, <2>4, <2>5, ReverseTwice DEF PeeringsOf
    <2> QED
      BY <2>1, <2>6, TodoOfOne
  <1>5. ASSUME NEW c \in Cluster, NEW p \in Pair, CreatePeering(c, p) PROVE TodoInv'
    <2>1. /\ \A q \in Pair : q # p => owner'[q] = owner[q]
          /\ misled \subseteq misled'
      BY <1>5, CreatedPeering
    <2>2. /\ pc[c] = "peer"
          /\ p \in todo[c]
          /\ todo'[c] = todo[c] \ {p}
          /\ mesh' = mesh
      BY <1>0, <1>5 DEF CreatePeering, LocalOK
    <2>3. ASSUME NEW q \in todo'[c]
          PROVE  q[1] = c /\ (mesh[c] \notin misled' => owner'[Reverse(q)] # mesh[c])
      <3>1. /\ q \in Pair /\ q # p /\ q[1] = c /\ p[1] = c
            /\ mesh[c] \notin misled => owner[Reverse(q)] # mesh[c]
        BY <1>0, <2>2, <2>3 DEF TodoInv, LocalOK
      <3>2. CASE Reverse(q) # p
        <4>1. Reverse(q) \in Pair
          BY <3>1, ReverseTwice
        <4> QED
          BY <2>1, <3>1, <3>2, <4>1
      <3>3. CASE Reverse(q) = p
        <4>1. q = p
          BY <3>1, <3>3 DEF Pair, Reverse
        <4> QED
          BY <3>1, <4>1
      <3> QED
        BY <3>2, <3>3
    <2>4. Moves(c)
      BY <1>5, PcMoves DEF Proceed
    <2> QED
      BY <2>2, <2>3, <2>4, TodoOfOne
  <1>6. ASSUME NEW c \in Cluster, NEW p \in Pair, ManageRoutes(c, p) \/ DeletePeering(c, p)
        PROVE  pc'[c] # "peer"
    BY <1>6 DEF ManageRoutes, DeletePeering
  <1>7. ASSUME NEW c \in Cluster, \/ GetMesh(c) \/ CreateMesh(c) \/ Join(c) \/ PeeringsDone(c)
                                  \/ WriteGroup(c) \/ OwnGroup(c) \/ ListForRoutes(c)
                                  \/ Validate(c) \/ CallFails(c)
        PROVE  pc'[c] # "peer"
    BY <1>0, <1>7 DEF GetMesh, CreateMesh, Join, PeeringsDone, WriteGroup, OwnGroup, ListForRoutes,
                      Validate, CallFails, Deferred, PcOK
  <1>8. ASSUME NEW c \in Cluster, \/ GetMeshToLeave(c) \/ DeleteGroup(c) \/ LeaveMesh(c)
                                  \/ DeleteMesh(c) \/ Patch(c) \/ UpdateStatus(c)
        PROVE  pc'[c] # "peer"
    BY <1>0, <1>8 DEF GetMeshToLeave, DeleteGroup, LeaveMesh, DeleteMesh, Patch, UpdateStatus, PcOK
  <1>9. CASE Restart
    BY <1>9 DEF Restart, TodoInv
  <1>10. ASSUME NEW c \in Cluster, User(c) \/ ReconcileOutsider(c) PROVE TodoInv'
    BY <1>1, <1>10 DEF User, Relabel, AddRouteTable, ReconcileOutsider, vars, run_vars, peer_vars
  <1>11. CASE Crossplane \/ Cache \/ UNCHANGED vars
    BY <1>1, <1>11, CacheChanges DEF Crossplane, PeeringReady, GroupGone, vars, run_vars, peer_vars
  <1> QED
    BY <1>2, <1>3, <1>4, <1>5, <1>6, <1>7, <1>8, <1>9, <1>10, <1>11 DEF Next, Proceed

\* With one worker, two clusters never have a peering each way in one mesh, for
\* any number of meshes, whatever fails between the calls and however old the
\* caches are, but in the meshes that an outdated read has changed.
THEOREM OnePeeringHolds == OneWorker => (Spec => []OnePeeringPerPair)
  <1>1. SUFFICES ASSUME OneWorker PROVE Spec => []OnePeeringPerPair
    OBVIOUS
  <1>2. TypeOK /\ Serial /\ [Next]_vars => Serial'
    BY <1>1, SerialStep
  <1>3. TypeOK /\ TodoInv /\ OnePeeringPerPair /\ [Next]_vars => OnePeeringPerPair'
    BY PairsStep
  <1>4. TypeOK /\ Serial /\ TodoInv /\ [Next]_vars => TodoInv'
    BY <1>1, TodoStep
  <1> QED
    BY <1>2, <1>3, <1>4, InitTypeOK, TypeOKStep, SerialInit, TodoInvInit, PTL DEF Spec

-----------------------------------------------------------------------------
(* Peerings of members only.                                               *)

\* The peerings of mesh m join clusters of that list of members.
Joined(m, recorded) == \A p \in PeeringsOf(m) : recorded[p[1]] # 0 /\ recorded[p[2]] # 0

Before == {"idle", "get", "create", "join", "peerings", "leave"}
Knows  == {"peer", "group", "own", "routes", "route", "patch", "status", "ungroup", "unpeer"}

\* A reconcile that reads what there is.
Trusted(c) == view[c] = "current" /\ mesh[c] \notin misled

\* What such a reconcile has at each of its steps, when no call fails: the
\* peerings it will record and, leaving, those it must delete.
Kept(c) ==
    Trusted(c) =>
        /\ pc[c] \in Knows => PeeringsOf(mesh[c]) \subseteq refs[c]
        /\ pc[c] = "unpeer" => \A p \in PeeringsOf(mesh[c]) : c \in {p[1], p[2]} => p \in todo[c]
        /\ pc[c] = "patch" => Joined(mesh[c], mine[c])

\* No reconcile that will write the status of mesh m is under way.
Unwritten(m) == \A c \in Cluster : pc[c] \in Before \/ mesh[c] # m \/ view[c] # "current"

\* The status of a mesh names every peering of it, but while a reconcile that
\* will write it is under way; its peerings join its members at every moment.
Recorded ==
    \A m \in Mesh \ misled :
        /\ Unwritten(m) => PeeringsOf(m) \subseteq status[m]
        /\ Joined(m, member[m])
        /\ ~exists[m] => PeeringsOf(m) = {}

AllKept == Recorded /\ \A c \in Cluster : Kept(c)

KeptInv == faults = 0 => AllKept

LEMMA KeptInvInit == Init => KeptInv
  <1> SUFFICES ASSUME Init PROVE AllKept
    BY DEF KeptInv
  <1>1. \A m \in Mesh : PeeringsOf(m) = {}
    BY ConstantsAssumption DEF Init, PeeringsOf
  <1>2. Recorded
    BY <1>1 DEF Recorded, Joined
  <1>3. \A c \in Cluster : Kept(c)
    BY DEF Init, Kept, Knows
  <1> QED
    BY <1>2, <1>3 DEF AllKept

\* A step of the reconcile of c: the others are idle, and what holds of a
\* reconcile under way has to be shown of c only.
LEMMA KeptOfOne ==
  ASSUME TypeOK, Serial, NEW c \in Cluster, pc[c] # "idle", Moves(c), Kept(c)'
  PROVE  \A d \in Cluster : Kept(d)'
  <1>1. \A d \in Cluster \ {c} : pc'[d] = "idle"
    BY OthersIdle
  <1>2. \A d \in Cluster \ {c} : Kept(d)'
    BY <1>1 DEF Kept, Knows
  <1> QED
    BY <1>2

\* It alone decides whether a status is about to be written.
LEMMA UnwrittenByOne ==
  ASSUME TypeOK, Serial, NEW c \in Cluster, pc[c] # "idle", Moves(c), NEW m \in Mesh
  PROVE  /\ Unwritten(m) <=> pc[c] \in Before \/ mesh[c] # m \/ view[c] # "current"
         /\ Unwritten(m)' <=> pc'[c] \in Before \/ mesh'[c] # m \/ view'[c] # "current"
  BY OthersIdle DEF Unwritten, Before

\* A step that changes neither the meshes nor the peerings.
LEMMA QuietStep ==
  ASSUME TypeOK, Serial, AllKept, NEW c \in Cluster, pc[c] # "idle", Moves(c),
         UNCHANGED <<exists, member, status, owner, mesh>>, misled \subseteq misled',
         \/ pc[c] \in Before \/ view[c] # "current"
         \/ pc'[c] \notin Before /\ view'[c] = view[c],
         Kept(c)'
  PROVE  AllKept'
  <1>1. \A m \in Mesh : Unwritten(m)' => Unwritten(m)
    BY UnwrittenByOne
  <1>2. Recorded'
    BY <1>1 DEF AllKept, Recorded, Joined, PeeringsOf
  <1> QED
    BY <1>2, KeptOfOne DEF AllKept

LEMMA KeptReads ==
  ASSUME TypeOK, Serial, AllKept, NEW c \in Cluster,
         GetMesh(c) \/ ListPeerings(c) \/ GetMeshToLeave(c) \/ DeleteGroup(c)
  PROVE  AllKept'
  <1>0. PcOK /\ LocalOK /\ mesh[c] \in Mesh
    BY TypeOKParts DEF PcOK
  <1>1. pc[c] # "idle" /\ Moves(c)
    BY PcMoves, ProceedIsBusy DEF Proceed
  <1>2. Kept(c) /\ Recorded
    BY DEF AllKept
  <1>3. UNCHANGED <<exists, member, status, owner, mesh>>
    BY DEF GetMesh, ListPeerings, GetMeshToLeave, DeleteGroup, mesh_vars, peer_vars
  <1>4. PeeringsOf(mesh[c])' = PeeringsOf(mesh[c])
    BY <1>3 DEF PeeringsOf
  <1>5. CASE GetMesh(c)
    <2>1. pc[c] = "get" /\ pc'[c] \in {"join", "peerings", "create"} /\ misled' = misled
      BY <1>0, <1>5 DEF GetMesh, PcOK
    <2>2. Kept(c)'
      BY <2>1 DEF Kept, Knows
    <2> QED
      BY <1>1, <1>3, <2>1, <2>2, QuietStep DEF Before
  <1>6. CASE ListPeerings(c)
    <2>1. pc[c] = "peerings" /\ pc'[c] = "peer"
      BY <1>0, <1>6 DEF ListPeerings, PcOK
    <2>2. refs'[c] = Owned(mesh[c])
      BY <1>0, <1>6 DEF ListPeerings, LocalOK
    <2>3. /\ misled \subseteq misled'
          /\ mesh[c] \notin misled' => Owned(mesh[c]) = PeeringsOf(mesh[c])
      BY <1>6 DEF ListPeerings, Misled
    <2>4. Kept(c)'
      BY <1>3, <1>4, <2>1, <2>2, <2>3 DEF Kept, Knows, Trusted
    <2> QED
      BY <1>1, <1>3, <2>1, <2>3, <2>4, QuietStep DEF Before
  <1>7. CASE GetMeshToLeave(c)
    <2>1. pc[c] = "leave" /\ misled' = misled
      BY <1>7 DEF GetMeshToLeave
    <2>2. mesh[c] \notin misled => PeeringsOf(mesh[c]) \subseteq status[mesh[c]]
      BY <1>0, <1>1, <1>2, <2>1, UnwrittenByOne DEF Recorded, Before
    <2>3. \/ /\ pc'[c] = "ungroup"
             /\ refs'[c] = Seen(mesh[c]).status
             /\ view'[c] = ViewOf(mesh[c])
          \/ pc'[c] = "idle"
      BY <1>0, <1>7 DEF GetMeshToLeave, Take, PcOK, LocalOK
    <2>4. Kept(c)'
      BY <1>0, <1>3, <1>4, <2>1, <2>2, <2>3, ReadPresent DEF Kept, Knows, Trusted
    <2> QED
      BY <1>1, <1>3, <2>1, <2>4, QuietStep DEF Before
  <1>8. CASE DeleteGroup(c)
    <2>1. pc[c] = "ungroup" /\ pc'[c] = "unpeer" /\ UNCHANGED <<refs, view, misled>>
      BY <1>0, <1>8 DEF DeleteGroup, PcOK
    <2>2. todo'[c] = Named(c, refs[c])
      BY <1>0, <1>8 DEF DeleteGroup, LocalOK
    <2>3. ASSUME Trusted(c), NEW p \in PeeringsOf(mesh[c]), c \in {p[1], p[2]} PROVE p \in todo'[c]
      <3>1. <<c, p>> \in Inside
        BY <2>3, ConstantsAssumption DEF PeeringsOf
      <3>2. p \in refs[c]
        BY <1>2, <2>1, <2>3 DEF Kept, Knows
      <3> QED
        BY <2>2, <3>1, <3>2 DEF Named
    <2>4. Trusted(c)' => Trusted(c)
      BY <1>3, <2>1 DEF Trusted
    <2>5. Kept(c)'
      BY <1>2, <1>4, <2>1, <2>3, <2>4 DEF Kept, Knows
    <2> QED
      BY <1>1, <1>3, <2>1, <2>5, QuietStep DEF Before
  <1> QED
    BY <1>5, <1>6, <1>7, <1>8

\* The steps between the calls that matter here.
LEMMA KeptBetween ==
  ASSUME TypeOK, Serial, RunInv, AllKept, NEW c \in Cluster,
         \/ PeeringsDone(c) \/ WriteGroup(c) \/ OwnGroup(c) \/ ListForRoutes(c) \/ Validate(c)
         \/ \E p \in Pair : ManageRoutes(c, p)
  PROVE  AllKept'
  <1>0. PcOK /\ mesh[c] \in Mesh
    BY TypeOKParts DEF PcOK
  <1>1. pc[c] # "idle" /\ Moves(c)
    BY PcMoves, ProceedIsBusy DEF Proceed
  <1>2. Kept(c) /\ Recorded /\ Run(c)
    BY DEF AllKept, RunInv
  <1>3. UNCHANGED <<exists, member, status, owner, mesh, mine, refs, view, misled>>
    BY DEF PeeringsDone, WriteGroup, OwnGroup, ListForRoutes, Validate, ManageRoutes, mesh_vars,
           peer_vars, run_vars
  <1>4. /\ pc[c] \in {"peer", "group", "own", "routes", "route"}
        /\ pc'[c] \in {"group", "own", "routes", "route", "patch"}
    BY <1>0 DEF PeeringsDone, WriteGroup, OwnGroup, ListForRoutes, Validate, ManageRoutes, PcOK
  <1>5. PeeringsOf(mesh[c])' = PeeringsOf(mesh[c])
    BY <1>3 DEF PeeringsOf
  <1>6. Trusted(c) => Joined(mesh[c], mine[c])
    BY <1>0, <1>2, <1>4 DEF Run, Normal, Recorded, Trusted
  <1>7. Kept(c)'
    BY <1>2, <1>3, <1>4, <1>5, <1>6 DEF Kept, Knows, Joined, Trusted
  <1> QED
    BY <1>1, <1>3, <1>4, <1>7, QuietStep DEF Before

\* The writes of a joining cluster.
LEMMA KeptJoins ==
  ASSUME TypeOK, ReadInv, Serial, RunInv, AllKept, NEW c \in Cluster,
         CreateMesh(c) \/ Join(c) \/ \E p \in Pair : CreatePeering(c, p)
  PROVE  AllKept'
  <1>0. PcOK /\ LocalOK /\ MeshOK /\ mesh[c] \in Mesh
    BY TypeOKParts DEF PcOK
  <1>1. pc[c] # "idle" /\ Moves(c)
    BY PcMoves, ProceedIsBusy DEF Proceed
  <1>2. Kept(c) /\ Recorded /\ Fresh(c) /\ Run(c)
    BY DEF AllKept, ReadInv, RunInv
  <1>3. CASE CreateMesh(c)
    <2>1. UNCHANGED <<status, owner, mesh, misled>> /\ pc[c] = "create" /\ pc'[c] = "idle"
      BY <1>0, <1>3 DEF CreateMesh, peer_vars, PcOK
    <2>2. \A m : PeeringsOf(m)' = PeeringsOf(m)
      BY <2>1 DEF PeeringsOf
    <2>3. ASSUME NEW m \in Mesh \ misled
          PROVE  Joined(m, member[m])' /\ (~exists'[m] => PeeringsOf(m)' = {})
      <3>1. CASE exists[mesh[c]] \/ m # mesh[c]
        BY <1>0, <1>2, <1>3, <2>2, <3>1 DEF CreateMesh, Recorded, Joined, MeshOK
      <3>2. CASE ~exists[mesh[c]] /\ m = mesh[c]
        BY <1>0, <1>2, <2>2, <3>2 DEF Recorded, Joined
      <3> QED
        BY <3>1, <3>2
    <2>4. Recorded'
      BY <1>1, <1>2, <2>1, <2>2, <2>3, UnwrittenByOne DEF Recorded, Before
    <2>5. Kept(c)'
      BY <2>1 DEF Kept, Knows
    <2> QED
      BY <1>1, <2>4, <2>5, KeptOfOne DEF AllKept
  <1>4. CASE Join(c) /\ view[c] = "current"
    <2>1. /\ UNCHANGED <<status, owner, exists, mesh, mine, misled>>
          /\ pc[c] = "join" /\ pc'[c] = "peerings"
          /\ member' = [member EXCEPT ![mesh[c]] = mine[c]]
      BY <1>0, <1>4 DEF Join, peer_vars, run_vars, PcOK
    <2>2. \A m : PeeringsOf(m)' = PeeringsOf(m) /\ PeeringsOf(m) \subseteq Pair
      BY <2>1 DEF PeeringsOf
    <2>3. \A m \in Mesh : member'[m] = IF m = mesh[c] THEN mine[c] ELSE member[m]
      BY <1>0, <2>1 DEF MeshOK
    <2>4. \A d \in Cluster \ {c} : mine[c][d] = member[mesh[c]][d]
      BY <1>2, <1>4, <2>1 DEF Fresh, NotReading
    <2>5. mine[c][c] # 0
      BY <1>2, <2>1 DEF Run
    <2>6. mesh[c] \notin misled => Joined(mesh[c], mine[c])
      <3> SUFFICES ASSUME mesh[c] \notin misled,
                          NEW p \in PeeringsOf(mesh[c]), NEW d \in {p[1], p[2]}
                   PROVE  mine[c][d] # 0
        BY DEF Joined
      <3>1. d \in Cluster /\ member[mesh[c]][d] # 0
        BY <1>0, <1>2, <2>2 DEF Pair, Recorded, Joined
      <3> QED
        BY <2>4, <2>5, <3>1
    <2>7. Recorded'
      BY <1>1, <1>2, <2>1, <2>2, <2>3, <2>6, UnwrittenByOne DEF Recorded, Joined, Before
    <2>8. Kept(c)'
      BY <2>1 DEF Kept, Knows
    <2> QED
      BY <1>1, <2>7, <2>8, KeptOfOne DEF AllKept
  <1>5. CASE Join(c) /\ view[c] # "current"
    <2>1. /\ UNCHANGED <<exists, member, status, owner, mesh, view, misled>>
          /\ pc[c] = "join"
      BY <1>5 DEF Join, peer_vars, run_vars
    <2>2. Kept(c)'
      BY <1>5, <2>1 DEF Kept, Trusted
    <2> QED
      BY <1>1, <2>1, <2>2, QuietStep DEF Before
  <1>6. ASSUME NEW p \in Pair, CreatePeering(c, p) PROVE AllKept'
    <2> DEFINE new == owner[p] = None /\ view[c] # "gone"
    <2>1. /\ UNCHANGED <<exists, member, status, mesh, mine, pc, view>>
          /\ pc[c] = "peer" /\ p \in todo[c]
          /\ refs'[c] = refs[c] \cup {p}
      BY <1>0, <1>6 DEF CreatePeering, mesh_vars, LocalOK
    <2>2. /\ \A q \in Pair : owner'[q] = IF q = p /\ new THEN mesh[c] ELSE owner[q]
          /\ misled \subseteq misled'
      BY <1>6, CreatedPeering
    <2>3. /\ PeeringsOf(mesh[c])' \subseteq PeeringsOf(mesh[c]) \cup {p}
          /\ \A m \in Mesh : m # mesh[c] => PeeringsOf(m)' = PeeringsOf(m)
          /\ ~new => PeeringsOf(mesh[c])' = PeeringsOf(mesh[c])
      <3>1. ASSUME NEW m \in Mesh, NEW q \in Pair, m # mesh[c] \/ ~new
            PROVE  owner'[q] = m <=> owner[q] = m
        BY <2>2, <3>1, ConstantsAssumption
      <3>2. \A q \in Pair : owner'[q] = mesh[c] => owner[q] = mesh[c] \/ q = p
        BY <2>2
      <3>3. PeeringsOf(mesh[c])' \subseteq PeeringsOf(mesh[c]) \cup {p}
        BY <2>1, <3>2 DEF PeeringsOf
      <3>4. \A m \in Mesh : m # mesh[c] \/ ~new => PeeringsOf(m)' = PeeringsOf(m)
        BY <3>1 DEF PeeringsOf
      <3> QED
        BY <1>0, <2>1, <3>3, <3>4 DEF PeeringsOf
    <2>4. new /\ mesh[c] \notin misled' => Trusted(c)
      BY <1>6, CreatedCurrent DEF Trusted
    <2>5. Trusted(c) => /\ p[1] = c /\ p[2] \in Members(mine[c])
                        /\ mine[c] = member[mesh[c]] /\ mine[c][c] # 0
                        /\ exists[mesh[c]]
      BY <1>2, <2>1 DEF Run, Normal, Fresh, NotReading, Trusted
    <2>6. mesh[c] \notin misled' => Joined(mesh[c], member[mesh[c]])'
      <3>1. CASE new
        BY <1>0, <1>2, <2>1, <2>2, <2>3, <2>4, <2>5, <3>1
        DEF Joined, Recorded, Members, BelongsToMesh
      <3>2. CASE ~new
        BY <1>0, <1>2, <2>1, <2>2, <2>3, <3>2 DEF Joined, Recorded
      <3> QED
        BY <3>1, <3>2
    <2>7. mesh[c] \notin misled' /\ ~exists[mesh[c]] => PeeringsOf(mesh[c])' = {}
      BY <1>0, <1>2, <2>2, <2>3, <2>4, <2>5 DEF Recorded
    <2>8. mesh[c] \notin misled' /\ Unwritten(mesh[c])' => PeeringsOf(mesh[c])' \subseteq status[mesh[c]]
      BY <1>0, <1>1, <1>2, <2>1, <2>2, <2>3, <2>4, UnwrittenByOne DEF Recorded, Trusted, Before
    <2>9. ASSUME NEW m \in Mesh, m # mesh[c], m \notin misled'
          PROVE  /\ Unwritten(m)' => PeeringsOf(m)' \subseteq status[m]
                 /\ Joined(m, member[m])'
                 /\ ~exists[m] => PeeringsOf(m)' = {}
      BY <1>1, <1>2, <2>1, <2>2, <2>3, <2>9, UnwrittenByOne DEF Recorded, Joined
    <2>10. Recorded'
      BY <2>1, <2>6, <2>7, <2>8, <2>9 DEF Recorded
    <2>11. Trusted(c)' => Trusted(c)
      BY <2>1, <2>2 DEF Trusted
    <2>12. Kept(c)'
      BY <1>2, <2>1, <2>3, <2>11 DEF Kept, Knows
    <2> QED
      BY <1>1, <2>10, <2>12, KeptOfOne DEF AllKept
  <1> QED
    BY <1>3, <1>4, <1>5, <1>6

\* Those of a leaving one, and the deferred ones.
LEMMA KeptLeaves ==
  ASSUME TypeOK, ReadInv, Serial, AllKept, NEW c \in Cluster,
         \/ LeaveMesh(c) \/ DeleteMesh(c) \/ Patch(c) \/ UpdateStatus(c)
         \/ \E p \in Pair : DeletePeering(c, p)
  PROVE  AllKept'
  <1>0. PcOK /\ LocalOK /\ MeshOK /\ mesh[c] \in Mesh
    BY TypeOKParts DEF PcOK
  <1>1. pc[c] # "idle" /\ Moves(c)
    BY PcMoves, ProceedIsBusy DEF Proceed
  <1>2. Kept(c) /\ Recorded /\ Fresh(c)
    BY DEF AllKept, ReadInv
  <1>3. \A m : PeeringsOf(m) \subseteq Pair
    BY DEF PeeringsOf
  <1>4. ASSUME NEW p \in Pair, DeletePeering(c, p) PROVE AllKept'
    <2>1. /\ UNCHANGED <<exists, member, status, mesh, mine, pc, view, misled>>
          /\ pc[c] = "unpeer"
          /\ refs'[c] = refs[c] \ {p}
          /\ todo'[c] = todo[c] \ {p}
      BY <1>0, <1>4 DEF DeletePeering, mesh_vars, LocalOK
    <2>2. \A m \in Mesh : PeeringsOf(m)' = PeeringsOf(m) \ {p}
      BY <1>4, DeletedPeering, ConstantsAssumption DEF PeeringsOf
    <2>3. Recorded'
      BY <1>1, <1>2, <2>1, <2>2, UnwrittenByOne DEF Recorded, Joined
    <2>4. Kept(c)'
      BY <1>0, <1>2, <2>1, <2>2 DEF Kept, Knows, Trusted
    <2> QED
      BY <1>1, <2>3, <2>4, KeptOfOne DEF AllKept
  <1>5. CASE LeaveMesh(c)
    <2>1. /\ UNCHANGED <<exists, member, status, owner, mesh, refs, view, misled>>
          /\ pc[c] = "unpeer" /\ todo[c] = {}
          /\ pc'[c] \in {"delete", "patch"}
      BY <1>0, <1>5 DEF LeaveMesh, mesh_vars, peer_vars, PcOK
    <2>2. Trusted(c) => \A d \in Cluster \ {c} : mine'[c][d] = member[mesh[c]][d]
      BY <1>0, <1>2, <1>5, <2>1 DEF LeaveMesh, LocalOK, Fresh, NotReading, Trusted
    <2>3. Trusted(c) => \A p \in PeeringsOf(mesh[c]) : p[1] \in Cluster \ {c} /\ p[2] \in Cluster \ {c}
      BY <1>2, <1>3, <2>1 DEF Kept, Pair
    <2>4. PeeringsOf(mesh[c])' = PeeringsOf(mesh[c])
      BY <2>1 DEF PeeringsOf
    <2>5. Trusted(c) => Joined(mesh[c], mine[c])'
      BY <1>0, <1>2, <2>2, <2>3, <2>4 DEF Joined, Recorded, Trusted
    <2>6. Kept(c)'
      BY <1>2, <2>1, <2>4, <2>5 DEF Kept, Knows, Trusted
    <2> QED
      BY <1>1, <2>1, <2>6, QuietStep DEF Before
  <1>6. CASE DeleteMesh(c)
    <2>1. \A m \in Mesh : PeeringsOf(m)' = IF exists[mesh[c]] /\ m = mesh[c] THEN {} ELSE PeeringsOf(m)
      BY <1>0, <1>6, DeletedMesh, ConstantsAssumption DEF PeeringsOf
    <2>2. /\ pc[c] = "delete" /\ pc'[c] = "idle" /\ mesh' = mesh
          /\ misled \subseteq misled'
          /\ \A m \in Mesh : m # mesh[c] \/ ~exists[mesh[c]] =>
                /\ member'[m] = member[m]
                /\ status'[m] = status[m]
                /\ exists'[m] = exists[m]
      BY <1>0, <1>6 DEF DeleteMesh, Misled, PcOK, MeshOK, mesh_vars
    <2>3. ASSUME NEW m \in Mesh \ misled
          PROVE  /\ Unwritten(m)' => PeeringsOf(m)' \subseteq status'[m]
                 /\ Joined(m, member[m])'
                 /\ ~exists'[m] => PeeringsOf(m)' = {}
      <3>1. CASE m # mesh[c]
        BY <1>1, <1>2, <2>1, <2>2, <3>1, UnwrittenByOne DEF Recorded, Joined
      <3>2. CASE m = mesh[c]
        <4>1. PeeringsOf(m)' = {}
          BY <1>2, <2>1, <3>2 DEF Recorded
        <4> QED
          BY <4>1 DEF Joined
      <3> QED
        BY <3>1, <3>2
    <2>4. Recorded'
      BY <2>2, <2>3 DEF Recorded
    <2>5. Kept(c)'
      BY <2>2 DEF Kept, Knows
    <2> QED
      BY <1>1, <2>4, <2>5, KeptOfOne DEF AllKept
  <1>7. CASE Patch(c)
    <2>1. /\ UNCHANGED <<status, owner, exists, mesh, mine, refs, misled>>
          /\ pc[c] = "patch" /\ pc'[c] = "status"
          /\ \/ member' = member /\ view' = view
             \/ /\ view[c] = "current"
                /\ member' = [member EXCEPT ![mesh[c]] = mine[c]]
                /\ Touched(c, mesh[c])
      BY <1>0, <1>7 DEF Patch, peer_vars, run_vars, PcOK
    <2>2. \A m : PeeringsOf(m)' = PeeringsOf(m)
      BY <2>1 DEF PeeringsOf
    <2>3. view' = view
      BY <1>1, <2>1, NoneTouched
    <2>4. \A m \in Mesh : \/ member'[m] = member[m]
                          \/ m = mesh[c] /\ member'[m] = mine[c] /\ view[c] = "current"
      BY <1>0, <2>1 DEF MeshOK
    <2>5. ASSUME NEW m \in Mesh \ misled PROVE Joined(m, member[m])'
      BY <1>2, <2>1, <2>2, <2>4 DEF Joined, Recorded, Kept, Trusted
    <2>6. Recorded'
      BY <1>1, <1>2, <2>1, <2>2, <2>3, <2>5, UnwrittenByOne DEF Recorded, Before
    <2>7. Kept(c)'
      BY <1>2, <2>1, <2>2, <2>3 DEF Kept, Knows, Trusted
    <2> QED
      BY <1>1, <2>6, <2>7, KeptOfOne DEF AllKept
  <1>8. CASE UpdateStatus(c)
    <2>1. /\ UNCHANGED <<owner, exists, member, mesh, misled>>
          /\ pc[c] = "status" /\ pc'[c] = "idle"
      BY <1>0, <1>8 DEF UpdateStatus, peer_vars, PcOK
    <2>2. \A m : PeeringsOf(m)' = PeeringsOf(m)
      BY <2>1 DEF PeeringsOf
    <2>3. Kept(c)'
      BY <2>1 DEF Kept, Knows
    <2>4. CASE view[c] # "current"
      <3>1. status' = status
        BY <1>8, <2>4 DEF UpdateStatus
      <3> QED
        BY <1>1, <2>1, <2>3, <2>4, <3>1, QuietStep
    <2>5. CASE view[c] = "current"
      <3>1. \A m \in Mesh : status'[m] = IF m = mesh[c] THEN refs[c] ELSE status[m]
        <4>1. \/ status' = status /\ refs[c] = status[mesh[c]]
              \/ status' = [status EXCEPT ![mesh[c]] = refs[c]]
          BY <1>8, <2>5 DEF UpdateStatus
        <4> QED
          BY <1>0, <4>1 DEF MeshOK
      <3>2. mesh[c] \notin misled => PeeringsOf(mesh[c]) \subseteq refs[c]
        BY <1>2, <2>1, <2>5 DEF Kept, Knows, Trusted
      <3>3. \A m \in Mesh : m # mesh[c] => Unwritten(m)
        BY <1>1, UnwrittenByOne
      <3>4. Recorded'
        BY <1>2, <2>1, <2>2, <3>1, <3>2, <3>3 DEF Recorded, Joined
      <3> QED
        BY <1>1, <2>3, <3>4, KeptOfOne DEF AllKept
    <2> QED
      BY <2>4, <2>5
  <1> QED
    BY <1>4, <1>5, <1>6, <1>7, <1>8

LEMMA KeptInvStep ==
  ASSUME TypeOK, ReadInv, Serial, RunInv, KeptInv, OneWorker, [Next]_vars
  PROVE  KeptInv'
  <1>0. PcOK /\ UserOK
    BY TypeOKParts
  <1>1. SUFFICES ASSUME ~Fault, faults = 0 PROVE AllKept'
    <2>1. ASSUME Fault PROVE faults' # 0
      BY <1>0, <2>1 DEF Fault, UserOK
    <2>2. ASSUME ~Fault PROVE faults' = faults
      <3>1. ASSUME NEW c \in Cluster, Locals(c) PROVE faults' = faults
        BY <3>1, LocalsChange
      <3>2. ASSUME NEW c \in Cluster, \/ CreateMesh(c) \/ Join(c) \/ WriteGroup(c) \/ OwnGroup(c)
                                      \/ DeleteGroup(c) \/ DeleteMesh(c) \/ Patch(c)
                                      \/ UpdateStatus(c) \/ User(c)
            PROVE  faults' = faults
        BY <3>2 DEF CreateMesh, Join, WriteGroup, OwnGroup, DeleteGroup, DeleteMesh, Patch,
                    UpdateStatus, User, Relabel, AddRouteTable
      <3>3. ASSUME NEW c \in Cluster, NEW p \in Pair,
                   CreatePeering(c, p) \/ ManageRoutes(c, p) \/ DeletePeering(c, p)
            PROVE  faults' = faults
        BY <3>3 DEF CreatePeering, ManageRoutes, DeletePeering
      <3>4. CASE Crossplane \/ Cache \/ UNCHANGED vars
        BY <3>4, CacheChanges DEF Crossplane, PeeringReady, GroupGone, vars
      <3> QED
        BY <2>2, <3>1, <3>2, <3>3, <3>4 DEF Next, Proceed, Locals, CallFails, Restart
    <2> QED
      BY <2>1, <2>2 DEF KeptInv
  <1>2. AllKept
    BY <1>1 DEF KeptInv
  <1>3. CASE UNCHANGED <<exists, member, status, owner, pc, mesh, mine, refs, todo, view, misled>>
    <2>1. \A m : PeeringsOf(m)' = PeeringsOf(m)
      BY <1>3 DEF PeeringsOf
    <2>2. Recorded'
      BY <1>2, <1>3, <2>1 DEF AllKept, Recorded, Joined, Unwritten
    <2>3. \A c \in Cluster : Kept(c)'
      BY <1>2, <1>3, <2>1 DEF AllKept, Kept, Joined, Trusted
    <2> QED
      BY <2>2, <2>3 DEF AllKept
  <1>4. ASSUME NEW c \in Cluster, Start(c) PROVE AllKept'
    <2>1. UNCHANGED <<exists, member, status, owner, misled>>
      BY <1>4 DEF Start, Reconcile, ReconcileRemoved, mesh_vars, peer_vars
    <2>2. \A d \in Cluster : pc[d] = "idle"
      BY <1>1, <1>4, StartsAlone
    <2>3. \A d \in Cluster : pc'[d] \in {"idle", "get", "leave"}
      BY <1>0, <1>4, <2>2 DEF Start, Reconcile, ReconcileRemoved, PcOK
    <2>4. \A d \in Cluster : Kept(d)'
      BY <2>3 DEF Kept, Knows
    <2>5. \A m \in Mesh : Unwritten(m)
      BY <2>2 DEF Unwritten, Before
    <2>6. Recorded'
      BY <1>2, <2>1, <2>5 DEF AllKept, Recorded, Joined, PeeringsOf
    <2> QED
      BY <2>4, <2>6 DEF AllKept
  <1>5. ASSUME NEW c \in Cluster, Proceed(c) PROVE AllKept'
    BY <1>2, <1>5, KeptReads, KeptBetween, KeptJoins, KeptLeaves DEF Proceed
  <1>6. ASSUME NEW c \in Cluster, User(c) \/ ReconcileOutsider(c) PROVE AllKept'
    BY <1>3, <1>6 DEF User, Relabel, AddRouteTable, ReconcileOutsider, vars, run_vars, peer_vars,
                      mesh_vars
  <1>7. CASE Crossplane \/ Cache \/ UNCHANGED vars
    BY <1>3, <1>7, CacheChanges
    DEF Crossplane, PeeringReady, GroupGone, vars, run_vars, peer_vars, mesh_vars
  <1> QED
    BY <1>1, <1>4, <1>5, <1>6, <1>7 DEF Next, CallFails, Restart

\* With one worker, a peering joins members of the mesh that owns it, for any
\* number of meshes and however old the caches are, when no call has failed and
\* but in the meshes that an outdated read has changed; the proof shows it at
\* every moment, between reconciles as within them.
THEOREM PeeringsJoinMembersHolds == OneWorker => (Spec => []PeeringsJoinMembers)
  <1>1. SUFFICES ASSUME OneWorker PROVE Spec => []PeeringsJoinMembers
    OBVIOUS
  <1>2. TypeOK /\ Serial /\ [Next]_vars => Serial'
    BY <1>1, SerialStep
  <1>3. TypeOK /\ ReadInv /\ Serial /\ RunInv /\ [Next]_vars => RunInv'
    BY <1>1, RunInvStep
  <1>4. TypeOK /\ ReadInv /\ Serial /\ RunInv /\ KeptInv /\ [Next]_vars => KeptInv'
    BY <1>1, KeptInvStep
  <1>5. TypeOK /\ KeptInv => PeeringsJoinMembers
    <2> SUFFICES ASSUME TypeOK, KeptInv, faults = 0, NEW p \in Peerings, owner[p] \notin misled
                 PROVE  \A c \in {p[1], p[2]} : member[owner[p]][c] # 0
      BY DEF PeeringsJoinMembers
    <2>1. owner[p] \in Mesh /\ p \in PeeringsOf(owner[p])
      BY TypeOKParts DEF Peerings, PeerOK, PeeringsOf
    <2> QED
      BY <2>1 DEF KeptInv, AllKept, Recorded, Joined
  <1> QED
    BY <1>2, <1>3, <1>4, <1>5, InitTypeOK, TypeOKStep, ReadInvInit, ReadInvStep, SerialInit,
       RunInvInit, KeptInvInit, PTL
    DEF Spec

=============================================================================
