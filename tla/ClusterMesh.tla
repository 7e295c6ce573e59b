---------------------------- MODULE ClusterMesh ----------------------------
(***************************************************************************)
(* The ClusterMesh controller.  A reconcile of one Cluster adds it to the  *)
(* ClusterMesh its label names, creates the missing VPC peerings with the  *)
(* other members, its SecurityGroup and its routes; the reconcile of a     *)
(* Cluster that lost its label takes all of that down.  Members share one  *)
(* ClusterMesh object, which every reconcile reads at its start and writes *)
(* back at its end, refused when the object changed in between.  Reads are *)
(* of the cache of the operator, which may lag behind the API server.      *)
(*                                                                         *)
(* A Cluster stands for its process: the work queue never hands one key to *)
(* two workers.                                                            *)
(***************************************************************************)
EXTENDS Integers, FiniteSets, Sequences

CONSTANTS
    Cluster,
    Mesh,
    None,        \* neither a mesh nor a label
    Inside,      \* pairs <<c, p>>: the name of c is part of the name of peering p
    Workers,     \* --clustermesh-worker-count
    CacheLag,    \* the kinds of objects whose cache may lag
    MaxEdits,    \* bound on changes of labels and of route tables
    MaxInfo,     \* bound on the route tables of a cluster
    MaxFaults    \* bound on failed calls and restarts

\* A peering is named after its requester and its accepter.
Pair == Cluster \X Cluster
Reverse(p) == <<p[2], p[1]>>

ASSUME ConstantsAssumption ==
    /\ IsFiniteSet(Cluster)
    /\ None \notin Mesh
    /\ Mesh # {}
    /\ Inside \subseteq Cluster \X Pair
    /\ \A p \in Pair : <<p[1], p>> \in Inside /\ <<p[2], p>> \in Inside
    /\ Workers \in Nat \ {0}
    /\ CacheLag \subseteq {"meshes", "peerings"}
    /\ MaxEdits \in Nat
    /\ MaxInfo \in Nat \ {0}
    /\ MaxFaults \in Nat

VARIABLES
    label,       \* the mesh a Cluster is labelled and annotated for, or None
    info,        \* what PopulateClusterSpec would find, as the number of its
                 \* route tables
    exists,      \* whether a ClusterMesh exists
    member,      \* its Spec.Clusters: the info recorded of a member, else 0
    status,      \* its Status.CrossplanePeeringRef
    reported,    \* its condition ClusterMeshVPCPeeringReady is true
    behind,      \* the versions of a ClusterMesh from the one in the cache on,
                 \* without the present one
    owner,       \* the mesh that owns a VPCPeeringConnection, None if none exists
    ready,       \* peerings that are Ready and Synced
    known,       \* the peerings in the cache: <<p, owner, ready>>
    routes,      \* <<p, c, t>>: route of table t of c over peering p
    sg,          \* the SecurityGroup of a cluster: "none", "live" or "deleting"
    allowed,     \* the clusters whose CIDRs it allows
    sgOwners,    \* the meshes that own it
    pc,          \* the next call of a reconcile
    mesh,        \* the mesh the reconcile works on
    current,     \* clSpec, as PopulateClusterSpec returned it
    mine,        \* r.clustermesh.Spec.Clusters
    refs,        \* r.clustermesh.Status.CrossplanePeeringRef
    report,      \* its condition ClusterMeshVPCPeeringReady
    todo,        \* peerings left to create, delete or route over
    view,        \* the ClusterMesh as read is "current", "old" or "gone"
    misled,      \* history: the meshes that an outdated read has changed
    edits,
    faults

user_vars == <<label, info>>
mesh_vars == <<exists, member, status, reported, behind>>
peer_vars == <<owner, ready, known, routes>>
sg_vars   == <<sg, allowed, sgOwners>>
run_vars  == <<mesh, current, mine, refs, report, todo>>
vars == <<user_vars, mesh_vars, peer_vars, sg_vars, run_vars, pc, view, misled, edits, faults>>

Step == {"idle", "get", "create", "join", "peerings", "peer", "group", "own",
         "routes", "route", "leave", "ungroup", "unpeer", "delete", "patch", "status"}

Version == [exists : BOOLEAN, member : [Cluster -> 0..MaxInfo], status : SUBSET Pair,
            reported : BOOLEAN]

TypeOK ==
    /\ label \in [Cluster -> Mesh \cup {None}]
    /\ info \in [Cluster -> 1..MaxInfo]
    /\ exists \in [Mesh -> BOOLEAN]
    /\ member \in [Mesh -> [Cluster -> 0..MaxInfo]]
    /\ status \in [Mesh -> SUBSET Pair]
    /\ reported \in [Mesh -> BOOLEAN]
    /\ behind \in [Mesh -> Seq(Version)]
    /\ owner \in [Pair -> Mesh \cup {None}]
    /\ ready \in SUBSET Pair
    /\ known \in SUBSET (Pair \X Mesh \X BOOLEAN)
    /\ routes \in SUBSET (Pair \X Cluster \X (1..MaxInfo))
    /\ sg \in [Cluster -> {"none", "live", "deleting"}]
    /\ allowed \in [Cluster -> SUBSET Cluster]
    /\ sgOwners \in [Cluster -> SUBSET Mesh]
    /\ pc \in [Cluster -> Step]
    /\ mesh \in [Cluster -> Mesh]
    /\ current \in [Cluster -> 0..MaxInfo]
    /\ mine \in [Cluster -> [Cluster -> 0..MaxInfo]]
    /\ refs \in [Cluster -> SUBSET Pair]
    /\ report \in [Cluster -> BOOLEAN]
    /\ todo \in [Cluster -> SUBSET Pair]
    /\ view \in [Cluster -> {"current", "old", "gone"}]
    /\ misled \in SUBSET Mesh
    /\ edits \in Nat
    /\ faults \in Nat

Nobody == [c \in Cluster |-> 0]

BelongsToMesh(recorded, c) == recorded[c] # 0

Members(recorded) == {c \in Cluster : BelongsToMesh(recorded, c)}

Init ==
    /\ label \in [Cluster -> Mesh \cup {None}]
    /\ info = [c \in Cluster |-> 1]
    /\ exists = [m \in Mesh |-> FALSE]
    /\ member = [m \in Mesh |-> Nobody]
    /\ status = [m \in Mesh |-> {}]
    /\ reported = [m \in Mesh |-> FALSE]
    /\ behind = [m \in Mesh |-> <<>>]
    /\ owner = [p \in Pair |-> None]
    /\ ready = {}
    /\ known = {}
    /\ routes = {}
    /\ sg = [c \in Cluster |-> "none"]
    /\ allowed = [c \in Cluster |-> {}]
    /\ sgOwners = [c \in Cluster |-> {}]
    /\ pc = [c \in Cluster |-> "idle"]
    /\ mesh = [c \in Cluster |-> CHOOSE m \in Mesh : TRUE]
    /\ current = [c \in Cluster |-> 0]
    /\ mine = [c \in Cluster |-> Nobody]
    /\ refs = [c \in Cluster |-> {}]
    /\ report = [c \in Cluster |-> FALSE]
    /\ todo = [c \in Cluster |-> {}]
    /\ view = [c \in Cluster |-> "current"]
    /\ misled = {}
    /\ edits = 0
    /\ faults = 0

-----------------------------------------------------------------------------
(* The Kubernetes objects.                                                 *)

\* Labelled and annotated for a mesh.
ClusterMeshEnabled(c) == label[c] # None

\* What AWS and the KopsControlPlane say of a Cluster now.
PopulateClusterSpec(c) == info[c]

Peerings == {p \in Pair : owner[p] # None}

ReadyAndSynced(p) == p \in ready

\* A peering is owned by its mesh; one that exists already is as good.
NewPeering(p, m) == [owner EXCEPT ![p] = IF @ = None THEN m ELSE @]

PeeringsOf(m) == {p \in Pair : owner[p] = m}

\* What a List of the peerings would say now, and what the cache says: it may
\* lack recent ones and still have deleted ones.
Listing == {<<p, owner[p], ReadyAndSynced(p)>> : p \in Peerings}
Listed == IF "peerings" \in CacheLag THEN known ELSE Listing

\* GetOwnedVPCPeeringConnections.
Owned(m) == {p \in Pair : \E b \in BOOLEAN : <<p, m, b>> \in Listed}
OwnedReady(m) == {p \in Pair : <<p, m, TRUE>> \in Listed}
AllReady(m) == \A p \in Pair : <<p, m, FALSE>> \notin Listed

\* ClusterMesh m in the API server, and as a read returns it.
Present(m) == [exists |-> exists[m], member |-> member[m], status |-> status[m],
               reported |-> reported[m]]
Seen(m) == IF behind[m] = <<>> THEN Present(m) ELSE Head(behind[m])

\* What a copy of m that is read now is worth: writes of one that is not current
\* are refused, and the owner references made of one that is gone are void.
ViewOf(m) ==
    IF behind[m] = <<>> THEN "current"
    ELSE IF exists[m] /\ \A i \in 1..Len(behind[m]) : behind[m][i].exists THEN "old"
    ELSE "gone"

\* A write of m leaves the cache one version further behind.
Written(m) ==
    behind' = IF "meshes" \in CacheLag THEN [behind EXCEPT ![m] = Append(@, Present(m))]
              ELSE behind

\* Faulty variants of Named, for the mutation checks: all peerings, and those
\* of which c is the requester only.
NamedAll(c, ps) == ps
NamedRequester(c, ps) == {p \in ps : p[1] = c}

\* Peerings whose name contains the name of c.
Named(c, ps) == {p \in ps : <<c, p>> \in Inside}

\* Who has read mesh m and may write it.
Reading == {c \in Cluster : pc[c] \notin {"idle", "get", "create", "leave"}}

\* A write by c changed mesh m: those who read it before will be refused.
Touched(c, m) ==
    view' = [d \in Cluster |-> IF d \in Reading \ {c} /\ mesh[d] = m /\ view[d] = "current"
                               THEN "old" ELSE view[d]]

\* A step changed mesh m on the word of an outdated read.
Misled(m, outdated) == misled' = IF outdated THEN misled \cup {m} ELSE misled

\* The routes a cluster with that many tables has over a peering.
RoutesOver(p, c, tables) == {p} \X {c} \X (1..tables)

\* Those that IsRouteToVpcPeeringAlreadyCreated does not find.
MissingRoutes(p, c, tables) == RoutesOver(p, c, tables) \ routes

\* The peerings ps go, and by garbage collection their routes.
Remove(ps) ==
    /\ owner' = [p \in Pair |-> IF p \in ps THEN None ELSE owner[p]]
    /\ ready' = ready \ ps
    /\ routes' = {r \in routes : r[1] \notin ps}
    /\ UNCHANGED known

\* A deferred call has nothing to patch without members.
Deferred(c, recorded) == IF Members(recorded) = {} THEN "idle" ELSE "patch"

\* A reconcile keeps the status as it was read.
Take(c, read) ==
    /\ refs' = [refs EXCEPT ![c] = read.status]
    /\ report' = [report EXCEPT ![c] = read.reported]
    /\ view' = [view EXCEPT ![c] = ViewOf(mesh[c])]

\* The locals of a reconcile are gone with it.
Forget(c) ==
    /\ current' = [current EXCEPT ![c] = 0]
    /\ mine' = [mine EXCEPT ![c] = Nobody]
    /\ refs' = [refs EXCEPT ![c] = {}]
    /\ report' = [report EXCEPT ![c] = FALSE]
    /\ todo' = [todo EXCEPT ![c] = {}]

-----------------------------------------------------------------------------
(* A Cluster that is labelled.                                             *)

Busy == {c \in Cluster : pc[c] # "idle"}

\* Faulty variant of Reconcile: a route table too many is found.
ReconcileOneTooMany(c) ==
    /\ pc[c] = "idle"
    /\ Cardinality(Busy) < Workers
    /\ ClusterMeshEnabled(c)
    /\ mesh' = [mesh EXCEPT ![c] = label[c]]
    /\ current' = [current EXCEPT ![c] = PopulateClusterSpec(c) + 1]
    /\ pc' = [pc EXCEPT ![c] = "get"]
    /\ UNCHANGED <<user_vars, mesh_vars, peer_vars, sg_vars, mine, refs, report, todo,
                   view, misled, edits, faults>>

\* Reconcile up to reconcileNormal, and PopulateClusterSpec.
Reconcile(c) ==
    /\ pc[c] = "idle"
    /\ Cardinality(Busy) < Workers
    /\ ClusterMeshEnabled(c)
    /\ mesh' = [mesh EXCEPT ![c] = label[c]]
    /\ current' = [current EXCEPT ![c] = PopulateClusterSpec(c)]
    /\ pc' = [pc EXCEPT ![c] = "get"]
    /\ UNCHANGED <<user_vars, mesh_vars, peer_vars, sg_vars, mine, refs, report, todo,
                   view, misled, edits, faults>>

\* The ClusterMesh as read; a Cluster that is not a member appends itself.
GetMesh(c) ==
    /\ pc[c] = "get"
    /\ LET read == Seen(mesh[c]) IN
       IF read.exists
       THEN /\ mine' = [mine EXCEPT ![c] = IF read.member[c] # 0 THEN read.member
                                           ELSE [read.member EXCEPT ![c] = current[c]]]
            /\ pc' = [pc EXCEPT ![c] = IF read.member[c] # 0 THEN "peerings" ELSE "join"]
            /\ Take(c, read)
       ELSE /\ pc' = [pc EXCEPT ![c] = "create"]
            /\ UNCHANGED <<mine, refs, report, view>>
    /\ UNCHANGED <<user_vars, mesh_vars, peer_vars, sg_vars, mesh, current, todo,
                   misled, edits, faults>>

\* Create of the ClusterMesh with its first member; the reconcile ends, with an
\* error when another Cluster was first.
CreateMesh(c) ==
    /\ pc[c] = "create"
    /\ IF exists[mesh[c]]
       THEN UNCHANGED <<exists, member, behind>>
       ELSE /\ exists' = [exists EXCEPT ![mesh[c]] = TRUE]
            /\ member' = [member EXCEPT ![mesh[c]] = [Nobody EXCEPT ![c] = current[c]]]
            /\ Written(mesh[c])
    /\ Forget(c)
    /\ pc' = [pc EXCEPT ![c] = "idle"]
    /\ UNCHANGED <<user_vars, status, reported, peer_vars, sg_vars, mesh, view, misled, edits, faults>>

\* Update of the ClusterMesh with the new member.
Join(c) ==
    /\ pc[c] = "join"
    /\ IF view[c] # "current"
       THEN /\ pc' = [pc EXCEPT ![c] = "patch"]
            /\ UNCHANGED <<member, behind, view>>
       ELSE /\ member' = [member EXCEPT ![mesh[c]] = mine[c]]
            /\ Touched(c, mesh[c])
            /\ Written(mesh[c])
            /\ pc' = [pc EXCEPT ![c] = "peerings"]
    /\ UNCHANGED <<user_vars, exists, status, reported, peer_vars, sg_vars, run_vars,
                   misled, edits, faults>>

\* Faulty variant of ListPeerings: only one order of the names is looked for.
ListPeeringsOneOrder(c) ==
    /\ pc[c] = "peerings"
    /\ refs' = [refs EXCEPT ![c] = Owned(mesh[c])]
    /\ todo' = [todo EXCEPT ![c] =
                  {p \in {c} \X Members(mine[c]) :
                      /\ ~(p[2] = c /\ mine[c][c] = current[c])
                      /\ p \notin refs'[c]}]
    /\ pc' = [pc EXCEPT ![c] = "peer"]
    /\ Misled(mesh[c], Owned(mesh[c]) # PeeringsOf(mesh[c]))
    /\ UNCHANGED <<user_vars, mesh_vars, peer_vars, sg_vars, mesh, current, mine, report,
                   view, edits, faults>>

\* ReconcilePeerings: the peerings the mesh owns, and those to create.  A
\* member is skipped when it equals the current Cluster in every field.
ListPeerings(c) ==
    /\ pc[c] = "peerings"
    /\ refs' = [refs EXCEPT ![c] = Owned(mesh[c])]
    /\ todo' = [todo EXCEPT ![c] =
                  {p \in {c} \X Members(mine[c]) :
                      /\ ~(p[2] = c /\ mine[c][c] = current[c])
                      /\ p \notin refs'[c]
                      /\ Reverse(p) \notin refs'[c]}]
    /\ pc' = [pc EXCEPT ![c] = "peer"]
    /\ Misled(mesh[c], Owned(mesh[c]) # PeeringsOf(mesh[c]))
    /\ UNCHANGED <<user_vars, mesh_vars, peer_vars, sg_vars, mesh, current, mine, report,
                   view, edits, faults>>

\* CreateCrossplaneVPCPeeringConnection; one that exists is as good.  One whose
\* owner is gone is garbage.
CreatePeering(c, p) ==
    /\ pc[c] = "peer"
    /\ p \in todo[c]
    /\ owner' = IF view[c] = "gone" THEN owner ELSE NewPeering(p, mesh[c])
    /\ refs' = [refs EXCEPT ![c] = @ \cup {p}]
    /\ todo' = [todo EXCEPT ![c] = @ \ {p}]
    /\ Misled(mesh[c], view[c] = "old" /\ owner[p] = None)
    /\ UNCHANGED <<user_vars, mesh_vars, ready, known, routes, sg_vars, mesh, current, mine,
                   report, pc, view, edits, faults>>

PeeringsDone(c) ==
    /\ pc[c] = "peer"
    /\ todo[c] = {}
    /\ pc' = [pc EXCEPT ![c] = "group"]
    /\ UNCHANGED <<user_vars, mesh_vars, peer_vars, sg_vars, run_vars, view, misled, edits, faults>>

\* ReconcileSecurityGroups: CreateOrUpdate with the CIDRs of the members.
WriteGroup(c) ==
    /\ pc[c] = "group"
    /\ sg' = [sg EXCEPT ![c] = IF @ = "none" THEN "live" ELSE @]
    /\ allowed' = [allowed EXCEPT ![c] = Members(mine[c])]
    /\ pc' = [pc EXCEPT ![c] = "own"]
    /\ UNCHANGED <<user_vars, mesh_vars, peer_vars, sgOwners, run_vars, view, misled, edits, faults>>

\* SetOwnerReference and Update, an error when the SecurityGroup is gone.  A
\* SecurityGroup with no owner but one that is gone is garbage.
OwnGroup(c) ==
    LET lost == view[c] = "gone" IN
    /\ pc[c] = "own"
    /\ sgOwners' = [sgOwners EXCEPT ![c] =
                      IF sg[c] = "none" \/ lost THEN @ ELSE @ \cup {mesh[c]}]
    /\ sg' = [sg EXCEPT ![c] = IF @ = "live" /\ lost /\ sgOwners[c] = {} THEN "deleting" ELSE @]
    /\ pc' = [pc EXCEPT ![c] = IF sg[c] = "none" THEN "patch" ELSE "routes"]
    /\ UNCHANGED <<user_vars, mesh_vars, peer_vars, allowed, run_vars, view, misled, edits, faults>>

\* Faulty variant of ListForRoutes: the accepter adds no routes.
ListForRoutesRequester(c) ==
    /\ pc[c] = "routes"
    /\ LET usable == {p \in OwnedReady(mesh[c]) : c = p[1]} IN
       \E reached \in SUBSET usable :
          /\ AllReady(mesh[c]) => reached = usable
          /\ todo' = [todo EXCEPT ![c] = reached]
    /\ pc' = [pc EXCEPT ![c] = "route"]
    /\ UNCHANGED <<user_vars, mesh_vars, peer_vars, sg_vars, mesh, current, mine, refs,
                   report, view, misled, edits, faults>>

\* ReconcileRoutes goes through the owned peerings in the order of the list
\* and returns at the first that is not ready.
ListForRoutes(c) ==
    /\ pc[c] = "routes"
    /\ LET usable == {p \in OwnedReady(mesh[c]) : c \in {p[1], p[2]}} IN
       \E reached \in SUBSET usable :
          /\ AllReady(mesh[c]) => reached = usable
          /\ todo' = [todo EXCEPT ![c] = reached]
    /\ pc' = [pc EXCEPT ![c] = "route"]
    /\ UNCHANGED <<user_vars, mesh_vars, peer_vars, sg_vars, mesh, current, mine, refs,
                   report, view, misled, edits, faults>>

\* manageCrossplaneRoutes: a route in every table of the cluster.
ManageRoutes(c, p) ==
    /\ pc[c] = "route"
    /\ p \in todo[c]
    /\ routes' = IF owner[p] = None THEN routes
                 ELSE routes \cup MissingRoutes(p, c, current[c])
    /\ todo' = [todo EXCEPT ![c] = @ \ {p}]
    /\ UNCHANGED <<user_vars, mesh_vars, owner, ready, known, sg_vars, mesh, current, mine, refs,
                   report, pc, view, misled, edits, faults>>

\* The routes are through; validateClusterMesh lists the peerings again, and a
\* mesh of one member keeps the condition it has.
Validate(c) ==
    /\ pc[c] = "route"
    /\ todo[c] = {}
    /\ report' = [report EXCEPT ![c] =
                     IF Cardinality(Members(mine[c])) > 1
                     THEN AllReady(mesh[c]) ELSE @]
    /\ pc' = [pc EXCEPT ![c] = "patch"]
    /\ UNCHANGED <<user_vars, mesh_vars, peer_vars, sg_vars, mesh, current, mine, refs, todo,
                   view, misled, edits, faults>>

-----------------------------------------------------------------------------
(* A Cluster that lost its label.                                          *)

\* isClusterBelongToAnyMesh finds a mesh that still has it.
ReconcileRemoved(c) ==
    /\ pc[c] = "idle"
    /\ Cardinality(Busy) < Workers
    /\ ~ClusterMeshEnabled(c)
    /\ \E m \in Mesh : /\ BelongsToMesh(Seen(m).member, c)
                      /\ mesh' = [mesh EXCEPT ![c] = m]
    /\ pc' = [pc EXCEPT ![c] = "leave"]
    /\ UNCHANGED <<user_vars, mesh_vars, peer_vars, sg_vars, current, mine, refs, report, todo,
                   view, misled, edits, faults>>

\* A Cluster of no mesh is requeued, and that is all.
ReconcileOutsider(c) ==
    /\ pc[c] = "idle"
    /\ Cardinality(Busy) < Workers
    /\ ~ClusterMeshEnabled(c)
    /\ \A m \in Mesh : ~BelongsToMesh(Seen(m).member, c)
    /\ UNCHANGED vars

\* reconcileDelete reads the ClusterMesh; one that is gone is an error.
GetMeshToLeave(c) ==
    /\ pc[c] = "leave"
    /\ LET read == Seen(mesh[c]) IN
       IF read.exists
       THEN /\ mine' = [mine EXCEPT ![c] = read.member]
            /\ pc' = [pc EXCEPT ![c] = "ungroup"]
            /\ Take(c, read)
       ELSE /\ pc' = [pc EXCEPT ![c] = "idle"]
            /\ UNCHANGED <<mine, refs, report, view>>
    /\ UNCHANGED <<user_vars, mesh_vars, peer_vars, sg_vars, mesh, current, todo,
                   misled, edits, faults>>

DeleteGroup(c) ==
    /\ pc[c] = "ungroup"
    /\ sg' = [sg EXCEPT ![c] = IF @ = "none" THEN @ ELSE "deleting"]
    /\ todo' = [todo EXCEPT ![c] = Named(c, refs[c])]
    /\ pc' = [pc EXCEPT ![c] = "unpeer"]
    /\ UNCHANGED <<user_vars, mesh_vars, peer_vars, allowed, sgOwners, mesh, current, mine, refs,
                   report, view, misled, edits, faults>>

\* DeleteCrossplaneVPCPeeringConnection, by name and whoever owns it.
DeletePeering(c, p) ==
    /\ pc[c] = "unpeer"
    /\ p \in todo[c]
    /\ Remove({p})
    /\ refs' = [refs EXCEPT ![c] = @ \ {p}]
    /\ todo' = [todo EXCEPT ![c] = @ \ {p}]
    /\ UNCHANGED <<user_vars, mesh_vars, sg_vars, mesh, current, mine, report, pc, view,
                   misled, edits, faults>>

\* Faulty variant of LeaveMesh: it does not wait for the peerings.
LeaveMeshAnyway(c) ==
    /\ pc[c] = "unpeer"
    /\ mine' = [mine EXCEPT ![c][c] = 0]
    /\ pc' = [pc EXCEPT ![c] = IF Members(mine'[c]) = {} THEN "delete" ELSE "patch"]
    /\ UNCHANGED <<user_vars, mesh_vars, peer_vars, sg_vars, mesh, current, refs, report, todo,
                   view, misled, edits, faults>>

\* The Cluster leaves the copy of the spec, which the deferred patch writes.
LeaveMesh(c) ==
    /\ pc[c] = "unpeer"
    /\ todo[c] = {}
    /\ mine' = [mine EXCEPT ![c][c] = 0]
    /\ pc' = [pc EXCEPT ![c] = IF Members(mine'[c]) = {} THEN "delete" ELSE "patch"]
    /\ UNCHANGED <<user_vars, mesh_vars, peer_vars, sg_vars, mesh, current, refs, report, todo,
                   view, misled, edits, faults>>

\* Delete of the ClusterMesh, whatever became of it since it was read; what it
\* owns goes by garbage collection.
DeleteMesh(c) ==
    LET m == mesh[c] IN
    /\ pc[c] = "delete"
    /\ IF exists[m]
       THEN /\ exists' = [exists EXCEPT ![m] = FALSE]
            /\ member' = [member EXCEPT ![m] = Nobody]
            /\ status' = [status EXCEPT ![m] = {}]
            /\ reported' = [reported EXCEPT ![m] = FALSE]
            /\ Written(m)
            /\ Remove(PeeringsOf(m))
            /\ sg' = [d \in Cluster |-> IF sgOwners[d] = {m} THEN "deleting" ELSE sg[d]]
            /\ sgOwners' = [d \in Cluster |-> sgOwners[d] \ {m}]
            /\ view' = [d \in Cluster |->
                          IF d = c THEN "current"
                          ELSE IF d \in Reading /\ mesh[d] = m THEN "gone" ELSE view[d]]
       ELSE /\ view' = [view EXCEPT ![c] = "current"]
            /\ UNCHANGED <<mesh_vars, peer_vars, sg, sgOwners>>
    /\ Misled(m, exists[m] /\ view[c] # "current")
    /\ Forget(c)
    /\ pc' = [pc EXCEPT ![c] = "idle"]
    /\ UNCHANGED <<user_vars, allowed, mesh, edits, faults>>

-----------------------------------------------------------------------------
(* The deferred calls of every reconcile that has read a mesh with members. *)

\* Faulty variant of Patch: it does not carry the resource version.
PatchBlind(c) ==
    /\ pc[c] = "patch"
    /\ IF ~exists[mesh[c]] \/ mine[c] = member[mesh[c]]
       THEN UNCHANGED <<member, behind, view>>
       ELSE /\ member' = [member EXCEPT ![mesh[c]] = mine[c]]
            /\ Touched(c, mesh[c])
            /\ Written(mesh[c])
    /\ pc' = [pc EXCEPT ![c] = "status"]
    /\ UNCHANGED <<user_vars, exists, status, reported, peer_vars, sg_vars, run_vars,
                   misled, edits, faults>>

\* The merge patch carries the resource version, so a change refuses it; an
\* error is logged and no more.
Patch(c) ==
    /\ pc[c] = "patch"
    /\ IF view[c] # "current" \/ mine[c] = member[mesh[c]]
       THEN UNCHANGED <<member, behind, view>>
       ELSE /\ member' = [member EXCEPT ![mesh[c]] = mine[c]]
            /\ Touched(c, mesh[c])
            /\ Written(mesh[c])
    /\ pc' = [pc EXCEPT ![c] = "status"]
    /\ UNCHANGED <<user_vars, exists, status, reported, peer_vars, sg_vars, run_vars,
                   misled, edits, faults>>

\* Faulty variant of UpdateStatus: the response of the patch has replaced the
\* conditions.
UpdateStatusPatched(c) ==
    /\ pc[c] = "status"
    /\ IF view[c] # "current" \/ refs[c] = status[mesh[c]]
       THEN /\ view' = [view EXCEPT ![c] = "current"]
            /\ UNCHANGED <<status, behind>>
       ELSE /\ status' = [status EXCEPT ![mesh[c]] = refs[c]]
            /\ Touched(c, mesh[c])
            /\ Written(mesh[c])
    /\ Forget(c)
    /\ pc' = [pc EXCEPT ![c] = "idle"]
    /\ UNCHANGED <<user_vars, exists, member, reported, peer_vars, sg_vars, mesh, misled, edits, faults>>

\* The status as the reconcile left it, although the patch before has read the
\* ClusterMesh anew.
UpdateStatus(c) ==
    LET m == mesh[c] IN
    /\ pc[c] = "status"
    /\ IF view[c] # "current" \/ (refs[c] = status[m] /\ report[c] = reported[m])
       THEN /\ view' = [view EXCEPT ![c] = "current"]
            /\ UNCHANGED <<status, reported, behind>>
       ELSE /\ status' = [status EXCEPT ![m] = refs[c]]
            /\ reported' = [reported EXCEPT ![m] = report[c]]
            /\ Touched(c, m)
            /\ Written(m)
    /\ Forget(c)
    /\ pc' = [pc EXCEPT ![c] = "idle"]
    /\ UNCHANGED <<user_vars, exists, member, peer_vars, sg_vars, mesh, misled, edits, faults>>

-----------------------------------------------------------------------------
(* Failures, users and Crossplane.                                         *)

Fault == faults < MaxFaults /\ faults' = faults + 1

\* A call fails without effect: the reconcile returns, by its deferred calls.
CallFails(c) ==
    /\ Fault
    /\ pc[c] # "idle"
    /\ LET next == IF pc[c] = "patch" THEN "status"
                   ELSE IF pc[c] = "status" THEN "idle"
                   ELSE Deferred(c, mine[c])
       IN /\ pc' = [pc EXCEPT ![c] = next]
          /\ IF next = "idle"
             THEN Forget(c) /\ view' = [view EXCEPT ![c] = "current"]
             ELSE UNCHANGED <<current, mine, refs, report, todo, view>>
    /\ UNCHANGED <<user_vars, mesh_vars, peer_vars, sg_vars, mesh, misled, edits>>

\* The operator dies and starts again.
Restart ==
    /\ Fault
    /\ Busy # {}
    /\ pc' = [c \in Cluster |-> "idle"]
    /\ current' = [c \in Cluster |-> 0]
    /\ mine' = [c \in Cluster |-> Nobody]
    /\ refs' = [c \in Cluster |-> {}]
    /\ report' = [c \in Cluster |-> FALSE]
    /\ todo' = [c \in Cluster |-> {}]
    /\ view' = [c \in Cluster |-> "current"]
    /\ UNCHANGED <<user_vars, mesh_vars, peer_vars, sg_vars, mesh, misled, edits>>

Relabel(c) ==
    /\ edits < MaxEdits
    /\ edits' = edits + 1
    /\ \E m \in (Mesh \cup {None}) \ {label[c]} : label' = [label EXCEPT ![c] = m]
    /\ UNCHANGED <<info, mesh_vars, peer_vars, sg_vars, run_vars, pc, view, misled, faults>>

\* A route table is added to the VPC of a cluster.
AddRouteTable(c) ==
    /\ info[c] < MaxInfo
    /\ edits < MaxEdits
    /\ edits' = edits + 1
    /\ info' = [info EXCEPT ![c] = @ + 1]
    /\ UNCHANGED <<label, mesh_vars, peer_vars, sg_vars, run_vars, pc, view, misled, faults>>

\* AWS accepts one peering of two VPCs, and none of a VPC with itself.
PeeringReady(p) ==
    /\ owner[p] # None
    /\ p \notin ready
    /\ p[1] # p[2]
    /\ Reverse(p) \notin ready
    /\ ready' = ready \cup {p}
    /\ UNCHANGED <<user_vars, mesh_vars, owner, known, routes, sg_vars, run_vars, pc,
                   view, misled, edits, faults>>

\* The SecurityGroup controller lets go of a deleted SecurityGroup.
GroupGone(c) ==
    /\ sg[c] = "deleting"
    /\ sg' = [sg EXCEPT ![c] = "none"]
    /\ allowed' = [allowed EXCEPT ![c] = {}]
    /\ sgOwners' = [sgOwners EXCEPT ![c] = {}]
    /\ UNCHANGED <<user_vars, mesh_vars, peer_vars, run_vars, pc, view, misled, edits, faults>>

\* The cache is told the next version of a ClusterMesh.
MeshSeen(m) ==
    /\ behind[m] # <<>>
    /\ behind' = [behind EXCEPT ![m] = Tail(@)]
    /\ UNCHANGED <<user_vars, exists, member, status, reported, peer_vars, sg_vars, run_vars, pc,
                   view, misled, edits, faults>>

\* And what became of the peerings.
PeeringsSeen ==
    /\ "peerings" \in CacheLag
    /\ known # Listing
    /\ known' = Listing
    /\ UNCHANGED <<user_vars, mesh_vars, owner, ready, routes, sg_vars, run_vars, pc,
                   view, misled, edits, faults>>

Cache == PeeringsSeen \/ \E m \in Mesh : MeshSeen(m)

-----------------------------------------------------------------------------
(* The system.                                                             *)

Start(c) == Reconcile(c) \/ ReconcileRemoved(c)

Proceed(c) ==
    \/ GetMesh(c)
    \/ CreateMesh(c)
    \/ Join(c)
    \/ ListPeerings(c)
    \/ \E p \in Pair : CreatePeering(c, p) \/ ManageRoutes(c, p) \/ DeletePeering(c, p)
    \/ PeeringsDone(c)
    \/ WriteGroup(c)
    \/ OwnGroup(c)
    \/ ListForRoutes(c)
    \/ Validate(c)
    \/ GetMeshToLeave(c)
    \/ DeleteGroup(c)
    \/ LeaveMesh(c)
    \/ DeleteMesh(c)
    \/ Patch(c)
    \/ UpdateStatus(c)

User(c) == Relabel(c) \/ AddRouteTable(c)

Crossplane ==
    \/ \E p \in Pair : PeeringReady(p)
    \/ \E c \in Cluster : GroupGone(c)

Next ==
    \/ \E c \in Cluster : \/ Start(c) \/ ReconcileOutsider(c)
                         \/ Proceed(c) \/ CallFails(c)
                         \/ User(c)
    \/ Crossplane
    \/ Restart
    \/ Cache

Spec == Init /\ [][Next]_vars

\* The caches of ClusterMeshes have nothing left to be told.
UpToDate == \A m \in Mesh : behind[m] = <<>>

\* The work queue is first in, first out, and every result requeues the Cluster;
\* it waits for so long that again and again, between two reconciles, the caches
\* catch up; Crossplane brings up what AWS accepts and finishes deletions.
Fairness ==
    /\ \A c \in Cluster : /\ SF_vars(Start(c)) /\ SF_vars(Start(c) /\ UpToDate)
                          /\ WF_vars(Proceed(c)) /\ WF_vars(GroupGone(c))
    /\ \A p \in Pair : WF_vars(PeeringReady(p))
    /\ []<>(Busy = {} /\ UpToDate)

FairSpec == Spec /\ Fairness

-----------------------------------------------------------------------------
(* Properties.                                                             *)

\* Two clusters never have a peering each way in one mesh: each of the two
\* looks for the other's before it creates its own.  The caches may hide it, so
\* this is said of the meshes that no outdated read has changed.
OnePeeringPerPair ==
    \A p \in Peerings :
        p[1] # p[2] /\ owner[p] \notin misled => owner[Reverse(p)] # owner[p]

\* No peering joins a cluster to itself (the test "should not create a
\* vpcpeering with only one cluster").  AWS would refuse it, and a peering that
\* is never ready holds up the routes of the whole mesh.
NoSelfPeering == \A c \in Cluster : owner[<<c, c>>] = None

\* No lost update of a ClusterMesh: while it exists, a cluster enters or leaves
\* its spec only by a step of its own reconcile, although every write replaces
\* the whole list by one read earlier.
OwnMembershipStep ==
    \A m \in Mesh, c \in Cluster :
        exists[m] /\ exists'[m] /\ member[m][c] # member'[m][c] => pc'[c] # pc[c]

MembersOnlyByOwn == [][OwnMembershipStep]_vars

\* A deletion removes "the vpc peerings associated with the cluster"
\* (docs/README.md): the peering of two members goes by the hand of one of them,
\* but in a mesh that was deleted on the word of an outdated copy.
UnpeeredByOwnStep ==
    \A p \in Peerings :
        /\ owner'[p] = None
        /\ owner[p] \notin misled'
        /\ member[owner[p]][p[1]] # 0
        /\ member[owner[p]][p[2]] # 0
        => \E c \in {p[1], p[2]} : pc[c] \in {"unpeer", "delete"}

UnpeeredByOwn == [][UnpeeredByOwnStep]_vars

\* A cluster that has left a mesh left no peering behind: when no reconcile is
\* under way and no call has failed, a peering joins members of the mesh that
\* owns it, but in a mesh that an outdated read has changed.
PeeringsJoinMembers ==
    Busy = {} /\ faults = 0 =>
        \A p \in Peerings : owner[p] \notin misled =>
            \A c \in {p[1], p[2]} : member[owner[p]][c] # 0

\* The members of every mesh, the peerings it owns and those its status names;
\* nothing is promised of a mesh that an outdated read has changed.
Promised(m, things) == IF m \in misled THEN {} ELSE things
MembersOf == [m \in Mesh |-> Promised(m, Members(member[m]))]
OwnedBy == [m \in Mesh |-> Promised(m, PeeringsOf(m))]
StatusOf == [m \in Mesh |-> Promised(m, status[m])]

Links == INSTANCE MeshLinks WITH members <- MembersOf, links <- OwnedBy, recorded <- StatusOf,
                                 lost <- misled

\* Whatever fails between the calls, the meshes see clusters that join and
\* leave one at a time, one peering of two members made by one of them and
\* taken down by one of them, none left behind that the status names, and a
\* status that forgets no peering there is, until an outdated read changes one.
ImplementsMeshLinks == Links!Spec

\* Two members are connected: a peering that is ready, and over it a route in
\* every table of both.
Connected(m, c, d) ==
    \E p \in {<<c, d>>, <<d, c>>} :
        /\ owner[p] = m
        /\ p \in ready
        /\ RoutesOver(p, c, info[c]) \subseteq routes
        /\ RoutesOver(p, d, info[d]) \subseteq routes

Settled(c) ==
    IF label[c] = None
    THEN /\ \A m \in Mesh : member[m][c] = 0
         /\ sg[c] = "none" \/ misled # {}
    ELSE /\ member[label[c]][c] # 0
         /\ sg[c] = "live"
         /\ allowed[c] = Members(member[label[c]])
         /\ \A d \in Members(member[label[c]]) \ {c} : Connected(label[c], c, d)

\* Once labels and failures rest, every labelled cluster is in its mesh and
\* connected with all its members, and every other is out of it, although a
\* reconcile of one cluster works on that cluster alone.
Converges == <>[](\A c \in Cluster : Settled(c))

\* The condition that a mesh of several members reports in the end is what its
\* peerings are, although every reconcile replaces it by one of its own, and
\* between the two lies a patch that reads the ClusterMesh anew.
ReportSettles ==
    <>[](\A m \in Mesh :
            Cardinality(Members(member[m])) > 1 =>
                (reported[m] <=> \A p \in Peerings : owner[p] = m => ReadyAndSynced(p)))

=============================================================================
