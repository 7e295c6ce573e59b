------------------------ MODULE MeshRefinementProofs ------------------------
(***************************************************************************)
(* ClusterMesh implements MeshLinks with one worker and names apart, for   *)
(* every set of clusters and of meshes, every bound on edits and faults    *)
(* and every cache; a mesh is lost when an outdated read has changed it,   *)
(* which no read does when the caches do not lag.                          *)
(***************************************************************************)
EXTENDS ClusterMeshProofs

-----------------------------------------------------------------------------
(* What a reconcile knows of the status it will write.                     *)

\* A peering of c that the status names and that exists.
OnRecord(c, p) == p \in status[mesh[c]] \cap Peerings /\ c \in {p[1], p[2]}

\* The list of peerings of a reconcile that has read what there is lacks none
\* that the status names and that exists, and has none that neither names nor
\* exists; what a leaving cluster has left to delete is what the status names
\* of it, and when it leaves there is nothing left.
Remembers(c) ==
    Trusted(c) =>
        /\ pc[c] \notin NotReading =>
              /\ status[mesh[c]] \cap PeeringsOf(mesh[c]) \subseteq refs[c]
              /\ misled = {} => refs[c] \subseteq status[mesh[c]] \cup Peerings
        /\ pc[c] = "ungroup" => refs[c] = status[mesh[c]]
        /\ pc[c] = "unpeer" => \A p \in Pair : OnRecord(c, p) => p \in todo[c]
        /\ pc[c] \in {"patch", "delete"} /\ mine[c][c] = 0 /\ member[mesh[c]][c] # 0 =>
              \A p \in Pair : ~OnRecord(c, p)

StatusInv == \A c \in Cluster : Remembers(c)

LEMMA StatusInvInit == Init => StatusInv
  BY DEF Init, StatusInv, Remembers, NotReading

LEMMA StatusOfOne ==
  ASSUME TypeOK, Serial, NEW c \in Cluster, pc[c] # "idle", Moves(c), Remembers(c)'
  PROVE  StatusInv'
  <1>1. \A d \in Cluster \ {c} : pc'[d] = "idle"
    BY OthersIdle
  <1>2. ASSUME NEW d \in Cluster, d # c PROVE Remembers(d)'
    BY <1>1, <1>2 DEF Remembers, NotReading
  <1> QED
    BY <1>2 DEF StatusInv

\* A reconcile that has not read, or is done, knows nothing.
LEMMA StatusForgotten ==
  ASSUME TypeOK, Serial, NEW c \in Cluster, pc[c] # "idle", Moves(c), pc'[c] \in NotReading
  PROVE  StatusInv'
  <1>1. Remembers(c)'
    BY DEF Remembers, NotReading
  <1> QED
    BY <1>1, StatusOfOne

\* Nor does one that has read something else than what there is.
LEMMA StatusUntrusted ==
  ASSUME TypeOK, Serial, NEW c \in Cluster, pc[c] # "idle", Moves(c), ~Trusted(c)'
  PROVE  StatusInv'
  <1>1. Remembers(c)'
    BY DEF Remembers
  <1> QED
    BY <1>1, StatusOfOne

LEMMA StatusReads ==
  ASSUME TypeOK, Serial, StatusInv, NEW c \in Cluster,
         GetMesh(c) \/ ListPeerings(c) \/ GetMeshToLeave(c) \/ DeleteGroup(c) \/ LeaveMesh(c)
  PROVE  StatusInv'
  <1>0. PcOK /\ LocalOK /\ mesh[c] \in Mesh
    BY TypeOKParts DEF PcOK
  <1>1. pc[c] # "idle" /\ Moves(c) /\ Remembers(c)
    BY PcMoves, ProceedIsBusy DEF Proceed, StatusInv
  <1>2. UNCHANGED <<member, status, owner, mesh>>
    BY DEF GetMesh, ListPeerings, GetMeshToLeave, DeleteGroup, LeaveMesh, mesh_vars, peer_vars
  <1>3. /\ PeeringsOf(mesh[c])' = PeeringsOf(mesh[c])
        /\ Peerings' = Peerings
        /\ \A p : OnRecord(c, p)' <=> OnRecord(c, p)
    BY <1>2 DEF PeeringsOf, Peerings, OnRecord
  <1> SUFFICES ASSUME pc'[c] \notin NotReading, Trusted(c)' PROVE StatusInv'
    BY <1>1, StatusForgotten, StatusUntrusted
  <1>4. CASE GetMesh(c) \/ GetMeshToLeave(c)
    <2>1. /\ pc'[c] \in {"join", "peerings", "ungroup"}
          /\ refs'[c] = Seen(mesh[c]).status
          /\ view'[c] = ViewOf(mesh[c])
      BY <1>0, <1>4 DEF GetMesh, GetMeshToLeave, Take, NotReading, PcOK, LocalOK
    <2>2. refs'[c] = status[mesh[c]]
      BY <1>0, <2>1, ReadPresent DEF Trusted
    <2>3. Remembers(c)'
      BY <1>2, <1>3, <2>1, <2>2 DEF Remembers, NotReading
    <2> QED
      BY <1>1, <2>3, StatusOfOne
  <1>5. CASE ListPeerings(c)
    <2>1. pc[c] = "peerings" /\ pc'[c] = "peer"
      BY <1>0, <1>5 DEF ListPeerings, PcOK
    <2>2. refs'[c] = Owned(mesh[c])
      BY <1>0, <1>5 DEF ListPeerings, LocalOK
    <2>3. Owned(mesh[c]) = PeeringsOf(mesh[c])
      BY <1>2, <1>5 DEF ListPeerings, Misled, Trusted
    <2>4. PeeringsOf(mesh[c]) \subseteq Peerings
      BY <1>0, ConstantsAssumption DEF PeeringsOf, Peerings
    <2>5. Remembers(c)'
      BY <1>2, <1>3, <2>1, <2>2, <2>3, <2>4 DEF Remembers, NotReading
    <2> QED
      BY <1>1, <2>5, StatusOfOne
  <1>6. CASE DeleteGroup(c)
    <2>1. pc[c] = "ungroup" /\ pc'[c] = "unpeer" /\ UNCHANGED <<refs, view, misled>>
      BY <1>0, <1>6 DEF DeleteGroup, PcOK
    <2>2. Trusted(c)
      BY <1>2, <2>1 DEF Trusted
    <2>3. todo'[c] = Named(c, refs[c]) /\ refs[c] = status[mesh[c]]
      BY <1>0, <1>1, <1>6, <2>1, <2>2 DEF DeleteGroup, LocalOK, Remembers
    <2>4. \A p \in Pair : c \in {p[1], p[2]} => <<c, p>> \in Inside
      BY ConstantsAssumption
    <2>5. \A p \in Pair : OnRecord(c, p) => p \in todo'[c]
      BY <1>0, <2>3, <2>4 DEF Named, OnRecord, LocalOK
    <2>6. Remembers(c)'
      BY <1>1, <1>2, <1>3, <2>1, <2>2, <2>5 DEF Remembers, NotReading
    <2> QED
      BY <1>1, <2>6, StatusOfOne
  <1>7. CASE LeaveMesh(c)
    <2>1. /\ pc[c] = "unpeer" /\ pc'[c] \in {"patch", "delete"} /\ todo[c] = {}
          /\ UNCHANGED <<refs, view, misled>>
      BY <1>0, <1>7 DEF LeaveMesh, PcOK
    <2>2. Trusted(c)
      BY <1>2, <2>1 DEF Trusted
    <2>3. \A p \in Pair : ~OnRecord(c, p)
      BY <1>1, <2>1, <2>2 DEF Remembers
    <2>4. Remembers(c)'
      BY <1>1, <1>2, <1>3, <2>1, <2>2, <2>3 DEF Remembers, NotReading
    <2> QED
      BY <1>1, <2>4, StatusOfOne
  <1> QED
    BY <1>4, <1>5, <1>6, <1>7

LEMMA StatusBetween ==
  ASSUME TypeOK, Serial, RunInv, StatusInv, NEW c \in Cluster,
         \/ PeeringsDone(c) \/ WriteGroup(c) \/ OwnGroup(c) \/ ListForRoutes(c) \/ Validate(c)
         \/ Join(c) \/ Patch(c) \/ \E p \in Pair : ManageRoutes(c, p)
  PROVE  StatusInv'
  <1>0. PcOK /\ LocalOK
    BY TypeOKParts
  <1>1. pc[c] # "idle" /\ Moves(c) /\ Remembers(c) /\ Run(c)
    BY PcMoves, ProceedIsBusy DEF Proceed, StatusInv, RunInv
  <1>2. UNCHANGED <<status, owner, mesh, mine, refs, misled>>
    BY DEF PeeringsDone, WriteGroup, OwnGroup, ListForRoutes, Validate, Join, Patch, ManageRoutes,
           mesh_vars, peer_vars, run_vars
  <1>3. UNCHANGED view
    <2>1. view' = view \/ Touched(c, mesh[c])
      BY DEF PeeringsDone, WriteGroup, OwnGroup, ListForRoutes, Validate, Join, Patch, ManageRoutes
    <2> QED
      BY <1>1, <2>1, NoneTouched
  <1> SUFFICES ASSUME Trusted(c)' PROVE StatusInv'
    BY <1>1, StatusUntrusted
  <1>4. Trusted(c)
    BY <1>2, <1>3 DEF Trusted
  <1>5. /\ PeeringsOf(mesh[c])' = PeeringsOf(mesh[c])
        /\ Peerings' = Peerings
    BY <1>2 DEF PeeringsOf, Peerings
  <1>6. /\ pc[c] \notin NotReading
        /\ pc'[c] \notin {"ungroup", "unpeer", "delete"}
        /\ pc'[c] = "patch" => pc[c] \in Normal
    BY <1>0, <1>1, <1>4 DEF PeeringsDone, WriteGroup, OwnGroup, ListForRoutes, Validate, Join,
           Patch, ManageRoutes, NotReading, Normal, PcOK, Trusted
  <1>7. pc'[c] = "patch" => mine'[c][c] # 0
    BY <1>1, <1>2, <1>6 DEF Run
  <1>8. Remembers(c)'
    BY <1>1, <1>2, <1>4, <1>5, <1>6, <1>7 DEF Remembers
  <1> QED
    BY <1>1, <1>8, StatusOfOne

LEMMA StatusPeerings ==
  ASSUME TypeOK, Serial, StatusInv, NEW c \in Cluster, NEW p \in Pair,
         CreatePeering(c, p) \/ DeletePeering(c, p)
  PROVE  StatusInv'
  <1>0. PcOK /\ LocalOK /\ mesh[c] \in Mesh
    BY TypeOKParts DEF PcOK
  <1>1. pc[c] # "idle" /\ Moves(c) /\ Remembers(c)
    BY PcMoves, ProceedIsBusy DEF Proceed, StatusInv
  <1>2. UNCHANGED <<member, status, mesh, mine, pc, view>> /\ todo'[c] = todo[c] \ {p}
    BY <1>0 DEF CreatePeering, DeletePeering, mesh_vars, LocalOK
  <1>3. mesh[c] # None
    BY <1>0, ConstantsAssumption
  <1> SUFFICES ASSUME Trusted(c)' PROVE StatusInv'
    BY <1>1, StatusUntrusted
  <1>4. CASE CreatePeering(c, p)
    <2>1. pc[c] = "peer" /\ refs'[c] = refs[c] \cup {p}
      BY <1>0, <1>4 DEF CreatePeering, LocalOK
    <2>2. \A q \in Pair : owner'[q] = IF q = p /\ owner[p] = None /\ view[c] # "gone"
                                      THEN mesh[c] ELSE owner[q]
      BY <1>4, CreatedPeering
    <2>3. misled \subseteq misled' /\ view[c] = "current"
      BY <1>2, <1>4, CreatedPeering DEF Trusted
    <2>4. Trusted(c)
      BY <1>2, <2>3 DEF Trusted
    <2>5. Peerings' = Peerings \cup {p}
      BY <1>3, <2>2, <2>3 DEF Peerings
    <2>6. PeeringsOf(mesh[c])' \subseteq PeeringsOf(mesh[c]) \cup {p}
      BY <1>2, <2>2 DEF PeeringsOf
    <2>7. misled' = {} => misled = {}
      BY <2>3
    <2>8. Remembers(c)'
      BY <1>1, <1>2, <2>1, <2>4, <2>5, <2>6, <2>7 DEF Remembers, NotReading
    <2> QED
      BY <1>1, <2>8, StatusOfOne
  <1>5. CASE DeletePeering(c, p)
    <2>1. pc[c] = "unpeer" /\ refs'[c] = refs[c] \ {p} /\ misled' = misled
      BY <1>0, <1>5 DEF DeletePeering, LocalOK
    <2>2. \A q \in Pair : owner'[q] = IF q = p THEN None ELSE owner[q]
      BY <1>5, DeletedPeering
    <2>3. Peerings' = Peerings \ {p} /\ PeeringsOf(mesh[c])' = PeeringsOf(mesh[c]) \ {p}
      BY <1>2, <1>3, <2>2 DEF Peerings, PeeringsOf
    <2>4. \A q \in Pair : OnRecord(c, q)' => OnRecord(c, q) /\ q # p
      BY <1>2, <2>3 DEF OnRecord
    <2>5. Trusted(c)
      BY <1>2, <2>1 DEF Trusted
    <2>6. Remembers(c)'
      BY <1>1, <1>2, <2>1, <2>3, <2>4, <2>5 DEF Remembers, NotReading
    <2> QED
      BY <1>1, <2>6, StatusOfOne
  <1> QED
    BY <1>4, <1>5

LEMMA StatusEnds ==
  ASSUME TypeOK, ReadInv, Serial, RunInv, LeaveInv, StatusInv, NEW c \in Cluster,
         CreateMesh(c) \/ DeleteMesh(c) \/ UpdateStatus(c) \/ CallFails(c)
  PROVE  StatusInv'
  <1>0. PcOK /\ LocalOK
    BY TypeOKParts
  <1>1. pc[c] # "idle" /\ Moves(c) /\ Remembers(c) /\ Run(c) /\ Fresh(c)
    BY PcMoves, ProceedIsBusy DEF Proceed, StatusInv, RunInv, ReadInv
  <1>2. CASE pc'[c] = "idle"
    BY <1>1, <1>2, StatusForgotten DEF NotReading
  <1>3. CASE pc'[c] # "idle" /\ Trusted(c)'
    <2>1. CallFails(c) /\ UNCHANGED <<member, status, owner, mesh, mine, refs, view, misled>>
      BY <1>0, <1>3 DEF CreateMesh, DeleteMesh, UpdateStatus, CallFails, mesh_vars, peer_vars, PcOK
    <2>2. /\ PeeringsOf(mesh[c])' = PeeringsOf(mesh[c])
          /\ Peerings' = Peerings
      BY <2>1 DEF PeeringsOf, Peerings
    <2>3. \/ pc[c] = "patch" /\ pc'[c] = "status"
          \/ pc[c] # "patch" /\ pc'[c] = "patch" /\ Members(mine[c]) # {}
      BY <1>0, <1>3, <2>1 DEF CallFails, Deferred, PcOK
    <2>4. ASSUME pc[c] # "patch", Members(mine[c]) # {}, pc'[c] = "patch"
          PROVE  pc[c] \in Normal \cup {"join", "ungroup", "unpeer"}
      <3>1. PICK d \in Cluster : mine[c][d] # 0
        BY <2>4 DEF Members, BelongsToMesh
      <3>2. pc[c] \notin NotReading
        BY <1>1, <3>1 DEF Fresh, Nobody
      <3>3. pc[c] # "delete"
        BY <3>1 DEF LeaveInv
      <3>4. pc[c] # "status"
        BY <1>0, <2>1, <2>4 DEF CallFails, PcOK
      <3> QED
        BY <1>0, <2>4, <3>2, <3>3, <3>4 DEF NotReading, Normal, PcOK, Step
    <2>5. pc[c] \notin NotReading
      BY <2>3, <2>4 DEF NotReading, Normal
    <2>6. Trusted(c)
      BY <1>3, <2>1 DEF Trusted
    <2>7. pc'[c] = "patch" => mine[c][c] # 0 \/ member[mesh[c]][c] = 0
      BY <1>1, <2>3, <2>4, <2>6 DEF Run, Trusted
    <2>8. pc'[c] \in {"patch", "status"}
      BY <2>3
    <2>9. Remembers(c)'
      BY <1>1, <2>1, <2>2, <2>5, <2>6, <2>7, <2>8 DEF Remembers
    <2> QED
      BY <1>1, <2>9, StatusOfOne
  <1> QED
    BY <1>1, <1>2, <1>3, StatusUntrusted

LEMMA StatusInvStep ==
  ASSUME TypeOK, ReadInv, Serial, RunInv, LeaveInv, StatusInv, OneWorker, [Next]_vars
  PROVE  StatusInv'
  <1>0. PcOK
    BY TypeOKParts
  <1>1. CASE UNCHANGED <<member, status, owner, pc, mesh, mine, refs, todo, view, misled>>
    BY <1>1 DEF StatusInv, Remembers, OnRecord, PeeringsOf, Peerings, Trusted
  <1>2. ASSUME NEW c \in Cluster, Start(c) PROVE StatusInv'
    <2>1. \A d \in Cluster : pc[d] = "idle"
      BY <1>2, StartsAlone
    <2>2. \A d \in Cluster : pc'[d] \in NotReading
      BY <1>0, <1>2, <2>1 DEF Start, Reconcile, ReconcileRemoved, PcOK, NotReading
    <2> QED
      BY <2>2 DEF StatusInv, Remembers, NotReading
  <1>3. ASSUME NEW c \in Cluster, Proceed(c) \/ CallFails(c) PROVE StatusInv'
    BY <1>3, StatusReads, StatusBetween, StatusPeerings, StatusEnds DEF Proceed
  <1>4. CASE Restart
    BY <1>4 DEF Restart, StatusInv, Remembers, NotReading
  <1>5. ASSUME NEW c \in Cluster, User(c) \/ ReconcileOutsider(c) PROVE StatusInv'
    BY <1>1, <1>5 DEF User, Relabel, AddRouteTable, ReconcileOutsider, vars, run_vars, peer_vars,
                      mesh_vars
  <1>6. CASE Crossplane \/ Cache \/ UNCHANGED vars
    BY <1>1, <1>6, CacheChanges DEF Crossplane, PeeringReady, GroupGone, vars, run_vars, peer_vars,
                                    mesh_vars
  <1> QED
    BY <1>2, <1>3, <1>4, <1>5, <1>6 DEF Next

-----------------------------------------------------------------------------
(* The steps of the reconciles as steps of MeshLinks.                      *)

LEMMA InitRefines == Init => Links!Init
  <1> SUFFICES ASSUME Init PROVE Links!Init
    OBVIOUS
  <1>1. MembersOf = [m \in Mesh |-> {}]
    BY DEF Init, MembersOf, Promised, Members, BelongsToMesh, Nobody
  <1>2. OwnedBy = [m \in Mesh |-> {}]
    BY ConstantsAssumption DEF Init, OwnedBy, Promised, PeeringsOf
  <1>3. StatusOf = [m \in Mesh |-> {}]
    BY DEF Init, StatusOf, Promised
  <1> QED
    BY <1>1, <1>2, <1>3 DEF Init, Links!Init

LEMMA StutterRefines == UNCHANGED <<member, owner, status, misled>> => UNCHANGED Links!vars
  BY DEF MembersOf, Members, BelongsToMesh, OwnedBy, PeeringsOf, StatusOf, Promised, Links!vars

\* The members of one mesh change, and nothing else.
LEMMA MembersChange ==
  ASSUME NEW m \in Mesh \ misled, NEW cs, Members(member[m])' = cs, UNCHANGED misled,
         \A n \in Mesh : n # m => member'[n] = member[n]
  PROVE  MembersOf' = [MembersOf EXCEPT ![m] = cs]
  BY DEF MembersOf, Promised, Members, BelongsToMesh

LEMMA SameMembers == UNCHANGED <<member, misled>> => UNCHANGED MembersOf
  BY DEF MembersOf, Promised, Members, BelongsToMesh

LEMMA SameOwners == UNCHANGED <<owner, misled>> => UNCHANGED OwnedBy
  BY DEF OwnedBy, Promised, PeeringsOf

LEMMA SameStatus == UNCHANGED <<status, misled>> => UNCHANGED StatusOf
  BY DEF StatusOf, Promised

\* What is promised of a mesh that no outdated read has changed.
LEMMA PromisedIs ==
  ASSUME NEW m \in Mesh \ misled
  PROVE  /\ MembersOf[m] = Members(member[m])
         /\ OwnedBy[m] = PeeringsOf(m)
         /\ StatusOf[m] = status[m]
  BY DEF MembersOf, OwnedBy, StatusOf, Promised

LEMMA AllLinksAre ==
  ASSUME TypeOK
  PROVE  /\ Links!AllLinks \subseteq Peerings
         /\ misled = {} => Links!AllLinks = Peerings
  <1>1. \A m \in Mesh : PeeringsOf(m) \subseteq Peerings
    BY ConstantsAssumption DEF PeeringsOf, Peerings
  <1>2. \A m \in Mesh : OwnedBy[m] \subseteq PeeringsOf(m)
    BY DEF OwnedBy, Promised
  <1>3. Links!AllLinks = UNION {OwnedBy[m] : m \in Mesh}
    BY DEF Links!AllLinks
  <1>4. ASSUME misled = {}, NEW p \in Peerings PROVE p \in Links!AllLinks
    <2>1. owner[p] \in Mesh /\ p \in PeeringsOf(owner[p])
      BY <1>4, TypeOKParts DEF Peerings, PeeringsOf, PeerOK
    <2>2. p \in OwnedBy[owner[p]]
      BY <1>4, <2>1 DEF OwnedBy, Promised
    <2> QED
      BY <1>3, <2>1, <2>2
  <1> QED
    BY <1>1, <1>2, <1>3, <1>4

\* No peering of c on record is left: in the words of MeshLinks.
LEMMA NoneOnRecord ==
  ASSUME TypeOK, NEW c \in Cluster, mesh[c] \in Mesh \ misled, \A p \in Pair : ~OnRecord(c, p)
  PROVE  Links!Unlinked(mesh[c], c)
  BY AllLinksAre, PromisedIs DEF OnRecord, Links!Unlinked, Links!Ends, Peerings

\* A mesh that an outdated read changes is lost.
LEMMA Loses ==
  ASSUME NEW m \in Mesh, misled' = misled \cup {m},
         \A n \in Mesh : n # m => /\ member'[n] = member[n]
                                  /\ status'[n] = status[n]
                                  /\ PeeringsOf(n)' = PeeringsOf(n)
  PROVE  Links!Next \/ UNCHANGED Links!vars
  <1>1. MembersOf' = [MembersOf EXCEPT ![m] = {}]
    BY DEF MembersOf, Promised, Members, BelongsToMesh
  <1>2. OwnedBy' = [OwnedBy EXCEPT ![m] = {}]
    BY DEF OwnedBy, Promised
  <1>3. StatusOf' = [StatusOf EXCEPT ![m] = {}]
    BY DEF StatusOf, Promised
  <1>4. CASE m \notin misled
    <2>1. Links!Lose(m)
      BY <1>1, <1>2, <1>3 DEF Links!Lose
    <2> QED
      BY <1>4, <2>1 DEF Links!Next
  <1>5. CASE m \in misled
    <2>1. MembersOf[m] = {} /\ OwnedBy[m] = {} /\ StatusOf[m] = {} /\ misled' = misled
      BY <1>5 DEF MembersOf, OwnedBy, StatusOf, Promised
    <2>2. UNCHANGED MembersOf
      BY <1>1, <2>1 DEF MembersOf
    <2>3. UNCHANGED OwnedBy
      BY <1>2, <2>1 DEF OwnedBy
    <2>4. UNCHANGED StatusOf
      BY <1>3, <2>1 DEF StatusOf
    <2> QED
      BY <2>1, <2>2, <2>3, <2>4 DEF Links!vars
  <1> QED
    BY <1>4, <1>5

\* What happens to a mesh that is lost is no matter any more.
LEMMA LostStutters ==
  ASSUME NEW m \in misled, UNCHANGED misled,
         \A n \in Mesh : n # m => /\ member'[n] = member[n]
                                  /\ status'[n] = status[n]
                                  /\ PeeringsOf(n)' = PeeringsOf(n)
  PROVE  UNCHANGED Links!vars
  <1>1. UNCHANGED MembersOf
    BY DEF MembersOf, Promised, Members, BelongsToMesh
  <1>2. UNCHANGED OwnedBy
    BY DEF OwnedBy, Promised
  <1>3. UNCHANGED StatusOf
    BY DEF StatusOf, Promised
  <1> QED
    BY <1>1, <1>2, <1>3 DEF Links!vars

LEMMA CreateMeshRefines ==
  ASSUME TypeOK, RunInv, NEW c \in Cluster, CreateMesh(c)
  PROVE  Links!Next \/ UNCHANGED Links!vars
  <1>0. PcOK /\ LocalOK /\ MeshOK /\ mesh[c] \in Mesh
    BY TypeOKParts DEF PcOK
  <1>1. UNCHANGED <<owner, status, misled, mesh>>
    BY DEF CreateMesh, peer_vars
  <1>2. CASE exists[mesh[c]]
    BY <1>1, <1>2, StutterRefines DEF CreateMesh
  <1>3. CASE ~exists[mesh[c]]
    <2>1. current[c] # 0 /\ member[mesh[c]] = Nobody
      BY <1>0, <1>3 DEF CreateMesh, Run, RunInv, Peopled
    <2>2. /\ member'[mesh[c]] = [Nobody EXCEPT ![c] = current[c]]
          /\ \A n \in Mesh : n # mesh[c] => member'[n] = member[n]
      BY <1>0, <1>3 DEF CreateMesh, MeshOK
    <2>3. CASE mesh[c] \in misled
      BY <1>1, <2>2, <2>3, LostStutters DEF PeeringsOf
    <2>4. CASE mesh[c] \notin misled
      <3>1. Members(member[mesh[c]])' = {c} /\ Members(member[mesh[c]]) = {}
        BY <1>1, <2>1, <2>2 DEF Members, BelongsToMesh, Nobody
      <3>2. MembersOf' = [MembersOf EXCEPT ![mesh[c]] = {c}]
        BY <1>0, <1>1, <2>2, <2>4, <3>1, MembersChange
      <3>3. MembersOf[mesh[c]] \cup {c} = {c}
        BY <1>0, <2>4, <3>1, PromisedIs
      <3>4. Links!Join(mesh[c], c)
        BY <1>1, <3>2, <3>3, SameOwners, SameStatus DEF Links!Join
      <3> QED
        BY <1>0, <2>4, <3>4 DEF Links!Next
    <2> QED
      BY <2>3, <2>4
  <1> QED
    BY <1>2, <1>3

\* A write of the list of members puts the cluster on it that writes or, when
\* nothing on record of it is left, takes it off.
LEMMA WriteRefines ==
  ASSUME TypeOK, ReadInv, NEW c \in Cluster, pc[c] \in {"join", "patch"}, view[c] = "current",
         Remembers(c), mine[c][c] = 0 => pc[c] = "patch",
         member' = [member EXCEPT ![mesh[c]] = mine[c]],
         UNCHANGED <<owner, status, misled, mesh>>
  PROVE  Links!Next \/ UNCHANGED Links!vars
  <1>0. PcOK /\ MeshOK /\ mesh[c] \in Mesh
    BY TypeOKParts DEF PcOK
  <1>1. /\ member'[mesh[c]] = mine[c]
        /\ \A n \in Mesh : n # mesh[c] => member'[n] = member[n]
    BY <1>0 DEF MeshOK
  <1>2. \A d \in Cluster \ {c} : mine[c][d] = member[mesh[c]][d]
    BY DEF ReadInv, Fresh, NotReading
  <1>3. CASE mesh[c] \in misled
    BY <1>1, <1>3, LostStutters DEF PeeringsOf
  <1>4. CASE mesh[c] \notin misled /\ mine[c][c] # 0
    <2>1. Members(member[mesh[c]])' = Members(member[mesh[c]]) \cup {c}
      BY <1>1, <1>2, <1>4 DEF Members, BelongsToMesh
    <2>2. MembersOf' = [MembersOf EXCEPT ![mesh[c]] = MembersOf[mesh[c]] \cup {c}]
      BY <1>0, <1>1, <1>4, <2>1, MembersChange, PromisedIs
    <2>3. Links!Join(mesh[c], c)
      BY <2>2, SameOwners, SameStatus DEF Links!Join
    <2> QED
      BY <1>0, <1>4, <2>3 DEF Links!Next
  <1>5. CASE mesh[c] \notin misled /\ mine[c][c] = 0 /\ member[mesh[c]][c] # 0
    <2>1. Members(member[mesh[c]])' = Members(member[mesh[c]]) \ {c}
      BY <1>1, <1>2, <1>5 DEF Members, BelongsToMesh
    <2>2. MembersOf' = [MembersOf EXCEPT ![mesh[c]] = MembersOf[mesh[c]] \ {c}]
      BY <1>0, <1>1, <1>5, <2>1, MembersChange, PromisedIs
    <2>3. c \in MembersOf[mesh[c]]
      BY <1>0, <1>5, PromisedIs DEF Members, BelongsToMesh
    <2>4. Links!Unlinked(mesh[c], c)
      BY <1>0, <1>5, NoneOnRecord DEF Remembers, Trusted
    <2>5. Links!Leave(mesh[c], c)
      BY <2>2, <2>3, <2>4, SameOwners, SameStatus DEF Links!Leave
    <2> QED
      BY <1>0, <1>5, <2>5 DEF Links!Next
  <1>6. CASE mesh[c] \notin misled /\ mine[c][c] = 0 /\ member[mesh[c]][c] = 0
    <2>1. Members(member[mesh[c]])' = Members(member[mesh[c]])
      BY <1>1, <1>2, <1>6 DEF Members, BelongsToMesh
    <2>2. MembersOf' = [MembersOf EXCEPT ![mesh[c]] = MembersOf[mesh[c]]]
      BY <1>0, <1>1, <1>6, <2>1, MembersChange, PromisedIs
    <2>3. MembersOf' = MembersOf
      BY <2>2 DEF MembersOf
    <2> QED
      BY <2>3, SameOwners, SameStatus DEF Links!vars
  <1> QED
    BY <1>3, <1>4, <1>5, <1>6

LEMMA WritesRefine ==
  ASSUME TypeOK, ReadInv, RunInv, StatusInv, NEW c \in Cluster, Join(c) \/ Patch(c)
  PROVE  Links!Next \/ UNCHANGED Links!vars
  <1>1. Remembers(c) /\ Run(c)
    BY DEF StatusInv, RunInv
  <1>2. UNCHANGED <<owner, status, misled, mesh>>
    BY DEF Join, Patch, peer_vars, run_vars
  <1>3. CASE member' = member
    BY <1>2, <1>3, StutterRefines
  <1>4. CASE member' # member
    <2>1. /\ pc[c] \in {"join", "patch"} /\ view[c] = "current"
          /\ member' = [member EXCEPT ![mesh[c]] = mine[c]]
      BY <1>4 DEF Join, Patch
    <2>2. mine[c][c] = 0 => pc[c] = "patch"
      BY <1>1, <2>1 DEF Run
    <2> QED
      BY <1>1, <1>2, <2>1, <2>2, WriteRefines
  <1> QED
    BY <1>3, <1>4

LEMMA ListRefines ==
  ASSUME TypeOK, NEW c \in Cluster, ListPeerings(c)
  PROVE  Links!Next \/ UNCHANGED Links!vars
  <1>0. mesh[c] \in Mesh
    BY TypeOKParts DEF PcOK
  <1>1. UNCHANGED <<member, owner, status>>
    BY DEF ListPeerings, mesh_vars, peer_vars
  <1>2. misled' = misled \/ misled' = misled \cup {mesh[c]}
    BY DEF ListPeerings, Misled
  <1>3. CASE misled' = misled
    BY <1>1, <1>3, StutterRefines
  <1>4. CASE misled' = misled \cup {mesh[c]}
    BY <1>0, <1>1, <1>4, Loses DEF PeeringsOf
  <1> QED
    BY <1>2, <1>3, <1>4

LEMMA CreateRefines ==
  ASSUME TypeOK, RunInv, TodoInv, NEW c \in Cluster, NEW p \in Pair, CreatePeering(c, p)
  PROVE  Links!Next \/ UNCHANGED Links!vars
  <1>0. PcOK /\ LocalOK /\ mesh[c] \in Mesh /\ mesh[c] # None
    BY TypeOKParts, ConstantsAssumption DEF PcOK
  <1>1. pc[c] = "peer" /\ p \in todo[c] /\ UNCHANGED <<member, status, mesh>>
    BY DEF CreatePeering, mesh_vars
  <1>2. /\ \A q \in Pair : owner'[q] = IF q = p /\ owner[p] = None /\ view[c] # "gone"
                                       THEN mesh[c] ELSE owner[q]
        /\ misled' = IF view[c] = "old" /\ owner[p] = None THEN misled \cup {mesh[c]} ELSE misled
    BY CreatedPeering DEF CreatePeering, Misled
  <1>3. \A m \in Mesh : m # mesh[c] => PeeringsOf(m)' = PeeringsOf(m)
    BY <1>2, ConstantsAssumption DEF PeeringsOf
  <1>4. CASE owner[p] # None \/ view[c] = "gone"
    <2>1. \A m \in Mesh : PeeringsOf(m)' = PeeringsOf(m)
      BY <1>2, <1>4 DEF PeeringsOf
    <2>2. UNCHANGED misled
      BY <1>2, <1>4
    <2>3. UNCHANGED OwnedBy
      BY <2>1, <2>2 DEF OwnedBy, Promised
    <2> QED
      BY <1>1, <2>2, <2>3, SameMembers, SameStatus DEF Links!vars
  <1>5. CASE owner[p] = None /\ view[c] = "old"
    BY <1>0, <1>1, <1>2, <1>3, <1>5, Loses
  <1>6. CASE owner[p] = None /\ view[c] = "current" /\ mesh[c] \in misled
    BY <1>1, <1>2, <1>3, <1>6, LostStutters
  <1>7. CASE owner[p] = None /\ view[c] = "current" /\ mesh[c] \notin misled
    <2>1. PeeringsOf(mesh[c])' = PeeringsOf(mesh[c]) \cup {p} /\ UNCHANGED misled
      <3>1. \A q \in Pair : owner'[q] = mesh[c] <=> owner[q] = mesh[c] \/ q = p
        BY <1>2, <1>7
      <3>2. {q \in Pair : owner'[q] = mesh[c]} = {q \in Pair : owner[q] = mesh[c]} \cup {p}
        BY <3>1
      <3> QED
        BY <1>1, <1>2, <1>7, <3>2 DEF PeeringsOf
    <2>2. OwnedBy' = [OwnedBy EXCEPT ![mesh[c]] = OwnedBy[mesh[c]] \cup {p}]
      <3>1. \A m \in Mesh : PeeringsOf(m)' = IF m = mesh[c] THEN PeeringsOf(m) \cup {p}
                                             ELSE PeeringsOf(m)
        BY <1>1, <1>3, <2>1
      <3> QED
        BY <1>0, <1>7, <2>1, <3>1 DEF OwnedBy, Promised
    <2>3. MembersOf[mesh[c]] = Members(mine[c]) /\ p[1] = c /\ p[2] \in Members(mine[c])
          /\ mine[c][c] # 0
      BY <1>0, <1>1, <1>7, PromisedIs DEF RunInv, Run, Normal
    <2>4. Links!Ends(p) \subseteq MembersOf[mesh[c]]
      BY <2>3 DEF Links!Ends, Members, BelongsToMesh
    <2>5. p \notin Links!AllLinks
      BY <1>7, AllLinksAre DEF Peerings
    <2>6. Links!Opposite(p) \notin OwnedBy[mesh[c]]
      BY <1>0, <1>1, <1>7, PromisedIs DEF TodoInv, Links!Opposite, Reverse, PeeringsOf
    <2>7. Links!Connect(mesh[c], p)
      BY <1>1, <2>1, <2>2, <2>4, <2>5, <2>6, SameMembers, SameStatus DEF Links!Connect
    <2> QED
      BY <1>0, <1>7, <2>7 DEF Links!Next, Links!Link, Pair
  <1> QED
    BY <1>0, <1>4, <1>5, <1>6, <1>7 DEF PcOK

LEMMA DeleteRefines ==
  ASSUME TypeOK, LeaveInv, NEW c \in Cluster, NEW p \in Pair, DeletePeering(c, p)
  PROVE  Links!Next
  <1>1. pc[c] = "unpeer" /\ p \in todo[c] /\ UNCHANGED <<member, status, misled>>
    BY DEF DeletePeering, mesh_vars
  <1>2. \A m \in Mesh : PeeringsOf(m)' = PeeringsOf(m) \ {p}
    BY DeletedPeering, ConstantsAssumption DEF PeeringsOf
  <1>3. OwnedBy' = [m \in Mesh |-> OwnedBy[m] \ {p}]
    BY <1>1, <1>2 DEF OwnedBy, Promised
  <1>4. c \in Links!Ends(p)
    BY <1>1 DEF LeaveInv, Links!Ends
  <1>5. Links!Disconnect(c, p)
    BY <1>1, <1>3, <1>4, SameMembers, SameStatus DEF Links!Disconnect
  <1> QED
    BY <1>5 DEF Links!Next, Links!Link, Pair

LEMMA DisbandRefines ==
  ASSUME TypeOK, ReadInv, RunInv, LeaveInv, StatusInv, NEW c \in Cluster, DeleteMesh(c)
  PROVE  Links!Next \/ UNCHANGED Links!vars
  <1>0. PcOK /\ MeshOK /\ mesh[c] \in Mesh
    BY TypeOKParts DEF PcOK
  <1>1. pc[c] = "delete" /\ mesh' = mesh
    BY DEF DeleteMesh
  <1>2. CASE ~exists[mesh[c]]
    BY <1>2, StutterRefines DEF DeleteMesh, Misled, mesh_vars, peer_vars
  <1>3. CASE exists[mesh[c]]
    <2>1. /\ member'[mesh[c]] = Nobody
          /\ status' = [status EXCEPT ![mesh[c]] = {}]
          /\ \A n \in Mesh : n # mesh[c] => member'[n] = member[n] /\ status'[n] = status[n]
      BY <1>0, <1>3 DEF DeleteMesh, MeshOK
    <2>2. misled' = IF view[c] # "current" THEN misled \cup {mesh[c]} ELSE misled
      BY <1>3 DEF DeleteMesh, Misled
    <2>3. \A m \in Mesh : PeeringsOf(m)' = IF m = mesh[c] THEN {} ELSE PeeringsOf(m)
      <3>1. \A m \in Mesh, q \in Pair : owner'[q] = m <=> owner[q] = m /\ m # mesh[c]
        BY <1>0, <1>3, DeletedMesh, ConstantsAssumption
      <3> QED
        BY <1>1, <3>1 DEF PeeringsOf
    <2>4. CASE view[c] # "current"
      BY <1>0, <1>1, <2>1, <2>2, <2>3, <2>4, Loses
    <2>5. CASE view[c] = "current" /\ mesh[c] \in misled
      BY <2>1, <2>2, <2>3, <2>5, LostStutters
    <2>6. CASE view[c] = "current" /\ mesh[c] \notin misled
      <3>1. /\ member[mesh[c]][c] # 0
            /\ \A d \in Cluster : mine[c][d] = 0
            /\ \A d \in Cluster \ {c} : mine[c][d] = member[mesh[c]][d]
        BY <1>1, <2>6 DEF RunInv, Run, LeaveInv, ReadInv, Fresh, NotReading
      <3>2. MembersOf[mesh[c]] = {c}
        BY <1>0, <2>6, <3>1, PromisedIs DEF Members, BelongsToMesh
      <3>3. Links!Unlinked(mesh[c], c)
        BY <1>0, <1>1, <2>6, <3>1, NoneOnRecord DEF StatusInv, Remembers, Trusted
      <3>4. Members(member[mesh[c]])' = {} /\ UNCHANGED misled
        BY <1>1, <2>1, <2>2, <2>6 DEF Members, BelongsToMesh, Nobody
      <3>5. MembersOf' = [MembersOf EXCEPT ![mesh[c]] = {}]
        BY <1>0, <1>1, <2>1, <2>6, <3>4, MembersChange
      <3>6. OwnedBy' = [OwnedBy EXCEPT ![mesh[c]] = {}]
        BY <1>0, <2>3, <3>4 DEF OwnedBy, Promised
      <3>7. StatusOf' = [StatusOf EXCEPT ![mesh[c]] = {}]
        BY <1>0, <2>1, <3>4 DEF StatusOf, Promised, MeshOK
      <3>8. Links!Disband(mesh[c], c)
        BY <3>2, <3>3, <3>4, <3>5, <3>6, <3>7 DEF Links!Disband
      <3> QED
        BY <1>0, <2>6, <3>8 DEF Links!Next
    <2> QED
      BY <2>4, <2>5, <2>6
  <1> QED
    BY <1>2, <1>3

LEMMA StatusRefines ==
  ASSUME TypeOK, StatusInv, NEW c \in Cluster, UpdateStatus(c)
  PROVE  Links!Next \/ UNCHANGED Links!vars
  <1>0. PcOK /\ LocalOK /\ MeshOK /\ mesh[c] \in Mesh
    BY TypeOKParts DEF PcOK
  <1>1. pc[c] = "status" /\ UNCHANGED <<member, owner, misled>>
    BY DEF UpdateStatus, peer_vars
  <1>2. CASE status' = status
    BY <1>1, <1>2, StutterRefines
  <1>3. CASE status' # status
    <2>1. status' = [status EXCEPT ![mesh[c]] = refs[c]] /\ view[c] = "current"
      BY <1>3 DEF UpdateStatus
    <2>2. /\ status'[mesh[c]] = refs[c]
          /\ \A n \in Mesh : n # mesh[c] => status'[n] = status[n]
      BY <1>0, <2>1 DEF MeshOK
    <2>3. CASE mesh[c] \in misled
      BY <1>1, <2>2, <2>3, LostStutters DEF PeeringsOf
    <2>4. CASE mesh[c] \notin misled
      <3>1. /\ status[mesh[c]] \cap PeeringsOf(mesh[c]) \subseteq refs[c]
            /\ misled = {} => refs[c] \subseteq status[mesh[c]] \cup Peerings
            /\ refs[c] \in SUBSET Pair
        BY <1>0, <1>1, <2>1, <2>4 DEF StatusInv, Remembers, Trusted, NotReading, LocalOK
      <3>2. /\ StatusOf[mesh[c]] \cap OwnedBy[mesh[c]] \subseteq refs[c]
            /\ misled = {} => refs[c] \subseteq StatusOf[mesh[c]] \cup Links!AllLinks
            /\ refs[c] \in SUBSET Links!Link
        BY <1>0, <2>4, <3>1, AllLinksAre, PromisedIs DEF Links!Link, Pair
      <3>3. StatusOf' = [StatusOf EXCEPT ![mesh[c]] = refs[c]]
        BY <1>0, <1>1, <2>2, <2>4 DEF StatusOf, Promised
      <3>4. Links!Record(mesh[c])
        BY <1>1, <3>2, <3>3, SameMembers, SameOwners DEF Links!Record
      <3> QED
        BY <1>0, <2>4, <3>4 DEF Links!Next
    <2> QED
      BY <2>3, <2>4
  <1> QED
    BY <1>2, <1>3

LEMMA NextRefines ==
  ASSUME TypeOK, ReadInv, RunInv, LeaveInv, TodoInv, StatusInv, [Next]_vars
  PROVE  [Links!Next]_(Links!vars)
  <1>1. ASSUME NEW c \in Cluster,
               \/ Start(c) \/ ReconcileOutsider(c) \/ User(c) \/ CallFails(c) \/ GetMesh(c)
               \/ PeeringsDone(c) \/ ListForRoutes(c) \/ Validate(c) \/ GetMeshToLeave(c)
               \/ LeaveMesh(c) \/ WriteGroup(c) \/ OwnGroup(c) \/ DeleteGroup(c)
        PROVE  UNCHANGED Links!vars
    <2>1. UNCHANGED <<mesh_vars, owner, misled>>
      BY <1>1 DEF Start, Reconcile, ReconcileRemoved, ReconcileOutsider, User, Relabel,
                  AddRouteTable, CallFails, GetMesh, PeeringsDone, ListForRoutes, Validate,
                  GetMeshToLeave, LeaveMesh, WriteGroup, OwnGroup, DeleteGroup, peer_vars, vars
    <2> QED
      BY <2>1, StutterRefines DEF mesh_vars
  <1>2. ASSUME NEW c \in Cluster, NEW p \in Pair, ManageRoutes(c, p) PROVE UNCHANGED Links!vars
    BY <1>2, StutterRefines DEF ManageRoutes, mesh_vars
  <1>3. CASE Crossplane \/ Restart \/ Cache \/ UNCHANGED vars
    <2>1. UNCHANGED <<member, owner, status, misled>>
      BY <1>3, CacheChanges DEF Crossplane, PeeringReady, GroupGone, Restart, peer_vars, mesh_vars,
                                vars
    <2> QED
      BY <2>1, StutterRefines
  <1>4. ASSUME NEW c \in Cluster, \/ CreateMesh(c) \/ Join(c) \/ ListPeerings(c) \/ Patch(c)
                                  \/ DeleteMesh(c) \/ UpdateStatus(c)
        PROVE  Links!Next \/ UNCHANGED Links!vars
    BY <1>4, CreateMeshRefines, WritesRefine, ListRefines, DisbandRefines, StatusRefines
  <1>5. ASSUME NEW c \in Cluster, NEW p \in Pair, CreatePeering(c, p) \/ DeletePeering(c, p)
        PROVE  Links!Next \/ UNCHANGED Links!vars
    BY <1>5, CreateRefines, DeleteRefines
  <1> QED
    BY <1>1, <1>2, <1>3, <1>4, <1>5 DEF Next, Proceed

\* With one worker and names apart, every behaviour of the reconciles, with
\* their calls that fail, restarts at any point and reads of a cache that lags,
\* is one of MeshLinks, for any number of clusters and of meshes.
THEOREM ImplementsLinks == OneWorker /\ NamesApart => (Spec => ImplementsMeshLinks)
  <1>1. SUFFICES ASSUME OneWorker, NamesApart PROVE Spec => ImplementsMeshLinks
    OBVIOUS
  <1>2. TypeOK /\ Serial /\ [Next]_vars => Serial'
    BY <1>1, SerialStep
  <1>3. TypeOK /\ ReadInv /\ Serial /\ RunInv /\ [Next]_vars => RunInv'
    BY <1>1, RunInvStep
  <1>4. TypeOK /\ LeaveInv /\ [Next]_vars => LeaveInv'
    BY <1>1, LeaveInvStep
  <1>5. TypeOK /\ Serial /\ TodoInv /\ [Next]_vars => TodoInv'
    BY <1>1, TodoStep
  <1>6. TypeOK /\ ReadInv /\ Serial /\ RunInv /\ LeaveInv /\ StatusInv /\ [Next]_vars => StatusInv'
    BY <1>1, StatusInvStep
  <1>7. TypeOK /\ ReadInv /\ RunInv /\ LeaveInv /\ TodoInv /\ StatusInv /\ [Next]_vars
        => [Links!Next]_(Links!vars)
    BY NextRefines
  <1> QED
    BY <1>2, <1>3, <1>4, <1>5, <1>6, <1>7, InitRefines, InitTypeOK, TypeOKStep, ReadInvInit,
       ReadInvStep, SerialInit, RunInvInit, LeaveInvInit, TodoInvInit, StatusInvInit, PTL
    DEF Spec, ImplementsMeshLinks, Links!Spec

-----------------------------------------------------------------------------
(* Without a lag, nothing is lost.                                         *)

\* What is read is what there is.
NoLagInv ==
    /\ misled = {}
    /\ \A m \in Mesh : behind[m] = <<>>
    /\ \A c \in Cluster : view[c] = "current"

LEMMA NoLagInit == Init => NoLagInv
  BY DEF Init, NoLagInv

LEMMA ListedIsOwned ==
  ASSUME CacheLag = {}, NEW m \in Mesh
  PROVE  Owned(m) = PeeringsOf(m)
  <1>1. Listed = Listing
    BY DEF Listed
  <1>2. \A p \in Pair : p \in Owned(m) <=> p \in PeeringsOf(m)
    <2> SUFFICES ASSUME NEW p \in Pair PROVE p \in Owned(m) <=> p \in PeeringsOf(m)
      OBVIOUS
    <2>1. ASSUME p \in Owned(m) PROVE owner[p] = m
      BY <1>1, <2>1 DEF Owned, Listing
    <2>2. ASSUME owner[p] = m PROVE p \in Owned(m)
      <3>1. p \in Peerings
        BY <2>2, ConstantsAssumption DEF Peerings
      <3>2. <<p, m, ReadyAndSynced(p)>> \in Listed
        BY <1>1, <2>2, <3>1 DEF Listing
      <3>3. ReadyAndSynced(p) \in BOOLEAN
        BY DEF ReadyAndSynced
      <3> QED
        BY <3>2, <3>3 DEF Owned
    <2> QED
      BY <2>1, <2>2 DEF PeeringsOf
  <1> QED
    BY <1>2 DEF Owned, PeeringsOf

LEMMA NoLagStep ==
  ASSUME TypeOK, Serial, NoLagInv, CacheLag = {}, [Next]_vars
  PROVE  NoLagInv'
  <1>0. PcOK /\ MeshOK
    BY TypeOKParts
  <1>1. CASE UNCHANGED <<behind, view, misled>>
    BY <1>1 DEF NoLagInv
  <1>2. ASSUME NEW c \in Cluster,
               \/ Start(c) \/ ReconcileOutsider(c) \/ User(c) \/ PeeringsDone(c)
               \/ ListForRoutes(c) \/ Validate(c) \/ LeaveMesh(c) \/ WriteGroup(c)
               \/ OwnGroup(c) \/ DeleteGroup(c)
        PROVE  UNCHANGED <<behind, view, misled>>
    BY <1>2 DEF Start, Reconcile, ReconcileRemoved, ReconcileOutsider, User, Relabel, AddRouteTable,
                PeeringsDone, ListForRoutes, Validate, LeaveMesh, WriteGroup, OwnGroup, DeleteGroup,
                mesh_vars, vars
  <1>3. ASSUME NEW c \in Cluster, NEW p \in Pair, ManageRoutes(c, p) \/ DeletePeering(c, p)
        PROVE  UNCHANGED <<behind, view, misled>>
    BY <1>3 DEF ManageRoutes, DeletePeering, mesh_vars
  <1>4. ASSUME NEW c \in Cluster, NEW p \in Pair, CreatePeering(c, p)
        PROVE  UNCHANGED <<behind, view, misled>>
    BY <1>4 DEF CreatePeering, Misled, NoLagInv, mesh_vars
  <1>5. ASSUME NEW c \in Cluster, ListPeerings(c) PROVE UNCHANGED <<behind, view, misled>>
    <2>1. Owned(mesh[c]) = PeeringsOf(mesh[c])
      BY <1>0, ListedIsOwned DEF PcOK
    <2> QED
      BY <1>5, <2>1 DEF ListPeerings, Misled, mesh_vars
  <1>6. ASSUME NEW c \in Cluster, GetMesh(c) \/ GetMeshToLeave(c) PROVE NoLagInv'
    <2>1. UNCHANGED <<behind, misled>>
      BY <1>6 DEF GetMesh, GetMeshToLeave, mesh_vars
    <2>2. view' = view \/ view' = [view EXCEPT ![c] = ViewOf(mesh[c])]
      BY <1>6 DEF GetMesh, GetMeshToLeave, Take
    <2>3. ViewOf(mesh[c]) = "current"
      BY <1>0 DEF NoLagInv, ViewOf, PcOK
    <2> QED
      BY <1>0, <2>1, <2>2, <2>3 DEF NoLagInv, PcOK
  <1>7. ASSUME NEW c \in Cluster, \/ CreateMesh(c) \/ Join(c) \/ Patch(c) \/ UpdateStatus(c)
                                  \/ DeleteMesh(c)
        PROVE  NoLagInv'
    <2>1. pc[c] # "idle"
      BY <1>7, ProceedIsBusy DEF Proceed
    <2>2. behind' = behind
      BY <1>7 DEF CreateMesh, Join, Patch, UpdateStatus, DeleteMesh, Written, mesh_vars
    <2>3. misled' = misled
      BY <1>7 DEF CreateMesh, Join, Patch, UpdateStatus, DeleteMesh, Misled, NoLagInv
    <2>4. \A d \in Cluster : view'[d] = "current"
      <3>1. CASE DeleteMesh(c)
        <4>1. \A d \in Cluster \ {c} : d \notin Reading
          BY <2>1 DEF Serial, Reading
        <4> QED
          BY <1>0, <3>1, <4>1 DEF DeleteMesh, NoLagInv, PcOK
      <3>2. CASE ~DeleteMesh(c)
        <4>1. view' = view \/ view' = [view EXCEPT ![c] = "current"] \/ Touched(c, mesh[c])
          BY <1>7, <3>2 DEF CreateMesh, Join, Patch, UpdateStatus
        <4> QED
          BY <1>0, <2>1, <4>1, NoneTouched DEF NoLagInv, PcOK
      <3> QED
        BY <3>1, <3>2
    <2> QED
      BY <2>2, <2>3, <2>4 DEF NoLagInv
  <1>8. ASSUME NEW c \in Cluster, CallFails(c) PROVE NoLagInv'
    <2>1. /\ UNCHANGED <<behind, misled>>
          /\ view' = view \/ view' = [view EXCEPT ![c] = "current"]
      BY <1>8 DEF CallFails, mesh_vars
    <2> QED
      BY <1>0, <2>1 DEF NoLagInv, PcOK
  <1>9. CASE Restart
    BY <1>9 DEF Restart, NoLagInv, mesh_vars
  <1>10. CASE Crossplane \/ Cache \/ UNCHANGED vars
    <2>1. Cache => UNCHANGED <<behind, view, misled>>
      BY DEF Cache, MeshSeen, PeeringsSeen, NoLagInv, mesh_vars
    <2> QED
      BY <1>1, <1>10, <2>1 DEF Crossplane, PeeringReady, GroupGone, mesh_vars, vars
  <1> QED
    BY <1>1, <1>2, <1>3, <1>4, <1>5, <1>6, <1>7, <1>8, <1>9, <1>10 DEF Next, Proceed

\* With one worker and caches that do not lag no mesh is misled: what the
\* properties of ClusterMesh except is what a lagging cache does.
THEOREM NeverMisled == OneWorker /\ CacheLag = {} => (Spec => [](misled = {}))
  <1>1. SUFFICES ASSUME OneWorker, CacheLag = {} PROVE Spec => [](misled = {})
    OBVIOUS
  <1>2. TypeOK /\ Serial /\ [Next]_vars => Serial'
    BY <1>1, SerialStep
  <1>3. TypeOK /\ Serial /\ NoLagInv /\ [Next]_vars => NoLagInv'
    BY <1>1, NoLagStep
  <1>4. NoLagInv => misled = {}
    BY DEF NoLagInv
  <1> QED
    BY <1>2, <1>3, <1>4, InitTypeOK, TypeOKStep, SerialInit, NoLagInit, PTL DEF Spec

-----------------------------------------------------------------------------
(* A property of MeshLinks, on its own.                                    *)

LinksInv == Links!TypeOK /\ Links!Exclusive

LEMMA LinksInvInit == Links!Init => LinksInv
  BY DEF Links!Init, LinksInv, Links!TypeOK, Links!Exclusive

LEMMA OppositeBack ==
  \A p, q \in Links!Link : Links!Opposite(q) = p => Links!Opposite(p) = q
  BY DEF Links!Link, Links!Opposite

LEMMA OppositeDiffers == \A p \in Links!Link : p[1] # p[2] => Links!Opposite(p) # p
  BY DEF Links!Link, Links!Opposite

LEMMA LinksInvStep == LinksInv /\ [Links!Next]_(Links!vars) => LinksInv'
  <1> SUFFICES ASSUME LinksInv, [Links!Next]_(Links!vars) PROVE LinksInv'
    OBVIOUS
  <1> USE DEF LinksInv, Links!TypeOK
  <1>1. CASE UNCHANGED Links!vars
    BY <1>1 DEF Links!vars, Links!Exclusive
  <1>2. ASSUME NEW m \in Mesh, Links!Record(m) PROVE LinksInv'
    BY <1>2 DEF Links!Record, Links!Exclusive
  <1>3. ASSUME NEW m \in Mesh, NEW c \in Cluster,
               Links!Join(m, c) \/ Links!Leave(m, c) \/ Links!Disband(m, c)
        PROVE  LinksInv'
    BY <1>3 DEF Links!Join, Links!Leave, Links!Disband, Links!Exclusive
  <1>4. ASSUME NEW m \in Mesh, Links!Lose(m) PROVE LinksInv'
    BY <1>4 DEF Links!Lose, Links!Exclusive
  <1>5. ASSUME NEW c \in Cluster, NEW p \in Links!Link, Links!Disconnect(c, p) PROVE LinksInv'
    BY <1>5 DEF Links!Disconnect, Links!Exclusive
  <1>6. ASSUME NEW m \in Mesh, NEW p \in Links!Link, Links!Connect(m, p) PROVE LinksInv'
    <2>1. /\ UNCHANGED <<MembersOf, StatusOf, misled>>
          /\ Links!Opposite(p) \notin OwnedBy[m]
          /\ OwnedBy' = [OwnedBy EXCEPT ![m] = OwnedBy[m] \cup {p}]
      BY <1>6 DEF Links!Connect
    <2>2. ASSUME NEW n \in Mesh, NEW q \in OwnedBy'[n], q[1] # q[2]
          PROVE  Links!Opposite(q) \notin OwnedBy'[n]
      <3>1. q \in Links!Link /\ (q \in OwnedBy[n] \/ (n = m /\ q = p))
        BY <2>1, <2>2
      <3>2. CASE q \in OwnedBy[n]
        <4>1. Links!Opposite(q) \notin OwnedBy[n]
          BY <2>2, <3>2 DEF Links!Exclusive
        <4>2. n = m => Links!Opposite(q) # p
          <5>1. Links!Opposite(q) = p => Links!Opposite(p) = q
            BY <3>1, OppositeBack
          <5> QED
            BY <2>1, <3>2, <5>1
        <4> QED
          BY <2>1, <4>1, <4>2
      <3>3. CASE n = m /\ q = p
        BY <2>1, <2>2, <3>1, <3>3, OppositeDiffers
      <3> QED
        BY <3>1, <3>2, <3>3
    <2>3. Links!Exclusive'
      BY <2>2 DEF Links!Exclusive
    <2> QED
      BY <2>1, <2>3
  <1> QED
    BY <1>1, <1>2, <1>3, <1>4, <1>5, <1>6 DEF Links!Next

\* In every behaviour of MeshLinks, two clusters of a mesh are linked once.
THEOREM LinkedOnce == ImplementsMeshLinks => []Links!Exclusive
  <1>1. LinksInv => Links!Exclusive
    BY DEF LinksInv
  <1> QED
    BY <1>1, LinksInvInit, LinksInvStep, PTL DEF ImplementsMeshLinks, Links!Spec

=============================================================================
