----------------------------- MODULE MeshLinks -----------------------------
(***************************************************************************)
(* What the reconciles of Clusters promise together about meshes, without  *)
(* the calls it takes: a mesh has members, links between pairs of them,    *)
(* and a record of links, from which the links of a cluster that leaves    *)
(* are known.  A link is undone by one of its ends, a cluster leaves a     *)
(* mesh when no link on record of it is left, and the record never         *)
(* forgets a link there is.  A mesh may be lost, and nothing is said of it *)
(* from then on.  ClusterMesh implements it.                               *)
(***************************************************************************)
CONSTANTS
    Cluster,
    Mesh

\* A link is named after the cluster that asked for it and the other one.
Link == Cluster \X Cluster
Opposite(p) == <<p[2], p[1]>>
Ends(p) == {p[1], p[2]}

VARIABLES
    members,    \* the clusters of a mesh
    links,      \* its links
    recorded,   \* the links on its record
    lost        \* the meshes that are lost

vars == <<members, links, recorded, lost>>

TypeOK ==
    /\ members \in [Mesh -> SUBSET Cluster]
    /\ links \in [Mesh -> SUBSET Link]
    /\ recorded \in [Mesh -> SUBSET Link]
    /\ lost \in SUBSET Mesh

Init ==
    /\ members = [m \in Mesh |-> {}]
    /\ links = [m \in Mesh |-> {}]
    /\ recorded = [m \in Mesh |-> {}]
    /\ lost = {}

\* The links there are, whichever mesh has them.
AllLinks == UNION {links[m] : m \in Mesh}

\* No link on the record of m has c as an end.
Unlinked(m, c) == \A p \in recorded[m] \cap AllLinks : c \notin Ends(p)

Join(m, c) ==
    /\ members' = [members EXCEPT ![m] = @ \cup {c}]
    /\ UNCHANGED <<links, recorded, lost>>

Leave(m, c) ==
    /\ c \in members[m]
    /\ Unlinked(m, c)
    /\ members' = [members EXCEPT ![m] = @ \ {c}]
    /\ UNCHANGED <<links, recorded, lost>>

\* The last member takes the mesh with it.
Disband(m, c) ==
    /\ members[m] = {c}
    /\ Unlinked(m, c)
    /\ members' = [members EXCEPT ![m] = {}]
    /\ links' = [links EXCEPT ![m] = {}]
    /\ recorded' = [recorded EXCEPT ![m] = {}]
    /\ UNCHANGED lost

\* Two members are linked once, whoever asks first.
Connect(m, p) ==
    /\ Ends(p) \subseteq members[m]
    /\ p \notin AllLinks
    /\ Opposite(p) \notin links[m]
    /\ links' = [links EXCEPT ![m] = @ \cup {p}]
    /\ UNCHANGED <<members, recorded, lost>>

\* By an end of it.
Disconnect(c, p) ==
    /\ c \in Ends(p)
    /\ links' = [m \in Mesh |-> links[m] \ {p}]
    /\ UNCHANGED <<members, recorded, lost>>

\* The record loses no link there is and, but for links of lost meshes, gains
\* none there is not.
Record(m) ==
    /\ \E ps \in SUBSET Link :
          /\ recorded[m] \cap links[m] \subseteq ps
          /\ lost = {} => ps \subseteq recorded[m] \cup AllLinks
          /\ recorded' = [recorded EXCEPT ![m] = ps]
    /\ UNCHANGED <<members, links, lost>>

Lose(m) ==
    /\ lost' = lost \cup {m}
    /\ members' = [members EXCEPT ![m] = {}]
    /\ links' = [links EXCEPT ![m] = {}]
    /\ recorded' = [recorded EXCEPT ![m] = {}]

Next ==
    \/ \E m \in Mesh \ lost :
          \/ Record(m) \/ Lose(m)
          \/ \E c \in Cluster : Join(m, c) \/ Leave(m, c) \/ Disband(m, c)
          \/ \E p \in Link : Connect(m, p)
    \/ \E c \in Cluster, p \in Link : Disconnect(c, p)

Spec == Init /\ [][Next]_vars

\* Two clusters of a mesh are linked once, whichever of them asks.
Exclusive ==
    \A m \in Mesh : \A p \in links[m] : p[1] # p[2] => Opposite(p) \notin links[m]

=============================================================================
