--------------------------- MODULE MCClusterMesh ---------------------------
(***************************************************************************)
(* Small instances of ClusterMesh.                                         *)
(***************************************************************************)
EXTENDS ClusterMesh, TLC

\* A peering has the names of its ends in its own, and no other.
OwnNames == {<<c, p>> \in Cluster \X Pair : c \in {p[1], p[2]}}

\* The name of cluster "A" is part of the name of cluster "AB".
NestedNames == OwnNames \cup {<<"A", p>> : p \in {q \in Pair : "AB" \in {q[1], q[2]}}}

\* The clusters are alike when their names are model values and no peering has
\* the name of another in its own.
Alike == Permutations(Cluster)

=============================================================================
