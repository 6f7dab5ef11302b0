------------------------------ MODULE MCFabric ------------------------------
(***************************************************************************)
(* Input sets and symmetry for the finite instances of Fabric.             *)
(***************************************************************************)
EXTENDS Fabric, TLC

\* State with one lineage and a single authoritative owner.
Mutable == [lineage: Lineage, branch: {FALSE}, single_owner: {TRUE}]

\* Immutable state whose generations may be declared as branches.
Branching == [lineage: Lineage, branch: BOOLEAN, single_owner: {FALSE}]

\* Clusters are compared for equality only.
Interchangeable == Permutations(Cluster)
=============================================================================
