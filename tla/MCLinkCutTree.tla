--------------------------- MODULE MCLinkCutTree ---------------------------
(***************************************************************************)
(* LinkCutTree for TLC, with the map from its nodes to RootedForest.       *)
(***************************************************************************)
EXTENDS LinkCutTree, TLC

Interchangeable == Permutations(Vertices)

Forest == INSTANCE RootedForest WITH up <- Represented(nodes)

\* Every call does to the represented forest what its name says, and calls
\* that only look leave it alone: the nodes implement RootedForest.
RepresentsAForest == Forest!Spec
=============================================================================
