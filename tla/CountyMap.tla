----------------------------- MODULE CountyMap -----------------------------
(***************************************************************************)
(* The map: a connected graph of precincts, each in one county.  County    *)
(* assignments are passed around, so that one model can look at several.   *)
(* A tree is a set of edges; it is hierarchical when the part of it inside *)
(* every county it meets is itself in one piece.                           *)
(***************************************************************************)
EXTENDS Integers, Sequences, FiniteSets, FiniteSetsExt, SequencesExt, GraphPieces

CONSTANTS
    Vertices,            \* the precincts, a set of integers
    Edges                \* the adjacencies, a set of two-element sets

ASSUME MapAssumption ==
    /\ Vertices \in SUBSET Nat /\ IsFiniteSet(Vertices) /\ Vertices # {}
    /\ \A e \in Edges : e \subseteq Vertices /\ Cardinality(e) = 2

SpanningTrees(S) ==
    {T \in kSubset(Cardinality(S) - 1, Inside(S, Edges)) : Connected(S, T)}

HierarchicalTrees(county, S) == {T \in SpanningTrees(S) : Hierarchical(county, S, T)}

\* A county assignment the samplers are given: R makes every county contiguous.
CountiesAreContiguous(county) ==
    \A c \in CountiesIn(county, Vertices) :
        Connected(CountyPart(county, Vertices, c), Edges)

WithinCounty(county, e) == \E c \in CountiesIn(county, Vertices) : \A v \in e : county[v] = c

\* Regions of a plan, a function from vertices to region ids.
Region(region_ids, r) == {v \in Vertices : region_ids[v] = r}

RegionsOf(region_ids, e) == {region_ids[v] : v \in e}

Crosses(region_ids, e) == Cardinality(RegionsOf(region_ids, e)) = 2
=============================================================================
