---------------------------- MODULE GraphPieces ----------------------------
(***************************************************************************)
(* The pieces that a set of vertices falls into along a set of edges, and  *)
(* the pieces of its counties.  Which graph it is does not matter here: a  *)
(* map, a tree on part of it, the regions of a plan.                       *)
(***************************************************************************)
EXTENDS Integers, FiniteSets

Inside(S, E) == {e \in E : e \subseteq S}

\* The vertices of S that can be reached from v along the edges of E.
Component(v, S, E) ==
    LET inner == Inside(S, E)
        reached[k \in 0 .. Cardinality(S)] ==
            IF k = 0 THEN {v}
            ELSE LET before == reached[k - 1]
                 IN  before \cup UNION {e \in inner : e \cap before # {}}
    IN  reached[Cardinality(S)]

Components(S, E) == {Component(v, S, E) : v \in S}

Connected(S, E) == Cardinality(Components(S, E)) <= 1

\* A county assignment is a function from vertices to counties.
CountyPart(county, S, c) == {v \in S : county[v] = c}

CountiesIn(county, S) == {county[v] : v \in S}

Hierarchical(county, S, T) ==
    \A c \in CountiesIn(county, S) : Connected(CountyPart(county, S, c), T)
=============================================================================
