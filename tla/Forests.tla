------------------------------ MODULE Forests ------------------------------
(***************************************************************************)
(* Rooted forests as parent functions, with the operations that            *)
(* LinkCutTree (cw_lct) promises on the forest it represents.  f[v] is the *)
(* parent of v, NULL for a root.                                           *)
(***************************************************************************)
EXTENDS Integers, Sequences, FiniteSets

CONSTANTS Vertices, NULL

ASSUME VerticesAssumption ==
    /\ IsFiniteSet(Vertices)
    /\ NULL \notin Vertices

Parents == [Vertices -> Vertices \cup {NULL}]

\* Going up from any vertex ends at a root.
IsForest(f) ==
    \A v \in Vertices :
        LET above[k \in 0..Cardinality(Vertices)] ==
                IF k = 0 THEN v ELSE IF above[k - 1] = NULL THEN NULL ELSE f[above[k - 1]]
        IN  above[Cardinality(Vertices)] = NULL

\* The path from the root of v's tree down to v.
PathTo(f, v) ==
    LET path[w \in Vertices] == IF f[w] = NULL THEN <<w>> ELSE Append(path[f[w]], w)
    IN  path[v]

Visits(path, v) == \E i \in DOMAIN path : path[i] = v

RootOf(f, v) == PathTo(f, v)[1]

TreeOf(f, v) == {w \in Vertices : RootOf(f, w) = RootOf(f, v)}

\* The vertices at v and below it.
Below(f, v) == {w \in Vertices : Visits(PathTo(f, w), v)}

Linked(f, u, v) == [f EXCEPT ![u] = v]

CutOff(f, u) == [f EXCEPT ![u] = NULL]

\* The tree of u hung from u: the path above u is turned over.
Everted(f, u) ==
    LET path == PathTo(f, u)
        after(v) == path[1 + CHOOSE i \in DOMAIN path : path[i] = v]
    IN  [v \in Vertices |-> IF v = u THEN NULL
                            ELSE IF Visits(path, v) THEN after(v)
                            ELSE f[v]]

\* The tree edges, without their direction.
EdgesOf(f) == {{v, f[v]} : v \in {w \in Vertices : f[w] # NULL}}
=============================================================================
