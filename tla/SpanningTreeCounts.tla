------------------------- MODULE SpanningTreeCounts -------------------------
(***************************************************************************)
(* Counting spanning trees with Kirchhoff's theorem, the way               *)
(* base_plan_type.cpp does: one minor for the part of the region in each   *)
(* county and one for the counties.  The program keeps logarithms of       *)
(* floating point determinants; here the determinants are integers.        *)
(***************************************************************************)
EXTENDS CountyMap

Sorted(S) == SetToSortSeq(S, LAMBDA a, b : a < b)

\* The determinant of an n by n matrix: row by row, over the free columns.
Determinant(M, n) ==
    LET minor[free \in SUBSET (1 .. n)] ==
            LET row == n - Cardinality(free) + 1
                sign(c) == IF Cardinality({d \in free : d < c}) % 2 = 0 THEN 1 ELSE -1
            IN  IF free = {} THEN 1
                ELSE MapThenSumSet(
                        LAMBDA c : IF M[row, c] = 0 THEN 0
                                   ELSE sign(c) * M[row, c] * minor[free \ {c}],
                        free)
    IN  minor[1 .. n]

\* The spanning trees of the multigraph on 1 .. n with edges(a, b) edges
\* between a and b: its Laplacian without the row and column `dropped'.
LaplacianMinor(n, dropped, edges(_, _)) ==
    LET node(i) == IF i < dropped THEN i ELSE i + 1
        degree(a) == MapThenSumSet(LAMBDA b : edges(a, b), (1 .. n) \ {a})
        entry(i, j) == IF i = j THEN degree(node(i)) ELSE 0 - edges(node(i), node(j))
    IN  IF n <= 1 THEN 1 ELSE Determinant([i, j \in 1 .. n - 1 |-> entry(i, j)], n - 1)

\* The trees on the precincts S, all of one county.
CountyPartTrees(S) ==
    LET prec == Sorted(S)
    IN  LaplacianMinor(Len(prec), 1,
            LAMBDA i, j : IF {prec[i], prec[j]} \in Edges THEN 1 ELSE 0)

\* A slip of the next definition: parallel edges between two counties count once.
SimpleCountyLevelTrees(county, S) ==
    LET cty == Sorted(CountiesIn(county, S))
    IN  LaplacianMinor(Len(cty), 1,
            LAMBDA i, j : IF \E e \in Inside(S, Edges) :
                              CountiesIn(county, e) = {cty[i], cty[j]} THEN 1 ELSE 0)

\* The trees on the counties that S meets, each edge between two counties an
\* edge of its own.
CountyLevelTrees(county, S) ==
    LET cty == Sorted(CountiesIn(county, S))
    IN  LaplacianMinor(Len(cty), 1,
            LAMBDA i, j : Cardinality({e \in Inside(S, Edges) :
                                          CountiesIn(county, e) = {cty[i], cty[j]}}))

\* exp of compute_log_region_spanning_trees, and of its merged twin.
RegionTrees(county, S) ==
    CountyLevelTrees(county, S)
      * FoldSet(LAMBDA c, n : CountyPartTrees(CountyPart(county, S, c)) * n,
                1, CountiesIn(county, S))
=============================================================================
