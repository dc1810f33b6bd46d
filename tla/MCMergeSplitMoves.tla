------------------------- MODULE MCMergeSplitMoves -------------------------
\* Six precincts in two rows with a diagonal: one county; two; three with
\* one in between; four.
EXTENDS MergeSplitMoves

MCVertices == 0 .. 5
MCEdges == {{0, 1}, {1, 2}, {3, 4}, {4, 5}, {0, 3}, {1, 4}, {2, 5}, {1, 3}}
Layout(a, b, c) == [v \in MCVertices |-> IF v \in a THEN 1 ELSE IF v \in b THEN 2
                                         ELSE IF v \in c THEN 3 ELSE 4]
MCCountyLayouts ==
    {Layout(MCVertices, {}, {}), Layout({0, 3}, {1, 2, 4, 5}, {}),
     Layout({0, 3}, {1, 4}, {2, 5}), Layout({0, 3}, {1}, {4, 5})}
=============================================================================
