---------------------------- MODULE MCFlipChain ----------------------------
\* Six precincts, the heavy one at the end of the tail: a square, a triangle and the tail,
\* so that districts have precincts they cannot do without and precinct 0 can hide.
EXTENDS FlipChain

MCVertices == 0 .. 5
MCEdges == {{0, 1}, {0, 3}, {1, 4}, {3, 4}, {1, 5}, {4, 5}, {2, 5}}
MCPop == [v \in MCVertices |-> IF v = 2 THEN 2 ELSE 1]
MCTolerances == {<<1, 5>>, <<2, 3>>}
MCPopBounds == <<1, 4>>
=============================================================================
