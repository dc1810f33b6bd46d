---------------------------- MODULE MCLinkedPlan ----------------------------
\* Six precincts in two rows of three: one county; a column and the rest; a
\* county to each column.  The populations make cuts depend on
\* where a neighbour's tree hangs.
EXTENDS LinkedPlan

MCVertices == 0 .. 5
MCEdges == {{0, 1}, {1, 2}, {3, 4}, {4, 5}, {0, 3}, {1, 4}, {2, 5}}
MCPop == [v \in MCVertices |-> <<2, 1, 3, 1, 2, 3>>[v + 1]]
Layout(a, b) == [v \in MCVertices |-> IF v \in a THEN 1 ELSE IF v \in b THEN 2 ELSE 3]
OneCounty == Layout(MCVertices, {})
MCCountyLayouts == {OneCounty, Layout({0, 3}, {1, 2, 4, 5}), Layout({0, 3}, {1, 4})}
MCInitialPlans == {OneCounty}
MCBarred == {{0, 1, 3, 4}}
MCNone == {}

ASSUME \A c \in MCCountyLayouts : CountiesAreContiguous(c)
=============================================================================
