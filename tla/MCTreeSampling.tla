--------------------------- MODULE MCTreeSampling ---------------------------
\* Six precincts in two rows of three.  A person counts 2: a district has 4.5 to
\* 7 people, and nearly all of the 12 live at the right.
EXTENDS TreeSampling

MCVertices == 0 .. 5
MCEdges == {{0, 1}, {1, 2}, {3, 4}, {4, 5}, {0, 3}, {1, 4}, {2, 5}}
MCPop == [v \in MCVertices |-> <<2, 2, 10, 0, 0, 10>>[v + 1]]

\* A county of four that no cut can enter beside one of two; a county of two
\* whose neighbours are too much together and right alone; the two rows.
Layout(labels) == [v \in MCVertices |-> labels[v + 1]]
MCLayouts == {Layout(<<1, 1, 2, 1, 1, 2>>), Layout(<<1, 2, 3, 1, 2, 4>>),
              Layout(<<1, 1, 1, 2, 2, 2>>)}
MCDraws == {[active |-> MCVertices \ outside, size |-> 2] : outside \in {{}, {0}, {1}, {4}}}
MCEarlier == {{<<0, 1>>, <<1, 2>>, <<2, 5>>, <<5, 4>>, <<4, 3>>},
              {<<5, 4>>, <<4, 1>>, <<1, 0>>, <<0, 3>>, <<5, 2>>}}

ASSUME \A c \in MCLayouts : CountiesAreContiguous(c)
=============================================================================
