--------------------------- MODULE TreeSplitting ---------------------------
(***************************************************************************)
(* Where a spanning tree may be cut (tree_splitting.cpp).  A tree is a set *)
(* of edges; a cut is the vertex below it, the vertex above it and the     *)
(* number of seats of the part below.  The searches walk the tree depth    *)
(* first with scratch arrays that no one resets, and give up early where   *)
(* the populations cannot fit any more.  The splitter is the uniform one:  *)
(* every valid cut weighs 1, so a sum of weights is a number of cuts.      *)
(***************************************************************************)
EXTENDS CountyMap

CONSTANTS
    Pop,                 \* the population of each precinct
    LowerPop,            \* bounds on the population of a district of one seat
    UpperPop

ASSUME PopAssumption ==
    /\ Pop \in [Vertices -> Nat]
    /\ LowerPop \in Nat /\ UpperPop \in Nat /\ LowerPop <= UpperPop

PopOf(S) == MapThenSumSet(LAMBDA v : Pop[v], S)

\* The sizes a region may be cut into: the smaller ones to try, the smallest
\* and the largest that either part can have.
AnyCutOptions(size) ==
    [smaller_cut_sizes |-> 1 .. (size \div 2), min_cut_size |-> 1, max_cut_size |-> size - 1]

Fits(pop, size) == LowerPop * size <= pop /\ pop <= UpperPop * size

\* A slip of the next definition: the larger part is never put below.
SplitsSmallerBelow(size, below_pop, above_pop, options) ==
    {s \in options.smaller_cut_sizes : Fits(below_pop, s) /\ Fits(above_pop, size - s)}

\* The seats the part below an edge can be given, in either orientation.
for_each_valid_population_split_from_edge(size, below_pop, above_pop, options) ==
    {s \in options.smaller_cut_sizes \cup {size - t : t \in options.smaller_cut_sizes} :
        Fits(below_pop, s) /\ Fits(above_pop, size - s)}

Neighbors(T, v) == (UNION {e \in T : v \in e}) \ {v}

TooFew(below_pop, above_pop, options) ==
    \/ below_pop < LowerPop * options.min_cut_size
    \/ above_pop > UpperPop * options.max_cut_size

TooMany(below_pop, above_pop, options) ==
    \/ below_pop > UpperPop * options.max_cut_size
    \/ above_pop < LowerPop * options.min_cut_size

\* What a search has done so far: the vertices from the root to where it is,
\* those visited once, the populations below vertices, the vertices with no
\* valid edge above, and the cuts found.
Scan(scratch) ==
    [path |-> <<>>, seen |-> {}, below |-> scratch, no_valid_edges |-> {}, cuts |-> {}]

\* A slip of the next definition: the part above is compared with the wrong bound.
GivesUpOnLargeRest(below_pop, above_pop, options) ==
    \/ below_pop > UpperPop * options.max_cut_size
    \/ above_pop < LowerPop * options.max_cut_size

GivesUp(below_pop, above_pop, options) == TooMany(below_pop, above_pop, options)

\* The second visit of a vertex.  total is the population and the seats of
\* what is being cut.
Revisit(T, total, options, vtx, parent, scan) ==
    LET below_pop == Pop[vtx] + MapThenSumSet(LAMBDA c : scan.below[c], Neighbors(T, vtx) \ {parent})
        above_pop == total.pop - below_pop
        counted   == [scan EXCEPT !.below[vtx] = below_pop]
    IN  IF vtx \in scan.no_valid_edges
        THEN [scan EXCEPT !.no_valid_edges = @ \cup {parent}]
        ELSE IF parent \in scan.no_valid_edges THEN scan
        ELSE IF TooFew(below_pop, above_pop, options) THEN counted
        ELSE IF GivesUp(below_pop, above_pop, options)
        THEN [counted EXCEPT !.no_valid_edges = @ \cup {parent}]
        ELSE [counted EXCEPT !.cuts = @ \cup
                {[vertex |-> vtx, parent |-> parent, size |-> s] :
                    s \in for_each_valid_population_split_from_edge(
                              total.size, below_pop, above_pop, options)}]

\* The first visit of a vertex.
Descend(scan, vtx) ==
    [scan EXCEPT !.path = Append(@, vtx), !.seen = @ \cup {vtx},
                 !.no_valid_edges = @ \ {vtx}]

\* What is on top of the stack is a vertex ahead, the last one pushed, or when
\* there is none the vertex the search is at, for its second visit.
SearchStep(T, total, options, scan) ==
    LET depth == Len(scan.path)
        vtx   == scan.path[depth]
        ahead == Neighbors(T, vtx) \ scan.seen
    IN  IF ahead # {} THEN Descend(scan, Max(ahead))
        ELSE IF depth = 1 THEN scan
        ELSE [Revisit(T, total, options, vtx, scan.path[depth - 1], scan)
                 EXCEPT !.path = SubSeq(@, 1, depth - 1)]

\* Every edge is gone down and up once; then the search stays at the root.
ScanTree(T, total, options, root, scan) ==
    LET scans[k \in 0 .. 2 * Cardinality(T)] ==
            IF k = 0 THEN Descend([scan EXCEPT !.path = <<>>, !.seen = {}], root)
            ELSE SearchStep(T, total, options, scans[k - 1])
    IN  scans[2 * Cardinality(T)]

\* The cuts of one region's tree, in scratch that still holds another tree's
\* populations.
get_all_valid_edges_in_directed_tree(T, root, scratch, total, options) ==
    ScanTree(T, total, options, root, Scan(scratch)).cuts

\* The cuts of the trees of two regions joined by an edge between v and u:
\* those inside either, seen from the joint, and those at the joint itself.
get_valid_pop_edges_in_joined_packed_tree(T, v, pop1, u, pop2, size, scratch, options) ==
    LET total  == [pop |-> pop1 + pop2, size |-> size]
        first  == ScanTree(T, total, options, v, Scan(scratch))
        second == ScanTree(T, total, options, u, first)
    IN  second.cuts \cup
            {[vertex |-> u, parent |-> v, size |-> s] :
                s \in for_each_valid_population_split_from_edge(size, pop2, pop1, options)}

\* The cuts of one edge, after a test that no size at all rules it out.
CutsOfEdge(size, below_pop, above_pop, options) ==
    IF TooFew(below_pop, above_pop, options) \/ TooMany(below_pop, above_pop, options) THEN 0
    ELSE Cardinality(for_each_valid_population_split_from_edge(size, below_pop, above_pop, options))

\* A slip of the next definition: the other tree always hangs above.
RerootedAbove(T, S, root, other_pop, size, options) ==
    LET below(v) == PopOf(S \ Component(root, S \ {v}, T))
    IN  [w \in S |-> MapThenSumSet(
            LAMBDA v : CutsOfEdge(size, below(v), PopOf(S) + other_pop - below(v), options),
            S \ {root})]

\* For every vertex w of a region's tree T on S, the cuts inside it when
\* another region's tree hangs on w.  Below v there is the other tree or not:
\* when the joint moves from a vertex to its child only the edge between the
\* two changes sides.
compute_tree_path_weights_in_undirected_packed_tree(T, S, root, other_pop, size, options) ==
    LET this_pop    == PopOf(S)
        subtree     == [v \in S \ {root} |-> S \ Component(root, S \ {v}, T)]
        out         == [v \in S \ {root} |-> CutsOfEdge(size, PopOf(subtree[v]),
                                  this_pop - PopOf(subtree[v]) + other_pop, options)]
        in          == [v \in S \ {root} |-> CutsOfEdge(size, PopOf(subtree[v]) + other_pop,
                                  this_pop - PopOf(subtree[v]), options)]
        delta       == [v \in S \ {root} |-> in[v] - out[v]]
        root_weight == MapThenSumSet(LAMBDA v : out[v], S \ {root})
    IN  [w \in S |-> root_weight + MapThenSumSet(LAMBDA v : delta[v],
                                               {v \in S \ {root} : w \in subtree[v]})]

\* The effective boundary of two regions with trees in T is the sum of 1 / n
\* over their boundary edges; here is n for each, root1 and root2 being the
\* ends of the representative edge.
get_log_eff_boundary_len_for_adj_region_pair(T, S1, root1, S2, root2, boundary, size, options) ==
    LET joining  == Cardinality(for_each_valid_population_split_from_edge(
                                    size, PopOf(S2), PopOf(S1), options))
        weights2 == compute_tree_path_weights_in_undirected_packed_tree(
                        T, S2, root2, PopOf(S1), size, options)
        weights1 == compute_tree_path_weights_in_undirected_packed_tree(
                        T, S1, root1, PopOf(S2), size, options)
        weight == [w \in S1 \cup S2 |-> IF w \in S1 THEN weights1[w] ELSE weights2[w]]
    IN  [e \in boundary |-> joining + MapThenSumSet(LAMBDA w : weight[w], e)]
=============================================================================
