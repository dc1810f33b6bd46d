--------------------------- MODULE PlanMultigraph ---------------------------
(***************************************************************************)
(* PlanMultigraph of base_plan_type: which regions of a plan are adjacent, *)
(* inside a county or only across one, whether the plan is hierarchical,   *)
(* which pairs may be merged, and tau, the number of ways to link the      *)
(* regions' trees into one.  A multigraph is a record; building one always *)
(* starts from a clean table.                                              *)
(***************************************************************************)
EXTENDS SpanningTreeCounts

\* Two regions as the table keys them, the smaller id first.
PairsOf(n) == {p \in (0 .. n - 1) \X (0 .. n - 1) : p[1] < p[2]}

CrossEdges(region_ids, p) == {e \in Edges : RegionsOf(region_ids, e) = {p[1], p[2]}}

\* What RegionPairHash answers for a pair it has not hashed.
NoPairData ==
    [within |-> 0, across |-> 0, shared_county |-> 0,
     admin_adjacent |-> FALSE, same_admin_component |-> FALSE, merge_is_hier_valid |-> TRUE]

\* The data of a pair once every edge of the map has been counted.
CountedPair(county, region_ids, p, by_county) ==
    LET cross  == CrossEdges(region_ids, p)
        within == {e \in cross : by_county => WithinCounty(county, e)}
    IN  [NoPairData EXCEPT
            !.within = Cardinality(within),
            !.across = Cardinality(cross \ within),
            !.shared_county = IF by_county /\ within # {}
                              THEN CHOOSE c \in CountiesIn(county, UNION within) : TRUE
                              ELSE 0,
            !.admin_adjacent = within # {},
            !.same_admin_component = within # {}]

PairTable(county, region_ids, n, by_county) ==
    [p \in {q \in PairsOf(n) : CrossEdges(region_ids, q) # {}} |->
        CountedPair(county, region_ids, p, by_county)]

get_value(m, r, s) ==
    LET p == IF r < s THEN <<r, s>> ELSE <<s, r>>
    IN  IF p \in DOMAIN m.pair_map THEN m.pair_map[p] ELSE NoPairData

\* The pieces the walk over the map meets one after the other: it never
\* takes an edge that leaves both the region and the county.
Explored(county, region_ids) ==
    Components(Vertices, {e \in Edges : WithinCounty(county, e) \/ ~Crosses(region_ids, e)})

\* The parts of regions inside counties, and the contiguous parts of counties.
CountyRegionPieces(county, region_ids, S) ==
    Components(S, {e \in Edges : WithinCounty(county, e) /\ ~Crosses(region_ids, e)})

CountyPieces(county, S) == Components(S, {e \in Edges : WithinCounty(county, e)})

Splits(county, region_ids, S) ==
    Cardinality(CountyRegionPieces(county, region_ids, S)) - Cardinality(CountyPieces(county, S))

RegionsIn(region_ids, S) == {region_ids[v] : v \in S}

\* A slip of the next definition: a component may be split once too often.
HasTooManySplitsByOne(county, region_ids, n) ==
    \E S \in Explored(county, region_ids) :
        Splits(county, region_ids, S) > Cardinality(RegionsIn(region_ids, S))

\* Both early returns: more splits than the regions of the plan, or of one
\* component, can explain.  The running total leaves out the first piece of
\* every component.
HasTooManySplits(county, region_ids, n) ==
    LET explored == Explored(county, region_ids)
        num_county_region_components ==
            SumFunction([S \in explored |-> Cardinality(CountyRegionPieces(county, region_ids, S)) - 1])
    IN  \/ num_county_region_components - Cardinality(CountiesIn(county, Vertices)) >= n
        \/ \E S \in explored :
              Splits(county, region_ids, S) >= Cardinality(RegionsIn(region_ids, S))

\* Components are numbered in the order of their smallest vertices.
ComponentIds(explored) ==
    [S \in explored |-> Cardinality({Q \in explored : Min(Q) <= Min(S)})]

\* A slip of the next definition: regions of different components may not merge.
OnlyInsideCounties(same_component, admin_adjacent) == admin_adjacent

MergeIsHierValid(same_component, admin_adjacent) == same_component => admin_adjacent

NotBuilt == [ok |-> FALSE, pair_map |-> <<>>, county_component |-> <<>>]

build_plan_non_hierarchical_multigraph(county, region_ids, n) ==
    [ok |-> TRUE,
     pair_map |-> PairTable(county, region_ids, n, FALSE),
     county_component |-> [r \in 0 .. n - 1 |-> 0]]

build_plan_hierarchical_multigraph(county, region_ids, n) ==
    LET explored == Explored(county, region_ids)
        ids      == ComponentIds(explored)
        comp(r)  == ids[CHOOSE S \in explored : r \in RegionsIn(region_ids, S)]
        counted  == PairTable(county, region_ids, n, TRUE)
    IN  IF HasTooManySplits(county, region_ids, n) THEN NotBuilt
        ELSE [ok |-> TRUE,
              county_component |-> [r \in 0 .. n - 1 |-> comp(r)],
              pair_map |-> [p \in DOMAIN counted |->
                  LET same == comp(p[1]) = comp(p[2])
                  IN  [counted[p] EXCEPT
                          !.same_admin_component = @ \/ same,
                          !.merge_is_hier_valid = MergeIsHierValid(same, counted[p].admin_adjacent)]]]

counties_on(county) == Cardinality(CountiesIn(county, Vertices)) > 1

build_plan_multigraph(county, region_ids, n) ==
    IF counties_on(county)
    THEN build_plan_hierarchical_multigraph(county, region_ids, n)
    ELSE build_plan_non_hierarchical_multigraph(county, region_ids, n)

\* A pair that is taken out of the table is no longer hashed.
RemovePairs(m, invalid(_)) ==
    [m EXCEPT !.pair_map = Restrict(@, {p \in DOMAIN @ : ~invalid(p)})]

remove_invalid_hierarchical_merge_pairs(county, m) ==
    IF counties_on(county)
    THEN RemovePairs(m, LAMBDA p : ~m.pair_map[p].merge_is_hier_valid)
    ELSE m

\* A slip of the next definition: only the pair itself is asked for a county.
RemoveUnlinkedPairs(county, m) ==
    RemovePairs(m, LAMBDA p : /\ m.county_component[p[1]] = m.county_component[p[2]]
                              /\ ~m.pair_map[p].admin_adjacent)

\* A slip of the definition after it: a pair may not even share a county
\* directly.
RemoveAllOverlaps(county, m) ==
    LET overlap(r) == {m.pair_map[p].shared_county :
                          p \in {q \in DOMAIN m.pair_map :
                                    r \in {q[1], q[2]} /\ m.pair_map[q].admin_adjacent}}
    IN  IF counties_on(county)
        THEN RemovePairs(m, LAMBDA p : overlap(p[1]) \cap overlap(p[2]) # {})
        ELSE m

\* Pairs that share no county although both reach into the same one, by the
\* counties their other pairs share.
remove_invalid_mergesplit_pairs(county, m) ==
    LET overlap(r) == {m.pair_map[p].shared_county :
                          p \in {q \in DOMAIN m.pair_map :
                                    r \in {q[1], q[2]} /\ m.pair_map[q].admin_adjacent}}
        invalid_merge(p) ==
            /\ m.county_component[p[1]] = m.county_component[p[2]]
            /\ ~m.pair_map[p].admin_adjacent
            /\ overlap(p[1]) \cap overlap(p[2]) # {}
    IN  IF counties_on(county) THEN RemovePairs(m, invalid_merge) ELSE m

is_hierarchically_connected(county, region_ids) ==
    \A c \in CountiesIn(county, Vertices), r \in RegionsIn(region_ids, Vertices) :
        Connected(CountyPart(county, Region(region_ids, r), c), Edges)

is_hierarchically_valid(county, region_ids, n) ==
    counties_on(county) =>
        /\ is_hierarchically_connected(county, region_ids)
        /\ Cardinality(CountyRegionPieces(county, region_ids, Vertices))
              - Cardinality(CountiesIn(county, Vertices)) < n
        /\ build_plan_hierarchical_multigraph(county, region_ids, n).ok

(***************************************************************************)
(* tau: trees on the regions of each component, by the edges inside        *)
(* counties, times trees on the components, by all edges between them.     *)
(* node is the region that stands for a region once a pair is merged, comp *)
(* the component.                                                          *)
(***************************************************************************)
EdgesBetween(m, joins(_), count(_)) ==
    MapThenSumSet(LAMBDA p : count(m.pair_map[p]),
                  {p \in DOMAIN m.pair_map : m.pair_map[p].merge_is_hier_valid /\ joins(p)})

ComponentTrees(m, node, nodes) ==
    LET seq == Sorted(nodes)
    IN  LaplacianMinor(Len(seq), Len(seq), LAMBDA i, j :
            EdgesBetween(m, LAMBDA p : {node[p[1]], node[p[2]]} = {seq[i], seq[j]},
                         LAMBDA val : val.within))

TreesAcross(m, comp) ==
    LET seq == Sorted({comp[r] : r \in DOMAIN comp})
    IN  LaplacianMinor(Len(seq), Len(seq), LAMBDA i, j :
            EdgesBetween(m, LAMBDA p : {comp[p[1]], comp[p[2]]} = {seq[i], seq[j]},
                         LAMBDA val : val.across))

TauOf(m, node, comp) ==
    TreesAcross(m, comp)
      * FoldSet(LAMBDA c, tau :
                    tau * ComponentTrees(m, node, {node[r] : r \in {s \in DOMAIN comp : comp[s] = c}}),
                1, {comp[r] : r \in DOMAIN comp})

\* Two regions only: the edges they share count, or all when they share none.
compute_log_multigraph_tau(m, n) ==
    LET val == get_value(m, 0, 1)
    IN  IF n = 2 THEN IF val.admin_adjacent THEN val.within ELSE val.across
        ELSE TauOf(m, [r \in 0 .. n - 1 |-> r], m.county_component)

\* The regions once region2 is part of region1, and the components: those of
\* the two become one.
MergedRegions(n, region1_id, region2_id) ==
    [r \in 0 .. n - 1 |-> IF r = region2_id THEN region1_id ELSE r]

\* A slip of the next definition: the components of the pair stay apart.
UnmergedComponents(m, n, region1_id, region2_id) == m.county_component

MergedComponents(m, n, region1_id, region2_id) ==
    [r \in 0 .. n - 1 |->
        IF m.county_component[r] = m.county_component[region2_id]
        THEN m.county_component[region1_id] ELSE m.county_component[r]]

compute_merged_log_multigraph_tau(m, n, region1_id, region2_id) ==
    IF n <= 2 THEN 1
    ELSE TauOf(m, MergedRegions(n, region1_id, region2_id),
                  MergedComponents(m, n, region1_id, region2_id))
=============================================================================
