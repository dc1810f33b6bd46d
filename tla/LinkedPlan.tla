----------------------------- MODULE LinkedPlan -----------------------------
(***************************************************************************)
(* A plan of the linking edge space: a spanning tree on every region, and  *)
(* linking edges that join the trees into one.  Splitting a region along a *)
(* tree makes the edge cut a linking edge; a merge-split move takes the    *)
(* linking edge of a pair away, draws a tree on the pair and cuts it       *)
(* anew.  With a linking edge goes the probability that the splitter would *)
(* cut the joined tree there, kept until one of its regions changes.  The  *)
(* schedule is AnyRegionSMD.  A hard constraint is a set of regions it     *)
(* forbids.  A cut is drawn uniformly, so a probability is 1 over a number *)
(* of cuts, and the number is what is kept here.                           *)
(***************************************************************************)
EXTENDS PlanMultigraph, TreeSplitting

CONSTANTS
    Seats,               \* of the map, one for each district
    CountyLayouts,       \* the county assignments looked at
    Barred,              \* sets of precincts that a hard constraint forbids as a region
    InitialPlans         \* the layouts on which runs start from partial plans

\* Nothing says what the linking tree of a plan handed in with counties should
\* be: such a plan is looked at on a map of one county only.
ASSUME LinkedPlanAssumption ==
    /\ Seats \in Nat \ {0}
    /\ \A layout \in InitialPlans : \A u, v \in Vertices : layout[u] = layout[v]

VARIABLES
    county,              \* never changes
    step,                \* what comes next: "split" (or a move), "weigh"
    num_regions,
    region_ids,
    region_sizes,
    forest_edges,
    linking_edges,       \* number of cuts of the joined tree; 0: valid_log_prob is false
    threw

vars == <<county, step, num_regions, region_ids, region_sizes, forest_edges, linking_edges, threw>>

Ids == 0 .. Seats - 1

\* What an earlier search may have left in the scratch.
Scratch == [v \in Vertices |-> 99]

\* Every tree the sampler may draw on a set of precincts, worked out once.
HierarchicalTreesOn ==
    [c \in CountyLayouts |-> [S \in SUBSET Vertices |-> HierarchicalTrees(c, S)]]

PairOf(ids, e) == LET rs == RegionsOf(ids, e) IN <<Min(rs), Max(rs)>>

RegionOf(r) == Region(region_ids, r)

\* The tables of the last split.
is_valid_merge_pair(sizes, p) == sizes[p[1]] + sizes[p[2]] <= Seats - num_regions + 2

\* build_plan_multigraph and remove_invalid_hard_constraint_pairs.  A build
\* that fails leaves no pair to rely on.
Multigraph(ids, n) ==
    RemovePairs(build_plan_multigraph(county, ids, n),
                LAMBDA p : Region(ids, p[1]) \cup Region(ids, p[2]) \in Barred)

satisfies_hard_constraints(ids, r1, r2) ==
    Region(ids, r1) \notin Barred /\ Region(ids, r2) \notin Barred

----------------------------------------------------------------------------
\* A tree on S is cut: the smaller part is region r1, the lower one on a tie.
Parts(S, T, size, cut) ==
    LET below == Component(cut.vertex, S, T \ {{cut.vertex, cut.parent}})
    IN  IF cut.size <= size - cut.size
        THEN [first |-> below, size1 |-> cut.size, size2 |-> size - cut.size]
        ELSE [first |-> S \ below, size1 |-> size - cut.size, size2 |-> cut.size]

NewIds(S, parts, r1, r2) ==
    [v \in Vertices |-> IF v \in parts.first THEN r1 ELSE IF v \in S THEN r2 ELSE region_ids[v]]

NewSizes(parts, r1, r2) == [region_sizes EXCEPT ![r1] = parts.size1, ![r2] = parts.size2]

\* A slip of the next definition: the old trees of S stay in the forest.
OldTreesStay(S, T, cut) == forest_edges \cup (T \ {{cut.vertex, cut.parent}})

\* The edges at the vertices of S give way to the two parts of the tree.
assign_region_id_and_forest_from_tree(S, T, cut) ==
    {e \in forest_edges : e \cap S = {}} \cup (T \ {{cut.vertex, cut.parent}})

\* A slip of the next definition: only the pair's own linking edge is forgotten.
LinksStayValid(ids, kept, cut, n, r1, r2) ==
    [e \in kept \cup {{cut.vertex, cut.parent}} |->
        IF e = {cut.vertex, cut.parent} THEN n ELSE linking_edges[e]]

\* The linking edges that are left, those of a changed region without a valid
\* probability, and the new one.
LinksAfterCut(ids, kept, cut, n, r1, r2) ==
    [e \in kept \cup {{cut.vertex, cut.parent}} |->
        IF e = {cut.vertex, cut.parent} THEN n
        ELSE IF RegionsOf(ids, e) \cap {r1, r2} # {} THEN 0 ELSE linking_edges[e]]

\* Plans that a tree T on S, cut into regions r1 and r2, can give.
CutPlans(S, T, size, kept, r1, r2) ==
    LET cuts == get_all_valid_edges_in_directed_tree(
                    T, Min(S), Scratch, [pop |-> PopOf(S), size |-> size], AnyCutOptions(size))
        plan(cut) ==
            LET parts == Parts(S, T, size, cut)
                ids   == NewIds(S, parts, r1, r2)
            IN  [ids |-> ids, sizes |-> NewSizes(parts, r1, r2),
                 forest |-> assign_region_id_and_forest_from_tree(S, T, cut),
                 links |-> LinksAfterCut(ids, kept, cut, Cardinality(cuts), r1, r2)]
    IN  {plan(cut) : cut \in cuts}

\* The denominator of the retroactive splitting probability of linking edge e.
get_regions_log_splitting_prob(ids, sizes, forest, e) ==
    LET v == CHOOSE w \in e : TRUE
        u == CHOOSE w \in e : w # v
        size == sizes[ids[v]] + sizes[ids[u]]
    IN  Cardinality(get_valid_pop_edges_in_joined_packed_tree(
            forest, v, PopOf(Region(ids, ids[v])), u, PopOf(Region(ids, ids[u])), size,
            Scratch, AnyCutOptions(size)))

\* get_log_eff_boundary_len and the weights recompute what is not valid.
Recomputed(ids, sizes, forest, links, which) ==
    [e \in DOMAIN links |->
        IF e \in which /\ links[e] = 0
        THEN get_regions_log_splitting_prob(ids, sizes, forest, e) ELSE links[e]]

----------------------------------------------------------------------------
\* "sanity check that we never get invalid pair"
PairsAreHashed(m, ids, sizes, links) ==
    \A e \in links : is_valid_merge_pair(sizes, PairOf(ids, e)) => PairOf(ids, e) \in DOMAIN m.pair_map

MergeableLinks ==
    {e \in DOMAIN linking_edges : is_valid_merge_pair(region_sizes, PairOf(region_ids, e))}

Throw == threw' = TRUE /\ UNCHANGED <<step, region_ids, region_sizes, forest_edges, linking_edges, num_regions>>

\* run_smc_step on one particle.
Split ==
    /\ step = "split" /\ ~threw /\ num_regions < Seats
    /\ \E r \in 0 .. num_regions - 1 :
          /\ region_sizes[r] > 1
          /\ \E T \in HierarchicalTreesOn[county][RegionOf(r)] :
             \E plan \in CutPlans(RegionOf(r), T, region_sizes[r], DOMAIN linking_edges, r, num_regions) :
                /\ satisfies_hard_constraints(plan.ids, r, num_regions)
                /\ region_ids' = plan.ids
                /\ region_sizes' = plan.sizes
                /\ forest_edges' = plan.forest
                /\ linking_edges' = plan.links
    /\ num_regions' = num_regions + 1
    /\ step' = "weigh"
    /\ UNCHANGED <<county, threw>>

get_valid_adj_regions_and_eff_log_boundary_lens ==
    /\ step = "weigh" /\ ~threw
    /\ LET m == Multigraph(region_ids, num_regions)
       IN  IF /\ PairsAreHashed(m, region_ids, region_sizes, DOMAIN linking_edges)
              /\ \A e \in MergeableLinks : m.pair_map[PairOf(region_ids, e)].merge_is_hier_valid
           THEN /\ linking_edges' = Recomputed(region_ids, region_sizes, forest_edges,
                                               linking_edges, MergeableLinks)
                /\ step' = "split"
                /\ UNCHANGED <<num_regions, region_ids, region_sizes, forest_edges, threw>>
           ELSE Throw
    /\ UNCHANGED county

\* A proposal: link is the linking edge of the pair picked.
Proposals(link) ==
    LET p == PairOf(region_ids, link)
        S == RegionOf(p[1]) \cup RegionOf(p[2])
    IN  UNION {CutPlans(S, T, region_sizes[p[1]] + region_sizes[p[2]],
                        (DOMAIN linking_edges) \ {link}, p[1], p[2]) :
                  T \in HierarchicalTreesOn[county][S]}

\* A proposal that is no plan, or that a constraint forbids, is dropped; of the
\* others some are accepted, and a rejected one leaves the probability that the
\* ratio asked for.
Answer(link, plan) ==
    LET p     == PairOf(region_ids, link)
        built == Multigraph(plan.ids, num_regions)
    IN  IF built.ok /\ ~PairsAreHashed(built, plan.ids, plan.sizes, DOMAIN plan.links) THEN Throw
        ELSE /\ UNCHANGED <<step, num_regions, threw>>
             /\ \/ /\ built.ok /\ satisfies_hard_constraints(plan.ids, p[1], p[2])
                   /\ region_ids' = plan.ids
                   /\ region_sizes' = plan.sizes
                   /\ forest_edges' = plan.forest
                   /\ linking_edges' = plan.links
                \/ /\ UNCHANGED <<region_ids, region_sizes, forest_edges>>
                   /\ linking_edges' =
                         IF built.ok /\ satisfies_hard_constraints(plan.ids, p[1], p[2])
                         THEN Recomputed(region_ids, region_sizes, forest_edges,
                                         linking_edges, {link})
                         ELSE linking_edges

attempt_mergesplit_step ==
    /\ step = "split" /\ ~threw /\ num_regions > 1
    /\ IF MergeableLinks = {}
          \/ ~PairsAreHashed(Multigraph(region_ids, num_regions), region_ids,
                             region_sizes, DOMAIN linking_edges)
       THEN Throw
       ELSE \E link \in MergeableLinks : \E plan \in Proposals(link) : Answer(link, plan)
    /\ UNCHANGED county

----------------------------------------------------------------------------
(***************************************************************************)
(* How a plan of this space comes to be.                                   *)
(***************************************************************************)

Blank ==
    /\ num_regions = 1
    /\ region_ids = [v \in Vertices |-> 0]
    /\ region_sizes = [r \in Ids |-> IF r = 0 THEN Seats ELSE 0]
    /\ forest_edges = {}
    /\ linking_edges = <<>>

\* Trees on the regions that a depth first search from region 0 can give: the
\* graph has no edge between two branches.
SearchTrees(n, pairs) ==
    LET spans(P)     == Connected(0 .. n - 1, {{p[1], p[2]} : p \in P})
        path(P, r)   == {s \in 0 .. n - 1 :
                            r \notin Component(0, (0 .. n - 1) \ {s}, {{p[1], p[2]} : p \in P})}
    IN  {P \in kSubset(n - 1, pairs) :
            /\ spans(P)
            /\ \A p \in pairs : p[1] \in path(P, p[2]) \/ p[2] \in path(P, p[1])}

\* The edge that links a pair: at the first precinct of one region with a
\* neighbour in the other.  The search decides which region is the first.
FirstEdge(ids, r1, r2) ==
    LET touching(v) == {u \in Region(ids, r2) : {u, v} \in Edges}
        first == Min({v \in Region(ids, r1) : touching(v) # {}})
    IN  {first, Min(touching(first))}

get_intial_linking_edges(ids, n) ==
    LET m == build_plan_multigraph(county, ids, n)
        pairs == {p \in DOMAIN m.pair_map : m.pair_map[p].merge_is_hier_valid}
        above(P, p) == IF p[1] \in Component(0, (0 .. n - 1) \ {p[2]}, {{q[1], q[2]} : q \in P})
                       THEN p ELSE <<p[2], p[1]>>
    IN  {{FirstEdge(ids, above(P, p)[1], above(P, p)[2]) : p \in P} : P \in SearchTrees(n, pairs)}

\* A partial plan that was handed in: a tree is drawn on every region and the
\* linking edges are looked for; none has a valid probability.  Plans without
\* a multigraph or a linking tree make the constructor throw.
Partial ==
    /\ county \in InitialPlans
    /\ num_regions \in 2 .. Seats - 1
    /\ region_ids \in [Vertices -> 0 .. num_regions - 1]
    /\ \A r \in 0 .. num_regions - 1 : HierarchicalTreesOn[county][RegionOf(r)] # {}
    /\ build_plan_multigraph(county, region_ids, num_regions).ok
    /\ \E sizes \in [0 .. num_regions - 1 -> 1 .. Seats] :
          /\ SumFunction(sizes) = Seats
          /\ \A r \in DOMAIN sizes : Fits(PopOf(RegionOf(r)), sizes[r])
          /\ region_sizes = [r \in Ids |-> IF r \in DOMAIN sizes THEN sizes[r] ELSE 0]
    /\ forest_edges \in SUBSET {e \in Edges : ~Crosses(region_ids, e)}
    /\ \A r \in 0 .. num_regions - 1 :
          Inside(RegionOf(r), forest_edges) \in HierarchicalTreesOn[county][RegionOf(r)]
    /\ \E links \in get_intial_linking_edges(region_ids, num_regions) :
          linking_edges = [e \in links |-> 0]

Init ==
    /\ county \in CountyLayouts
    /\ step = "split"
    /\ threw = FALSE
    /\ Blank \/ Partial

\* A run that goes on from saved plans gets their trees and linking edges back
\* as they are, but no probabilities.
Continue ==
    /\ step = "split" /\ ~threw /\ num_regions > 1
    /\ linking_edges' = [e \in DOMAIN linking_edges |-> 0]
    /\ UNCHANGED <<county, step, num_regions, region_ids, region_sizes, forest_edges, threw>>

Next ==
    \/ Split
    \/ get_valid_adj_regions_and_eff_log_boundary_lens
    \/ attempt_mergesplit_step
    \/ Continue

Spec == Init /\ [][Next]_vars

----------------------------------------------------------------------------
(***************************************************************************)
(* Properties.                                                             *)
(***************************************************************************)

Linked(r, s) == {e \in DOMAIN linking_edges : RegionsOf(region_ids, e) = {r, s}}

\* After any sequence of splits and moves the forest holds one tree for every
\* region and nothing else, and with the linking edges it is one tree on the
\* whole map, itself hierarchical: what tau counts the linkings of.
LinkedTreeIsHierarchical ==
    num_regions > 1 =>
        /\ \A r \in 0 .. num_regions - 1 :
              Inside(RegionOf(r), forest_edges) \in HierarchicalTreesOn[county][RegionOf(r)]
        /\ \A e \in DOMAIN linking_edges : Crosses(region_ids, e)
        /\ forest_edges \cup DOMAIN linking_edges \in HierarchicalTreesOn[county][Vertices]

\* The cuts of a tree, by their definition: an edge, the smaller number of
\* seats or the larger below it, both parts in their bounds.
ValidCuts(T, S, size) ==
    {cut \in T \X S \X (1 .. size - 1) :
        /\ cut[2] \in cut[1]
        /\ LET below == Component(cut[2], S, T \ {cut[1]})
           IN  Fits(PopOf(below), cut[3]) /\ Fits(PopOf(S \ below), size - cut[3])}

\* Every cut is counted from both its ends.
CutCount(T, S, size) == Cardinality(ValidCuts(T, S, size)) \div 2

JoinedCutCount(e) ==
    LET S == UNION {RegionOf(r) : r \in RegionsOf(region_ids, e)}
        size == MapThenSumSet(LAMBDA r : region_sizes[r], RegionsOf(region_ids, e))
    IN  CutCount(Inside(S, forest_edges) \cup {e}, S, size)

\* A probability that is kept is that of the trees and sizes its two regions
\* have now, whichever region was split or redrawn since it was computed.
CachedCutsAreCurrent ==
    \A e \in DOMAIN linking_edges : linking_edges[e] # 0 => linking_edges[e] = JoinedCutCount(e)

\* The linking edge of a pair that the schedule lets merge can always be
\* merged: the checks that throw never do.
NeverThrows == ~threw

\* What the search of one tree finds does not depend on where it starts nor on
\* what the scratch holds, and where it gives up there is no cut.
SearchFindsEveryCut ==
    \A r \in 0 .. num_regions - 1 :
        LET S == RegionOf(r)
            T == Inside(S, forest_edges)
        IN  num_regions > 1 => \A root \in S :
              Cardinality(get_all_valid_edges_in_directed_tree(
                  T, root, Scratch, [pop |-> PopOf(S), size |-> region_sizes[r]],
                  AnyCutOptions(region_sizes[r]))) = CutCount(T, S, region_sizes[r])

\* Two programs for the same number: the effective boundary, which slides the
\* joint over each tree once, agrees for every boundary edge and from every
\* representative edge with the search of the tree joined there.
BoundaryAgreesWithSearch ==
    \A r, s \in 0 .. num_regions - 1 :
        LET boundary == {e \in Edges : RegionsOf(region_ids, e) = {r, s}}
            size == region_sizes[r] + region_sizes[s]
            end(e, q) == CHOOSE v \in e : region_ids[v] = q
            cuts(e) == get_regions_log_splitting_prob(region_ids, region_sizes, forest_edges, e)
        IN  r < s => \A rep \in boundary :
              get_log_eff_boundary_len_for_adj_region_pair(
                  forest_edges, RegionOf(r), end(rep, r), RegionOf(s), end(rep, s),
                  boundary, size, AnyCutOptions(size))
                = [e \in boundary |-> cuts(e)]
=============================================================================
