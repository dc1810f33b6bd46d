-------------------------- MODULE MergeSplitMoves --------------------------
(***************************************************************************)
(* Merge-split in graph space: run_merge_split_steps builds the multigraph *)
(* of the plan once, and every attempt_mergesplit_step merges a pair,      *)
(* splits it along a tree, builds the multigraph of the proposal in a      *)
(* second object and swaps the two when the proposal is accepted.  What    *)
(* that second object holds is never read before the next build resets it, *)
(* so it is no variable here.  All regions are districts of one seat, so   *)
(* the schedule forbids no pair.  Which cuts have tolerable populations is *)
(* left open, and so is the outcome of the Metropolis-Hastings draw.       *)
(***************************************************************************)
EXTENDS PlanMultigraph

CONSTANTS
    CountyLayouts,       \* the county assignments looked at
    MaxRegions           \* bound on the regions of a plan

\* R refuses a map that is not in one piece, and takes the pieces of a county
\* that is not in one for counties.
ASSUME MovesAssumption ==
    /\ Connected(Vertices, Edges)
    /\ \A c \in CountyLayouts : CountiesAreContiguous(c)

VARIABLES
    county,              \* the county of each precinct; never changes
    num_regions,         \* never changes
    region_ids,          \* the plan
    current,             \* current_plan_multigraph
    running              \* FALSE once the driver has thrown

vars == <<county, num_regions, region_ids, current, running>>

\* Partitions into n connected regions, numbered by their smallest precincts.
Plans(n) ==
    {ids \in [Vertices -> 0 .. n - 1] :
        /\ \A r \in 0 .. n - 1 : Region(ids, r) # {} /\ Connected(Region(ids, r), Edges)
        /\ \A r \in 1 .. n - 1 : Min(Region(ids, r - 1)) < Min(Region(ids, r))}

\* Every tree draw_tree_on_merged_region may return, worked out once.
HierarchicalTreesOn ==
    [c \in CountyLayouts |-> [S \in SUBSET Vertices |-> HierarchicalTrees(c, S)]]

attempt_to_get_valid_mergesplit_pairs(built) ==
    IF built.ok THEN remove_invalid_mergesplit_pairs(county, built) ELSE built

Pairs(m) == DOMAIN m.pair_map

\* run_merge_split_steps on a plan whose multigraph cannot be built throws.
Init ==
    /\ county \in CountyLayouts
    /\ num_regions \in 2 .. MaxRegions
    /\ region_ids \in Plans(num_regions)
    /\ current = attempt_to_get_valid_mergesplit_pairs(
                    build_plan_multigraph(county, region_ids, num_regions))
    /\ running = current.ok

\* The plans that splitting the merged pair along a tree can give: the part
\* cut off may be either region.
Resplit(pair) ==
    LET merged == Region(region_ids, pair[1]) \cup Region(region_ids, pair[2])
        cut(T, e) == Component(Min(e), merged, T \ {e})
        halves == UNION {UNION {{cut(T, e), merged \ cut(T, e)} : e \in T} :
                           T \in HierarchicalTreesOn[county][merged]}
    IN  {[v \in Vertices |-> IF v \in half THEN pair[1]
                             ELSE IF v \in merged THEN pair[2] ELSE region_ids[v]] :
            half \in halves}

\* The multigraph the plan has once the proposal is accepted.
swap_plan_multigraphs(built) == built

attempt_mergesplit_step ==
    /\ running
    /\ \E pair \in Pairs(current) : \E new_ids \in Resplit(pair) :
          LET built == attempt_to_get_valid_mergesplit_pairs(
                           build_plan_multigraph(county, new_ids, num_regions))
          IN  IF ~built.ok
              THEN UNCHANGED <<region_ids, current, running>>
              ELSE IF pair \notin Pairs(built)
              THEN running' = FALSE /\ UNCHANGED <<region_ids, current>>
              ELSE /\ UNCHANGED running
                   /\ \/ /\ region_ids' = new_ids
                         /\ current' = swap_plan_multigraphs(built)
                      \/ UNCHANGED <<region_ids, current>>
    /\ UNCHANGED <<county, num_regions>>

Next == attempt_mergesplit_step

Spec == Init /\ [][Next]_vars

----------------------------------------------------------------------------
(***************************************************************************)
(* Properties.                                                             *)
(***************************************************************************)

\* The hierarchical spanning trees of the map whose edges inside regions span
\* each of them, and what such trees leave between the regions.
TreesThrough(ids, n) ==
    {T \in HierarchicalTreesOn[county][Vertices] :
        Cardinality({e \in T : Crosses(ids, e)}) = n - 1}

Linkings(ids, n) == {{e \in T : Crosses(ids, e)} : T \in TreesThrough(ids, n)}

MergedIds(pair) ==
    [v \in Vertices |-> IF region_ids[v] = pair[2] THEN pair[1] ELSE region_ids[v]]

\* Counting the splits of counties, component by component, is exactly the
\* test whether some hierarchical tree of the whole map can be cut into the
\* plan, for plans handed in and for those the moves propose.
BuildsTheHierarchicalPlans ==
    /\ current.ok <=> TreesThrough(region_ids, num_regions) # {}
    /\ current.ok <=> is_hierarchically_valid(county, region_ids, num_regions)

\* tau is the number of ways to link the regions of the plan into such a tree,
\* and for a pair that may be merged the merged tau, read off the multigraph of
\* the plan before the merge, is that of the merged plan.
TauCountsLinkings ==
    LET full == build_plan_multigraph(county, region_ids, num_regions)
    IN  full.ok =>
          /\ compute_log_multigraph_tau(full, num_regions)
               = Cardinality(Linkings(region_ids, num_regions))
          /\ \A p \in Pairs(remove_invalid_hierarchical_merge_pairs(county, full)) :
                compute_merged_log_multigraph_tau(full, num_regions, p[1], p[2])
                  = Cardinality(Linkings(MergedIds(p), num_regions - 1))

\* Merge-split keeps exactly the adjacent pairs on whose union a hierarchical
\* tree can be drawn, and SMC merges exactly those whose merged plan is again
\* hierarchical.
KeptPairsAreMergeable ==
    LET full == build_plan_multigraph(county, region_ids, num_regions)
    IN  full.ok => \A p \in Pairs(full) :
          /\ p \in Pairs(current) <=>
                HierarchicalTreesOn[county][Region(MergedIds(p), p[1])] # {}
          /\ full.pair_map[p].merge_is_hier_valid <=>
                TreesThrough(MergedIds(p), num_regions - 1) # {}

\* A hierarchical tree is a tree on each county's part and a tree on the
\* counties: the product of their numbers, a determinant each, counts the trees
\* on every region.
RegionTreesAreCounted ==
    \A r \in 0 .. num_regions - 1 :
        LET S == Region(region_ids, r)
        IN  running => RegionTrees(county, S) = Cardinality(HierarchicalTreesOn[county][S])

\* The pair that was merged and split can be merged again in the proposal, so
\* the driver never throws over regions that are no longer adjacent.
KeepsTheWayBack == [][running => running']_vars
=============================================================================
