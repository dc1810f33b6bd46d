----------------------------- MODULE CycleWalk -----------------------------
(***************************************************************************)
(* The CycleWalk chain (cw_main, cw_proposal, cw_forest_walk and           *)
(* lct_graph_plan_type): a plan with a spanning tree of every district,    *)
(* kept in a link-cut tree (LinkCutTree shows that it is a forest).        *)
(*                                                                         *)
(* A cycle walk picks two edges that cross between two districts; with the *)
(* tree paths between their ends they form a cycle.  It cuts the cycle at  *)
(* two other places, which trades vertices, scores the new plan in place,  *)
(* and keeps it or puts everything back.  An internal forest walk changes  *)
(* the tree of one district.  Scores and random numbers are left open: any *)
(* choice with positive probability may be made.                           *)
(***************************************************************************)
EXTENDS Forests, FiniteSetsExt, SequencesExt

CONSTANTS
    Edges,         \* the map: pairs <<u, v>> with u < v, as in CWEdge
    pop,           \* MapParams::pop
    region_sizes,  \* seats of each district
    lower, upper,  \* population bounds of one seat
    init_plan      \* the district of each vertex at the start

Regions == DOMAIN region_sizes

\* A map numbers its vertices, and lists an edge once, from its lower end.  The
\* R wrapper gives every district one seat (redist_cyclewalk.R, init_seats).
WalkAssumption ==
    /\ Vertices \subseteq Int
    /\ Edges \subseteq Vertices \X Vertices
    /\ \A e \in Edges : e[1] < e[2]
    /\ \A v \in Vertices : pop[v] \in Nat
    /\ Regions \subseteq Int
    /\ \A d \in Regions : region_sizes[d] = 1
    /\ init_plan \in [Vertices -> Regions]

ASSUME WalkIsAssumed == WalkAssumption

VARIABLES
    forest,          \* LCTGraphPlan::lct, as parents
    district_roots,
    region_ids,
    region_pops,
    cross_edges,     \* the crossing edges of each adjacent pair
    phase,           \* "ready", "proposed", or "thrown" by the link-cut tree
    proposal         \* the update applied and the snapshot cycle_walk keeps

planVars == <<forest, district_roots, region_ids, region_pops, cross_edges>>
vars == <<planVars, phase, proposal>>

PopOf(verts) == MapThenSumSet(LAMBDA v : pop[v], verts)

Members(ids, d) == {v \in Vertices : ids[v] = d}

Adjacent(u, v) == <<u, v>> \in Edges \/ <<v, u>> \in Edges

\* rebuild_cross_edges; a pair without crossing edges has no entry.
CrossEdges(ids) ==
    LET crossing == {e \in Edges : ids[e[1]] # ids[e[2]]}
        sides(e) == {ids[e[1]], ids[e[2]]}
    IN  [pair \in {sides(e) : e \in crossing} |-> {e \in crossing : sides(e) = pair}]

InBounds(population, d) ==
    /\ population >= lower * region_sizes[d]
    /\ population <= upper * region_sizes[d]

NoProposal == [links |-> <<>>]

\* init_lct_from_regions: any spanning tree of each district, at any root.
SpanningForests ==
    {f \in Parents :
        /\ \A v \in Vertices :
               f[v] # NULL => Adjacent(v, f[v]) /\ init_plan[v] = init_plan[f[v]]
        /\ \A d \in Regions : Cardinality({v \in Members(init_plan, d) : f[v] = NULL}) = 1
        /\ IsForest(f)}

\* The run goes on only if the plan it was given is within the bounds.
Init ==
    /\ \A d \in Regions : InBounds(PopOf(Members(init_plan, d)), d)
    /\ forest \in SpanningForests
    /\ district_roots = [d \in Regions |-> CHOOSE v \in Members(init_plan, d) : forest[v] = NULL]
    /\ region_ids = init_plan
    /\ region_pops = [d \in Regions |-> PopOf(Members(init_plan, d))]
    /\ cross_edges = CrossEdges(init_plan)
    /\ phase = "ready"
    /\ proposal = NoProposal

(***************************************************************************)
(* internal_forest_walk                                                    *)
(***************************************************************************)
\* The tree, rooted at u, loses its i-th edge on the way to v and gains u--v.
\* The root is looked up before the link: it is the child that was cut off.
Rewire(f, u, v, i) ==
    LET cut_child == PathTo(f, v)[i + 1]
        severed == CutOff(f, cut_child)
    IN  [forest |-> Linked(severed, u, v), root |-> RootOf(severed, v)]

\* An edge inside a tree.  When it is in the tree, or is the one dropped from
\* the cycle it closes, only the root moves; a draw of exactly 0 finds no edge
\* and returns before the root is noted.
internal_forest_walk ==
    \E e \in Edges :
        LET u       == e[1]
            v       == e[2]
            everted == Everted(forest, u)
            path    == PathTo(everted, v)
        IN  /\ phase = "ready"
            /\ RootOf(forest, u) = RootOf(forest, v)
            /\ \/ /\ forest' = everted
                  /\ district_roots' = [district_roots EXCEPT ![region_ids[v]] = RootOf(everted, v)]
               \/ /\ Len(path) > 2
                  /\ \E i \in 1..Len(path) - 1 :
                         LET rewired == Rewire(everted, u, v, i)
                         IN  /\ forest' = rewired.forest
                             /\ district_roots' = [district_roots EXCEPT ![region_ids[v]] = rewired.root]
               \/ /\ Len(path) > 2
                  /\ forest' = everted
                  /\ UNCHANGED district_roots
            /\ UNCHANGED <<region_ids, region_pops, cross_edges, phase, proposal>>

(***************************************************************************)
(* cycle_walk: the cycle and its cuts                                      *)
(***************************************************************************)
\* get_cycle_paths: path1 lies in the district of the first end of e1, from
\* e2 to e1; path2 runs along the other side.  Both trees end up rooted at e1.
CyclePaths(f, ids, e1, e2) ==
    LET u1 == e1[1]
        v1 == e1[2]
        same == ids[e2[1]] = ids[u1]
        u2 == IF same THEN e2[1] ELSE e2[2]
        v2 == IF same THEN e2[2] ELSE e2[1]
        rooted == Everted(Everted(f, u1), v1)
    IN  [rooted |-> rooted,
         path1  |-> Reverse(PathTo(rooted, u2)),
         path2  |-> Reverse(PathTo(rooted, v2))]

\* A slip of the next definition: the second path is read in the wrong direction.
CollapsedWeightsUnturned(c) ==
    LET below(path, i) == PopOf(Below(c.rooted, path[i]))
        own(path, i) == below(path, i) - (IF i = 1 THEN 0 ELSE below(path, i - 1))
    IN  [k \in 1..Len(c.path1) + Len(c.path2) |->
            IF k <= Len(c.path1) THEN own(c.path1, k) ELSE own(c.path2, k - Len(c.path1))]

\* get_collapsed_cycle_weights: along the cycle, the population of each vertex
\* with everything that hangs off the cycle at it.  path2 comes in reverse.
CollapsedWeights(c) ==
    LET below(path, i) == PopOf(Below(c.rooted, path[i]))
        own(path, i) == below(path, i) - (IF i = 1 THEN 0 ELSE below(path, i - 1))
        cycle_len == Len(c.path1) + Len(c.path2)
    IN  [k \in 1..cycle_len |->
            IF k <= Len(c.path1) THEN own(c.path1, k) ELSE own(c.path2, cycle_len + 1 - k)]

SumFromTo(weights, from, to) == MapThenSumSet(LAMBDA i : weights[i], from..to)

\* A slip of the next definition: only the first district's bounds are checked.
CutPairsOneSided(weights, initial_cut, total_pop, d1, d2) ==
    {cuts \in (1..Len(weights)) \X (1..Len(weights) - 1) :
        LET pop1 == SumFromTo(weights, cuts[1], cuts[2])
        IN  /\ cuts[1] <= cuts[2]
            /\ cuts # <<1, initial_cut>>
            /\ InBounds(pop1, d1) \/ InBounds(pop1, d2)}

\* Cutting before position cut1 and after cut2 makes two arcs; either arc may
\* be either district.  <<1, initial_cut>> is the plan as it is.
find_valid_cut_pairs(weights, initial_cut, total_pop, d1, d2) ==
    {cuts \in (1..Len(weights)) \X (1..Len(weights) - 1) :
        LET pop1 == SumFromTo(weights, cuts[1], cuts[2])
            pop2 == total_pop - pop1
        IN  /\ cuts[1] <= cuts[2]
            /\ cuts # <<1, initial_cut>>
            /\ \/ InBounds(pop1, d1) /\ InBounds(pop2, d2)
               \/ InBounds(pop1, d2) /\ InBounds(pop2, d1)}

\* get_edge_at_position: the edge before position i, its end nearer to the
\* root first where it is a tree edge.
EdgeAt(c, i) ==
    LET n1 == Len(c.path1)
        n2 == Len(c.path2)
    IN  IF i = 1 THEN <<c.path1[1], c.path2[1]>>
        ELSE IF i <= n1 THEN <<c.path1[i], c.path1[i - 1]>>
        ELSE IF i = n1 + 1 THEN <<c.path1[n1], c.path2[n2]>>
        ELSE <<c.path2[n2 + n1 + 2 - i], c.path2[n2 + n1 + 1 - i]>>

(***************************************************************************)
(* cycle_walk: the update                                                  *)
(***************************************************************************)
SameEdge(a, b) == a = b \/ a = <<b[2], b[1]>>

From(e, ids, d1) == IF ids[e[1]] = d1 THEN e ELSE <<e[2], e[1]>>

\* An edge that would be cut and linked is left alone.
UpdateOf(cut1, cut2, e1, e2) ==
    LET without(cut, link) ==
            [cuts  |-> IF cut = 1 THEN <<cut2>> ELSE <<cut1>>,
             links |-> IF link = 1 THEN <<e2>> ELSE <<e1>>]
    IN  IF SameEdge(e1, cut1) THEN without(1, 1)
        ELSE IF SameEdge(e1, cut2) THEN without(2, 1)
        ELSE IF SameEdge(e2, cut1) THEN without(1, 2)
        ELSE IF SameEdge(e2, cut2) THEN without(2, 2)
        ELSE [cuts |-> <<cut1, cut2>>, links |-> <<e1, e2>>]

\* get_link_path_ind, which counts each path from its last vertex.
LinkPosition(c, v) ==
    LET n1 == Len(c.path1)
        n2 == Len(c.path2)
    IN  IF c.path1[n1] = v THEN 1
        ELSE IF c.path1[1] = v THEN n1
        ELSE IF c.path2[n2] = v THEN n1 + n2
        ELSE n1 + 1

\* Whether the first linked vertex is to change district, from the population
\* that would stay on its side.
swap_assignment_check(position, cuts, n1, weights) ==
    LET n == Len(weights)
        before == IF cuts[1] <= n1 THEN SumFromTo(weights, cuts[1], IF n1 < cuts[2] THEN n1 ELSE cuts[2])
                  ELSE SumFromTo(weights, n1 + 1, cuts[1] - 1)
        after == SumFromTo(weights, IF n1 < cuts[2] THEN cuts[2] + 1 ELSE n1 + 1, n)
        arc_is_path1 == 2 * (before + after) > SumFromTo(weights, 1, n)
        in_arc == cuts[1] <= position /\ position <= cuts[2]
    IN  ((position <= n1) # in_arc) = arc_is_path1

\* The cuts, then the links; a cut of a root or a link inside one tree throws.
Thrown == <<>>

TryCut(f, v) == IF f = Thrown THEN Thrown ELSE IF f[v] = NULL THEN Thrown ELSE CutOff(f, v)

TryLink(f, u, v) ==
    IF f = Thrown THEN Thrown
    ELSE IF RootOf(f, u) = RootOf(f, v) THEN Thrown
    ELSE Linked(Everted(f, u), u, v)

\* One thing done to a forest for the first edge, and then for the second if
\* there are two: an update has one or two cuts, and as many links.
CutAll(f, cuts) ==
    LET first == TryCut(f, cuts[1][2])
    IN  IF Len(cuts) = 1 THEN first ELSE TryCut(first, cuts[2][2])

LinkAll(f, links) ==
    LET first == TryLink(f, links[1][1], links[1][2])
    IN  IF Len(links) = 1 THEN first ELSE TryLink(first, links[2][1], links[2][2])

Updated(f, update) == LinkAll(CutAll(f, update.cuts), update.links)

\* An edge that was linked is cut: its second end is made the root above the first.
Unlink(f, u, v) == IF f = Thrown THEN Thrown ELSE TryCut(Everted(f, v), u)

UnlinkAll(f, links) ==
    LET first == Unlink(f, links[1][1], links[1][2])
    IN  IF Len(links) = 1 THEN first ELSE Unlink(first, links[2][1], links[2][2])

\* A slip of the next definition: only the first edge that was cut is linked back.
UndoneOnce(f, update) ==
    TryLink(UnlinkAll(f, update.links), update.cuts[1][1], update.cuts[1][2])

\* The rejected update backwards: the links are cut, the cuts are linked.
Undone(f, update) == LinkAll(UnlinkAll(f, update.links), update.cuts)

\* The districts' roots after an update: the ends of the first cut lie in
\* different trees; which is d1 follows from where the first linked vertex goes.
NewRoots(f, ids, update, d1) ==
    LET root1 == RootOf(f, update.cuts[1][1])
        root2 == RootOf(f, update.cuts[1][2])
        linked == update.links[1][1]
        is_first == RootOf(f, linked) = root1
        was_d1 == ids[linked] = d1
    IN  IF (is_first = was_d1) = update.swap_link11 THEN <<root2, root1>> ELSE <<root1, root2>>

\* A slip of the next definition: whatever is not in the first tree is the second.
ReassignedToEither(f, roots, d1, d2) ==
    [v \in Vertices |-> IF RootOf(f, v) = roots[1] THEN d1 ELSE d2]

\* Vertices are reassigned by the root of their tree.
Reassigned(f, roots, d1, d2) ==
    [v \in Vertices |-> IF RootOf(f, v) = roots[1] THEN d1
                        ELSE IF RootOf(f, v) = roots[2] THEN d2
                        ELSE region_ids[v]]

\* apply_update, once its cuts and links have made the forest f.
apply_update(f, update, d1, d2) ==
    LET roots == NewRoots(f, region_ids, update, d1)
        ids == Reassigned(f, roots, d1, d2)
    IN  /\ forest' = f
        /\ district_roots' = [district_roots EXCEPT ![d1] = roots[1], ![d2] = roots[2]]
        /\ region_ids' = ids
        /\ region_pops' = [region_pops EXCEPT ![d1] = PopOf(Members(ids, d1)),
                                              ![d2] = PopOf(Members(ids, d2))]
        /\ cross_edges' = CrossEdges(ids)

\* One cut pair on the cycle of e1 and e2, as the two edges it cuts.
CutEdges(c, cuts) == {{EdgeAt(c, cuts[1])[1], EdgeAt(c, cuts[1])[2]},
                      {EdgeAt(c, cuts[2] + 1)[1], EdgeAt(c, cuts[2] + 1)[2]}}

ValidCuts(c, d1, d2) ==
    find_valid_cut_pairs(CollapsedWeights(c), Len(c.path1), region_pops[d1] + region_pops[d2], d1, d2)

\* Failure -2: fewer than two edges cross.  Only looking, the chain goes on.
too_few_edges ==
    /\ phase = "ready"
    /\ \E pair \in DOMAIN cross_edges : Cardinality(cross_edges[pair]) < 2
    /\ UNCHANGED vars

\* Two districts and an ordered choice of two of their crossing edges.
Picked(pair, e1, e2) ==
    /\ phase = "ready"
    /\ e1 \in cross_edges[pair]
    /\ e2 \in cross_edges[pair]
    /\ e1 # e2

\* Failure -4: nothing fits.  The trees are turned back to the noted roots.
no_valid_cuts ==
    \E pair \in DOMAIN cross_edges, e1, e2 \in Edges :
        /\ Picked(pair, e1, e2)
        /\ LET d1 == Min(pair)
               d2 == Max(pair)
               c  == CyclePaths(forest, region_ids, e1, e2)
           IN  /\ ValidCuts(c, d1, d2) = {}
               /\ forest' = Everted(Everted(c.rooted, district_roots[d1]), district_roots[d2])
        /\ UNCHANGED <<district_roots, region_ids, region_pops, cross_edges, phase, proposal>>

\* The update is applied to the plan itself, after a snapshot.
propose ==
    \E pair \in DOMAIN cross_edges, e1, e2 \in Edges :
        /\ Picked(pair, e1, e2)
        /\ LET d1 == Min(pair)
               d2 == Max(pair)
               c  == CyclePaths(forest, region_ids, e1, e2)
               valid == ValidCuts(c, d1, d2)
           IN  \E cuts \in valid :
                   LET plain  == UpdateOf(EdgeAt(c, cuts[1]), EdgeAt(c, cuts[2] + 1),
                                          From(e1, region_ids, d1), From(e2, region_ids, d1))
                       position == LinkPosition(c, plain.links[1][1])
                       update == [cuts |-> plain.cuts, links |-> plain.links,
                                  swap_link11 |-> swap_assignment_check(position, cuts, Len(c.path1),
                                                                        CollapsedWeights(c))]
                       f == Updated(c.rooted, update)
                   IN  IF f = Thrown
                       THEN phase' = "thrown" /\ UNCHANGED <<planVars, proposal>>
                       ELSE /\ apply_update(f, update, d1, d2)
                            /\ phase' = "proposed"
                            /\ proposal' = [update |-> update, d1 |-> d1, d2 |-> d2,
                                            links |-> {{e1[1], e1[2]}, {e2[1], e2[2]}},
                                            chosen |-> CutEdges(c, cuts),
                                            choices |-> {CutEdges(c, p) : p \in valid},
                                            old_forest |-> EdgesOf(forest),
                                            old_roots |-> district_roots,
                                            old_ids |-> region_ids,
                                            old_pops |-> region_pops,
                                            old_edges |-> cross_edges]

\* The random number is below the ratio.
accept ==
    /\ phase = "proposed"
    /\ phase' = "ready"
    /\ proposal' = NoProposal
    /\ UNCHANGED planVars

\* The ratio may be below one, or a hard constraint fails.
reject ==
    /\ phase = "proposed"
    /\ LET f == Undone(forest, proposal.update)
           roots == proposal.old_roots
       IN  IF f = Thrown
           THEN phase' = "thrown" /\ UNCHANGED <<planVars, proposal>>
           ELSE /\ forest' = Everted(Everted(f, roots[proposal.d1]), roots[proposal.d2])
                /\ district_roots' = roots
                /\ region_ids' = proposal.old_ids
                /\ region_pops' = proposal.old_pops
                /\ cross_edges' = proposal.old_edges
                /\ phase' = "ready"
                /\ proposal' = NoProposal

Next == internal_forest_walk \/ too_few_edges \/ no_valid_cuts \/ propose \/ accept \/ reject

Spec == Init /\ [][Next]_vars

(***************************************************************************)
(* Properties                                                              *)
(***************************************************************************)
\* Between and during moves, the tree at a district's root spans exactly the
\* district, along edges of the map: districts are connected, and a root that
\* was not noted in time still lies in its district.  No cut or link on the way is
\* one the link-cut tree throws at, also when a move is undone.
TreesSpanTheDistricts ==
    /\ phase # "thrown"
    /\ \A d \in Regions : Members(region_ids, d) = TreeOf(forest, district_roots[d])
    /\ \A v \in Vertices : forest[v] # NULL => Adjacent(v, forest[v])

\* No accepted move takes a district out of the population bounds of its seats
\* (test-redist_cyclewalk.R, "respects population bounds"), and the populations
\* and crossing edges the next move reads, restored or rebuilt after this one,
\* are those of the plan.
PopulationsInBounds ==
    /\ region_pops = [d \in Regions |-> PopOf(Members(region_ids, d))]
    /\ cross_edges = CrossEdges(region_ids)
    /\ phase = "ready" => \A d \in Regions : InBounds(region_pops[d], d)

\* The ratio replaces the cut taken by the edges linked in the sum over the
\* cuts.  That is the sum the move back would see: it picks the two edges that
\* were cut, which both cross, and the same cycle has the same cuts except for
\* the move itself.
MoveBackSeesTheSameCuts ==
    phase = "proposed" =>
        LET pair  == {proposal.d1, proposal.d2}
            back  == {e \in Edges : {e[1], e[2]} \in proposal.chosen}
        IN  /\ pair \in DOMAIN cross_edges /\ back \subseteq cross_edges[pair]
            /\ Cardinality(back) = 2
            /\ \A e1, e2 \in back :
                   e1 # e2 =>
                       LET c == CyclePaths(forest, region_ids, e1, e2)
                       IN  {CutEdges(c, p) : p \in ValidCuts(c, proposal.d1, proposal.d2)} =
                               (proposal.choices \ {proposal.chosen}) \cup {proposal.links}

\* A rejected move leaves no trace: the trees have the edges they had, although
\* they were cut and linked back one by one.
RejectedMoveIsUndone ==
    [][phase = "proposed" /\ region_ids' = proposal.old_ids => EdgesOf(forest') = proposal.old_forest]_vars
=============================================================================
