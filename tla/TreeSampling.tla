---------------------------- MODULE TreeSampling ----------------------------
(***************************************************************************)
(* USTSampler: drawing a hierarchical spanning tree on a region with       *)
(* Wilson's algorithm, cutting it, and storing the parts in the forest of  *)
(* the plan.  Counties are connected first, by walks on their multigraph   *)
(* that record for every county the latest edge it was left by.  Counties  *)
(* that no cut can go through get any tree and, once the cut is kept, are  *)
(* drawn anew.  Every array is scratch of an earlier draw, reset only in   *)
(* part.  A walk is given up after MaxTries steps.  Real bounds are        *)
(* compared with integer populations: Unit is one person.                  *)
(***************************************************************************)
EXTENDS TreeSplitting

CONSTANTS
    Layouts,             \* the county assignments looked at
    Draws,               \* the regions looked at: their precincts, and their seats
    Earlier,             \* directed trees that the draw before may have left behind
    Unit,
    MaxTries

\* Regions are of precincts, and so is what an earlier draw has left.
ASSUME DrawsAssumption ==
    /\ Layouts \subseteq [Vertices -> Nat]
    /\ \A d \in Draws : d.active \in SUBSET Vertices /\ d.active # {}
    /\ \A earlier \in Earlier : earlier \subseteq Vertices \X Vertices

VARIABLES
    map_counties,        \* never changes
    draw,                \* the region; never changes
    counties,            \* the counties walked on; never changes
    assume_hierarchical, \* never changes
    stage,               \* of the draw
    visited,             \* the precincts in the tree, and those to ignore
    remaining,           \* the number of precincts still to reach
    c_visited,           \* the counties in the tree
    admin_roots,         \* the precinct by which a county was reached
    ust,                 \* directed edges <<parent, child>>
    county_tree,         \* the same between counties
    deterministic,       \* the counties filled in without drawing
    walk,                \* the walk under way, if any
    plan_forest          \* of the plan

fixed == <<map_counties, draw, assume_hierarchical, counties>>
trees == <<visited, remaining, c_visited, admin_roots, ust, county_tree>>
draw_vars == <<fixed, stage, trees, deterministic, walk, plan_forest>>

active == draw.active
root == Min(active)
ignore == Vertices \ active
options == AnyCutOptions(draw.size)
lower == LowerPop * options.min_cut_size
upper == UpperPop * options.max_cut_size

\* Every piece of a county is a county of its own when plans need not be
\* hierarchical; pieces are numbered by their smallest precincts.
build_fake_counties ==
    LET first    == [v \in active |-> Min(Component(v, CountyPart(map_counties, active, map_counties[v]), Edges))]
        number(w) == Cardinality({first[v] : v \in {u \in active : first[u] <= w}})
    IN  [v \in Vertices |-> IF v \in active THEN number(first[v]) ELSE 0]

ActiveCounties == CountiesIn(counties, active)

NumCounties == Cardinality(IF assume_hierarchical THEN CountiesIn(map_counties, Vertices)
                           ELSE ActiveCounties)

CountyPop(c) == PopOf(CountyPart(counties, active, c))

Undirected(T) == {{e[1], e[2]} : e \in T}

\* What hangs below a node along directed edges, the node included.
ReachedFrom(node, T) ==
    LET reached[k \in 0 .. Cardinality(T)] ==
            IF k = 0 THEN {node}
            ELSE LET before == reached[k - 1]
                 IN  before \cup {e[2] : e \in {f \in T : f[1] \in before}}
    IN  reached[Cardinality(T)]

TreeFrom(node, T) == {e \in T : e[1] \in ReachedFrom(node, T)}

----------------------------------------------------------------------------
\* How a walk may leave a node: where to, and the edge of the map it takes,
\* seen from the tree.  Exits that end outside the region do not move it.
AdminExits(c) ==
    {[to |-> counties[p[2]], edge |-> <<p[2], p[1]>>] :
        p \in {q \in active \X active : /\ {q[1], q[2]} \in Edges
                                        /\ counties[q[1]] = c /\ counties[q[2]] # c}}

VertexExits(v) ==
    {[to |-> u, edge |-> <<u, v>>] :
        u \in {w \in active : {v, w} \in Edges /\ map_counties[w] = map_counties[v]}}

\* Whether a draw at a node can hit an edge with an end outside the region.
AdminRejects(c) ==
    /\ assume_hierarchical
    /\ \E e \in Edges : /\ e \cap ignore # {} /\ ~WithinCounty(map_counties, e)
                       /\ c \in CountiesIn(map_counties, e)

VertexRejects(v) == \E u \in ignore : {u, v} \in Edges /\ map_counties[u] = map_counties[v]

NoWalk == [start |-> -1]

WalkFrom(node) == [start |-> node, at |-> node, left_by |-> <<>>, tries |-> 0]

\* A slip of the next definition: the first way out of a node is kept.
KeepFirstExit(w, exit) ==
    [n \in DOMAIN w.left_by \cup {w.at} |-> IF n \in DOMAIN w.left_by THEN w.left_by[n] ELSE exit]

\* The latest exit overwrites the one before: loops are erased as they close.
RecordExit(w, exit) ==
    [n \in DOMAIN w.left_by \cup {w.at} |-> IF n = w.at THEN exit ELSE w.left_by[n]]

\* The nodes from the start of a walk to the tree, by their recorded exits.
Chain(start, left_by, tree) ==
    LET node[k \in 0 .. Cardinality(DOMAIN left_by)] ==
            IF k = 0 THEN start
            ELSE LET n == node[k - 1] IN IF n \in tree THEN n ELSE left_by[n].to
    IN  {node[k] : k \in DOMAIN node} \ tree

----------------------------------------------------------------------------
\* prep_fresh_ust_call and the choice of the root.  Only what belongs to the
\* region and its counties is cleared.
DrawInit ==
    /\ map_counties \in Layouts
    /\ draw \in Draws
    /\ assume_hierarchical \in BOOLEAN
    /\ assume_hierarchical => \A c \in CountiesIn(map_counties, active) :
                                  Connected(CountyPart(map_counties, active, c), Edges)
    /\ counties = IF assume_hierarchical THEN map_counties ELSE build_fake_counties
    /\ \E earlier \in Earlier :
              /\ ust = {e \in earlier : e[1] \notin active}
              /\ county_tree = {<<counties[e[1]], counties[e[2]]>> :
                                   e \in {f \in earlier : /\ counties[f[1]] # counties[f[2]]
                                                          /\ counties[f[1]] \notin ActiveCounties}}
              /\ admin_roots = [c \in CountiesIn(counties, Vertices) |->
                                   IF c = counties[root] THEN root
                                   ELSE Min(CountyPart(counties, Vertices, c))]
              /\ visited = ignore \cup {root}
              /\ c_visited = {counties[root]} \cup (CountiesIn(counties, Vertices) \ ActiveCounties)
              /\ plan_forest =
                    IF assume_hierarchical
                    THEN {e \in Undirected(earlier) : e \subseteq active \/ e \cap active = {}}
                    ELSE {}
    /\ remaining = Cardinality(active) - 1
    /\ deterministic = {}
    /\ walk = NoWalk
    /\ stage = "connect"

GiveUp == walk.tries = MaxTries

\* A slip of the next definition: only steps to a node not seen before count.
CountNewNodes(w, exit) == w.tries + (IF exit.to \in DOMAIN w.left_by THEN 0 ELSE 1)

\* Every step counts, those that close a loop too.
TriesAfter(w, exit) == w.tries + 1

\* A step of a walk that does not reach the tree yet, or goes nowhere.
Wander(exits, rejects, tree) ==
    /\ walk # NoWalk /\ ~GiveUp
    /\ \/ rejects /\ walk' = [walk EXCEPT !.tries = @ + 1]
       \/ \E exit \in exits :
             /\ exit.to \notin tree
             /\ walk' = [walk EXCEPT !.tries = TriesAfter(walk, exit), !.at = exit.to,
                                     !.left_by = RecordExit(walk, exit)]
    /\ UNCHANGED <<fixed, stage, trees, deterministic, plan_forest>>

StartCountyWalk ==
    /\ stage = "connect" /\ walk = NoWalk /\ ActiveCounties \ c_visited # {}
    /\ walk' = WalkFrom(Min(ActiveCounties \ c_visited))
    /\ UNCHANGED <<fixed, stage, trees, deterministic, plan_forest>>

CountyWalk ==
    /\ stage = "connect" /\ walk # NoWalk
    /\ Wander(AdminExits(walk.at), AdminRejects(walk.at), c_visited)

\* add_walk_from_admin has hit the tree: counties and precincts join.
add_walk_from_admin ==
    /\ stage = "connect" /\ walk # NoWalk /\ ~GiveUp
    /\ \E exit \in AdminExits(walk.at) :
          /\ exit.to \in c_visited
          /\ LET left_by == RecordExit(walk, exit)
                 chain   == Chain(walk.start, left_by, c_visited)
                 reached(c) == left_by[c].edge[2]
             IN  /\ ust' = ust \cup {left_by[c].edge : c \in chain}
                 /\ county_tree' = county_tree \cup {<<left_by[c].to, c>> : c \in chain}
                 /\ admin_roots' = [c \in DOMAIN admin_roots |->
                                       IF c \in chain THEN reached(c) ELSE admin_roots[c]]
                 /\ c_visited' = c_visited \cup chain
                 /\ visited' = visited \cup {reached(c) : c \in chain}
                 /\ remaining' = remaining - Cardinality(chain)
    /\ walk' = NoWalk
    /\ UNCHANGED <<fixed, stage, deterministic, plan_forest>>

----------------------------------------------------------------------------
cty_pop_below(c) == MapThenSumSet(CountyPop, ReachedFrom(c, county_tree))

ToInt(bound) == (bound \div Unit) * Unit

\* A slip of the next definition: the counties that hang on c are left out.
LowestWithoutChildren(c) ==
    IF lower - Unit < CountyPop(c) THEN ToInt(lower) ELSE cty_pop_below(c) - CountyPop(c)

\* The least population that a valid cut in county c could put below it.
SplitLowerBound(c) ==
    LET own == IF lower - Unit < CountyPop(c) THEN ToInt(lower)
               ELSE cty_pop_below(c) - CountyPop(c)
    IN  Min({own} \cup {cty_pop_below(e[2]) : e \in {f \in county_tree : f[1] = c}})

\* Neither side of a cut in county c can have a population in the bounds.
Unsplittable(c) ==
    LET split_ub == cty_pop_below(c)
        split_lb == SplitLowerBound(c)
        total    == PopOf(active)
    IN  /\ split_ub < lower \/ split_lb > upper
        /\ total - split_lb < lower \/ total - split_ub > upper

\* Some directed tree on S from its root: a search finds one.
SomeTree(S, from) ==
    LET T == CHOOSE U \in SpanningTrees(S) : TRUE
    IN  {p \in S \X (S \ {from}) : {p[1], p[2]} \in T /\ p[1] \in Component(from, S \ {p[2]}, T)}

\* All counties are connected.  Those that cannot be split are filled in.
SkipUnsplittableTrees ==
    /\ stage = "connect" /\ walk = NoWalk /\ ActiveCounties \subseteq c_visited
    /\ LET skipped == IF NumCounties = 1 THEN {} ELSE {c \in ActiveCounties : Unsplittable(c)}
           part(c) == CountyPart(counties, active, c)
           filled  == (UNION {part(c) : c \in skipped}) \ visited
       IN  /\ ust' = ust \cup UNION {SomeTree(part(c), admin_roots[c]) : c \in skipped}
           /\ visited' = visited \cup filled
           /\ remaining' = remaining - Cardinality(filled)
           /\ deterministic' = {c \in skipped : Cardinality(part(c)) > 1}
    /\ stage' = "draw"
    /\ UNCHANGED <<fixed, c_visited, admin_roots, county_tree, walk, plan_forest>>

StartVertexWalk ==
    /\ stage = "draw" /\ walk = NoWalk /\ remaining > 0
    /\ walk' = WalkFrom(Min(Vertices \ visited))
    /\ UNCHANGED <<fixed, stage, trees, deterministic, plan_forest>>

VertexWalk ==
    /\ stage \in {"draw", "fill"} /\ walk # NoWalk
    /\ Wander(VertexExits(walk.at), VertexRejects(walk.at), visited)

add_walk_from ==
    /\ stage \in {"draw", "fill"} /\ walk # NoWalk /\ ~GiveUp
    /\ \E exit \in VertexExits(walk.at) :
          /\ exit.to \in visited
          /\ LET left_by == RecordExit(walk, exit)
                 chain   == Chain(walk.start, left_by, visited)
             IN  /\ ust' = ust \cup {left_by[v].edge : v \in chain}
                 /\ visited' = visited \cup chain
                 /\ remaining' = remaining - Cardinality(chain)
    /\ walk' = NoWalk
    /\ UNCHANGED <<fixed, stage, c_visited, admin_roots, county_tree, deterministic, plan_forest>>

\* Too many steps: the draw has failed, or while filling in, the run throws.
WalkFails ==
    /\ walk # NoWalk /\ GiveUp
    /\ stage' = IF stage = "fill" THEN "threw" ELSE "failed"
    /\ walk' = NoWalk
    /\ UNCHANGED <<fixed, trees, deterministic, plan_forest>>

----------------------------------------------------------------------------
TreeDrawn == stage = "draw" /\ walk = NoWalk /\ remaining = 0

DrawnCuts ==
    get_all_valid_edges_in_directed_tree(
        Undirected(TreeFrom(root, ust)), root, [v \in Vertices |-> 0],
        [pop |-> PopOf(active), size |-> draw.size], options)

\* No cut, or a split that a hard constraint or the ratio turns down.
Reject ==
    /\ TreeDrawn
    /\ stage' = "failed"
    /\ UNCHANGED <<fixed, trees, deterministic, walk, plan_forest>>

\* The edge is erased and the two trees are stored, if the plan has a forest.
update_from_successful_split ==
    /\ TreeDrawn
    /\ \E cut \in DrawnCuts :
          LET parts == ust \ {<<cut.parent, cut.vertex>>}
              stored == TreeFrom(root, parts) \cup TreeFrom(cut.vertex, parts)
          IN  /\ ust' = parts
              /\ plan_forest' =
                    IF assume_hierarchical
                    THEN {e \in plan_forest : e \cap active = {}} \cup Undirected(stored)
                    ELSE {}
    /\ stage' = IF assume_hierarchical THEN "clear" ELSE "done"
    /\ UNCHANGED <<fixed, visited, remaining, c_visited, admin_roots, county_tree, deterministic, walk>>

\* fill_in_skipped_subtrees, one county after the other.
filling == Min(deterministic)

\* A slip of the next definition: the edges of the old tree stay in the forest.
KeepOldEdges(old) == plan_forest

ClearEdges(old) == plan_forest \ Undirected(old)

ClearCounty ==
    /\ stage = "clear" /\ deterministic # {}
    /\ LET within == {e \in ust : map_counties[e[2]] = filling}
           old    == TreeFrom(admin_roots[filling], within)
           inside == ReachedFrom(admin_roots[filling], within)
       IN  /\ plan_forest' = ClearEdges(old)
           /\ ust' = {e \in ust : e[1] \notin inside}
           /\ visited' = visited \ {e[2] : e \in old}
           /\ remaining' = Cardinality(old)
    /\ stage' = "fill"
    /\ UNCHANGED <<fixed, c_visited, admin_roots, county_tree, deterministic, walk>>

StartFillingWalk ==
    /\ stage = "fill" /\ walk = NoWalk /\ remaining > 0
    /\ walk' = WalkFrom(Min(CountyPart(map_counties, Vertices, filling) \ visited))
    /\ UNCHANGED <<fixed, stage, trees, deterministic, plan_forest>>

PackCounty ==
    /\ stage = "fill" /\ walk = NoWalk /\ remaining = 0
    /\ plan_forest' = plan_forest \cup
          Undirected(TreeFrom(admin_roots[filling], {e \in ust : map_counties[e[2]] = filling}))
    /\ deterministic' = deterministic \ {filling}
    /\ stage' = "clear"
    /\ UNCHANGED <<fixed, trees, walk>>

Filled ==
    /\ stage = "clear" /\ deterministic = {}
    /\ stage' = "done"
    /\ UNCHANGED <<fixed, trees, deterministic, walk, plan_forest>>

DrawNext ==
    \/ StartCountyWalk \/ CountyWalk \/ add_walk_from_admin
    \/ SkipUnsplittableTrees
    \/ StartVertexWalk \/ VertexWalk \/ add_walk_from \/ WalkFails
    \/ Reject \/ update_from_successful_split
    \/ ClearCounty \/ StartFillingWalk \/ PackCounty \/ Filled

DrawSpec == DrawInit /\ [][DrawNext]_draw_vars /\ WF_draw_vars(DrawNext)

----------------------------------------------------------------------------
(***************************************************************************)
(* Properties.                                                             *)
(***************************************************************************)

\* When the draw succeeds, what hangs below the root is a spanning tree of the
\* region, in one piece inside every county, or piece of one: whatever the
\* walks looked like and whatever the scratch still held.
DrawnTreeIsHierarchical ==
    TreeDrawn => /\ ReachedFrom(root, ust) = active
                 /\ Undirected(TreeFrom(root, ust)) \in HierarchicalTrees(counties, active)

\* A county is only skipped when no tree on it would have been worth drawing:
\* however it is filled in later, no edge inside it has populations for a cut,
\* so the probability of the cut that was made stays right.
SkippedCountiesHoldNoCut ==
    TreeDrawn => \A c \in deterministic :
        LET part == CountyPart(counties, active, c)
            rest == {e \in Undirected(TreeFrom(root, ust)) : ~(e \subseteq part)}
        IN  \A U \in SpanningTrees(part) : \A e \in U : \A s \in 1 .. draw.size - 1 :
              LET below == Component(Min(e), active, (rest \cup U) \ {e})
              IN  ~(Fits(PopOf(below), s) /\ Fits(PopOf(active \ below), draw.size - s))

\* Once a split is kept and filled in, the forest holds a hierarchical tree on
\* both parts, none of its edges leaves the region, and the trees of the other
\* regions are as they were.
ForestIsOfTheParts ==
    stage = "done" /\ assume_hierarchical =>
        /\ \E e \in Inside(active, Edges) \ plan_forest :
              Inside(active, plan_forest) \cup {e} \in HierarchicalTrees(map_counties, active)
        /\ \A e \in plan_forest : e \subseteq active \/ e \cap active = {}
        /\ \E earlier \in Earlier :
              {e \in plan_forest : e \cap active = {}} = {e \in Undirected(earlier) : e \cap active = {}}

\* A draw comes to an end, in a tree or in failure: walks are given up, and the
\* counters that end the loops agree with what is left to reach.
DrawEnds == <>(stage \in {"done", "failed", "threw"})
=============================================================================
