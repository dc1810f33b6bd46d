----------------------- MODULE MergeSplitMovesProofs ------------------------
(***************************************************************************)
(* Proofs about MergeSplitMoves, for every map, every layout of counties   *)
(* and every way to draw the trees.  The multigraph that the kernel keeps  *)
(* between proposals is the one it would build from the plan, and a plan   *)
(* that a proposal leaves can be returned to by the next one.              *)
(* Counting the splits of counties tells the hierarchical plans, and the   *)
(* filters of the pairs keep those that can be merged.                     *)
(***************************************************************************)
EXTENDS MergeSplitMoves, FiniteStructures

\* The map is finite, and every adjacency has two ends.
LEMMA GraphFacts ==
    /\ IsFiniteSet(Vertices) /\ \A S \in SUBSET Vertices : IsFiniteSet(S)
    /\ IsFiniteSet(Edges) /\ \A E \in SUBSET Edges : IsFiniteSet(E) /\ Links(E)
    /\ \A e \in Edges : \E u, v \in Vertices : u # v /\ e = {u, v}
  <1>1. IsFiniteSet(Vertices) /\ \A S \in SUBSET Vertices : IsFiniteSet(S)
    BY MapAssumption, FS_Subset
  <1>2. IsFiniteSet(Edges) /\ \A e \in Edges : \E u, v \in Vertices : u # v /\ e = {u, v}
    <2>1. \A e \in Edges : e \subseteq Vertices /\ Cardinality(e) = 2
      BY MapAssumption
    <2> QED  BY <1>1, <2>1, EdgesHaveEnds
  <1>3. \A E \in SUBSET Edges : IsFiniteSet(E) /\ Links(E)
    BY <1>2, FS_Subset DEF Links
  <1> QED  BY <1>1, <1>2, <1>3

\* A hierarchical tree of the map, by what makes it so.
LEMMA HierarchicalTreesAre ==
    ASSUME NEW S \in SUBSET Vertices, S # {}, NEW T, NEW c
    PROVE  /\ T \in HierarchicalTrees(c, S) <=> (T \in SUBSET Edges /\ IsHierarchicalTree(c, S, T))
           /\ IsHierarchicalTree(c, S, T) <=> (IsTree(S, T) /\ \A v \in S : Connected(CountyPart(c, S, c[v]), T))
  <1>1. T \in SpanningTrees(S) <=> T \in SUBSET Edges /\ IsTree(S, T)
    BY GraphFacts, FewestToConnect DEF SpanningTrees
  <1> QED  BY <1>1 DEF HierarchicalTrees, Hierarchical, CountiesIn, IsHierarchicalTree

\* There is no hierarchical tree on no precinct.
LEMMA NoTreeOnNothing == \A c : HierarchicalTrees(c, {}) = {}
  <1>1. \A T \in SUBSET Edges : Cardinality(T) \in Nat
    BY GraphFacts, FS_CardinalityType
  <1>2. Cardinality({}) - 1 \notin Nat
    BY FS_EmptySet
  <1>3. kSubset(Cardinality({}) - 1, Inside({}, Edges)) = {}
    BY <1>1, <1>2 DEF kSubset, Inside
  <1> QED  BY <1>3 DEF HierarchicalTrees, SpanningTrees

\* A hierarchical tree of the map, cut at one of its edges.
LEMMA HierarchicalCut ==
    ASSUME NEW c, NEW S \in SUBSET Vertices, NEW T \in HierarchicalTrees(c, S), NEW x, NEW y, {x, y} \in T, x # y
    PROVE  /\ S # {} /\ T \in SUBSET Edges /\ IsTree(S, T)
           /\ CutInTwo(S, T, x, y, SideOf(S, T, x, y), SideOf(S, T, y, x))
           /\ \A A \in {SideOf(S, T, x, y), SideOf(S, T, y, x)} :
                 A \in SUBSET S /\ Inside(A, T) \in HierarchicalTrees(c, A)
  <1>1. S # {}
    BY NoTreeOnNothing
  <1>2. T \in SUBSET Edges /\ IsHierarchicalTree(c, S, T) /\ IsTree(S, T)
    BY <1>1, HierarchicalTreesAre
  <1>3. /\ CutInTwo(S, T, x, y, SideOf(S, T, x, y), SideOf(S, T, y, x))
        /\ \A A \in {SideOf(S, T, x, y), SideOf(S, T, y, x)} :
              A # {} /\ A \in SUBSET S /\ IsHierarchicalTree(c, A, Inside(A, T))
    BY <1>2, HierarchicalTreeCut
  <1>4. ASSUME NEW A, A # {}, A \in SUBSET S, IsHierarchicalTree(c, A, Inside(A, T))
        PROVE  Inside(A, T) \in HierarchicalTrees(c, A)
    <2>1. Inside(A, T) \in SUBSET Edges /\ A \in SUBSET Vertices
      BY <1>2, <1>4 DEF Inside
    <2> QED  BY <1>4, <2>1, HierarchicalTreesAre
  <1> QED  BY <1>1, <1>2, <1>3, <1>4

\* The multigraph kept is that of the plan.
CurrentIsOfThePlan ==
    /\ region_ids \in [Vertices -> 0 .. num_regions - 1]
    /\ current = attempt_to_get_valid_mergesplit_pairs(
                    build_plan_multigraph(county, region_ids, num_regions))

\* Regions have precincts and are in one piece.
RegionsAreConnected ==
    \A r \in 0 .. num_regions - 1 : Region(region_ids, r) # {} /\ Connected(Region(region_ids, r), Edges)

MovesInv ==
    /\ county \in CountyLayouts
    /\ num_regions \in 2 .. MaxRegions
    /\ CurrentIsOfThePlan
    /\ RegionsAreConnected
    /\ running => current.ok

\* A pair that is hashed is adjacent.
LEMMA PairsAreAdjacent ==
    ASSUME NEW ids, NEW n, NEW by_county
    PROVE  DOMAIN PairTable(county, ids, n, by_county) = {q \in PairsOf(n) : CrossEdges(ids, q) # {}}
  BY DEF PairTable

\* The table of pairs with and without counties.
LEMMA BuiltPairs ==
    ASSUME NEW ids, NEW n
    PROVE  LET built == build_plan_multigraph(county, ids, n)
           IN  built.ok => DOMAIN built.pair_map = {q \in PairsOf(n) : CrossEdges(ids, q) # {}}
  <1>1. CASE ~counties_on(county)
    BY <1>1, PairsAreAdjacent DEF build_plan_multigraph, build_plan_non_hierarchical_multigraph
  <1>2. CASE counties_on(county)
    BY <1>2, PairsAreAdjacent
       DEF build_plan_multigraph, build_plan_hierarchical_multigraph, NotBuilt
  <1> QED  BY <1>1, <1>2


\* An edge crosses from one of two regions to the other.
LEMMA CrossingEdge ==
    ASSUME NEW ids, NEW p, NEW e \in CrossEdges(ids, p)
    PROVE  /\ e \in Edges /\ \A v \in e : v \in Vertices
           /\ \A r \in {p[1], p[2]} : \E v \in e : ids[v] = r
  <1>1. e \in Edges /\ RegionsOf(ids, e) = {p[1], p[2]}
    BY DEF CrossEdges
  <1> QED  BY <1>1, GraphFacts DEF RegionsOf

\* What the table holds of a pair that shares a county.
LEMMA SharedCounty ==
    ASSUME NEW ids, NEW p, CountedPair(county, ids, p, TRUE).admin_adjacent
    PROVE  \A r \in {p[1], p[2]} : \E v \in Vertices :
              ids[v] = r /\ county[v] = CountedPair(county, ids, p, TRUE).shared_county
  <1> DEFINE within == {e \in CrossEdges(ids, p) : WithinCounty(county, e)}
             c == CHOOSE c \in CountiesIn(county, UNION within) : TRUE
  <1>1. within # {} /\ CountedPair(county, ids, p, TRUE).shared_county = c
    BY DEF CountedPair, NoPairData
  <1>2. c \in CountiesIn(county, UNION within)
    <2>1. PICK e \in within : TRUE
      BY <1>1
    <2>2. PICK v \in e : TRUE
      BY <2>1, GraphFacts, CrossingEdge
    <2>3. county[v] \in CountiesIn(county, UNION within)
      BY <2>1, <2>2 DEF CountiesIn
    <2> QED  BY <2>3
  <1>3. PICK e \in within : \E v \in e : county[v] = c
    BY <1>2 DEF CountiesIn
  <1>4. \A v \in e : county[v] = c
    BY <1>3 DEF WithinCounty
  <1>5. \A r \in {p[1], p[2]} : \E v \in e : v \in Vertices /\ ids[v] = r
    BY CrossingEdge
  <1> QED  BY <1>1, <1>4, <1>5

\* The hierarchical multigraph has of each pair what was counted.
LEMMA BuiltIsCounted ==
    ASSUME NEW ids, NEW n, counties_on(county), NEW built, built = build_plan_multigraph(county, ids, n),
           built.ok, NEW p \in DOMAIN built.pair_map
    PROVE  /\ built.pair_map[p].admin_adjacent = CountedPair(county, ids, p, TRUE).admin_adjacent
           /\ built.pair_map[p].shared_county = CountedPair(county, ids, p, TRUE).shared_county
  <1> DEFINE explored == Explored(county, ids)
             cids     == ComponentIds(explored)
             comp(r)  == cids[CHOOSE S \in explored : r \in RegionsIn(ids, S)]
             counted  == PairTable(county, ids, n, TRUE)
             value(q) == [counted[q] EXCEPT
                            !.same_admin_component = @ \/ comp(q[1]) = comp(q[2]),
                            !.merge_is_hier_valid =
                                MergeIsHierValid(comp(q[1]) = comp(q[2]), counted[q].admin_adjacent)]
  <1>1. built.pair_map = [q \in DOMAIN counted |-> value(q)]
    BY DEF build_plan_multigraph, build_plan_hierarchical_multigraph, NotBuilt
  <1>2. p \in DOMAIN counted /\ built.pair_map[p] = value(p)
    BY <1>1
  <1>3. counted[p] = CountedPair(county, ids, p, TRUE)
    BY <1>2 DEF PairTable
  <1> HIDE DEF counted, comp
  <1>5. built.pair_map[p] = [CountedPair(county, ids, p, TRUE) EXCEPT
                !.same_admin_component = CountedPair(county, ids, p, TRUE).same_admin_component
                                            \/ comp(p[1]) = comp(p[2]),
                !.merge_is_hier_valid = MergeIsHierValid(comp(p[1]) = comp(p[2]), counted[p].admin_adjacent)]
    BY <1>2, <1>3
  <1> HIDE DEF value
  <1> QED  BY <1>5 DEF CountedPair, NoPairData

\* The regions of a pair merged, and split along a tree T at the edge from x to y.
Merged(pair) == Region(region_ids, pair[1]) \cup Region(region_ids, pair[2])

SplitAlong(T, x, y, pair) ==
    [v \in Vertices |-> IF v \in SideOf(Merged(pair), T, x, y) THEN pair[1]
                        ELSE IF v \in Merged(pair) THEN pair[2] ELSE region_ids[v]]

\* What a resplit does to a plan.
LEMMA ResplitIs ==
    ASSUME MovesInv, NEW pair \in PairsOf(num_regions), NEW new_ids \in Resplit(pair)
    PROVE  \E T \in HierarchicalTrees(county, Merged(pair)) : \E x, y :
              {x, y} \in T /\ x # y /\ new_ids = SplitAlong(T, x, y, pair)
  <1> DEFINE S == Merged(pair)
             cut(T, e) == Component(Min(e), S, T \ {e})
             halvesOf(T) == UNION {{cut(T, e), S \ cut(T, e)} : e \in T}
             New(half) == [v \in Vertices |-> IF v \in half THEN pair[1]
                             ELSE IF v \in S THEN pair[2] ELSE region_ids[v]]
  <1>1. S \in SUBSET Vertices
    BY DEF Region, Merged
  <1>2. HierarchicalTreesOn[county][S] = HierarchicalTrees(county, S)
    BY <1>1 DEF HierarchicalTreesOn, MovesInv
  <1>3. PICK half \in UNION {halvesOf(T) : T \in HierarchicalTrees(county, S)} : new_ids = New(half)
    BY <1>2 DEF Resplit, Merged
  <1>4. PICK T \in HierarchicalTrees(county, S) : \E e \in T : half \in {cut(T, e), S \ cut(T, e)}
    BY <1>3
  <1>40. PICK e \in T : half \in {cut(T, e), S \ cut(T, e)}
    BY <1>4
  <1> HIDE DEF S
  <1>5. S # {} /\ T \in SUBSET Edges
    BY <1>1, NoTreeOnNothing, HierarchicalTreesAre
  <1>6. PICK a, b \in Vertices : a # b /\ e = {a, b}
    BY <1>5, GraphFacts
  <1>7. Min(e) \in e
    BY <1>6, LeastIs, MapAssumption
  <1>8. PICK x \in e : x # Min(e) /\ e = {Min(e), x}
    BY <1>6, <1>7
  <1> DEFINE m == Min(e)
  <1>9. cut(T, e) = SideOf(S, T, m, x) /\ S \ cut(T, e) = SideOf(S, T, x, m)
    <2>1. CutInTwo(S, T, m, x, SideOf(S, T, m, x), SideOf(S, T, x, m))
      BY <1>1, <1>8, HierarchicalCut
    <2> QED  BY <1>8, <2>1 DEF CutInTwo, SideOf
  <1>10. {x, m} \in T /\ {m, x} \in T /\ x # m
    BY <1>8
  <1> HIDE DEF m
  <1>11. new_ids = New(SideOf(S, T, m, x)) \/ new_ids = New(SideOf(S, T, x, m))
    BY <1>3, <1>40, <1>9
  <1>12. new_ids = SplitAlong(T, m, x, pair) \/ new_ids = SplitAlong(T, x, m, pair)
    BY <1>11 DEF S, SplitAlong
  <1> QED  BY <1>10, <1>12 DEF S


\* What is known of a plan split along the edge of a tree from x to y.
IsSplitAlong(T, x, y, pair, ids) ==
    /\ Merged(pair) \in SUBSET Vertices /\ T \in SUBSET Edges
    /\ Sides(Merged(pair), T, {x, y}, x, y,
             SideOf(Merged(pair), T, x, y), SideOf(Merged(pair), T, y, x))
    /\ Region(ids, pair[1]) = SideOf(Merged(pair), T, x, y)
    /\ Region(ids, pair[2]) = SideOf(Merged(pair), T, y, x)
    /\ \A r \in 0 .. num_regions - 1 : r \notin {pair[1], pair[2]} =>
           Region(ids, r) = Region(region_ids, r)
    /\ \A r \in {pair[1], pair[2]} : Region(ids, r) # {} /\ Connected(Region(ids, r), Edges)
    /\ ids \in [Vertices -> 0 .. num_regions - 1]

\* The plan after a resplit.
LEMMA SplitAlongIs ==
    ASSUME MovesInv, NEW pair \in PairsOf(num_regions), NEW T \in HierarchicalTrees(county, Merged(pair)),
           NEW x, NEW y, {x, y} \in T, x # y, NEW ids, ids = SplitAlong(T, x, y, pair)
    PROVE  IsSplitAlong(T, x, y, pair, ids)
  <1> DEFINE S == Merged(pair)
             A == SideOf(S, T, x, y)
             B == SideOf(S, T, y, x)
  <1>1. S \in SUBSET Vertices
    BY DEF Region, Merged
  <1>2. T \in SUBSET Edges /\ CutInTwo(S, T, x, y, A, B)
    <2>1. T \in HierarchicalTrees(county, S) /\ A = SideOf(S, T, x, y) /\ B = SideOf(S, T, y, x)
      OBVIOUS
    <2> HIDE DEF S, A, B
    <2>2. T \in SUBSET Edges /\ CutInTwo(S, T, x, y, SideOf(S, T, x, y), SideOf(S, T, y, x))
      BY <1>1, <2>1, HierarchicalCut
    <2> QED  BY <2>1, <2>2
  <1>3. pair[1] \in 0 .. num_regions - 1 /\ pair[2] \in 0 .. num_regions - 1 /\ pair[1] # pair[2]
    BY DEF PairsOf, MovesInv
  <1>4. region_ids \in [Vertices -> 0 .. num_regions - 1]
    BY DEF MovesInv, CurrentIsOfThePlan
  <1>5. /\ A \in SUBSET S /\ B = S \ A /\ x \in A /\ y \in B
        /\ IsTree(A, Inside(A, T)) /\ IsTree(B, Inside(B, T)) /\ Sides(S, T, {x, y}, x, y, A, B)
    BY <1>2 DEF CutInTwo, Sides
  <1>6. S = {v \in Vertices : region_ids[v] \in {pair[1], pair[2]}}
    BY DEF Merged, Region
  <1>7. ids = [v \in Vertices |-> IF v \in A THEN pair[1] ELSE IF v \in S THEN pair[2] ELSE region_ids[v]]
    BY DEF SplitAlong
  <1> HIDE DEF S, A, B
  <1>8. ids \in [Vertices -> 0 .. num_regions - 1]
    BY <1>3, <1>4, <1>7
  <1>9. Region(ids, pair[1]) = A /\ Region(ids, pair[2]) = B
    BY <1>1, <1>3, <1>4, <1>5, <1>6, <1>7 DEF Region
  <1>10. \A r \in 0 .. num_regions - 1 : r \notin {pair[1], pair[2]} => Region(ids, r) = Region(region_ids, r)
    BY <1>1, <1>3, <1>4, <1>5, <1>6, <1>7 DEF Region
  <1>11. ASSUME NEW D \in {A, B}
         PROVE  D # {} /\ Connected(D, Edges)
    <2>1. IsTree(D, Inside(D, T)) /\ IsFiniteSet(D) /\ Connected(D, Inside(D, T)) /\ D # {}
      BY <1>5 DEF IsTree
    <2>2. Inside(D, Inside(D, T)) \subseteq Edges
      BY <1>2 DEF Inside
    <2> QED  BY <2>1, <2>2, ConnectedMore
  <1>12. \A r \in {pair[1], pair[2]} : Region(ids, r) # {} /\ Connected(Region(ids, r), Edges)
    BY <1>9, <1>11
  <1> QED  BY <1>1, <1>2, <1>5, <1>8, <1>9, <1>10, <1>12 DEF S, A, B, IsSplitAlong

\* When the cut edge joins two counties no county has a part on either side, so
\* that the pair is adjacent in the multigraph whichever of its edges are counted.
LEMMA NoSharedCounty ==
    ASSUME NEW S \in SUBSET Vertices, NEW T \in HierarchicalTrees(county, S),
           NEW x, NEW y, NEW A, NEW B, Sides(S, T, {x, y}, x, y, A, B), county[x] # county[y],
           NEW v \in A, NEW u \in B
    PROVE  county[v] # county[u]
  <1> SUFFICES ASSUME county[v] = county[u]
               PROVE  FALSE
    OBVIOUS
  <1> DEFINE P == CountyPart(county, S, county[v])
  <1>1. v \in S /\ u \in S /\ v \in P /\ u \in P /\ P \in SUBSET S /\ u \notin A
    BY DEF Sides, CountyPart
  <1>2. IsFiniteSet(P) /\ Connected(P, T)
    <2>1. P \in SUBSET Vertices /\ S # {}
      BY <1>1
    <2> QED  BY <1>1, <2>1, GraphFacts, HierarchicalTreesAre
  <1>3. \A e \in Inside(P, T) : e # {x, y}
    BY DEF Inside, CountyPart
  <1>4. Closed(P \cap A, P, T)
    BY <1>1, <1>3 DEF Closed, Inside, Sides
  <1> QED  BY <1>1, <1>2, <1>4, ConnectedIsClosed

\* The pair that was merged and split is kept by the multigraph of the proposal.
LEMMA PairIsKept ==
    ASSUME MovesInv, NEW pair \in PairsOf(num_regions), NEW ids \in Resplit(pair), NEW built,
           built = attempt_to_get_valid_mergesplit_pairs(build_plan_multigraph(county, ids, num_regions)),
           built.ok
    PROVE  pair \in Pairs(built)
  <1> DEFINE m == build_plan_multigraph(county, ids, num_regions)
  <1>1. PICK T \in HierarchicalTrees(county, Merged(pair)) : \E x, y :
           {x, y} \in T /\ x # y /\ ids = SplitAlong(T, x, y, pair)
    BY ResplitIs
  <1>2. PICK x, y : {x, y} \in T /\ x # y /\ ids = SplitAlong(T, x, y, pair)
    BY <1>1
  <1> DEFINE S == Merged(pair)
             A == Region(ids, pair[1])
             B == Region(ids, pair[2])
  <1>3. S \in SUBSET Vertices /\ T \in SUBSET Edges /\ Sides(S, T, {x, y}, x, y, A, B)
    <2>1. /\ S \in SUBSET Vertices /\ T \in SUBSET Edges
          /\ Sides(S, T, {x, y}, x, y, SideOf(S, T, x, y), SideOf(S, T, y, x))
          /\ A = SideOf(S, T, x, y) /\ B = SideOf(S, T, y, x)
      <3>1. {x, y} \in T /\ x # y /\ ids = SplitAlong(T, x, y, pair)
        BY <1>2
      <3>2. IsSplitAlong(T, x, y, pair, ids)
        BY <3>1, SplitAlongIs
      <3> QED  BY <3>2 DEF IsSplitAlong
    <2> HIDE DEF S, A, B
    <2> QED  BY <2>1
  <1>4. {x, y} \in CrossEdges(ids, pair)
    <2>1. ids[x] = pair[1] /\ ids[y] = pair[2]
      BY <1>3 DEF Sides, Region
    <2> QED  BY <1>2, <1>3, <2>1 DEF CrossEdges, RegionsOf
  <1>5. m.ok
    <2>1. built.ok => m.ok
      BY DEF attempt_to_get_valid_mergesplit_pairs
    <2> QED  BY <2>1
  <1>6. pair \in DOMAIN m.pair_map
    BY <1>4, <1>5, BuiltPairs
  <1>7. CASE ~counties_on(county)
    <2>1. built = m
      BY <1>5, <1>7 DEF attempt_to_get_valid_mergesplit_pairs, remove_invalid_mergesplit_pairs
    <2> QED  BY <1>6, <2>1 DEF Pairs
  <1>8. CASE counties_on(county)
    <2> DEFINE overlap(r) == {m.pair_map[p].shared_county :
                                 p \in {q \in DOMAIN m.pair_map :
                                           r \in {q[1], q[2]} /\ m.pair_map[q].admin_adjacent}}
               invalid(p) == /\ m.county_component[p[1]] = m.county_component[p[2]]
                             /\ ~m.pair_map[p].admin_adjacent
                             /\ overlap(p[1]) \cap overlap(p[2]) # {}
    <2>1. built = [m EXCEPT !.pair_map = Restrict(@, {p \in DOMAIN @ : ~invalid(p)})]
      BY <1>5, <1>8 DEF attempt_to_get_valid_mergesplit_pairs, remove_invalid_mergesplit_pairs, RemovePairs
    <2>2. \A q \in DOMAIN m.pair_map :
             /\ m.pair_map[q].admin_adjacent = CountedPair(county, ids, q, TRUE).admin_adjacent
             /\ m.pair_map[q].shared_county = CountedPair(county, ids, q, TRUE).shared_county
      BY <1>5, <1>8, BuiltIsCounted
    <2>3. \A r : \A c \in overlap(r) : \E v \in Region(ids, r) : county[v] = c
      <3> TAKE r
      <3> TAKE c \in overlap(r)
      <3>1. PICK q \in DOMAIN m.pair_map : /\ r \in {q[1], q[2]} /\ m.pair_map[q].admin_adjacent
                                           /\ c = m.pair_map[q].shared_county
        OBVIOUS
      <3>2. CountedPair(county, ids, q, TRUE).admin_adjacent
            /\ c = CountedPair(county, ids, q, TRUE).shared_county
        BY <2>2, <3>1
      <3> HIDE DEF m, overlap
      <3>3. \E v \in Vertices : ids[v] = r /\ county[v] = CountedPair(county, ids, q, TRUE).shared_county
        BY <3>1, <3>2, SharedCounty
      <3> QED  BY <3>2, <3>3 DEF Region
    <2> HIDE DEF overlap, m
    <2>4. ~invalid(pair)
      <3> SUFFICES ASSUME ~m.pair_map[pair].admin_adjacent, NEW c \in overlap(pair[1]), c \in overlap(pair[2])
                   PROVE  FALSE
        OBVIOUS
      <3>1. PICK v \in A : county[v] = c
        BY <2>3
      <3>2. PICK u \in B : county[u] = c
        BY <2>3
      <3>3. ~WithinCounty(county, {x, y})
        <4>1. ~CountedPair(county, ids, pair, TRUE).admin_adjacent
          BY <1>6, <2>2
        <4> QED  BY <1>4, <4>1 DEF CountedPair, NoPairData
      <3>4. county[x] # county[y]
        <4>1. x \in Vertices
          BY <1>3 DEF Sides
        <4> QED  BY <3>3, <4>1 DEF WithinCounty, CountiesIn
      <3> QED  BY <1>3, <3>1, <3>2, <3>4, NoSharedCounty
    <2>5. pair \in {p \in DOMAIN m.pair_map : ~invalid(p)}
      BY <1>6, <2>4
    <2>6. "pair_map" \in DOMAIN m
      BY <1>5, <1>8 DEF m, build_plan_multigraph, build_plan_hierarchical_multigraph, NotBuilt
    <2>7. DOMAIN built.pair_map = {p \in DOMAIN m.pair_map : ~invalid(p)}
      <3> HIDE DEF invalid
      <3> QED  BY <2>1, <2>6 DEF Restrict
    <2> QED  BY <2>5, <2>7 DEF Pairs
  <1> QED  BY <1>7, <1>8

\* What merge-split keeps are pairs of the plan.
LEMMA KeptPairs ==
    ASSUME NEW ids, NEW n, NEW built,
           built = attempt_to_get_valid_mergesplit_pairs(build_plan_multigraph(county, ids, n)), built.ok
    PROVE  Pairs(built) \in SUBSET PairsOf(n)
  <1> DEFINE m == build_plan_multigraph(county, ids, n)
  <1>1. m.ok /\ built = remove_invalid_mergesplit_pairs(county, m)
    BY DEF attempt_to_get_valid_mergesplit_pairs
  <1>2. DOMAIN m.pair_map \in SUBSET PairsOf(n)
    BY <1>1, BuiltPairs
  <1>3. CASE ~counties_on(county)
    BY <1>1, <1>2, <1>3 DEF remove_invalid_mergesplit_pairs, Pairs
  <1>4. CASE counties_on(county)
    <2>1. PICK kept : kept \subseteq DOMAIN m.pair_map /\ built = [m EXCEPT !.pair_map = Restrict(@, kept)]
      <3> DEFINE overlap(r) == {m.pair_map[p].shared_county :
                                   p \in {q \in DOMAIN m.pair_map :
                                             r \in {q[1], q[2]} /\ m.pair_map[q].admin_adjacent}}
                 invalid(p) == /\ m.county_component[p[1]] = m.county_component[p[2]]
                               /\ ~m.pair_map[p].admin_adjacent
                               /\ overlap(p[1]) \cap overlap(p[2]) # {}
                 kept == {p \in DOMAIN m.pair_map : ~invalid(p)}
      <3>1. built = [m EXCEPT !.pair_map = Restrict(@, kept)] /\ kept \subseteq DOMAIN m.pair_map
        BY <1>1, <1>4 DEF remove_invalid_mergesplit_pairs, RemovePairs
      <3> HIDE DEF kept, m
      <3> QED  BY <3>1
    <2>2. "pair_map" \in DOMAIN m
      BY <1>1, <1>4 DEF m, build_plan_multigraph, build_plan_hierarchical_multigraph, NotBuilt
    <2> HIDE DEF m
    <2>3. DOMAIN built.pair_map = kept
      BY <2>1, <2>2 DEF Restrict
    <2> QED  BY <1>2, <2>1, <2>3 DEF Pairs
  <1> QED  BY <1>3, <1>4

\* run_merge_split_steps starts from the multigraph of its plan.
LEMMA MovesInit == Init => MovesInv
  <1> SUFFICES ASSUME Init
               PROVE  MovesInv
    OBVIOUS
  <1>1. county \in CountyLayouts /\ num_regions \in 2 .. MaxRegions /\ CurrentIsOfThePlan
    BY DEF Init, Plans, CurrentIsOfThePlan
  <1>2. RegionsAreConnected
    BY DEF Init, Plans, RegionsAreConnected
  <1>3. running => current.ok
    BY DEF Init
  <1> QED  BY <1>1, <1>2, <1>3 DEF MovesInv

\* A step keeps the multigraph that of the plan and goes on.
LEMMA MovesStep == MovesInv /\ [Next]_vars => MovesInv' /\ (running => running')
  <1> SUFFICES ASSUME MovesInv, [Next]_vars
               PROVE  MovesInv' /\ (running => running')
    OBVIOUS
  <1>1. CASE UNCHANGED vars
    BY <1>1 DEF MovesInv, vars, CurrentIsOfThePlan, RegionsAreConnected, attempt_to_get_valid_mergesplit_pairs
  <1>2. CASE Next
    <2>1. running /\ UNCHANGED <<county, num_regions>>
      BY <1>2 DEF Next, attempt_mergesplit_step
    <2>2. PICK pair \in Pairs(current) : \E new_ids \in Resplit(pair) :
             LET built == attempt_to_get_valid_mergesplit_pairs(
                              build_plan_multigraph(county, new_ids, num_regions))
             IN  IF ~built.ok
                 THEN UNCHANGED <<region_ids, current, running>>
                 ELSE IF pair \notin Pairs(built)
                 THEN running' = FALSE /\ UNCHANGED <<region_ids, current>>
                 ELSE /\ UNCHANGED running
                      /\ \/ /\ region_ids' = new_ids
                            /\ current' = swap_plan_multigraphs(built)
                         \/ UNCHANGED <<region_ids, current>>
      BY <1>2 DEF Next, attempt_mergesplit_step
    <2>3. pair \in PairsOf(num_regions)
      <3>1. current.ok /\ current = attempt_to_get_valid_mergesplit_pairs(
                                        build_plan_multigraph(county, region_ids, num_regions))
        BY <2>1 DEF MovesInv, CurrentIsOfThePlan
      <3> QED  BY <3>1, KeptPairs
    <2>4. PICK new_ids \in Resplit(pair) :
             LET built == attempt_to_get_valid_mergesplit_pairs(
                              build_plan_multigraph(county, new_ids, num_regions))
             IN  IF ~built.ok
                 THEN UNCHANGED <<region_ids, current, running>>
                 ELSE IF pair \notin Pairs(built)
                 THEN running' = FALSE /\ UNCHANGED <<region_ids, current>>
                 ELSE /\ UNCHANGED running
                      /\ \/ /\ region_ids' = new_ids
                            /\ current' = swap_plan_multigraphs(built)
                         \/ UNCHANGED <<region_ids, current>>
      BY <2>2
    <2> DEFINE built == attempt_to_get_valid_mergesplit_pairs(
                            build_plan_multigraph(county, new_ids, num_regions))
    <2>5. built.ok => pair \in Pairs(built)
      BY <2>3, PairIsKept
    <2>6. \/ UNCHANGED <<region_ids, current, running>>
          \/ built.ok /\ UNCHANGED running /\ region_ids' = new_ids /\ current' = built
      BY <2>4, <2>5 DEF swap_plan_multigraphs
    <2>7. CASE UNCHANGED <<region_ids, current, running>>
      BY <2>1, <2>7
         DEF MovesInv, CurrentIsOfThePlan, RegionsAreConnected, attempt_to_get_valid_mergesplit_pairs
    <2>8. CASE built.ok /\ UNCHANGED running /\ region_ids' = new_ids /\ current' = built
      <3>1. PICK T, x, y : IsSplitAlong(T, x, y, pair, new_ids)
        <4>1. PICK T \in HierarchicalTrees(county, Merged(pair)) : \E x, y :
                 {x, y} \in T /\ x # y /\ new_ids = SplitAlong(T, x, y, pair)
          BY <2>3, ResplitIs
        <4>2. PICK x, y : {x, y} \in T /\ x # y /\ new_ids = SplitAlong(T, x, y, pair)
          BY <4>1
        <4>3. IsSplitAlong(T, x, y, pair, new_ids)
          BY <2>3, <4>2, SplitAlongIs
        <4> QED  BY <4>3
      <3>2. CurrentIsOfThePlan'
        <4>1. new_ids \in [Vertices -> 0 .. num_regions - 1]
          BY <3>1 DEF IsSplitAlong
        <4> QED  BY <2>1, <2>8, <4>1 DEF CurrentIsOfThePlan, attempt_to_get_valid_mergesplit_pairs
      <3>3. RegionsAreConnected'
        <4>1. \A r \in 0 .. num_regions - 1 : Region(new_ids, r) # {} /\ Connected(Region(new_ids, r), Edges)
          BY <3>1 DEF IsSplitAlong, MovesInv, RegionsAreConnected
        <4> QED  BY <2>1, <2>8, <4>1 DEF RegionsAreConnected
      <3> QED  BY <2>1, <2>8, <3>2, <3>3 DEF MovesInv
    <2> QED  BY <2>1, <2>6, <2>7, <2>8
  <1> QED  BY <1>1, <1>2

\* The multigraph the driver keeps is at every step that of the plan it keeps.
THEOREM MultigraphIsOfThePlan == Spec => []MovesInv
  BY MovesInit, MovesStep, PTL DEF Spec

\* The pair that was merged and split can be merged again in the proposal.
THEOREM MovesKeepTheWayBack == Spec => KeepsTheWayBack
  <1>1. MovesInv /\ [Next]_vars => [running => running']_vars
    BY MovesStep
  <1> QED  BY <1>1, MultigraphIsOfThePlan, PTL DEF Spec, KeepsTheWayBack

\* An edge crosses between two labels.
LEMMA CrossesIs ==
    ASSUME NEW ids, NEW a, NEW b
    PROVE  Crosses(ids, {a, b}) <=> ids[a] # ids[b]
  <1>1. RegionsOf(ids, {a, b}) = {ids[a]} \cup {ids[b]}
    BY DEF RegionsOf
  <1> DEFINE one == {ids[a]}
  <1>2. IsFiniteSet(one) /\ Cardinality(one) = 1
    BY FS_Singleton
  <1>3. CASE ids[a] = ids[b]
    <2>1. RegionsOf(ids, {a, b}) = one
      BY <1>1, <1>3
    <2> QED  BY <1>2, <1>3, <2>1 DEF Crosses
  <1>4. CASE ids[a] # ids[b]
    <2>1. ids[b] \notin one
      BY <1>4
    <2> HIDE DEF one
    <2>2. Cardinality(one \cup {ids[b]}) = Cardinality(one) + 1
      BY <1>2, <2>1, FS_AddElement
    <2>3. Cardinality(RegionsOf(ids, {a, b})) = 2
      BY <1>1, <1>2, <2>2 DEF one
    <2> QED  BY <1>4, <2>3 DEF Crosses
  <1> QED  BY <1>3, <1>4

\* Edges in one county, and edges in one region, keep a label.
LEMMA KeptEdges ==
    ASSUME NEW ids, NEW e \in Edges
    PROVE  /\ WithinCounty(county, e) <=> e \in Keeping(county, Edges)
           /\ ~Crosses(ids, e) <=> e \in Keeping(ids, Edges)
  <1>1. PICK a, b \in Vertices : a # b /\ e = {a, b}
    BY GraphFacts
  <1>2. Crosses(ids, e) <=> ids[a] # ids[b]
    BY <1>1, CrossesIs
  <1>3. WithinCounty(county, e) <=> county[a] = county[b]
    BY <1>1 DEF WithinCounty, CountiesIn
  <1>4. \A k : e \in Keeping(k, Edges) <=> k[a] = k[b]
    BY <1>1 DEF Keeping
  <1> QED  BY <1>2, <1>3, <1>4

\* What the walk over the map makes of the counties and regions of a plan.
LEMMA WalkIs ==
    ASSUME NEW ids
    PROVE  /\ Explored(county, ids) = Grouped(Vertices, Edges, county, ids)
           /\ \A S : /\ Cardinality(CountyRegionPieces(county, ids, S)) = PiecesIn(S, Edges, county, ids)
                     /\ CountyPieces(county, S) = Components(S, Keeping(county, Edges))
                     /\ RegionsIn(ids, S) = LabelsOf(ids, S)
                     /\ CountiesIn(county, S) = LabelsOf(county, S)
  <1>1. {e \in Edges : WithinCounty(county, e) \/ ~Crosses(ids, e)} = Keeping(county, Edges) \cup Keeping(ids, Edges)
    BY KeptEdges DEF Keeping
  <1>2. {e \in Edges : WithinCounty(county, e) /\ ~Crosses(ids, e)} = Keeping(county, Edges) \cap Keeping(ids, Edges)
    BY KeptEdges DEF Keeping
  <1>3. {e \in Edges : WithinCounty(county, e)} = Keeping(county, Edges)
    BY KeptEdges DEF Keeping
  <1> QED  BY <1>1, <1>2, <1>3 DEF Explored, Grouped, CountyRegionPieces, PiecesIn, CountyPieces, RegionsIn,
                                   LabelsOf, CountiesIn

\* The sum of a function, as a total over its domain.
LEMMA SumIsTotal == \A f : SumFunction(f) = Total(f, DOMAIN f)
  BY DEF SumFunction, SumFunctionOnSet, FoldFunctionOnSet, MapThenFoldSet, Total, MapThenSumSet

\* A division of the map into n connected parts.
Divides(ids, n) ==
    /\ InPieces(ids, Vertices, Edges)
    /\ n = Cardinality(LabelsOf(ids, Vertices))

\* The map and its counties are in one piece each.
LEMMA MapIs ==
    ASSUME county \in CountyLayouts
    PROVE  /\ IsFiniteSet(Vertices) /\ Vertices # {} /\ IsFiniteSet(Edges) /\ Links(Edges)
           /\ \A e \in Edges : e \subseteq Vertices
           /\ Connected(Vertices, Edges) /\ InPieces(county, Vertices, Edges)
  <1>1. ASSUME NEW v \in Vertices
        PROVE  Connected({w \in Vertices : county[w] = county[v]}, Edges)
    <2>1. county[v] \in CountiesIn(county, Vertices)
      BY DEF CountiesIn
    <2>2. Connected(CountyPart(county, Vertices, county[v]), Edges)
      BY <2>1, MovesAssumption DEF CountiesAreContiguous
    <2> QED  BY <2>2 DEF CountyPart
  <1> QED  BY <1>1, GraphFacts, MapAssumption, MovesAssumption DEF InPieces

\* A tree of the map along which every county and every region is in one piece.
Carries(T, ids) == T \in SUBSET Edges /\ IsTree(Vertices, T) /\ InPieces(county, Vertices, T) /\ InPieces(ids, Vertices, T)

\* The trees that can be cut into a plan are those.
LEMMA TreesThroughAre ==
    ASSUME county \in CountyLayouts, NEW ids, NEW n, Divides(ids, n), NEW T
    PROVE  T \in TreesThrough(ids, n) <=> Carries(T, ids)
  <1>1. HierarchicalTreesOn[county][Vertices] = HierarchicalTrees(county, Vertices)
    BY DEF HierarchicalTreesOn
  <1>2. T \in HierarchicalTrees(county, Vertices)
           <=> (T \in SUBSET Edges /\ IsTree(Vertices, T) /\ InPieces(county, Vertices, T))
    <2>1. \A v \in Vertices : CountyPart(county, Vertices, county[v]) = {w \in Vertices : county[w] = county[v]}
      BY DEF CountyPart
    <2>2. Vertices \in SUBSET Vertices /\ Vertices # {}
      BY MapAssumption
    <2>3. T \in HierarchicalTrees(county, Vertices)
             <=> (/\ T \in SUBSET Edges /\ IsTree(Vertices, T)
                  /\ \A v \in Vertices : Connected(CountyPart(county, Vertices, county[v]), T))
      BY <2>2, HierarchicalTreesAre
    <2>4. (\A v \in Vertices : Connected(CountyPart(county, Vertices, county[v]), T)) <=> InPieces(county, Vertices, T)
      BY <2>1 DEF InPieces
    <2> QED  BY <2>3, <2>4
  <1>3. ASSUME T \in SUBSET Edges
        PROVE  {e \in T : Crosses(ids, e)} = T \ Keeping(ids, T)
    <2>1. \A e \in T : ~Crosses(ids, e) <=> e \in Keeping(ids, Edges)
      BY <1>3, KeptEdges
    <2> QED  BY <1>3, <2>1 DEF Keeping
  <1>4. ASSUME T \in SUBSET Edges, IsTree(Vertices, T)
        PROVE  Cardinality({e \in T : Crosses(ids, e)}) = n - 1 <=> InPieces(ids, Vertices, T)
    BY <1>3, <1>4, SeldomLeft DEF Divides
  <1> QED  BY <1>1, <1>2, <1>4 DEF TreesThrough, Carries

\* Fewer pieces than labels in every group of a division.
FewPiecesInGroups(ids) ==
    \A S \in Grouped(Vertices, Edges, county, ids) :
       PiecesIn(S, Edges, county, ids)
         < Cardinality(Components(S, Keeping(county, Edges))) + Cardinality(Components(S, Keeping(ids, Edges)))

\* Groups are parts of the map.
LEMMA GroupsArePart ==
    ASSUME NEW ids, NEW S \in Grouped(Vertices, Edges, county, ids)
    PROVE  /\ S \subseteq Vertices /\ S # {} /\ IsFiniteSet(S)
           /\ PiecesIn(S, Edges, county, ids) \in Nat
           /\ \A F : Cardinality(Components(S, F)) \in Nat /\ Cardinality(Components(S, F)) > 0
  <1>1. PICK v \in Vertices : S = Component(v, Vertices, Keeping(county, Edges) \cup Keeping(ids, Edges))
    BY DEF Grouped, Components
  <1>2. S \subseteq Vertices /\ v \in S
    BY <1>1, GraphFacts, ComponentIsLeast, ComponentConnected
  <1>3. IsFiniteSet(S)
    BY <1>2, GraphFacts
  <1>4. ASSUME NEW F
        PROVE  Cardinality(Components(S, F)) \in Nat /\ Cardinality(Components(S, F)) > 0
    <2>1. Components(S, F) # {}
      BY <1>2 DEF Components
    <2>2. IsFiniteSet(Components(S, F)) /\ Cardinality(Components(S, F)) \in Nat
      BY <1>3, PieceCount
    <2>3. Cardinality(Components(S, F)) # 0
      BY <2>1, <2>2, FS_EmptySet
    <2> QED  BY <2>2, <2>3
  <1> QED  BY <1>2, <1>3, <1>4 DEF PiecesIn

\* A division as balanced as a tree makes it.
BalancedPlan(ids) == Balanced(Vertices, Edges, county, ids)

\* Groups with few pieces are balanced all together.
LEMMA FewPiecesAreBalanced ==
    ASSUME NEW ids, FewPiecesInGroups(ids)
    PROVE  BalancedPlan(ids)
  <1> DEFINE K == Keeping(county, Edges)
             L == Keeping(ids, Edges)
             B == K \cap L
             H == K \cup L
  <1>1. \A S \in Components(Vertices, H) :
           Cardinality(Components(S, B)) < Cardinality(Components(S, K)) + Cardinality(Components(S, L))
    BY DEF FewPiecesInGroups, Grouped, PiecesIn
  <1>2. B \in SUBSET H /\ K \in SUBSET H /\ L \in SUBSET H
    OBVIOUS
  <1>3. Cardinality(Components(Vertices, B)) + Cardinality(Components(Vertices, H))
           <= Cardinality(Components(Vertices, K)) + Cardinality(Components(Vertices, L))
    <2> HIDE DEF K, L, B, H
    <2> QED  BY <1>1, <1>2, GraphFacts, GroupSums
  <1> QED  BY <1>3 DEF BalancedPlan, Balanced

\* Such a division is carried by a tree.
LEMMA BalancedIsCarried ==
    ASSUME county \in CountyLayouts, NEW ids, NEW n, Divides(ids, n), BalancedPlan(ids)
    PROVE  \E T : Carries(T, ids)
  <1>1. PICK T \in SUBSET Edges : IsTree(Vertices, T) /\ InPieces(county, Vertices, T) /\ InPieces(ids, Vertices, T)
    BY MapIs, BalancedGivesATree DEF Divides, BalancedPlan
  <1> QED  BY <1>1 DEF Carries

\* The splits of the counties are few where the groups have few pieces.
LEMMA FewSplitsFewPieces ==
    ASSUME NEW ids, NEW n, ~HasTooManySplits(county, ids, n)
    PROVE  FewPiecesInGroups(ids)
  <1> SUFFICES ASSUME NEW S \in Grouped(Vertices, Edges, county, ids)
               PROVE  PiecesIn(S, Edges, county, ids)
                        < Cardinality(Components(S, Keeping(county, Edges))) + Cardinality(Components(S, Keeping(ids, Edges)))
    BY DEF FewPiecesInGroups
  <1> DEFINE p == PiecesIn(S, Edges, county, ids)
             a == Cardinality(Components(S, Keeping(county, Edges)))
             b == Cardinality(Components(S, Keeping(ids, Edges)))
             m == Cardinality(LabelsOf(ids, S))
  <1>1. ~(Splits(county, ids, S) >= Cardinality(RegionsIn(ids, S)))
    BY WalkIs DEF HasTooManySplits
  <1>2. Splits(county, ids, S) = p - a /\ Cardinality(RegionsIn(ids, S)) = m
    BY WalkIs DEF Splits
  <1>3. p \in Nat /\ a \in Nat /\ b \in Nat /\ IsFiniteSet(S)
    BY GroupsArePart
  <1>4. m \in Nat /\ m <= b
    BY <1>3, PiecesPerLabel
  <1>5. ~(p - a >= m)
    BY <1>1, <1>2
  <1> HIDE DEF p, a, b, m
  <1>6. p < a + b
    BY <1>3, <1>4, <1>5
  <1> QED  BY <1>6 DEF p, a, b

\* With counties off all precincts are in one county.
LEMMA OneCounty ==
    ASSUME ~counties_on(county)
    PROVE  \A u, v \in Vertices : county[u] = county[v]
  <1> SUFFICES ASSUME NEW u \in Vertices, NEW v \in Vertices, county[u] # county[v]
               PROVE  FALSE
    OBVIOUS
  <1> DEFINE Cs == CountiesIn(county, Vertices)
             two == {county[u]} \cup {county[v]}
  <1>1. IsFiniteSet(Cs) /\ Cardinality(Cs) \in Nat
    <2>1. Cs = LabelsOf(county, Vertices)
      BY DEF CountiesIn, LabelsOf
    <2> QED  BY <2>1, GraphFacts, PiecesPerLabel
  <1>2. Cardinality(two) = 2
    <2> DEFINE one == {county[u]}
    <2>1. IsFiniteSet(one) /\ Cardinality(one) = 1 /\ county[v] \notin one
      BY FS_Singleton
    <2> HIDE DEF one
    <2>2. Cardinality(one \cup {county[v]}) = Cardinality(one) + 1
      BY <2>1, FS_AddElement
    <2> QED  BY <2>1, <2>2 DEF one
  <1>3. two \subseteq Cs
    BY DEF CountiesIn
  <1> HIDE DEF two, Cs
  <1>4. Cardinality(two) <= Cardinality(Cs)
    BY <1>1, <1>3, FS_Subset
  <1> QED  BY <1>1, <1>2, <1>4 DEF counties_on, Cs

\* With one county there is nothing to split.
LEMMA OneCountyFewPieces ==
    ASSUME ~counties_on(county), NEW ids
    PROVE  FewPiecesInGroups(ids)
  <1>1. \A u, v \in Vertices : county[u] = county[v]
    BY OneCounty
  <1>2. Keeping(county, Edges) = Edges
    BY <1>1, MapAssumption DEF Keeping
  <1>3. Keeping(county, Edges) \cap Keeping(ids, Edges) = Keeping(ids, Edges)
    BY <1>2 DEF Keeping
  <1> SUFFICES ASSUME NEW S \in Grouped(Vertices, Edges, county, ids)
               PROVE  PiecesIn(S, Edges, county, ids)
                        < Cardinality(Components(S, Keeping(county, Edges))) + Cardinality(Components(S, Keeping(ids, Edges)))
    BY DEF FewPiecesInGroups
  <1> DEFINE a == Cardinality(Components(S, Keeping(county, Edges)))
             b == Cardinality(Components(S, Keeping(ids, Edges)))
  <1>4. a \in Nat /\ a > 0 /\ b \in Nat
    BY GroupsArePart
  <1>5. PiecesIn(S, Edges, county, ids) = b
    BY <1>3 DEF PiecesIn
  <1> HIDE DEF a, b
  <1>6. b < a + b
    BY <1>4
  <1> QED  BY <1>5, <1>6 DEF a, b

\* A division that a tree carries has not too many splits.
LEMMA CarriedFewSplits ==
    ASSUME county \in CountyLayouts, NEW ids, NEW n, Divides(ids, n), NEW T, Carries(T, ids)
    PROVE  /\ ~HasTooManySplits(county, ids, n)
           /\ TwoLabels(Vertices, T, Edges, county, ids)
  <1> DEFINE explored == Explored(county, ids)
             f == [S \in explored |-> Cardinality(CountyRegionPieces(county, ids, S)) - 1]
             c == Cardinality(CountiesIn(county, Vertices))
  <1>1. TwoLabels(Vertices, T, Edges, county, ids)
    BY MapAssumption, TreeHasTwoLabels DEF Carries
  <1>2. explored = Grouped(Vertices, Edges, county, ids)
    BY WalkIs
  <1>3. \A S \in explored : f[S] = PiecesIn(S, Edges, county, ids) - 1
    BY WalkIs
  <1>4. SumFunction(f) = Total(f, explored)
    <2>1. DOMAIN f = explored
      OBVIOUS
    <2> HIDE DEF f
    <2> QED  BY <2>1, SumIsTotal
  <1>5. c = Cardinality(LabelsOf(county, Vertices)) /\ n = Cardinality(LabelsOf(ids, Vertices)) /\ c \in Nat /\ n \in Nat
    <2>1. CountiesIn(county, Vertices) = LabelsOf(county, Vertices)
      BY WalkIs
    <2> QED  BY <2>1, GraphFacts, PiecesPerLabel DEF Divides
  <1>6. ~(SumFunction(f) - c >= n)
    <2> HIDE DEF f, explored, c
    <2>1. Total(f, Grouped(Vertices, Edges, county, ids)) \in Int
          /\ Total(f, Grouped(Vertices, Edges, county, ids))
                < Cardinality(LabelsOf(county, Vertices)) + Cardinality(LabelsOf(ids, Vertices))
      BY <1>1, <1>2, <1>3, GroupsAreNotSplitTooOften
    <2> DEFINE t == SumFunction(f)
    <2>2. t \in Int /\ t < c + n
      BY <1>2, <1>4, <1>5, <2>1
    <2> HIDE DEF t
    <2>3. ~(t - c >= n)
      BY <1>5, <2>2
    <2> QED  BY <2>3 DEF t
  <1>7. ASSUME NEW S \in explored
        PROVE  ~(Splits(county, ids, S) >= Cardinality(RegionsIn(ids, S)))
    <2> DEFINE p == PiecesIn(S, Edges, county, ids)
               a == Cardinality(Components(S, Keeping(county, Edges)))
               l == Cardinality(LabelsOf(ids, S))
    <2>1. p \in Nat /\ a \in Nat /\ l \in Nat /\ p - a < l
      BY <1>1, <1>2, GroupIsNotSplitTooOften
    <2>2. Splits(county, ids, S) = p - a /\ Cardinality(RegionsIn(ids, S)) = l
      BY WalkIs DEF Splits
    <2> HIDE DEF p, a, l
    <2>3. ~(p - a >= l)
      BY <2>1
    <2> QED  BY <2>2, <2>3
  <1> QED  BY <1>1, <1>6, <1>7 DEF HasTooManySplits

\* A multigraph is built unless counties are split too often, also before pairs
\* are taken out.
LEMMA OkIs ==
    ASSUME NEW ids, NEW n
    PROVE  LET built == build_plan_multigraph(county, ids, n)
           IN  /\ built.ok = ~(counties_on(county) /\ HasTooManySplits(county, ids, n))
               /\ attempt_to_get_valid_mergesplit_pairs(built).ok = built.ok
               /\ build_plan_hierarchical_multigraph(county, ids, n).ok = ~HasTooManySplits(county, ids, n)
  <1> DEFINE built == build_plan_multigraph(county, ids, n)
  <1>1. build_plan_hierarchical_multigraph(county, ids, n).ok = ~HasTooManySplits(county, ids, n)
    BY DEF build_plan_hierarchical_multigraph, NotBuilt
  <1>2. built.ok = ~(counties_on(county) /\ HasTooManySplits(county, ids, n))
    <2>1. CASE counties_on(county)
      BY <1>1, <2>1 DEF build_plan_multigraph
    <2>2. CASE ~counties_on(county)
      BY <2>2 DEF build_plan_multigraph, build_plan_non_hierarchical_multigraph
    <2> QED  BY <2>1, <2>2
  <1>3. attempt_to_get_valid_mergesplit_pairs(built).ok = built.ok
    <2>1. built = NotBuilt \/ \E a, b : built = [ok |-> TRUE, pair_map |-> a, county_component |-> b]
      <3>1. CASE counties_on(county)
        <4>1. build_plan_hierarchical_multigraph(county, ids, n) = NotBuilt
              \/ \E a, b : build_plan_hierarchical_multigraph(county, ids, n)
                              = [ok |-> TRUE, pair_map |-> a, county_component |-> b]
          BY DEF build_plan_hierarchical_multigraph
        <4> QED  BY <3>1, <4>1 DEF build_plan_multigraph
      <3>2. CASE ~counties_on(county)
        BY <3>2 DEF build_plan_multigraph, build_plan_non_hierarchical_multigraph
      <3> QED  BY <3>1, <3>2
    <2> HIDE DEF built
    <2>2. \A m, S : (\E a, b : m = [ok |-> TRUE, pair_map |-> a, county_component |-> b])
                       => [m EXCEPT !.pair_map = S].ok = m.ok
      OBVIOUS
    <2>3. CASE built.ok
      <3>1. \E a, b : built = [ok |-> TRUE, pair_map |-> a, county_component |-> b]
        BY <2>1, <2>3 DEF NotBuilt
      <3>2. \A S : [built EXCEPT !.pair_map = S].ok = built.ok
        BY <2>2, <3>1
      <3> QED  BY <2>3, <3>2 DEF attempt_to_get_valid_mergesplit_pairs, remove_invalid_mergesplit_pairs, RemovePairs
    <2>4. CASE ~built.ok
      BY <2>4 DEF attempt_to_get_valid_mergesplit_pairs
    <2> QED  BY <2>3, <2>4
  <1> QED  BY <1>1, <1>2, <1>3

\* Splits are counted right: a multigraph is built exactly for the divisions
\* that a tree carries, and these are the hierarchical ones.
LEMMA BuiltIfCarried ==
    ASSUME county \in CountyLayouts, NEW ids, NEW n, Divides(ids, n)
    PROVE  /\ build_plan_multigraph(county, ids, n).ok <=> \E T : Carries(T, ids)
           /\ build_plan_multigraph(county, ids, n).ok <=> BalancedPlan(ids)
           /\ build_plan_multigraph(county, ids, n).ok <=> TreesThrough(ids, n) # {}
  <1> DEFINE ok == build_plan_multigraph(county, ids, n).ok
  <1>1. ok = ~(counties_on(county) /\ HasTooManySplits(county, ids, n))
    BY OkIs
  <1>2. ok => BalancedPlan(ids)
    BY <1>1, FewSplitsFewPieces, OneCountyFewPieces, FewPiecesAreBalanced
  <1>3. BalancedPlan(ids) => \E T : Carries(T, ids)
    BY BalancedIsCarried
  <1>4. (\E T : Carries(T, ids)) => ok
    BY <1>1, CarriedFewSplits
  <1>5. (\E T : Carries(T, ids)) <=> TreesThrough(ids, n) # {}
    BY TreesThroughAre
  <1> HIDE DEF ok
  <1>6. /\ ok <=> \E T : Carries(T, ids)
        /\ ok <=> BalancedPlan(ids)
        /\ ok <=> TreesThrough(ids, n) # {}
    BY <1>2, <1>3, <1>4, <1>5
  <1> QED  BY <1>6 DEF ok

\* The regions of a plan divide the map.
LEMMA PlanDivides == MovesInv => Divides(region_ids, num_regions)
  <1> SUFFICES ASSUME MovesInv
               PROVE  Divides(region_ids, num_regions)
    OBVIOUS
  <1>1. /\ region_ids \in [Vertices -> 0 .. num_regions - 1] /\ num_regions \in Nat
        /\ \A r \in 0 .. num_regions - 1 : Region(region_ids, r) # {} /\ Connected(Region(region_ids, r), Edges)
    BY DEF MovesInv, CurrentIsOfThePlan, RegionsAreConnected
  <1>2. InPieces(region_ids, Vertices, Edges)
    <2>1. \A v \in Vertices : Connected(Region(region_ids, region_ids[v]), Edges)
      BY <1>1
    <2> QED  BY <2>1 DEF InPieces, Region
  <1>3. LabelsOf(region_ids, Vertices) = 0 .. num_regions - 1
    <2>1. \A r \in 0 .. num_regions - 1 : \E v \in Vertices : region_ids[v] = r
      BY <1>1 DEF Region
    <2> QED  BY <1>1, <2>1 DEF LabelsOf
  <1>4. Cardinality(0 .. num_regions - 1) = num_regions
    BY <1>1, FS_Interval
  <1> QED  BY <1>2, <1>3, <1>4 DEF Divides

\* What a tree carries is hierarchically valid.
LEMMA CarriedIsValid ==
    ASSUME county \in CountyLayouts, NEW ids, NEW n, Divides(ids, n), NEW T, Carries(T, ids), BalancedPlan(ids)
    PROVE  is_hierarchically_valid(county, ids, n)
  <1>1. ~HasTooManySplits(county, ids, n) /\ TwoLabels(Vertices, T, Edges, county, ids) /\ T \subseteq Edges
    BY CarriedFewSplits DEF Carries
  <1>2. is_hierarchically_connected(county, ids)
    <2> SUFFICES ASSUME NEW c, NEW r
                 PROVE  Connected(CountyPart(county, Region(ids, r), c), Edges)
      BY DEF is_hierarchically_connected
    <2> DEFINE P == CountyPart(county, Region(ids, r), c)
    <2>1. P = {w \in Vertices : county[w] = c /\ ids[w] = r}
      BY DEF CountyPart, Region
    <2>2. CASE P = {}
      BY <2>2, NothingConnected
    <2>3. CASE P # {}
      <3>1. PICK v \in Vertices : county[v] = c /\ ids[v] = r
        BY <2>1, <2>3
      <3>2. P = {w \in Vertices : county[w] = county[v] /\ ids[w] = ids[v]}
        BY <2>1, <3>1
      <3>3. Connected({w \in Vertices : county[w] = county[v] /\ ids[w] = ids[v]}, T)
        BY <1>1 DEF TwoLabels
      <3> HIDE DEF P
      <3>4. Connected(P, T) /\ IsFiniteSet(P) /\ Inside(P, T) \subseteq Edges
        <4>1. IsFiniteSet(P)
          BY <2>1, GraphFacts
        <4>2. Inside(P, T) \subseteq Edges
          BY <1>1 DEF Inside
        <4> QED  BY <3>2, <3>3, <4>1, <4>2
      <3>5. Connected(P, Edges)
        BY <3>4, ConnectedMore
      <3> QED  BY <3>5 DEF P
    <2> QED  BY <2>2, <2>3
  <1>3. Cardinality(CountyRegionPieces(county, ids, Vertices)) - Cardinality(CountiesIn(county, Vertices)) < n
    <2> DEFINE K == Keeping(county, Edges)
               L == Keeping(ids, Edges)
               B == K \cap L
               H == K \cup L
               p(F) == Cardinality(Components(Vertices, F))
    <2>1. p(B) + p(H) <= p(K) + p(L)
      BY DEF BalancedPlan, Balanced
    <2>2. p(K) = Cardinality(CountiesIn(county, Vertices)) /\ p(L) = n
      <3>1. CountiesIn(county, Vertices) = LabelsOf(county, Vertices)
        BY WalkIs
      <3>2. InPieces(county, Vertices, Edges)
        BY MapIs
      <3> QED  BY <3>1, <3>2, GraphFacts, PiecesPerLabel DEF Divides
    <2>3. p(B) = Cardinality(CountyRegionPieces(county, ids, Vertices))
      BY WalkIs DEF PiecesIn
    <2>4. p(H) > 0 /\ p(H) \in Nat /\ p(B) \in Nat /\ p(K) \in Nat /\ p(L) \in Nat
      <3> HIDE DEF B, H, K, L
      <3>1. \A F : IsFiniteSet(Components(Vertices, F)) /\ p(F) \in Nat
        BY GraphFacts, PieceCount
      <3>2. Components(Vertices, H) # {}
        BY MapAssumption DEF Components
      <3>3. p(H) # 0
        BY <3>1, <3>2, FS_EmptySet
      <3> QED  BY <3>1, <3>3
    <2> HIDE DEF p, B, H, K, L
    <2>5. p(B) - p(K) < p(L)
      BY <2>1, <2>4
    <2> QED  BY <2>2, <2>3, <2>5
  <1>4. build_plan_hierarchical_multigraph(county, ids, n).ok
    BY <1>1, OkIs
  <1> QED  BY <1>2, <1>3, <1>4 DEF is_hierarchically_valid

\* Counting the splits finds out exactly the plans that a hierarchical tree of
\* the whole map can be cut into.
THEOREM SplitsTellTheHierarchicalPlans == Spec => []BuildsTheHierarchicalPlans
  <1>1. ASSUME MovesInv
        PROVE  BuildsTheHierarchicalPlans
    <2> DEFINE ok == build_plan_multigraph(county, region_ids, num_regions).ok
    <2>1. county \in CountyLayouts /\ Divides(region_ids, num_regions)
      BY <1>1, PlanDivides DEF MovesInv
    <2>2. current.ok = ok
      BY <1>1, OkIs DEF MovesInv, CurrentIsOfThePlan
    <2>3. ok <=> TreesThrough(region_ids, num_regions) # {}
      BY <2>1, BuiltIfCarried
    <2>4. ok => is_hierarchically_valid(county, region_ids, num_regions)
      <3>1. SUFFICES ASSUME ok
                     PROVE  is_hierarchically_valid(county, region_ids, num_regions)
        OBVIOUS
      <3>2. (\E T : Carries(T, region_ids)) /\ BalancedPlan(region_ids)
        BY <2>1, <3>1, BuiltIfCarried
      <3> QED  BY <2>1, <3>2, CarriedIsValid
    <2>5. is_hierarchically_valid(county, region_ids, num_regions) => ok
      BY OkIs DEF is_hierarchically_valid
    <2>6. ok \in BOOLEAN
      BY OkIs
    <2> HIDE DEF ok
    <2> QED  BY <2>2, <2>3, <2>4, <2>5, <2>6 DEF BuildsTheHierarchicalPlans
  <1> QED  BY <1>1, MultigraphIsOfThePlan, PTL

(***************************************************************************)
(* Merging a pair.                                                         *)
(***************************************************************************)

\* Where the walk over the map gets to.
WalkEdges(ids) == Keeping(county, Edges) \cup Keeping(ids, Edges)

WalkFrom(ids, v) == Component(v, Vertices, WalkEdges(ids))

\* The walk meets the whole of a region.
LEMMA WalkKeepsRegions ==
    ASSUME NEW ids, InPieces(ids, Vertices, Edges), NEW v \in Vertices, NEW w \in Vertices, ids[v] = ids[w]
    PROVE  WalkFrom(ids, v) = WalkFrom(ids, w) /\ v \in WalkFrom(ids, v) /\ w \in WalkFrom(ids, v)
  <1>1. v \in WalkFrom(ids, v) /\ Closed(WalkFrom(ids, v), Vertices, WalkEdges(ids))
    BY GraphFacts, ComponentIsLeast DEF WalkFrom
  <1>2. Keeping(ids, Edges) \subseteq WalkEdges(ids)
    BY DEF WalkEdges
  <1>3. w \in WalkFrom(ids, v)
    BY <1>1, <1>2, GraphFacts, LabelsStayTogether
  <1>4. WalkFrom(ids, w) = WalkFrom(ids, v)
    BY <1>3, GraphFacts, SameComponent DEF WalkFrom
  <1> QED  BY <1>1, <1>3, <1>4

\* The walk meets the whole of a county.
LEMMA WalkKeepsCounties ==
    ASSUME county \in CountyLayouts, NEW ids, NEW v \in Vertices, NEW w \in Vertices, county[v] = county[w]
    PROVE  WalkFrom(ids, v) = WalkFrom(ids, w)
  <1>1. v \in WalkFrom(ids, v) /\ Closed(WalkFrom(ids, v), Vertices, WalkEdges(ids))
    BY GraphFacts, ComponentIsLeast DEF WalkFrom
  <1>2. Keeping(county, Edges) \subseteq WalkEdges(ids) /\ InPieces(county, Vertices, Edges)
    BY MapIs DEF WalkEdges
  <1>3. w \in WalkFrom(ids, v)
    BY <1>1, <1>2, GraphFacts, LabelsStayTogether
  <1> QED  BY <1>3, GraphFacts, SameComponent DEF WalkFrom

\* Components have different numbers.
LEMMA NumbersDiffer ==
    ASSUME NEW Gs \in SUBSET (SUBSET Vertices), IsFiniteSet(Gs), \A S \in Gs : S # {},
           NEW R \in Gs, NEW S \in Gs, R \cap S = {}
    PROVE  ComponentIds(Gs)[R] # ComponentIds(Gs)[S]
  <1> DEFINE upto(D) == {Q \in Gs : Min(Q) <= Min(D)}
  <1>1. \A Q \in Gs : Min(Q) \in Q /\ Min(Q) \in Nat
    <2> SUFFICES ASSUME NEW Q \in Gs
                 PROVE  Min(Q) \in Q /\ Min(Q) \in Nat
      OBVIOUS
    <2>1. Q \in SUBSET Nat /\ Q # {}
      BY MapAssumption
    <2> QED  BY <2>1, LeastIs
  <1>2. \A Q \in Gs : IsFiniteSet(upto(Q)) /\ ComponentIds(Gs)[Q] = Cardinality(upto(Q))
    BY FS_Subset DEF ComponentIds
  <1>3. \A P, Q \in Gs : Min(P) < Min(Q) => upto(P) \subseteq upto(Q) \ {Q} /\ Q \in upto(Q)
    BY <1>1
  <1>4. ASSUME NEW P \in Gs, NEW Q \in Gs, Min(P) < Min(Q)
        PROVE  Cardinality(upto(P)) # Cardinality(upto(Q))
    <2> DEFINE A == upto(P)
               B == upto(Q)
    <2>1. A \subseteq B \ {Q} /\ Q \in B /\ IsFiniteSet(B) /\ IsFiniteSet(A)
      BY <1>2, <1>3, <1>4
    <2> HIDE DEF A, B
    <2>2. IsFiniteSet(B \ {Q}) /\ Cardinality(B \ {Q}) = Cardinality(B) - 1
      BY <2>1, FS_RemoveElement
    <2>3. Cardinality(A) <= Cardinality(B \ {Q}) /\ Cardinality(A) \in Nat /\ Cardinality(B) \in Nat
      BY <2>1, <2>2, FS_Subset, FS_CardinalityType
    <2>4. Cardinality(A) # Cardinality(B)
      BY <2>2, <2>3
    <2> QED  BY <2>4 DEF A, B
  <1>5. Min(R) # Min(S)
    BY <1>1
  <1>6. Min(R) < Min(S) \/ Min(S) < Min(R)
    BY <1>1, <1>5
  <1> HIDE DEF upto
  <1> QED  BY <1>2, <1>4, <1>6

\* The component that the multigraph gives a region is the one its precincts are in.
LEMMA ComponentOfRegion ==
    ASSUME counties_on(county), NEW ids, NEW n, InPieces(ids, Vertices, Edges),
           NEW built, built = build_plan_multigraph(county, ids, n), built.ok,
           NEW v \in Vertices, ids[v] \in 0 .. n - 1
    PROVE  built.county_component[ids[v]] = ComponentIds(Explored(county, ids))[WalkFrom(ids, v)]
  <1> DEFINE explored == Explored(county, ids)
             cids     == ComponentIds(explored)
             chosen(r) == CHOOSE S \in explored : r \in RegionsIn(ids, S)
             r0 == ids[v]
  <1>1. explored = {WalkFrom(ids, w) : w \in Vertices}
    BY WalkIs DEF Grouped, Components, WalkFrom, WalkEdges
  <1>2. built.county_component[r0] = cids[chosen(r0)]
    BY DEF build_plan_multigraph, build_plan_hierarchical_multigraph, NotBuilt
  <1> HIDE DEF explored, cids
  <1>3. \A w \in Vertices : w \in WalkFrom(ids, w) /\ WalkFrom(ids, w) \subseteq Vertices
    BY GraphFacts, ComponentIsLeast, ComponentConnected DEF WalkFrom
  <1>4. WalkFrom(ids, v) \in explored /\ r0 \in RegionsIn(ids, WalkFrom(ids, v))
    BY <1>1, <1>3 DEF RegionsIn
  <1>5. chosen(r0) \in explored /\ r0 \in RegionsIn(ids, chosen(r0))
    BY <1>4
  <1> HIDE DEF chosen
  <1>6. PICK w \in Vertices : chosen(r0) = WalkFrom(ids, w)
    BY <1>1, <1>5
  <1>7. PICK x \in WalkFrom(ids, w) : ids[x] = ids[v]
    BY <1>5, <1>6 DEF RegionsIn
  <1>8. x \in Vertices /\ WalkFrom(ids, x) = WalkFrom(ids, w)
    BY <1>3, <1>7, GraphFacts, SameComponent DEF WalkFrom
  <1>9. WalkFrom(ids, x) = WalkFrom(ids, v)
    BY <1>7, <1>8, WalkKeepsRegions
  <1> QED  BY <1>2, <1>6, <1>8, <1>9 DEF explored, cids

\* Two regions have the same component where the walk goes from the one to the other.
LEMMA SameComponentIs ==
    ASSUME counties_on(county), NEW ids, NEW n, InPieces(ids, Vertices, Edges),
           NEW built, built = build_plan_multigraph(county, ids, n), built.ok,
           NEW v \in Vertices, ids[v] \in 0 .. n - 1, NEW w \in Vertices, ids[w] \in 0 .. n - 1
    PROVE  built.county_component[ids[v]] = built.county_component[ids[w]] <=> w \in WalkFrom(ids, v)
  <1> DEFINE Gs == Explored(county, ids)
             R == WalkFrom(ids, v)
             S == WalkFrom(ids, w)
  <1>1. built.county_component[ids[v]] = ComponentIds(Gs)[R] /\ built.county_component[ids[w]] = ComponentIds(Gs)[S]
    BY ComponentOfRegion
  <1>2. Gs = Components(Vertices, WalkEdges(ids)) /\ Gs = {WalkFrom(ids, u) : u \in Vertices}
    BY WalkIs DEF Grouped, Components, WalkFrom, WalkEdges
  <1>3. \A u \in Vertices : u \in WalkFrom(ids, u) /\ WalkFrom(ids, u) \subseteq Vertices
    BY GraphFacts, ComponentIsLeast, ComponentConnected DEF WalkFrom
  <1>4. \A u \in Vertices : \A x \in WalkFrom(ids, u) : WalkFrom(ids, x) = WalkFrom(ids, u)
    BY GraphFacts, SameComponent DEF WalkFrom
  <1>5. IsFiniteSet(Gs)
    <2>1. IsFiniteSet(Components(Vertices, WalkEdges(ids)))
      BY GraphFacts, PieceCount
    <2> QED  BY <1>2, <2>1
  <1> HIDE DEF Gs
  <1>6. CASE w \in R
    BY <1>1, <1>4, <1>6
  <1>7. CASE w \notin R
    <2>1. R \cap S = {}
      <3> SUFFICES ASSUME NEW x \in R, x \in S
                   PROVE  FALSE
        OBVIOUS
      <3>1. WalkFrom(ids, x) = R /\ WalkFrom(ids, x) = S
        BY <1>4
      <3> QED  BY <1>3, <1>7, <3>1
    <2>2. R \in Gs /\ S \in Gs /\ Gs \in SUBSET (SUBSET Vertices) /\ \A Q \in Gs : Q # {}
      BY <1>2, <1>3
    <2> HIDE DEF R, S
    <2>3. ComponentIds(Gs)[R] # ComponentIds(Gs)[S]
      BY <1>5, <2>1, <2>2, NumbersDiffer
    <2> QED  BY <1>1, <1>7, <2>3 DEF R
  <1> QED  BY <1>6, <1>7

\* What the multigraph says of merging a pair.
LEMMA BuiltMerge ==
    ASSUME counties_on(county), NEW ids, NEW n, NEW built, built = build_plan_multigraph(county, ids, n),
           built.ok, NEW p \in DOMAIN built.pair_map
    PROVE  /\ built.pair_map[p].merge_is_hier_valid
                 <=> (built.county_component[p[1]] = built.county_component[p[2]]
                      => CountedPair(county, ids, p, TRUE).admin_adjacent)
           /\ p \in PairsOf(n) /\ CrossEdges(ids, p) # {}
  <1> DEFINE explored == Explored(county, ids)
             cids     == ComponentIds(explored)
             comp(r)  == cids[CHOOSE S \in explored : r \in RegionsIn(ids, S)]
             counted  == PairTable(county, ids, n, TRUE)
             value(q) == [counted[q] EXCEPT
                            !.same_admin_component = @ \/ comp(q[1]) = comp(q[2]),
                            !.merge_is_hier_valid =
                                MergeIsHierValid(comp(q[1]) = comp(q[2]), counted[q].admin_adjacent)]
  <1>1. built.pair_map = [q \in DOMAIN counted |-> value(q)]
    BY DEF build_plan_multigraph, build_plan_hierarchical_multigraph, NotBuilt
  <1>0. built.county_component = [r \in 0 .. n - 1 |-> comp(r)]
    BY DEF build_plan_multigraph, build_plan_hierarchical_multigraph, NotBuilt
  <1>2. p \in DOMAIN counted /\ built.pair_map[p] = value(p)
    BY <1>1
  <1>3. counted[p] = CountedPair(county, ids, p, TRUE) /\ p \in PairsOf(n) /\ CrossEdges(ids, p) # {}
    BY <1>2 DEF PairTable
  <1>4. p[1] \in 0 .. n - 1 /\ p[2] \in 0 .. n - 1
    BY <1>3 DEF PairsOf
  <1> HIDE DEF counted, comp
  <1>5. built.county_component[p[1]] = comp(p[1]) /\ built.county_component[p[2]] = comp(p[2])
    BY <1>0, <1>4
  <1>6. built.pair_map[p] = [CountedPair(county, ids, p, TRUE) EXCEPT
                !.same_admin_component = CountedPair(county, ids, p, TRUE).same_admin_component
                                            \/ comp(p[1]) = comp(p[2]),
                !.merge_is_hier_valid = MergeIsHierValid(comp(p[1]) = comp(p[2]), counted[p].admin_adjacent)]
    BY <1>2, <1>3
  <1> HIDE DEF value
  <1>7. built.pair_map[p].merge_is_hier_valid = MergeIsHierValid(comp(p[1]) = comp(p[2]), counted[p].admin_adjacent)
    BY <1>6 DEF CountedPair, NoPairData
  <1> QED  BY <1>3, <1>5, <1>7 DEF MergeIsHierValid

\* A pair shares a county where an edge from one region to the other stays in one.
LEMMA AdminAdjacentIs ==
    ASSUME NEW ids, NEW p
    PROVE  CountedPair(county, ids, p, TRUE).admin_adjacent
              <=> \E e \in CrossEdges(ids, p) : e \in Keeping(county, Edges)
  <1>1. CountedPair(county, ids, p, TRUE).admin_adjacent
           = ({e \in CrossEdges(ids, p) : TRUE => WithinCounty(county, e)} # {})
    BY DEF CountedPair, NoPairData
  <1>2. \A e \in CrossEdges(ids, p) : WithinCounty(county, e) <=> e \in Keeping(county, Edges)
    BY KeptEdges DEF CrossEdges
  <1> QED  BY <1>1, <1>2

\* The ends of an edge between the regions of a pair.
LEMMA CrossEnds ==
    ASSUME NEW ids, NEW p
    PROVE  /\ \A e \in CrossEdges(ids, p) : e \in Edges
              /\ \E v, w \in Vertices : e = {v, w} /\ ids[v] = p[1] /\ ids[w] = p[2]
           /\ \A v, w \in Vertices : {v, w} \in Edges /\ ids[v] = p[1] /\ ids[w] = p[2] => {v, w} \in CrossEdges(ids, p)
  <1>1. ASSUME NEW e \in CrossEdges(ids, p)
        PROVE  e \in Edges /\ \E v, w \in Vertices : e = {v, w} /\ ids[v] = p[1] /\ ids[w] = p[2]
    <2>1. e \in Edges /\ RegionsOf(ids, e) = {p[1], p[2]}
      BY DEF CrossEdges
    <2>2. PICK a, b \in Vertices : e = {a, b}
      BY <2>1, GraphFacts
    <2>3. {ids[a], ids[b]} = {p[1], p[2]}
      BY <2>1, <2>2 DEF RegionsOf
    <2>4. (ids[a] = p[1] /\ ids[b] = p[2]) \/ (ids[b] = p[1] /\ ids[a] = p[2])
      BY <2>3
    <2> QED  BY <2>1, <2>2, <2>4
  <1>2. ASSUME NEW v \in Vertices, NEW w \in Vertices, {v, w} \in Edges, ids[v] = p[1], ids[w] = p[2]
        PROVE  {v, w} \in CrossEdges(ids, p)
    BY <1>2 DEF CrossEdges, RegionsOf
  <1> QED  BY <1>1, <1>2

\* A pair of regions with an edge from x in the one to y in the other.
IsJoined(p, x, y) ==
    /\ p \in PairsOf(num_regions)
    /\ x \in Vertices /\ y \in Vertices /\ region_ids[x] = p[1] /\ region_ids[y] = p[2]
    /\ {x, y} \in CrossEdges(region_ids, p)

\* A pair of the table is joined.
LEMMA PairIsJoined ==
    ASSUME MovesInv, NEW p \in PairsOf(num_regions), CrossEdges(region_ids, p) # {}
    PROVE  /\ \E x, y : IsJoined(p, x, y)
           /\ p[1] \in 0 .. num_regions - 1 /\ p[2] \in 0 .. num_regions - 1 /\ p[1] # p[2]
  <1>1. p[1] \in 0 .. num_regions - 1 /\ p[2] \in 0 .. num_regions - 1 /\ p[1] # p[2]
    BY DEF PairsOf, MovesInv
  <1>2. PICK e \in CrossEdges(region_ids, p) : TRUE
    OBVIOUS
  <1>3. PICK v, w \in Vertices : e = {v, w} /\ region_ids[v] = p[1] /\ region_ids[w] = p[2]
    BY <1>2, CrossEnds
  <1> QED  BY <1>1, <1>2, <1>3 DEF IsJoined

\* The merged plan: its regions and the edges inside them.
LEMMA MergedPlan ==
    ASSUME MovesInv, NEW p, NEW x, NEW y, IsJoined(p, x, y)
    PROVE  /\ Divides(MergedIds(p), num_regions - 1)
           /\ Keeping(MergedIds(p), Edges) = Keeping(region_ids, Edges) \cup CrossEdges(region_ids, p)
           /\ Region(MergedIds(p), p[1]) = Region(region_ids, p[1]) \cup Region(region_ids, p[2])
           /\ Connected(Region(MergedIds(p), p[1]), Edges)
  <1> DEFINE g == MergedIds(p)
             n == num_regions
             R == Region(region_ids, p[1])
             S == Region(region_ids, p[2])
  <1>1. n \in Nat /\ n >= 2 /\ region_ids \in [Vertices -> 0 .. n - 1]
        /\ \A r \in 0 .. n - 1 : Region(region_ids, r) # {} /\ Connected(Region(region_ids, r), Edges)
    BY DEF MovesInv, CurrentIsOfThePlan, RegionsAreConnected
  <1>2. /\ p[1] \in 0 .. n - 1 /\ p[2] \in 0 .. n - 1 /\ p[1] # p[2]
        /\ x \in R /\ y \in S /\ {x, y} \in Edges
    BY PairIsJoined DEF IsJoined, Region, CrossEdges
  <1>3. \A v \in Vertices : g[v] = IF region_ids[v] = p[2] THEN p[1] ELSE region_ids[v]
    BY DEF MergedIds
  <1> HIDE DEF g
  <1>4. /\ Region(g, p[1]) = R \cup S
        /\ \A r \in (0 .. n - 1) \ {p[1], p[2]} : Region(g, r) = Region(region_ids, r)
    BY <1>2, <1>3 DEF Region
  <1>5. Connected(Region(g, p[1]), Edges)
    <2>1. IsFiniteSet(R) /\ IsFiniteSet(S) /\ Connected(R, Edges) /\ Connected(S, Edges)
      BY <1>1, <1>2, GraphFacts DEF Region
    <2> HIDE DEF R, S
    <2>2. Connected(R \cup S, Edges)
      BY <1>2, <2>1, ConnectedUnion
    <2> QED  BY <1>4, <2>2
  <1>6. \A v \in Vertices : g[v] \in (0 .. n - 1) \ {p[2]}
    BY <1>1, <1>2, <1>3
  <1>7. InPieces(g, Vertices, Edges)
    <2>1. \A v \in Vertices : Connected(Region(g, g[v]), Edges)
      <3> TAKE v \in Vertices
      <3>1. CASE g[v] = p[1]
        BY <1>5, <3>1
      <3>2. CASE g[v] # p[1]
        BY <1>1, <1>4, <1>6, <3>2
      <3> QED  BY <3>1, <3>2
    <2> QED  BY <2>1 DEF InPieces, Region
  <1>8. LabelsOf(g, Vertices) = (0 .. n - 1) \ {p[2]}
    <2>1. ASSUME NEW r \in (0 .. n - 1) \ {p[2]}
          PROVE  \E v \in Vertices : g[v] = r
      <3>1. PICK v \in Vertices : region_ids[v] = r
        BY <1>1 DEF Region
      <3>2. g[v] = r
        BY <1>3, <3>1
      <3> QED  BY <3>2
    <2> QED  BY <1>6, <2>1 DEF LabelsOf
  <1>9. Cardinality((0 .. n - 1) \ {p[2]}) = n - 1
    <2> DEFINE U == 0 .. n - 1
    <2>1. IsFiniteSet(U) /\ Cardinality(U) = n /\ p[2] \in U
      BY <1>1, <1>2, FS_Interval
    <2> HIDE DEF U
    <2>2. Cardinality(U \ {p[2]}) = Cardinality(U) - 1
      BY <2>1, FS_RemoveElement
    <2> QED  BY <2>1, <2>2 DEF U
  <1>10. Keeping(g, Edges) = Keeping(region_ids, Edges) \cup CrossEdges(region_ids, p)
    <2>1. ASSUME NEW e \in Edges
          PROVE  e \in Keeping(g, Edges) <=> (e \in Keeping(region_ids, Edges) \/ e \in CrossEdges(region_ids, p))
      <3>1. PICK a, b \in Vertices : e = {a, b}
        BY GraphFacts
      <3>2. e \in Keeping(g, Edges) <=> g[a] = g[b]
        BY <3>1 DEF Keeping
      <3>3. e \in Keeping(region_ids, Edges) <=> region_ids[a] = region_ids[b]
        BY <3>1 DEF Keeping
      <3>4. e \in CrossEdges(region_ids, p) <=> {region_ids[a], region_ids[b]} = {p[1], p[2]}
        BY <3>1 DEF CrossEdges, RegionsOf
      <3>5. {region_ids[a], region_ids[b]} = {p[1], p[2]}
               <=> ((region_ids[a] = p[1] /\ region_ids[b] = p[2]) \/ (region_ids[a] = p[2] /\ region_ids[b] = p[1]))
        OBVIOUS
      <3>6. g[a] = g[b] <=> (region_ids[a] = region_ids[b]
                               \/ (region_ids[a] = p[1] /\ region_ids[b] = p[2])
                               \/ (region_ids[a] = p[2] /\ region_ids[b] = p[1]))
        BY <1>2, <1>3
      <3> QED  BY <3>2, <3>3, <3>4, <3>5, <3>6
    <2> QED  BY <2>1 DEF Keeping, CrossEdges
  <1>11. Divides(g, n - 1)
    BY <1>7, <1>8, <1>9 DEF Divides
  <1> QED  BY <1>4, <1>5, <1>10, <1>11 DEF g

\* The merged plan is balanced exactly if the walk does not reach the one region
\* from the other, or some edge between them stays in a county.
LEMMA MergedBalance ==
    ASSUME MovesInv, BalancedPlan(region_ids), NEW p, NEW x, NEW y, IsJoined(p, x, y)
    PROVE  BalancedPlan(MergedIds(p))
              <=> (y \in WalkFrom(region_ids, x) => \E e \in CrossEdges(region_ids, p) : e \in Keeping(county, Edges))
  <1> DEFINE V == Vertices
             ids == region_ids
             g == MergedIds(p)
             n == num_regions
             X == CrossEdges(ids, p)
             K == Keeping(county, Edges)
             L == Keeping(ids, Edges)
             L2 == Keeping(g, Edges)
             B == K \cap L
             H == K \cup L
             B2 == K \cap L2
             H2 == K \cup L2
             c(F) == Cardinality(Components(V, F))
  <1>1. /\ IsFiniteSet(V) /\ IsFiniteSet(K) /\ IsFiniteSet(L) /\ IsFiniteSet(B2) /\ IsFiniteSet(H2)
        /\ Links(K) /\ Links(L) /\ Links(B2) /\ Links(H2)
        /\ H2 \subseteq Edges /\ K \subseteq Edges /\ L \subseteq Edges
    <2>1. K \in SUBSET Edges /\ L \in SUBSET Edges /\ L2 \in SUBSET Edges
      BY DEF Keeping
    <2>2. B2 \in SUBSET Edges /\ H2 \in SUBSET Edges
      BY <2>1
    <2> HIDE DEF K, L, L2, B2, H2
    <2> QED  BY <2>1, <2>2, GraphFacts
  <1>2. L2 = L \cup X /\ Divides(g, n - 1) /\ Divides(ids, n)
    BY MergedPlan, PlanDivides
  <1>3. x \in V /\ y \in V /\ ids[x] = p[1] /\ ids[y] = p[2] /\ {x, y} \in X
        /\ p[1] # p[2] /\ n \in Nat /\ n >= 2
    <2>1. p \in PairsOf(num_regions) /\ X # {}
      BY DEF IsJoined
    <2>2. p[1] # p[2]
      BY <2>1, PairIsJoined
    <2> QED  BY <2>2 DEF IsJoined, MovesInv
  <1>4. \A e \in X : e \in Edges /\ \E v, w \in V : e = {v, w} /\ ids[v] = p[1] /\ ids[w] = p[2]
    BY CrossEnds
  <1>5. \A D : Closed(D, V, K \cup L) => \A a \in D : \A b \in V : ids[a] = ids[b] => b \in D
    <2>1. InPieces(ids, V, Edges) /\ L \subseteq K \cup L
      BY <1>2 DEF Divides
    <2> HIDE DEF K
    <2> QED  BY <2>1, GraphFacts, LabelsStayTogether
  <1>6. c(L) = n /\ c(L2) = n - 1
    BY <1>2, GraphFacts, PiecesPerLabel DEF Divides
  <1>7. /\ x \in WalkFrom(ids, x) /\ Closed(WalkFrom(ids, x), V, H)
        /\ \A Q : x \in Q /\ Closed(Q, V, H) => WalkFrom(ids, x) \subseteq Q
    <2>1. WalkFrom(ids, x) = Component(x, V, H)
      BY DEF WalkFrom, WalkEdges
    <2>2. x \in V /\ IsFiniteSet(V)
      BY <1>1, <1>3
    <2> HIDE DEF H, V
    <2> QED  BY <2>1, <2>2, ComponentIsLeast
  <1>8. c(B) + c(H) <= c(K) + c(L)
    BY DEF BalancedPlan, Balanced
  <1>9. BalancedPlan(g) <=> c(B2) + c(H2) <= c(K) + c(L2)
    BY DEF BalancedPlan, Balanced
  <1> HIDE DEF K, L, L2, g, X
  <1>10. c(K) + c(L) <= c(B) + c(H)
    BY <1>1, NoLessThanBalanced
  <1>11. B \subseteq B2 /\ H \subseteq H2 /\ H2 = H \cup X
    BY <1>2
  <1> HIDE DEF B, H, B2, H2
  <1>12. c(B2) \in Nat /\ c(B) \in Nat /\ c(B2) <= c(B) /\ c(H2) \in Nat /\ c(H) \in Nat /\ c(H2) <= c(H)
         /\ c(K) \in Nat
    <2>1. c(B2) \in Nat /\ c(B) \in Nat /\ c(B2) <= c(B)
      BY <1>1, <1>11, MoreEdgesFewerPieces
    <2>2. c(H2) \in Nat /\ c(H) \in Nat /\ c(H2) <= c(H)
      BY <1>1, <1>11, MoreEdgesFewerPieces
    <2> QED  BY <1>1, <2>1, <2>2, PieceCount
  <1>13. CASE y \notin WalkFrom(ids, x)
    <2>1. y \notin Component(x, V, H) /\ {x, y} \in H2
      BY <1>3, <1>11, <1>13 DEF WalkFrom, WalkEdges, H, K, L
    <2>2. c(H2) < c(H)
      BY <1>1, <1>3, <1>11, <2>1, EdgeFewerPieces
    <2> HIDE DEF c
    <2>3. c(B2) + c(H2) <= c(K) + c(L2)
      BY <1>3, <1>6, <1>8, <1>12, <2>2
    <2> QED  BY <1>9, <1>13, <2>3 DEF g
  <1>14. CASE y \in WalkFrom(ids, x) /\ \E e \in X : e \in K
    <2>1. PICK e \in X : e \in K
      BY <1>14
    <2>2. PICK a, b \in V : e = {a, b} /\ ids[a] = p[1] /\ ids[b] = p[2]
      BY <1>4
    <2>3. b \notin Component(a, V, B)
      <3>1. Closed({u \in V : ids[u] = ids[a]}, V, B)
        BY DEF B, L, Keeping, Closed, Inside
      <3>2. Component(a, V, B) \subseteq {u \in V : ids[u] = ids[a]}
        BY <1>1, <3>1, ComponentIsLeast
      <3> QED  BY <1>3, <2>2, <3>2
    <2>4. {a, b} \in B2
      BY <1>2, <2>1, <2>2 DEF B2
    <2>5. c(B2) < c(B)
      BY <1>1, <1>11, <2>3, <2>4, EdgeFewerPieces
    <2> HIDE DEF c
    <2>6. c(B2) + c(H2) <= c(K) + c(L2)
      BY <1>3, <1>6, <1>8, <1>12, <2>5
    <2> QED  BY <1>9, <1>14, <2>6 DEF g, X, K
  <1>15. CASE y \in WalkFrom(ids, x) /\ ~\E e \in X : e \in K
    <2>1. B2 = B
      BY <1>2, <1>15 DEF B2, B
    <2>2. SameClosed(V, H2, H)
      <3> SUFFICES ASSUME NEW D, Closed(D, V, H)
                   PROVE  Closed(D, V, X)
        BY <1>11, ClosedBoth DEF SameClosed
      <3>1. D \subseteq V /\ \A a \in D : \A b \in V : ids[a] = ids[b] => b \in D
        BY <1>5 DEF H, Closed
      <3>2. x \in D <=> y \in D
        <4>1. x \in D => y \in D
          BY <1>7, <1>15
        <4>2. y \in D => x \in D
          <5> SUFFICES ASSUME y \in D, x \notin D
                       PROVE  FALSE
            OBVIOUS
          <5> DEFINE W == WalkFrom(ids, x)
          <5>1. x \in W /\ Closed(W, V, H) /\ \A Q : x \in Q /\ Closed(Q, V, H) => W \subseteq Q
            BY <1>7
          <5> HIDE DEF W
          <5>2. Closed(W \ D, V, H)
            BY <5>1, ClosedWithout
          <5>3. W \subseteq W \ D
            BY <5>1, <5>2
          <5> QED  BY <1>15, <5>3 DEF W
        <4> QED  BY <4>1, <4>2
      <3>3. ASSUME NEW e \in X, e \cap D # {}
            PROVE  e \subseteq D
        <4>1. PICK a, b \in V : e = {a, b} /\ ids[a] = p[1] /\ ids[b] = p[2]
          BY <1>4
        <4>2. (a \in D <=> x \in D) /\ (b \in D <=> y \in D)
          BY <1>3, <3>1, <4>1
        <4> QED  BY <3>2, <3>3, <4>1, <4>2
      <3> QED  BY <3>1, <3>3 DEF Closed, Inside
    <2>3. c(H2) = c(H)
      BY <1>1, <2>2, SamePieces
    <2>4. c(B2) = c(B)
      BY <2>1
    <2> HIDE DEF c
    <2>5. ~(c(B2) + c(H2) <= c(K) + c(L2))
      BY <1>3, <1>6, <1>10, <1>12, <2>3, <2>4
    <2> QED  BY <1>9, <1>15, <2>5 DEF g, X, K
  <1>16. (\E e \in X : e \in K) \/ ~(\E e \in X : e \in K)
    OBVIOUS
  <1> QED  BY <1>13, <1>14, <1>15, <1>16

\* Every pair of the table is adjacent.
LEMMA PairsAreJoined ==
    ASSUME MovesInv, NEW full, full = build_plan_multigraph(county, region_ids, num_regions), full.ok,
           NEW p \in DOMAIN full.pair_map
    PROVE  p \in PairsOf(num_regions) /\ \E x, y : IsJoined(p, x, y)
  <1>1. p \in PairsOf(num_regions) /\ CrossEdges(region_ids, p) # {}
    BY BuiltPairs
  <1> QED  BY <1>1, PairIsJoined

\* What a merged plan is, from the trees that carry it.
LEMMA MergedIsBuilt ==
    ASSUME MovesInv, NEW p, NEW x, NEW y, IsJoined(p, x, y)
    PROVE  BalancedPlan(MergedIds(p)) <=> TreesThrough(MergedIds(p), num_regions - 1) # {}
  <1> DEFINE g == MergedIds(p)
             n == num_regions - 1
  <1>1. county \in CountyLayouts /\ Divides(g, n)
    BY MergedPlan DEF MovesInv
  <1> HIDE DEF g, n
  <1>2. BalancedPlan(g) <=> TreesThrough(g, n) # {}
    BY <1>1, BuiltIfCarried
  <1> QED  BY <1>2 DEF g, n

\* SMC merges the pairs whose merged plan is hierarchical again.
LEMMA MergeIsValid ==
    ASSUME MovesInv, NEW full, full = build_plan_multigraph(county, region_ids, num_regions), full.ok,
           NEW p \in DOMAIN full.pair_map
    PROVE  full.pair_map[p].merge_is_hier_valid <=> TreesThrough(MergedIds(p), num_regions - 1) # {}
  <1> DEFINE ids == region_ids
             n == num_regions
  <1>0. PICK x, y : IsJoined(p, x, y)
    BY PairsAreJoined
  <1>1. county \in CountyLayouts /\ Divides(ids, n)
    BY PlanDivides DEF MovesInv
  <1>2. CASE counties_on(county)
    <2>1. full.pair_map[p].merge_is_hier_valid
             <=> (full.county_component[p[1]] = full.county_component[p[2]]
                  => CountedPair(county, ids, p, TRUE).admin_adjacent)
      BY <1>2, BuiltMerge
    <2>2. CountedPair(county, ids, p, TRUE).admin_adjacent
             <=> \E e \in CrossEdges(ids, p) : e \in Keeping(county, Edges)
      BY AdminAdjacentIs
    <2>3. full.county_component[p[1]] = full.county_component[p[2]] <=> y \in WalkFrom(ids, x)
      <3>1. p \in PairsOf(n) /\ x \in Vertices /\ y \in Vertices /\ ids[x] = p[1] /\ ids[y] = p[2]
        BY <1>0 DEF IsJoined
      <3>2. ids[x] \in 0 .. n - 1 /\ ids[y] \in 0 .. n - 1
        BY <3>1 DEF PairsOf
      <3>3. InPieces(ids, Vertices, Edges)
        BY <1>1 DEF Divides
      <3>4. full.county_component[ids[x]] = full.county_component[ids[y]] <=> y \in WalkFrom(ids, x)
        BY <1>2, <3>1, <3>2, <3>3, SameComponentIs
      <3> QED  BY <3>1, <3>4
    <2>4. BalancedPlan(ids)
      BY <1>1, BuiltIfCarried
    <2>5. BalancedPlan(MergedIds(p))
             <=> (y \in WalkFrom(ids, x) => \E e \in CrossEdges(ids, p) : e \in Keeping(county, Edges))
      BY <1>0, <2>4, MergedBalance
    <2>6. BalancedPlan(MergedIds(p)) <=> TreesThrough(MergedIds(p), num_regions - 1) # {}
      BY <1>0, MergedIsBuilt
    <2> QED  BY <2>1, <2>2, <2>3, <2>5, <2>6
  <1>3. CASE ~counties_on(county)
    <2>1. full.pair_map[p].merge_is_hier_valid
      BY <1>3 DEF build_plan_multigraph, build_plan_non_hierarchical_multigraph, PairTable, CountedPair, NoPairData
    <2>2. BalancedPlan(MergedIds(p))
      BY <1>3, OneCountyFewPieces, FewPiecesAreBalanced
    <2> QED  BY <1>0, <2>1, <2>2, MergedIsBuilt
  <1> QED  BY <1>2, <1>3

\* The counties a region shares with others, as the filter of the pairs has them.
Overlap(m, r) == {m.pair_map[p].shared_county :
                     p \in {q \in DOMAIN m.pair_map :
                               r \in {q[1], q[2]} /\ m.pair_map[q].admin_adjacent}}

\* The pairs the filter takes out.
TakenOut(m, p) ==
    /\ m.county_component[p[1]] = m.county_component[p[2]]
    /\ ~m.pair_map[p].admin_adjacent
    /\ Overlap(m, p[1]) \cap Overlap(m, p[2]) # {}

\* What merge-split keeps.
LEMMA KeptAre ==
    ASSUME counties_on(county), NEW ids, NEW n, NEW m, m = build_plan_multigraph(county, ids, n), m.ok
    PROVE  Pairs(attempt_to_get_valid_mergesplit_pairs(m)) = {p \in DOMAIN m.pair_map : ~TakenOut(m, p)}
  <1> DEFINE kept == {p \in DOMAIN m.pair_map : ~TakenOut(m, p)}
             built == attempt_to_get_valid_mergesplit_pairs(m)
  <1>1. built = [m EXCEPT !.pair_map = Restrict(@, kept)]
    BY DEF attempt_to_get_valid_mergesplit_pairs, remove_invalid_mergesplit_pairs, RemovePairs, TakenOut, Overlap
  <1>2. "pair_map" \in DOMAIN m
    BY DEF build_plan_multigraph, build_plan_hierarchical_multigraph, NotBuilt
  <1>3. kept \subseteq DOMAIN m.pair_map
    OBVIOUS
  <1> HIDE DEF kept, built
  <1>4. DOMAIN built.pair_map = kept
    BY <1>1, <1>2, <1>3 DEF Restrict
  <1> QED  BY <1>4 DEF Pairs, kept, built

\* A hierarchical tree can be drawn on a part of the map in one piece exactly
\* if its part of every county is.
LEMMA TreeOnPart ==
    ASSUME county \in CountyLayouts, NEW M \in SUBSET Vertices, M # {}, Connected(M, Edges)
    PROVE  HierarchicalTrees(county, M) # {} <=> \A v \in M : Connected(CountyPart(county, M, county[v]), Edges)
  <1> DEFINE E == Inside(M, Edges)
             l == [v \in Vertices |-> 0]
             part(v) == {w \in M : county[w] = county[v]}
  <1>1. IsFiniteSet(M) /\ \A v \in M : IsFiniteSet(part(v)) /\ part(v) = CountyPart(county, M, county[v])
    BY GraphFacts DEF CountyPart
  <1>2. E \in SUBSET Edges /\ \A e \in E : e \subseteq M
    BY DEF Inside
  <1>3. ASSUME NEW T \in HierarchicalTrees(county, M), NEW v \in M
        PROVE  Connected(CountyPart(county, M, county[v]), Edges)
    <2>1. T \in SUBSET Edges /\ Connected(CountyPart(county, M, county[v]), T)
      BY HierarchicalTreesAre
    <2>2. Inside(CountyPart(county, M, county[v]), T) \subseteq Edges
      BY <2>1 DEF Inside
    <2> QED  BY <1>1, <2>1, <2>2, ConnectedMore
  <1>4. ASSUME \A v \in M : Connected(CountyPart(county, M, county[v]), Edges)
        PROVE  HierarchicalTrees(county, M) # {}
    <2>1. InPieces(county, M, E)
      <3>1. ASSUME NEW v \in M
            PROVE  Connected(part(v), E)
        <4>1. Connected(part(v), Edges) /\ IsFiniteSet(part(v))
          BY <1>1, <1>4
        <4>2. Inside(part(v), Edges) \subseteq E
          BY DEF Inside
        <4> HIDE DEF part, E
        <4> QED  BY <4>1, <4>2, ConnectedMore
      <3> QED  BY <3>1 DEF InPieces
    <2>2. Connected(M, E)
      <3>1. Inside(M, Edges) \subseteq E
        OBVIOUS
      <3> HIDE DEF E
      <3> QED  BY <1>1, <3>1, ConnectedMore
    <2>3. InPieces(l, M, E)
      <3>1. \A v \in M : {w \in M : l[w] = l[v]} = M
        OBVIOUS
      <3> HIDE DEF l, E
      <3> QED  BY <2>2, <3>1 DEF InPieces
    <2>4. Balanced(M, E, county, l)
      <3>1. Keeping(l, E) = E
        BY <1>2 DEF Keeping
      <3>2. Keeping(county, E) \cap E = Keeping(county, E) /\ Keeping(county, E) \cup E = E
        BY DEF Keeping
      <3>3. /\ Cardinality(Components(M, Keeping(county, E))) \in Nat
            /\ Cardinality(Components(M, E)) \in Nat
        BY <1>1, PieceCount
      <3> DEFINE a == Cardinality(Components(M, Keeping(county, E)))
                 b == Cardinality(Components(M, E))
      <3> HIDE DEF l, E
      <3>4. Balanced(M, E, county, l) <=> a + b <= a + b
        BY <3>1, <3>2 DEF Balanced
      <3> HIDE DEF a, b
      <3>5. a + b <= a + b
        BY <3>3 DEF a, b
      <3> QED  BY <3>4, <3>5
    <2>5. IsFiniteSet(E) /\ Links(E)
      BY <1>2, GraphFacts
    <2> HIDE DEF E, l
    <2>6. PICK T \in SUBSET E : IsTree(M, T) /\ InPieces(county, M, T)
      BY <1>1, <1>2, <2>1, <2>2, <2>3, <2>4, <2>5, BalancedGivesATree
    <2>7. \A v \in M : Connected(CountyPart(county, M, county[v]), T)
      BY <2>6 DEF InPieces, CountyPart
    <2> QED  BY <1>2, <2>6, <2>7, HierarchicalTreesAre
  <1> QED  BY <1>3, <1>4

\* Two precincts of a county, on either side of a pair of regions.
LEMMA OverlapHas ==
    ASSUME MovesInv, counties_on(county), NEW full, full = build_plan_multigraph(county, region_ids, num_regions),
           full.ok, NEW a \in Vertices, NEW b \in Vertices, county[a] = county[b], region_ids[a] # region_ids[b]
    PROVE  county[a] \in Overlap(full, region_ids[a])
  <1> DEFINE ids == region_ids
             n == num_regions
             P == {v \in Vertices : county[v] = county[a]}
             D == {v \in P : ids[v] = ids[a]}
  <1>1. PICK T : Carries(T, ids)
    <2>1. county \in CountyLayouts /\ Divides(ids, n)
      BY PlanDivides DEF MovesInv
    <2> QED  BY <2>1, BuiltIfCarried
  <1>2. PICK u \in D, w \in P \ D : {u, w} \in Edges
    <2>1. IsFiniteSet(P) /\ Connected(P, Edges)
      <3>1. InPieces(county, Vertices, Edges)
        BY MapIs DEF MovesInv
      <3> QED  BY <3>1, GraphFacts DEF InPieces
    <2>2. ~Closed(D, P, Edges)
      <3>1. a \in D /\ b \in P /\ b \notin D
        OBVIOUS
      <3> HIDE DEF P, D
      <3> QED  BY <2>1, <3>1, ConnectedIsClosed
    <2>3. PICK e \in Edges : e \subseteq P /\ e \cap D # {} /\ ~(e \subseteq D)
      BY <2>2 DEF Closed, Inside
    <2>4. PICK x, y \in Vertices : e = {x, y}
      BY <2>3, GraphFacts
    <2>5. {x, y} = {y, x}
      OBVIOUS
    <2> HIDE DEF P, D
    <2> QED  BY <2>3, <2>4, <2>5
  <1>3. /\ u \in Vertices /\ w \in Vertices /\ county[u] = county[a] /\ county[w] = county[a]
        /\ ids[u] = ids[a] /\ ids[w] # ids[a]
    OBVIOUS
  <1> HIDE DEF P, D
  <1>4. n \in Nat /\ ids[u] \in 0 .. n - 1 /\ ids[w] \in 0 .. n - 1
    BY <1>3 DEF MovesInv, CurrentIsOfThePlan
  <1>5. PICK q \in PairsOf(n) : (q[1] = ids[u] /\ q[2] = ids[w]) \/ (q[1] = ids[w] /\ q[2] = ids[u])
    <2>1. CASE ids[u] < ids[w]
      <3>1. <<ids[u], ids[w]>> \in PairsOf(n)
        BY <1>4, <2>1 DEF PairsOf
      <3> QED  BY <3>1
    <2>2. CASE ids[w] < ids[u]
      <3>1. <<ids[w], ids[u]>> \in PairsOf(n)
        BY <1>4, <2>2 DEF PairsOf
      <3> QED  BY <3>1
    <2> QED  BY <1>3, <1>4, <2>1, <2>2
  <1>6. {u, w} \in CrossEdges(ids, q)
    BY <1>2, <1>3, <1>5 DEF CrossEdges, RegionsOf
  <1>7. q \in DOMAIN full.pair_map
    BY <1>6, BuiltPairs
  <1>8. CountedPair(county, ids, q, TRUE).admin_adjacent
    <2>1. {u, w} \in Keeping(county, Edges)
      BY <1>2, <1>3 DEF Keeping
    <2> QED  BY <1>6, <2>1, AdminAdjacentIs
  <1> DEFINE c == CountedPair(county, ids, q, TRUE).shared_county
  <1>9. full.pair_map[q].admin_adjacent /\ full.pair_map[q].shared_county = c
    BY <1>7, <1>8, BuiltIsCounted
  <1>10. \A r \in {q[1], q[2]} : \E v \in Vertices : ids[v] = r /\ county[v] = c
    BY <1>8, SharedCounty
  <1> HIDE DEF c
  <1>11. PICK v1 \in Vertices : ids[v1] = ids[u] /\ county[v1] = c
    BY <1>5, <1>10
  <1>12. PICK v2 \in Vertices : ids[v2] = ids[w] /\ county[v2] = c
    BY <1>5, <1>10
  <1>13. county[u] = county[v1]
    <2>1. IsTree(Vertices, T) /\ InPieces(county, Vertices, T) /\ InPieces(ids, Vertices, T)
      BY <1>1 DEF Carries
    <2>2. county[u] = county[w] /\ county[v1] = county[v2] /\ ids[u] = ids[v1] /\ ids[w] = ids[v2] /\ ids[u] # ids[w]
      BY <1>3, <1>11, <1>12
    <2> HIDE DEF ids
    <2> QED  BY <1>3, <2>1, <2>2, ShareOneLabel
  <1> QED  BY <1>3, <1>5, <1>7, <1>9, <1>11, <1>13 DEF Overlap

\* The part of a region inside a county is in one piece, along the tree that
\* carries the plan.
LEMMA RegionParts ==
    ASSUME MovesInv, NEW full, full = build_plan_multigraph(county, region_ids, num_regions), full.ok,
           NEW a \in Vertices
    PROVE  Connected({w \in Vertices : county[w] = county[a] /\ region_ids[w] = region_ids[a]}, Edges)
  <1> DEFINE part == {w \in Vertices : county[w] = county[a] /\ region_ids[w] = region_ids[a]}
  <1>0. county \in CountyLayouts /\ Divides(region_ids, num_regions)
    BY PlanDivides DEF MovesInv
  <1>1. PICK T : Carries(T, region_ids)
    BY <1>0, BuiltIfCarried
  <1>2. Connected(part, T) /\ T \in SUBSET Edges
    BY <1>0, <1>1, CarriedFewSplits DEF TwoLabels, Carries
  <1>3. IsFiniteSet(part) /\ Inside(part, T) \subseteq Edges
    BY <1>2, GraphFacts DEF Inside
  <1> HIDE DEF part
  <1>4. Connected(part, Edges)
    BY <1>2, <1>3, ConnectedMore
  <1> QED  BY <1>4 DEF part

\* Two regions with precincts of a county, and with an edge inside a county
\* between them: it is the same.
LEMMA OneSharedCounty ==
    ASSUME MovesInv, NEW full, full = build_plan_multigraph(county, region_ids, num_regions), full.ok,
           NEW a \in Vertices, NEW b \in Vertices, NEW x \in Vertices, NEW y \in Vertices,
           county[a] = county[b], county[x] = county[y],
           region_ids[a] = region_ids[x], region_ids[b] = region_ids[y], region_ids[a] # region_ids[b]
    PROVE  county[a] = county[x]
  <1>0. county \in CountyLayouts /\ Divides(region_ids, num_regions)
    BY PlanDivides DEF MovesInv
  <1>1. PICK T : Carries(T, region_ids)
    BY <1>0, BuiltIfCarried
  <1>2. IsTree(Vertices, T) /\ InPieces(county, Vertices, T) /\ InPieces(region_ids, Vertices, T)
    BY <1>1 DEF Carries
  <1> QED  BY <1>2, ShareOneLabel

\* A county in which both regions of a pair have precincts makes one piece of
\* their union exactly if an edge from one to the other stays in it.
LEMMA KeptPartsConnected ==
    ASSUME MovesInv, counties_on(county), NEW full, full = build_plan_multigraph(county, region_ids, num_regions),
           full.ok, NEW p \in DOMAIN full.pair_map, ~TakenOut(full, p), NEW a \in Merged(p)
    PROVE  Connected(CountyPart(county, Merged(p), county[a]), Edges)
  <1> DEFINE ids == region_ids
             n == num_regions
             P == CountyPart(county, Merged(p), county[a])
             part(v) == {w \in Vertices : county[w] = county[v] /\ ids[w] = ids[v]}
             r == p[1]
             s == p[2]
  <1>1. r \in 0 .. n - 1 /\ s \in 0 .. n - 1 /\ r # s
    <2>1. PICK x, y : IsJoined(p, x, y)
      BY PairsAreJoined
    <2>2. p \in PairsOf(n) /\ CrossEdges(ids, p) # {}
      BY <2>1 DEF IsJoined
    <2> QED  BY <2>2, PairIsJoined
  <1>2. Merged(p) = {v \in Vertices : ids[v] \in {r, s}}
    BY DEF Merged, Region
  <1>3. \A v \in Vertices : Connected(part(v), Edges) /\ IsFiniteSet(part(v)) /\ v \in part(v)
    BY RegionParts, GraphFacts
  <1>4. a \in Vertices /\ ids[a] \in {r, s}
    BY <1>2
  <1>5. CASE \A b \in P : ids[b] = ids[a]
    <2>1. P = part(a)
      BY <1>2, <1>4, <1>5 DEF CountyPart
    <2> QED  BY <1>3, <1>4, <2>1
  <1>6. CASE \E b \in P : ids[b] # ids[a]
    <2>1. PICK b \in P : ids[b] # ids[a]
      BY <1>6
    <2>2. b \in Vertices /\ county[b] = county[a] /\ {ids[a], ids[b]} = {r, s}
      BY <1>2, <1>4, <2>1 DEF CountyPart
    <2>3. P = part(a) \cup part(b)
      BY <1>2, <1>4, <2>2 DEF CountyPart
    <2>4. full.county_component[r] = full.county_component[s]
      <3>1. b \in WalkFrom(ids, a)
        <4>1. county \in CountyLayouts /\ Divides(ids, n)
          BY PlanDivides DEF MovesInv
        <4>2. InPieces(ids, Vertices, Edges)
          BY <4>1 DEF Divides
        <4>3. WalkFrom(ids, a) = WalkFrom(ids, b)
          BY <1>4, <2>2, <4>1, WalkKeepsCounties
        <4>4. b \in WalkFrom(ids, b)
          BY <2>2, <4>2, WalkKeepsRegions
        <4> QED  BY <4>3, <4>4
      <3>2. InPieces(ids, Vertices, Edges)
        BY PlanDivides DEF Divides
      <3>3. ids[a] \in 0 .. n - 1 /\ ids[b] \in 0 .. n - 1
        BY <1>1, <2>2
      <3>4. full.county_component[ids[a]] = full.county_component[ids[b]]
        BY <1>4, <2>2, <3>1, <3>2, <3>3, SameComponentIs
      <3> QED  BY <2>2, <3>4
    <2>5. county[a] \in Overlap(full, r) \cap Overlap(full, s)
      <3>1. county[a] \in Overlap(full, ids[a]) /\ county[b] \in Overlap(full, ids[b])
        BY <1>4, <2>1, <2>2, OverlapHas
      <3> QED  BY <2>2, <3>1
    <2>6. CountedPair(county, ids, p, TRUE).admin_adjacent
      <3>1. full.pair_map[p].admin_adjacent = CountedPair(county, ids, p, TRUE).admin_adjacent
        BY BuiltIsCounted
      <3> QED  BY <2>4, <2>5, <3>1 DEF TakenOut
    <2>7. PICK e \in CrossEdges(ids, p) : e \in Keeping(county, Edges)
      BY <2>6, AdminAdjacentIs
    <2>8. PICK x, y \in Vertices : e = {x, y} /\ ids[x] = r /\ ids[y] = s
      BY CrossEnds
    <2>9. county[x] = county[y] /\ {x, y} \in Edges /\ {y, x} \in Edges
      <3>1. {x, y} = {y, x}
        OBVIOUS
      <3> QED  BY <2>7, <2>8, <3>1 DEF Keeping
    <2>10. PICK u \in {x, y}, w \in {x, y} : ids[u] = ids[a] /\ ids[w] = ids[b] /\ u # w
      BY <1>1, <2>2, <2>8
    <2>11. county[a] = county[u]
      <3>1. /\ b \in Vertices /\ u \in Vertices /\ w \in Vertices
            /\ county[a] = county[b] /\ county[u] = county[w]
            /\ region_ids[a] = region_ids[u] /\ region_ids[b] = region_ids[w] /\ region_ids[a] # region_ids[b]
        BY <2>1, <2>2, <2>8, <2>9, <2>10
      <3> HIDE DEF part, P, r, s
      <3> QED  BY <1>4, <3>1, OneSharedCounty
    <2>12. u \in part(a) /\ w \in part(b) /\ {u, w} \in Edges
      BY <2>2, <2>8, <2>9, <2>10, <2>11
    <2>13. Connected(part(a), Edges) /\ Connected(part(b), Edges) /\ IsFiniteSet(part(a)) /\ IsFiniteSet(part(b))
      BY <1>3, <1>4, <2>2
    <2> HIDE DEF part
    <2>14. Connected(part(a) \cup part(b), Edges)
      BY <2>12, <2>13, ConnectedUnion
    <2> QED  BY <2>3, <2>14
  <1> QED  BY <1>5, <1>6

\* A pair that is taken out shares no county in one piece.
LEMMA TakenOutApart ==
    ASSUME MovesInv, counties_on(county), NEW full, full = build_plan_multigraph(county, region_ids, num_regions),
           full.ok, NEW p \in DOMAIN full.pair_map, TakenOut(full, p)
    PROVE  \E a \in Merged(p) : ~Connected(CountyPart(county, Merged(p), county[a]), Edges)
  <1> DEFINE ids == region_ids
             n == num_regions
  <1>0. p[1] # p[2]
    <2>1. PICK x, y : IsJoined(p, x, y)
      BY PairsAreJoined
    <2>2. p \in PairsOf(n) /\ CrossEdges(ids, p) # {}
      BY <2>1 DEF IsJoined
    <2> QED  BY <2>2, PairIsJoined
  <1>1. ASSUME NEW q \in DOMAIN full.pair_map
        PROVE  /\ full.pair_map[q].admin_adjacent = CountedPair(county, ids, q, TRUE).admin_adjacent
               /\ full.pair_map[q].shared_county = CountedPair(county, ids, q, TRUE).shared_county
    BY BuiltIsCounted
  <1>2. ASSUME NEW r, NEW c \in Overlap(full, r)
        PROVE  \E v \in Vertices : ids[v] = r /\ county[v] = c
    <2>1. PICK q \in DOMAIN full.pair_map : /\ r \in {q[1], q[2]} /\ full.pair_map[q].admin_adjacent
                                            /\ c = full.pair_map[q].shared_county
      BY DEF Overlap
    <2>2. CountedPair(county, ids, q, TRUE).admin_adjacent /\ c = CountedPair(county, ids, q, TRUE).shared_county
      BY <1>1, <2>1
    <2>3. \E v \in Vertices : ids[v] = r /\ county[v] = CountedPair(county, ids, q, TRUE).shared_county
      BY <2>1, <2>2, SharedCounty
    <2> QED  BY <2>2, <2>3
  <1>3. PICK c : c \in Overlap(full, p[1]) /\ c \in Overlap(full, p[2])
    BY DEF TakenOut
  <1>4. PICK a \in Vertices : ids[a] = p[1] /\ county[a] = c
    BY <1>2, <1>3
  <1>5. PICK b \in Vertices : ids[b] = p[2] /\ county[b] = c
    BY <1>2, <1>3
  <1> DEFINE P == CountyPart(county, Merged(p), county[a])
             D == {v \in P : ids[v] = p[1]}
  <1>6. a \in D /\ b \in P \ D /\ a \in Merged(p) /\ D \subseteq P
    BY <1>0, <1>4, <1>5 DEF Merged, Region, CountyPart
  <1>7. \A v \in P : v \in Vertices /\ ids[v] \in {p[1], p[2]} /\ county[v] = county[a]
    BY DEF Merged, Region, CountyPart
  <1>8. IsFiniteSet(P)
    <2>1. P \in SUBSET Vertices
      BY <1>7
    <2> HIDE DEF P
    <2> QED  BY <2>1, GraphFacts
  <1>9. \A e \in CrossEdges(ids, p) : e \notin Keeping(county, Edges)
    <2>1. ~CountedPair(county, ids, p, TRUE).admin_adjacent
      BY <1>1 DEF TakenOut
    <2> QED  BY <2>1, AdminAdjacentIs
  <1>10. Closed(D, P, Edges)
    <2>1. ASSUME NEW e \in Inside(P, Edges), e \cap D # {}, NEW z \in e, z \notin D
          PROVE  FALSE
      <3>1. e \in Edges /\ e \subseteq P
        BY DEF Inside
      <3>2. PICK y \in e : y \in D
        BY <2>1
      <3>3. y # z /\ y \in P /\ z \in P /\ ids[y] = p[1] /\ ids[z] = p[2]
        BY <1>7, <2>1, <3>1, <3>2
      <3>4. e = {y, z}
        BY <3>1, <3>2, <3>3, GraphFacts
      <3>5. e \in CrossEdges(ids, p)
        BY <3>1, <3>3, <3>4 DEF CrossEdges, RegionsOf
      <3>6. e \in Keeping(county, Edges)
        BY <1>7, <3>1, <3>3, <3>4 DEF Keeping
      <3> QED  BY <1>9, <3>5, <3>6
    <2> QED  BY <1>6, <2>1 DEF Closed
  <1> HIDE DEF P, D
  <1>11. ~Connected(P, Edges)
    BY <1>6, <1>8, <1>10, ConnectedIsClosed
  <1> QED  BY <1>6, <1>11 DEF P

\* Merge-split keeps exactly the adjacent pairs on whose union a hierarchical
\* tree can be drawn.
LEMMA KeptIfTree ==
    ASSUME MovesInv, NEW full, full = build_plan_multigraph(county, region_ids, num_regions), full.ok,
           NEW p \in DOMAIN full.pair_map
    PROVE  p \in Pairs(current) <=> HierarchicalTreesOn[county][Region(MergedIds(p), p[1])] # {}
  <1> DEFINE M == Merged(p)
             ids == region_ids
  <1>1. PICK x, y : IsJoined(p, x, y)
    BY PairsAreJoined
  <1>2. Region(MergedIds(p), p[1]) = M /\ Connected(Region(MergedIds(p), p[1]), Edges)
    BY <1>1, MergedPlan DEF Merged
  <1>3. M \in SUBSET Vertices /\ M # {}
    BY <1>1 DEF IsJoined, Merged, Region
  <1>4. county \in CountyLayouts /\ current = attempt_to_get_valid_mergesplit_pairs(full)
    BY DEF MovesInv, CurrentIsOfThePlan
  <1>5. HierarchicalTreesOn[county][M] = HierarchicalTrees(county, M)
    BY <1>3, <1>4 DEF HierarchicalTreesOn
  <1>6. HierarchicalTrees(county, M) # {} <=> \A v \in M : Connected(CountyPart(county, M, county[v]), Edges)
    BY <1>2, <1>3, <1>4, TreeOnPart
  <1>7. p \in Pairs(current) <=> \A v \in M : Connected(CountyPart(county, M, county[v]), Edges)
    <2>1. CASE counties_on(county)
      <3>1. p \in Pairs(current) <=> ~TakenOut(full, p)
        BY <1>4, <2>1, KeptAre
      <3>2. CASE TakenOut(full, p)
        BY <2>1, <3>1, <3>2, TakenOutApart
      <3>3. CASE ~TakenOut(full, p)
        BY <2>1, <3>1, <3>3, KeptPartsConnected
      <3> QED  BY <3>2, <3>3
    <2>2. CASE ~counties_on(county)
      <3>1. p \in Pairs(current)
        BY <1>4, <2>2 DEF attempt_to_get_valid_mergesplit_pairs, remove_invalid_mergesplit_pairs, Pairs
      <3>2. \A v \in M : CountyPart(county, M, county[v]) = M
        BY <1>3, <2>2, OneCounty DEF CountyPart
      <3> QED  BY <1>2, <3>1, <3>2
    <2> QED  BY <2>1, <2>2
  <1> QED  BY <1>2, <1>5, <1>6, <1>7

\* In every state merge-split keeps exactly the pairs it can draw a tree for, and
\* SMC would merge exactly those whose merged plan is hierarchical again.
THEOREM KeptPairsCanBeMerged == Spec => []KeptPairsAreMergeable
  <1>1. MovesInv => KeptPairsAreMergeable
    <2> DEFINE full == build_plan_multigraph(county, region_ids, num_regions)
    <2>1. ASSUME MovesInv, full.ok, NEW p \in DOMAIN full.pair_map
          PROVE  /\ p \in Pairs(current) <=> HierarchicalTreesOn[county][Region(MergedIds(p), p[1])] # {}
                 /\ full.pair_map[p].merge_is_hier_valid <=> TreesThrough(MergedIds(p), num_regions - 1) # {}
      <3>1. PICK built : built = full
        OBVIOUS
      <3>2. built.ok /\ p \in DOMAIN built.pair_map /\ built = build_plan_multigraph(county, region_ids, num_regions)
        BY <2>1, <3>1
      <3> HIDE DEF full
      <3>3. p \in Pairs(current) <=> HierarchicalTreesOn[county][Region(MergedIds(p), p[1])] # {}
        BY <2>1, <3>2, KeptIfTree
      <3>4. built.pair_map[p].merge_is_hier_valid <=> TreesThrough(MergedIds(p), num_regions - 1) # {}
        BY <2>1, <3>2, MergeIsValid
      <3> QED  BY <3>1, <3>3, <3>4
    <2>2. MovesInv => KeptPairsAreMergeable
      BY <2>1 DEF KeptPairsAreMergeable, Pairs
    <2> QED  BY <2>2
  <1> QED  BY <1>1, MultigraphIsOfThePlan, PTL
=============================================================================
