-------------------------- MODULE LinkedPlanProofs --------------------------
(***************************************************************************)
(* Proofs about LinkedPlan, for every map, every layout of counties and    *)
(* every way to draw the trees.  Whatever rounds are run, the trees under  *)
(* the regions and the edges that link them make one tree of the plan that *)
(* is in one piece within every county.  The search for cuts answers with  *)
(* the cuts of the tree it was given, all of them; so what is kept of it   *)
(* on the linking edges stays right, and the effective boundary, computed  *)
(* in another way, agrees with it.  And, of TreeSampling, which draws the  *)
(* trees, proofs that what it ends with is a hierarchical tree of the      *)
(* region.                                                                 *)
(***************************************************************************)
EXTENDS LinkedPlan, TreeSampling, FiniteStructures, SequenceTheorems

\* The map is finite, and every adjacency has two ends.
LEMMA GraphFacts ==
    /\ IsFiniteSet(Vertices) /\ \A S \in SUBSET Vertices : IsFiniteSet(S)
    /\ IsFiniteSet(Edges) /\ \A E \in SUBSET Edges : IsFiniteSet(E) /\ Links(E)
    /\ \A e \in Edges : \E u, v \in Vertices : u # v /\ e = {u, v}
  <1>1. IsFiniteSet(Vertices) /\ \A S \in SUBSET Vertices : IsFiniteSet(S)
    BY MapAssumption, FS_Subset
  <1>2. IsFiniteSet(Edges) /\ \A e \in Edges : \E u, v \in Vertices : u # v /\ e = {u, v}
    <2>1. \A e \in Edges : e \subseteq Vertices /\ Cardinality(e) = 2
      BY MapAssumption
    <2> QED  BY <1>1, <2>1, EdgesHaveEnds
  <1>3. \A E \in SUBSET Edges : IsFiniteSet(E) /\ Links(E)
    BY <1>2, FS_Subset DEF Links
  <1> QED  BY <1>1, <1>2, <1>3

\* A hierarchical tree of the map, by what makes it so.
LEMMA HierarchicalTreesAre ==
    ASSUME NEW S \in SUBSET Vertices, S # {}, NEW T, NEW c
    PROVE  /\ T \in HierarchicalTrees(c, S) <=> (T \in SUBSET Edges /\ IsHierarchicalTree(c, S, T))
           /\ IsHierarchicalTree(c, S, T) <=> (IsTree(S, T) /\ \A v \in S : Connected(CountyPart(c, S, c[v]), T))
  <1>1. T \in SpanningTrees(S) <=> T \in SUBSET Edges /\ IsTree(S, T)
    BY GraphFacts, FewestToConnect DEF SpanningTrees
  <1> QED  BY <1>1 DEF HierarchicalTrees, Hierarchical, CountiesIn, IsHierarchicalTree

\* There is no hierarchical tree on no precinct.
LEMMA NoTreeOnNothing == \A c : HierarchicalTrees(c, {}) = {}
  <1>1. \A T \in SUBSET Edges : Cardinality(T) \in Nat
    BY GraphFacts, FS_CardinalityType
  <1>2. Cardinality({}) - 1 \notin Nat
    BY FS_EmptySet
  <1>3. kSubset(Cardinality({}) - 1, Inside({}, Edges)) = {}
    BY <1>1, <1>2 DEF kSubset, Inside
  <1> QED  BY <1>3 DEF HierarchicalTrees, SpanningTrees

\* A hierarchical tree of the map, cut at one of its edges.
LEMMA HierarchicalCut ==
    ASSUME NEW c, NEW S \in SUBSET Vertices, NEW T \in HierarchicalTrees(c, S), NEW x, NEW y, {x, y} \in T, x # y
    PROVE  /\ S # {} /\ T \in SUBSET Edges /\ IsTree(S, T)
           /\ CutInTwo(S, T, x, y, SideOf(S, T, x, y), SideOf(S, T, y, x))
           /\ \A A \in {SideOf(S, T, x, y), SideOf(S, T, y, x)} :
                 A \in SUBSET S /\ Inside(A, T) \in HierarchicalTrees(c, A)
  <1>1. S # {}
    BY NoTreeOnNothing
  <1>2. T \in SUBSET Edges /\ IsHierarchicalTree(c, S, T) /\ IsTree(S, T)
    BY <1>1, HierarchicalTreesAre
  <1>3. /\ CutInTwo(S, T, x, y, SideOf(S, T, x, y), SideOf(S, T, y, x))
        /\ \A A \in {SideOf(S, T, x, y), SideOf(S, T, y, x)} :
              A # {} /\ A \in SUBSET S /\ IsHierarchicalTree(c, A, Inside(A, T))
    BY <1>2, HierarchicalTreeCut
  <1>4. ASSUME NEW A, A # {}, A \in SUBSET S, IsHierarchicalTree(c, A, Inside(A, T))
        PROVE  Inside(A, T) \in HierarchicalTrees(c, A)
    <2>1. Inside(A, T) \in SUBSET Edges /\ A \in SUBSET Vertices
      BY <1>2, <1>4 DEF Inside
    <2> QED  BY <1>4, <2>1, HierarchicalTreesAre
  <1> QED  BY <1>1, <1>2, <1>3, <1>4

\* A hierarchical tree on a part takes the place of the edges that joined it.
LEMMA HierarchicalExchange ==
    ASSUME NEW c, NEW X \in SUBSET Vertices, NEW G \in HierarchicalTrees(c, X),
           NEW S, NEW T \in HierarchicalTrees(c, S), NEW K, StaysAround(X, G, S, K)
    PROVE  K \cup T \in HierarchicalTrees(c, X) /\ \A e \in K : ~(e \subseteq S)
  <1>1. X # {} /\ S # {} /\ S \in SUBSET Vertices /\ K \in SUBSET G
    BY NoTreeOnNothing DEF StaysAround
  <1>2. G \in SUBSET Edges /\ T \in SUBSET Edges /\ IsHierarchicalTree(c, X, G) /\ IsHierarchicalTree(c, S, T)
    BY <1>1, HierarchicalTreesAre
  <1>3. IsHierarchicalTree(c, X, K \cup T) /\ \A e \in K : ~(e \subseteq S)
    BY <1>2, HierarchicalTreeExchange
  <1>4. K \cup T \in SUBSET Edges
    BY <1>1, <1>2
  <1> QED  BY <1>1, <1>3, <1>4, HierarchicalTreesAre

\* An edge crosses when its ends have different regions.
LEMMA CrossesIs ==
    ASSUME NEW ids, NEW a, NEW b
    PROVE  Crosses(ids, {a, b}) <=> ids[a] # ids[b]
  <1>1. RegionsOf(ids, {a, b}) = {ids[a], ids[b]}
    BY DEF RegionsOf
  <1>2. CASE ids[a] = ids[b]
    <2>1. RegionsOf(ids, {a, b}) = {ids[a]}
      BY <1>1, <1>2
    <2> QED  BY <1>2, <2>1, FS_Singleton DEF Crosses
  <1>3. CASE ids[a] # ids[b]
    <2>1. IsFiniteSet({ids[a]}) /\ Cardinality({ids[a]}) = 1
      BY FS_Singleton
    <2> DEFINE one == {ids[a]}
    <2>4. IsFiniteSet(one) /\ Cardinality(one) = 1 /\ ids[b] \notin one
      BY <1>3, <2>1
    <2> HIDE DEF one
    <2>5. Cardinality(one \cup {ids[b]}) = Cardinality(one) + 1
      BY <2>4, FS_AddElement
    <2>2. Cardinality({ids[a]} \cup {ids[b]}) = 2
      BY <2>4, <2>5 DEF one
    <2>3. {ids[a]} \cup {ids[b]} = {ids[a], ids[b]}
      OBVIOUS
    <2> QED  BY <1>1, <1>3, <2>2, <2>3 DEF Crosses
  <1> QED  BY <1>2, <1>3

\* F holds a tree for every region and nothing else, and with the edges L
\* between regions it is one tree on the map; all hierarchical.
IsLinked(ids, n, F, L) ==
    /\ ids \in [Vertices -> 0 .. n - 1]
    /\ \A r \in 0 .. n - 1 : Inside(Region(ids, r), F) \in HierarchicalTrees(county, Region(ids, r))
    /\ F \in SUBSET Edges /\ \A e \in F : ~Crosses(ids, e)
    /\ \A e \in L : Crosses(ids, e)
    /\ F \cup L \in HierarchicalTrees(county, Vertices)

\* What a cut of a tree on S keeps.
Apart(F, S) == {e \in F : e \cap S = {}}

\* S holds the regions r1 and r2 of ids, which need not both be there, and the
\* other regions have trees in F.
IsCutOut(ids, n, F, S, r1, r2) ==
    /\ r1 \in 0 .. n - 1 /\ r2 \in 0 .. n - 1 /\ r1 # r2
    /\ ids \in [Vertices -> 0 .. n - 1]
    /\ S = {v \in Vertices : ids[v] \in {r1, r2}}
    /\ F \in SUBSET Edges /\ \A e \in F : ~Crosses(ids, e)
    /\ \A r \in (0 .. n - 1) \ {r1, r2} :
          Inside(Region(ids, r), F) \in HierarchicalTrees(county, Region(ids, r))

\* The plan that cuts the tree T on S at the edge from x to y.
CutIds(ids, S, T, x, y, r1, r2) ==
    [v \in Vertices |-> IF v \in SideOf(S, T, x, y) THEN r1 ELSE IF v \in S THEN r2 ELSE ids[v]]

\* A cut of a tree on a set of regions leaves the whole linked.
LEMMA CutIsLinked ==
    ASSUME NEW ids, NEW n, NEW F, NEW S, NEW r1, NEW r2, IsCutOut(ids, n, F, S, r1, r2),
           NEW T \in HierarchicalTrees(county, S), NEW x, NEW y, {x, y} \in T, x # y,
           NEW K, \A e \in K : Crosses(ids, e) /\ ~(e \subseteq S) /\ e \in Edges,
           Apart(F, S) \cup K \cup T \in HierarchicalTrees(county, Vertices)
    PROVE  IsLinked(CutIds(ids, S, T, x, y, r1, r2), n,
                    Apart(F, S) \cup (T \ {{x, y}}), K \cup {{x, y}})
  <1> DEFINE A == SideOf(S, T, x, y)
             B == SideOf(S, T, y, x)
             new == CutIds(ids, S, T, x, y, r1, r2)
             F2 == Apart(F, S) \cup (T \ {{x, y}})
             L2 == K \cup {{x, y}}
  <1>1. /\ r1 \in 0 .. n - 1 /\ r2 \in 0 .. n - 1 /\ r1 # r2
        /\ ids \in [Vertices -> 0 .. n - 1]
        /\ S = {v \in Vertices : ids[v] \in {r1, r2}}
        /\ F \in SUBSET Edges /\ \A e \in F : ~Crosses(ids, e)
    BY DEF IsCutOut
  <1>10. S \in SUBSET Vertices
    BY <1>1
  <1>2. /\ S # {} /\ T \in SUBSET Edges /\ IsTree(S, T) /\ CutInTwo(S, T, x, y, A, B)
        /\ Inside(A, T) \in HierarchicalTrees(county, A) /\ Inside(B, T) \in HierarchicalTrees(county, B)
    BY <1>10, HierarchicalCut
  <1>3. /\ A \in SUBSET S /\ B = S \ A /\ x \in A /\ y \in B /\ A # {} /\ B # {}
        /\ \A f \in T \ {{x, y}} : f \subseteq A \/ f \subseteq B
    BY <1>2 DEF CutInTwo, Sides
  <1>4. new = [v \in Vertices |-> IF v \in A THEN r1 ELSE IF v \in S THEN r2 ELSE ids[v]]
    BY DEF CutIds
  <1> HIDE DEF A, B, new
  <1>5. new \in [Vertices -> 0 .. n - 1]
    BY <1>1, <1>4
  <1>6. Region(new, r1) = A /\ Region(new, r2) = B
    BY <1>1, <1>3, <1>4 DEF Region
  <1>7. ASSUME NEW r \in (0 .. n - 1) \ {r1, r2}
        PROVE  Region(new, r) = Region(ids, r) /\ Region(ids, r) \cap S = {}
    BY <1>1, <1>3, <1>4 DEF Region
  <1>8. \A e \in Edges : \E a, b \in Vertices : a # b /\ e = {a, b}
    BY GraphFacts
  <1>9. \A e \in F : e \subseteq S \/ e \cap S = {}
    <2> TAKE e \in F
    <2>1. PICK a, b \in Vertices : e = {a, b}
      BY <1>1, <1>8
    <2>2. ids[a] = ids[b]
      BY <1>1, <2>1, CrossesIs
    <2> QED  BY <1>1, <2>1, <2>2
  <1>11. F2 \in SUBSET Edges /\ \A e \in F2 : ~Crosses(new, e)
    <2>1. F2 \in SUBSET Edges
      BY <1>1, <1>2 DEF Apart
    <2>2. ASSUME NEW e \in F2
          PROVE  ~Crosses(new, e)
      <3>1. PICK a, b \in Vertices : a # b /\ e = {a, b}
        BY <1>8, <2>1
      <3>2. new[a] = new[b]
        <4>1. CASE e \in Apart(F, S)
          <5>1. ids[a] = ids[b]
            BY <1>1, <3>1, <4>1, CrossesIs DEF Apart
          <5> QED  BY <1>1, <1>3, <1>4, <3>1, <4>1, <5>1 DEF Apart
        <4>2. CASE e \in T \ {{x, y}}
          BY <1>1, <1>3, <1>4, <3>1, <4>2
        <4> QED  BY <4>1, <4>2
      <3> QED  BY <3>1, <3>2, CrossesIs
    <2> QED  BY <2>1, <2>2
  <1>12. \A e \in L2 : Crosses(new, e)
    <2>1. Crosses(new, {x, y})
      <3>1. new[x] # new[y]
        BY <1>1, <1>3, <1>4
      <3> QED  BY <3>1, CrossesIs
    <2>2. ASSUME NEW e \in K
          PROVE  Crosses(new, e)
      <3>1. PICK a, b \in Vertices : a # b /\ e = {a, b}
        BY <1>8
      <3>2. ids[a] # ids[b] /\ ~(a \in S /\ b \in S)
        BY <3>1, CrossesIs
      <3>3. new[a] # new[b]
        BY <1>1, <1>3, <1>4, <3>1, <3>2
      <3> QED  BY <3>1, <3>3, CrossesIs
    <2> QED  BY <2>1, <2>2
  <1>13. F2 \cup L2 = Apart(F, S) \cup K \cup T
    OBVIOUS
  <1>14. Inside(A, F2) = Inside(A, T) /\ Inside(B, F2) = Inside(B, T)
    <2>1. \A e \in Apart(F, S) : ~(e \subseteq S)
      BY <1>1, <1>8 DEF Apart
    <2> QED  BY <1>3, <2>1 DEF Inside
  <1>15. ASSUME NEW r \in 0 .. n - 1
         PROVE  Inside(Region(new, r), F2) \in HierarchicalTrees(county, Region(new, r))
    <2>1. CASE r = r1
      BY <1>2, <1>6, <1>14, <2>1
    <2>2. CASE r = r2
      BY <1>2, <1>6, <1>14, <2>2
    <2>3. CASE r \notin {r1, r2}
      <3>1. Region(new, r) = Region(ids, r) /\ Region(ids, r) \cap S = {}
        BY <1>7, <2>3
      <3>2. \A e \in T : e # {} /\ e \subseteq S
        BY <1>2 DEF IsTree, Links
      <3>3. Inside(Region(ids, r), F2) = Inside(Region(ids, r), F)
        <4>1. \A e \in F : e \subseteq Region(ids, r) => e \cap S = {}
          BY <3>1
        <4>2. \A e \in T : ~(e \subseteq Region(ids, r))
          BY <3>1, <3>2
        <4> QED  BY <4>1, <4>2 DEF Inside, Apart
      <3>4. Inside(Region(ids, r), F) \in HierarchicalTrees(county, Region(ids, r))
        BY <2>3 DEF IsCutOut
      <3> QED  BY <3>1, <3>3, <3>4
    <2> QED  BY <2>1, <2>2, <2>3
  <1> HIDE DEF F2, L2
  <1>16. IsLinked(new, n, F2, L2)
    <2>1. F2 \cup L2 \in HierarchicalTrees(county, Vertices)
      BY <1>13
    <2> QED  BY <1>5, <1>11, <1>12, <1>15, <2>1 DEF IsLinked
  <1> QED  BY <1>16 DEF F2, L2, new

\* Where a search starts, from what an earlier one left.
ScanStart(rt, scan) == Descend([scan EXCEPT !.path = <<>>, !.seen = {}], rt)

\* What holds at the start and after every step holds when the search is done.
LEMMA ScanStays ==
    ASSUME NEW T, IsFiniteSet(T), NEW total, NEW opts, NEW rt, NEW scan, NEW D,
           ScanStart(rt, scan) \in D, \A s \in D : SearchStep(T, total, opts, s) \in D
    PROVE  ScanTree(T, total, opts, rt, scan) \in D
  <1> DEFINE N == 2 * Cardinality(T)
             F == [s \in D |-> SearchStep(T, total, opts, s)]
             h == [k \in 1 .. N |-> F]
             a == ScanStart(rt, scan)
             Scanned(f) == f = [k \in 0 .. N |->
                 IF k = 0 THEN Descend([scan EXCEPT !.path = <<>>, !.seen = {}], rt)
                 ELSE SearchStep(T, total, opts, f[k - 1])]
             found == CHOOSE f : Scanned(f)
  <1>0. N \in Nat
    BY FS_CardinalityType
  <1>1. F \in [D -> D] /\ h \in [1 .. N -> [D -> D]] /\ a \in D
    OBVIOUS
  <1>2. a = Descend([scan EXCEPT !.path = <<>>, !.seen = {}], rt)
    BY DEF ScanStart
  <1>3. \E f \in [0 .. N -> D] : Scanned(f)
    <2>1. PICK f \in [0 .. N -> D] : IsIteration(f, N, a, h)
      <3> HIDE DEF N, h, a
      <3> QED  BY <1>0, <1>1, IterationExists
    <2>2. \A k \in 0 .. N : k # 0 => k \in 1 .. N /\ k - 1 \in 0 .. N
      BY <1>0
    <2>3. \A k \in 0 .. N : k # 0 => h[k][f[k - 1]] = SearchStep(T, total, opts, f[k - 1])
      BY <2>2
    <2> HIDE DEF h, N, a
    <2>4. Scanned(f)
      BY <1>2, <2>1, <2>3 DEF IsIteration
    <2> QED  BY <2>4
  <1>4. Scanned(found)
    <2> HIDE DEF Scanned
    <2> QED  BY <1>3
  <1>5. ScanTree(T, total, opts, rt, scan) = found[N]
    BY DEF ScanTree
  <1> HIDE DEF found
  <1> DEFINE S == {k \in Nat : k <= N => found[k] \in D}
  <1>6. 0 \in S
    <2>1. found[0] = Descend([scan EXCEPT !.path = <<>>, !.seen = {}], rt)
      BY <1>0, <1>4
    <2> QED  BY <1>1, <1>2, <2>1
  <1>7. ASSUME NEW k \in Nat, k \in S
        PROVE  k + 1 \in S
    <2> SUFFICES ASSUME k + 1 <= N
                 PROVE  found[k + 1] \in D
      OBVIOUS
    <2>1. k + 1 \in 0 .. N /\ k + 1 # 0 /\ (k + 1) - 1 = k
      BY <1>0
    <2>2. found[k + 1] = SearchStep(T, total, opts, found[k])
      BY <1>4, <2>1
    <2>3. found[k] \in D
      BY <1>0, <1>7, <2>1
    <2> QED  BY <2>2, <2>3
  <1>8. Nat \subseteq S
    <2> HIDE DEF S
    <2> QED  BY <1>6, <1>7, SetInduction
  <1>9. found[N] \in D
    BY <1>0, <1>8
  <1> QED  BY <1>5, <1>9

\* The most of some numbers of the map.
LEMMA MostIs ==
    ASSUME NEW S \in SUBSET Vertices, S # {}
    PROVE  Max(S) \in S /\ \A x \in S : x <= Max(S)
  <1>1. IsFiniteSet(S)
    BY GraphFacts
  <1> DEFINE Good == {R \in SUBSET S : R # {} => \E m \in R : \A x \in R : x <= m}
  <1>2. {} \in Good
    OBVIOUS
  <1>3. ASSUME NEW R \in SUBSET S, NEW z \in S \ R, R \in Good
        PROVE  R \cup {z} \in Good
    <2>0. \A x \in S : x \in Nat
      BY MapAssumption
    <2>1. CASE R = {}
      BY <2>0, <2>1
    <2>2. CASE R # {}
      <3>1. PICK m \in R : \A x \in R : x <= m
        BY <1>3, <2>2
      <3>2. \E k \in R \cup {z} : \A x \in R \cup {z} : x <= k
        <4>1. CASE z <= m
          BY <2>0, <3>1, <4>1
        <4>2. CASE ~(z <= m)
          BY <2>0, <3>1, <4>2
        <4> QED  BY <4>1, <4>2
      <3> QED  BY <3>2
    <2> QED  BY <2>1, <2>2
  <1>4. S \in Good
    <2> HIDE DEF Good
    <2> QED  BY <1>1, <1>2, <1>3, SubsetInduction
  <1>5. PICK m \in S : \A x \in S : x <= m
    BY <1>4
  <1>6. m >= m /\ \A x \in S : m >= x
    BY <1>5, MapAssumption
  <1>7. Max(S) \in S /\ \A x \in S : Max(S) >= x
    BY <1>6 DEF Max
  <1>8. Max(S) \in Nat /\ \A x \in S : x \in Nat
    BY <1>7, MapAssumption
  <1> QED  BY <1>7, <1>8

\* Neighbours in a set of edges of the map.
LEMMA NeighborsAre ==
    ASSUME NEW T \in SUBSET Edges, NEW v
    PROVE  Neighbors(T, v) = {u \in Vertices : {v, u} \in T /\ u # v}
  <1>1. \A e \in T : \E a, b \in Vertices : a # b /\ e = {a, b}
    BY GraphFacts
  <1>2. ASSUME NEW u \in Neighbors(T, v)
        PROVE  u \in Vertices /\ {v, u} \in T /\ u # v
    <2>1. PICK e \in T : v \in e /\ u \in e /\ u # v
      BY <1>2 DEF Neighbors
    <2>2. PICK a, b \in Vertices : e = {a, b}
      BY <1>1
    <2>3. e = {v, u} /\ u \in Vertices
      BY <2>1, <2>2
    <2> QED  BY <2>1, <2>3
  <1>3. ASSUME NEW u \in Vertices, {v, u} \in T, u # v
        PROVE  u \in Neighbors(T, v)
    BY <1>3 DEF Neighbors
  <1> QED  BY <1>2, <1>3

\* The cuts there could be: an edge of the tree either way round, with a number
\* of seats that is tried.
TreeCuts(T, total, opts) ==
    {cut \in [vertex : Vertices, parent : Vertices,
              size : opts.smaller_cut_sizes \cup {total.size - t : t \in opts.smaller_cut_sizes}] :
        cut.vertex # cut.parent /\ {cut.vertex, cut.parent} \in T}

\* The ways along a tree.
Walks(T) ==
    {p \in Seq(Vertices) : /\ p # <<>>
                           /\ \A i \in 1 .. Len(p) - 1 : p[i] # p[i + 1] /\ {p[i], p[i + 1]} \in T}

\* A walk can go on to a neighbour, and one step back.
LEMMA WalkOn ==
    ASSUME NEW T, NEW p \in Walks(T), NEW v \in Vertices, v # p[Len(p)], {p[Len(p)], v} \in T
    PROVE  Append(p, v) \in Walks(T)
  <1> DEFINE n == Len(p)
             q == Append(p, v)
  <1>1. p \in Seq(Vertices) /\ p # <<>> /\ \A i \in 1 .. n - 1 : p[i] # p[i + 1] /\ {p[i], p[i + 1]} \in T
    BY DEF Walks
  <1>2. n \in Nat /\ n # 0 /\ q \in Seq(Vertices) /\ Len(q) = n + 1 /\ q[n + 1] = v
        /\ \A i \in 1 .. n : q[i] = p[i]
    BY <1>1
  <1> HIDE DEF n, q
  <1>3. ASSUME NEW i \in 1 .. Len(q) - 1
        PROVE  q[i] # q[i + 1] /\ {q[i], q[i + 1]} \in T
    <2>1. CASE i = n
      <3>1. q[i] = p[n] /\ q[i + 1] = v
        BY <1>2, <2>1
      <3> QED  BY <3>1 DEF n
    <2>2. CASE i # n
      <3>1. i \in 1 .. n - 1 /\ i \in 1 .. n /\ i + 1 \in 1 .. n
        BY <1>2, <2>2
      <3>2. q[i] = p[i] /\ q[i + 1] = p[i + 1]
        BY <1>2, <3>1
      <3> QED  BY <1>1, <3>1, <3>2
    <2> QED  BY <2>1, <2>2
  <1>4. q # <<>>
    <2>1. Len(<<>>) = 0
      OBVIOUS
    <2> QED  BY <1>2, <2>1
  <1> QED  BY <1>2, <1>3, <1>4 DEF Walks, q

\* The way back from the end of a walk is one along an edge.
LEMMA WalkBack ==
    ASSUME NEW T, NEW p \in Walks(T), Len(p) # 1
    PROVE  /\ Len(p) \in Nat /\ Len(p) - 1 \in 1 .. Len(p) - 1
           /\ SubSeq(p, 1, Len(p) - 1) \in Walks(T)
           /\ p[Len(p) - 1] \in Vertices /\ p[Len(p)] # p[Len(p) - 1] /\ {p[Len(p)], p[Len(p) - 1]} \in T
  <1> DEFINE n == Len(p)
             q == SubSeq(p, 1, n - 1)
  <1>1. p \in Seq(Vertices) /\ p # <<>> /\ \A i \in 1 .. n - 1 : p[i] # p[i + 1] /\ {p[i], p[i + 1]} \in T
    BY DEF Walks
  <1>2. n \in Nat /\ n # 0 /\ n # 1
    BY <1>1
  <1>3. q \in Seq(Vertices) /\ Len(q) = n - 1 /\ \A i \in 1 .. n - 1 : q[i] = p[i]
    <2>1. 1 \in 1 .. Len(p) + 1 /\ n - 1 \in 1 - 1 .. Len(p)
      BY <1>2
    <2>2. /\ q \in Seq(Vertices) /\ Len(q) = (IF 1 <= n - 1 THEN (n - 1) - 1 + 1 ELSE 0)
          /\ \A i \in 1 .. (n - 1) - 1 + 1 : q[i] = p[1 + i - 1]
      BY <1>1, <2>1, SubSeqProperties
    <2> HIDE DEF q, n
    <2> QED  BY <1>2, <2>2
  <1>4. n - 1 \in 1 .. n - 1 /\ (n - 1) + 1 = n /\ n - 1 \in 1 .. Len(p)
    <2>1. n - 1 \in 1 .. n - 1 /\ (n - 1) + 1 = n /\ n - 1 \in 1 .. n
      <3> HIDE DEF n
      <3> QED  BY <1>2
    <2> QED  BY <2>1
  <1>5. p[n - 1] \in Vertices
    BY <1>1, <1>4
  <1>6. p[n - 1] # p[n] /\ {p[n - 1], p[n]} \in T
    <2>1. p[n - 1] # p[(n - 1) + 1] /\ {p[n - 1], p[(n - 1) + 1]} \in T
      BY <1>1, <1>4
    <2> HIDE DEF n
    <2> QED  BY <1>4, <2>1
  <1>7. {p[n - 1], p[n]} = {p[n], p[n - 1]}
    OBVIOUS
  <1> HIDE DEF n, q
  <1>8. q \in Walks(T)
    <2>1. q # <<>>
      <3>1. Len(<<>>) = 0
        OBVIOUS
      <3> QED  BY <1>2, <1>3, <3>1
    <2>2. ASSUME NEW i \in 1 .. Len(q) - 1
          PROVE  q[i] # q[i + 1] /\ {q[i], q[i + 1]} \in T
      <3>1. i \in 1 .. n - 1 /\ i + 1 \in 1 .. n - 1
        BY <1>2, <1>3
      <3>2. q[i] = p[i] /\ q[i + 1] = p[i + 1]
        BY <1>3, <3>1
      <3> QED  BY <1>1, <3>1, <3>2
    <2> QED  BY <1>3, <2>1, <2>2 DEF Walks
  <1> QED  BY <1>2, <1>4, <1>5, <1>6, <1>7, <1>8 DEF n, q

\* A walk ends somewhere on the map.
LEMMA WalkEnd ==
    ASSUME NEW T, NEW p \in Walks(T)
    PROVE  p[Len(p)] \in Vertices /\ Len(p) \in Nat \ {0}
  BY DEF Walks

\* The searches under way: the path goes along the tree.
Scans(T, total, opts) ==
    [path : Walks(T), seen : SUBSET Vertices, below : [Vertices -> Int],
     no_valid_edges : SUBSET Vertices, cuts : SUBSET TreeCuts(T, total, opts)]

\* The second visit of a vertex.
LEMMA RevisitIs ==
    ASSUME NEW T \in SUBSET Edges, NEW total, total.pop \in Int, NEW opts,
           NEW scan \in Scans(T, total, opts),
           NEW vtx \in Vertices, NEW parent \in Vertices, vtx # parent, {vtx, parent} \in T
    PROVE  Revisit(T, total, opts, vtx, parent, scan) \in Scans(T, total, opts)
  <1> DEFINE hanging == Neighbors(T, vtx) \ {parent}
             below_pop == Pop[vtx] + MapThenSumSet(LAMBDA c : scan.below[c], hanging)
             above_pop == total.pop - below_pop
             counted == [scan EXCEPT !.below[vtx] = below_pop]
             sizes == for_each_valid_population_split_from_edge(total.size, below_pop, above_pop, opts)
             found == {[vertex |-> vtx, parent |-> parent, size |-> s] : s \in sizes}
  <1>1. below_pop \in Int
    <2>1. hanging \in SUBSET Vertices
      <3>1. Neighbors(T, vtx) \in SUBSET Vertices
        BY NeighborsAre
      <3> QED  BY <3>1
    <2>0. scan.below \in [Vertices -> Int]
      BY DEF Scans
    <2> HIDE DEF hanging
    <2>2. IsFiniteSet(hanging) /\ \A c \in hanging : scan.below[c] \in Int
      BY <2>0, <2>1, GraphFacts
    <2>3. Total(scan.below, hanging) \in Int
      BY <2>2, TotalType
    <2> QED  BY <2>3, PopAssumption DEF Total
  <1> HIDE DEF below_pop
  <1>2. found \in SUBSET TreeCuts(T, total, opts)
    <2>1. sizes \in SUBSET (opts.smaller_cut_sizes
                               \cup {total.size - t : t \in opts.smaller_cut_sizes})
      BY DEF for_each_valid_population_split_from_edge
    <2> DEFINE Z == opts.smaller_cut_sizes \cup {total.size - t : t \in opts.smaller_cut_sizes}
    <2>2. ASSUME NEW s \in sizes
          PROVE  [vertex |-> vtx, parent |-> parent, size |-> s] \in TreeCuts(T, total, opts)
      <3>1. s \in Z
        BY <2>1
      <3> HIDE DEF Z
      <3>2. [vertex |-> vtx, parent |-> parent, size |-> s] \in
               {cut \in [vertex : Vertices, parent : Vertices, size : Z] :
                   cut.vertex # cut.parent /\ {cut.vertex, cut.parent} \in T}
        BY <3>1
      <3> QED  BY <3>2 DEF TreeCuts, Z
    <2> QED  BY <2>2
  <1>3. Revisit(T, total, opts, vtx, parent, scan) \in
           {[scan EXCEPT !.no_valid_edges = @ \cup {parent}], scan, counted,
            [counted EXCEPT !.no_valid_edges = @ \cup {parent}],
            [counted EXCEPT !.cuts = @ \cup found]}
    BY DEF Revisit, below_pop
  <1> HIDE DEF found
  <1>4. [scan EXCEPT !.no_valid_edges = @ \cup {parent}] \in Scans(T, total, opts)
    BY DEF Scans
  <1>5. counted \in Scans(T, total, opts)
    BY <1>1 DEF Scans
  <1> HIDE DEF counted
  <1>6. [counted EXCEPT !.no_valid_edges = @ \cup {parent}] \in Scans(T, total, opts)
    BY <1>5 DEF Scans
  <1>7. [counted EXCEPT !.cuts = @ \cup found] \in Scans(T, total, opts)
    BY <1>2, <1>5 DEF Scans
  <1> QED  BY <1>3, <1>4, <1>5, <1>6, <1>7

\* One step of a search.
LEMMA SearchStepIs ==
    ASSUME NEW T \in SUBSET Edges, NEW total, total.pop \in Int, NEW opts,
           NEW scan \in Scans(T, total, opts)
    PROVE  SearchStep(T, total, opts, scan) \in Scans(T, total, opts)
  <1> DEFINE p == scan.path
             depth == Len(p)
             vtx == p[depth]
             ahead == Neighbors(T, vtx) \ scan.seen
             parent == p[depth - 1]
  <1>1. p \in Walks(T)
    BY DEF Scans
  <1>2. vtx \in Vertices /\ depth \in Nat \ {0}
    BY <1>1, WalkEnd
  <1>3. SearchStep(T, total, opts, scan) =
          IF ahead # {} THEN Descend(scan, Max(ahead))
          ELSE IF depth = 1 THEN scan
          ELSE [Revisit(T, total, opts, vtx, parent, scan) EXCEPT !.path = SubSeq(@, 1, depth - 1)]
    BY DEF SearchStep
  <1>4. ahead \in SUBSET Vertices /\ \A u \in ahead : {vtx, u} \in T /\ u # vtx
    <2>1. Neighbors(T, vtx) = {u \in Vertices : {vtx, u} \in T /\ u # vtx}
      BY NeighborsAre
    <2> QED  BY <2>1
  <1>5. CASE ahead # {}
    <2> DEFINE next == Max(ahead)
    <2> HIDE DEF ahead
    <2>1. next \in Vertices /\ {vtx, next} \in T /\ next # vtx
      BY <1>4, <1>5, MostIs
    <2> HIDE DEF next
    <2>2. Append(p, next) \in Walks(T)
      BY <1>1, <2>1, WalkOn
    <2> DEFINE longer == Append(p, next)
               reached == scan.seen \cup {next}
               waiting == scan.no_valid_edges \ {next}
    <2>3. Descend(scan, next) = [scan EXCEPT !.path = longer, !.seen = reached, !.no_valid_edges = waiting]
      BY DEF Descend
    <2>5. longer \in Walks(T) /\ reached \in SUBSET Vertices /\ waiting \in SUBSET Vertices
      BY <2>1, <2>2 DEF Scans
    <2> HIDE DEF longer, reached, waiting, p
    <2>4. Descend(scan, next) \in Scans(T, total, opts)
      BY <2>3, <2>5 DEF Scans
    <2> QED  BY <1>3, <1>5, <2>4 DEF next
  <1>6. CASE ahead = {} /\ depth = 1
    BY <1>3, <1>6
  <1>7. CASE ahead = {} /\ depth # 1
    <2> DEFINE revisited == Revisit(T, total, opts, vtx, parent, scan)
    <2>1. parent \in Vertices /\ vtx # parent /\ {vtx, parent} \in T
          /\ SubSeq(p, 1, depth - 1) \in Walks(T)
      BY <1>1, <1>7, WalkBack
    <2> HIDE DEF parent, vtx, depth
    <2>2. revisited \in Scans(T, total, opts)
      BY <1>2, <2>1, RevisitIs
    <2>3. revisited.path = p
      BY DEF Revisit
    <2> HIDE DEF revisited, p
    <2>4. [revisited EXCEPT !.path = SubSeq(@, 1, depth - 1)] \in Scans(T, total, opts)
      BY <2>1, <2>2, <2>3 DEF Scans
    <2> QED  BY <1>3, <1>7, <2>4 DEF revisited
  <1> QED  BY <1>5, <1>6, <1>7

\* What the search of a tree finds are cuts of that tree.
THEOREM CutsAreOfTheTree ==
    ASSUME NEW T \in SUBSET Edges, NEW rt \in Vertices, NEW scratch \in [Vertices -> Int],
           NEW total, total.pop \in Int, NEW opts
    PROVE  get_all_valid_edges_in_directed_tree(T, rt, scratch, total, opts)
              \in SUBSET TreeCuts(T, total, opts)
  <1>1. IsFiniteSet(T)
    BY GraphFacts
  <1>2. ScanStart(rt, Scan(scratch)) \in Scans(T, total, opts)
    <2>1. Append(<<>>, rt) \in Walks(T)
      BY DEF Walks
    <2> DEFINE fresh == [Scan(scratch) EXCEPT !.path = <<>>, !.seen = {}]
    <2>2. fresh = [path |-> <<>>, seen |-> {}, below |-> scratch, no_valid_edges |-> {}, cuts |-> {}]
      <3> DEFINE none == <<>>
                 first == [path |-> none, seen |-> {}, below |-> scratch, no_valid_edges |-> {}, cuts |-> {}]
      <3>1. Scan(scratch) = first
        BY DEF Scan
      <3>2. fresh = [first EXCEPT !.path = none, !.seen = {}]
        BY <3>1
      <3> HIDE DEF none, fresh
      <3>3. fresh = first
        BY <3>2
      <3> QED  BY <3>3 DEF none
    <2>3. Descend(fresh, rt) = [path |-> Append(<<>>, rt), seen |-> {rt}, below |-> scratch,
                                  no_valid_edges |-> {}, cuts |-> {}]
      <3>1. Descend(fresh, rt) = [fresh EXCEPT !.path = Append(fresh.path, rt), !.seen = fresh.seen \cup {rt},
                                                !.no_valid_edges = fresh.no_valid_edges \ {rt}]
        BY DEF Descend
      <3> HIDE DEF fresh
      <3> DEFINE q == Append(<<>>, rt)
      <3>2. q = Append(fresh.path, rt)
        BY <2>2
      <3> HIDE DEF q
      <3>3. Descend(fresh, rt) = [path |-> q, seen |-> {rt}, below |-> scratch,
                                  no_valid_edges |-> {}, cuts |-> {}]
        BY <2>2, <3>1, <3>2
      <3> QED  BY <3>3 DEF q
    <2> HIDE DEF fresh
    <2>4. Descend(fresh, rt) \in Scans(T, total, opts)
      BY <2>1, <2>3 DEF Scans
    <2> QED  BY <2>4 DEF ScanStart, fresh
  <1>3. \A s \in Scans(T, total, opts) : SearchStep(T, total, opts, s) \in Scans(T, total, opts)
    BY SearchStepIs
  <1>4. ScanTree(T, total, opts, rt, Scan(scratch)) \in Scans(T, total, opts)
    BY <1>1, <1>2, <1>3, ScanStays
  <1> QED  BY <1>4 DEF get_all_valid_edges_in_directed_tree, Scans

\* Populations are integers.
LEMMA PopType == \A S \in SUBSET Vertices : PopOf(S) \in Int
  <1> TAKE S \in SUBSET Vertices
  <1>1. IsFiniteSet(S) /\ \A v \in S : Pop[v] \in Int
    BY GraphFacts, PopAssumption
  <1>2. Total(Pop, S) \in Int
    BY <1>1, TotalType
  <1> QED  BY <1>2 DEF PopOf, Total

\* How many cuts the search of the tree T on S finds.
CutsFound(S, T, size) ==
    Cardinality(get_all_valid_edges_in_directed_tree(
        T, Min(S), Scratch, [pop |-> PopOf(S), size |-> size], AnyCutOptions(size)))

\* The linking edges with the new edge among them, of probability n.
NewLinks(ids, kept, new, n, r1, r2) ==
    [e \in kept \cup {new} |->
        IF e = new THEN n
        ELSE IF RegionsOf(ids, e) \cap {r1, r2} # {} THEN 0 ELSE linking_edges[e]]

\* What a plan cut from the tree T on S is.
IsCutPlan(plan, S, T, size, kept, r1, r2, x, y, s) ==
    /\ {x, y} \in T /\ x # y /\ s \in 1 .. size - 1
    /\ plan.ids = CutIds(region_ids, S, T, x, y, r1, r2)
    /\ plan.sizes = [region_sizes EXCEPT ![r1] = s, ![r2] = size - s]
    /\ plan.forest = Apart(forest_edges, S) \cup (T \ {{x, y}})
    /\ plan.links = NewLinks(plan.ids, kept, {x, y}, CutsFound(S, T, size), r1, r2)
    /\ DOMAIN plan.links = kept \cup {{x, y}}

\* Every plan is cut at an edge of the tree.
LEMMA CutPlansAre ==
    ASSUME NEW S \in SUBSET Vertices, NEW T \in HierarchicalTrees(county, S), NEW size \in Nat, NEW kept,
           NEW r1, NEW r2, NEW plan \in CutPlans(S, T, size, kept, r1, r2)
    PROVE  \E x, y, s : IsCutPlan(plan, S, T, size, kept, r1, r2, x, y, s)
  <1> DEFINE total == [pop |-> PopOf(S), size |-> size]
             opts == AnyCutOptions(size)
             cuts == get_all_valid_edges_in_directed_tree(T, Min(S), Scratch, total, opts)
             made(cut) == [ids |-> NewIds(S, Parts(S, T, size, cut), r1, r2),
                           sizes |-> NewSizes(Parts(S, T, size, cut), r1, r2),
                           forest |-> assign_region_id_and_forest_from_tree(S, T, cut),
                           links |-> LinksAfterCut(NewIds(S, Parts(S, T, size, cut), r1, r2), kept, cut,
                                                   Cardinality(cuts), r1, r2)]
  <1>1. S # {} /\ T \in SUBSET Edges
    BY NoTreeOnNothing, HierarchicalTreesAre
  <1>2. Min(S) \in Vertices /\ total.pop \in Int /\ Scratch \in [Vertices -> Int]
    <2>1. Min(S) \in S
      BY <1>1, MapAssumption, LeastIs
    <2> QED  BY <2>1, PopType DEF Scratch
  <1>3. PICK cut \in cuts : plan = made(cut)
    BY DEF CutPlans
  <1>4. cuts \in SUBSET TreeCuts(T, total, opts)
    <2> HIDE DEF total, opts
    <2> QED  BY <1>1, <1>2, CutsAreOfTheTree
  <1> DEFINE v == cut.vertex
             u == cut.parent
             A == SideOf(S, T, v, u)
             B == SideOf(S, T, u, v)
  <1>5. {v, u} \in T /\ v # u /\ cut.size \in opts.smaller_cut_sizes
                                   \cup {total.size - t : t \in opts.smaller_cut_sizes}
    <2>1. cut \in TreeCuts(T, total, opts)
      BY <1>4
    <2> HIDE DEF cuts, total, opts
    <2> QED  BY <2>1 DEF TreeCuts
  <1>6. cut.size \in 1 .. size - 1
    <2>1. cut.size \in 1 .. (size \div 2) \cup {size - t : t \in 1 .. (size \div 2)}
      BY <1>5 DEF AnyCutOptions
    <2>2. \A t \in 1 .. (size \div 2) : t \in 1 .. size - 1
      OBVIOUS
    <2>3. \A t \in 1 .. (size \div 2) : size - t \in 1 .. size - 1
      BY <2>2
    <2> QED  BY <2>1, <2>2, <2>3
  <1>7. CutInTwo(S, T, v, u, A, B)
    <2> HIDE DEF v, u
    <2> QED  BY <1>5, HierarchicalCut
  <1>8. Component(cut.vertex, S, T \ {{cut.vertex, cut.parent}}) = A /\ S \ A = B
    <2>1. A = Component(cut.vertex, S, T \ {{cut.vertex, cut.parent}})
      BY DEF SideOf
    <2> HIDE DEF A, B
    <2> QED  BY <1>7, <2>1 DEF CutInTwo
  <1>9. /\ plan.ids = NewIds(S, Parts(S, T, size, cut), r1, r2)
        /\ plan.sizes = NewSizes(Parts(S, T, size, cut), r1, r2)
        /\ plan.forest = Apart(forest_edges, S) \cup (T \ {{v, u}})
        /\ plan.links = NewLinks(plan.ids, kept, {v, u}, CutsFound(S, T, size), r1, r2)
        /\ DOMAIN plan.links = kept \cup {{v, u}}
    <2>1. plan.forest = assign_region_id_and_forest_from_tree(S, T, cut)
          /\ plan.links = LinksAfterCut(NewIds(S, Parts(S, T, size, cut), r1, r2), kept, cut,
                                                   Cardinality(cuts), r1, r2)
          /\ plan.ids = NewIds(S, Parts(S, T, size, cut), r1, r2)
          /\ plan.sizes = NewSizes(Parts(S, T, size, cut), r1, r2)
      BY <1>3
    <2>2. Cardinality(cuts) = CutsFound(S, T, size)
      BY DEF CutsFound
    <2> HIDE DEF cuts
    <2>3. plan.forest = Apart(forest_edges, S) \cup (T \ {{v, u}})
      BY <2>1 DEF assign_region_id_and_forest_from_tree, Apart
    <2>4. plan.links = NewLinks(plan.ids, kept, {v, u}, CutsFound(S, T, size), r1, r2)
      BY <2>1, <2>2 DEF LinksAfterCut, NewLinks
    <2>5. DOMAIN plan.links = kept \cup {{v, u}}
      BY <2>4 DEF NewLinks
    <2> QED  BY <2>1, <2>3, <2>4, <2>5
  <1> HIDE DEF made, cuts, A, B, total, opts
  <1>10. CASE cut.size <= size - cut.size
    <2>1. Parts(S, T, size, cut) = [first |-> A, size1 |-> cut.size, size2 |-> size - cut.size]
      BY <1>8, <1>10 DEF Parts
    <2>2. plan.ids = CutIds(region_ids, S, T, v, u, r1, r2)
      BY <1>9, <2>1 DEF NewIds, CutIds, A
    <2>3. plan.sizes = [region_sizes EXCEPT ![r1] = cut.size, ![r2] = size - cut.size]
      BY <1>9, <2>1 DEF NewSizes
    <2>4. IsCutPlan(plan, S, T, size, kept, r1, r2, v, u, cut.size)
      BY <1>5, <1>6, <1>9, <2>2, <2>3 DEF IsCutPlan
    <2> QED  BY <2>4
  <1>11. CASE ~(cut.size <= size - cut.size)
    <2>1. Parts(S, T, size, cut) = [first |-> B, size1 |-> size - cut.size, size2 |-> cut.size]
      BY <1>8, <1>11 DEF Parts
    <2>2. plan.ids = CutIds(region_ids, S, T, u, v, r1, r2)
      BY <1>9, <2>1 DEF NewIds, CutIds, B
    <2>3. size - (size - cut.size) = cut.size /\ size - cut.size \in 1 .. size - 1
      BY <1>6
    <2>4. plan.sizes = [region_sizes EXCEPT ![r1] = size - cut.size, ![r2] = size - (size - cut.size)]
      <3> DEFINE k == size - cut.size
      <3>1. plan.sizes = [region_sizes EXCEPT ![r1] = k, ![r2] = cut.size]
        BY <1>9, <2>1 DEF NewSizes
      <3>2. size - k = cut.size
        BY <2>3
      <3> HIDE DEF k
      <3>3. plan.sizes = [region_sizes EXCEPT ![r1] = k, ![r2] = size - k]
        BY <3>1, <3>2
      <3> QED  BY <3>3 DEF k
    <2>5. {u, v} = {v, u}
      OBVIOUS
    <2>6. IsCutPlan(plan, S, T, size, kept, r1, r2, u, v, size - cut.size)
      BY <1>5, <1>9, <2>2, <2>3, <2>4, <2>5 DEF IsCutPlan
    <2> QED  BY <2>6
  <1> QED  BY <1>10, <1>11

\* The trees worked out once are the hierarchical trees.
LEMMA TreesOn ==
    ASSUME county \in CountyLayouts, NEW S \in SUBSET Vertices
    PROVE  HierarchicalTreesOn[county][S] = HierarchicalTrees(county, S)
  BY DEF HierarchicalTreesOn

\* The ids of an edge that crosses are a pair of regions.
LEMMA PairOfIs ==
    ASSUME NEW ids, NEW n \in Nat, ids \in [Vertices -> 0 .. n - 1], NEW e \in Edges, Crosses(ids, e)
    PROVE  /\ PairOf(ids, e) \in PairsOf(n) /\ RegionsOf(ids, e) = {PairOf(ids, e)[1], PairOf(ids, e)[2]}
           /\ e \in CrossEdges(ids, PairOf(ids, e))
  <1>1. PICK a, b \in Vertices : a # b /\ e = {a, b}
    BY GraphFacts
  <1>2. ids[a] # ids[b] /\ ids[a] \in 0 .. n - 1 /\ ids[b] \in 0 .. n - 1
    BY <1>1, CrossesIs
  <1> DEFINE rs == RegionsOf(ids, e)
  <1>3. rs = {ids[a], ids[b]}
    BY <1>1 DEF RegionsOf
  <1>4. Min(rs) \in rs /\ \A x \in rs : Min(rs) <= x
    <2>1. rs \in SUBSET Nat /\ rs # {}
      BY <1>2, <1>3
    <2> HIDE DEF rs
    <2> QED  BY <2>1, LeastIs
  <1>5. Max(rs) \in rs /\ \A x \in rs : x <= Max(rs)
    <2>1. \E m \in rs : \A x \in rs : m >= x
      BY <1>2, <1>3
    <2>2. Max(rs) \in rs /\ \A x \in rs : Max(rs) >= x
      BY <2>1 DEF Max
    <2>3. \A x \in rs : x \in Int
      BY <1>2, <1>3
    <2> HIDE DEF rs
    <2> QED  BY <2>2, <2>3
  <1>6. PairOf(ids, e) = <<Min(rs), Max(rs)>>
    BY DEF PairOf
  <1> HIDE DEF rs
  <1> DEFINE lo == Min(rs)
             hi == Max(rs)
  <1>7. lo \in {ids[a], ids[b]} /\ hi \in {ids[a], ids[b]} /\ lo <= ids[a] /\ lo <= ids[b]
        /\ ids[a] <= hi /\ ids[b] <= hi
    BY <1>3, <1>4, <1>5
  <1> HIDE DEF lo, hi
  <1>8. lo \in 0 .. n - 1 /\ hi \in 0 .. n - 1 /\ lo < hi /\ rs = {lo, hi}
    BY <1>2, <1>3, <1>7
  <1>9. PairOf(ids, e)[1] = lo /\ PairOf(ids, e)[2] = hi /\ PairOf(ids, e) = <<lo, hi>>
    BY <1>6 DEF lo, hi
  <1>10. PairOf(ids, e) \in PairsOf(n)
    BY <1>8, <1>9 DEF PairsOf
  <1> QED  BY <1>8, <1>9, <1>10 DEF CrossEdges, rs

\* A plan is blank, or it is linked.
LinkedInv ==
    /\ county \in CountyLayouts
    /\ num_regions \in 1 .. Seats
    /\ region_ids \in [Vertices -> 0 .. num_regions - 1]
    /\ num_regions = 1 => forest_edges = {} /\ DOMAIN linking_edges = {}
    /\ num_regions > 1 => IsLinked(region_ids, num_regions, forest_edges, DOMAIN linking_edges)

\* A linked plan is one whose trees and linking edges are hierarchical.
LEMMA LinkedIsHierarchical == LinkedInv => LinkedTreeIsHierarchical
  <1> SUFFICES ASSUME LinkedInv, num_regions > 1
               PROVE  /\ \A r \in 0 .. num_regions - 1 :
                            Inside(RegionOf(r), forest_edges) \in HierarchicalTreesOn[county][RegionOf(r)]
                      /\ \A e \in DOMAIN linking_edges : Crosses(region_ids, e)
                      /\ forest_edges \cup DOMAIN linking_edges \in HierarchicalTreesOn[county][Vertices]
    BY DEF LinkedTreeIsHierarchical
  <1>1. county \in CountyLayouts /\ IsLinked(region_ids, num_regions, forest_edges, DOMAIN linking_edges)
    BY DEF LinkedInv
  <1>2. \A r : RegionOf(r) \in SUBSET Vertices /\ RegionOf(r) = Region(region_ids, r)
    BY DEF RegionOf, Region
  <1>3. Vertices \in SUBSET Vertices
    OBVIOUS
  <1> QED  BY <1>1, <1>2, <1>3, TreesOn DEF IsLinked

\* The edges of a linked plan.
LEMMA LinkedEdges ==
    ASSUME NEW ids, NEW n, NEW F, NEW L, IsLinked(ids, n, F, L)
    PROVE  /\ F \cup L \in SUBSET Edges
           /\ \A e \in F : \A S : S \in SUBSET Vertices /\ (\A v \in S : \A u \in Vertices \ S : ids[v] # ids[u])
                                     => e \subseteq S \/ e \cap S = {}
           /\ F \cap L = {}
  <1>1. F \cup L \in SUBSET Edges
    <2> DEFINE G == F \cup L
    <2>1. G \in HierarchicalTrees(county, Vertices) /\ Vertices \in SUBSET Vertices /\ Vertices # {}
      BY MapAssumption DEF IsLinked
    <2> HIDE DEF G
    <2>2. G \in SUBSET Edges
      BY <2>1, HierarchicalTreesAre
    <2> QED  BY <2>2 DEF G
  <1>2. ASSUME NEW e \in F, NEW S \in SUBSET Vertices, \A v \in S : \A u \in Vertices \ S : ids[v] # ids[u]
        PROVE  e \subseteq S \/ e \cap S = {}
    <2>1. PICK a, b \in Vertices : e = {a, b}
      BY <1>1, GraphFacts
    <2>2. ids[a] = ids[b]
      BY <2>1, CrossesIs DEF IsLinked
    <2> QED  BY <1>2, <2>1, <2>2
  <1> QED  BY <1>1, <1>2 DEF IsLinked

\* A region that is split in two leaves the plan linked.
LEMMA SplitIsLinked ==
    ASSUME LinkedInv, NEW r \in 0 .. num_regions - 1,
           NEW T \in HierarchicalTrees(county, Region(region_ids, r)),
           NEW x, NEW y, {x, y} \in T, x # y
    PROVE  IsLinked(CutIds(region_ids, Region(region_ids, r), T, x, y, r, num_regions), num_regions + 1,
                    Apart(forest_edges, Region(region_ids, r)) \cup (T \ {{x, y}}),
                    DOMAIN linking_edges \cup {{x, y}})
  <1> DEFINE S == Region(region_ids, r)
             n == num_regions
             F == forest_edges
             L == DOMAIN linking_edges
             A == Apart(F, S)
  <1>1. S \in SUBSET Vertices /\ n \in Nat \ {0} /\ r # n /\ region_ids \in [Vertices -> 0 .. n - 1]
    BY DEF LinkedInv, Region
  <1>2. CASE n = 1
    <2>1. F = {} /\ L = {} /\ r = 0 /\ S = Vertices
      BY <1>1, <1>2 DEF LinkedInv, Region
    <2>2. IsCutOut(region_ids, n + 1, F, S, r, n)
      <3>1. (0 .. (n + 1) - 1) \ {r, n} = {}
        BY <1>2, <2>1
      <3>2. region_ids \in [Vertices -> 0 .. (n + 1) - 1] /\ r \in 0 .. (n + 1) - 1 /\ n \in 0 .. (n + 1) - 1
        BY <1>1
      <3>3. S = {v \in Vertices : region_ids[v] \in {r, n}}
        BY <1>1, <1>2, <2>1
      <3> QED  BY <1>1, <2>1, <3>1, <3>2, <3>3 DEF IsCutOut
    <2>3. A \cup L \cup T \in HierarchicalTrees(county, Vertices)
      <3>1. A \cup L \cup T = T
        BY <2>1 DEF Apart
      <3> QED  BY <2>1, <3>1
    <2> HIDE DEF S, n, F, L
    <2>4. IsLinked(CutIds(region_ids, S, T, x, y, r, n), n + 1, Apart(F, S) \cup (T \ {{x, y}}), L \cup {{x, y}})
      BY <2>1, <2>2, <2>3, CutIsLinked DEF S
    <2> QED  BY <2>4 DEF S, n, F, L
  <1>3. CASE n # 1
    <2>1. IsLinked(region_ids, n, F, L)
      BY <1>1, <1>3 DEF LinkedInv
    <2>2. F \cup L \in SUBSET Edges /\ (\A e \in F : e \subseteq S \/ e \cap S = {}) /\ F \cap L = {}
      <3>1. \A v \in S : \A u \in Vertices \ S : region_ids[v] # region_ids[u]
        BY DEF Region
      <3> HIDE DEF S, n, F, L
      <3> QED  BY <1>1, <2>1, <3>1, LinkedEdges
    <2>3. IsCutOut(region_ids, n + 1, F, S, r, n)
      <3>1. region_ids \in [Vertices -> 0 .. (n + 1) - 1] /\ r \in 0 .. (n + 1) - 1 /\ n \in 0 .. (n + 1) - 1
        BY <1>1
      <3>2. S = {v \in Vertices : region_ids[v] \in {r, n}}
        BY <1>1 DEF Region
      <3>3. \A q \in (0 .. (n + 1) - 1) \ {r, n} : q \in 0 .. n - 1
        BY <1>1
      <3> HIDE DEF S, n, F, L
      <3> QED  BY <1>1, <2>1, <3>1, <3>2, <3>3 DEF IsCutOut, IsLinked
    <2> DEFINE K == A \cup L
               G == F \cup L
    <2>4. StaysAround(Vertices, G, S, K)
      <3>1. G \ K = {e \in F : e \cap S # {}} \ L
        BY <2>2 DEF Apart
      <3>2. \A e \in G \ K : e \subseteq S
        BY <2>2, <3>1
      <3>3. Connected(S, G \ K)
        <4>1. Inside(S, F) \in HierarchicalTrees(county, S)
          BY <2>1 DEF IsLinked
        <4>2. IsTree(S, Inside(S, F)) /\ S # {}
          BY <1>1, <4>1, HierarchicalTreesAre, NoTreeOnNothing
        <4>3. \A e \in Inside(S, F) : e # {}
          BY <4>2 DEF IsTree, Links
        <4>4. Inside(S, Inside(S, F)) \subseteq G \ K
          BY <2>2, <3>1, <4>3 DEF Inside
        <4>5. Connected(S, Inside(S, F)) /\ IsFiniteSet(S)
          BY <4>2 DEF IsTree
        <4> HIDE DEF G, K, S, F
        <4> QED  BY <4>4, <4>5, ConnectedMore
      <3>4. K \in SUBSET G
        BY DEF Apart
      <3> HIDE DEF G, K, S
      <3> QED  BY <1>1, <3>2, <3>3, <3>4 DEF StaysAround
    <2>5. K \cup T \in HierarchicalTrees(county, Vertices) /\ \A e \in K : ~(e \subseteq S)
      <3>1. G \in HierarchicalTrees(county, Vertices)
        BY <2>1 DEF IsLinked
      <3> HIDE DEF G, K
      <3> QED  BY <2>4, <3>1, HierarchicalExchange
    <2>6. \A e \in L : Crosses(region_ids, e) /\ ~(e \subseteq S) /\ e \in Edges
      BY <2>1, <2>2, <2>5 DEF IsLinked
    <2> HIDE DEF S, n, F, L
    <2>7. IsLinked(CutIds(region_ids, S, T, x, y, r, n), n + 1, Apart(F, S) \cup (T \ {{x, y}}), L \cup {{x, y}})
      BY <2>3, <2>5, <2>6, CutIsLinked DEF S
    <2> QED  BY <2>7 DEF S, n, F, L
  <1> QED  BY <1>2, <1>3

\* Two regions merged at their linking edge and split again leave the plan linked.
LEMMA MergeIsLinked ==
    ASSUME LinkedInv, num_regions > 1, NEW link \in DOMAIN linking_edges,
           NEW p \in PairsOf(num_regions), RegionsOf(region_ids, link) = {p[1], p[2]},
           NEW S, S = Region(region_ids, p[1]) \cup Region(region_ids, p[2]),
           NEW T \in HierarchicalTrees(county, S), NEW x, NEW y, {x, y} \in T, x # y
    PROVE  IsLinked(CutIds(region_ids, S, T, x, y, p[1], p[2]), num_regions,
                    Apart(forest_edges, S) \cup (T \ {{x, y}}),
                    ((DOMAIN linking_edges) \ {link}) \cup {{x, y}})
  <1> DEFINE n == num_regions
             F == forest_edges
             L == DOMAIN linking_edges
             A == Apart(F, S)
             R1 == Region(region_ids, p[1])
             R2 == Region(region_ids, p[2])
             K == A \cup (L \ {link})
             G == F \cup L
  <1>1. /\ n \in Nat \ {0} /\ region_ids \in [Vertices -> 0 .. n - 1] /\ S \in SUBSET Vertices
        /\ p[1] \in 0 .. n - 1 /\ p[2] \in 0 .. n - 1 /\ p[1] # p[2]
        /\ S = {v \in Vertices : region_ids[v] \in {p[1], p[2]}}
    BY DEF LinkedInv, Region, PairsOf
  <1>2. IsLinked(region_ids, n, F, L)
    BY DEF LinkedInv
  <1>3. F \cup L \in SUBSET Edges /\ (\A e \in F : e \subseteq S \/ e \cap S = {}) /\ F \cap L = {}
    <2>1. \A v \in S : \A u \in Vertices \ S : region_ids[v] # region_ids[u]
      BY <1>1
    <2> HIDE DEF n, F, L
    <2> QED  BY <1>1, <1>2, <2>1, LinkedEdges
  <1>4. IsCutOut(region_ids, n, F, S, p[1], p[2])
    <2> HIDE DEF n, F, L
    <2> QED  BY <1>1, <1>2 DEF IsCutOut, IsLinked
  <1>5. PICK a, b \in Vertices : link = {a, b} /\ region_ids[a] = p[1] /\ region_ids[b] = p[2]
    <2>1. PICK a, b \in Vertices : link = {a, b}
      BY <1>3, GraphFacts
    <2>2. {region_ids[a], region_ids[b]} = {p[1], p[2]}
      BY <2>1 DEF RegionsOf
    <2>3. CASE region_ids[a] = p[1]
      <3>1. region_ids[b] = p[2]
        BY <1>1, <2>2, <2>3
      <3> QED  BY <2>1, <2>3, <3>1
    <2>4. CASE region_ids[a] # p[1]
      <3>1. region_ids[b] = p[1] /\ region_ids[a] = p[2] /\ link = {b, a}
        BY <1>1, <2>1, <2>2, <2>4
      <3> QED  BY <3>1
    <2> QED  BY <2>3, <2>4
  <1>6. link \subseteq S /\ a \in R1 /\ b \in R2 /\ S = R1 \cup R2 /\ R1 \in SUBSET Vertices /\ R2 \in SUBSET Vertices
    BY <1>1, <1>5 DEF Region
  <1>7. /\ Inside(R1, F) \in HierarchicalTrees(county, R1) /\ Inside(R2, F) \in HierarchicalTrees(county, R2)
    BY <1>1, <1>2 DEF IsLinked
  <1>8. /\ \A e \in G \ K : (e \in F /\ e \cap S # {}) \/ e = link
        /\ \A e \in F : e \cap S # {} => e \in G \ K
        /\ link \in G \ K
    BY <1>3 DEF Apart
  <1>9. ASSUME NEW R \in {R1, R2}, Inside(R, F) \in HierarchicalTrees(county, R)
        PROVE  Connected(R, G \ K)
    <2>1. IsTree(R, Inside(R, F)) /\ R # {} /\ R \subseteq S
      BY <1>6, <1>9, HierarchicalTreesAre, NoTreeOnNothing
    <2>2. \A e \in Inside(R, F) : e # {} /\ e \subseteq S
      BY <2>1 DEF IsTree, Links
    <2>3. Inside(R, Inside(R, F)) \subseteq G \ K
      <3> SUFFICES ASSUME NEW e \in Inside(R, Inside(R, F))
                   PROVE  e \in G \ K
        OBVIOUS
      <3>1. e \in F /\ e # {} /\ e \subseteq S
        BY <2>2 DEF Inside
      <3> HIDE DEF G, K
      <3> QED  BY <1>8, <3>1
    <2>4. Connected(R, Inside(R, F)) /\ IsFiniteSet(R)
      BY <2>1 DEF IsTree
    <2> HIDE DEF G, K, F, R1, R2
    <2> QED  BY <2>3, <2>4, ConnectedMore
  <1>10. Connected(S, G \ K)
    <2>1. Connected(R1, G \ K) /\ Connected(R2, G \ K)
      BY <1>7, <1>9
    <2>2. {a, b} \in G \ K
      BY <1>5, <1>8
    <2>3. IsFiniteSet(R1) /\ IsFiniteSet(R2)
      BY <1>6, GraphFacts
    <2> HIDE DEF G, K, R1, R2
    <2> QED  BY <1>6, <2>1, <2>2, <2>3, ConnectedUnion
  <1>11. StaysAround(Vertices, G, S, K)
    <2>2. K \in SUBSET G
      BY DEF Apart
    <2> HIDE DEF G, K
    <2>1. \A e \in G \ K : e \subseteq S
      BY <1>3, <1>6, <1>8
    <2> QED  BY <1>1, <1>10, <2>1, <2>2 DEF StaysAround
  <1>12. K \cup T \in HierarchicalTrees(county, Vertices) /\ \A e \in K : ~(e \subseteq S)
    <2>1. G \in HierarchicalTrees(county, Vertices)
      BY <1>2 DEF IsLinked
    <2> HIDE DEF G, K
    <2> QED  BY <1>11, <2>1, HierarchicalExchange
  <1> DEFINE M == L \ {link}
  <1>13. \A e \in M : Crosses(region_ids, e) /\ ~(e \subseteq S) /\ e \in Edges
    BY <1>2, <1>3, <1>12 DEF IsLinked
  <1>14. A \cup M \cup T \in HierarchicalTrees(county, Vertices)
    BY <1>12
  <1> HIDE DEF n, F, L, M
  <1>15. IsLinked(CutIds(region_ids, S, T, x, y, p[1], p[2]), n, Apart(F, S) \cup (T \ {{x, y}}), M \cup {{x, y}})
    BY <1>4, <1>13, <1>14, CutIsLinked
  <1> QED  BY <1>15 DEF n, F, L, M

\* Every region of the plan has seats, no other has any, and the seats add up.
AreSizes(sizes, n) ==
    /\ sizes \in [Ids -> Nat]
    /\ \A r \in Ids : sizes[r] > 0 <=> r < n
    /\ Total(sizes, Ids) = Seats

SizesInv == AreSizes(region_sizes, num_regions)

\* The ids of regions are numbers, finitely many.
LEMMA IdsAre == IsFiniteSet(Ids) /\ Ids \in SUBSET Nat
  <1>1. Seats - 1 \in Int
    BY LinkedPlanAssumption
  <1> QED  BY <1>1, FS_Interval DEF Ids

\* What two regions gain or lose, the plan gains or loses.
LEMMA TwoChange ==
    ASSUME NEW f, NEW g, \A r \in Ids : f[r] \in Int /\ g[r] \in Int, NEW a \in Ids, NEW b \in Ids, a # b,
           \A r \in Ids \ {a, b} : g[r] = f[r]
    PROVE  Total(g, Ids) = Total(f, Ids) - f[a] - f[b] + g[a] + g[b]
  <1> DEFINE S == Ids
  <1>1. IsFiniteSet(S) /\ (\A y \in S : f[y] \in Int /\ g[y] \in Int) /\ a \in S /\ b \in S
        /\ \A y \in S \ {a, b} : g[y] = f[y]
    BY IdsAre
  <1> HIDE DEF S
  <1>2. Total(g, S) = Total(f, S) - f[a] - f[b] + g[a] + g[b]
    BY <1>1, TotalOfChange
  <1> QED  BY <1>2 DEF S

\* Seats that change hands between two regions.
LEMMA SizesAfter ==
    ASSUME LinkedInv, SizesInv, NEW r1 \in Ids, NEW r2 \in Ids, r1 # r2, r1 < num_regions,
           NEW size \in Nat, size = region_sizes[r1] + region_sizes[r2], NEW s \in 1 .. size - 1,
           NEW sizes, sizes = [region_sizes EXCEPT ![r1] = s, ![r2] = size - s],
           NEW n \in Nat, (r2 = num_regions /\ n = num_regions + 1) \/ (r2 < num_regions /\ n = num_regions)
    PROVE  AreSizes(sizes, n)
  <1>1. /\ region_sizes \in [Ids -> Nat] /\ (\A r \in Ids : region_sizes[r] > 0 <=> r < num_regions)
        /\ Total(region_sizes, Ids) = Seats /\ num_regions \in Nat
    BY DEF SizesInv, AreSizes, LinkedInv
  <1>2. s \in Nat /\ s > 0 /\ size - s \in Nat /\ size - s > 0
    OBVIOUS
  <1>3. sizes \in [Ids -> Nat] /\ sizes[r1] = s /\ sizes[r2] = size - s
        /\ \A r \in Ids \ {r1, r2} : sizes[r] = region_sizes[r]
    BY <1>1, <1>2
  <1>4. \A r \in Ids : sizes[r] > 0 <=> r < n
    <2> TAKE r \in Ids
    <2>1. CASE r \in {r1, r2}
      BY <1>1, <1>2, <1>3, <2>1, IdsAre
    <2>2. CASE r \notin {r1, r2}
      <3>1. sizes[r] = region_sizes[r] /\ (r < n <=> r < num_regions)
        BY <1>1, <1>3, <2>2, IdsAre
      <3> QED  BY <1>1, <3>1
    <2> QED  BY <2>1, <2>2
  <1>5. Total(sizes, Ids) = Total(region_sizes, Ids) - region_sizes[r1] - region_sizes[r2] + s + (size - s)
    <2>1. \A r \in Ids : region_sizes[r] \in Int /\ sizes[r] \in Int
      BY <1>1, <1>3
    <2>2. Total(sizes, Ids) = Total(region_sizes, Ids) - region_sizes[r1] - region_sizes[r2]
                                 + sizes[r1] + sizes[r2]
      <3> DEFINE f == region_sizes
                 g == sizes
      <3>1. (\A r \in Ids : f[r] \in Int /\ g[r] \in Int) /\ \A r \in Ids \ {r1, r2} : g[r] = f[r]
        BY <1>3, <2>1
      <3> HIDE DEF f, g
      <3>2. Total(g, Ids) = Total(f, Ids) - f[r1] - f[r2] + g[r1] + g[r2]
        BY <3>1, TwoChange
      <3> QED  BY <3>2 DEF f, g
    <2> QED  BY <1>3, <2>2
  <1>6. region_sizes[r1] \in Int /\ region_sizes[r2] \in Int /\ Seats \in Int
    BY <1>1, LinkedPlanAssumption
  <1>7. Total(sizes, Ids) = Seats
    BY <1>1, <1>2, <1>5, <1>6
  <1> QED  BY <1>3, <1>4, <1>7 DEF AreSizes

\* The plan as a whole.
PlanInv == LinkedInv /\ SizesInv

\* A split cuts the region r, in a tree on it, into r and a new region.
SplitOf(r, S, T, plan, x, y, s) ==
    /\ r \in 0 .. num_regions - 1 /\ S = Region(region_ids, r) /\ S \in SUBSET Vertices
    /\ r \in Ids /\ num_regions \in Ids /\ r # num_regions /\ r < num_regions
    /\ region_sizes[r] \in Nat /\ region_sizes[num_regions] = 0
    /\ T \in HierarchicalTrees(county, S)
    /\ IsCutPlan(plan, S, T, region_sizes[r], DOMAIN linking_edges, r, num_regions, x, y, s)
    /\ region_ids' = plan.ids /\ region_sizes' = plan.sizes
    /\ forest_edges' = plan.forest /\ linking_edges' = plan.links

\* What a split does.
LEMMA SplitIsCut ==
    ASSUME PlanInv, Split
    PROVE  \E r, S, T, plan, x, y, s : SplitOf(r, S, T, plan, x, y, s)
  <1> DEFINE n == num_regions
  <1>1. LinkedInv /\ SizesInv /\ n < Seats /\ n \in 1 .. Seats /\ county \in CountyLayouts
        /\ num_regions' = n + 1 /\ county' = county
    BY DEF PlanInv, Split, LinkedInv
  <1>2. PICK r \in 0 .. n - 1 :
          /\ region_sizes[r] > 1
          /\ \E T \in HierarchicalTreesOn[county][RegionOf(r)] :
             \E plan \in CutPlans(RegionOf(r), T, region_sizes[r], DOMAIN linking_edges, r, n) :
                /\ region_ids' = plan.ids
                /\ region_sizes' = plan.sizes
                /\ forest_edges' = plan.forest
                /\ linking_edges' = plan.links
    BY DEF Split
  <1> DEFINE S == Region(region_ids, r)
  <1>3. RegionOf(r) = S /\ S \in SUBSET Vertices
    BY DEF RegionOf, Region
  <1>4. PICK T \in HierarchicalTrees(county, S) :
             \E plan \in CutPlans(S, T, region_sizes[r], DOMAIN linking_edges, r, n) :
                /\ region_ids' = plan.ids
                /\ region_sizes' = plan.sizes
                /\ forest_edges' = plan.forest
                /\ linking_edges' = plan.links
    <2>1. HierarchicalTreesOn[county][S] = HierarchicalTrees(county, S)
      BY <1>1, <1>3, TreesOn
    <2> HIDE DEF S, n
    <2> QED  BY <1>2, <1>3, <2>1
  <1>5. PICK plan \in CutPlans(S, T, region_sizes[r], DOMAIN linking_edges, r, n) :
                /\ region_ids' = plan.ids
                /\ region_sizes' = plan.sizes
                /\ forest_edges' = plan.forest
                /\ linking_edges' = plan.links
    BY <1>4
  <1>6. r \in Ids /\ n \in Ids /\ r # n /\ r < n /\ n \in Nat /\ n \in Int
    BY <1>1, LinkedPlanAssumption DEF Ids
  <1>7. region_sizes[r] \in Nat /\ region_sizes[n] = 0 /\ region_sizes[r] = region_sizes[r] + region_sizes[n]
    <2>1. region_sizes[r] \in Nat /\ region_sizes[n] \in Nat /\ ~(region_sizes[n] > 0)
      BY <1>1, <1>6 DEF SizesInv, AreSizes
    <2> QED  BY <2>1
  <1>8. PICK x, y, s : IsCutPlan(plan, S, T, region_sizes[r], DOMAIN linking_edges, r, n, x, y, s)
    <2> HIDE DEF S, n
    <2> QED  BY <1>3, <1>7, CutPlansAre
  <1>9. SplitOf(r, S, T, plan, x, y, s)
    BY <1>3, <1>5, <1>6, <1>7, <1>8 DEF SplitOf
  <1> HIDE DEF S
  <1> QED  BY <1>9

\* A split, step by step.
LEMMA SplitKeeps ==
    ASSUME PlanInv, Split
    PROVE  PlanInv'
  <1> DEFINE n == num_regions
  <1>1. LinkedInv /\ SizesInv /\ n < Seats /\ n \in 1 .. Seats /\ county \in CountyLayouts
        /\ num_regions' = n + 1 /\ county' = county
    BY DEF PlanInv, Split, LinkedInv
  <1>2. PICK r, S, T, plan, x, y, s : SplitOf(r, S, T, plan, x, y, s)
    BY SplitIsCut
  <1>3. r \in 0 .. n - 1 /\ S = Region(region_ids, r) /\ T \in HierarchicalTrees(county, S)
    BY <1>2 DEF SplitOf
  <1>5. region_ids' = plan.ids /\ region_sizes' = plan.sizes /\ forest_edges' = plan.forest
        /\ linking_edges' = plan.links
    BY <1>2 DEF SplitOf
  <1>6. r \in Ids /\ n \in Ids /\ r # n /\ r < n /\ n \in Nat /\ n \in Int
    BY <1>1, <1>2 DEF SplitOf
  <1>7. region_sizes[r] \in Nat /\ region_sizes[n] = 0 /\ region_sizes[r] = region_sizes[r] + region_sizes[n]
    BY <1>2 DEF SplitOf
  <1>8. IsCutPlan(plan, S, T, region_sizes[r], DOMAIN linking_edges, r, n, x, y, s)
    BY <1>2 DEF SplitOf
  <1>9. /\ {x, y} \in T /\ x # y /\ s \in 1 .. region_sizes[r] - 1
        /\ region_ids' = CutIds(region_ids, S, T, x, y, r, n)
        /\ region_sizes' = [region_sizes EXCEPT ![r] = s, ![n] = region_sizes[r] - s]
        /\ forest_edges' = Apart(forest_edges, S) \cup (T \ {{x, y}})
        /\ DOMAIN linking_edges' = DOMAIN linking_edges \cup {{x, y}}
    BY <1>5, <1>8 DEF IsCutPlan
  <1>10. IsLinked(region_ids', n + 1, forest_edges', DOMAIN linking_edges')
    <2>1. IsLinked(CutIds(region_ids, S, T, x, y, r, n), n + 1, Apart(forest_edges, S) \cup (T \ {{x, y}}),
                   DOMAIN linking_edges \cup {{x, y}})
      <3>1. S = Region(region_ids, r)
        BY <1>3
      <3> QED  BY <1>1, <1>3, <1>9, <3>1, SplitIsLinked
    <2> HIDE DEF n
    <2> QED  BY <1>9, <2>1
  <1>11. LinkedInv'
    <2>1. n + 1 \in 1 .. Seats /\ n + 1 # 1 /\ county' \in CountyLayouts
      BY <1>1, <1>6, LinkedPlanAssumption
    <2>2. IsLinked(region_ids, num_regions, forest_edges, DOMAIN linking_edges)'
      BY <1>1, <1>10 DEF IsLinked
    <2>3. (region_ids \in [Vertices -> 0 .. num_regions - 1])'
      BY <1>1, <1>10 DEF IsLinked
    <2> QED  BY <1>1, <2>1, <2>2, <2>3 DEF LinkedInv
  <1>12. SizesInv'
    <2>1. n + 1 \in Nat /\ n = num_regions
      BY <1>6
    <2>2. AreSizes(region_sizes', n + 1)
      <3> DEFINE size == region_sizes[r]
                 sizes == region_sizes'
                 m == n + 1
      <3>1. size \in Nat /\ size = region_sizes[r] + region_sizes[n] /\ s \in 1 .. size - 1
            /\ sizes = [region_sizes EXCEPT ![r] = s, ![n] = size - s] /\ m \in Nat /\ m = num_regions + 1
        BY <1>6, <1>7, <1>9
      <3> HIDE DEF m, size, sizes
      <3>2. r < num_regions /\ n = num_regions
        BY <1>6
      <3> HIDE DEF n
      <3>3. AreSizes(sizes, m)
        BY <1>1, <1>6, <3>1, <3>2, SizesAfter
      <3> QED  BY <3>3 DEF m, sizes
    <2> QED  BY <1>1, <2>2 DEF SizesInv, AreSizes, Ids
  <1> QED  BY <1>11, <1>12 DEF PlanInv

\* A plan whose tables stay as they are but for the probabilities.
LEMMA OnlyProbabilities ==
    ASSUME PlanInv, UNCHANGED <<county, num_regions, region_ids, region_sizes, forest_edges>>,
           DOMAIN linking_edges' = DOMAIN linking_edges
    PROVE  PlanInv'
  <1>1. LinkedInv'
    <2>1. IsLinked(region_ids, num_regions, forest_edges, DOMAIN linking_edges) =>
             IsLinked(region_ids, num_regions, forest_edges, DOMAIN linking_edges)'
      BY DEF IsLinked
    <2> QED  BY <2>1 DEF PlanInv, LinkedInv
  <1>2. SizesInv'
    BY DEF PlanInv, SizesInv, AreSizes, Ids
  <1> QED  BY <1>1, <1>2 DEF PlanInv

\* What a merge-split move proposes is the pair's regions cut anew, in a tree on both.
ProposalOf(link, plan, p, S, T, x, y, s) ==
    /\ p = PairOf(region_ids, link) /\ p \in PairsOf(num_regions) /\ RegionsOf(region_ids, link) = {p[1], p[2]}
    /\ S = Region(region_ids, p[1]) \cup Region(region_ids, p[2]) /\ S \in SUBSET Vertices
    /\ p[1] \in Ids /\ p[2] \in Ids /\ p[1] # p[2] /\ p[1] < num_regions /\ p[2] < num_regions
    /\ region_sizes[p[1]] + region_sizes[p[2]] \in Nat
    /\ T \in HierarchicalTrees(county, S)
    /\ IsCutPlan(plan, S, T, region_sizes[p[1]] + region_sizes[p[2]], (DOMAIN linking_edges) \ {link},
                 p[1], p[2], x, y, s)

\* A merge-split move cuts a tree on the two regions of a linking edge.
LEMMA ProposalIsCut ==
    ASSUME PlanInv, num_regions > 1, NEW link \in DOMAIN linking_edges, NEW plan \in Proposals(link)
    PROVE  \E p, S, T, x, y, s : ProposalOf(link, plan, p, S, T, x, y, s)
  <1> DEFINE n == num_regions
             p == PairOf(region_ids, link)
             S == Region(region_ids, p[1]) \cup Region(region_ids, p[2])
             size == region_sizes[p[1]] + region_sizes[p[2]]
             kept == (DOMAIN linking_edges) \ {link}
  <1>1. LinkedInv /\ SizesInv /\ n \in 1 .. Seats /\ county \in CountyLayouts /\ n > 1
        /\ IsLinked(region_ids, n, forest_edges, DOMAIN linking_edges)
    BY DEF PlanInv, LinkedInv
  <1>2. p \in PairsOf(n) /\ RegionsOf(region_ids, link) = {p[1], p[2]}
    <2>1. link \in Edges
      <3> DEFINE G == forest_edges \cup DOMAIN linking_edges
      <3>1. G \in HierarchicalTrees(county, Vertices) /\ Vertices \in SUBSET Vertices /\ Vertices # {}
        BY <1>1, MapAssumption DEF IsLinked
      <3> HIDE DEF G
      <3>2. G \in SUBSET Edges
        BY <3>1, HierarchicalTreesAre
      <3> QED  BY <3>2 DEF G
    <2>2. Crosses(region_ids, link) /\ region_ids \in [Vertices -> 0 .. n - 1] /\ n \in Nat
      BY <1>1 DEF IsLinked
    <2> HIDE DEF n
    <2> QED  BY <2>1, <2>2, PairOfIs
  <1>3. S \in SUBSET Vertices /\ S = RegionOf(p[1]) \cup RegionOf(p[2])
    BY DEF RegionOf, Region
  <1>4. p[1] \in Ids /\ p[2] \in Ids /\ p[1] # p[2] /\ p[1] < n /\ p[2] < n
    <2> HIDE DEF p
    <2>1. p[1] \in 0 .. n - 1 /\ p[2] \in 0 .. n - 1 /\ p[1] < p[2]
      BY <1>2 DEF PairsOf
    <2> QED  BY <1>1, <2>1, LinkedPlanAssumption DEF Ids
  <1>5. size \in Nat
    BY <1>1, <1>4 DEF SizesInv, AreSizes
  <1>6. PICK T \in HierarchicalTrees(county, S) : plan \in CutPlans(S, T, size, kept, p[1], p[2])
    <2>1. HierarchicalTreesOn[county][S] = HierarchicalTrees(county, S)
      BY <1>1, <1>3, TreesOn
    <2>2. plan \in UNION {CutPlans(S, T, size, kept, p[1], p[2]) : T \in HierarchicalTreesOn[county][S]}
      BY <1>3 DEF Proposals
    <2> HIDE DEF S, p, size, kept
    <2> QED  BY <2>1, <2>2
  <1>7. PICK x, y, s : IsCutPlan(plan, S, T, size, kept, p[1], p[2], x, y, s)
    <2> HIDE DEF S, p, size, kept
    <2> QED  BY <1>3, <1>5, <1>6, CutPlansAre
  <1>8. ProposalOf(link, plan, p, S, T, x, y, s)
    <2>1. p = PairOf(region_ids, link) /\ S = Region(region_ids, p[1]) \cup Region(region_ids, p[2])
          /\ size = region_sizes[p[1]] + region_sizes[p[2]] /\ kept = (DOMAIN linking_edges) \ {link}
      OBVIOUS
    <2> HIDE DEF S, p, size, kept
    <2>2. p \in PairsOf(num_regions) /\ p[1] < num_regions /\ p[2] < num_regions
      BY <1>2, <1>4
    <2> HIDE DEF n
    <2> QED  BY <1>2, <1>3, <1>4, <1>5, <1>6, <1>7, <2>1, <2>2 DEF ProposalOf
  <1> HIDE DEF p, S
  <1> QED  BY <1>8

\* A plan that a merge-split move proposes is a linked plan, accepted or not.
LEMMA ProposalIsPlan ==
    ASSUME PlanInv, num_regions > 1, NEW link \in DOMAIN linking_edges, NEW plan \in Proposals(link)
    PROVE  /\ IsLinked(plan.ids, num_regions, plan.forest, DOMAIN plan.links)
           /\ AreSizes(plan.sizes, num_regions)
  <1>0. PICK p, S, T, x, y, s : ProposalOf(link, plan, p, S, T, x, y, s)
    BY ProposalIsCut
  <1> DEFINE n == num_regions
             size == region_sizes[p[1]] + region_sizes[p[2]]
             kept == (DOMAIN linking_edges) \ {link}
  <1>1. LinkedInv /\ SizesInv /\ n \in 1 .. Seats /\ county \in CountyLayouts /\ n > 1
        /\ IsLinked(region_ids, n, forest_edges, DOMAIN linking_edges)
    BY DEF PlanInv, LinkedInv
  <1>2. p \in PairsOf(n) /\ RegionsOf(region_ids, link) = {p[1], p[2]}
    BY <1>0 DEF ProposalOf
  <1>3. S \in SUBSET Vertices /\ S = Region(region_ids, p[1]) \cup Region(region_ids, p[2])
        /\ T \in HierarchicalTrees(county, S)
    BY <1>0 DEF ProposalOf
  <1>4. p[1] \in Ids /\ p[2] \in Ids /\ p[1] # p[2] /\ p[1] < n /\ p[2] < n
    BY <1>0 DEF ProposalOf
  <1>5. size \in Nat
    BY <1>0 DEF ProposalOf
  <1>7. IsCutPlan(plan, S, T, size, kept, p[1], p[2], x, y, s)
    BY <1>0 DEF ProposalOf
  <1>8. /\ {x, y} \in T /\ x # y /\ s \in 1 .. size - 1
        /\ plan.ids = CutIds(region_ids, S, T, x, y, p[1], p[2])
        /\ plan.sizes = [region_sizes EXCEPT ![p[1]] = s, ![p[2]] = size - s]
        /\ plan.forest = Apart(forest_edges, S) \cup (T \ {{x, y}})
        /\ DOMAIN plan.links = kept \cup {{x, y}}
    <2> HIDE DEF size, kept
    <2> QED  BY <1>7 DEF IsCutPlan
  <1>9. IsLinked(plan.ids, n, plan.forest, DOMAIN plan.links)
    <2>1. IsLinked(CutIds(region_ids, S, T, x, y, p[1], p[2]), n, Apart(forest_edges, S) \cup (T \ {{x, y}}),
                   kept \cup {{x, y}})
      BY <1>1, <1>2, <1>3, <1>8, MergeIsLinked
    <2> HIDE DEF n, kept
    <2> QED  BY <1>8, <2>1
  <1>10. AreSizes(plan.sizes, n)
    <2> DEFINE sizes == plan.sizes
               r1 == p[1]
               r2 == p[2]
    <2>1. sizes = [region_sizes EXCEPT ![r1] = s, ![r2] = size - s] /\ s \in 1 .. size - 1
          /\ size = region_sizes[r1] + region_sizes[r2] /\ r1 \in Ids /\ r2 \in Ids /\ r1 # r2
          /\ r1 < num_regions /\ r2 < num_regions /\ num_regions \in Nat
      BY <1>1, <1>4, <1>8
    <2> HIDE DEF sizes, size, r1, r2
    <2>2. AreSizes(sizes, num_regions)
      BY <1>1, <1>5, <2>1, SizesAfter
    <2> QED  BY <2>2 DEF sizes
  <1> QED  BY <1>9, <1>10

\* Two regions that a merge-split move redraws.
LEMMA RedrawKeeps ==
    ASSUME PlanInv, num_regions > 1, NEW link \in DOMAIN linking_edges, NEW plan \in Proposals(link),
           UNCHANGED <<county, num_regions>>, region_ids' = plan.ids, region_sizes' = plan.sizes,
           forest_edges' = plan.forest, linking_edges' = plan.links
    PROVE  PlanInv'
  <1>1. /\ IsLinked(region_ids', num_regions, forest_edges', DOMAIN linking_edges')
        /\ AreSizes(region_sizes', num_regions)
    BY ProposalIsPlan
  <1>2. LinkedInv'
    <2>1. IsLinked(region_ids, num_regions, forest_edges, DOMAIN linking_edges)'
      BY <1>1 DEF IsLinked
    <2>2. (region_ids \in [Vertices -> 0 .. num_regions - 1])'
      BY <1>1 DEF IsLinked
    <2> QED  BY <2>1, <2>2 DEF PlanInv, LinkedInv
  <1>3. SizesInv'
    BY <1>1 DEF SizesInv, AreSizes, Ids
  <1> QED  BY <1>2, <1>3 DEF PlanInv

\* A merge-split step.
LEMMA MoveKeeps ==
    ASSUME PlanInv, attempt_mergesplit_step
    PROVE  PlanInv'
  <1>1. county' = county /\ num_regions > 1
    BY DEF attempt_mergesplit_step
  <1>2. CASE Throw
    BY <1>1, <1>2, OnlyProbabilities DEF Throw
  <1>3. CASE ~Throw
    <2>1. PICK link \in MergeableLinks : \E plan \in Proposals(link) : Answer(link, plan)
      BY <1>3 DEF attempt_mergesplit_step
    <2>2. PICK plan \in Proposals(link) : Answer(link, plan)
      BY <2>1
    <2>3. link \in DOMAIN linking_edges
      BY DEF MergeableLinks
    <2> DEFINE rejected == UNCHANGED <<region_ids, region_sizes, forest_edges>>
                           /\ (linking_edges' = linking_edges
                                \/ linking_edges' = Recomputed(region_ids, region_sizes, forest_edges,
                                                               linking_edges, {link}))
               accepted == region_ids' = plan.ids /\ region_sizes' = plan.sizes
                           /\ forest_edges' = plan.forest /\ linking_edges' = plan.links
    <2>4. num_regions' = num_regions /\ (accepted \/ rejected)
      <3> HIDE DEF Throw
      <3>1. /\ UNCHANGED <<step, num_regions, threw>>
            /\ \/ /\ region_ids' = plan.ids
                  /\ region_sizes' = plan.sizes
                  /\ forest_edges' = plan.forest
                  /\ linking_edges' = plan.links
               \/ /\ UNCHANGED <<region_ids, region_sizes, forest_edges>>
                  /\ \/ linking_edges' = Recomputed(region_ids, region_sizes, forest_edges,
                                                    linking_edges, {link})
                     \/ linking_edges' = linking_edges
        BY <1>3, <2>2 DEF Answer
      <3> QED  BY <3>1
    <2>5. CASE accepted
      BY <1>1, <2>3, <2>4, <2>5, RedrawKeeps
    <2>6. CASE rejected
      <3>1. DOMAIN linking_edges' = DOMAIN linking_edges
        BY <2>6 DEF Recomputed
      <3> QED  BY <1>1, <2>4, <2>6, <3>1, OnlyProbabilities
    <2> QED  BY <2>4, <2>5, <2>6
  <1> QED  BY <1>2, <1>3

\* Every step keeps the plan linked and its seats together.
LEMMA PlanStep == PlanInv /\ [Next]_vars => PlanInv'
  <1> SUFFICES ASSUME PlanInv, [Next]_vars
               PROVE  PlanInv'
    OBVIOUS
  <1>1. CASE Split
    BY <1>1, SplitKeeps
  <1>2. CASE get_valid_adj_regions_and_eff_log_boundary_lens
    <2>1. county' = county /\ UNCHANGED <<num_regions, region_ids, region_sizes, forest_edges>>
          /\ (linking_edges' = linking_edges
               \/ linking_edges' = Recomputed(region_ids, region_sizes, forest_edges,
                                              linking_edges, MergeableLinks))
      BY <1>2 DEF get_valid_adj_regions_and_eff_log_boundary_lens, Throw
    <2>2. DOMAIN linking_edges' = DOMAIN linking_edges
      BY <2>1 DEF Recomputed
    <2> QED  BY <2>1, <2>2, OnlyProbabilities
  <1>3. CASE attempt_mergesplit_step
    BY <1>3, MoveKeeps
  <1>4. CASE Continue
    <2>1. DOMAIN linking_edges' = DOMAIN linking_edges
      BY <1>4 DEF Continue
    <2> QED  BY <1>4, <2>1, OnlyProbabilities DEF Continue
  <1>5. CASE UNCHANGED vars
    BY <1>5, OnlyProbabilities DEF vars
  <1> QED  BY <1>1, <1>2, <1>3, <1>4, <1>5 DEF Next

\* Trees on all regions have one edge less than precincts for every region.
LEMMA ForestCount ==
    ASSUME NEW ids, NEW n \in Nat, ids \in [Vertices -> 0 .. n - 1], NEW F \in SUBSET Edges,
           \A e \in F : ~Crosses(ids, e),
           \A r \in 0 .. n - 1 : IsTree(Region(ids, r), Inside(Region(ids, r), F))
    PROVE  Cardinality(F) = Cardinality(Vertices) - n
  <1> DEFINE area(R) == {v \in Vertices : ids[v] \in R}
             within(R) == Inside(area(R), F)
             G == {R \in SUBSET (0 .. n - 1) : Cardinality(within(R)) = Cardinality(area(R)) - Cardinality(R)}
             U == 0 .. n - 1
  <1>1. IsFiniteSet(U) /\ Cardinality(U) = n
    BY FS_Interval
  <1>2. \A R : area(R) \in SUBSET Vertices /\ within(R) \in SUBSET Edges
    BY DEF Inside
  <1>3. \A R : IsFiniteSet(area(R)) /\ IsFiniteSet(within(R))
    <2> HIDE DEF area, within
    <2> QED  BY <1>2, GraphFacts
  <1>4. \A e \in F : \E a, b \in Vertices : a # b /\ e = {a, b} /\ ids[a] = ids[b]
    <2> TAKE e \in F
    <2>1. PICK a, b \in Vertices : a # b /\ e = {a, b}
      BY GraphFacts
    <2> QED  BY <2>1, CrossesIs
  <1>5. {} \in G
    <2>1. area({}) = {} /\ within({}) = {}
      BY <1>4 DEF Inside
    <2>2. {} \in SUBSET (0 .. n - 1) /\ Cardinality({}) = 0
      BY FS_EmptySet
    <2> HIDE DEF area, within
    <2>3. Cardinality(within({})) = 0 /\ Cardinality(area({})) = 0
      BY <2>1, <2>2, Zenon
    <2>4. Cardinality(within({})) = Cardinality(area({})) - Cardinality({})
      BY <2>2, <2>3
    <2> QED  BY <2>2, <2>4
  <1>6. ASSUME NEW R \in SUBSET U, NEW r \in U \ R, R \in G
        PROVE  R \cup {r} \in G
    <2> DEFINE P == Region(ids, r)
               Q == R \cup {r}
    <2>1. area(Q) = area(R) \cup P /\ area(R) \cap P = {} /\ P \in SUBSET Vertices
      BY DEF Region
    <2>2. within(Q) = within(R) \cup Inside(P, F)
      <3>1. ASSUME NEW e \in F, e \subseteq area(Q)
            PROVE  e \subseteq area(R) \/ e \subseteq P
        BY <1>4, <3>1 DEF Region
      <3>2. area(R) \subseteq area(Q) /\ P \subseteq area(Q)
        BY <2>1
      <3> HIDE DEF area, P
      <3> QED  BY <3>1, <3>2 DEF Inside
    <2>3. within(R) \cap Inside(P, F) = {}
      <3>1. \A e \in F : e # {}
        BY <1>4
      <3> HIDE DEF area, P
      <3> QED  BY <2>1, <3>1 DEF Inside
    <2>4. IsTree(P, Inside(P, F))
      OBVIOUS
    <2>5. Cardinality(Inside(P, F)) = Cardinality(P) - 1 /\ IsFiniteSet(P) /\ IsFiniteSet(Inside(P, F))
      BY <2>4 DEF IsTree
    <2>6. Cardinality(Q) = Cardinality(R) + 1 /\ IsFiniteSet(R) /\ Cardinality(R) \in Nat
      <3>1. IsFiniteSet(R)
        BY <1>1, FS_Subset
      <3> QED  BY <3>1, FS_AddElement, FS_CardinalityType
    <2>7. Cardinality(within(R)) = Cardinality(area(R)) - Cardinality(R)
      BY <1>6
    <2> DEFINE a == area(R)
               t == within(R)
               p == Inside(P, F)
    <2>8. /\ Cardinality(a \cup P) = Cardinality(a) + Cardinality(P)
          /\ Cardinality(t \cup p) = Cardinality(t) + Cardinality(p)
          /\ Cardinality(a) \in Nat /\ Cardinality(P) \in Nat
      <3> HIDE DEF area, within, P
      <3>1. IsFiniteSet(a) /\ IsFiniteSet(t)
        BY <1>3
      <3>2. a \cap P = {} /\ t \cap p = {}
        BY <2>1, <2>3
      <3> HIDE DEF a, t, p
      <3> QED  BY <2>5, <3>1, <3>2, PartsAddUp DEF p
    <2>9. Cardinality(within(Q)) = Cardinality(area(Q)) - Cardinality(Q)
      <3> HIDE DEF area, within, P, Q
      <3> QED  BY <2>1, <2>2, <2>5, <2>6, <2>7, <2>8
    <2>10. Q \in SUBSET U
      OBVIOUS
    <2> HIDE DEF area, within
    <2> QED  BY <2>9, <2>10
  <1>7. area(U) = Vertices /\ within(U) = F
    <2>1. area(U) = Vertices
      OBVIOUS
    <2>2. \A e \in F : e \subseteq Vertices
      BY <1>4
    <2> HIDE DEF area
    <2> QED  BY <2>1, <2>2 DEF Inside
  <1>8. U \in G
    <2> HIDE DEF G, U
    <2>1. U \in SUBSET U
      OBVIOUS
    <2>2. \A R \in SUBSET U : R \in G
      BY <1>1, <1>5, <1>6, SubsetInduction
    <2> QED  BY <2>1, <2>2
  <1>9. Cardinality(within(U)) = Cardinality(area(U)) - Cardinality(U)
    BY <1>8
  <1> HIDE DEF area, within, U
  <1> QED  BY <1>1, <1>7, <1>9

\* Edges of E join the regions along P, the regions themselves are connected.
JoinsRegions(ids, n, E, P) ==
    /\ \A r \in 0 .. n - 1 : Connected(Region(ids, r), E)
    /\ Connected(0 .. n - 1, P)
    /\ \A q \in P : \E a, b \in Vertices : {a, b} \in E /\ q = {ids[a], ids[b]}

\* Connected regions, joined along edges that connect them, are connected.
LEMMA JoinedRegions ==
    ASSUME NEW ids, NEW n \in Nat, ids \in [Vertices -> 0 .. n - 1], NEW E, NEW P, JoinsRegions(ids, n, E, P)
    PROVE  Connected(Vertices, E)
  <1> DEFINE U == 0 .. n - 1
  <1>1. IsFiniteSet(U) /\ IsFiniteSet(Vertices)
    BY FS_Interval, GraphFacts
  <1> SUFFICES ASSUME NEW D, D # {}, Closed(D, Vertices, E)
               PROVE  D = Vertices
    BY <1>1, ConnectedIsClosed
  <1> DEFINE Q == {r \in U : Region(ids, r) \subseteq D}
  <1>2. D \subseteq Vertices
    BY DEF Closed
  <1>3. ASSUME NEW v \in D
        PROVE  ids[v] \in Q
    <2> DEFINE R == Region(ids, ids[v])
               A == D \cap R
    <2>1. v \in R /\ R \subseteq Vertices /\ ids[v] \in U
      BY <1>2 DEF Region
    <2>2. A # {} /\ Closed(A, R, E)
      <3>1. \A e \in Inside(R, E) : e \cap A # {} => e \subseteq A
        BY <2>1 DEF Closed, Inside
      <3> QED  BY <2>1, <3>1 DEF Closed
    <2>3. IsFiniteSet(R) /\ Connected(R, E)
      BY <2>1, GraphFacts DEF JoinsRegions
    <2> HIDE DEF R, A
    <2>4. A = R
      BY <2>2, <2>3, ConnectedIsClosed
    <2> QED  BY <2>1, <2>4 DEF A, R
  <1>4. Closed(Q, U, P)
    <2> SUFFICES ASSUME NEW q \in Inside(U, P), q \cap Q # {}
                 PROVE  q \subseteq Q
      BY DEF Closed
    <2>1. PICK a, b \in Vertices : {a, b} \in E /\ q = {ids[a], ids[b]}
      BY DEF Inside, JoinsRegions
    <2>2. a \in D \/ b \in D
      <3>1. ids[a] \in Q \/ ids[b] \in Q
        BY <2>1
      <3> QED  BY <3>1 DEF Region
    <2>3. a \in D /\ b \in D
      BY <2>1, <2>2 DEF Closed, Inside
    <2> HIDE DEF Q
    <2> QED  BY <1>3, <2>1, <2>3
  <1>5. Q # {}
    <2> HIDE DEF Q
    <2> QED  BY <1>3
  <1>6. Q = U
    <2> HIDE DEF Q, U
    <2>1. Connected(U, P)
      BY DEF JoinsRegions, U
    <2> QED  BY <1>1, <1>4, <1>5, <2>1, ConnectedIsClosed
  <1> QED  BY <1>2, <1>6 DEF Region

\* What no element adds to does not count.
LEMMA TotalOfPart ==
    ASSUME NEW S, IsFiniteSet(S), NEW f, NEW A \in SUBSET S, \A y \in A : f[y] \in Int, \A y \in S \ A : f[y] = 0
    PROVE  Total(f, S) = Total(f, A)
  <1> DEFINE B == S \ A
             G == {T \in SUBSET B : Total(f, A \cup T) = Total(f, A)}
  <1>1. IsFiniteSet(A) /\ IsFiniteSet(B) /\ Total(f, A) \in Int
    BY FS_Subset, TotalType
  <1>2. {} \in G
    <2>1. A \cup {} = A
      OBVIOUS
    <2> QED  BY <2>1
  <1>3. ASSUME NEW T \in SUBSET B, NEW x \in B \ T, T \in G
        PROVE  T \cup {x} \in G
    <2> DEFINE C == A \cup T
    <2>1. C \subseteq S /\ x \notin C /\ A \cup (T \cup {x}) = C \cup {x} /\ f[x] = 0
      OBVIOUS
    <2>2. IsFiniteSet(C) /\ \A y \in C : f[y] \in Int
      BY <2>1, FS_Subset
    <2>3. Total(f, C) = Total(f, A)
      BY <1>3
    <2> HIDE DEF C
    <2>4. Total(f, C \cup {x}) = Total(f, C) + f[x]
      BY <2>1, <2>2, TotalAdd
    <2>5. Total(f, A \cup (T \cup {x})) = Total(f, A)
      <3> HIDE DEF G
      <3>1. Total(f, C \cup {x}) = Total(f, A)
        BY <1>1, <2>1, <2>3, <2>4
      <3>2. A \cup (T \cup {x}) = C \cup {x}
        BY <2>1
      <3> HIDE DEF B
      <3> QED  BY <3>1, <3>2, Zenon
    <2> QED  BY <2>5
  <1>4. B \in G
    <2> HIDE DEF G, B
    <2>1. B \in SUBSET B
      OBVIOUS
    <2> QED  BY <1>1, <1>2, <1>3, <2>1, SubsetInduction
  <1>5. A \cup B = S
    OBVIOUS
  <1> QED  BY <1>4, <1>5 DEF G

\* An edge of the map from one region to another.
LeadsFromTo(ids, edge, r, s) ==
    \E a, b \in Vertices : edge = {a, b} /\ {a, b} \in Edges /\ ids[a] = r /\ ids[b] = s

\* The first edge between two regions that touch is one.
LEMMA FirstEdgeIs ==
    ASSUME NEW ids, NEW r, NEW s, NEW e \in Edges, RegionsOf(ids, e) = {r, s}, r # s
    PROVE  LeadsFromTo(ids, FirstEdge(ids, r, s), r, s)
  <1> DEFINE touching(v) == {u \in Region(ids, s) : {u, v} \in Edges}
             near == {v \in Region(ids, r) : touching(v) # {}}
             first == Min(near)
             next == Min(touching(first))
  <1>1. near # {}
    <2>1. PICK a, b \in Vertices : e = {a, b}
      BY GraphFacts
    <2>2. {ids[a], ids[b]} = {r, s}
      BY <2>1 DEF RegionsOf
    <2>3. PICK v, u \in Vertices : ids[v] = r /\ ids[u] = s /\ {u, v} = e
      <3>1. CASE ids[a] = r
        <4>1. ids[b] = s
          BY <2>2, <3>1
        <4> QED  BY <2>1, <3>1, <4>1
      <3>2. CASE ids[a] # r
        <4>1. ids[b] = r /\ ids[a] = s
          BY <2>2, <3>2
        <4> QED  BY <2>1, <4>1
      <3> QED  BY <3>1, <3>2
    <2>4. v \in Region(ids, r) /\ u \in touching(v)
      BY <2>3 DEF Region
    <2> QED  BY <2>4
  <1>2. near \in SUBSET Nat /\ \A v : touching(v) \in SUBSET Nat
    BY MapAssumption DEF Region
  <1>3. first \in near
    <2> HIDE DEF near
    <2> QED  BY <1>1, <1>2, LeastIs
  <1>4. touching(first) # {} /\ first \in Region(ids, r)
    <2> HIDE DEF touching, first
    <2> QED  BY <1>3
  <1>5. next \in touching(first)
    <2> HIDE DEF touching, first
    <2> QED  BY <1>2, <1>4, LeastIs
  <1>6. next \in Region(ids, s) /\ {next, first} \in Edges
    <2> HIDE DEF first, next
    <2> QED  BY <1>5
  <1>7. FirstEdge(ids, r, s) = {first, next}
    BY DEF FirstEdge
  <1> HIDE DEF first, next
  <1>8. {first, next} = {next, first}
    OBVIOUS
  <1> QED  BY <1>4, <1>6, <1>7, <1>8 DEF Region, LeadsFromTo

\* The pairs of a multigraph are pairs of regions that touch.
LEMMA PairsTouch ==
    ASSUME NEW ids, NEW n
    PROVE  DOMAIN build_plan_multigraph(county, ids, n).pair_map
             \subseteq {q \in PairsOf(n) : CrossEdges(ids, q) # {}}
  <1> DEFINE Q == {q \in PairsOf(n) : CrossEdges(ids, q) # {}}
  <1>1. \A by : DOMAIN PairTable(county, ids, n, by) = Q
    BY DEF PairTable
  <1>2. DOMAIN build_plan_non_hierarchical_multigraph(county, ids, n).pair_map = Q
    <2> HIDE DEF Q
    <2> QED  BY <1>1 DEF build_plan_non_hierarchical_multigraph
  <1>3. DOMAIN build_plan_hierarchical_multigraph(county, ids, n).pair_map \subseteq Q
    <2> HIDE DEF Q
    <2>1. CASE HasTooManySplits(county, ids, n)
      BY <2>1 DEF build_plan_hierarchical_multigraph, NotBuilt
    <2>2. CASE ~HasTooManySplits(county, ids, n)
      <3>1. DOMAIN build_plan_hierarchical_multigraph(county, ids, n).pair_map
              = DOMAIN PairTable(county, ids, n, TRUE)
        BY <2>2 DEF build_plan_hierarchical_multigraph
      <3>2. DOMAIN PairTable(county, ids, n, TRUE) = Q
        BY <1>1
      <3> QED  BY <3>1, <3>2
    <2> QED  BY <2>1, <2>2
  <1> HIDE DEF Q
  <1>4. DOMAIN build_plan_multigraph(county, ids, n).pair_map \subseteq Q
    BY <1>2, <1>3 DEF build_plan_multigraph
  <1> QED  BY <1>4 DEF Q

\* The linking edges a plan is given: few, across regions, along pairs that connect the regions.
LinksRegions(ids, n, L, P) ==
    /\ Cardinality(L) <= n - 1 /\ IsFiniteSet(L)
    /\ \A e \in L : e \in Edges /\ Crosses(ids, e)
    /\ Connected(0 .. n - 1, P)
    /\ \A q \in P : \E a, b \in Vertices : {a, b} \in L /\ q = {ids[a], ids[b]}

\* The linking edges found for a plan.
LEMMA InitialLinks ==
    ASSUME NEW ids, NEW n \in Nat, NEW L \in get_intial_linking_edges(ids, n)
    PROVE  \E P : LinksRegions(ids, n, L, P)
  <1> DEFINE m == build_plan_multigraph(county, ids, n)
             pairs == {p \in DOMAIN m.pair_map : m.pair_map[p].merge_is_hier_valid}
             above(P, p) == IF p[1] \in Component(0, (0 .. n - 1) \ {p[2]}, {{q[1], q[2]} : q \in P})
                            THEN p ELSE <<p[2], p[1]>>
             link(P, p) == FirstEdge(ids, above(P, p)[1], above(P, p)[2])
             graph(P) == {{p[1], p[2]} : p \in P}
  <1>1. PICK P \in SearchTrees(n, pairs) : L = {link(P, p) : p \in P}
    BY DEF get_intial_linking_edges
  <1>2. P \in SUBSET pairs /\ Cardinality(P) = n - 1 /\ Connected(0 .. n - 1, graph(P))
    BY DEF SearchTrees, kSubset
  <1>3. \A p \in P : p \in PairsOf(n) /\ CrossEdges(ids, p) # {}
    <2>1. pairs \subseteq DOMAIN build_plan_multigraph(county, ids, n).pair_map
      OBVIOUS
    <2> HIDE DEF pairs
    <2> QED  BY <1>2, <2>1, PairsTouch
  <1>4. ASSUME NEW p \in P
        PROVE  \E a, b \in Vertices : link(P, p) = {a, b} /\ {a, b} \in Edges
                                         /\ {ids[a], ids[b]} = {p[1], p[2]} /\ ids[a] # ids[b]
    <2>1. p[1] \in 0 .. n - 1 /\ p[2] \in 0 .. n - 1 /\ p[1] < p[2] /\ p[1] # p[2]
      BY <1>3 DEF PairsOf
    <2>2. PICK e \in Edges : RegionsOf(ids, e) = {p[1], p[2]}
      BY <1>3 DEF CrossEdges
    <2> DEFINE r == above(P, p)[1]
               s == above(P, p)[2]
    <2>3. (r = p[1] /\ s = p[2]) \/ (r = p[2] /\ s = p[1])
      OBVIOUS
    <2>4. r # s /\ {r, s} = {p[1], p[2]} /\ link(P, p) = FirstEdge(ids, r, s)
      <3>1. link(P, p) = FirstEdge(ids, r, s)
        OBVIOUS
      <3> HIDE DEF r, s, link
      <3> QED  BY <2>1, <2>3, <3>1
    <2> HIDE DEF r, s, link
    <2>5. RegionsOf(ids, e) = {r, s}
      BY <2>2, <2>4
    <2>6. r # s
      BY <2>4
    <2> HIDE DEF above, graph
    <2>7. LeadsFromTo(ids, FirstEdge(ids, r, s), r, s)
      BY <2>5, <2>6, FirstEdgeIs
    <2> QED  BY <2>4, <2>7 DEF LeadsFromTo
  <1>5. IsFiniteSet(P)
    <2>1. PairsOf(n) \in SUBSET ((0 .. n - 1) \X (0 .. n - 1))
      BY DEF PairsOf
    <2>2. IsFiniteSet((0 .. n - 1) \X (0 .. n - 1))
      <3>1. IsFiniteSet(0 .. n - 1)
        BY FS_Interval
      <3> DEFINE U == 0 .. n - 1
      <3> HIDE DEF U, pairs, graph, link
      <3> QED  BY <3>1, FS_Product DEF U
    <2>3. P \in SUBSET ((0 .. n - 1) \X (0 .. n - 1))
      BY <1>3, <2>1
    <2> QED  BY <2>2, <2>3, FS_Subset
  <1>6. IsFiniteSet(L) /\ Cardinality(L) <= n - 1
    <2> DEFINE f == [p \in P |-> link(P, p)]
    <2>1. f \in Surjection(P, L)
      <3> HIDE DEF link
      <3> QED  BY <1>1 DEF Surjection
    <2> HIDE DEF f
    <2> QED  BY <1>2, <1>5, <2>1, FS_Surjection
  <1> HIDE DEF link
  <1>7. \A e \in L : e \in Edges /\ Crosses(ids, e)
    <2> TAKE e \in L
    <2>1. PICK p \in P : e = link(P, p)
      BY <1>1
    <2>2. PICK a, b \in Vertices : link(P, p) = {a, b} /\ {a, b} \in Edges /\ ids[a] # ids[b]
      BY <1>4
    <2> QED  BY <2>1, <2>2, CrossesIs
  <1>8. \A q \in graph(P) : \E a, b \in Vertices : {a, b} \in L /\ q = {ids[a], ids[b]}
    <2> TAKE q \in graph(P)
    <2>1. PICK p \in P : q = {p[1], p[2]}
      OBVIOUS
    <2>2. PICK a, b \in Vertices : link(P, p) = {a, b} /\ {ids[a], ids[b]} = {p[1], p[2]}
      BY <1>4
    <2>3. {a, b} \in L
      BY <1>1, <2>2
    <2> QED  BY <2>1, <2>2, <2>3
  <1> HIDE DEF graph
  <1>9. LinksRegions(ids, n, L, graph(P))
    BY <1>2, <1>6, <1>7, <1>8 DEF LinksRegions
  <1> QED  BY <1>9

\* A plan that was handed in, with trees on its regions and linking edges found for it, is linked.
LEMMA HandedInIsLinked ==
    ASSUME NEW n \in Nat \ {0}, NEW ids \in [Vertices -> 0 .. n - 1], NEW F \in SUBSET Edges,
           \A u, v \in Vertices : county[u] = county[v],
           \A e \in F : ~Crosses(ids, e),
           \A r \in 0 .. n - 1 : Inside(Region(ids, r), F) \in HierarchicalTrees(county, Region(ids, r)),
           NEW L, NEW P, LinksRegions(ids, n, L, P)
    PROVE  IsLinked(ids, n, F, L)
  <1> DEFINE G == F \cup L
  <1>1. \A r \in 0 .. n - 1 : Region(ids, r) \in SUBSET Vertices /\ Region(ids, r) # {}
                                /\ IsTree(Region(ids, r), Inside(Region(ids, r), F))
    <2> TAKE r \in 0 .. n - 1
    <2> DEFINE R == Region(ids, r)
    <2>1. R \in SUBSET Vertices
      BY DEF Region
    <2>2. Inside(R, F) \in HierarchicalTrees(county, R)
      OBVIOUS
    <2> HIDE DEF R
    <2>3. R # {}
      BY <2>2, NoTreeOnNothing
    <2>4. IsTree(R, Inside(R, F))
      BY <2>1, <2>2, <2>3, HierarchicalTreesAre
    <2> QED  BY <2>1, <2>3, <2>4 DEF R
  <1>2. Cardinality(F) = Cardinality(Vertices) - n
    <2>1. \A r \in 0 .. n - 1 : IsTree(Region(ids, r), Inside(Region(ids, r), F))
      BY <1>1
    <2> QED  BY <2>1, ForestCount
  <1>3. G \in SUBSET Edges /\ F \cap L = {} /\ IsFiniteSet(F) /\ IsFiniteSet(L) /\ Cardinality(L) <= n - 1
    BY GraphFacts DEF LinksRegions
  <1>4. \A r \in 0 .. n - 1 : Connected(Region(ids, r), G)
    <2> TAKE r \in 0 .. n - 1
    <2> DEFINE R == Region(ids, r)
    <2>1. Connected(R, Inside(R, F)) /\ IsFiniteSet(R)
      BY <1>1 DEF IsTree
    <2>2. Inside(R, Inside(R, F)) \subseteq G
      BY DEF Inside
    <2> HIDE DEF R, G
    <2>3. Connected(R, G)
      BY <2>1, <2>2, ConnectedMore
    <2> QED  BY <2>3 DEF R
  <1>5. Connected(Vertices, G)
    <2>1. \A q \in P : \E a, b \in Vertices : {a, b} \in G /\ q = {ids[a], ids[b]}
      <3> TAKE q \in P
      <3>1. PICK a, b \in Vertices : {a, b} \in L /\ q = {ids[a], ids[b]}
        BY DEF LinksRegions
      <3> QED  BY <3>1
    <2>2. Connected(0 .. n - 1, P) /\ n \in Nat
      BY DEF LinksRegions
    <2>3. ids \in [Vertices -> 0 .. n - 1]
      OBVIOUS
    <2>4. JoinsRegions(ids, n, G, P)
      <3> HIDE DEF G
      <3> QED  BY <1>4, <2>1, <2>2 DEF JoinsRegions
    <2> HIDE DEF G
    <2> QED  BY <2>2, <2>3, <2>4, JoinedRegions
  <1>6. Cardinality(G) = Cardinality(Vertices) - 1
    <2>1. Cardinality(G) = Cardinality(F) + Cardinality(L) /\ Cardinality(L) \in Nat /\ Cardinality(F) \in Nat
          /\ IsFiniteSet(G)
      BY <1>3, PartsAddUp
    <2>2. Cardinality(Vertices) \in Nat /\ IsFiniteSet(Vertices)
      BY GraphFacts, FS_CardinalityType
    <2>3. Cardinality(Inside(Vertices, G)) >= Cardinality(Vertices) - 1 /\ Inside(Vertices, G) = G
      <3>1. Links(G) /\ \A e \in G : e \subseteq Vertices
        BY <1>3, GraphFacts, MapAssumption
      <3>2. Vertices # {}
        BY MapAssumption
      <3> HIDE DEF G
      <3>3. Inside(Vertices, G) = G
        BY <3>1 DEF Inside
      <3> QED  BY <1>5, <2>1, <2>2, <3>1, <3>2, <3>3, EdgesToConnect
    <2> HIDE DEF G
    <2>4. Cardinality(G) >= Cardinality(Vertices) - 1
      BY <2>3
    <2> QED  BY <1>2, <1>3, <2>1, <2>2, <2>4
  <1>7. IsTree(Vertices, G)
    <2>1. IsFiniteSet(G) /\ Links(G) /\ \A e \in G : e \subseteq Vertices
      BY <1>3, GraphFacts, MapAssumption
    <2> HIDE DEF G
    <2> QED  BY <1>5, <1>6, <2>1, GraphFacts, MapAssumption DEF IsTree
  <1>8. G \in HierarchicalTrees(county, Vertices)
    <2>1. \A v \in Vertices : CountyPart(county, Vertices, county[v]) = Vertices
      BY DEF CountyPart
    <2> HIDE DEF G
    <2>2. \A v \in Vertices : Connected(CountyPart(county, Vertices, county[v]), G)
      BY <1>5, <2>1
    <2>3. Vertices \in SUBSET Vertices /\ Vertices # {} /\ G \in SUBSET Edges
      BY <1>3, MapAssumption
    <2> QED  BY <1>7, <2>2, <2>3, HierarchicalTreesAre
  <1> QED  BY <1>3, <1>8 DEF IsLinked, LinksRegions

\* The seats handed in with a plan, and those of a plan of one region.
LEMMA SizesAreGiven ==
    ASSUME NEW n \in 1 .. Seats, NEW f, \A r \in 0 .. n - 1 : f[r] \in Nat \ {0},
           Total(f, 0 .. n - 1) = Seats, region_sizes = [r \in Ids |-> IF r < n THEN f[r] ELSE 0]
    PROVE  AreSizes(region_sizes, n)
  <1> DEFINE U == 0 .. n - 1
  <1>1. U \in SUBSET Ids /\ (\A r \in Ids : r \in U <=> r < n) /\ IsFiniteSet(U)
    <2>1. Seats \in Nat /\ n \in Nat
      BY LinkedPlanAssumption
    <2>2. \A r \in Ids : r \in Nat
      BY IdsAre
    <2>3. U \in SUBSET Ids /\ \A r \in Ids : r \in U <=> r < n
      BY <2>1, <2>2 DEF Ids
    <2>4. IsFiniteSet(U)
      BY <2>1, FS_Interval
    <2> QED  BY <2>3, <2>4
  <1>2. \A r \in U : region_sizes[r] = f[r] /\ region_sizes[r] \in Nat \ {0} /\ region_sizes[r] \in Int
                       /\ f[r] \in Int
    BY <1>1
  <1>3. \A r \in Ids \ U : region_sizes[r] = 0
    BY <1>1
  <1>4. region_sizes \in [Ids -> Nat] /\ \A r \in Ids : region_sizes[r] > 0 <=> r < n
    <2>1. \A r \in Ids : region_sizes[r] \in Nat
      BY <1>2, <1>3
    <2>2. \A r \in Ids : region_sizes[r] > 0 <=> r \in U
      BY <1>2, <1>3
    <2> HIDE DEF U
    <2> QED  BY <1>1, <2>1, <2>2
  <1>5. Total(region_sizes, Ids) = Total(region_sizes, U)
    <2> HIDE DEF U
    <2> QED  BY <1>1, <1>2, <1>3, IdsAre, TotalOfPart
  <1>6. Total(region_sizes, U) = Total(f, U)
    <2> HIDE DEF U
    <2> QED  BY <1>1, <1>2, TotalSame
  <1> QED  BY <1>4, <1>5, <1>6 DEF AreSizes

\* The sum of a function, as a total over its domain.
LEMMA SumIsTotal == \A f : SumFunction(f) = Total(f, DOMAIN f)
  BY DEF SumFunction, SumFunctionOnSet, FoldFunctionOnSet, MapThenFoldSet, Total, MapThenSumSet

\* Runs start from a plan that is whole.
LEMMA PlanInit == Init => PlanInv
  <1> SUFFICES ASSUME Init
               PROVE  PlanInv
    OBVIOUS
  <1>1. county \in CountyLayouts /\ (Blank \/ Partial)
    BY DEF Init
  <1>2. CASE Blank
    <2>1. num_regions = 1 /\ 1 \in 1 .. Seats
      BY <1>2, LinkedPlanAssumption DEF Blank
    <2>2. LinkedInv
      BY <1>1, <1>2, <2>1 DEF Blank, LinkedInv
    <2>3. AreSizes(region_sizes, 1)
      <3> DEFINE f == [r \in {0} |-> Seats]
      <3>1. Total(f, 0 .. 1 - 1) = Seats
        <4>1. 0 .. 1 - 1 = {} \cup {0} /\ f[0] = Seats /\ f[0] \in Int
          BY LinkedPlanAssumption
        <4>2. Total(f, {} \cup {0}) = Total(f, {}) + f[0]
          <5> HIDE DEF f
          <5>1. IsFiniteSet({}) /\ 0 \notin {}
            BY FS_EmptySet
          <5> QED  BY <4>1, <5>1, TotalAdd
        <4>3. Total(f, {}) = 0
          BY TotalOfNone
        <4> HIDE DEF f
        <4>4. Total(f, {} \cup {0}) = Seats
          BY <4>1, <4>2, <4>3
        <4>5. 0 .. 1 - 1 = {} \cup {0}
          BY <4>1
        <4> QED  BY <4>4, <4>5, Zenon
      <3>2. region_sizes = [r \in Ids |-> IF r < 1 THEN f[r] ELSE 0]
        <4>1. \A r \in Ids : r < 1 <=> r = 0
          BY IdsAre
        <4> QED  BY <1>2, <4>1 DEF Blank
      <3>3. \A r \in 0 .. 1 - 1 : f[r] \in Nat \ {0}
        BY LinkedPlanAssumption
      <3> HIDE DEF f
      <3> QED  BY <2>1, <3>1, <3>2, <3>3, SizesAreGiven
    <2> QED  BY <2>1, <2>2, <2>3 DEF PlanInv, SizesInv
  <1>3. CASE Partial
    <2> DEFINE n == num_regions
    <2>1. n \in 2 .. Seats - 1 /\ n \in 1 .. Seats /\ n \in Nat \ {0} /\ n # 1
          /\ region_ids \in [Vertices -> 0 .. n - 1]
      BY <1>3, LinkedPlanAssumption DEF Partial
    <2>2. forest_edges \in SUBSET Edges /\ (\A e \in forest_edges : ~Crosses(region_ids, e))
          /\ \A r \in 0 .. n - 1 :
                Inside(RegionOf(r), forest_edges) \in HierarchicalTreesOn[county][RegionOf(r)]
      BY <1>3 DEF Partial
    <2>3. \A r \in 0 .. n - 1 :
             Inside(Region(region_ids, r), forest_edges) \in HierarchicalTrees(county, Region(region_ids, r))
      <3>1. \A r : RegionOf(r) \in SUBSET Vertices /\ RegionOf(r) = Region(region_ids, r)
        BY DEF RegionOf, Region
      <3> QED  BY <1>1, <2>2, <3>1, TreesOn
    <2>4. PICK links \in get_intial_linking_edges(region_ids, n) : linking_edges = [e \in links |-> 0]
      BY <1>3 DEF Partial
    <2>5. PICK P : LinksRegions(region_ids, n, links, P)
      <3> HIDE DEF n
      <3> QED  BY <2>1, <2>4, InitialLinks
    <2>6. DOMAIN linking_edges = links
      BY <2>4
    <2>7. \A u, v \in Vertices : county[u] = county[v]
      BY <1>3, LinkedPlanAssumption DEF Partial
    <2>8. IsLinked(region_ids, n, forest_edges, links)
      <3> HIDE DEF n
      <3> QED  BY <2>1, <2>2, <2>3, <2>5, <2>7, HandedInIsLinked
    <2>9. LinkedInv
      BY <1>1, <2>1, <2>6, <2>8 DEF LinkedInv
    <2>10. PICK sizes \in [0 .. n - 1 -> 1 .. Seats] :
              SumFunction(sizes) = Seats
              /\ region_sizes = [r \in Ids |-> IF r \in DOMAIN sizes THEN sizes[r] ELSE 0]
      BY <1>3 DEF Partial
    <2>11. SizesInv
      <3>1. DOMAIN sizes = 0 .. n - 1 /\ \A r \in 0 .. n - 1 : sizes[r] \in Nat \ {0}
        OBVIOUS
      <3>2. Total(sizes, 0 .. n - 1) = Seats
        BY <2>10, <3>1, SumIsTotal
      <3>3. region_sizes = [r \in Ids |-> IF r < n THEN sizes[r] ELSE 0]
        <4>1. \A r \in Ids : r \in 0 .. n - 1 <=> r < n
          BY <2>1, IdsAre
        <4> QED  BY <2>10, <3>1, <4>1
      <3> HIDE DEF n
      <3>4. AreSizes(region_sizes, n)
        BY <2>1, <3>1, <3>2, <3>3, SizesAreGiven
      <3> QED  BY <3>4 DEF SizesInv, n
    <2> QED  BY <2>9, <2>11 DEF PlanInv
  <1> QED  BY <1>1, <1>2, <1>3

\* The seats add up and the plan stays linked, whatever is split, merged and drawn.
THEOREM PlanStaysLinked == Spec => []PlanInv
  BY PlanInit, PlanStep, PTL DEF Spec

\* The linked tree stays hierarchical.
THEOREM LinkedTreeStaysHierarchical == Spec => []LinkedTreeIsHierarchical
  <1>1. PlanInv => LinkedTreeIsHierarchical
    BY LinkedIsHierarchical DEF PlanInv
  <1> QED  BY <1>1, PlanStaysLinked, PTL

----------------------------------------------------------------------------


\* Edges in one county, and edges in one region, keep a label.
LEMMA KeptEdges ==
    ASSUME NEW ids, NEW e \in Edges
    PROVE  /\ WithinCounty(county, e) <=> e \in Keeping(county, Edges)
           /\ ~Crosses(ids, e) <=> e \in Keeping(ids, Edges)
  <1>1. PICK a, b \in Vertices : a # b /\ e = {a, b}
    BY GraphFacts
  <1>2. Crosses(ids, e) <=> ids[a] # ids[b]
    BY <1>1, CrossesIs
  <1>3. WithinCounty(county, e) <=> county[a] = county[b]
    BY <1>1 DEF WithinCounty, CountiesIn
  <1>4. \A k : e \in Keeping(k, Edges) <=> k[a] = k[b]
    BY <1>1 DEF Keeping
  <1> QED  BY <1>2, <1>3, <1>4

\* What the walk over the map makes of the counties and regions of a plan.
LEMMA WalkIs ==
    ASSUME NEW ids
    PROVE  /\ Explored(county, ids) = Grouped(Vertices, Edges, county, ids)
           /\ \A S : /\ Cardinality(CountyRegionPieces(county, ids, S)) = PiecesIn(S, Edges, county, ids)
                     /\ CountyPieces(county, S) = Components(S, Keeping(county, Edges))
                     /\ RegionsIn(ids, S) = LabelsOf(ids, S)
                     /\ CountiesIn(county, S) = LabelsOf(county, S)
  <1>1. {e \in Edges : WithinCounty(county, e) \/ ~Crosses(ids, e)} = Keeping(county, Edges) \cup Keeping(ids, Edges)
    BY KeptEdges DEF Keeping
  <1>2. {e \in Edges : WithinCounty(county, e) /\ ~Crosses(ids, e)} = Keeping(county, Edges) \cap Keeping(ids, Edges)
    BY KeptEdges DEF Keeping
  <1>3. {e \in Edges : WithinCounty(county, e)} = Keeping(county, Edges)
    BY KeptEdges DEF Keeping
  <1> QED  BY <1>1, <1>2, <1>3 DEF Explored, Grouped, CountyRegionPieces, PiecesIn, CountyPieces, RegionsIn,
                                   LabelsOf, CountiesIn

\* Along the tree of a linked plan every county, every region and every part
\* of a region inside a county is in one piece.
LEMMA LinkedHasTwoLabels ==
    ASSUME NEW ids, NEW n, NEW F, NEW L, IsLinked(ids, n, F, L)
    PROVE  TwoLabels(Vertices, F \cup L, Edges, county, ids)
  <1> DEFINE T == F \cup L
  <1>1. T \in HierarchicalTrees(county, Vertices) /\ Vertices \in SUBSET Vertices /\ Vertices # {}
    BY MapAssumption DEF IsLinked
  <1>2. F \subseteq T
    OBVIOUS
  <1> HIDE DEF T
  <1>3. T \in SUBSET Edges /\ IsTree(Vertices, T) /\ \A v \in Vertices : Connected(CountyPart(county, Vertices, county[v]), T)
    BY <1>1, HierarchicalTreesAre
  <1>4. ASSUME NEW v \in Vertices
        PROVE  /\ Connected({w \in Vertices : county[w] = county[v]}, T)
               /\ Connected({w \in Vertices : ids[w] = ids[v]}, T)
               /\ Connected({w \in Vertices : county[w] = county[v] /\ ids[w] = ids[v]}, T)
    <2> DEFINE R == Region(ids, ids[v])
               I == Inside(R, F)
    <2>1. R \in SUBSET Vertices /\ v \in R /\ ids[v] \in 0 .. n - 1
      BY DEF Region, IsLinked
    <2>2. I \in HierarchicalTrees(county, R)
      BY <2>1 DEF IsLinked
    <2>3. R # {} /\ IsFiniteSet(R)
      BY <2>1, GraphFacts
    <2> HIDE DEF R
    <2>4. IsTree(R, I) /\ Connected(CountyPart(county, R, county[v]), I)
      <3> HIDE DEF I
      <3> QED  BY <2>1, <2>2, <2>3, HierarchicalTreesAre
    <2>5. I \subseteq T
      BY <1>2 DEF Inside
    <2>6. \A Q \in SUBSET Vertices : Connected(Q, I) => Connected(Q, T)
      <3> SUFFICES ASSUME NEW Q \in SUBSET Vertices, Connected(Q, I)
                   PROVE  Connected(Q, T)
        OBVIOUS
      <3>1. IsFiniteSet(Q)
        BY GraphFacts
      <3>2. Inside(Q, I) \subseteq T
        BY <2>5 DEF Inside
      <3> HIDE DEF I
      <3> QED  BY <3>1, <3>2, ConnectedMore
    <2>7. Connected(R, T) /\ Connected(CountyPart(county, R, county[v]), T)
      <3>1. CountyPart(county, R, county[v]) \in SUBSET Vertices
        BY <2>1 DEF CountyPart
      <3> QED  BY <2>1, <2>4, <2>6, <3>1 DEF IsTree
    <2>8. /\ R = {w \in Vertices : ids[w] = ids[v]}
          /\ CountyPart(county, R, county[v]) = {w \in Vertices : county[w] = county[v] /\ ids[w] = ids[v]}
          /\ CountyPart(county, Vertices, county[v]) = {w \in Vertices : county[w] = county[v]}
      BY DEF R, Region, CountyPart
    <2>9. Connected(CountyPart(county, Vertices, county[v]), T)
      BY <1>3
    <2> QED  BY <2>7, <2>8, <2>9
  <1>5. \A e \in Edges : e \subseteq Vertices
    BY MapAssumption
  <1> QED  BY <1>3, <1>4, <1>5 DEF TwoLabels, InPieces, T

\* The regions of a linked plan are all there.
LEMMA RegionsThere ==
    ASSUME NEW ids, NEW n \in Nat \ {0}, NEW F, NEW L, IsLinked(ids, n, F, L)
    PROVE  /\ \A r \in 0 .. n - 1 : \E v \in Vertices : ids[v] = r
           /\ LabelsOf(ids, Vertices) = 0 .. n - 1 /\ Cardinality(0 .. n - 1) = n
  <1>1. ASSUME NEW r \in 0 .. n - 1
        PROVE  \E v \in Vertices : ids[v] = r
    <2>1. Region(ids, r) # {}
      BY NoTreeOnNothing DEF IsLinked
    <2> QED  BY <2>1 DEF Region
  <1>2. ids \in [Vertices -> 0 .. n - 1]
    BY DEF IsLinked
  <1>3. Cardinality(0 .. n - 1) = n
    BY FS_Interval
  <1> QED  BY <1>1, <1>2, <1>3 DEF LabelsOf

\* A linked plan has not too many splits: it always gets a multigraph.
LEMMA FewSplits ==
    ASSUME NEW ids, NEW n \in Nat \ {0}, NEW F, NEW L, IsLinked(ids, n, F, L)
    PROVE  ~HasTooManySplits(county, ids, n)
  <1> DEFINE T == F \cup L
             explored == Explored(county, ids)
             f == [S \in explored |-> Cardinality(CountyRegionPieces(county, ids, S)) - 1]
  <1>1. TwoLabels(Vertices, T, Edges, county, ids)
    BY LinkedHasTwoLabels
  <1>2. explored = Grouped(Vertices, Edges, county, ids)
    BY WalkIs
  <1>3. \A S \in explored : f[S] = PiecesIn(S, Edges, county, ids) - 1
    BY WalkIs
  <1>4. SumFunction(f) = Total(f, explored)
    <2>1. DOMAIN f = explored
      OBVIOUS
    <2> HIDE DEF f
    <2> QED  BY <2>1, SumIsTotal
  <1>5. Cardinality(LabelsOf(county, Vertices)) = Cardinality(CountiesIn(county, Vertices))
        /\ Cardinality(LabelsOf(ids, Vertices)) = n
    BY WalkIs, RegionsThere
  <1>6. ~(SumFunction(f) - Cardinality(CountiesIn(county, Vertices)) >= n)
    <2> DEFINE c == Cardinality(CountiesIn(county, Vertices))
    <2>1. Total(f, explored) \in Int /\ Total(f, explored) < c + n
      <3> HIDE DEF T, f, explored
      <3>1. Total(f, Grouped(Vertices, Edges, county, ids)) \in Int
            /\ Total(f, Grouped(Vertices, Edges, county, ids))
                  < Cardinality(LabelsOf(county, Vertices)) + Cardinality(LabelsOf(ids, Vertices))
        BY <1>1, <1>2, <1>3, GroupsAreNotSplitTooOften
      <3> QED  BY <1>2, <1>5, <3>1
    <2>2. c \in Nat
      <3>1. [v \in Vertices |-> county[v]] \in Surjection(Vertices, CountiesIn(county, Vertices))
        BY DEF Surjection, CountiesIn
      <3>2. IsFiniteSet(CountiesIn(county, Vertices))
        BY <3>1, GraphFacts, FS_Surjection
      <3> QED  BY <3>2, FS_CardinalityType
    <2>3. ~(Total(f, explored) - c >= n)
      <3> DEFINE t == Total(f, explored)
      <3>1. t \in Int /\ t < c + n /\ c \in Nat
        BY <2>1, <2>2
      <3> HIDE DEF t, c
      <3>2. ~(t - c >= n)
        BY <3>1
      <3> QED  BY <3>2 DEF t, c
    <2> QED  BY <1>4, <2>3
  <1>7. ASSUME NEW S \in explored
        PROVE  ~(Splits(county, ids, S) >= Cardinality(RegionsIn(ids, S)))
    <2> DEFINE p == PiecesIn(S, Edges, county, ids)
               c == Cardinality(Components(S, Keeping(county, Edges)))
               l == Cardinality(LabelsOf(ids, S))
    <2>1. p \in Nat /\ c \in Nat /\ l \in Nat /\ p - c < l
      BY <1>1, <1>2, GroupIsNotSplitTooOften
    <2>2. Splits(county, ids, S) = p - c /\ Cardinality(RegionsIn(ids, S)) = l
      BY WalkIs DEF Splits
    <2> HIDE DEF p, c, l
    <2>3. ~(p - c >= l)
      BY <2>1
    <2> QED  BY <2>2, <2>3
  <1> QED  BY <1>6, <1>7 DEF HasTooManySplits

\* Components without a vertex in common have different numbers.
LEMMA NumbersDiffer ==
    ASSUME NEW Gs \in SUBSET (SUBSET Vertices), IsFiniteSet(Gs), \A S \in Gs : S # {},
           NEW R \in Gs, NEW S \in Gs, R \cap S = {}
    PROVE  ComponentIds(Gs)[R] # ComponentIds(Gs)[S]
  <1> DEFINE upto(D) == {Q \in Gs : Min(Q) <= Min(D)}
  <1>1. \A Q \in Gs : Min(Q) \in Q /\ Min(Q) \in Nat
    <2> SUFFICES ASSUME NEW Q \in Gs
                 PROVE  Min(Q) \in Q /\ Min(Q) \in Nat
      OBVIOUS
    <2>1. Q \in SUBSET Nat /\ Q # {}
      BY MapAssumption
    <2> QED  BY <2>1, LeastIs
  <1>2. \A Q \in Gs : IsFiniteSet(upto(Q)) /\ ComponentIds(Gs)[Q] = Cardinality(upto(Q))
    BY FS_Subset DEF ComponentIds
  <1>3. \A P, Q \in Gs : Min(P) < Min(Q) => upto(P) \subseteq upto(Q) /\ Q \in upto(Q) /\ Q \notin upto(P)
    BY <1>1
  <1>4. \A P, Q \in Gs : Min(P) < Min(Q) => Cardinality(upto(P)) # Cardinality(upto(Q))
    <2> SUFFICES ASSUME NEW P \in Gs, NEW Q \in Gs, Min(P) < Min(Q)
                 PROVE  Cardinality(upto(P)) # Cardinality(upto(Q))
      OBVIOUS
    <2> DEFINE A == upto(P)
               B == upto(Q)
    <2>1. A \subseteq B /\ Q \in B /\ Q \notin A /\ IsFiniteSet(B) /\ IsFiniteSet(A)
      BY <1>2, <1>3
    <2> HIDE DEF A, B
    <2>2. A \subseteq B \ {Q} /\ IsFiniteSet(B \ {Q}) /\ Cardinality(B \ {Q}) = Cardinality(B) - 1
      BY <2>1, FS_RemoveElement
    <2>3. Cardinality(A) <= Cardinality(B \ {Q}) /\ Cardinality(A) \in Nat /\ Cardinality(B) \in Nat
      BY <2>1, <2>2, FS_Subset, FS_CardinalityType
    <2>4. Cardinality(A) # Cardinality(B)
      BY <2>2, <2>3
    <2> QED  BY <2>4 DEF A, B
  <1>5. Min(R) # Min(S)
    BY <1>1
  <1>6. Min(R) < Min(S) \/ Min(S) < Min(R)
    BY <1>1, <1>5
  <1> HIDE DEF upto
  <1> QED  BY <1>2, <1>4, <1>6

\* A linking edge between regions of one component is within a county: the
\* tree holds no other way between its ends.
LEMMA LinkInsideComponent ==
    ASSUME NEW ids, NEW n, NEW F, NEW L, IsLinked(ids, n, F, L), NEW e \in L,
           NEW S \in Explored(county, ids), NEW v \in S, NEW w \in S, RegionsOf(ids, e) = {ids[v], ids[w]}
    PROVE  WithinCounty(county, e)
  <1> DEFINE T == F \cup L
             H == Keeping(county, Edges) \cup Keeping(ids, Edges)
  <1>1. TwoLabels(Vertices, T, Edges, county, ids)
    BY LinkedHasTwoLabels
  <1>2. S \in Grouped(Vertices, Edges, county, ids)
    BY WalkIs
  <1>3. e \in T /\ T \in SUBSET Edges /\ e \in Edges /\ Crosses(ids, e)
    <2>1. T \in SUBSET Edges
      BY LinkedEdges
    <2>2. Crosses(ids, e)
      BY DEF IsLinked
    <2> QED  BY <2>1, <2>2
  <1>4. IsGroup(S, Vertices, T, Edges, county, ids)
    <2> HIDE DEF T
    <2> QED  BY <1>1, <1>2, GroupsAre
  <1>5. IsFiniteSet(Vertices) /\ IsTree(Vertices, T) /\ InPieces(ids, Vertices, T)
    BY <1>1 DEF TwoLabels, IsTree
  <1>6. PICK a, b \in Vertices : a # b /\ e = {a, b}
    BY <1>3, GraphFacts
  <1>7. ids[a] # ids[b] /\ RegionsOf(ids, e) = {ids[a], ids[b]}
    BY <1>3, <1>6, CrossesIs DEF RegionsOf
  <1> HIDE DEF T
  <1>8. \A x \in S : \A y \in Vertices : ids[x] = ids[y] => y \in S
    <2> SUFFICES ASSUME NEW x \in S, NEW y \in Vertices, ids[x] = ids[y]
                 PROVE  y \in S
      OBVIOUS
    <2>1. Closed(S, Vertices, H) /\ Keeping(ids, Edges) \subseteq H
      BY <1>4 DEF IsGroup
    <2> HIDE DEF H
    <2> QED  BY <1>3, <1>5, <2>1, LabelsStayTogether
  <1>9. a \in S /\ b \in S
    <2>1. (ids[v] = ids[a] \/ ids[w] = ids[a]) /\ (ids[v] = ids[b] \/ ids[w] = ids[b])
      BY <1>7
    <2> QED  BY <1>6, <1>8, <2>1
  <1> SUFFICES ASSUME ~WithinCounty(county, e)
               PROVE  FALSE
    OBVIOUS
  <1> DEFINE A == SideOf(Vertices, T, a, b)
             B == SideOf(Vertices, T, b, a)
             U == Keeping(county, T) \cup Keeping(ids, T)
  <1>10. e \notin U
    <2>1. e \notin Keeping(county, Edges) /\ e \notin Keeping(ids, Edges)
      BY <1>3, KeptEdges
    <2> QED  BY <1>3, <2>1 DEF Keeping
  <1>11. U \subseteq T \ {{a, b}} /\ Connected(S, U) /\ S \subseteq Vertices
    BY <1>4, <1>6, <1>10 DEF Keeping, IsGroup
  <1>12. Sides(Vertices, T, {a, b}, a, b, A, B)
    BY <1>3, <1>5, <1>6, TreeCut DEF CutInTwo
  <1> HIDE DEF U
  <1>13. Closed(S \cap A, S, U)
    <2> SUFFICES ASSUME NEW f \in Inside(S, U), f \cap (S \cap A) # {}
                 PROVE  f \subseteq S \cap A
      BY DEF Closed
    <2>1. f \subseteq S /\ f \in T /\ f # {a, b}
      BY <1>11 DEF Inside
    <2> QED  BY <1>12, <2>1 DEF Sides
  <1>14. S \cap A = S
    <2>1. a \in S \cap A
      BY <1>9, <1>12 DEF Sides
    <2>2. IsFiniteSet(S)
      BY <1>5, <1>11, FS_Subset
    <2> HIDE DEF A
    <2> QED  BY <1>11, <1>13, <2>1, <2>2, ConnectedIsClosed
  <1>15. b \in B /\ A \cap B = {}
    BY <1>12 DEF Sides
  <1> QED  BY <1>9, <1>14, <1>15

\* The table has the pair of every edge that crosses.
LEMMA PairIsCounted ==
    ASSUME NEW ids, NEW n \in Nat, ids \in [Vertices -> 0 .. n - 1], NEW e \in Edges, Crosses(ids, e), NEW by_county
    PROVE  /\ PairOf(ids, e) \in DOMAIN PairTable(county, ids, n, by_county)
           /\ PairTable(county, ids, n, by_county)[PairOf(ids, e)].merge_is_hier_valid = TRUE
           /\ WithinCounty(county, e) \/ ~by_county =>
                 PairTable(county, ids, n, by_county)[PairOf(ids, e)].admin_adjacent = TRUE
  <1> DEFINE p == PairOf(ids, e)
             within == {f \in CrossEdges(ids, p) : by_county => WithinCounty(county, f)}
             counted == CountedPair(county, ids, p, by_county)
  <1>1. p \in PairsOf(n) /\ e \in CrossEdges(ids, p)
    BY PairOfIs
  <1> HIDE DEF p
  <1>2. p \in DOMAIN PairTable(county, ids, n, by_county) /\ PairTable(county, ids, n, by_county)[p] = counted
    BY <1>1 DEF PairTable
  <1>3. counted.merge_is_hier_valid = TRUE
    BY DEF CountedPair, NoPairData
  <1>4. counted.admin_adjacent = (within # {})
    BY DEF CountedPair, NoPairData
  <1>5. WithinCounty(county, e) \/ ~by_county => e \in within
    BY <1>1
  <1> QED  BY <1>2, <1>3, <1>4, <1>5 DEF p

\* A linked plan gets a multigraph, and in it the pair of every linking edge
\* is one that may be merged.
LEMMA LinkedPairsMayMerge ==
    ASSUME NEW ids, NEW n \in Nat \ {0}, NEW F, NEW L, IsLinked(ids, n, F, L)
    PROVE  /\ build_plan_multigraph(county, ids, n).ok
           /\ \A e \in L : /\ PairOf(ids, e) \in DOMAIN build_plan_multigraph(county, ids, n).pair_map
                           /\ build_plan_multigraph(county, ids, n).pair_map[PairOf(ids, e)].merge_is_hier_valid
  <1>0. ids \in [Vertices -> 0 .. n - 1] /\ n \in Nat /\ \A e \in L : e \in Edges /\ Crosses(ids, e)
    <2>1. F \cup L \in SUBSET Edges
      BY LinkedEdges
    <2> QED  BY <2>1 DEF IsLinked
  <1>1. CASE ~counties_on(county)
    <2> DEFINE table == PairTable(county, ids, n, FALSE)
               m == build_plan_multigraph(county, ids, n)
    <2>1. m.ok = TRUE /\ m.pair_map = table
      BY <1>1 DEF build_plan_multigraph, build_plan_non_hierarchical_multigraph
    <2>2. \A e \in L : PairOf(ids, e) \in DOMAIN table /\ table[PairOf(ids, e)].merge_is_hier_valid
      BY <1>0, PairIsCounted
    <2> HIDE DEF table, m
    <2>3. m.ok /\ \A e \in L : PairOf(ids, e) \in DOMAIN m.pair_map /\ m.pair_map[PairOf(ids, e)].merge_is_hier_valid
      BY <2>1, <2>2
    <2> QED  BY <2>3 DEF m
  <1>2. CASE counties_on(county)
    <2> DEFINE explored == Explored(county, ids)
               numbers == ComponentIds(explored)
               home(r) == CHOOSE S \in explored : r \in RegionsIn(ids, S)
               counted == PairTable(county, ids, n, TRUE)
               checked(p) == [counted[p] EXCEPT
                                 !.same_admin_component = @ \/ numbers[home(p[1])] = numbers[home(p[2])],
                                 !.merge_is_hier_valid = MergeIsHierValid(
                                     numbers[home(p[1])] = numbers[home(p[2])], counted[p].admin_adjacent)]
               table == [p \in DOMAIN counted |-> checked(p)]
               m == build_plan_multigraph(county, ids, n)
    <2>1. m.ok = TRUE /\ m.pair_map = table
      <3>1. ~HasTooManySplits(county, ids, n)
        BY FewSplits
      <3>2. m = build_plan_hierarchical_multigraph(county, ids, n)
        BY <1>2 DEF build_plan_multigraph
      <3> DEFINE built == [ok |-> TRUE,
                           county_component |-> [r \in 0 .. n - 1 |-> numbers[home(r)]],
                           pair_map |-> table]
      <3>3. build_plan_hierarchical_multigraph(county, ids, n)
               = IF HasTooManySplits(county, ids, n) THEN NotBuilt ELSE built
        BY DEF build_plan_hierarchical_multigraph
      <3>4. built.ok = TRUE /\ built.pair_map = table
        <4> HIDE DEF table, numbers, home
        <4> QED  OBVIOUS
      <3> HIDE DEF built, m, table
      <3>5. m = built
        BY <3>1, <3>2, <3>3
      <3> QED  BY <3>4, <3>5
    <2>2. \A r \in 0 .. n - 1 : home(r) \in explored /\ \E v \in home(r) : ids[v] = r
      <3> SUFFICES ASSUME NEW r \in 0 .. n - 1
                   PROVE  \E S \in explored : r \in RegionsIn(ids, S)
        BY DEF RegionsIn
      <3>1. PICK v \in Vertices : ids[v] = r
        BY RegionsThere
      <3>2. v \in UNION explored
        <4> DEFINE T == F \cup L
        <4>1. TwoLabels(Vertices, T, Edges, county, ids) /\ explored = Grouped(Vertices, Edges, county, ids)
          BY LinkedHasTwoLabels, WalkIs
        <4> HIDE DEF T, explored
        <4>2. UNION Grouped(Vertices, Edges, county, ids) = Vertices
          BY <4>1, GroupsAre
        <4> QED  BY <4>1, <4>2
      <3> QED  BY <3>1, <3>2 DEF RegionsIn
    <2>3. ASSUME NEW R \in explored, NEW S \in explored, numbers[R] = numbers[S]
          PROVE  R = S
      <3> DEFINE T == F \cup L
                 H == Keeping(county, Edges) \cup Keeping(ids, Edges)
      <3>1. TwoLabels(Vertices, T, Edges, county, ids) /\ explored = Grouped(Vertices, Edges, county, ids)
        BY LinkedHasTwoLabels, WalkIs
      <3> HIDE DEF T, explored
      <3>2. IsFiniteSet(explored) /\ \A Q \in explored : IsGroup(Q, Vertices, T, Edges, county, ids)
        BY <3>1, GroupsAre
      <3>3. \A Q \in explored : Q \in SUBSET Vertices /\ Q # {} /\ \A v \in Q : Q = Component(v, Vertices, H)
        BY <3>2 DEF IsGroup
      <3> HIDE DEF H
      <3>4. R # S => R \cap S = {}
        BY <3>3
      <3>5. explored \in SUBSET (SUBSET Vertices)
        BY <3>3
      <3> QED  BY <2>3, <3>2, <3>3, <3>4, <3>5, NumbersDiffer
    <2>4. ASSUME NEW e \in L
          PROVE  PairOf(ids, e) \in DOMAIN table /\ table[PairOf(ids, e)].merge_is_hier_valid
      <3> DEFINE p == PairOf(ids, e)
      <3>1. p \in PairsOf(n) /\ RegionsOf(ids, e) = {p[1], p[2]}
        BY <1>0, PairOfIs
      <3>2. p \in DOMAIN counted /\ (WithinCounty(county, e) => counted[p].admin_adjacent = TRUE)
        BY <1>0, PairIsCounted
      <3>7. counted[p] = CountedPair(county, ids, p, TRUE)
        BY <3>2 DEF PairTable
      <3> HIDE DEF p
      <3>3. p[1] \in 0 .. n - 1 /\ p[2] \in 0 .. n - 1
        BY <3>1 DEF PairsOf
      <3>4. numbers[home(p[1])] = numbers[home(p[2])] => counted[p].admin_adjacent
        <4> SUFFICES ASSUME numbers[home(p[1])] = numbers[home(p[2])]
                     PROVE  WithinCounty(county, e)
          BY <3>2
        <4> DEFINE S == home(p[1])
        <4>1. S \in explored /\ S = home(p[2])
          BY <2>2, <2>3, <3>3
        <4>2. PICK v \in home(p[1]) : ids[v] = p[1]
          BY <2>2, <3>3
        <4>4. PICK w \in home(p[2]) : ids[w] = p[2]
          BY <2>2, <3>3
        <4>5. v \in S /\ w \in S
          BY <4>1
        <4> HIDE DEF S
        <4>3. RegionsOf(ids, e) = {ids[v], ids[w]}
          BY <3>1, <4>2, <4>4
        <4> QED  BY <4>1, <4>3, <4>5, LinkInsideComponent
      <3>5. table[p] = checked(p)
        BY <3>2
      <3>6. checked(p).merge_is_hier_valid = MergeIsHierValid(
                numbers[home(p[1])] = numbers[home(p[2])], counted[p].admin_adjacent)
        <4>1. "merge_is_hier_valid" \in DOMAIN counted[p]
          BY <3>7 DEF CountedPair, NoPairData
        <4> HIDE DEF numbers, home, counted
        <4> QED  BY <4>1
      <3> HIDE DEF numbers, home, counted, checked
      <3> QED  BY <3>2, <3>4, <3>5, <3>6 DEF MergeIsHierValid, p
    <2> HIDE DEF table, m
    <2>5. m.ok /\ \A e \in L : PairOf(ids, e) \in DOMAIN m.pair_map /\ m.pair_map[PairOf(ids, e)].merge_is_hier_valid
      BY <2>1, <2>4
    <2> QED  BY <2>5 DEF m
  <1> QED  BY <1>1, <1>2

\* Where no constraint forbids a region the pair of every linking edge stays
\* in the table, as one that may be merged.
LEMMA LinkedPairsAreHashed ==
    ASSUME Barred = {}, NEW ids, NEW n \in Nat \ {0}, NEW F, NEW L, IsLinked(ids, n, F, L)
    PROVE  \A e \in L : /\ PairOf(ids, e) \in DOMAIN Multigraph(ids, n).pair_map
                        /\ Multigraph(ids, n).pair_map[PairOf(ids, e)].merge_is_hier_valid
  <1> DEFINE m == build_plan_multigraph(county, ids, n)
             kept == Restrict(m.pair_map, {p \in DOMAIN m.pair_map :
                                               ~(Region(ids, p[1]) \cup Region(ids, p[2]) \in Barred)})
  <1>1. \A e \in L : PairOf(ids, e) \in DOMAIN m.pair_map /\ m.pair_map[PairOf(ids, e)].merge_is_hier_valid
    BY LinkedPairsMayMerge
  <1>2. "pair_map" \in DOMAIN m
    <2>1. \A ok, pairs, comp : "pair_map" \in DOMAIN [ok |-> ok, pair_map |-> pairs, county_component |-> comp]
      OBVIOUS
    <2>2. \E ok, pairs, comp : m = [ok |-> ok, pair_map |-> pairs, county_component |-> comp]
      BY DEF build_plan_multigraph, build_plan_non_hierarchical_multigraph,
             build_plan_hierarchical_multigraph, NotBuilt
    <2> HIDE DEF m
    <2> QED  BY <2>1, <2>2
  <1>3. Multigraph(ids, n) = [m EXCEPT !.pair_map = kept]
    BY DEF Multigraph, RemovePairs
  <1> HIDE DEF m
  <1>4. DOMAIN kept = DOMAIN m.pair_map /\ \A p \in DOMAIN m.pair_map : kept[p] = m.pair_map[p]
    BY DEF Restrict
  <1> HIDE DEF kept
  <1>5. Multigraph(ids, n).pair_map = kept
    BY <1>2, <1>3
  <1> QED  BY <1>1, <1>4, <1>5

\* A plan of several regions has a linking edge.
LEMMA SomeLink ==
    ASSUME NEW ids, NEW n \in Nat \ {0}, n > 1, NEW F, NEW L, IsLinked(ids, n, F, L)
    PROVE  L # {}
  <1> SUFFICES ASSUME L = {}
               PROVE  FALSE
    OBVIOUS
  <1> DEFINE R == Region(ids, 0)
  <1>1. F \cup L = F
    OBVIOUS
  <1>2. F \in HierarchicalTrees(county, Vertices) /\ Vertices \in SUBSET Vertices /\ Vertices # {}
    BY <1>1, MapAssumption DEF IsLinked
  <1>3. F \in SUBSET Edges /\ Connected(Vertices, F)
    BY <1>2, HierarchicalTreesAre DEF IsTree
  <1>4. Closed(R, Vertices, F)
    <2> SUFFICES ASSUME NEW e \in F, e \cap R # {}
                 PROVE  e \subseteq R
      BY DEF Closed, Inside, Region
    <2>1. PICK a, b \in Vertices : e = {a, b}
      BY <1>3, GraphFacts
    <2>2. ids[a] = ids[b]
      BY <2>1, CrossesIs DEF IsLinked
    <2> QED  BY <2>1, <2>2 DEF Region
  <1>5. 0 \in 0 .. n - 1 /\ 1 \in 0 .. n - 1
    OBVIOUS
  <1>6. PICK v \in Vertices : ids[v] = 0
    BY <1>5, RegionsThere
  <1>7. PICK w \in Vertices : ids[w] = 1
    BY <1>5, RegionsThere
  <1>8. v \in R /\ w \notin R
    BY <1>6, <1>7 DEF Region
  <1> HIDE DEF R
  <1> QED  BY <1>3, <1>4, <1>8, GraphFacts, ConnectedIsClosed

\* Any two regions have few enough seats to be merged: each other region has
\* at least one.
LEMMA TwoRegionsMayMerge ==
    ASSUME NEW n \in 1 .. Seats, NEW sizes, AreSizes(sizes, n), NEW r \in 0 .. n - 1, NEW s \in 0 .. n - 1, r # s
    PROVE  sizes[r] + sizes[s] <= Seats - n + 2
  <1> DEFINE U == 0 .. n - 1
             R == U \ {r}
             Q == R \ {s}
  <1>1. Seats \in Nat /\ n \in Nat /\ IsFiniteSet(U) /\ Cardinality(U) = n
    <2>1. Seats \in Nat /\ n \in Nat /\ n > 0
      BY LinkedPlanAssumption
    <2> QED  BY <2>1, FS_Interval
  <1>2. U \in SUBSET Ids /\ \A y \in Ids : y \in U <=> y < n
    <2>1. \A y \in Ids : y \in Nat
      BY IdsAre
    <2> QED  BY <1>1, <2>1 DEF Ids
  <1>3. /\ \A y \in U : sizes[y] \in Nat \ {0} /\ sizes[y] \in Int
        /\ \A y \in Ids \ U : sizes[y] = 0
        /\ Total(sizes, Ids) = Seats
    BY <1>2 DEF AreSizes
  <1> HIDE DEF U
  <1>4. Total(sizes, U) = Seats
    BY <1>2, <1>3, IdsAre, TotalOfPart
  <1>5. r \in U /\ s \in U
    BY DEF U
  <1>6. Total(sizes, R) = Total(sizes, U) - sizes[r] /\ IsFiniteSet(R) /\ Cardinality(R) = n - 1
    BY <1>1, <1>3, <1>5, TotalRemove, FS_RemoveElement
  <1>7. s \in R /\ \A y \in R : sizes[y] \in Nat \ {0} /\ sizes[y] \in Int
    BY <1>3, <1>5
  <1> HIDE DEF R
  <1>8. Total(sizes, Q) = Total(sizes, R) - sizes[s] /\ IsFiniteSet(Q) /\ Cardinality(Q) = (n - 1) - 1
    <2>1. Total(sizes, Q) = Total(sizes, R) - sizes[s]
      <3>1. IsFiniteSet(R) /\ s \in R
        BY <1>6, <1>7
      <3>2. \A y \in R : sizes[y] \in Int
        BY <1>7
      <3> QED  BY <3>1, <3>2, TotalRemove
    <2>2. IsFiniteSet(Q) /\ Cardinality(Q) = Cardinality(R) - 1
      BY <1>6, <1>7, FS_RemoveElement
    <2> QED  BY <1>6, <2>1, <2>2
  <1>9. Total(sizes, Q) >= Cardinality(Q)
    BY <1>7, <1>8, TotalOfPositives
  <1>10. sizes[r] \in Int /\ sizes[s] \in Int
    BY <1>3, <1>5
  <1> HIDE DEF Q
  <1> QED  BY <1>1, <1>4, <1>6, <1>8, <1>9, <1>10

\* In a plan of several regions some linking edge can be picked for a move.
LEMMA SomeLinkIsMergeable ==
    ASSUME PlanInv, num_regions > 1
    PROVE  MergeableLinks # {}
  <1>1. /\ num_regions \in 1 .. Seats /\ num_regions \in Nat \ {0} /\ AreSizes(region_sizes, num_regions)
        /\ IsLinked(region_ids, num_regions, forest_edges, DOMAIN linking_edges)
    BY LinkedPlanAssumption DEF PlanInv, LinkedInv, SizesInv
  <1>2. PICK e \in DOMAIN linking_edges : TRUE
    BY <1>1, SomeLink
  <1> DEFINE p == PairOf(region_ids, e)
  <1>3. p \in PairsOf(num_regions)
    <2>1. e \in Edges
      <3>1. forest_edges \cup DOMAIN linking_edges \in SUBSET Edges
        BY <1>1, LinkedEdges
      <3> QED  BY <3>1
    <2>2. region_ids \in [Vertices -> 0 .. num_regions - 1] /\ Crosses(region_ids, e) /\ num_regions \in Nat
      BY <1>1 DEF IsLinked
    <2> QED  BY <2>1, <2>2, PairOfIs
  <1> HIDE DEF p
  <1>4. p[1] \in 0 .. num_regions - 1 /\ p[2] \in 0 .. num_regions - 1 /\ p[1] # p[2]
    BY <1>1, <1>3 DEF PairsOf
  <1>5. is_valid_merge_pair(region_sizes, p)
    BY <1>1, <1>4, TwoRegionsMayMerge DEF is_valid_merge_pair
  <1> QED  BY <1>5 DEF MergeableLinks, p

\* No step throws where no constraint forbids a region.
LEMMA NoStepThrows ==
    ASSUME Barred = {}, PlanInv, NeverThrows, [Next]_vars
    PROVE  NeverThrows'
  <1>1. num_regions \in Nat \ {0} /\ num_regions = 1 => DOMAIN linking_edges = {}
    BY LinkedPlanAssumption DEF PlanInv, LinkedInv
  <1>2. ASSUME NEW e \in DOMAIN linking_edges
        PROVE  /\ PairOf(region_ids, e) \in DOMAIN Multigraph(region_ids, num_regions).pair_map
               /\ Multigraph(region_ids, num_regions).pair_map[PairOf(region_ids, e)].merge_is_hier_valid
    <2>1. num_regions \in Nat \ {0} /\ IsLinked(region_ids, num_regions, forest_edges, DOMAIN linking_edges)
      BY LinkedPlanAssumption DEF PlanInv, LinkedInv
    <2> QED  BY <2>1, LinkedPairsAreHashed
  <1>3. PairsAreHashed(Multigraph(region_ids, num_regions), region_ids, region_sizes, DOMAIN linking_edges)
    BY <1>2 DEF PairsAreHashed
  <1>4. CASE get_valid_adj_regions_and_eff_log_boundary_lens
    <2>1. \A e \in MergeableLinks : Multigraph(region_ids, num_regions).pair_map[PairOf(region_ids, e)].merge_is_hier_valid
      BY <1>2 DEF MergeableLinks
    <2>2. UNCHANGED threw
      BY <1>3, <1>4, <2>1 DEF get_valid_adj_regions_and_eff_log_boundary_lens
    <2> QED  BY <2>2 DEF NeverThrows
  <1>5. CASE attempt_mergesplit_step
    <2>1. num_regions > 1 /\ MergeableLinks # {}
      BY <1>5, SomeLinkIsMergeable DEF attempt_mergesplit_step
    <2>2. PICK link \in MergeableLinks : \E plan \in Proposals(link) : Answer(link, plan)
      BY <1>3, <1>5, <2>1 DEF attempt_mergesplit_step
    <2>3. PICK plan \in Proposals(link) : Answer(link, plan)
      BY <2>2
    <2>4. IsLinked(plan.ids, num_regions, plan.forest, DOMAIN plan.links) /\ num_regions \in Nat \ {0}
      BY <2>1, ProposalIsPlan, LinkedPlanAssumption DEF MergeableLinks, PlanInv, LinkedInv
    <2>5. \A e \in DOMAIN plan.links : PairOf(plan.ids, e) \in DOMAIN Multigraph(plan.ids, num_regions).pair_map
      BY <2>4, LinkedPairsAreHashed
    <2>6. PairsAreHashed(Multigraph(plan.ids, num_regions), plan.ids, plan.sizes, DOMAIN plan.links)
      BY <2>5 DEF PairsAreHashed
    <2>7. UNCHANGED threw
      BY <2>3, <2>6 DEF Answer
    <2> QED  BY <2>7 DEF NeverThrows
  <1>6. CASE Split \/ Continue \/ UNCHANGED vars
    BY <1>6 DEF Split, Continue, vars, NeverThrows
  <1> QED  BY <1>4, <1>5, <1>6 DEF Next

\* Where no hard constraint forbids a region, the checks that throw never do:
\* a linking edge of the plan is one of the pairs that may be merged.
THEOREM LinkedPlansAreMergeable ==
    ASSUME Barred = {}
    PROVE  Spec => []NeverThrows
  <1>1. Init => NeverThrows
    BY DEF Init, NeverThrows
  <1>2. PlanInv /\ NeverThrows /\ [Next]_vars => NeverThrows'
    BY NoStepThrows
  <1> QED  BY <1>1, <1>2, PlanStaysLinked, PTL DEF Spec

-----------------------------------------------------------------------------
(* What a search of a tree finds. *)

\* T holds a tree on S, and no other edge of T is at a vertex of S.
TreeOn(T, S) ==
    /\ T \in SUBSET Edges /\ S \in SUBSET Vertices /\ IsTree(S, Inside(S, T))
    /\ \A e \in T : e \cap S # {} => e \subseteq S

\* The numbers tried are the numbers either part may have.
OptionsInBounds(size, opts) ==
    /\ size \in Nat /\ opts.min_cut_size \in Nat /\ opts.max_cut_size \in Nat
    /\ \A s \in opts.smaller_cut_sizes \cup {size - t : t \in opts.smaller_cut_sizes} :
          /\ s \in opts.min_cut_size .. opts.max_cut_size
          /\ size - s \in opts.min_cut_size .. opts.max_cut_size

\* The neighbours of a vertex in its tree.
LEMMA NeighborsWithin ==
    ASSUME NEW T, NEW S, TreeOn(T, S), NEW v \in S
    PROVE  Neighbors(T, v) = NextTo(Inside(S, T), S, v)
  <1>1. T \in SUBSET Edges /\ S \in SUBSET Vertices /\ \A e \in T : e \cap S # {} => e \subseteq S
    BY DEF TreeOn
  <1>2. Neighbors(T, v) = {u \in Vertices : {v, u} \in T /\ u # v}
    BY <1>1, NeighborsAre
  <1> QED  BY <1>1, <1>2 DEF NextTo, Inside

\* Populations are not negative, and more precincts have no fewer people.
LEMMA PopIsNat == \A S \in SUBSET Vertices : PopOf(S) \in Nat
  <1> DEFINE Good == {S \in SUBSET Vertices : Total(Pop, S) \in Nat}
  <1>1. {} \in Good
    BY TotalOfNone
  <1>2. ASSUME NEW S \in SUBSET Vertices, NEW x \in Vertices \ S, S \in Good
        PROVE  S \cup {x} \in Good
    <2>1. IsFiniteSet(S) /\ (\A y \in S : Pop[y] \in Int) /\ Pop[x] \in Nat /\ Pop[x] \in Int
      BY GraphFacts, PopAssumption
    <2>2. Total(Pop, S \cup {x}) = Total(Pop, S) + Pop[x]
      BY <2>1, TotalAdd
    <2> QED  BY <1>2, <2>1, <2>2
  <1>3. \A S \in SUBSET Vertices : S \in Good
    <2> HIDE DEF Good
    <2> QED  BY <1>1, <1>2, GraphFacts, SubsetInduction
  <1> QED  BY <1>3 DEF PopOf, Total

\* The populations of two parts without overlap.
LEMMA PopOfTwo ==
    ASSUME NEW A \in SUBSET Vertices, NEW B \in SUBSET Vertices, A \cap B = {}
    PROVE  PopOf(A \cup B) = PopOf(A) + PopOf(B)
  <1>1. IsFiniteSet(A) /\ IsFiniteSet(B) /\ \A y \in A \cup B : Pop[y] \in Int
    BY GraphFacts, PopAssumption
  <1>2. Total(Pop, A \cup B) = Total(Pop, A) + Total(Pop, B)
    BY <1>1, TotalOfUnion
  <1> QED  BY <1>2 DEF PopOf, Total

\* More precincts have no fewer people.
LEMMA PopOfMore ==
    ASSUME NEW A \in SUBSET Vertices, NEW B \in SUBSET A
    PROVE  PopOf(B) <= PopOf(A) /\ PopOf(A \ B) = PopOf(A) - PopOf(B)
  <1>1. B \cup (A \ B) = A /\ B \cap (A \ B) = {} /\ B \in SUBSET Vertices /\ A \ B \in SUBSET Vertices
    OBVIOUS
  <1> DEFINE C == A \ B
  <1> HIDE DEF C
  <1>2. PopOf(B \cup C) = PopOf(B) + PopOf(C) /\ PopOf(B) \in Nat /\ PopOf(C) \in Nat
    BY <1>1, PopOfTwo, PopIsNat DEF C
  <1>3. PopOf(A) = PopOf(B) + PopOf(C)
    BY <1>1, <1>2 DEF C
  <1> QED  BY <1>2, <1>3 DEF C

\* A product grows with its factor.
LEMMA ProductGrows ==
    ASSUME NEW a \in Nat, NEW b \in Nat, NEW c \in Nat, b <= c
    PROVE  a * b \in Nat /\ a * c \in Nat /\ a * b <= a * c
  <1>1. PICK d \in Nat : c = b + d
    <2>1. c - b \in Nat /\ c = b + (c - b)
      OBVIOUS
    <2> QED  BY <2>1
  <1>2. a * b \in Nat /\ a * d \in Nat /\ a * c = a * b + a * d
    BY <1>1
  <1> QED  BY <1>2

\* Where the search gives up nothing fits.
LEMMA NothingFits ==
    ASSUME NEW size, NEW opts, OptionsInBounds(size, opts), NEW below \in Int, NEW above \in Int,
           TooFew(below, above, opts) \/ TooMany(below, above, opts)
    PROVE  for_each_valid_population_split_from_edge(size, below, above, opts) = {}
  <1> DEFINE lo == opts.min_cut_size
             hi == opts.max_cut_size
  <1>1. lo \in Nat /\ hi \in Nat /\ LowerPop \in Nat /\ UpperPop \in Nat /\ size \in Nat
    BY PopAssumption DEF OptionsInBounds
  <1>2. SUFFICES ASSUME NEW s \in opts.smaller_cut_sizes \cup {size - t : t \in opts.smaller_cut_sizes},
                        Fits(below, s), Fits(above, size - s)
                 PROVE  FALSE
    BY DEF for_each_valid_population_split_from_edge
  <1>3. s \in lo .. hi /\ size - s \in lo .. hi
    BY DEF OptionsInBounds
  <1> DEFINE t == size - s
  <1>4. \/ below < LowerPop * lo \/ above > UpperPop * hi \/ below > UpperPop * hi \/ above < LowerPop * lo
    BY DEF TooFew, TooMany
  <1>5. LowerPop * s <= below /\ below <= UpperPop * s /\ LowerPop * t <= above /\ above <= UpperPop * t
    BY <1>2 DEF Fits
  <1> HIDE DEF lo, hi, t
  <1>6. s \in Nat /\ t \in Nat /\ lo <= s /\ s <= hi /\ lo <= t /\ t <= hi
    BY <1>1, <1>3 DEF t
  <1>7. /\ LowerPop * lo <= LowerPop * s /\ LowerPop * lo <= LowerPop * t
        /\ UpperPop * s <= UpperPop * hi /\ UpperPop * t <= UpperPop * hi
    BY <1>1, <1>6, ProductGrows
  <1>8. /\ LowerPop * lo \in Nat /\ LowerPop * s \in Nat /\ LowerPop * t \in Nat
        /\ UpperPop * hi \in Nat /\ UpperPop * s \in Nat /\ UpperPop * t \in Nat
    BY <1>1, <1>6, ProductGrows
  <1> DEFINE a == LowerPop * lo
             b == LowerPop * s
             c == LowerPop * t
             d == UpperPop * hi
             e == UpperPop * s
             f == UpperPop * t
  <1>9. /\ below < a \/ above > d \/ below > d \/ above < a
        /\ b <= below /\ below <= e /\ c <= above /\ above <= f
        /\ a <= b /\ a <= c /\ e <= d /\ f <= d
        /\ a \in Nat /\ b \in Nat /\ c \in Nat /\ d \in Nat /\ e \in Nat /\ f \in Nat
    BY <1>4, <1>5, <1>7, <1>8
  <1> HIDE DEF a, b, c, d, e, f
  <1> QED  BY <1>9

\* The cuts an edge of the tree allows.
CutsAt(S, G, v, p, total, opts) ==
    for_each_valid_population_split_from_edge(
        total.size, PopOf(SideOf(S, G, v, p)), total.pop - PopOf(SideOf(S, G, v, p)), opts)

\* What is below an edge is too much.
TooMuchBelow(S, G, v, p, total, opts) ==
    TooMany(PopOf(SideOf(S, G, v, p)), total.pop - PopOf(SideOf(S, G, v, p)), opts)

\* What is being cut has at least the people of the tree.
TotalCovers(S, total) == total.pop \in Int /\ total.pop >= PopOf(S)

\* Too much below one edge is too much below the edge above it.
LEMMA TooMuchAbove ==
    ASSUME NEW T, NEW S, TreeOn(T, S), NEW G, G = Inside(S, T), NEW rt \in S,
           NEW total, NEW opts, OptionsInBounds(total.size, opts), TotalCovers(S, total),
           NEW v, NEW p, NEW c, Hangs(S, G, rt, v, p), Hangs(S, G, rt, c, v),
           TooMuchBelow(S, G, c, v, total, opts)
    PROVE  TooMuchBelow(S, G, v, p, total, opts)
  <1> DEFINE A == SideOf(S, G, v, p)
             B == SideOf(S, G, c, v)
             a == PopOf(A)
             b == PopOf(B)
             lo == LowerPop * opts.min_cut_size
             hi == UpperPop * opts.max_cut_size
  <1>1. IsTree(S, G) /\ S \in SUBSET Vertices
    BY DEF TreeOn
  <1>2. {v, p} \in G /\ v # p /\ {c, v} \in G /\ c # v /\ {v, c} = {c, v}
    BY DEF Hangs
  <1>3. p # c
    <2>1. Hangs(S, G, rt, v, p) => ~Hangs(S, G, rt, p, v)
      BY <1>1, <1>2, HangsOneWay
    <2> QED  BY <2>1
  <1>4. A \in SUBSET S /\ B \in SUBSET A
    <2>1. A \in SUBSET S
      BY <1>1, <1>2, HangsOneWay
    <2>2. B \subseteq A \ {v}
      BY <1>1, <1>2, <1>3, NestedSides
    <2> QED  BY <2>1, <2>2
  <1> HIDE DEF A, B
  <1>5. a \in Nat /\ b \in Nat /\ b <= a
    <2>1. A \in SUBSET Vertices /\ B \in SUBSET Vertices
      BY <1>1, <1>4
    <2> QED  BY <1>4, <2>1, PopIsNat, PopOfMore
  <1>6. lo \in Int /\ hi \in Int /\ total.pop \in Int
    <2>1. opts.min_cut_size \in Nat /\ opts.max_cut_size \in Nat /\ LowerPop \in Nat /\ UpperPop \in Nat
      BY PopAssumption DEF OptionsInBounds
    <2> QED  BY <2>1, ProductGrows DEF TotalCovers
  <1>7. b > hi \/ total.pop - b < lo
    BY DEF TooMuchBelow, TooMany, B
  <1> HIDE DEF a, b, lo, hi
  <1>8. a > hi \/ total.pop - a < lo
    BY <1>5, <1>6, <1>7
  <1> QED  BY <1>8 DEF TooMuchBelow, TooMany, a, lo, hi, A

\* Too much below one edge leaves too little below the others there.
LEMMA TooFewBeside ==
    ASSUME NEW T, NEW S, TreeOn(T, S), NEW G, G = Inside(S, T), NEW rt \in S,
           NEW total, NEW opts, OptionsInBounds(total.size, opts), TotalCovers(S, total),
           NEW v, NEW p, NEW c, Hangs(S, G, rt, v, p), Hangs(S, G, rt, c, p), c # v,
           TooMuchBelow(S, G, c, p, total, opts)
    PROVE  CutsAt(S, G, v, p, total, opts) = {}
  <1> DEFINE A == SideOf(S, G, v, p)
             B == SideOf(S, G, c, p)
             a == PopOf(A)
             b == PopOf(B)
             lo == LowerPop * opts.min_cut_size
             hi == UpperPop * opts.max_cut_size
  <1>1. IsTree(S, G) /\ S \in SUBSET Vertices
    BY DEF TreeOn
  <1>2. {v, p} \in G /\ v # p /\ {c, p} \in G /\ c # p /\ {p, c} = {c, p} /\ {p, v} = {v, p}
    BY DEF Hangs
  <1>4. A \in SUBSET S /\ B \in SUBSET S /\ A \cap B = {}
    <2>1. A \in SUBSET S /\ B \in SUBSET S /\ SideOf(S, G, p, v) = S \ A
      BY <1>1, <1>2, HangsOneWay
    <2>2. B \subseteq SideOf(S, G, p, v) \ {p}
      BY <1>1, <1>2, NestedSides
    <2> QED  BY <2>1, <2>2
  <1> HIDE DEF A, B
  <1>5. a \in Nat /\ b \in Nat /\ a + b <= PopOf(S) /\ PopOf(S) \in Nat
    <2>1. A \in SUBSET Vertices /\ B \in SUBSET Vertices /\ A \cup B \in SUBSET S
      BY <1>1, <1>4
    <2>2. PopOf(A \cup B) = a + b
      BY <1>4, <2>1, PopOfTwo
    <2> QED  BY <1>1, <2>1, <2>2, PopIsNat, PopOfMore
  <1>6. lo \in Int /\ hi \in Int /\ total.pop \in Int /\ total.pop >= PopOf(S)
    <2>1. opts.min_cut_size \in Nat /\ opts.max_cut_size \in Nat /\ LowerPop \in Nat /\ UpperPop \in Nat
      BY PopAssumption DEF OptionsInBounds
    <2> QED  BY <2>1, ProductGrows DEF TotalCovers
  <1>7. b > hi \/ total.pop - b < lo
    BY DEF TooMuchBelow, TooMany, B
  <1> HIDE DEF a, b, lo, hi
  <1>8. (total.pop - a > hi \/ a < lo) /\ total.pop - a \in Int
    BY <1>5, <1>6, <1>7
  <1>9. TooFew(a, total.pop - a, opts)
    BY <1>8 DEF TooFew, lo, hi
  <1>10. for_each_valid_population_split_from_edge(total.size, a, total.pop - a, opts) = {}
    <2> DEFINE rest == total.pop - a
    <2>1. a \in Int /\ rest \in Int
      BY <1>5, <1>8
    <2> HIDE DEF rest
    <2>2. for_each_valid_population_split_from_edge(total.size, a, rest, opts) = {}
      BY <1>9, <2>1, NothingFits DEF rest
    <2> QED  BY <2>2 DEF rest
  <1> QED  BY <1>10 DEF CutsAt, a, A

\* The vertices of a path.
OnPath(p) == {p[i] : i \in 1 .. Len(p)}

\* The way from the root down to where the search is.
WayDown(S, G, rt, p) ==
    /\ p \in Seq(S) /\ p # <<>> /\ p[1] = rt
    /\ \A i \in 1 .. Len(p) - 1 : Hangs(S, G, rt, p[i + 1], p[i])
    /\ \A i, j \in 1 .. Len(p) : p[i] = p[j] => i = j

\* One vertex further down.
LEMMA WayGoesOn ==
    ASSUME NEW S, NEW G, NEW rt, NEW p, WayDown(S, G, rt, p), NEW u \in S \ OnPath(p),
           Hangs(S, G, rt, u, p[Len(p)])
    PROVE  /\ WayDown(S, G, rt, Append(p, u)) /\ OnPath(Append(p, u)) = OnPath(p) \cup {u}
           /\ Len(Append(p, u)) = Len(p) + 1
  <1> DEFINE n == Len(p)
             q == Append(p, u)
  <1>1. /\ p \in Seq(S) /\ p # <<>> /\ p[1] = rt
        /\ \A i \in 1 .. n - 1 : Hangs(S, G, rt, p[i + 1], p[i])
        /\ \A i, j \in 1 .. n : p[i] = p[j] => i = j
    BY DEF WayDown
  <1>2. n \in Nat \ {0} /\ q \in Seq(S) /\ Len(q) = n + 1 /\ q[n + 1] = u /\ \A i \in 1 .. n : q[i] = p[i]
    BY <1>1
  <1>3. \A i \in 1 .. n : p[i] # u
    BY DEF OnPath
  <1>4. Hangs(S, G, rt, u, p[n])
    OBVIOUS
  <1>5. OnPath(p) = {p[i] : i \in 1 .. n} /\ OnPath(q) = {q[i] : i \in 1 .. n + 1}
    BY <1>2 DEF OnPath
  <1> HIDE DEF n, q
  <1>6. q # <<>>
    <2>1. Len(<<>>) = 0
      OBVIOUS
    <2> QED  BY <1>2, <2>1
  <1>7. q[1] = rt
    BY <1>1, <1>2
  <1>8. ASSUME NEW i \in 1 .. Len(q) - 1
        PROVE  Hangs(S, G, rt, q[i + 1], q[i])
    <2>1. CASE i = n
      <3>1. q[i] = p[n] /\ q[i + 1] = u
        BY <1>2, <2>1
      <3> QED  BY <1>4, <3>1
    <2>2. CASE i # n
      <3>1. i \in 1 .. n - 1 /\ i \in 1 .. n /\ i + 1 \in 1 .. n
        BY <1>2, <2>2
      <3> QED  BY <1>1, <1>2, <3>1
    <2> QED  BY <2>1, <2>2
  <1>9. ASSUME NEW i \in 1 .. Len(q), NEW j \in 1 .. Len(q), q[i] = q[j]
        PROVE  i = j
    <2>1. CASE i = n + 1 /\ j = n + 1
      BY <2>1
    <2>2. CASE i = n + 1 /\ j # n + 1
      <3>1. j \in 1 .. n /\ q[j] = p[j] /\ q[i] = u
        BY <1>2, <2>2
      <3> QED  BY <1>3, <1>9, <3>1
    <2>3. CASE i # n + 1 /\ j = n + 1
      <3>1. i \in 1 .. n /\ q[i] = p[i] /\ q[j] = u
        BY <1>2, <2>3
      <3> QED  BY <1>3, <1>9, <3>1
    <2>4. CASE i # n + 1 /\ j # n + 1
      <3>1. i \in 1 .. n /\ j \in 1 .. n
        BY <1>2, <2>4
      <3> QED  BY <1>1, <1>2, <1>9, <3>1
    <2> QED  BY <2>1, <2>2, <2>3, <2>4
  <1>10. WayDown(S, G, rt, q)
    BY <1>2, <1>6, <1>7, <1>8, <1>9 DEF WayDown
  <1>11. OnPath(q) = OnPath(p) \cup {u}
    <2>1. \A i \in 1 .. n + 1 : i \in 1 .. n \/ i = n + 1
      BY <1>2
    <2>2. \A i \in 1 .. n : i \in 1 .. n + 1
      BY <1>2
    <2>3. n + 1 \in 1 .. n + 1
      BY <1>2
    <2>4. \A y \in OnPath(q) : y \in OnPath(p) \cup {u}
      BY <1>2, <1>5, <2>1
    <2>5. \A y \in OnPath(p) : y \in OnPath(q)
      BY <1>2, <1>5, <2>2
    <2>6. u \in OnPath(q)
      BY <1>2, <1>5, <2>3
    <2> QED  BY <2>4, <2>5, <2>6
  <1> QED  BY <1>2, <1>10, <1>11 DEF n, q

\* One vertex back up.
LEMMA WayGoesBack ==
    ASSUME NEW S, NEW G, IsTree(S, G), NEW rt \in S, NEW p, WayDown(S, G, rt, p), Len(p) # 1
    PROVE  /\ WayDown(S, G, rt, SubSeq(p, 1, Len(p) - 1))
           /\ OnPath(SubSeq(p, 1, Len(p) - 1)) = OnPath(p) \ {p[Len(p)]}
           /\ Len(SubSeq(p, 1, Len(p) - 1)) = Len(p) - 1
           /\ Hangs(S, G, rt, p[Len(p)], p[Len(p) - 1]) /\ p[Len(p) - 1] \in OnPath(p)
           /\ p[Len(p)] \in S /\ p[Len(p) - 1] \in S
  <1> DEFINE n == Len(p)
             q == SubSeq(p, 1, n - 1)
  <1>1. /\ p \in Seq(S) /\ p # <<>> /\ p[1] = rt
        /\ \A i \in 1 .. n - 1 : Hangs(S, G, rt, p[i + 1], p[i])
        /\ \A i, j \in 1 .. n : p[i] = p[j] => i = j
    BY DEF WayDown
  <1>2. n \in Nat /\ n # 0 /\ n # 1
    BY <1>1
  <1>3. q \in Seq(S) /\ Len(q) = n - 1 /\ \A i \in 1 .. n - 1 : q[i] = p[i]
    <2>1. 1 \in 1 .. Len(p) + 1 /\ n - 1 \in 1 - 1 .. Len(p)
      BY <1>2
    <2>2. /\ q \in Seq(S) /\ Len(q) = (IF 1 <= n - 1 THEN (n - 1) - 1 + 1 ELSE 0)
          /\ \A i \in 1 .. (n - 1) - 1 + 1 : q[i] = p[1 + i - 1]
      BY <1>1, <2>1, SubSeqProperties
    <2> HIDE DEF q, n
    <2> QED  BY <1>2, <2>2
  <1>4. OnPath(p) = {p[i] : i \in 1 .. n}
    BY DEF OnPath
  <1>41. \A i \in 1 .. n : p[i] \in S
    BY <1>1
  <1> HIDE DEF n, q
  <1>5. n - 1 \in 1 .. n - 1 /\ (n - 1) + 1 = n /\ n - 1 \in 1 .. n /\ n \in 1 .. n /\ 1 \in 1 .. n - 1
    BY <1>2
  <1>6. Hangs(S, G, rt, p[n], p[n - 1]) /\ p[n - 1] \in OnPath(p) /\ p[n] \in S /\ p[n - 1] \in S
    <2>1. Hangs(S, G, rt, p[(n - 1) + 1], p[n - 1])
      BY <1>1, <1>5
    <2>2. p[(n - 1) + 1] = p[n]
      BY <1>5
    <2> QED  BY <1>4, <1>41, <1>5, <2>1, <2>2
  <1>7. WayDown(S, G, rt, q)
    <2>1. q # <<>>
      <3>1. Len(<<>>) = 0
        OBVIOUS
      <3> QED  BY <1>2, <1>3, <3>1
    <2>2. q[1] = rt
      BY <1>1, <1>3, <1>5
    <2>3. ASSUME NEW i \in 1 .. Len(q) - 1
          PROVE  Hangs(S, G, rt, q[i + 1], q[i])
      <3>1. i \in 1 .. n - 1 /\ i + 1 \in 1 .. n - 1
        BY <1>2, <1>3
      <3>2. q[i] = p[i] /\ q[i + 1] = p[i + 1]
        BY <1>3, <3>1
      <3> QED  BY <1>1, <3>1, <3>2
    <2>4. ASSUME NEW i \in 1 .. Len(q), NEW j \in 1 .. Len(q), q[i] = q[j]
          PROVE  i = j
      <3>1. i \in 1 .. n - 1 /\ j \in 1 .. n - 1 /\ i \in 1 .. n /\ j \in 1 .. n
        BY <1>2, <1>3
      <3> QED  BY <1>1, <1>3, <2>4, <3>1
    <2> QED  BY <1>3, <2>1, <2>2, <2>3, <2>4 DEF WayDown
  <1>8. OnPath(q) = OnPath(p) \ {p[n]}
    <2>1. OnPath(q) = {q[i] : i \in 1 .. n - 1}
      BY <1>3 DEF OnPath
    <2>2. \A i \in 1 .. n : i \in 1 .. n - 1 \/ i = n
      BY <1>2
    <2>3. \A i \in 1 .. n - 1 : i \in 1 .. n /\ i # n
      BY <1>2
    <2>4. \A i \in 1 .. n - 1 : q[i] = p[i] /\ p[i] # p[n]
      BY <1>1, <1>3, <1>5, <2>3
    <2>5. \A y \in OnPath(q) : y \in OnPath(p) \ {p[n]}
      BY <1>4, <2>1, <2>3, <2>4
    <2>6. \A y \in OnPath(p) \ {p[n]} : y \in OnPath(q)
      BY <1>4, <2>1, <2>2, <2>4
    <2> QED  BY <2>5, <2>6
  <1> QED  BY <1>3, <1>6, <1>7, <1>8 DEF n, q

\* Nothing on the way hangs from its end.
LEMMA WayEnds ==
    ASSUME NEW S, NEW G, IsTree(S, G), NEW rt \in S, NEW p, WayDown(S, G, rt, p),
           NEW c \in OnPath(p)
    PROVE  ~Hangs(S, G, rt, c, p[Len(p)]) /\ p[Len(p)] \in S /\ p[Len(p)] \in OnPath(p)
  <1> DEFINE n == Len(p)
  <1>1. /\ p \in Seq(S) /\ p # <<>> /\ p[1] = rt
        /\ \A i \in 1 .. n - 1 : Hangs(S, G, rt, p[i + 1], p[i])
        /\ \A i, j \in 1 .. n : p[i] = p[j] => i = j
    BY DEF WayDown
  <1>2. n \in Nat \ {0} /\ p[n] \in S
    BY <1>1
  <1>3. PICK i \in 1 .. n : c = p[i]
    BY DEF OnPath
  <1>4. p[n] \in OnPath(p)
    BY <1>2 DEF OnPath
  <1> HIDE DEF n
  <1>5. ~Hangs(S, G, rt, c, p[n])
    <2> SUFFICES ASSUME Hangs(S, G, rt, c, p[n])
                 PROVE  FALSE
      OBVIOUS
    <2>1. c # rt
      BY HangsOneWay DEF Hangs
    <2>2. i # 1
      BY <1>1, <1>3, <2>1
    <2>3. i - 1 \in 1 .. n - 1 /\ (i - 1) + 1 = i /\ i - 1 \in 1 .. n /\ i - 1 # n /\ n \in 1 .. n
      BY <1>2, <1>3, <2>2
    <2>4. Hangs(S, G, rt, p[i], p[i - 1])
      <3>1. Hangs(S, G, rt, p[(i - 1) + 1], p[i - 1])
        BY <1>1, <2>3
      <3> QED  BY <2>3, <3>1
    <2>5. p[i - 1] = p[n]
      BY <1>3, <2>4, OneAbove
    <2> QED  BY <1>1, <2>3, <2>5
  <1> QED  BY <1>2, <1>4, <1>5 DEF n

\* The vertices that were left for good.
Gone(scan) == scan.seen \ OnPath(scan.path)

\* What was visited: whatever was left has all its neighbours seen.
SeenSoFar(S, G, rt, scan) ==
    /\ WayDown(S, G, rt, scan.path)
    /\ scan.seen \in SUBSET S /\ OnPath(scan.path) \subseteq scan.seen
    /\ \A v \in scan.seen \ {rt} : \E p \in scan.seen : Hangs(S, G, rt, v, p)
    /\ \A v \in Gone(scan) : NextTo(G, S, v) \subseteq scan.seen

\* What was counted: the population below a vertex is known, or the vertex
\* above it is given up because of a vertex below with too much.
CountedSoFar(S, G, rt, total, opts, scan) ==
    /\ \A v \in Gone(scan) : \A p \in S : Hangs(S, G, rt, v, p)
          => scan.below[v] = PopOf(SideOf(S, G, v, p)) \/ p \in scan.no_valid_edges
    /\ \A q \in scan.seen \cap scan.no_valid_edges :
          \E c \in Gone(scan) : Hangs(S, G, rt, c, q) /\ TooMuchBelow(S, G, c, q, total, opts)

\* The cuts of an edge, and of the edges above some vertices.
CutRecords(v, p, sizes) == {[vertex |-> v, parent |-> p, size |-> s] : s \in sizes}

EdgeCuts(S, G, v, p, total, opts) == CutRecords(v, p, CutsAt(S, G, v, p, total, opts))

CutsBelow(S, G, rt, total, opts, Q) ==
    UNION {EdgeCuts(S, G, h[1], h[2], total, opts) : h \in {h \in Q \X S : Hangs(S, G, rt, h[1], h[2])}}

\* The search after k steps, with the cuts it started from in old.
Searching(S, G, rt, total, opts, old, k, scan) ==
    /\ SeenSoFar(S, G, rt, scan)
    /\ CountedSoFar(S, G, rt, total, opts, scan)
    /\ scan.cuts = old \cup CutsBelow(S, G, rt, total, opts, Gone(scan))
    /\ \/ 2 * Cardinality(scan.seen) - Len(scan.path) - 1 = k
       \/ Len(scan.path) = 1 /\ scan.seen = S

\* The cuts below a vertex more.
LEMMA CutsBelowMore ==
    ASSUME NEW S, NEW G, IsTree(S, G), NEW rt \in S, NEW total, NEW opts, NEW Q,
           NEW v, NEW p \in S, Hangs(S, G, rt, v, p),
           NEW R, Q \subseteq R, v \in R, \A y \in R : y \in Q \/ y = v
    PROVE  CutsBelow(S, G, rt, total, opts, R)
              = CutsBelow(S, G, rt, total, opts, Q) \cup EdgeCuts(S, G, v, p, total, opts)
  <1> DEFINE H(D) == {h \in D \X S : Hangs(S, G, rt, h[1], h[2])}
  <1>0. R = Q \cup {v}
    OBVIOUS
  <1>1. H(Q \cup {v}) = H(Q) \cup {<<v, p>>}
    <2>1. ASSUME NEW h \in H(Q \cup {v})
          PROVE  h \in H(Q) \cup {<<v, p>>}
      <3>1. h = <<h[1], h[2]>> /\ h[1] \in Q \cup {v} /\ h[2] \in S /\ Hangs(S, G, rt, h[1], h[2])
        OBVIOUS
      <3>2. CASE h[1] = v
        <4>1. h[2] = p
          BY <3>1, <3>2, OneAbove
        <4> QED  BY <3>1, <3>2, <4>1
      <3>3. CASE h[1] # v
        BY <3>1, <3>3
      <3> QED  BY <3>2, <3>3
    <2>2. <<v, p>> \in H(Q \cup {v})
      OBVIOUS
    <2>3. \A h \in H(Q) : h \in H(Q \cup {v})
      OBVIOUS
    <2> HIDE DEF H
    <2> QED  BY <2>1, <2>2, <2>3
  <1> DEFINE E(h) == EdgeCuts(S, G, h[1], h[2], total, opts)
  <1>2. E(<<v, p>>) = EdgeCuts(S, G, v, p, total, opts)
    OBVIOUS
  <1>3. \A D : CutsBelow(S, G, rt, total, opts, D) = UNION {E(h) : h \in H(D)}
    BY DEF CutsBelow
  <1> DEFINE X == H(Q)
             Y == H(R)
             y == <<v, p>>
  <1>4. CutsBelow(S, G, rt, total, opts, Q) = UNION {E(h) : h \in X}
        /\ CutsBelow(S, G, rt, total, opts, R) = UNION {E(h) : h \in Y}
    BY <1>3
  <1>5. Y = X \cup {y}
    BY <1>0, <1>1
  <1> HIDE DEF X, Y, y
  <1>6. (UNION {E(h) : h \in Y}) = (UNION {E(h) : h \in X}) \cup E(y)
    BY <1>5
  <1>7. E(y) = EdgeCuts(S, G, v, p, total, opts)
    BY <1>2 DEF y
  <1> HIDE DEF E
  <1> QED  BY <1>4, <1>6, <1>7

\* The first visit of a vertex, field by field.
LEMMA DescendIs ==
    ASSUME NEW T, NEW total, NEW opts, NEW scan \in Scans(T, total, opts), NEW u
    PROVE  LET next == Descend(scan, u)
           IN  /\ next.path = Append(scan.path, u) /\ next.seen = scan.seen \cup {u}
               /\ next.below = scan.below /\ next.no_valid_edges = scan.no_valid_edges \ {u}
               /\ next.cuts = scan.cuts
  <1> DEFINE q == Append(scan.path, u)
             reached == scan.seen \cup {u}
             waiting == scan.no_valid_edges \ {u}
             next == [scan EXCEPT !.path = q, !.seen = reached, !.no_valid_edges = waiting]
  <1>1. Descend(scan, u) = next
    BY DEF Descend
  <1> HIDE DEF q, reached, waiting
  <1>2. next.path = q /\ next.seen = reached /\ next.below = scan.below /\ next.no_valid_edges = waiting
        /\ next.cuts = scan.cuts
    BY DEF Scans
  <1> HIDE DEF next
  <1> QED  BY <1>1, <1>2 DEF q, reached, waiting

\* The second visit of a vertex, with the people counted below it and the others.
SecondVisit(T, total, opts, vtx, parent, scan, b, above, next) ==
    /\ b = Pop[vtx] + Total(scan.below, Neighbors(T, vtx) \ {parent}) /\ above = total.pop - b
    /\ next = Revisit(T, total, opts, vtx, parent, scan)

\* The second visit of a vertex, field by field.
LEMMA RevisitFields ==
    ASSUME NEW T, NEW total, NEW opts, NEW scan \in Scans(T, total, opts), NEW vtx \in Vertices, NEW parent,
           NEW b, NEW above, NEW next,
           SecondVisit(T, total, opts, vtx, parent, scan, b, above, next)
    PROVE  /\ next.path = scan.path /\ next.seen = scan.seen
           /\ \/ /\ vtx \in scan.no_valid_edges
                 /\ next.below = scan.below /\ next.no_valid_edges = scan.no_valid_edges \cup {parent}
                 /\ next.cuts = scan.cuts
              \/ /\ vtx \notin scan.no_valid_edges /\ parent \in scan.no_valid_edges
                 /\ next.below = scan.below /\ next.no_valid_edges = scan.no_valid_edges /\ next.cuts = scan.cuts
              \/ /\ vtx \notin scan.no_valid_edges /\ parent \notin scan.no_valid_edges
                 /\ next.below[vtx] = b /\ \A v \in Vertices : v # vtx => next.below[v] = scan.below[v]
                 /\ \/ /\ TooFew(b, above, opts)
                       /\ next.no_valid_edges = scan.no_valid_edges /\ next.cuts = scan.cuts
                    \/ /\ TooMany(b, above, opts)
                       /\ next.no_valid_edges = scan.no_valid_edges \cup {parent} /\ next.cuts = scan.cuts
                    \/ /\ next.no_valid_edges = scan.no_valid_edges
                       /\ next.cuts = scan.cuts \cup
                             CutRecords(vtx, parent, for_each_valid_population_split_from_edge(
                                                         total.size, b, above, opts))
  <1> DEFINE given_up == scan.no_valid_edges \cup {parent}
             below == [scan.below EXCEPT ![vtx] = b]
             counted == [scan EXCEPT !.below[vtx] = b]
             sizes == for_each_valid_population_split_from_edge(total.size, b, above, opts)
             found == {[vertex |-> vtx, parent |-> parent, size |-> s] : s \in sizes}
  <1>1. next = IF vtx \in scan.no_valid_edges
               THEN [scan EXCEPT !.no_valid_edges = scan.no_valid_edges \cup {parent}]
               ELSE IF parent \in scan.no_valid_edges THEN scan
               ELSE IF TooFew(b, above, opts) THEN counted
               ELSE IF TooMany(b, above, opts)
               THEN [counted EXCEPT !.no_valid_edges = counted.no_valid_edges \cup {parent}]
               ELSE [counted EXCEPT !.cuts = counted.cuts \cup found]
    BY DEF Revisit, GivesUp, Total, SecondVisit
  <1>2. /\ counted.path = scan.path /\ counted.seen = scan.seen /\ counted.below = below
        /\ counted.no_valid_edges = scan.no_valid_edges /\ counted.cuts = scan.cuts
        /\ counted \in [path : {scan.path}, seen : {scan.seen}, below : {below},
                        no_valid_edges : {scan.no_valid_edges}, cuts : {scan.cuts}]
    BY DEF Scans
  <1>3. scan \in [path : {scan.path}, seen : {scan.seen}, below : {scan.below},
                        no_valid_edges : {scan.no_valid_edges}, cuts : {scan.cuts}]
    BY DEF Scans
  <1>7. found = CutRecords(vtx, parent, sizes)
    BY DEF CutRecords
  <1>8. below[vtx] = b /\ \A v \in Vertices : v # vtx => below[v] = scan.below[v]
    BY DEF Scans
  <1> DEFINE more == scan.cuts \cup found
  <1> HIDE DEF counted, found, below, sizes
  <1>4. next = IF vtx \in scan.no_valid_edges
               THEN [scan EXCEPT !.no_valid_edges = given_up]
               ELSE IF parent \in scan.no_valid_edges THEN scan
               ELSE IF TooFew(b, above, opts) THEN counted
               ELSE IF TooMany(b, above, opts)
               THEN [counted EXCEPT !.no_valid_edges = given_up]
               ELSE [counted EXCEPT !.cuts = more]
    BY <1>1, <1>2
  <1> HIDE DEF given_up, more
  <1>5. /\ next.path = scan.path /\ next.seen = scan.seen
        /\ \/ /\ vtx \in scan.no_valid_edges
              /\ next.below = scan.below /\ next.no_valid_edges = given_up /\ next.cuts = scan.cuts
           \/ /\ vtx \notin scan.no_valid_edges /\ parent \in scan.no_valid_edges
              /\ next.below = scan.below /\ next.no_valid_edges = scan.no_valid_edges /\ next.cuts = scan.cuts
           \/ /\ vtx \notin scan.no_valid_edges /\ parent \notin scan.no_valid_edges
              /\ next.below = below
              /\ \/ /\ TooFew(b, above, opts)
                    /\ next.no_valid_edges = scan.no_valid_edges /\ next.cuts = scan.cuts
                 \/ /\ TooMany(b, above, opts)
                    /\ next.no_valid_edges = given_up /\ next.cuts = scan.cuts
                 \/ /\ next.no_valid_edges = scan.no_valid_edges
                    /\ next.cuts = more
    <2>1. CASE vtx \in scan.no_valid_edges
      BY <1>3, <1>4, <2>1
    <2>2. CASE vtx \notin scan.no_valid_edges /\ parent \in scan.no_valid_edges
      BY <1>3, <1>4, <2>2
    <2>3. CASE vtx \notin scan.no_valid_edges /\ parent \notin scan.no_valid_edges /\ TooFew(b, above, opts)
      BY <1>2, <1>4, <2>3
    <2>4. CASE /\ vtx \notin scan.no_valid_edges /\ parent \notin scan.no_valid_edges /\ ~TooFew(b, above, opts)
               /\ TooMany(b, above, opts)
      BY <1>2, <1>4, <2>4
    <2>5. CASE /\ vtx \notin scan.no_valid_edges /\ parent \notin scan.no_valid_edges /\ ~TooFew(b, above, opts)
               /\ ~TooMany(b, above, opts)
      BY <1>2, <1>4, <2>5
    <2> QED  BY <2>1, <2>2, <2>3, <2>4, <2>5
  <1> QED  BY <1>5, <1>7, <1>8 DEF given_up, more, sizes

\* What is searched and for what.
SearchSetting(T, S, rt, total, opts) ==
    TreeOn(T, S) /\ rt \in S /\ OptionsInBounds(total.size, opts) /\ TotalCovers(S, total)

\* A search goes on to a vertex it has not seen.
LEMMA SearchGoesDown ==
    ASSUME NEW T, NEW S, NEW rt, NEW total, NEW opts, SearchSetting(T, S, rt, total, opts),
           NEW G, G = Inside(S, T), NEW old, NEW k \in Int,
           NEW scan \in Scans(T, total, opts), Searching(S, G, rt, total, opts, old, k, scan),
           NEW u \in Neighbors(T, scan.path[Len(scan.path)]) \ scan.seen
    PROVE  Searching(S, G, rt, total, opts, old, k + 1, Descend(scan, u))
  <1> DEFINE p == scan.path
             vtx == p[Len(p)]
             next == Descend(scan, u)
             hang(a, b) == Hangs(S, G, rt, a, b)
  <1>1. IsTree(S, G) /\ S \in SUBSET Vertices /\ rt \in S /\ TreeOn(T, S) /\ IsFiniteSet(S)
    BY DEF SearchSetting, TreeOn, IsTree
  <1>2. /\ WayDown(S, G, rt, p) /\ scan.seen \in SUBSET S /\ OnPath(p) \subseteq scan.seen
        /\ \A v \in scan.seen \ {rt} : \E q \in scan.seen : hang(v, q)
        /\ \A v \in Gone(scan) : NextTo(G, S, v) \subseteq scan.seen
    BY DEF Searching, SeenSoFar
  <1>3. rt \in OnPath(p) /\ vtx \in S /\ vtx \in OnPath(p)
    <2>1. rt \in OnPath(p)
      <3>1. p[1] = rt /\ Len(p) \in Nat \ {0}
        BY <1>2 DEF WayDown
      <3>2. 1 \in 1 .. Len(p)
        BY <3>1
      <3> QED  BY <3>1, <3>2 DEF OnPath
    <2> HIDE DEF vtx, p
    <2> QED  BY <1>1, <1>2, <2>1, WayEnds DEF vtx
  <1>4. u \in S /\ {vtx, u} \in G /\ u # vtx /\ u \notin scan.seen
    <2>1. u \in NextTo(G, S, vtx) \ scan.seen
      BY <1>1, <1>3, NeighborsWithin
    <2> QED  BY <2>1 DEF NextTo
  <1>5. \A v \in scan.seen : ~hang(v, u)
    <2> SUFFICES ASSUME NEW v \in scan.seen, hang(v, u)
                 PROVE  FALSE
      OBVIOUS
    <2>1. v # rt
      BY <1>1, HangsOneWay DEF Hangs
    <2>2. PICK q \in scan.seen : hang(v, q)
      BY <1>2, <2>1
    <2>3. q = u
      BY <1>1, <2>2, OneAbove
    <2> QED  BY <1>4, <2>2, <2>3
  <1>6. hang(u, vtx)
    <2>1. {u, vtx} = {vtx, u}
      OBVIOUS
    <2>2. ~hang(vtx, u)
      BY <1>2, <1>3, <1>5
    <2> HIDE DEF vtx
    <2> QED  BY <1>1, <1>4, <2>1, <2>2, HangsOneWay
  <1>7. /\ next.path = Append(p, u) /\ next.seen = scan.seen \cup {u} /\ next.below = scan.below
        /\ next.no_valid_edges = scan.no_valid_edges \ {u} /\ next.cuts = scan.cuts
    BY DescendIs
  <1>8. WayDown(S, G, rt, next.path) /\ OnPath(next.path) = OnPath(p) \cup {u} /\ Len(next.path) = Len(p) + 1
    <2>1. u \in S \ OnPath(p)
      BY <1>2, <1>4
    <2> HIDE DEF p, next
    <2> QED  BY <1>2, <1>6, <1>7, <2>1, WayGoesOn DEF p
  <1> HIDE DEF next
  <1>9. Gone(next) = Gone(scan) /\ Gone(scan) \subseteq scan.seen
    BY <1>2, <1>4, <1>7, <1>8 DEF Gone
  <1>10. SeenSoFar(S, G, rt, next)
    <2>1. \A v \in next.seen \ {rt} : \E q \in next.seen : hang(v, q)
      <3> TAKE v \in next.seen \ {rt}
      <3>1. CASE v = u
        BY <1>2, <1>3, <1>6, <1>7, <3>1
      <3>2. CASE v # u
        BY <1>2, <1>7, <3>2
      <3> QED  BY <3>1, <3>2
    <2> HIDE DEF hang
    <2>2. next.seen \in SUBSET S /\ OnPath(next.path) \subseteq next.seen
      BY <1>2, <1>4, <1>7, <1>8
    <2>3. \A v \in Gone(next) : NextTo(G, S, v) \subseteq next.seen
      BY <1>2, <1>7, <1>9
    <2> QED  BY <1>8, <2>1, <2>2, <2>3 DEF SeenSoFar, hang
  <1>11. CountedSoFar(S, G, rt, total, opts, next)
    <2>1. ASSUME NEW v \in Gone(next), NEW q \in S, hang(v, q)
          PROVE  next.below[v] = PopOf(SideOf(S, G, v, q)) \/ q \in next.no_valid_edges
      <3>1. q # u
        BY <1>5, <1>9, <2>1
      <3>2. scan.below[v] = PopOf(SideOf(S, G, v, q)) \/ q \in scan.no_valid_edges
        BY <1>9, <2>1 DEF Searching, CountedSoFar
      <3> QED  BY <1>7, <3>1, <3>2
    <2>2. ASSUME NEW q \in next.seen \cap next.no_valid_edges
          PROVE  \E c \in Gone(next) : hang(c, q) /\ TooMuchBelow(S, G, c, q, total, opts)
      <3>1. q \in scan.seen \cap scan.no_valid_edges
        BY <1>7
      <3> QED  BY <1>9, <3>1 DEF Searching, CountedSoFar
    <2> QED  BY <2>1, <2>2 DEF CountedSoFar
  <1>12. next.cuts = old \cup CutsBelow(S, G, rt, total, opts, Gone(next))
    BY <1>7, <1>9 DEF Searching
  <1>13. 2 * Cardinality(next.seen) - Len(next.path) - 1 = k + 1
    <2>1. 2 * Cardinality(scan.seen) - Len(p) - 1 = k
      BY <1>4 DEF Searching
    <2>2. Len(p) \in Int
      BY <1>2 DEF WayDown
    <2>3. IsFiniteSet(scan.seen)
      BY <1>1, <1>2, FS_Subset
    <2> DEFINE X == scan.seen
               n == Len(p)
               m == Len(next.path)
               a == Cardinality(X)
               b == Cardinality(next.seen)
    <2>4. b = a + 1 /\ a \in Int
      <3>1. IsFiniteSet(X) /\ u \notin X /\ next.seen = X \cup {u}
        BY <1>4, <1>7, <2>3
      <3> HIDE DEF X
      <3>2. Cardinality(X \cup {u}) = Cardinality(X) + 1 /\ Cardinality(X) \in Nat
        BY <3>1, FS_AddElement, FS_CardinalityType
      <3> QED  BY <3>1, <3>2
    <2>5. 2 * a - n - 1 = k /\ m = n + 1 /\ n \in Int
      BY <1>8, <2>1, <2>2
    <2> HIDE DEF n, m, a, b
    <2>6. 2 * b - m - 1 = k + 1
      BY <2>4, <2>5
    <2> QED  BY <2>6 DEF b, m
  <1> QED  BY <1>10, <1>11, <1>12, <1>13 DEF Searching, next

\* Back at the root with nothing ahead, a search has seen the tree.
LEMMA SearchRests ==
    ASSUME NEW T, NEW S, NEW rt, NEW total, NEW opts, SearchSetting(T, S, rt, total, opts),
           NEW G, G = Inside(S, T), NEW old, NEW k \in Int,
           NEW scan \in Scans(T, total, opts), Searching(S, G, rt, total, opts, old, k, scan),
           Neighbors(T, scan.path[Len(scan.path)]) \subseteq scan.seen, Len(scan.path) = 1
    PROVE  scan.seen = S /\ Searching(S, G, rt, total, opts, old, k + 1, scan)
  <1> DEFINE p == scan.path
             X == scan.seen
  <1>1. IsTree(S, G) /\ S \in SUBSET Vertices /\ rt \in S /\ TreeOn(T, S) /\ IsFiniteSet(S)
    BY DEF SearchSetting, TreeOn, IsTree
  <1>2. /\ WayDown(S, G, rt, p) /\ X \in SUBSET S /\ OnPath(p) \subseteq X
        /\ \A v \in Gone(scan) : NextTo(G, S, v) \subseteq X
    BY DEF Searching, SeenSoFar
  <1>3. OnPath(p) = {rt} /\ p[Len(p)] = rt
    BY <1>2 DEF WayDown, OnPath
  <1>4. \A v \in X : NextTo(G, S, v) \subseteq X
    <2> TAKE v \in X
    <2>1. CASE v = rt
      <3>1. Neighbors(T, rt) \subseteq X /\ Neighbors(T, rt) = NextTo(G, S, rt)
        BY <1>1, <1>3, NeighborsWithin
      <3> QED  BY <2>1, <3>1
    <2>2. CASE v # rt
      BY <1>2, <1>3, <2>2 DEF Gone
    <2> QED  BY <2>1, <2>2
  <1> HIDE DEF X, p
  <1>5. Closed(X, S, G)
    <2>1. ASSUME NEW e \in Inside(S, G), e \cap X # {}
          PROVE  e \subseteq X
      <3>1. e \in G /\ e \subseteq S
        BY DEF Inside
      <3>2. PICK a, b : a # b /\ e = {a, b}
        BY <1>1, <3>1 DEF IsTree, Links
      <3>3. a \in S /\ b \in S /\ {b, a} = {a, b}
        BY <3>1, <3>2
      <3>4. b \in NextTo(G, S, a) /\ a \in NextTo(G, S, b)
        BY <3>1, <3>2, <3>3 DEF NextTo
      <3> QED  BY <1>4, <2>1, <3>2, <3>4
    <2> QED  BY <1>2, <2>1 DEF Closed
  <1>6. X = S
    <2>1. X # {}
      BY <1>2, <1>3
    <2>2. Connected(S, G)
      BY <1>1 DEF IsTree
    <2> QED  BY <1>1, <1>5, <2>1, <2>2, ConnectedIsClosed
  <1> QED  BY <1>6 DEF Searching, X

\* The population below a vertex with nothing given up is counted right.
LEMMA CountIsRight ==
    ASSUME NEW T, NEW S, NEW rt, NEW total, NEW opts, SearchSetting(T, S, rt, total, opts),
           NEW G, G = Inside(S, T), NEW v \in S, NEW p \in S, Hangs(S, G, rt, v, p),
           NEW below, \A c \in NextTo(G, S, v) \ {p} : below[c] = PopOf(SideOf(S, G, c, v))
    PROVE  Pop[v] + Total(below, Neighbors(T, v) \ {p}) = PopOf(SideOf(S, G, v, p))
  <1>1. IsTree(S, G) /\ S \in SUBSET Vertices /\ TreeOn(T, S) /\ {v, p} \in G /\ v # p
    BY DEF SearchSetting, TreeOn, Hangs
  <1>2. \A y \in S : Pop[y] \in Int
    BY <1>1, PopAssumption
  <1>3. \A c \in NextTo(G, S, v) \ {p} : below[c] = Total(Pop, SideOf(S, G, c, v))
    BY DEF PopOf, Total
  <1>4. Total(Pop, SideOf(S, G, v, p)) = Pop[v] + Total(below, NextTo(G, S, v) \ {p})
    <2> DEFINE C == NextTo(G, S, v) \ {p}
    <2>1. C = NextTo(G, S, v) \ {p} /\ \A c \in C : below[c] = Total(Pop, SideOf(S, G, c, v))
      BY <1>3
    <2> HIDE DEF C
    <2>2. Total(Pop, SideOf(S, G, v, p)) = Pop[v] + Total(below, C)
      BY <1>1, <1>2, <2>1, WeightBelow
    <2> QED  BY <2>2 DEF C
  <1>5. Neighbors(T, v) = NextTo(G, S, v)
    BY <1>1, NeighborsWithin
  <1> QED  BY <1>4, <1>5 DEF PopOf, Total

\* A search comes back from a vertex with nothing ahead.
LEMMA SearchGoesBack ==
    ASSUME NEW T, NEW S, NEW rt, NEW total, NEW opts, SearchSetting(T, S, rt, total, opts),
           NEW G, G = Inside(S, T), NEW old, NEW k \in Int,
           NEW scan \in Scans(T, total, opts), Searching(S, G, rt, total, opts, old, k, scan),
           NEW p, p = scan.path, Len(p) # 1, Neighbors(T, p[Len(p)]) \subseteq scan.seen,
           NEW next, next = [Revisit(T, total, opts, p[Len(p)], p[Len(p) - 1], scan)
                                EXCEPT !.path = SubSeq(p, 1, Len(p) - 1)]
    PROVE  Searching(S, G, rt, total, opts, old, k + 1, next)
  <1> DEFINE vtx == p[Len(p)]
             parent == p[Len(p) - 1]
             q == SubSeq(p, 1, Len(p) - 1)
             b == Pop[vtx] + Total(scan.below, Neighbors(T, vtx) \ {parent})
             above == total.pop - b
             hang(x, y) == Hangs(S, G, rt, x, y)
             X == scan.seen
             old_gone == Gone(scan)
             new_gone == Gone(next)
             barred == scan.no_valid_edges
  <1>1. IsTree(S, G) /\ S \in SUBSET Vertices /\ rt \in S /\ TreeOn(T, S) /\ IsFiniteSet(S)
        /\ OptionsInBounds(total.size, opts) /\ TotalCovers(S, total)
    BY DEF SearchSetting, TreeOn, IsTree
  <1>2. /\ WayDown(S, G, rt, p) /\ X \in SUBSET S /\ OnPath(p) \subseteq X
        /\ \A v \in X \ {rt} : \E y \in X : hang(v, y)
        /\ \A v \in old_gone : NextTo(G, S, v) \subseteq X
        /\ old_gone = X \ OnPath(p)
    BY DEF Searching, SeenSoFar, Gone
  <1>3. /\ WayDown(S, G, rt, q) /\ OnPath(q) = OnPath(p) \ {vtx} /\ Len(q) = Len(p) - 1
        /\ hang(vtx, parent) /\ parent \in OnPath(p) /\ vtx \in S /\ parent \in S
        /\ vtx \in OnPath(p) /\ \A c \in OnPath(p) : ~hang(c, vtx)
    <2> HIDE DEF vtx, parent, q
    <2>1. /\ WayDown(S, G, rt, q) /\ OnPath(q) = OnPath(p) \ {vtx} /\ Len(q) = Len(p) - 1
          /\ hang(vtx, parent) /\ parent \in OnPath(p) /\ vtx \in S /\ parent \in S
      BY <1>1, <1>2, WayGoesBack DEF vtx, parent, q
    <2>2. ASSUME NEW c \in OnPath(p)
          PROVE  vtx \in OnPath(p) /\ ~hang(c, vtx)
      BY <1>1, <1>2, WayEnds DEF vtx
    <2> QED  BY <2>1, <2>2
  <1>4. /\ \A v \in old_gone : \A y \in S : hang(v, y)
              => scan.below[v] = PopOf(SideOf(S, G, v, y)) \/ y \in barred
        /\ \A y \in X \cap barred :
              \E c \in old_gone : hang(c, y) /\ TooMuchBelow(S, G, c, y, total, opts)
        /\ scan.cuts = old \cup CutsBelow(S, G, rt, total, opts, old_gone)
        /\ scan.below \in [Vertices -> Int]
    BY DEF Searching, CountedSoFar, Scans
  <1>5. NextTo(G, S, vtx) \subseteq X
    <2>1. Neighbors(T, vtx) \subseteq X
      OBVIOUS
    <2> HIDE DEF vtx, X
    <2> QED  BY <1>1, <1>3, <2>1, NeighborsWithin
  <1>6. /\ next.path = q /\ next.seen = X
        /\ \/ /\ vtx \in barred
              /\ next.below = scan.below /\ next.no_valid_edges = barred \cup {parent} /\ next.cuts = scan.cuts
           \/ /\ vtx \notin barred /\ parent \in barred
              /\ next.below = scan.below /\ next.no_valid_edges = barred /\ next.cuts = scan.cuts
           \/ /\ vtx \notin barred /\ parent \notin barred
              /\ next.below[vtx] = b /\ \A v \in Vertices : v # vtx => next.below[v] = scan.below[v]
              /\ \/ /\ TooFew(b, above, opts)
                    /\ next.no_valid_edges = barred /\ next.cuts = scan.cuts
                 \/ /\ TooMany(b, above, opts)
                    /\ next.no_valid_edges = barred \cup {parent} /\ next.cuts = scan.cuts
                 \/ /\ next.no_valid_edges = barred
                    /\ next.cuts = scan.cuts \cup
                          CutRecords(vtx, parent,
                              for_each_valid_population_split_from_edge(total.size, b, above, opts))
    <2>1. vtx \in Vertices
      BY <1>1, <1>3
    <2> DEFINE R == Revisit(T, total, opts, vtx, parent, scan)
    <2>2. SecondVisit(T, total, opts, vtx, parent, scan, b, above, R)
      BY DEF SecondVisit
    <2>3. next = [R EXCEPT !.path = q] /\ R = Revisit(T, total, opts, vtx, parent, scan)
      OBVIOUS
    <2>4. {vtx, parent} \in T /\ vtx # parent /\ vtx \in Vertices /\ parent \in Vertices /\ T \in SUBSET Edges
          /\ total.pop \in Int
      <3>1. {vtx, parent} \in G /\ vtx # parent
        BY <1>3 DEF Hangs
      <3> HIDE DEF vtx, parent
      <3> QED  BY <1>1, <1>3, <3>1 DEF Inside, TreeOn, TotalCovers
    <2> HIDE DEF vtx, parent, q, b, above, R
    <2>5. R \in Scans(T, total, opts)
      BY <2>3, <2>4, RevisitIs
    <2>6. /\ next.path = q /\ next.seen = R.seen /\ next.below = R.below
          /\ next.no_valid_edges = R.no_valid_edges /\ next.cuts = R.cuts
      BY <2>3, <2>5 DEF Scans
    <2>7. /\ R.seen = X
          /\ \/ /\ vtx \in barred
                /\ R.below = scan.below /\ R.no_valid_edges = barred \cup {parent} /\ R.cuts = scan.cuts
             \/ /\ vtx \notin barred /\ parent \in barred
                /\ R.below = scan.below /\ R.no_valid_edges = barred /\ R.cuts = scan.cuts
             \/ /\ vtx \notin barred /\ parent \notin barred
                /\ R.below[vtx] = b /\ \A v \in Vertices : v # vtx => R.below[v] = scan.below[v]
                /\ \/ /\ TooFew(b, above, opts)
                      /\ R.no_valid_edges = barred /\ R.cuts = scan.cuts
                   \/ /\ TooMany(b, above, opts)
                      /\ R.no_valid_edges = barred \cup {parent} /\ R.cuts = scan.cuts
                   \/ /\ R.no_valid_edges = barred
                      /\ R.cuts = scan.cuts \cup
                            CutRecords(vtx, parent,
                                for_each_valid_population_split_from_edge(total.size, b, above, opts))
      BY <2>1, <2>2, <2>3, RevisitFields
    <2> HIDE DEF X, barred
    <2> QED  BY <2>6, <2>7
  <1> HIDE DEF q, vtx, parent, X, old_gone, barred
  <1>7. new_gone = old_gone \cup {vtx} /\ vtx \notin old_gone
    BY <1>2, <1>3, <1>6 DEF Gone
  <1> HIDE DEF new_gone
  <1>8. vtx \in barred => TooMuchBelow(S, G, vtx, parent, total, opts)
    <2> SUFFICES ASSUME vtx \in barred
                 PROVE  TooMuchBelow(S, G, vtx, parent, total, opts)
      OBVIOUS
    <2>1. vtx \in X
      BY <1>2, <1>3
    <2>2. PICK c \in old_gone : hang(c, vtx) /\ TooMuchBelow(S, G, c, vtx, total, opts)
      BY <1>4, <2>1
    <2> QED  BY <1>1, <1>3, <2>2, TooMuchAbove
  <1>9. vtx \notin barred => b = PopOf(SideOf(S, G, vtx, parent))
    <2> SUFFICES ASSUME vtx \notin barred
                 PROVE  b = PopOf(SideOf(S, G, vtx, parent))
      OBVIOUS
    <2>1. ASSUME NEW c \in NextTo(G, S, vtx) \ {parent}
          PROVE  scan.below[c] = PopOf(SideOf(S, G, c, vtx))
      <3>1. c \in X /\ {vtx, c} \in G /\ vtx # c /\ c # parent
        BY <1>5, <2>1 DEF NextTo
      <3>2. hang(c, vtx)
        BY <1>1, <1>3, <3>1, OthersHang
      <3>3. c \in old_gone
        BY <1>2, <1>3, <3>1, <3>2
      <3> QED  BY <1>3, <1>4, <3>2, <3>3
    <2>2. b = Pop[vtx] + Total(scan.below, Neighbors(T, vtx) \ {parent})
      BY DEF b
    <2>3. hang(vtx, parent) /\ vtx \in S /\ parent \in S
      BY <1>3
    <2> QED  BY <2>1, <2>2, <2>3, CountIsRight
  <1> HIDE DEF b
  <1>10. SeenSoFar(S, G, rt, next)
    <2>1. OnPath(next.path) \subseteq next.seen /\ next.seen \in SUBSET S /\ WayDown(S, G, rt, next.path)
      BY <1>2, <1>3, <1>6
    <2>2. \A v \in next.seen \ {rt} : \E y \in next.seen : hang(v, y)
      BY <1>2, <1>6
    <2>3. \A v \in Gone(next) : NextTo(G, S, v) \subseteq next.seen
      BY <1>2, <1>5, <1>6, <1>7 DEF new_gone
    <2> QED  BY <2>1, <2>2, <2>3 DEF SeenSoFar
  <1>11. /\ barred \subseteq next.no_valid_edges /\ next.no_valid_edges \subseteq barred \cup {parent}
         /\ \A v \in old_gone : next.below[v] = scan.below[v]
         /\ next.below[vtx] = b \/ parent \in next.no_valid_edges
         /\ next.below[vtx] = b => b = PopOf(SideOf(S, G, vtx, parent)) \/ parent \in next.no_valid_edges
    <2>1. vtx \in Vertices
      BY <1>1, <1>3
    <2>2. CASE vtx \in barred
      BY <1>6, <2>2
    <2>3. CASE vtx \notin barred /\ parent \in barred
      BY <1>6, <2>3
    <2>4. CASE vtx \notin barred /\ parent \notin barred
      <3>1. next.below[vtx] = b /\ \A v \in Vertices : v # vtx => next.below[v] = scan.below[v]
        BY <1>6, <2>4
      <3>4. old_gone \in SUBSET Vertices
        BY <1>1, <1>2
      <3>2. next.below[vtx] = b /\ \A v \in old_gone : next.below[v] = scan.below[v]
        BY <1>7, <3>1, <3>4
      <3>3. barred \subseteq next.no_valid_edges /\ next.no_valid_edges \subseteq barred \cup {parent}
        BY <1>6, <2>4
      <3> QED  BY <1>9, <2>4, <3>2, <3>3
    <2> QED  BY <2>2, <2>3, <2>4
  <1>12. parent \in next.no_valid_edges =>
            \E c \in new_gone : hang(c, parent) /\ TooMuchBelow(S, G, c, parent, total, opts)
    <2>1. CASE vtx \in barred
      BY <1>3, <1>7, <1>8, <2>1
    <2>2. CASE parent \in barred
      <3>1. parent \in X \cap barred
        BY <1>2, <1>3, <2>2
      <3> QED  BY <1>4, <1>7, <3>1
    <2>3. CASE vtx \notin barred /\ parent \notin barred /\ parent \in next.no_valid_edges
      <3>1. TooMany(b, above, opts)
        BY <1>6, <2>3
      <3>2. TooMuchBelow(S, G, vtx, parent, total, opts)
        BY <1>9, <2>3, <3>1 DEF TooMuchBelow
      <3> QED  BY <1>3, <1>7, <3>2
    <2> QED  BY <2>1, <2>2, <2>3
  <1>13. CountedSoFar(S, G, rt, total, opts, next)
    <2>1. ASSUME NEW v \in new_gone, NEW y \in S, hang(v, y)
          PROVE  next.below[v] = PopOf(SideOf(S, G, v, y)) \/ y \in next.no_valid_edges
      <3>1. CASE v = vtx
        <4>1. y = parent
          BY <1>1, <1>3, <2>1, <3>1, OneAbove
        <4> QED  BY <1>11, <3>1, <4>1
      <3>2. CASE v # vtx
        <4>1. v \in old_gone
          BY <1>7, <3>2
        <4>2. scan.below[v] = PopOf(SideOf(S, G, v, y)) \/ y \in barred
          BY <1>4, <2>1, <4>1
        <4> QED  BY <1>11, <4>1, <4>2
      <3> QED  BY <3>1, <3>2
    <2>2. ASSUME NEW y \in next.seen \cap next.no_valid_edges
          PROVE  \E c \in new_gone : hang(c, y) /\ TooMuchBelow(S, G, c, y, total, opts)
      <3>1. CASE y = parent
        BY <1>12, <3>1
      <3>2. CASE y # parent
        <4>1. y \in X \cap barred
          BY <1>6, <1>11, <3>2
        <4> QED  BY <1>4, <1>7, <4>1
      <3> QED  BY <3>1, <3>2
    <2> QED  BY <2>1, <2>2 DEF CountedSoFar, new_gone
  <1> DEFINE found == EdgeCuts(S, G, vtx, parent, total, opts)
  <1>14. CutsBelow(S, G, rt, total, opts, new_gone)
            = CutsBelow(S, G, rt, total, opts, old_gone) \cup found
    <2>1. Hangs(S, G, rt, vtx, parent) /\ parent \in S
      BY <1>3
    <2>2. IsTree(S, G) /\ rt \in S /\ old_gone \subseteq new_gone /\ vtx \in new_gone
          /\ \A y \in new_gone : y \in old_gone \/ y = vtx
      BY <1>1, <1>7
    <2> HIDE DEF found
    <2>3. found = EdgeCuts(S, G, vtx, parent, total, opts)
      BY DEF found
    <2> QED  BY <2>1, <2>2, <2>3, CutsBelowMore
  <1>15. next.cuts = scan.cuts \cup found
    <2> DEFINE sizes == CutsAt(S, G, vtx, parent, total, opts)
    <2>0. found = CutRecords(vtx, parent, sizes) /\ CutRecords(vtx, parent, {}) = {}
      BY DEF EdgeCuts, CutRecords
    <2> HIDE DEF found
    <2>1. CASE vtx \in barred \/ (vtx \notin barred /\ parent \notin barred
                                    /\ (TooFew(b, above, opts) \/ TooMany(b, above, opts)))
      <3> DEFINE side == PopOf(SideOf(S, G, vtx, parent))
                 rest == total.pop - side
      <3>1. TooFew(side, rest, opts) \/ TooMany(side, rest, opts)
        BY <1>8, <1>9, <2>1 DEF TooMuchBelow
      <3>2. side \in Int /\ rest \in Int
        <4>1. SideOf(S, G, vtx, parent) \in SUBSET Vertices
          <5>1. SideOf(S, G, vtx, parent) \in SUBSET S
            BY <1>1, <1>3, HangsOneWay DEF Hangs
          <5> QED  BY <1>1, <5>1
        <4> QED  BY <1>1, <4>1, PopType DEF TotalCovers
      <3> HIDE DEF side, rest
      <3>3. for_each_valid_population_split_from_edge(total.size, side, rest, opts) = {}
        BY <1>1, <3>1, <3>2, NothingFits
      <3>4. sizes = {}
        BY <3>3 DEF CutsAt, side, rest
      <3>5. found = {}
        BY <2>0, <3>4
      <3>6. next.cuts = scan.cuts \/ (vtx \notin barred /\ parent \notin barred)
        BY <1>6
      <3>7. vtx \notin barred => sizes = for_each_valid_population_split_from_edge(total.size, b, above, opts)
        BY <1>9 DEF CutsAt
      <3>8. vtx \notin barred => CutRecords(vtx, parent,
                  for_each_valid_population_split_from_edge(total.size, b, above, opts)) = {}
        BY <2>0, <3>4, <3>7
      <3>9. next.cuts = scan.cuts
        BY <1>6, <3>6, <3>8
      <3> QED  BY <3>5, <3>9
    <2>2. CASE vtx \notin barred /\ parent \in barred
      <3>1. parent \in X \cap barred
        BY <1>2, <1>3, <2>2
      <3>2. PICK c \in old_gone : hang(c, parent) /\ TooMuchBelow(S, G, c, parent, total, opts)
        BY <1>4, <3>1
      <3>3. c # vtx
        BY <1>7
      <3>4. sizes = {}
        BY <1>1, <1>3, <3>2, <3>3, TooFewBeside
      <3>5. next.cuts = scan.cuts
        BY <1>6, <2>2
      <3> QED  BY <2>0, <3>4, <3>5
    <2>3. CASE vtx \notin barred /\ parent \notin barred
               /\ ~(TooFew(b, above, opts) \/ TooMany(b, above, opts))
      <3>1. next.cuts = scan.cuts \cup
                          CutRecords(vtx, parent,
                              for_each_valid_population_split_from_edge(total.size, b, above, opts))
        BY <1>6, <2>3
      <3>2. sizes = for_each_valid_population_split_from_edge(total.size, b, above, opts)
        BY <1>9, <2>3 DEF CutsAt
      <3> QED  BY <2>0, <3>1, <3>2
    <2> QED  BY <2>1, <2>2, <2>3
  <1> HIDE DEF found
  <1>16. next.cuts = old \cup CutsBelow(S, G, rt, total, opts, new_gone)
    BY <1>4, <1>14, <1>15
  <1>17. 2 * Cardinality(next.seen) - Len(next.path) - 1 = k + 1
    <2> DEFINE n == Len(p)
               m == Len(next.path)
               a == Cardinality(X)
    <2>1. 2 * a - n - 1 = k
      BY DEF Searching, X
    <2>2. n \in Int
      BY <1>2 DEF WayDown
    <2>3. a \in Int
      BY <1>1, <1>2, FS_Subset, FS_CardinalityType
    <2>4. m = n - 1 /\ Cardinality(next.seen) = a
      BY <1>3, <1>6
    <2> HIDE DEF n, m, a
    <2>5. 2 * a - m - 1 = k + 1
      BY <2>1, <2>2, <2>3, <2>4
    <2> QED  BY <2>4, <2>5 DEF m
  <1> QED  BY <1>10, <1>13, <1>16, <1>17 DEF Searching, new_gone

\* What each step of a search hands on to the next it has in the end.
LEMMA ScanRuns ==
    ASSUME NEW T, IsFiniteSet(T), NEW total, NEW opts, NEW rt, NEW scan, NEW D,
           ScanStart(rt, scan) \in D, \A s \in D : SearchStep(T, total, opts, s) \in D,
           NEW P, ScanStart(rt, scan) \in P[0],
           \A k \in Nat : \A s \in D \cap P[k] : SearchStep(T, total, opts, s) \in P[k + 1]
    PROVE  ScanTree(T, total, opts, rt, scan) \in D \cap P[2 * Cardinality(T)]
  <1> DEFINE N == 2 * Cardinality(T)
             F == [s \in D |-> SearchStep(T, total, opts, s)]
             h == [k \in 1 .. N |-> F]
             a == ScanStart(rt, scan)
             Scanned(f) == f = [k \in 0 .. N |->
                 IF k = 0 THEN Descend([scan EXCEPT !.path = <<>>, !.seen = {}], rt)
                 ELSE SearchStep(T, total, opts, f[k - 1])]
             found == CHOOSE f : Scanned(f)
  <1>0. N \in Nat
    BY FS_CardinalityType
  <1>1. F \in [D -> D] /\ h \in [1 .. N -> [D -> D]] /\ a \in D
    OBVIOUS
  <1>2. a = Descend([scan EXCEPT !.path = <<>>, !.seen = {}], rt)
    BY DEF ScanStart
  <1>3. \E f \in [0 .. N -> D] : Scanned(f)
    <2>1. PICK f \in [0 .. N -> D] : IsIteration(f, N, a, h)
      <3> HIDE DEF N, h, a
      <3> QED  BY <1>0, <1>1, IterationExists
    <2>2. \A k \in 0 .. N : k # 0 => k \in 1 .. N /\ k - 1 \in 0 .. N
      BY <1>0
    <2>3. \A k \in 0 .. N : k # 0 => h[k][f[k - 1]] = SearchStep(T, total, opts, f[k - 1])
      BY <2>2
    <2> HIDE DEF h, N, a
    <2>4. Scanned(f)
      BY <1>2, <2>1, <2>3 DEF IsIteration
    <2> QED  BY <2>4
  <1>4. Scanned(found)
    <2> HIDE DEF Scanned
    <2> QED  BY <1>3
  <1>5. ScanTree(T, total, opts, rt, scan) = found[N]
    BY DEF ScanTree
  <1> HIDE DEF found
  <1> DEFINE S == {k \in Nat : k <= N => found[k] \in D \cap P[k]}
  <1>6. 0 \in S
    <2>1. found[0] = Descend([scan EXCEPT !.path = <<>>, !.seen = {}], rt)
      BY <1>0, <1>4
    <2>2. a \in D \cap P[0]
      OBVIOUS
    <2> QED  BY <1>2, <2>1, <2>2
  <1>7. ASSUME NEW k \in Nat, k \in S
        PROVE  k + 1 \in S
    <2> SUFFICES ASSUME k + 1 <= N
                 PROVE  found[k + 1] \in D \cap P[k + 1]
      OBVIOUS
    <2>1. k + 1 \in 0 .. N /\ k + 1 # 0 /\ (k + 1) - 1 = k
      BY <1>0
    <2>2. found[k + 1] = SearchStep(T, total, opts, found[k])
      BY <1>4, <2>1
    <2>3. found[k] \in D \cap P[k]
      BY <1>0, <1>7, <2>1
    <2> QED  BY <2>2, <2>3
  <1>8. Nat \subseteq S
    <2> HIDE DEF S
    <2> QED  BY <1>6, <1>7, SetInduction
  <1>9. found[N] \in D \cap P[N]
    BY <1>0, <1>8
  <1> QED  BY <1>5, <1>9

\* What a search may be started with: what another one left.
Scratches(T, total, opts) ==
    [path : Seq(Vertices), seen : SUBSET Vertices, below : [Vertices -> Int],
     no_valid_edges : SUBSET Vertices, cuts : SUBSET TreeCuts(T, total, opts)]

\* The start of a search, field by field.
LEMMA ScanStartIs ==
    ASSUME NEW T, NEW total, NEW opts, NEW scan \in Scratches(T, total, opts), NEW rt \in Vertices
    PROVE  /\ ScanStart(rt, scan) \in Scans(T, total, opts)
           /\ ScanStart(rt, scan).path = <<rt>> /\ ScanStart(rt, scan).seen = {rt}
           /\ ScanStart(rt, scan).cuts = scan.cuts /\ rt \notin ScanStart(rt, scan).no_valid_edges
  <1> DEFINE none == <<>>
             fresh == [scan EXCEPT !.path = none, !.seen = {}]
             q == <<rt>>
             waiting == scan.no_valid_edges \ {rt}
             start == [path |-> q, seen |-> {rt}, below |-> scan.below,
                       no_valid_edges |-> waiting, cuts |-> scan.cuts]
  <1>1. fresh = [path |-> none, seen |-> {}, below |-> scan.below,
                 no_valid_edges |-> scan.no_valid_edges, cuts |-> scan.cuts]
    <2>1. scan \in [path : {scan.path}, seen : {scan.seen}, below : {scan.below},
                   no_valid_edges : {scan.no_valid_edges}, cuts : {scan.cuts}]
      BY DEF Scratches
    <2> DEFINE unseen == {}
               b == scan.below
               n == scan.no_valid_edges
               c == scan.cuts
               f == [scan EXCEPT !.path = none, !.seen = unseen]
    <2> HIDE DEF none, unseen
    <2>2. f \in [path : {none}, seen : {unseen}, below : {b}, no_valid_edges : {n}, cuts : {c}]
      BY <2>1
    <2> HIDE DEF f, b, n, c
    <2>3. f = [path |-> none, seen |-> unseen, below |-> b, no_valid_edges |-> n, cuts |-> c]
      BY <2>2
    <2> QED  BY <2>3 DEF f, unseen, b, n, c
  <1>2. Descend(fresh, rt) = start
    <2>1. Descend(fresh, rt) = [fresh EXCEPT !.path = Append(fresh.path, rt), !.seen = fresh.seen \cup {rt},
                                               !.no_valid_edges = fresh.no_valid_edges \ {rt}]
      BY DEF Descend
    <2>2. Append(none, rt) = q
      OBVIOUS
    <2> HIDE DEF none, q, fresh
    <2> DEFINE r == Append(fresh.path, rt)
    <2>3. r = q
      BY <1>1, <2>2
    <2> HIDE DEF r
    <2>4. Descend(fresh, rt) = [fresh EXCEPT !.path = r, !.seen = fresh.seen \cup {rt},
                                               !.no_valid_edges = fresh.no_valid_edges \ {rt}]
      BY <2>1 DEF r
    <2> QED  BY <1>1, <2>3, <2>4
  <1>3. ScanStart(rt, scan) = start
    <2>1. fresh = [scan EXCEPT !.path = <<>>, !.seen = {}]
      OBVIOUS
    <2> HIDE DEF fresh, start
    <2> QED  BY <1>2, <2>1 DEF ScanStart
  <1>4. q \in Walks(T)
    BY DEF Walks
  <1> HIDE DEF q
  <1>5. start \in Scans(T, total, opts)
    BY <1>4 DEF Scans, Scratches
  <1>6. start.path = q /\ start.seen = {rt} /\ start.cuts = scan.cuts /\ rt \notin start.no_valid_edges
    OBVIOUS
  <1> HIDE DEF start
  <1> QED  BY <1>3, <1>5, <1>6 DEF q

\* At its start a search has seen its root.
LEMMA SearchStarts ==
    ASSUME NEW T, NEW S, NEW rt, NEW total, NEW opts, SearchSetting(T, S, rt, total, opts),
           NEW G, G = Inside(S, T), NEW scan, scan.path = <<rt>>, scan.seen = {rt},
           rt \notin scan.no_valid_edges, NEW old, scan.cuts = old
    PROVE  Searching(S, G, rt, total, opts, old, 0, scan)
  <1>1. rt \in S
    BY DEF SearchSetting
  <1>2. WayDown(S, G, rt, scan.path) /\ OnPath(scan.path) = {rt} /\ Len(scan.path) = 1
    <2> DEFINE q == <<rt>>
    <2>1. q \in Seq(S) /\ q # <<>> /\ q[1] = rt /\ Len(q) = 1
      BY <1>1
    <2> HIDE DEF q
    <2>2. \A i \in 1 .. Len(q) - 1 : Hangs(S, G, rt, q[i + 1], q[i])
      BY <2>1
    <2>3. \A i, j \in 1 .. Len(q) : q[i] = q[j] => i = j
      BY <2>1
    <2>4. WayDown(S, G, rt, q)
      BY <2>1, <2>2, <2>3 DEF WayDown
    <2>5. OnPath(q) = {rt}
      BY <2>1 DEF OnPath
    <2>6. scan.path = q
      BY DEF q
    <2> QED  BY <2>1, <2>4, <2>5, <2>6
  <1>3. Gone(scan) = {}
    BY <1>2 DEF Gone
  <1>4. SeenSoFar(S, G, rt, scan) /\ CountedSoFar(S, G, rt, total, opts, scan)
    BY <1>1, <1>2, <1>3 DEF SeenSoFar, CountedSoFar
  <1>5. scan.cuts = old \cup CutsBelow(S, G, rt, total, opts, Gone(scan))
    <2>1. CutsBelow(S, G, rt, total, opts, {}) = {}
      BY DEF CutsBelow
    <2> QED  BY <1>3, <2>1
  <1>6. 2 * Cardinality(scan.seen) - Len(scan.path) - 1 = 0
    <2>1. Cardinality({rt}) = 1
      BY FS_Singleton
    <2> QED  BY <1>2, <2>1
  <1> QED  BY <1>4, <1>5, <1>6 DEF Searching

\* What a step of a search hands on to the next.
LEMMA SearchGoesOn ==
    ASSUME NEW T, NEW S, NEW rt, NEW total, NEW opts, SearchSetting(T, S, rt, total, opts),
           NEW G, G = Inside(S, T), NEW old, NEW k \in Int,
           NEW scan \in Scans(T, total, opts), Searching(S, G, rt, total, opts, old, k, scan)
    PROVE  Searching(S, G, rt, total, opts, old, k + 1, SearchStep(T, total, opts, scan))
  <1> DEFINE p == scan.path
             depth == Len(p)
             vtx == p[depth]
             ahead == Neighbors(T, vtx) \ scan.seen
             parent == p[depth - 1]
  <1>1. SearchStep(T, total, opts, scan) =
          IF ahead # {} THEN Descend(scan, Max(ahead))
          ELSE IF depth = 1 THEN scan
          ELSE [Revisit(T, total, opts, vtx, parent, scan) EXCEPT !.path = SubSeq(p, 1, depth - 1)]
    <2>1. depth # 1 => Revisit(T, total, opts, vtx, parent, scan).path = p
      <3> HIDE DEF vtx, parent
      <3> QED  BY DEF Revisit, Scans
    <2> QED  BY <2>1 DEF SearchStep
  <1>2. CASE ahead # {}
    <2> DEFINE u == Max(ahead)
    <2>1. ahead \in SUBSET Vertices
      <3>1. T \in SUBSET Edges
        BY DEF SearchSetting, TreeOn
      <3> HIDE DEF vtx
      <3> QED  BY <3>1, NeighborsAre
    <2>2. u \in ahead
      <3> HIDE DEF ahead
      <3> QED  BY <1>2, <2>1, MostIs
    <2> HIDE DEF u
    <2>3. Searching(S, G, rt, total, opts, old, k + 1, Descend(scan, u))
      BY <2>2, SearchGoesDown
    <2>4. SearchStep(T, total, opts, scan) = Descend(scan, u)
      BY <1>1, <1>2 DEF u
    <2> QED  BY <2>3, <2>4
  <1>3. CASE ahead = {} /\ depth = 1
    <2>1. Neighbors(T, scan.path[Len(scan.path)]) \subseteq scan.seen /\ Len(scan.path) = 1
      BY <1>3
    <2>2. SearchStep(T, total, opts, scan) = scan
      BY <1>1, <1>3
    <2>3. Searching(S, G, rt, total, opts, old, k + 1, scan)
      BY <2>1, SearchRests
    <2> QED  BY <2>2, <2>3
  <1>4. CASE ahead = {} /\ depth # 1
    <2>1. Neighbors(T, p[Len(p)]) \subseteq scan.seen /\ Len(p) # 1 /\ p = scan.path
      BY <1>4
    <2> DEFINE next == [Revisit(T, total, opts, p[Len(p)], p[Len(p) - 1], scan)
                           EXCEPT !.path = SubSeq(p, 1, Len(p) - 1)]
    <2>2. SearchStep(T, total, opts, scan) = next
      BY <1>1, <1>4
    <2>3. Searching(S, G, rt, total, opts, old, k + 1, next)
      BY <2>1, SearchGoesBack
    <2> QED  BY <2>2, <2>3
  <1> QED  BY <1>2, <1>3, <1>4

\* A search that has made its steps is back at its root and has seen the tree.
LEMMA SearchIsDone ==
    ASSUME NEW T, NEW S, NEW rt, NEW total, NEW opts, SearchSetting(T, S, rt, total, opts),
           NEW G, G = Inside(S, T), NEW old, NEW scan,
           Searching(S, G, rt, total, opts, old, 2 * Cardinality(T), scan)
    PROVE  scan.cuts = old \cup CutsBelow(S, G, rt, total, opts, S \ {rt})
  <1> DEFINE p == scan.path
             X == scan.seen
  <1>1. IsTree(S, G) /\ IsFiniteSet(S) /\ IsFiniteSet(T) /\ Cardinality(G) = Cardinality(S) - 1
    <2>1. T \in SUBSET Edges /\ IsFiniteSet(Edges) /\ IsTree(S, G)
      BY GraphFacts DEF SearchSetting, TreeOn
    <2> QED  BY <2>1, FS_Subset DEF IsTree
  <1>2. WayDown(S, G, rt, p) /\ X \in SUBSET S /\ OnPath(p) \subseteq X
    BY DEF Searching, SeenSoFar
  <1>3. Len(p) \in Nat \ {0} /\ p[1] = rt
    BY <1>2 DEF WayDown
  <1>4. Cardinality(G) <= Cardinality(T) /\ Cardinality(T) \in Nat /\ Cardinality(S) \in Nat
    <2>1. G \in SUBSET T
      BY DEF Inside
    <2> QED  BY <1>1, <2>1, FS_Subset, FS_CardinalityType
  <1>5. Cardinality(X) \in Nat /\ Cardinality(X) <= Cardinality(S)
        /\ (Cardinality(X) = Cardinality(S) => X = S)
    <2>1. X \in SUBSET S
      BY <1>2
    <2> HIDE DEF X
    <2> QED  BY <1>1, <2>1, FS_Subset, FS_CardinalityType
  <1>6. X = S /\ Len(p) = 1
    <2>1. CASE 2 * Cardinality(X) - Len(p) - 1 = 2 * Cardinality(T)
      <3> DEFINE x == Cardinality(X)
                 s == Cardinality(S)
                 t == Cardinality(T)
                 n == Len(p)
      <3>1. x \in Nat /\ s \in Nat /\ t \in Nat /\ n \in Nat /\ n >= 1 /\ x <= s /\ s - 1 <= t
            /\ 2 * x - n - 1 = 2 * t
        BY <1>1, <1>3, <1>4, <1>5, <2>1
      <3> HIDE DEF x, s, t, n
      <3>2. n = 1 /\ x = s
        BY <3>1
      <3> QED  BY <1>5, <3>2 DEF n, x, s
    <2>2. CASE Len(p) = 1 /\ X = S
      BY <2>2
    <2> QED  BY <2>1, <2>2 DEF Searching
  <1>7. Gone(scan) = S \ {rt}
    <2>1. OnPath(p) = {rt}
      BY <1>3, <1>6 DEF OnPath
    <2> QED  BY <1>6, <2>1 DEF Gone
  <1> QED  BY <1>7 DEF Searching

\* A search from anywhere, in whatever an earlier one left, adds the cuts of
\* every edge of its tree.
THEOREM SearchFinds ==
    ASSUME NEW T, NEW S, NEW rt, NEW total, NEW opts, SearchSetting(T, S, rt, total, opts),
           NEW scan \in Scratches(T, total, opts)
    PROVE  /\ ScanTree(T, total, opts, rt, scan) \in Scans(T, total, opts)
           /\ ScanTree(T, total, opts, rt, scan).cuts
                 = scan.cuts \cup CutsBelow(S, Inside(S, T), rt, total, opts, S \ {rt})
  <1> DEFINE G == Inside(S, T)
             old == scan.cuts
             D == Scans(T, total, opts)
             P == [k \in Nat |-> {s \in D : Searching(S, G, rt, total, opts, old, k, s)}]
             start == ScanStart(rt, scan)
             done == ScanTree(T, total, opts, rt, scan)
             N == 2 * Cardinality(T)
  <1>1. rt \in Vertices /\ T \in SUBSET Edges /\ IsFiniteSet(T) /\ N \in Nat /\ total.pop \in Int
    <2>1. T \in SUBSET Edges /\ IsFiniteSet(Edges) /\ rt \in Vertices /\ total.pop \in Int
      BY GraphFacts DEF SearchSetting, TreeOn, TotalCovers
    <2>2. IsFiniteSet(T)
      BY <2>1, FS_Subset
    <2> QED  BY <2>1, <2>2, FS_CardinalityType
  <1>2. start \in D /\ start.path = <<rt>> /\ start.seen = {rt} /\ start.cuts = old
        /\ rt \notin start.no_valid_edges
    BY <1>1, ScanStartIs
  <1>3. start \in P[0]
    <2> HIDE DEF start
    <2>1. Searching(S, G, rt, total, opts, old, 0, start)
      BY <1>2, SearchStarts
    <2> QED  BY <1>2, <2>1
  <1>4. \A s \in D : SearchStep(T, total, opts, s) \in D
    BY <1>1, SearchStepIs
  <1>5. ASSUME NEW k \in Nat, NEW s \in D \cap P[k]
        PROVE  SearchStep(T, total, opts, s) \in P[k + 1]
    <2>1. Searching(S, G, rt, total, opts, old, k, s) /\ k \in Int /\ k + 1 \in Nat
      OBVIOUS
    <2> DEFINE next == SearchStep(T, total, opts, s)
    <2>2. Searching(S, G, rt, total, opts, old, k + 1, next)
      BY <2>1, SearchGoesOn
    <2>3. next \in D
      BY <1>4
    <2> HIDE DEF next
    <2>4. next \in P[k + 1]
      BY <2>1, <2>2, <2>3
    <2> QED  BY <2>4 DEF next
  <1>6. done \in D \cap P[N]
    <2> HIDE DEF P, D, N
    <2>1. ScanTree(T, total, opts, rt, scan) \in D \cap P[2 * Cardinality(T)]
      BY <1>1, <1>2, <1>3, <1>4, <1>5, ScanRuns DEF start
    <2> QED  BY <2>1 DEF N
  <1>7. Searching(S, G, rt, total, opts, old, N, done)
    BY <1>1, <1>6
  <1>8. done.cuts = old \cup CutsBelow(S, G, rt, total, opts, S \ {rt})
    <2> HIDE DEF done, old
    <2> QED  BY <1>7, SearchIsDone
  <1> QED  BY <1>6, <1>8

\* The options of a schedule that lets any sizes be cut are every size.
LEMMA AnyCutOptionsAre ==
    ASSUME NEW size \in Nat \ {0}
    PROVE  /\ OptionsInBounds(size, AnyCutOptions(size))
           /\ AnyCutOptions(size).smaller_cut_sizes
                 \cup {size - t : t \in AnyCutOptions(size).smaller_cut_sizes} = 1 .. size - 1
  <1> DEFINE A == 1 .. (size \div 2)
             B == {size - t : t \in A}
             h == size \div 2
  <1>1. h \in Nat /\ 2 * h <= size /\ size <= 2 * h + 1
    OBVIOUS
  <1>2. ASSUME NEW s \in 1 .. size - 1
        PROVE  s \in A \cup B
    <2>1. CASE s <= h
      BY <1>1, <2>1
    <2>2. CASE s > h
      <3>1. size - s \in A /\ s = size - (size - s)
        BY <1>1, <2>2
      <3> QED  BY <3>1
    <2> QED  BY <1>1, <2>1, <2>2
  <1>3. ASSUME NEW s \in A
        PROVE  s \in 1 .. size - 1 /\ size - s \in 1 .. size - 1
    <2>1. s \in Int /\ 1 <= s /\ s <= h
      BY <1>1
    <2> HIDE DEF h
    <2> QED  BY <1>1, <2>1
  <1>4. A \cup B = 1 .. size - 1
    <2>1. \A s \in A : s \in 1 .. size - 1
      BY <1>3
    <2>2. \A s \in B : s \in 1 .. size - 1
      BY <1>3
    <2>3. \A s \in 1 .. size - 1 : s \in A \cup B
      BY <1>2
    <2> HIDE DEF A, B
    <2> QED  BY <2>1, <2>2, <2>3
  <1>5. AnyCutOptions(size).smaller_cut_sizes = A /\ AnyCutOptions(size).min_cut_size = 1
        /\ AnyCutOptions(size).max_cut_size = size - 1
    BY DEF AnyCutOptions
  <1> DEFINE opts == AnyCutOptions(size)
  <1> HIDE DEF A, opts
  <1>6. opts.smaller_cut_sizes \cup {size - t : t \in opts.smaller_cut_sizes} = 1 .. size - 1
    BY <1>4, <1>5 DEF opts
  <1>7. OptionsInBounds(size, opts)
    <2> DEFINE Z == opts.smaller_cut_sizes \cup {size - t : t \in opts.smaller_cut_sizes}
    <2>1. \A s \in 1 .. size - 1 : s \in 1 .. size - 1 /\ size - s \in 1 .. size - 1
      OBVIOUS
    <2>2. Z = 1 .. size - 1 /\ opts.min_cut_size = 1 /\ opts.max_cut_size = size - 1
      BY <1>5, <1>6 DEF opts
    <2> HIDE DEF Z
    <2>3. \A s \in Z : s \in opts.min_cut_size .. opts.max_cut_size
                       /\ size - s \in opts.min_cut_size .. opts.max_cut_size
      BY <2>1, <2>2
    <2>4. opts.min_cut_size \in Nat /\ opts.max_cut_size \in Nat /\ size \in Nat
      BY <2>2
    <2> QED  BY <2>3, <2>4 DEF OptionsInBounds, Z
  <1> QED  BY <1>6, <1>7 DEF opts

\* Two for each, and nothing else.
TwoForEach(A, B, f, g) ==
    /\ \A a \in A : f[a] \in B /\ g[a] \in B
    /\ \A a, c \in A : (f[a] = f[c] \/ g[a] = g[c]) => a = c
    /\ \A a, c \in A : f[a] # g[c]
    /\ \A b \in B : \E a \in A : b = f[a] \/ b = g[a]

\* Two for each are twice as many.
LEMMA TwiceAsMany ==
    ASSUME NEW A, NEW B, IsFiniteSet(B), NEW f, NEW g, TwoForEach(A, B, f, g)
    PROVE  IsFiniteSet(A) /\ Cardinality(A) \in Nat /\ Cardinality(B) = 2 * Cardinality(A)
  <1> DEFINE F == {f[a] : a \in A}
             H == {g[a] : a \in A}
  <1>0. /\ \A a \in A : f[a] \in B /\ g[a] \in B
        /\ \A a, c \in A : (f[a] = f[c] \/ g[a] = g[c]) => a = c
        /\ \A a, c \in A : f[a] # g[c]
        /\ \A b \in B : \E a \in A : b = f[a] \/ b = g[a]
    BY DEF TwoForEach
  <1>1. F \in SUBSET B /\ H \in SUBSET B /\ F \cap H = {} /\ B = F \cup H
    BY <1>0
  <1>2. IsFiniteSet(F) /\ IsFiniteSet(H)
    BY <1>1, FS_Subset
  <1> DEFINE back == [y \in F |-> CHOOSE a \in A : f[a] = y]
             into == [a \in A |-> f[a]]
             over == [a \in A |-> g[a]]
  <1>3. \A a \in A : f[a] \in F /\ back[f[a]] = a
    <2> TAKE a \in A
    <2>1. f[a] \in F /\ back[f[a]] = CHOOSE c \in A : f[c] = f[a]
      OBVIOUS
    <2>2. (CHOOSE c \in A : f[c] = f[a]) \in A /\ f[CHOOSE c \in A : f[c] = f[a]] = f[a]
      OBVIOUS
    <2> QED  BY <1>0, <2>1, <2>2
  <1>4. back \in Surjection(F, A)
    <2>1. \A y \in F : back[y] \in A
      BY <1>3
    <2> HIDE DEF F
    <2>2. back \in [F -> A]
      BY <2>1
    <2> HIDE DEF back
    <2> QED  BY <1>3, <2>2 DEF Surjection
  <1>5. IsFiniteSet(A)
    <2> HIDE DEF F, back
    <2> QED  BY <1>2, <1>4, FS_Surjection
  <1>6. into \in Bijection(A, F) /\ over \in Bijection(A, H)
    BY <1>0 DEF Bijection, Injection, Surjection, IsInjective
  <1> HIDE DEF F, H, into, over
  <1>7. Cardinality(F) = Cardinality(A) /\ Cardinality(H) = Cardinality(A)
    <2>1. ExistsBijection(A, F) /\ ExistsBijection(A, H)
      BY <1>6 DEF ExistsBijection
    <2> QED  BY <1>5, <2>1, FS_Bijection
  <1>8. Cardinality(F) \in Nat /\ Cardinality(F \cup H) = Cardinality(F) + Cardinality(H)
    BY <1>1, <1>2, PartsAddUp
  <1> QED  BY <1>1, <1>5, <1>7, <1>8

\* The triples of finite sets.
LEMMA FiniteTriples ==
    ASSUME NEW A, IsFiniteSet(A), NEW B, IsFiniteSet(B), NEW C, IsFiniteSet(C)
    PROVE  IsFiniteSet(A \X B \X C)
  <1> DEFINE P == A \X B
             Q == P \X C
             R == A \X B \X C
             f == [x \in Q |-> <<x[1][1], x[1][2], x[2]>>]
  <1>1. IsFiniteSet(Q)
    <2>1. IsFiniteSet(P)
      BY FS_Product
    <2> HIDE DEF P
    <2> QED  BY <2>1, FS_Product
  <1>2. f \in Surjection(Q, R)
    <2>1. f \in [Q -> R]
      OBVIOUS
    <2>2. ASSUME NEW y \in R
          PROVE  \E x \in Q : f[x] = y
      <3>1. <<<<y[1], y[2]>>, y[3]>> \in Q
        OBVIOUS
      <3>2. f[<<<<y[1], y[2]>>, y[3]>>] = y
        BY <3>1
      <3> QED  BY <3>1, <3>2
    <2> HIDE DEF f, Q, R
    <2> QED  BY <2>1, <2>2 DEF Surjection
  <1> HIDE DEF f, Q
  <1> QED  BY <1>1, <1>2, FS_Surjection

\* A number of cuts below each edge is half the number of cuts of either side.
THEOREM CutsAreCounted ==
    ASSUME NEW S \in SUBSET Vertices, NEW G, IsTree(S, G), NEW rt \in S, NEW size \in Nat \ {0},
           NEW total, total.pop = PopOf(S), total.size = size
    PROVE  CutCount(G, S, size)
              = Cardinality(CutsBelow(S, G, rt, total, AnyCutOptions(size), S \ {rt}))
  <1> DEFINE opts == AnyCutOptions(size)
             hang(v, p) == Hangs(S, G, rt, v, p)
             side(v, p) == SideOf(S, G, v, p)
             A == CutsBelow(S, G, rt, total, opts, S \ {rt})
             B == ValidCuts(G, S, size)
             valid(v, p, s) == s \in 1 .. size - 1 /\ Fits(PopOf(side(v, p)), s)
                                 /\ Fits(PopOf(S \ side(v, p)), size - s)
  <1>1. ASSUME NEW v, NEW p, {v, p} \in G, v # p, NEW s
        PROVE  /\ s \in CutsAt(S, G, v, p, total, opts) <=> valid(v, p, s)
               /\ valid(v, p, s) => valid(p, v, size - s)
               /\ v \in S /\ p \in S /\ (hang(v, p) <=> ~hang(p, v)) /\ (hang(v, p) => v # rt)
    <2>1. side(v, p) \in SUBSET S /\ side(p, v) = S \ side(v, p)
          /\ v \in S /\ p \in S /\ (hang(v, p) <=> ~hang(p, v)) /\ (hang(v, p) => v # rt)
      BY <1>1, HangsOneWay
    <2> DEFINE a == side(v, p)
    <2>2. PopOf(S \ a) = PopOf(S) - PopOf(a)
      <3>1. a \in SUBSET S
        BY <2>1
      <3> HIDE DEF a
      <3> QED  BY <3>1, PopOfMore
    <2> DEFINE Z == opts.smaller_cut_sizes \cup {size - t : t \in opts.smaller_cut_sizes}
    <2>3. Z = 1 .. size - 1
      BY AnyCutOptionsAre
    <2>4. CutsAt(S, G, v, p, total, opts)
             = {t \in Z : Fits(PopOf(a), t) /\ Fits(total.pop - PopOf(a), size - t)}
      BY DEF CutsAt, for_each_valid_population_split_from_edge
    <2>5. s \in CutsAt(S, G, v, p, total, opts) <=> valid(v, p, s)
      <3> HIDE DEF Z
      <3> QED  BY <2>2, <2>3, <2>4
    <2>6. valid(v, p, s) => valid(p, v, size - s)
      <3> SUFFICES ASSUME valid(v, p, s)
                   PROVE  valid(p, v, size - s)
        OBVIOUS
      <3>1. s \in 1 .. size - 1 /\ size - s \in 1 .. size - 1 /\ size - (size - s) = s
        OBVIOUS
      <3>2. S \ side(p, v) = side(v, p)
        BY <2>1
      <3> DEFINE b == side(p, v)
                 t == size - s
      <3>3. Fits(PopOf(a), s) /\ Fits(PopOf(b), t) /\ S \ b = a /\ size - t = s /\ t \in 1 .. size - 1
        BY <2>1, <3>1, <3>2
      <3> HIDE DEF a, b, t
      <3>4. t \in 1 .. size - 1 /\ Fits(PopOf(b), t) /\ Fits(PopOf(S \ b), size - t)
        BY <3>3
      <3> QED  BY <3>4 DEF b, t
    <2> QED  BY <2>1, <2>5, <2>6
  <1> HIDE DEF valid
  <1>2. ASSUME NEW c \in A
        PROVE  /\ c = [vertex |-> c.vertex, parent |-> c.parent, size |-> c.size]
               /\ hang(c.vertex, c.parent) /\ valid(c.vertex, c.parent, c.size)
               /\ {c.vertex, c.parent} \in G /\ c.vertex # c.parent
               /\ c.size \in 1 .. size - 1
    <2>1. PICK h \in (S \ {rt}) \X S : hang(h[1], h[2]) /\ c \in EdgeCuts(S, G, h[1], h[2], total, opts)
      BY DEF CutsBelow
    <2> DEFINE v == h[1]
               p == h[2]
    <2> HIDE DEF v, p
    <2>2. PICK s \in CutsAt(S, G, v, p, total, opts) : c = [vertex |-> v, parent |-> p, size |-> s]
      BY <2>1 DEF EdgeCuts, CutRecords, v, p
    <2>3. {v, p} \in G /\ v # p /\ hang(v, p)
      BY <2>1 DEF Hangs, v, p
    <2>4. valid(v, p, s)
      BY <1>1, <2>3
    <2>5. c.vertex = v /\ c.parent = p /\ c.size = s
      BY <2>2
    <2> QED  BY <2>2, <2>3, <2>4, <2>5 DEF valid
  <1>3. ASSUME NEW v, NEW p, hang(v, p), NEW s, valid(v, p, s)
        PROVE  [vertex |-> v, parent |-> p, size |-> s] \in A
    <2>1. {v, p} \in G /\ v # p
      BY <1>3 DEF Hangs
    <2>2. s \in CutsAt(S, G, v, p, total, opts) /\ v \in S \ {rt} /\ p \in S
      BY <1>1, <1>3, <2>1
    <2>3. [vertex |-> v, parent |-> p, size |-> s] \in EdgeCuts(S, G, v, p, total, opts)
      BY <2>2 DEF EdgeCuts, CutRecords
    <2>4. <<v, p>> \in {h \in (S \ {rt}) \X S : hang(h[1], h[2])}
      BY <1>3, <2>2
    <2> QED  BY <2>3, <2>4 DEF CutsBelow
  <1>4. ASSUME NEW v, NEW p, {v, p} \in G, v # p, NEW s, valid(v, p, s)
        PROVE  <<{v, p}, v, s>> \in B
    <2>1. v \in S /\ s \in 1 .. size - 1
      BY <1>1, <1>4 DEF valid
    <2>2. <<{v, p}, v, s>> \in G \X S \X (1 .. size - 1)
      BY <1>4, <2>1
    <2>3. Fits(PopOf(Component(v, S, G \ {{v, p}})), s) /\ Fits(PopOf(S \ Component(v, S, G \ {{v, p}})), size - s)
      BY <1>4 DEF valid, SideOf
    <2> DEFINE x == <<{v, p}, v, s>>
    <2>4. x[1] = {v, p} /\ x[2] = v /\ x[3] = s
      OBVIOUS
    <2> HIDE DEF x
    <2>5. x \in B
      BY <2>2, <2>3, <2>4 DEF ValidCuts, x
    <2> QED  BY <2>5 DEF x
  <1>5. ASSUME NEW x \in B
        PROVE  \E v, p, s : {v, p} \in G /\ v # p /\ valid(v, p, s) /\ x = <<{v, p}, v, s>>
    <2>1. x \in G \X S \X (1 .. size - 1) /\ x[2] \in x[1]
          /\ Fits(PopOf(Component(x[2], S, G \ {x[1]})), x[3])
          /\ Fits(PopOf(S \ Component(x[2], S, G \ {x[1]})), size - x[3])
      BY DEF ValidCuts
    <2>2. x = <<x[1], x[2], x[3]>> /\ x[1] \in G /\ x[3] \in 1 .. size - 1
      BY <2>1
    <2>3. PICK a, b : a # b /\ x[1] = {a, b}
      BY <2>2 DEF IsTree, Links
    <2>4. PICK p : x[1] = {x[2], p} /\ x[2] # p
      BY <2>1, <2>3
    <2>5. valid(x[2], p, x[3])
      BY <2>1, <2>2, <2>4 DEF valid, SideOf
    <2> QED  BY <2>2, <2>4, <2>5
  <1> DEFINE f == [c \in A |-> <<{c.vertex, c.parent}, c.vertex, c.size>>]
             g == [c \in A |-> <<{c.vertex, c.parent}, c.parent, size - c.size>>]
  <1>6. IsFiniteSet(B)
    <2>1. IsFiniteSet(G) /\ IsFiniteSet(S) /\ IsFiniteSet(1 .. size - 1)
      BY FS_Interval DEF IsTree
    <2>2. IsFiniteSet(G \X S \X (1 .. size - 1))
      BY <2>1, FiniteTriples
    <2>3. B \in SUBSET (G \X S \X (1 .. size - 1))
      BY DEF ValidCuts
    <2> QED  BY <2>2, <2>3, FS_Subset
  <1>7. \A c \in A : f[c] \in B /\ g[c] \in B
    <2> TAKE c \in A
    <2> DEFINE v == c.vertex
               p == c.parent
               t == size - c.size
    <2>1. {v, p} \in G /\ v # p /\ valid(v, p, c.size) /\ {p, v} = {v, p}
      BY <1>2
    <2>2. valid(p, v, t)
      BY <1>1, <2>1
    <2> HIDE DEF v, p, t
    <2>3. <<{v, p}, v, c.size>> \in B /\ <<{p, v}, p, t>> \in B
      BY <1>4, <2>1, <2>2
    <2>4. f[c] = <<{v, p}, v, c.size>> /\ g[c] = <<{v, p}, p, t>>
      BY DEF v, p, t
    <2> QED  BY <2>1, <2>3, <2>4
  <1>8. ASSUME NEW a \in A, NEW c \in A
        PROVE  /\ f[a] = f[c] \/ g[a] = g[c] => a = c
               /\ f[a] # g[c]
    <2> DEFINE v == a.vertex
               p == a.parent
               u == c.vertex
               q == c.parent
               s == a.size
               t == c.size
    <2>1. /\ a = [vertex |-> v, parent |-> p, size |-> s] /\ c = [vertex |-> u, parent |-> q, size |-> t]
          /\ hang(v, p) /\ hang(u, q) /\ {v, p} \in G /\ v # p /\ {u, q} \in G /\ u # q
          /\ s \in Int /\ t \in Int
      <3> HIDE DEF A, f, g, hang
      <3>1. a = [vertex |-> v, parent |-> p, size |-> s] /\ hang(v, p) /\ {v, p} \in G /\ v # p
            /\ s \in 1 .. size - 1
        BY <1>2
      <3>2. c = [vertex |-> u, parent |-> q, size |-> t] /\ hang(u, q) /\ {u, q} \in G /\ u # q
            /\ t \in 1 .. size - 1
        BY <1>2
      <3> HIDE DEF v, p, u, q, s, t
      <3> QED  BY <3>1, <3>2
    <2>2. f[a] = <<{v, p}, v, s>> /\ g[a] = <<{v, p}, p, size - s>>
          /\ f[c] = <<{u, q}, u, t>> /\ g[c] = <<{u, q}, q, size - t>>
      OBVIOUS
    <2> HIDE DEF v, p, u, q, s, t, f, g
    <2>3. f[a] = f[c] => a = c
      <3> SUFFICES ASSUME {v, p} = {u, q}, v = u, s = t
                   PROVE  a = c
        BY <2>2
      <3>1. p = q
        BY <2>1
      <3> QED  BY <2>1, <3>1
    <2>4. g[a] = g[c] => a = c
      <3> SUFFICES ASSUME {v, p} = {u, q}, p = q, size - s = size - t
                   PROVE  a = c
        BY <2>2
      <3>1. v = u /\ s = t
        BY <2>1
      <3> QED  BY <2>1, <3>1
    <2>5. f[a] # g[c]
      <3> SUFFICES ASSUME {v, p} = {u, q}, v = q
                   PROVE  FALSE
        BY <2>2
      <3>1. u = p
        BY <2>1
      <3>2. ~hang(p, v)
        BY <1>1, <2>1
      <3> QED  BY <2>1, <3>1, <3>2
    <2> QED  BY <2>3, <2>4, <2>5
  <1>9. ASSUME NEW b \in B
        PROVE  \E a \in A : b = f[a] \/ b = g[a]
    <2>1. PICK v, p, s : {v, p} \in G /\ v # p /\ valid(v, p, s) /\ b = <<{v, p}, v, s>>
      BY <1>5
    <2>2. CASE hang(v, p)
      <3> DEFINE a == [vertex |-> v, parent |-> p, size |-> s]
      <3>1. a \in A
        BY <1>3, <2>1, <2>2
      <3>2. f[a] = b
        BY <2>1, <3>1
      <3> QED  BY <3>1, <3>2
    <2>3. CASE ~hang(v, p)
      <3> DEFINE t == size - s
                 a == [vertex |-> p, parent |-> v, size |-> t]
      <3>1. valid(p, v, t) /\ hang(p, v) /\ {p, v} = {v, p} /\ s \in Int
        <4>1. valid(p, v, t) /\ hang(p, v) /\ {p, v} = {v, p}
          BY <1>1, <2>1, <2>3
        <4> QED  BY <2>1, <4>1 DEF valid
      <3>2. a \in A
        <4> HIDE DEF t
        <4> QED  BY <1>3, <3>1
      <3>3. size - t = s
        BY <3>1
      <3>4. a.vertex = p /\ a.parent = v /\ a.size = t
        OBVIOUS
      <3> HIDE DEF a, t
      <3>5. g[a] = b
        BY <2>1, <3>1, <3>2, <3>3, <3>4
      <3> QED  BY <3>2, <3>5
    <2> QED  BY <2>2, <2>3
  <1>10. Cardinality(A) \in Nat /\ Cardinality(B) = 2 * Cardinality(A)
    <2> HIDE DEF A, B, f, g
    <2>1. \A a, c \in A : f[a] = f[c] \/ g[a] = g[c] => a = c
      BY <1>8
    <2>2. \A a, c \in A : f[a] # g[c]
      BY <1>8
    <2>3. \A b \in B : \E a \in A : b = f[a] \/ b = g[a]
      BY <1>9
    <2>4. TwoForEach(A, B, f, g)
      BY <1>7, <2>1, <2>2, <2>3 DEF TwoForEach
    <2> QED  BY <1>6, <2>4, TwiceAsMany
  <1>11. CutCount(G, S, size) = Cardinality(B) \div 2
    BY DEF CutCount
  <1> DEFINE n == Cardinality(A)
  <1>12. \A m \in Nat : (2 * m) \div 2 = m
    OBVIOUS
  <1> HIDE DEF A, B
  <1> QED  BY <1>10, <1>11, <1>12 DEF A

\* Scratch that another search left is where a search may start.
LEMMA ScratchIs ==
    ASSUME NEW T, NEW total, NEW opts
    PROVE  Scan(Scratch) \in Scratches(T, total, opts) /\ Scan(Scratch).cuts = {}
  <1> DEFINE none == <<>>
             s == [path |-> none, seen |-> {}, below |-> Scratch, no_valid_edges |-> {}, cuts |-> {}]
  <1>1. none \in Seq(Vertices) /\ Scratch \in [Vertices -> Int]
    BY DEF Scratch
  <1>2. Scan(Scratch) = s
    BY DEF Scan
  <1> HIDE DEF none
  <1>3. s \in Scratches(T, total, opts) /\ s.cuts = {}
    BY <1>1 DEF Scratches
  <1> HIDE DEF s
  <1> QED  BY <1>2, <1>3

\* The search of a tree finds the cuts below its root, and they are as many as
\* the cuts of the tree.
THEOREM TreeSearchIsRight ==
    ASSUME NEW S \in SUBSET Vertices, NEW T \in SUBSET Edges, IsTree(S, T), NEW rt \in S,
           NEW size \in Nat \ {0}, NEW total, total.pop = PopOf(S), total.size = size
    PROVE  /\ get_all_valid_edges_in_directed_tree(T, rt, Scratch, total, AnyCutOptions(size))
                 = CutsBelow(S, T, rt, total, AnyCutOptions(size), S \ {rt})
           /\ Cardinality(get_all_valid_edges_in_directed_tree(T, rt, Scratch, total, AnyCutOptions(size)))
                 = CutCount(T, S, size)
  <1> DEFINE opts == AnyCutOptions(size)
             found == get_all_valid_edges_in_directed_tree(T, rt, Scratch, total, opts)
  <1>1. total.pop = PopOf(S) /\ total.size = size
    OBVIOUS
  <1>2. Inside(S, T) = T /\ TreeOn(T, S)
    <2>1. \A e \in T : e \subseteq S
      BY DEF IsTree
    <2>2. Inside(S, T) = T
      BY <2>1 DEF Inside
    <2> QED  BY <2>1, <2>2 DEF TreeOn
  <1>3. SearchSetting(T, S, rt, total, opts)
    <2>1. PopOf(S) \in Int
      BY PopType
    <2>2. OptionsInBounds(size, opts)
      BY AnyCutOptionsAre
    <2> HIDE DEF opts
    <2> QED  BY <1>1, <1>2, <2>1, <2>2 DEF SearchSetting, TotalCovers
  <1> DEFINE s == Scan(Scratch)
  <1>4. s \in Scratches(T, total, opts) /\ s.cuts = {}
    BY ScratchIs
  <1> HIDE DEF opts, s
  <1>5. ScanTree(T, total, opts, rt, s).cuts
           = s.cuts \cup CutsBelow(S, Inside(S, T), rt, total, opts, S \ {rt})
    <2>1. s \in Scratches(T, total, opts)
      BY <1>4
    <2>2. SearchSetting(T, S, rt, total, opts)
      BY <1>3
    <2>3. ScanTree(T, total, opts, rt, s) \in Scans(T, total, opts)
      BY <2>1, <2>2, SearchFinds
    <2> QED  BY <2>1, <2>2, SearchFinds
  <1>6. found = CutsBelow(S, T, rt, total, opts, S \ {rt})
    BY <1>2, <1>4, <1>5 DEF get_all_valid_edges_in_directed_tree, s
  <1>7. CutCount(T, S, size) = Cardinality(CutsBelow(S, T, rt, total, opts, S \ {rt}))
    BY <1>1, CutsAreCounted DEF opts
  <1> HIDE DEF found
  <1>8. found = CutsBelow(S, T, rt, total, opts, S \ {rt}) /\ Cardinality(found) = CutCount(T, S, size)
    BY <1>6, <1>7
  <1> QED  BY <1>8 DEF found, opts

\* The regions and the sizes of a plan.
LEMMA RegionsAre ==
    ASSUME PlanInv, NEW r \in 0 .. num_regions - 1
    PROVE  /\ RegionOf(r) = Region(region_ids, r) /\ RegionOf(r) \in SUBSET Vertices
           /\ region_sizes[r] \in Nat \ {0}
           /\ num_regions > 1 => IsTree(RegionOf(r), Inside(RegionOf(r), forest_edges))
                                 /\ forest_edges \in SUBSET Edges
  <1>1. RegionOf(r) = Region(region_ids, r) /\ RegionOf(r) \in SUBSET Vertices
    BY DEF RegionOf, Region
  <1>2. region_sizes[r] \in Nat \ {0}
    <2>1. r \in Ids /\ r < num_regions
      BY LinkedPlanAssumption DEF PlanInv, LinkedInv, Ids
    <2> QED  BY <2>1 DEF PlanInv, SizesInv, AreSizes
  <1>3. ASSUME num_regions > 1
        PROVE  IsTree(RegionOf(r), Inside(RegionOf(r), forest_edges)) /\ forest_edges \in SUBSET Edges
    <2> DEFINE S == RegionOf(r)
               T == Inside(S, forest_edges)
    <2>1. T \in HierarchicalTrees(county, S) /\ forest_edges \in SUBSET Edges
      BY <1>1, <1>3 DEF PlanInv, LinkedInv, IsLinked
    <2>2. S # {}
      BY <2>1, NoTreeOnNothing
    <2> HIDE DEF S, T
    <2>3. S \in SUBSET Vertices
      BY <1>1 DEF S
    <2>4. IsTree(S, T)
      BY <2>1, <2>2, <2>3, HierarchicalTreesAre
    <2> QED  BY <2>1, <2>4 DEF S, T
  <1> QED  BY <1>1, <1>2, <1>3

\* Whatever vertex a region is searched from, and whatever an earlier search left
\* in the scratch, every valid cut of the region's tree is found once.
LEMMA PlanIsSearched == PlanInv => SearchFindsEveryCut
  <1> SUFFICES ASSUME PlanInv, NEW r \in 0 .. num_regions - 1, num_regions > 1, NEW rt \in RegionOf(r)
               PROVE  LET S == RegionOf(r)
                          T == Inside(S, forest_edges)
                      IN  Cardinality(get_all_valid_edges_in_directed_tree(
                              T, rt, Scratch, [pop |-> PopOf(S), size |-> region_sizes[r]],
                              AnyCutOptions(region_sizes[r]))) = CutCount(T, S, region_sizes[r])
    BY DEF SearchFindsEveryCut
  <1> DEFINE S == RegionOf(r)
             T == Inside(S, forest_edges)
             size == region_sizes[r]
             total == [pop |-> PopOf(S), size |-> size]
  <1>1. S \in SUBSET Vertices /\ T \in SUBSET Edges /\ IsTree(S, T) /\ size \in Nat \ {0} /\ rt \in S
    <2>1. S \in SUBSET Vertices /\ IsTree(S, T) /\ size \in Nat \ {0} /\ rt \in S /\ forest_edges \in SUBSET Edges
      BY RegionsAre
    <2>2. T \in SUBSET forest_edges
      BY DEF Inside
    <2> QED  BY <2>1, <2>2
  <1>2. total.pop = PopOf(S) /\ total.size = size
    OBVIOUS
  <1> HIDE DEF S, T, size, total
  <1>3. Cardinality(get_all_valid_edges_in_directed_tree(T, rt, Scratch, total, AnyCutOptions(size)))
           = CutCount(T, S, size)
    BY <1>1, <1>2, TreeSearchIsRight
  <1> QED  BY <1>3 DEF S, T, size, total

\* The search of a region's tree finds every cut, in every plan a run reaches.
THEOREM SearchesFindEveryCut == Spec => []SearchFindsEveryCut
  <1> QED  BY PlanStaysLinked, PlanIsSearched, PTL

-----------------------------------------------------------------------------
(* What is kept of a search. *)

\* The cuts below the vertices other than the root are those of all edges.
LEMMA CutsBelowAre ==
    ASSUME NEW S, NEW G, IsTree(S, G), NEW rt \in S, NEW total, NEW opts, NEW cut
    PROVE  cut \in CutsBelow(S, G, rt, total, opts, S \ {rt})
              <=> \E x, y : Hangs(S, G, rt, x, y) /\ cut \in EdgeCuts(S, G, x, y, total, opts)
  <1> DEFINE H == {h \in (S \ {rt}) \X S : Hangs(S, G, rt, h[1], h[2])}
  <1>1. ASSUME NEW x, NEW y, Hangs(S, G, rt, x, y)
        PROVE  <<x, y>> \in H
    <2>1. {x, y} \in G /\ x # y
      BY <1>1 DEF Hangs
    <2>2. x # rt /\ x \in S /\ y \in S
      BY <1>1, <2>1, HangsOneWay
    <2> QED  BY <1>1, <2>2
  <1>2. ASSUME NEW h \in H
        PROVE  Hangs(S, G, rt, h[1], h[2])
    OBVIOUS
  <1>3. CutsBelow(S, G, rt, total, opts, S \ {rt})
           = UNION {EdgeCuts(S, G, h[1], h[2], total, opts) : h \in H}
    BY DEF CutsBelow
  <1> HIDE DEF H
  <1>4. ASSUME cut \in CutsBelow(S, G, rt, total, opts, S \ {rt})
        PROVE  \E x, y : Hangs(S, G, rt, x, y) /\ cut \in EdgeCuts(S, G, x, y, total, opts)
    <2>1. PICK h \in H : cut \in EdgeCuts(S, G, h[1], h[2], total, opts)
      BY <1>3, <1>4
    <2> QED  BY <1>2, <2>1
  <1>5. ASSUME NEW x, NEW y, Hangs(S, G, rt, x, y), cut \in EdgeCuts(S, G, x, y, total, opts)
        PROVE  cut \in CutsBelow(S, G, rt, total, opts, S \ {rt})
    <2> DEFINE h == <<x, y>>
    <2>1. h \in H /\ h[1] = x /\ h[2] = y
      BY <1>1, <1>5
    <2> HIDE DEF h
    <2>2. cut \in EdgeCuts(S, G, h[1], h[2], total, opts)
      BY <1>5, <2>1
    <2> QED  BY <1>3, <2>1, <2>2
  <1> QED  BY <1>4, <1>5

\* An edge has the same cuts in two trees with the same below it.
LEMMA SameCuts ==
    ASSUME NEW S, NEW G, NEW A, NEW P, NEW x, NEW y, SideOf(S, G, x, y) = SideOf(A, P, x, y),
           NEW total, NEW opts
    PROVE  EdgeCuts(S, G, x, y, total, opts) = EdgeCuts(A, P, x, y, total, opts)
  BY DEF EdgeCuts, CutsAt

\* The cuts of two trees joined by an edge are those of either, seen from the
\* joint, and those at the joint.
LEMMA JoinedCuts ==
    ASSUME NEW S, NEW G, NEW A, NEW P, NEW B, NEW Q, NEW a, NEW b, JoinedBy(S, G, A, P, B, Q, a, b),
           NEW total, NEW opts
    PROVE  CutsBelow(S, G, a, total, opts, S \ {a})
              = CutsBelow(A, P, a, total, opts, A \ {a}) \cup CutsBelow(B, Q, b, total, opts, B \ {b})
                   \cup EdgeCuts(S, G, b, a, total, opts)
  <1> DEFINE all == CutsBelow(S, G, a, total, opts, S \ {a})
             first == CutsBelow(A, P, a, total, opts, A \ {a})
             second == CutsBelow(B, Q, b, total, opts, B \ {b})
             third == EdgeCuts(S, G, b, a, total, opts)
  <1>1. IsTree(A, P) /\ IsTree(B, Q) /\ IsTree(S, G) /\ a \in A /\ b \in B /\ a \in S
        /\ JoinedBy(S, G, B, Q, A, P, b, a)
    <2>1. IsTree(S, G) /\ JoinedBy(S, G, B, Q, A, P, b, a)
      BY JoinedIsTree, JoinedEitherWay
    <2>2. IsTree(A, P) /\ IsTree(B, Q) /\ a \in A /\ b \in B /\ a \in S
      BY DEF JoinedBy
    <2> QED  BY <2>1, <2>2
  <1>2. ASSUME NEW x, NEW y, Hangs(A, P, a, x, y)
        PROVE  Hangs(S, G, a, x, y)
               /\ EdgeCuts(S, G, x, y, total, opts) = EdgeCuts(A, P, x, y, total, opts)
    BY <1>2, JoinedSides, SameCuts
  <1>3. ASSUME NEW x, NEW y, Hangs(B, Q, b, x, y)
        PROVE  Hangs(S, G, a, x, y)
               /\ EdgeCuts(S, G, x, y, total, opts) = EdgeCuts(B, Q, x, y, total, opts)
    <2>1. SideOf(S, G, x, y) = SideOf(B, Q, x, y) /\ \A w \in A : Hangs(S, G, w, x, y)
      BY <1>1, <1>3, JoinedSides
    <2> QED  BY <1>1, <2>1, SameCuts
  <1>4. Hangs(S, G, a, b, a)
    BY JointSide
  <1>5. ASSUME NEW cut \in all
        PROVE  cut \in first \cup second \cup third
    <2>1. PICK x, y : Hangs(S, G, a, x, y) /\ cut \in EdgeCuts(S, G, x, y, total, opts)
      BY <1>1, <1>5, CutsBelowAre
    <2>2. CASE Hangs(A, P, a, x, y)
      <3>1. cut \in EdgeCuts(A, P, x, y, total, opts)
        BY <1>2, <2>1, <2>2
      <3>2. cut \in first
        BY <1>1, <2>2, <3>1, CutsBelowAre
      <3> QED  BY <3>2
    <2>3. CASE Hangs(B, Q, b, x, y)
      <3>1. cut \in EdgeCuts(B, Q, x, y, total, opts)
        BY <1>3, <2>1, <2>3
      <3>2. cut \in second
        BY <1>1, <2>3, <3>1, CutsBelowAre
      <3> QED  BY <3>2
    <2>4. CASE x = b /\ y = a
      BY <2>1, <2>4
    <2>5. Hangs(A, P, a, x, y) \/ Hangs(B, Q, b, x, y) \/ (x = b /\ y = a)
      BY <2>1, JoinedHangs
    <2> QED  BY <2>2, <2>3, <2>4, <2>5
  <1>6. ASSUME NEW cut \in first
        PROVE  cut \in all
    <2>1. PICK x, y : Hangs(A, P, a, x, y) /\ cut \in EdgeCuts(A, P, x, y, total, opts)
      BY <1>1, <1>6, CutsBelowAre
    <2>2. Hangs(S, G, a, x, y) /\ cut \in EdgeCuts(S, G, x, y, total, opts)
      BY <1>2, <2>1
    <2> QED  BY <1>1, <2>2, CutsBelowAre
  <1>7. ASSUME NEW cut \in second
        PROVE  cut \in all
    <2>1. PICK x, y : Hangs(B, Q, b, x, y) /\ cut \in EdgeCuts(B, Q, x, y, total, opts)
      BY <1>1, <1>7, CutsBelowAre
    <2>2. Hangs(S, G, a, x, y) /\ cut \in EdgeCuts(S, G, x, y, total, opts)
      BY <1>3, <2>1
    <2> QED  BY <1>1, <2>2, CutsBelowAre
  <1>8. ASSUME NEW cut \in third
        PROVE  cut \in all
    BY <1>1, <1>4, <1>8, CutsBelowAre
  <1> HIDE DEF all, first, second, third
  <1>9. all = first \cup second \cup third
    BY <1>5, <1>6, <1>7, <1>8
  <1> QED  BY <1>9 DEF all, first, second, third

\* The number of cuts of the trees under two regions, joined at an edge.
JointCount(ids, sizes, F, e) ==
    LET S == UNION {Region(ids, r) : r \in RegionsOf(ids, e)}
        size == MapThenSumSet(LAMBDA r : sizes[r], RegionsOf(ids, e))
    IN  CutCount(Inside(S, F) \cup {e}, S, size)

\* An edge between the regions r and s, which are S together and have size seats.
JoinsAt(ids, sizes, e, a, b, r, s, S, size) ==
    /\ e = {a, b} /\ ids[a] = r /\ ids[b] = s /\ r # s /\ S = Region(ids, r) \cup Region(ids, s)
    /\ sizes[r] \in Int /\ sizes[s] \in Int /\ size = sizes[r] + sizes[s]

\* What is joined at an edge between two regions.
LEMMA JointCountIs ==
    ASSUME NEW ids, NEW sizes, NEW F, NEW e, NEW a, NEW b, NEW r, NEW s, NEW S,
           NEW size, JoinsAt(ids, sizes, e, a, b, r, s, S, size)
    PROVE  JointCount(ids, sizes, F, e) = CutCount(Inside(S, F) \cup {e}, S, size)
  <1>0. sizes[r] \in Int /\ sizes[s] \in Int /\ size = sizes[r] + sizes[s]
    BY DEF JoinsAt
  <1>1. RegionsOf(ids, e) = {r, s} /\ r # s
    BY DEF RegionsOf, JoinsAt
  <1>2. UNION {Region(ids, q) : q \in {r, s}} = S
    BY DEF JoinsAt
  <1>3. Total(sizes, {r, s}) = sizes[r] + sizes[s]
    BY <1>0, <1>1, TotalOfTwo
  <1>4. MapThenSumSet(LAMBDA q : sizes[q], RegionsOf(ids, e)) = size
    BY <1>0, <1>1, <1>3 DEF Total
  <1> QED  BY <1>1, <1>2, <1>4 DEF JointCount

\* Two regions and their trees in F; v and u are the ends of an edge between them.
TwoTrees(ids, F, A, B, v, u) ==
    /\ A \in SUBSET Vertices /\ B \in SUBSET Vertices /\ A \cap B = {}
    /\ TreeOn(F, A) /\ TreeOn(F, B) /\ v \in A /\ u \in B /\ {v, u} \in Edges

\* The regions of a linked plan that an edge joins.
LEMMA RegionsJoined ==
    ASSUME NEW ids, NEW n, NEW F, NEW L, IsLinked(ids, n, F, L),
           NEW v, NEW u, {v, u} \in Edges, ids[v] # ids[u]
    PROVE  /\ TwoTrees(ids, F, Region(ids, ids[v]), Region(ids, ids[u]), v, u)
           /\ v \in Vertices /\ u \in Vertices /\ ids[v] \in 0 .. n - 1 /\ ids[u] \in 0 .. n - 1
  <1>1. /\ ids \in [Vertices -> 0 .. n - 1]
        /\ \A r \in 0 .. n - 1 : Inside(Region(ids, r), F) \in HierarchicalTrees(county, Region(ids, r))
        /\ F \in SUBSET Edges /\ \A e \in F : ~Crosses(ids, e)
    BY DEF IsLinked
  <1>2. v \in Vertices /\ u \in Vertices /\ ids[v] \in 0 .. n - 1 /\ ids[u] \in 0 .. n - 1
    BY <1>1, MapAssumption
  <1>3. ASSUME NEW r \in 0 .. n - 1
        PROVE  TreeOn(F, Region(ids, r))
    <2> DEFINE S == Region(ids, r)
    <2>1. S \in SUBSET Vertices
      BY DEF Region
    <2>2. Inside(S, F) \in HierarchicalTrees(county, S)
      BY <1>1
    <2>3. \A e \in F : e \cap S # {} => e \subseteq S
      <3> TAKE e \in F
      <3>1. PICK a, b \in Vertices : e = {a, b}
        BY <1>1, GraphFacts
      <3>2. ids[a] = ids[b]
        BY <1>1, <3>1, CrossesIs
      <3> QED  BY <3>1, <3>2 DEF Region
    <2> HIDE DEF S
    <2>4. S # {}
      BY <2>2, NoTreeOnNothing
    <2>5. IsTree(S, Inside(S, F))
      BY <2>1, <2>2, <2>4, HierarchicalTreesAre
    <2>6. TreeOn(F, S)
      BY <1>1, <2>1, <2>3, <2>5 DEF TreeOn
    <2> QED  BY <2>6 DEF S
  <1>4. v \in Region(ids, ids[v]) /\ u \in Region(ids, ids[u])
        /\ Region(ids, ids[v]) \in SUBSET Vertices /\ Region(ids, ids[u]) \in SUBSET Vertices
        /\ Region(ids, ids[v]) \cap Region(ids, ids[u]) = {}
    BY <1>2 DEF Region
  <1> QED  BY <1>2, <1>3, <1>4 DEF TwoTrees

\* The two regions as one, and their trees with the edge.
TwoAsOne(F, A, B, v, u, S, G) == S = A \cup B /\ G = Inside(S, F) \cup {{v, u}}

\* Their trees are joined by the edge.
LEMMA TwoTreesJoin ==
    ASSUME NEW ids, NEW F, NEW A, NEW B, NEW v, NEW u, TwoTrees(ids, F, A, B, v, u),
           NEW S, NEW G, TwoAsOne(F, A, B, v, u, S, G)
    PROVE  JoinedBy(S, G, A, Inside(A, F), B, Inside(B, F), v, u)
  <1>1. /\ A \in SUBSET Vertices /\ B \in SUBSET Vertices /\ A \cap B = {} /\ v \in A /\ u \in B
        /\ IsTree(A, Inside(A, F)) /\ IsTree(B, Inside(B, F)) /\ F \in SUBSET Edges
        /\ (\A e \in F : e \cap A # {} => e \subseteq A) /\ (\A e \in F : e \cap B # {} => e \subseteq B)
    BY DEF TwoTrees, TreeOn
  <1>2. \A e \in F : e # {}
    BY <1>1, GraphFacts
  <1>3. Inside(S, F) = Inside(A, F) \cup Inside(B, F)
    BY <1>1, <1>2 DEF Inside, TwoAsOne
  <1> QED  BY <1>1, <1>3 DEF JoinedBy, TwoAsOne

\* The search of two joined trees finds the cuts of both and those at the joint:
\* all cuts of the joined tree.
LEMMA JoinedSearchFinds ==
    ASSUME NEW ids, NEW F, NEW A, NEW B, NEW v, NEW u, TwoTrees(ids, F, A, B, v, u),
           NEW S, NEW G, TwoAsOne(F, A, B, v, u, S, G), NEW size \in Nat \ {0}
    PROVE  Cardinality(get_valid_pop_edges_in_joined_packed_tree(
               F, v, PopOf(A), u, PopOf(B), size, Scratch, AnyCutOptions(size))) = CutCount(G, S, size)
  <1> DEFINE opts == AnyCutOptions(size)
             total == [pop |-> PopOf(A) + PopOf(B), size |-> size]
             P == Inside(A, F)
             Q == Inside(B, F)
             s0 == Scan(Scratch)
             s1 == ScanTree(F, total, opts, v, s0)
             s2 == ScanTree(F, total, opts, u, s1)
             joint == {[vertex |-> u, parent |-> v, size |-> s] :
                          s \in for_each_valid_population_split_from_edge(size, PopOf(B), PopOf(A), opts)}
  <1>1. /\ A \in SUBSET Vertices /\ B \in SUBSET Vertices /\ A \cap B = {} /\ v \in A /\ u \in B
        /\ TreeOn(F, A) /\ TreeOn(F, B)
    BY DEF TwoTrees
  <1>2. JoinedBy(S, G, A, P, B, Q, v, u)
    BY TwoTreesJoin
  <1>3. PopOf(S) = PopOf(A) + PopOf(B) /\ PopOf(A) \in Nat /\ PopOf(B) \in Nat
    <2>1. S = A \cup B
      BY DEF TwoAsOne
    <2> QED  BY <1>1, <2>1, PopOfTwo, PopIsNat
  <1>4. total.pop = PopOf(S) /\ total.size = size
    BY <1>3
  <1>5. OptionsInBounds(size, opts)
    BY AnyCutOptionsAre
  <1>6. SearchSetting(F, A, v, total, opts) /\ SearchSetting(F, B, u, total, opts)
    <2> HIDE DEF opts, total
    <2>1. total.pop \in Int /\ total.pop >= PopOf(A) /\ total.pop >= PopOf(B)
      BY <1>3, <1>4
    <2> QED  BY <1>1, <1>4, <1>5, <2>1 DEF SearchSetting, TotalCovers
  <1>7. s0 \in Scratches(F, total, opts) /\ s0.cuts = {}
    BY ScratchIs
  <1> HIDE DEF opts, total, s0
  <1>8. s1 \in Scans(F, total, opts) /\ s1.cuts = s0.cuts \cup CutsBelow(A, P, v, total, opts, A \ {v})
    <2>1. s0 \in Scratches(F, total, opts)
      BY <1>7
    <2>2. SearchSetting(F, A, v, total, opts)
      BY <1>6
    <2> QED  BY <2>1, <2>2, SearchFinds
  <1> HIDE DEF s1
  <1>9. s1 \in Scratches(F, total, opts)
    <2>1. Walks(F) \subseteq Seq(Vertices)
      BY DEF Walks
    <2>2. s1 \in Scans(F, total, opts)
      BY <1>8
    <2> QED  BY <2>1, <2>2 DEF Scans, Scratches
  <1>10. s2.cuts = s1.cuts \cup CutsBelow(B, Q, u, total, opts, B \ {u})
    <2>1. SearchSetting(F, B, u, total, opts)
      BY <1>6
    <2> QED  BY <1>9, <2>1, SearchFinds
  <1>11. joint = EdgeCuts(S, G, u, v, total, opts)
    <2>1. SideOf(S, G, u, v) = B
      BY <1>2, JointSide
    <2>2. total.pop - PopOf(B) = PopOf(A)
      BY <1>3, <1>4
    <2>3. CutsAt(S, G, u, v, total, opts)
             = for_each_valid_population_split_from_edge(size, PopOf(B), PopOf(A), opts)
      BY <1>4, <2>1, <2>2 DEF CutsAt
    <2> QED  BY <2>3 DEF EdgeCuts, CutRecords
  <1>12. get_valid_pop_edges_in_joined_packed_tree(F, v, PopOf(A), u, PopOf(B), size, Scratch, opts)
            = s2.cuts \cup joint
    BY DEF get_valid_pop_edges_in_joined_packed_tree, total, s0, s1
  <1> HIDE DEF s2, joint, P, Q
  <1>13. CutsBelow(S, G, v, total, opts, S \ {v})
            = CutsBelow(A, P, v, total, opts, A \ {v}) \cup CutsBelow(B, Q, u, total, opts, B \ {u})
                 \cup EdgeCuts(S, G, u, v, total, opts)
    BY <1>2, JoinedCuts
  <1>14. get_valid_pop_edges_in_joined_packed_tree(F, v, PopOf(A), u, PopOf(B), size, Scratch, opts)
            = CutsBelow(S, G, v, total, opts, S \ {v})
    <2> DEFINE first == CutsBelow(A, P, v, total, opts, A \ {v})
               second == CutsBelow(B, Q, u, total, opts, B \ {u})
               third == EdgeCuts(S, G, u, v, total, opts)
               c0 == s0.cuts
               c1 == s1.cuts
               c2 == s2.cuts
    <2>1. c0 = {} /\ c1 = c0 \cup first /\ c2 = c1 \cup second /\ joint = third
          /\ CutsBelow(S, G, v, total, opts, S \ {v}) = first \cup second \cup third
      BY <1>7, <1>8, <1>10, <1>11, <1>13
    <2> HIDE DEF first, second, third, c0, c1
    <2>2. CutsBelow(S, G, v, total, opts, S \ {v}) = c2 \cup joint
      BY <2>1
    <2> QED  BY <1>12, <2>2
  <1>15. CutCount(G, S, size) = Cardinality(CutsBelow(S, G, v, total, opts, S \ {v}))
    <2>1. S \in SUBSET Vertices /\ v \in S
      BY <1>1 DEF TwoAsOne
    <2>2. IsTree(S, G)
      BY <1>2, JoinedIsTree
    <2> QED  BY <1>4, <2>1, <2>2, CutsAreCounted DEF opts
  <1> QED  BY <1>14, <1>15 DEF opts

\* The denominator of the splitting probability of an edge between two regions.
LEMMA ProbabilityIsOfTheJoinedTree ==
    ASSUME NEW ids, NEW n, NEW F, NEW L, IsLinked(ids, n, F, L),
           NEW sizes, \A r \in 0 .. n - 1 : sizes[r] \in Nat \ {0}, NEW e \in Edges, Crosses(ids, e)
    PROVE  get_regions_log_splitting_prob(ids, sizes, F, e) = JointCount(ids, sizes, F, e)
  <1> DEFINE v == CHOOSE w \in e : TRUE
             u == CHOOSE w \in e : w # v
  <1>1. v \in e /\ u \in e /\ u # v /\ e = {v, u}
    <2>1. PICK a, b : a # b /\ e = {a, b}
      BY GraphFacts
    <2>2. v \in e
      BY <2>1
    <2> HIDE DEF v
    <2>3. \E w \in e : w # v
      BY <2>1
    <2>4. u \in e /\ u # v
      BY <2>3
    <2> HIDE DEF u
    <2> QED  BY <2>1, <2>2, <2>4
  <1> HIDE DEF v, u
  <1>2. ids[v] # ids[u] /\ {v, u} \in Edges
    BY <1>1, CrossesIs
  <1> DEFINE r == ids[v]
             q == ids[u]
             A == Region(ids, r)
             B == Region(ids, q)
             S == A \cup B
             G == Inside(S, F) \cup {{v, u}}
             size == sizes[r] + sizes[q]
  <1>3. TwoTrees(ids, F, A, B, v, u) /\ r \in 0 .. n - 1 /\ q \in 0 .. n - 1
    BY <1>2, RegionsJoined
  <1>4. sizes[r] \in Nat \ {0} /\ sizes[q] \in Nat \ {0}
    BY <1>3
  <1>5. size \in Nat \ {0} /\ sizes[r] \in Int /\ sizes[q] \in Int
    <2> DEFINE i == sizes[r]
               j == sizes[q]
    <2> HIDE DEF i, j
    <2>1. i \in Nat \ {0} /\ j \in Nat \ {0}
      BY <1>4 DEF i, j
    <2>2. i + j \in Nat \ {0} /\ i \in Int /\ j \in Int
      BY <2>1
    <2> QED  BY <2>2 DEF i, j
  <1>6. get_regions_log_splitting_prob(ids, sizes, F, e)
           = Cardinality(get_valid_pop_edges_in_joined_packed_tree(
                 F, v, PopOf(A), u, PopOf(B), size, Scratch, AnyCutOptions(size)))
    BY DEF get_regions_log_splitting_prob, v, u
  <1>7. TwoAsOne(F, A, B, v, u, S, G) /\ JoinsAt(ids, sizes, e, v, u, r, q, S, size) /\ G = Inside(S, F) \cup {e}
    BY <1>1, <1>2, <1>5 DEF TwoAsOne, JoinsAt
  <1> HIDE DEF r, q, A, B, S, G, size
  <1>8. JointCount(ids, sizes, F, e) = CutCount(Inside(S, F) \cup {e}, S, size)
    BY <1>7, JointCountIs
  <1>9. Cardinality(get_valid_pop_edges_in_joined_packed_tree(
            F, v, PopOf(A), u, PopOf(B), size, Scratch, AnyCutOptions(size))) = CutCount(G, S, size)
    <2>1. TwoAsOne(F, A, B, v, u, S, G)
      BY <1>7
    <2> QED  BY <1>3, <1>5, <2>1, JoinedSearchFinds
  <1> QED  BY <1>6, <1>7, <1>8, <1>9

\* A plan, and the plan that a cut of the tree T on its regions r1 and r2 makes of it.
CutAnew(ids, sizes, F, S, T, x, y, r1, r2, s, size, ids2, sizes2, F2) ==
    /\ ids \in [Vertices -> Ids] /\ sizes \in [Ids -> Nat] /\ F \in SUBSET Edges
    /\ r1 \in Ids /\ r2 \in Ids /\ r1 # r2 /\ S = {v \in Vertices : ids[v] \in {r1, r2}}
    /\ T \in SUBSET Edges /\ IsTree(S, T) /\ {x, y} \in T /\ x # y
    /\ size \in Nat /\ s \in 1 .. size - 1
    /\ ids2 = CutIds(ids, S, T, x, y, r1, r2)
    /\ sizes2 = [sizes EXCEPT ![r1] = s, ![r2] = size - s]
    /\ F2 = Apart(F, S) \cup (T \ {{x, y}})

\* Who is where after the cut.
LEMMA CutAnewIs ==
    ASSUME NEW ids, NEW sizes, NEW F, NEW S, NEW T, NEW x, NEW y, NEW r1, NEW r2, NEW s, NEW size,
           NEW ids2, NEW sizes2, NEW F2,
           CutAnew(ids, sizes, F, S, T, x, y, r1, r2, s, size, ids2, sizes2, F2)
    PROVE  /\ \A v \in Vertices \ S : ids2[v] = ids[v] /\ ids[v] \notin {r1, r2}
           /\ \A v \in S : ids2[v] \in {r1, r2} /\ ids[v] \in {r1, r2}
           /\ ids2[x] = r1 /\ ids2[y] = r2 /\ S = Region(ids2, r1) \cup Region(ids2, r2)
           /\ sizes2[r1] = s /\ sizes2[r2] = size - s /\ \A r \in Ids \ {r1, r2} : sizes2[r] = sizes[r]
           /\ x \in S /\ y \in S /\ S \in SUBSET Vertices
  <1> DEFINE A == SideOf(S, T, x, y)
             B == SideOf(S, T, y, x)
  <1>1. /\ S = {v \in Vertices : ids[v] \in {r1, r2}} /\ r1 # r2 /\ r1 \in Ids /\ r2 \in Ids
        /\ sizes \in [Ids -> Nat] /\ sizes2 = [sizes EXCEPT ![r1] = s, ![r2] = size - s]
        /\ IsTree(S, T) /\ {x, y} \in T /\ x # y
        /\ ids2 = [v \in Vertices |-> IF v \in A THEN r1 ELSE IF v \in S THEN r2 ELSE ids[v]]
    BY DEF CutAnew, CutIds
  <1>2. CutInTwo(S, T, x, y, A, B)
    BY <1>1, TreeCut
  <1>3. A \in SUBSET S /\ x \in A /\ y \in S /\ y \notin A
    <2> HIDE DEF A, B
    <2> QED  BY <1>2 DEF CutInTwo, Sides
  <1> HIDE DEF A
  <1>4. sizes2[r1] = s /\ sizes2[r2] = size - s /\ \A r \in Ids \ {r1, r2} : sizes2[r] = sizes[r]
    BY <1>1
  <1>5. \A v \in Vertices \ S : ids2[v] = ids[v] /\ ids[v] \notin {r1, r2}
    BY <1>1, <1>3
  <1>6. \A v \in S : ids2[v] \in {r1, r2} /\ ids[v] \in {r1, r2}
    BY <1>1, <1>3
  <1>7. ids2[x] = r1 /\ ids2[y] = r2
    BY <1>1, <1>3
  <1>8. S = Region(ids2, r1) \cup Region(ids2, r2)
    <2>1. S \in SUBSET Vertices
      BY <1>1
    <2> QED  BY <1>5, <1>6, <2>1 DEF Region
  <1> QED  BY <1>1, <1>3, <1>4, <1>5, <1>6, <1>7, <1>8

\* The joint of two regions that a cut leaves alone is what it was.
LEMMA KeptCountStays ==
    ASSUME NEW ids, NEW sizes, NEW F, NEW S, NEW T, NEW x, NEW y, NEW r1, NEW r2, NEW s, NEW size,
           NEW ids2, NEW sizes2, NEW F2,
           CutAnew(ids, sizes, F, S, T, x, y, r1, r2, s, size, ids2, sizes2, F2),
           NEW e \in Edges, Crosses(ids, e), RegionsOf(ids2, e) \cap {r1, r2} = {}
    PROVE  JointCount(ids2, sizes2, F2, e) = JointCount(ids, sizes, F, e)
  <1>1. PICK a, b \in Vertices : a # b /\ e = {a, b}
    BY GraphFacts
  <1>2. /\ \A v \in Vertices \ S : ids2[v] = ids[v] /\ ids[v] \notin {r1, r2}
        /\ \A v \in S : ids2[v] \in {r1, r2} /\ ids[v] \in {r1, r2}
        /\ \A r \in Ids \ {r1, r2} : sizes2[r] = sizes[r]
        /\ S \in SUBSET Vertices
    BY CutAnewIs
  <1>3. /\ ids \in [Vertices -> Ids] /\ sizes \in [Ids -> Nat] /\ F \in SUBSET Edges
        /\ IsTree(S, T) /\ F2 = Apart(F, S) \cup (T \ {{x, y}})
    BY DEF CutAnew
  <1>4. ids[a] # ids[b]
    BY <1>1, CrossesIs
  <1>5. ids2[a] \notin {r1, r2} /\ ids2[b] \notin {r1, r2}
    BY <1>1 DEF RegionsOf
  <1> DEFINE r == ids[a]
             q == ids[b]
             Z == Region(ids, r) \cup Region(ids, q)
             n == sizes[r] + sizes[q]
  <1>6. r \in Ids \ {r1, r2} /\ q \in Ids \ {r1, r2} /\ r # q /\ ids2[a] = r /\ ids2[b] = q
    BY <1>1, <1>2, <1>3, <1>4, <1>5
  <1> HIDE DEF r, q
  <1>7. Region(ids2, r) = Region(ids, r) /\ Region(ids2, q) = Region(ids, q) /\ Z \cap S = {} /\ Z \in SUBSET Vertices
    BY <1>2, <1>6 DEF Region
  <1>8. Inside(Z, F2) = Inside(Z, F)
    <2>1. \A f \in T : f \subseteq S /\ f # {}
      BY <1>3 DEF IsTree, Links
    <2> HIDE DEF Z
    <2> QED  BY <1>3, <1>7, <2>1 DEF Inside, Apart
  <1>9. sizes2[r] = sizes[r] /\ sizes2[q] = sizes[q] /\ sizes[r] \in Int /\ sizes[q] \in Int
    BY <1>2, <1>3, <1>6
  <1>10. JoinsAt(ids, sizes, e, a, b, r, q, Z, n)
    BY <1>1, <1>6, <1>9 DEF JoinsAt, r, q
  <1>11. JoinsAt(ids2, sizes2, e, a, b, r, q, Z, n)
    <2>1. Z = Region(ids2, r) \cup Region(ids2, q) /\ n = sizes2[r] + sizes2[q]
      BY <1>7, <1>9
    <2> HIDE DEF Z, n
    <2> QED  BY <1>1, <1>6, <1>9, <2>1 DEF JoinsAt
  <1> HIDE DEF Z, n
  <1>12. JointCount(ids, sizes, F, e) = CutCount(Inside(Z, F) \cup {e}, Z, n)
    BY <1>10, JointCountIs
  <1>13. JointCount(ids2, sizes2, F2, e) = CutCount(Inside(Z, F2) \cup {e}, Z, n)
    BY <1>11, JointCountIs
  <1> QED  BY <1>8, <1>12, <1>13

\* The joint at the edge that was cut is the tree that was cut.
LEMMA NewCountIs ==
    ASSUME NEW ids, NEW sizes, NEW F, NEW S, NEW T, NEW x, NEW y, NEW r1, NEW r2, NEW s, NEW size,
           NEW ids2, NEW sizes2, NEW F2,
           CutAnew(ids, sizes, F, S, T, x, y, r1, r2, s, size, ids2, sizes2, F2)
    PROVE  JointCount(ids2, sizes2, F2, {x, y}) = CutCount(T, S, size)
  <1>1. /\ ids2[x] = r1 /\ ids2[y] = r2 /\ S = Region(ids2, r1) \cup Region(ids2, r2)
        /\ sizes2[r1] = s /\ sizes2[r2] = size - s /\ S \in SUBSET Vertices
    BY CutAnewIs
  <1>2. /\ F \in SUBSET Edges /\ r1 # r2 /\ IsTree(S, T) /\ {x, y} \in T
        /\ size \in Nat /\ s \in 1 .. size - 1 /\ F2 = Apart(F, S) \cup (T \ {{x, y}})
    BY DEF CutAnew
  <1> DEFINE e == {x, y}
  <1>3. sizes2[r1] \in Int /\ sizes2[r2] \in Int /\ size = sizes2[r1] + sizes2[r2]
    BY <1>1, <1>2
  <1>4. JoinsAt(ids2, sizes2, e, x, y, r1, r2, S, size)
    BY <1>1, <1>2, <1>3 DEF JoinsAt
  <1>5. Inside(S, F2) \cup {e} = T
    <2>1. \A f \in T : f \subseteq S
      BY <1>2 DEF IsTree
    <2>2. \A f \in Apart(F, S) : ~(f \subseteq S)
      BY <1>2, GraphFacts DEF Apart
    <2> HIDE DEF e
    <2>3. e \in T /\ F2 = Apart(F, S) \cup (T \ {e})
      BY <1>2 DEF e
    <2> QED  BY <2>1, <2>2, <2>3 DEF Inside
  <1> HIDE DEF e
  <1>6. JointCount(ids2, sizes2, F2, e) = CutCount(Inside(S, F2) \cup {e}, S, size)
    BY <1>4, JointCountIs
  <1> QED  BY <1>5, <1>6 DEF e

\* What is kept for the linking edges of a plan is right.
CountsAreCurrent(ids, sizes, F, links) ==
    \A e \in DOMAIN links : links[e] # 0 => links[e] = JointCount(ids, sizes, F, e)

\* That is the property.
LEMMA CachedNow ==
    CachedCutsAreCurrent <=> CountsAreCurrent(region_ids, region_sizes, forest_edges, linking_edges)
  <1>1. \A e : JoinedCutCount(e) = JointCount(region_ids, region_sizes, forest_edges, e)
    BY DEF JoinedCutCount, JointCount, RegionOf
  <1> QED  BY <1>1 DEF CachedCutsAreCurrent, CountsAreCurrent

\* In this state and in the next.
LEMMA CachedAre ==
    /\ CachedCutsAreCurrent <=> CountsAreCurrent(region_ids, region_sizes, forest_edges, linking_edges)
    /\ CachedCutsAreCurrent' <=> CountsAreCurrent(region_ids', region_sizes', forest_edges', linking_edges')
  <1>1. CachedCutsAreCurrent' <=> CountsAreCurrent(region_ids, region_sizes, forest_edges, linking_edges)'
    BY CachedNow, PTL
  <1>2. CountsAreCurrent(region_ids, region_sizes, forest_edges, linking_edges)'
           <=> CountsAreCurrent(region_ids', region_sizes', forest_edges', linking_edges')
    OBVIOUS
  <1> QED  BY <1>1, <1>2, CachedNow

\* A cut leaves right what it keeps, and what it adds is right.
LEMMA CutPlanCounts ==
    ASSUME CountsAreCurrent(region_ids, region_sizes, forest_edges, linking_edges),
           NEW plan, NEW S, NEW T, NEW size, NEW kept, NEW r1, NEW r2, NEW x, NEW y, NEW s,
           IsCutPlan(plan, S, T, size, kept, r1, r2, x, y, s),
           CutAnew(region_ids, region_sizes, forest_edges, S, T, x, y, r1, r2, s, size,
                   plan.ids, plan.sizes, plan.forest),
           kept \subseteq DOMAIN linking_edges, \A e \in kept : e \in Edges /\ Crosses(region_ids, e)
    PROVE  CountsAreCurrent(plan.ids, plan.sizes, plan.forest, plan.links)
  <1> DEFINE new == {x, y}
             links == plan.links
             ids2 == plan.ids
             sizes2 == plan.sizes
             F2 == plan.forest
             found == CutsFound(S, T, size)
  <1>1. links = NewLinks(ids2, kept, new, found, r1, r2)
    BY DEF IsCutPlan
  <1>2. CutAnew(region_ids, region_sizes, forest_edges, S, T, x, y, r1, r2, s, size, ids2, sizes2, F2)
    OBVIOUS
  <1>3. JointCount(ids2, sizes2, F2, new) = found
    <2>1. JointCount(ids2, sizes2, F2, new) = CutCount(T, S, size)
      <3> HIDE DEF ids2, sizes2, F2
      <3> QED  BY <1>2, NewCountIs
    <2>2. S \in SUBSET Vertices /\ T \in SUBSET Edges /\ IsTree(S, T) /\ size \in Nat \ {0}
      <3>1. size \in Nat /\ s \in 1 .. size - 1 /\ T \in SUBSET Edges /\ IsTree(S, T)
            /\ S = {v \in Vertices : region_ids[v] \in {r1, r2}}
        BY <1>2 DEF CutAnew
      <3> QED  BY <3>1
    <2>3. Min(S) \in S
      <3>1. S # {}
        BY <2>2 DEF IsTree
      <3>2. S \in SUBSET Nat
        BY <2>2, MapAssumption
      <3> QED  BY <3>1, <3>2, LeastIs
    <2> DEFINE total == [pop |-> PopOf(S), size |-> size]
               rt == Min(S)
    <2>4. total.pop = PopOf(S) /\ total.size = size /\ rt \in S
      BY <2>3
    <2>5. found = Cardinality(get_all_valid_edges_in_directed_tree(T, rt, Scratch, total, AnyCutOptions(size)))
      BY DEF CutsFound
    <2> HIDE DEF total, rt, found
    <2>6. Cardinality(get_all_valid_edges_in_directed_tree(T, rt, Scratch, total, AnyCutOptions(size)))
             = CutCount(T, S, size)
      BY <2>2, <2>4, TreeSearchIsRight
    <2> QED  BY <2>1, <2>5, <2>6
  <1> HIDE DEF found, ids2, sizes2, F2, links, new
  <1>4. DOMAIN links = kept \cup {new}
    BY <1>1 DEF NewLinks
  <1>5. ASSUME NEW e \in kept, e # new, links[e] # 0
        PROVE  links[e] = JointCount(ids2, sizes2, F2, e)
    <2>1. e \in kept \cup {new}
      OBVIOUS
    <2>2. links[e] = IF RegionsOf(ids2, e) \cap {r1, r2} # {} THEN 0 ELSE linking_edges[e]
      BY <1>1, <1>5, <2>1 DEF NewLinks
    <2>3. RegionsOf(ids2, e) \cap {r1, r2} = {} /\ links[e] = linking_edges[e] /\ linking_edges[e] # 0
      BY <1>5, <2>2
    <2>4. linking_edges[e] = JointCount(region_ids, region_sizes, forest_edges, e)
      BY <2>3 DEF CountsAreCurrent
    <2>5. e \in Edges /\ Crosses(region_ids, e) /\ RegionsOf(ids2, e) \cap {r1, r2} = {}
      BY <2>3
    <2>6. JointCount(ids2, sizes2, F2, e) = JointCount(region_ids, region_sizes, forest_edges, e)
      BY <1>2, <2>5, KeptCountStays
    <2> QED  BY <2>3, <2>4, <2>6
  <1>6. links[new] = found
    <2>1. new \in kept \cup {new}
      OBVIOUS
    <2> QED  BY <1>1, <2>1 DEF NewLinks
  <1>7. CountsAreCurrent(ids2, sizes2, F2, links)
    BY <1>3, <1>4, <1>5, <1>6 DEF CountsAreCurrent
  <1> QED  BY <1>7 DEF ids2, sizes2, F2, links

\* What a plan of more than one region has.
LEMMA PlanHas ==
    ASSUME PlanInv
    PROVE  /\ region_ids \in [Vertices -> Ids] /\ region_sizes \in [Ids -> Nat]
           /\ forest_edges \in SUBSET Edges
           /\ \A v \in Vertices : region_ids[v] < num_regions
           /\ \A e \in DOMAIN linking_edges : e \in Edges /\ Crosses(region_ids, e)
           /\ \A r \in 0 .. num_regions - 1 : region_sizes[r] \in Nat \ {0}
  <1>1. num_regions \in 1 .. Seats /\ region_ids \in [Vertices -> 0 .. num_regions - 1] /\ Seats \in Nat
    BY LinkedPlanAssumption DEF PlanInv, LinkedInv
  <1>2. \A r \in 0 .. num_regions - 1 : r \in Ids /\ r < num_regions
    BY <1>1 DEF Ids
  <1>3. region_ids \in [Vertices -> Ids] /\ \A v \in Vertices : region_ids[v] < num_regions
    BY <1>1, <1>2
  <1>4. region_sizes \in [Ids -> Nat] /\ \A r \in 0 .. num_regions - 1 : region_sizes[r] \in Nat \ {0}
    BY <1>2 DEF PlanInv, SizesInv, AreSizes
  <1>5. CASE num_regions = 1
    BY <1>3, <1>4, <1>5 DEF PlanInv, LinkedInv
  <1>6. CASE num_regions # 1
    <2>1. IsLinked(region_ids, num_regions, forest_edges, DOMAIN linking_edges)
      BY <1>1, <1>6 DEF PlanInv, LinkedInv
    <2>2. forest_edges \cup DOMAIN linking_edges \in SUBSET Edges
      BY <2>1, LinkedEdges
    <2>3. \A e \in DOMAIN linking_edges : Crosses(region_ids, e)
      BY <2>1 DEF IsLinked
    <2> QED  BY <1>3, <1>4, <2>2, <2>3
  <1> QED  BY <1>5, <1>6

\* A region split in two.
LEMMA SplitCounts ==
    ASSUME PlanInv, CachedCutsAreCurrent, Split
    PROVE  CachedCutsAreCurrent'
  <1>1. PICK r, S, T, plan, x, y, s : SplitOf(r, S, T, plan, x, y, s)
    BY SplitIsCut
  <1> DEFINE n == num_regions
             size == region_sizes[r]
  <1>2. /\ r \in 0 .. n - 1 /\ S = Region(region_ids, r) /\ S \in SUBSET Vertices
        /\ r \in Ids /\ n \in Ids /\ r # n /\ r < n
        /\ size \in Nat /\ region_sizes[n] = 0 /\ T \in HierarchicalTrees(county, S)
        /\ IsCutPlan(plan, S, T, size, DOMAIN linking_edges, r, n, x, y, s)
        /\ region_ids' = plan.ids /\ region_sizes' = plan.sizes
        /\ forest_edges' = plan.forest /\ linking_edges' = plan.links
    BY <1>1 DEF SplitOf
  <1>3. /\ region_ids \in [Vertices -> Ids] /\ region_sizes \in [Ids -> Nat] /\ forest_edges \in SUBSET Edges
        /\ (\A v \in Vertices : region_ids[v] < n)
        /\ \A e \in DOMAIN linking_edges : e \in Edges /\ Crosses(region_ids, e)
    BY PlanHas
  <1>4. S = {v \in Vertices : region_ids[v] \in {r, n}}
    <2>1. \A v \in Vertices : region_ids[v] # n
      BY <1>2, <1>3, IdsAre
    <2> QED  BY <1>2, <2>1 DEF Region
  <1>5. T \in SUBSET Edges /\ IsTree(S, T)
    BY <1>2, NoTreeOnNothing, HierarchicalTreesAre
  <1> HIDE DEF n, size
  <1>6. CutAnew(region_ids, region_sizes, forest_edges, S, T, x, y, r, n, s, size,
                plan.ids, plan.sizes, plan.forest)
    BY <1>2, <1>3, <1>4, <1>5 DEF CutAnew, IsCutPlan
  <1>7. CountsAreCurrent(region_ids, region_sizes, forest_edges, linking_edges)
    BY CachedAre
  <1> DEFINE kept == DOMAIN linking_edges
  <1>8. kept \subseteq DOMAIN linking_edges /\ \A e \in kept : e \in Edges /\ Crosses(region_ids, e)
    BY <1>3
  <1>9. IsCutPlan(plan, S, T, size, kept, r, n, x, y, s)
    BY <1>2
  <1> HIDE DEF kept
  <1>10. CountsAreCurrent(plan.ids, plan.sizes, plan.forest, plan.links)
    BY <1>6, <1>7, <1>8, <1>9, CutPlanCounts
  <1> QED  BY <1>2, <1>10, CachedAre

\* A plan that a merge-split move proposes.
LEMMA ProposalCounts ==
    ASSUME PlanInv, CachedCutsAreCurrent, num_regions > 1,
           NEW link \in DOMAIN linking_edges, NEW plan \in Proposals(link)
    PROVE  CountsAreCurrent(plan.ids, plan.sizes, plan.forest, plan.links)
  <1>1. PICK p, S, T, x, y, s : ProposalOf(link, plan, p, S, T, x, y, s)
    BY ProposalIsCut
  <1> DEFINE r1 == p[1]
             r2 == p[2]
             size == region_sizes[r1] + region_sizes[r2]
             kept == (DOMAIN linking_edges) \ {link}
  <1>2. /\ S = Region(region_ids, r1) \cup Region(region_ids, r2) /\ S \in SUBSET Vertices
        /\ r1 \in Ids /\ r2 \in Ids /\ r1 # r2 /\ size \in Nat
        /\ T \in HierarchicalTrees(county, S)
        /\ IsCutPlan(plan, S, T, size, kept, r1, r2, x, y, s)
    BY <1>1 DEF ProposalOf
  <1>3. /\ region_ids \in [Vertices -> Ids] /\ region_sizes \in [Ids -> Nat] /\ forest_edges \in SUBSET Edges
        /\ \A e \in DOMAIN linking_edges : e \in Edges /\ Crosses(region_ids, e)
    BY PlanHas
  <1>4. S = {v \in Vertices : region_ids[v] \in {r1, r2}}
    BY <1>2 DEF Region
  <1>5. T \in SUBSET Edges /\ IsTree(S, T)
    BY <1>2, NoTreeOnNothing, HierarchicalTreesAre
  <1>8. kept \subseteq DOMAIN linking_edges /\ \A e \in kept : e \in Edges /\ Crosses(region_ids, e)
    BY <1>3
  <1> HIDE DEF r1, r2, size, kept
  <1>6. CutAnew(region_ids, region_sizes, forest_edges, S, T, x, y, r1, r2, s, size,
                plan.ids, plan.sizes, plan.forest)
    BY <1>2, <1>3, <1>4, <1>5 DEF CutAnew, IsCutPlan
  <1>7. CountsAreCurrent(region_ids, region_sizes, forest_edges, linking_edges)
    BY CachedAre
  <1> QED  BY <1>2, <1>6, <1>7, <1>8, CutPlanCounts

\* What is computed when it is needed.
LEMMA RecomputedCounts ==
    ASSUME PlanInv, CachedCutsAreCurrent, num_regions > 1, NEW which
    PROVE  CountsAreCurrent(region_ids, region_sizes, forest_edges,
               Recomputed(region_ids, region_sizes, forest_edges, linking_edges, which))
  <1> DEFINE links == Recomputed(region_ids, region_sizes, forest_edges, linking_edges, which)
             L == DOMAIN linking_edges
  <1>1. CountsAreCurrent(region_ids, region_sizes, forest_edges, linking_edges)
    BY CachedAre
  <1>2. IsLinked(region_ids, num_regions, forest_edges, L)
    BY DEF PlanInv, LinkedInv
  <1>3. /\ \A e \in L : e \in Edges /\ Crosses(region_ids, e)
        /\ \A r \in 0 .. num_regions - 1 : region_sizes[r] \in Nat \ {0}
    BY PlanHas
  <1>4. ASSUME NEW e \in L
        PROVE  get_regions_log_splitting_prob(region_ids, region_sizes, forest_edges, e)
                  = JointCount(region_ids, region_sizes, forest_edges, e)
    <2> HIDE DEF L
    <2>1. e \in Edges /\ Crosses(region_ids, e)
      BY <1>3
    <2> QED  BY <1>2, <1>3, <2>1, ProbabilityIsOfTheJoinedTree
  <1>5. links = [e \in L |-> IF e \in which /\ linking_edges[e] = 0
                             THEN get_regions_log_splitting_prob(region_ids, region_sizes, forest_edges, e)
                             ELSE linking_edges[e]]
    BY DEF Recomputed
  <1>6. \A e \in L : linking_edges[e] # 0 => linking_edges[e] = JointCount(region_ids, region_sizes, forest_edges, e)
    BY <1>1 DEF CountsAreCurrent
  <1> HIDE DEF links, L
  <1>7. DOMAIN links = L
    BY <1>5
  <1>8. ASSUME NEW e \in L, links[e] # 0
        PROVE  links[e] = JointCount(region_ids, region_sizes, forest_edges, e)
    <2>1. CASE e \in which /\ linking_edges[e] = 0
      <3>1. links[e] = get_regions_log_splitting_prob(region_ids, region_sizes, forest_edges, e)
        BY <1>5, <2>1
      <3> QED  BY <1>4, <3>1
    <2>2. CASE ~(e \in which /\ linking_edges[e] = 0)
      <3>1. links[e] = linking_edges[e]
        BY <1>5, <2>2
      <3> QED  BY <1>6, <1>8, <3>1
    <2> QED  BY <2>1, <2>2
  <1>9. CountsAreCurrent(region_ids, region_sizes, forest_edges, links)
    BY <1>7, <1>8 DEF CountsAreCurrent
  <1> QED  BY <1>9 DEF links

\* Every step keeps right what is kept.
LEMMA CountsStep == PlanInv /\ CachedCutsAreCurrent /\ [Next]_vars => CachedCutsAreCurrent'
  <1> SUFFICES ASSUME PlanInv, CachedCutsAreCurrent, [Next]_vars
               PROVE  CachedCutsAreCurrent'
    OBVIOUS
  <1>1. CASE Split
    BY <1>1, SplitCounts
  <1>2. ASSUME UNCHANGED <<region_ids, region_sizes, forest_edges>>,
               CountsAreCurrent(region_ids, region_sizes, forest_edges, linking_edges')
        PROVE  CachedCutsAreCurrent'
    BY <1>2, CachedAre
  <1>3. CountsAreCurrent(region_ids, region_sizes, forest_edges, linking_edges)
    BY CachedAre
  <1>4. num_regions > 1 \/ DOMAIN linking_edges = {}
    BY LinkedPlanAssumption DEF PlanInv, LinkedInv
  <1>5. CASE get_valid_adj_regions_and_eff_log_boundary_lens
    <2>1. UNCHANGED <<region_ids, region_sizes, forest_edges>>
          /\ (linking_edges' = linking_edges
               \/ linking_edges' = Recomputed(region_ids, region_sizes, forest_edges,
                                              linking_edges, MergeableLinks))
      BY <1>5 DEF get_valid_adj_regions_and_eff_log_boundary_lens, Throw
    <2>2. CASE linking_edges' = linking_edges
      BY <1>2, <1>3, <2>1, <2>2
    <2>3. CASE linking_edges' = Recomputed(region_ids, region_sizes, forest_edges,
                                           linking_edges, MergeableLinks)
      <3>1. CASE num_regions > 1
        BY <1>2, <2>1, <2>3, <3>1, RecomputedCounts
      <3>2. CASE DOMAIN linking_edges = {}
        <4>1. DOMAIN linking_edges' = {}
          BY <2>3, <3>2 DEF Recomputed
        <4> QED  BY <1>2, <2>1, <4>1 DEF CountsAreCurrent
      <3> QED  BY <1>4, <3>1, <3>2
    <2> QED  BY <2>1, <2>2, <2>3
  <1>6. CASE attempt_mergesplit_step
    <2>1. num_regions > 1
      BY <1>6 DEF attempt_mergesplit_step
    <2>2. CASE Throw
      BY <1>2, <1>3, <2>2 DEF Throw
    <2>3. CASE ~Throw
      <3>1. PICK link \in MergeableLinks : \E plan \in Proposals(link) : Answer(link, plan)
        BY <1>6, <2>3 DEF attempt_mergesplit_step
      <3>2. PICK plan \in Proposals(link) : Answer(link, plan)
        BY <3>1
      <3>3. link \in DOMAIN linking_edges
        BY DEF MergeableLinks
      <3>4. \/ /\ region_ids' = plan.ids
               /\ region_sizes' = plan.sizes
               /\ forest_edges' = plan.forest
               /\ linking_edges' = plan.links
            \/ /\ UNCHANGED <<region_ids, region_sizes, forest_edges>>
               /\ \/ linking_edges' = Recomputed(region_ids, region_sizes, forest_edges,
                                                 linking_edges, {link})
                  \/ linking_edges' = linking_edges
        <4> HIDE DEF Throw
        <4> QED  BY <2>3, <3>2 DEF Answer
      <3>5. CASE /\ region_ids' = plan.ids
                 /\ region_sizes' = plan.sizes
                 /\ forest_edges' = plan.forest
                 /\ linking_edges' = plan.links
        <4>1. CountsAreCurrent(plan.ids, plan.sizes, plan.forest, plan.links)
          BY <2>1, <3>3, ProposalCounts
        <4> QED  BY <3>5, <4>1, CachedAre
      <3>6. CASE /\ UNCHANGED <<region_ids, region_sizes, forest_edges>>
                 /\ linking_edges' = Recomputed(region_ids, region_sizes, forest_edges,
                                                linking_edges, {link})
        BY <1>2, <2>1, <3>6, RecomputedCounts
      <3>7. CASE UNCHANGED <<region_ids, region_sizes, forest_edges, linking_edges>>
        BY <1>2, <1>3, <3>7
      <3> QED  BY <3>4, <3>5, <3>6, <3>7
    <2> QED  BY <2>2, <2>3
  <1>7. CASE Continue
    <2>1. UNCHANGED <<region_ids, region_sizes, forest_edges>>
          /\ linking_edges' = [e \in DOMAIN linking_edges |-> 0]
      BY <1>7 DEF Continue
    <2>2. CountsAreCurrent(region_ids, region_sizes, forest_edges, linking_edges')
      BY <2>1 DEF CountsAreCurrent
    <2> QED  BY <1>2, <2>1, <2>2
  <1>8. CASE UNCHANGED vars
    BY <1>2, <1>3, <1>8 DEF vars
  <1> QED  BY <1>1, <1>5, <1>6, <1>7, <1>8 DEF Next

\* A run starts without a valid probability.
LEMMA CountsInit == Init => CachedCutsAreCurrent
  <1> SUFFICES ASSUME Init
               PROVE  \A e \in DOMAIN linking_edges : linking_edges[e] = 0
    BY DEF CachedCutsAreCurrent
  <1>1. CASE Blank
    BY <1>1 DEF Blank
  <1>2. CASE Partial
    <2>1. PICK links : linking_edges = [e \in links |-> 0]
      BY <1>2 DEF Partial
    <2> QED  BY <2>1
  <1> QED  BY <1>1, <1>2 DEF Init

\* A probability that is kept is that of the trees and sizes of its two regions,
\* whatever was split, redrawn and rejected since it was computed.
THEOREM CachedProbabilitiesStayRight == Spec => []CachedCutsAreCurrent
  <1>1. Init => PlanInv /\ CachedCutsAreCurrent
    BY PlanInit, CountsInit
  <1>2. PlanInv /\ CachedCutsAreCurrent /\ [Next]_vars => PlanInv' /\ CachedCutsAreCurrent'
    BY PlanStep, CountsStep
  <1> QED  BY <1>1, <1>2, PTL DEF Spec

-----------------------------------------------------------------------------
(* The cuts of an edge, as its weight. *)

\* The number of cuts at an edge, by the populations of its two sides.
EdgeWeight(size, i, j) ==
    Cardinality(for_each_valid_population_split_from_edge(size, i, j, AnyCutOptions(size)))

\* It does not matter which side is below, and the test that comes first rules
\* out only edges without a cut.
LEMMA EdgeWeightIs ==
    ASSUME NEW size \in Nat \ {0}, NEW i \in Int, NEW j \in Int
    PROVE  /\ EdgeWeight(size, i, j) \in Nat /\ EdgeWeight(size, j, i) = EdgeWeight(size, i, j)
           /\ IsFiniteSet(for_each_valid_population_split_from_edge(size, i, j, AnyCutOptions(size)))
           /\ CutsOfEdge(size, i, j, AnyCutOptions(size)) = EdgeWeight(size, i, j)
  <1> DEFINE opts == AnyCutOptions(size)
             X == for_each_valid_population_split_from_edge(size, i, j, opts)
             Y == for_each_valid_population_split_from_edge(size, j, i, opts)
             D == 1 .. size - 1
             h == [s \in X |-> size - s]
  <1>1. /\ OptionsInBounds(size, opts)
        /\ opts.smaller_cut_sizes \cup {size - t : t \in opts.smaller_cut_sizes} = D
    BY AnyCutOptionsAre
  <1> HIDE DEF opts
  <1>2. X = {s \in D : Fits(i, s) /\ Fits(j, size - s)} /\ Y = {s \in D : Fits(j, s) /\ Fits(i, size - s)}
    BY <1>1 DEF for_each_valid_population_split_from_edge
  <1> HIDE DEF X, Y
  <1>3. IsFiniteSet(D) /\ X \in SUBSET D /\ Y \in SUBSET D
    BY <1>2, FS_Interval
  <1>4. IsFiniteSet(X) /\ IsFiniteSet(Y)
    BY <1>3, FS_Subset
  <1>5. \A s \in D : size - s \in D /\ size - (size - s) = s
    OBVIOUS
  <1> HIDE DEF D
  <1>6. \A s \in X : size - s \in Y /\ s \in D
    BY <1>2, <1>5
  <1>7. \A s \in Y : size - s \in X /\ size - (size - s) = s
    BY <1>2, <1>5
  <1>8. Cardinality(Y) = Cardinality(X)
    <2>1. h \in [X -> Y]
      BY <1>6
    <2>2. \A s, t \in X : h[s] = h[t] => s = t
      BY <1>5, <1>6
    <2>3. \A s \in Y : \E t \in X : h[t] = s
      <3> TAKE s \in Y
      <3>1. size - s \in X /\ h[size - s] = s
        BY <1>7
      <3> QED  BY <3>1
    <2> HIDE DEF h
    <2>4. h \in Bijection(X, Y)
      BY <2>1, <2>2, <2>3 DEF Bijection, Injection, Surjection, IsInjective
    <2>5. ExistsBijection(X, Y)
      BY <2>4 DEF ExistsBijection
    <2> QED  BY <1>4, <2>5, FS_Bijection
  <1>9. TooFew(i, j, opts) \/ TooMany(i, j, opts) => Cardinality(X) = 0
    <2> SUFFICES ASSUME TooFew(i, j, opts) \/ TooMany(i, j, opts)
                 PROVE  Cardinality(X) = 0
      OBVIOUS
    <2>1. X = {}
      BY <1>1, NothingFits DEF X
    <2> QED  BY <2>1, FS_EmptySet
  <1>10. Cardinality(X) \in Nat
    BY <1>4, FS_CardinalityType
  <1>11. EdgeWeight(size, i, j) = Cardinality(X) /\ EdgeWeight(size, j, i) = Cardinality(Y)
    BY DEF EdgeWeight, X, Y, opts
  <1>12. CutsOfEdge(size, i, j, opts)
            = IF TooFew(i, j, opts) \/ TooMany(i, j, opts) THEN 0 ELSE Cardinality(X)
    BY DEF CutsOfEdge, X
  <1>13. CutsOfEdge(size, i, j, opts) = Cardinality(X)
    BY <1>9, <1>12
  <1> QED  BY <1>4, <1>8, <1>10, <1>11, <1>13 DEF opts, X

\* W gives every edge of a tree the number of its cuts.
WeighsEdges(S, G, size, W) ==
    \A x, y : {x, y} \in G /\ x # y =>
        W[{x, y}] = EdgeWeight(size, PopOf(SideOf(S, G, x, y)), PopOf(SideOf(S, G, y, x)))

\* The populations of the two sides of an edge.
LEMMA SidesPop ==
    ASSUME NEW S \in SUBSET Vertices, NEW G, IsTree(S, G), NEW x, NEW y, {x, y} \in G, x # y
    PROVE  /\ PopOf(SideOf(S, G, x, y)) \in Nat /\ PopOf(SideOf(S, G, y, x)) \in Nat /\ PopOf(S) \in Nat
           /\ PopOf(SideOf(S, G, y, x)) = PopOf(S) - PopOf(SideOf(S, G, x, y))
  <1> DEFINE X == SideOf(S, G, x, y)
             Y == SideOf(S, G, y, x)
  <1>1. S # {}
    BY DEF IsTree
  <1>2. PICK rt : rt \in S
    BY <1>1
  <1>3. X \in SUBSET S /\ Y = S \ X
    BY <1>2, HangsOneWay
  <1> HIDE DEF X, Y
  <1>4. X \in SUBSET Vertices /\ Y \in SUBSET Vertices /\ PopOf(Y) = PopOf(S) - PopOf(X)
    BY <1>3, PopOfMore
  <1> QED  BY <1>4, PopIsNat DEF X, Y

\* There are such weights.
LEMMA EdgesCanBeWeighed ==
    ASSUME NEW S \in SUBSET Vertices, NEW G, IsTree(S, G), NEW size \in Nat \ {0}
    PROVE  \E W : WeighsEdges(S, G, size, W)
  <1> DEFINE num(x, y) == EdgeWeight(size, PopOf(SideOf(S, G, x, y)), PopOf(SideOf(S, G, y, x)))
             Right(f, n) == \A x, y : f = {x, y} /\ x # y => n = num(x, y)
             W == [f \in G |-> CHOOSE n : Right(f, n)]
  <1>1. ASSUME NEW x, NEW y, {x, y} \in G, x # y
        PROVE  num(x, y) = num(y, x)
    <2>1. PopOf(SideOf(S, G, x, y)) \in Int /\ PopOf(SideOf(S, G, y, x)) \in Int
      BY <1>1, SidesPop
    <2> QED  BY <2>1, EdgeWeightIs
  <1> HIDE DEF num
  <1>2. ASSUME NEW f \in G
        PROVE  \E n : Right(f, n)
    <2>1. PICK a, b : a # b /\ f = {a, b}
      BY DEF IsTree, Links
    <2>2. \A x, y : f = {x, y} /\ x # y => (x = a /\ y = b) \/ (x = b /\ y = a)
      BY <2>1
    <2>3. num(a, b) = num(b, a)
      BY <1>1, <2>1
    <2>4. Right(f, num(a, b))
      BY <2>2, <2>3
    <2> QED  BY <2>4
  <1>3. \A f \in G : Right(f, W[f])
    <2> TAKE f \in G
    <2>1. W[f] = CHOOSE n : Right(f, n)
      OBVIOUS
    <2> HIDE DEF W, Right
    <2> QED  BY <1>2, <2>1
  <1> HIDE DEF W
  <1>4. WeighsEdges(S, G, size, W)
    BY <1>3 DEF WeighsEdges, num
  <1> QED  BY <1>4

\* What the edges of a tree weigh.
LEMMA WeightsAre ==
    ASSUME NEW S \in SUBSET Vertices, NEW G, IsTree(S, G), NEW size \in Nat \ {0},
           NEW W, WeighsEdges(S, G, size, W)
    PROVE  \A f \in G : W[f] \in Nat
  <1> TAKE f \in G
  <1>1. PICK a, b : a # b /\ f = {a, b}
    BY DEF IsTree, Links
  <1>02. PopOf(SideOf(S, G, a, b)) \in Nat /\ PopOf(SideOf(S, G, b, a)) \in Nat
    <2>1. {a, b} \in G /\ a # b
      BY <1>1
    <2> QED  BY <2>1, SidesPop
  <1> DEFINE i == PopOf(SideOf(S, G, a, b))
             j == PopOf(SideOf(S, G, b, a))
  <1>2. i \in Int /\ j \in Int
    BY <1>02
  <1>3. W[{a, b}] = EdgeWeight(size, i, j)
    BY <1>1 DEF WeighsEdges
  <1> HIDE DEF i, j
  <1>4. EdgeWeight(size, i, j) \in Nat
    BY <1>2, EdgeWeightIs
  <1> QED  BY <1>1, <1>3, <1>4

\* The cuts at an edge, as records.
LEMMA RecordsCounted ==
    ASSUME NEW v, NEW p, NEW X, IsFiniteSet(X)
    PROVE  IsFiniteSet(CutRecords(v, p, X)) /\ Cardinality(CutRecords(v, p, X)) = Cardinality(X)
  <1> DEFINE h == [s \in X |-> [vertex |-> v, parent |-> p, size |-> s]]
             Y == CutRecords(v, p, X)
  <1>1. h \in [X -> Y] /\ \A y \in Y : \E s \in X : h[s] = y
    BY DEF CutRecords
  <1>2. \A s, t \in X : h[s] = h[t] => s = t
    <2> TAKE s, t \in X
    <2>1. h[s].size = s /\ h[t].size = t
      OBVIOUS
    <2> QED  BY <2>1
  <1> HIDE DEF h, Y
  <1>3. h \in Bijection(X, Y)
    BY <1>1, <1>2 DEF Bijection, Injection, Surjection, IsInjective
  <1>4. ExistsBijection(X, Y)
    BY <1>3 DEF ExistsBijection
  <1>5. IsFiniteSet(Y) /\ Cardinality(Y) = Cardinality(X)
    BY <1>4, FS_Bijection
  <1> QED  BY <1>5 DEF Y

\* The cuts of a tree are those of its edges together.
LEMMA CutsAddUp ==
    ASSUME NEW S \in SUBSET Vertices, NEW G, IsTree(S, G), NEW size \in Nat \ {0},
           NEW W, WeighsEdges(S, G, size, W)
    PROVE  CutCount(G, S, size) = Total(W, G)
  <1>0. S # {} /\ IsFiniteSet(S)
    BY DEF IsTree
  <1>1. PICK rt : rt \in S
    BY <1>0
  <1> DEFINE opts == AnyCutOptions(size)
             total == [pop |-> PopOf(S), size |-> size]
             U == S \ {rt}
             f == [v \in U |-> W[{v, CHOOSE p : Hangs(S, G, rt, v, p)}]]
             below(Q) == CutsBelow(S, G, rt, total, opts, Q)
             Good == {Q \in SUBSET U : IsFiniteSet(below(Q)) /\ Cardinality(below(Q)) = Total(f, Q)}
  <1>2. total.pop = PopOf(S) /\ total.size = size
    OBVIOUS
  <1> HIDE DEF total
  <1>3. ASSUME NEW v, NEW p, Hangs(S, G, rt, v, p)
        PROVE  v \in U /\ f[v] = W[{v, p}] /\ f[v] \in Nat /\ p \in S
               /\ IsFiniteSet(EdgeCuts(S, G, v, p, total, opts))
               /\ Cardinality(EdgeCuts(S, G, v, p, total, opts)) = f[v]
    <2>1. {v, p} \in G /\ v # p
      BY <1>3 DEF Hangs
    <2>2. v \in U /\ p \in S
      <3>1. v # rt /\ v \in S /\ p \in S
        BY <1>1, <1>3, HangsBelow
      <3> QED  BY <3>1
    <2>3. (CHOOSE q : Hangs(S, G, rt, v, q)) = p
      <3> DEFINE q0 == CHOOSE q : Hangs(S, G, rt, v, q)
      <3>1. Hangs(S, G, rt, v, q0)
        BY <1>3
      <3> HIDE DEF q0
      <3>2. q0 = p
        BY <1>1, <1>3, <3>1, OneAbove
      <3> QED  BY <3>2 DEF q0
    <2>4. f[v] = W[{v, p}]
      BY <2>2, <2>3
    <2> HIDE DEF f
    <2>5. f[v] \in Nat
      BY <2>1, <2>4, WeightsAre
    <2> DEFINE i == PopOf(SideOf(S, G, v, p))
               j == PopOf(SideOf(S, G, p, v))
               X == for_each_valid_population_split_from_edge(size, i, j, opts)
    <2>6. i \in Int /\ j \in Int /\ j = total.pop - i
      BY <1>2, <2>1, SidesPop
    <2>7. f[v] = EdgeWeight(size, i, j)
      BY <2>1, <2>4 DEF WeighsEdges
    <2>8. CutsAt(S, G, v, p, total, opts) = X
      BY <1>2, <2>6 DEF CutsAt
    <2> HIDE DEF i, j
    <2>9. IsFiniteSet(X) /\ Cardinality(X) = f[v]
      BY <2>6, <2>7, EdgeWeightIs DEF EdgeWeight
    <2> HIDE DEF X
    <2>10. EdgeCuts(S, G, v, p, total, opts) = CutRecords(v, p, X)
      BY <2>8 DEF EdgeCuts
    <2> QED  BY <2>2, <2>4, <2>5, <2>9, <2>10, RecordsCounted
  <1> HIDE DEF f
  <1>4. \A v \in U : f[v] \in Nat /\ \E p : Hangs(S, G, rt, v, p)
    <2> TAKE v \in U
    <2>1. PICK p : Hangs(S, G, rt, v, p)
      BY <1>1, SomethingAbove
    <2> QED  BY <1>3, <2>1
  <1>5. IsFiniteSet(U)
    BY <1>0, FS_Subset
  <1> HIDE DEF U, opts
  <1>6. {} \in Good
    <2>1. below({}) = {}
      BY DEF CutsBelow
    <2> HIDE DEF below
    <2> QED  BY <2>1, TotalOfNone, FS_EmptySet
  <1>7. ASSUME NEW Q \in SUBSET U, NEW v \in U \ Q, Q \in Good
        PROVE  Q \cup {v} \in Good
    <2>1. PICK p : Hangs(S, G, rt, v, p)
      BY <1>4
    <2> DEFINE R == Q \cup {v}
               N == EdgeCuts(S, G, v, p, total, opts)
               C == below(Q)
    <2>2. IsFiniteSet(C) /\ Cardinality(C) = Total(f, Q)
      BY <1>7
    <2>3. p \in S /\ IsFiniteSet(N) /\ Cardinality(N) = f[v] /\ f[v] \in Nat
      BY <1>3, <2>1
    <2>4. Q \subseteq R /\ v \in R /\ \A y \in R : y \in Q \/ y = v
      OBVIOUS
    <2> HIDE DEF R
    <2>5. below(R) = C \cup N
      BY <1>1, <2>1, <2>3, <2>4, CutsBelowMore
    <2>6. \A cut \in N : cut.vertex = v
      BY DEF EdgeCuts, CutRecords
    <2>7. \A cut \in C : cut.vertex \in Q
      BY DEF CutsBelow, EdgeCuts, CutRecords
    <2> HIDE DEF N, C, below
    <2>8. C \cap N = {}
      BY <2>6, <2>7
    <2>9. IsFiniteSet(below(R)) /\ Cardinality(below(R)) = Cardinality(C) + Cardinality(N)
      BY <2>2, <2>3, <2>5, <2>8, PartsAddUp
    <2>10. Total(f, R) = Total(f, Q) + f[v]
      <3>1. IsFiniteSet(Q) /\ (\A y \in Q : f[y] \in Int) /\ v \notin Q /\ f[v] \in Int
        BY <1>4, <1>5, <2>3, FS_Subset
      <3> QED  BY <3>1, TotalAdd DEF R
    <2>11. R \in SUBSET U /\ IsFiniteSet(below(R)) /\ Cardinality(below(R)) = Total(f, R)
      BY <2>2, <2>3, <2>9, <2>10 DEF R
    <2> QED  BY <2>11 DEF R
  <1>8. U \in Good
    <2> HIDE DEF Good
    <2> QED  BY <1>5, <1>6, <1>7, SubsetInduction
  <1>9. CutCount(G, S, size) = Cardinality(below(U))
    BY <1>1, <1>2, CutsAreCounted DEF opts, U
  <1>10. Cardinality(below(U)) = Total(f, U)
    BY <1>8
  <1>11. WeighedAlike(S, G, rt, f, W)
    BY <1>3 DEF WeighedAlike
  <1>12. Total(W, G) = Total(f, U)
    BY <1>1, <1>11, TotalOfEdges DEF U
  <1> QED  BY <1>9, <1>10, <1>12

\* Gains that only some of a set have.
LEMMA TotalWithGains ==
    ASSUME NEW U, IsFiniteSet(U), NEW D \in SUBSET U, NEW out, NEW delta, NEW f,
           \A v \in U : out[v] \in Int /\ delta[v] \in Int /\ f[v] = IF v \in D THEN out[v] + delta[v] ELSE out[v]
    PROVE  Total(f, U) = Total(out, U) + Total(delta, D)
  <1> DEFINE g == [v \in U |-> IF v \in D THEN delta[v] ELSE 0]
             z == [v \in U |-> 0]
             N == U \ D
  <1>1. IsFiniteSet(D) /\ IsFiniteSet(N) /\ D \cap N = {} /\ D \cup N = U
    BY FS_Subset
  <1>2. /\ \A v \in U : g[v] \in Int /\ f[v] = out[v] + g[v]
        /\ (\A v \in D : g[v] = delta[v]) /\ (\A v \in N : g[v] = 0)
    OBVIOUS
  <1> HIDE DEF g
  <1>3. Total(f, U) = Total(out, U) + Total(g, U)
    BY <1>2, TotalOfSums
  <1>4. Total(g, U) = Total(g, D) + Total(g, N)
    <2>1. \A v \in D \cup N : g[v] \in Int
      BY <1>1, <1>2
    <2> HIDE DEF N
    <2> QED  BY <1>1, <2>1, TotalOfUnion
  <1>5. Total(g, D) = Total(delta, D)
    BY <1>1, <1>2, TotalSame
  <1>6. Total(g, N) = 0
    <2>1. \A v \in N : g[v] \in Int /\ g[v] = 0
      BY <1>2
    <2> HIDE DEF N
    <2>2. Total(g, N) = 0
      <3> DEFINE Good == {Q \in SUBSET N : Total(g, Q) = 0}
      <3>1. {} \in Good
        BY TotalOfNone
      <3>2. ASSUME NEW Q \in SUBSET N, NEW v \in N \ Q, Q \in Good
            PROVE  Q \cup {v} \in Good
        <4>1. IsFiniteSet(Q) /\ (\A y \in Q : g[y] \in Int) /\ v \notin Q /\ g[v] \in Int /\ g[v] = 0
          BY <1>1, <2>1, FS_Subset
        <4>2. Total(g, Q \cup {v}) = Total(g, Q) + g[v]
          BY <4>1, TotalAdd
        <4>3. Total(g, Q \cup {v}) = 0
          BY <3>2, <4>1, <4>2
        <4> QED  BY <4>3
      <3> HIDE DEF Good
      <3>3. N \in Good
        BY <1>1, <3>1, <3>2, SubsetInduction
      <3> QED  BY <3>3 DEF Good
    <2> QED  BY <2>2
  <1>7. Total(out, U) \in Int /\ Total(delta, D) \in Int
    BY <1>1, TotalType
  <1> QED  BY <1>3, <1>4, <1>5, <1>6, <1>7

\* What the path weights of one of two joined trees are made of: the populations
\* i below the vertices v and the cuts of the edges above them, with the other tree,
\* of population other, above or below.
PathWeight(A, F, rt, other, size, opts, a) ==
    LET subtree == [v \in A \ {rt} |-> A \ Component(rt, A \ {v}, F)]
        out     == [v \in A \ {rt} |->
                       CutsOfEdge(size, PopOf(subtree[v]), PopOf(A) - PopOf(subtree[v]) + other, opts)]
        in      == [v \in A \ {rt} |->
                       CutsOfEdge(size, PopOf(subtree[v]) + other, PopOf(A) - PopOf(subtree[v]), opts)]
        delta   == [v \in A \ {rt} |-> in[v] - out[v]]
    IN  Total(out, A \ {rt}) + Total(delta, {v \in A \ {rt} : a \in subtree[v]})

\* Each weight of a region's tree.
LEMMA PathWeightIs ==
    ASSUME NEW A, NEW F, NEW rt, NEW other, NEW size, NEW opts, NEW a \in A
    PROVE  compute_tree_path_weights_in_undirected_packed_tree(F, A, rt, other, size, opts)[a]
              = PathWeight(A, F, rt, other, size, opts, a)
  BY DEF compute_tree_path_weights_in_undirected_packed_tree, PathWeight, Total

\* An edge of the tree P on A, joined with a tree on B: B is on the side of y.
OtherBeyond(A, P, B, size, W, x, y) ==
    LET i == PopOf(SideOf(A, P, x, y))
        j == PopOf(SideOf(A, P, y, x))
    IN  /\ i \in Nat /\ j \in Nat /\ PopOf(B) \in Nat /\ PopOf(A) = i + j
        /\ W[{x, y}] = EdgeWeight(size, i, j + PopOf(B)) /\ W[{x, y}] = EdgeWeight(size, j + PopOf(B), i)

\* What lies on the two sides of an edge of one of two joined trees.
LEMMA SidesInJoined ==
    ASSUME NEW S \in SUBSET Vertices, NEW G, NEW A, NEW P, NEW B, NEW Q, NEW a, NEW b,
           JoinedBy(S, G, A, P, B, Q, a, b), NEW size \in Nat \ {0}, NEW W, WeighsEdges(S, G, size, W),
           NEW x, NEW y, Hangs(A, P, a, x, y)
    PROVE  OtherBeyond(A, P, B, size, W, x, y)
  <1> DEFINE i == PopOf(SideOf(A, P, x, y))
             j == PopOf(SideOf(A, P, y, x))
             k == PopOf(B)
             all == PopOf(S)
  <1>1. IsTree(A, P) /\ S = A \cup B /\ A \cap B = {} /\ G = P \cup Q \cup {{a, b}} /\ IsTree(S, G)
    <2>1. IsTree(A, P) /\ S = A \cup B /\ A \cap B = {} /\ G = P \cup Q \cup {{a, b}}
      BY DEF JoinedBy
    <2> QED  BY <2>1, JoinedIsTree
  <1>2. {x, y} \in P /\ x # y /\ {x, y} \in G /\ A \in SUBSET Vertices /\ B \in SUBSET Vertices
    <2>1. {x, y} \in P /\ x # y
      BY DEF Hangs
    <2> QED  BY <1>1, <2>1
  <1>3. i \in Nat /\ j \in Nat /\ PopOf(A) \in Nat /\ j = PopOf(A) - i
    <2>1. {x, y} \in P /\ x # y /\ A \in SUBSET Vertices /\ IsTree(A, P)
      BY <1>1, <1>2
    <2> QED  BY <2>1, SidesPop
  <1>4. k \in Nat /\ all = PopOf(A) + k
    BY <1>1, <1>2, PopOfTwo, PopIsNat
  <1>5. SideOf(S, G, x, y) = SideOf(A, P, x, y)
    BY JoinedSides
  <1>6. PopOf(SideOf(S, G, y, x)) = all - PopOf(SideOf(S, G, x, y))
    <2>1. {x, y} \in G /\ x # y /\ IsTree(S, G)
      BY <1>1, <1>2
    <2> QED  BY <2>1, SidesPop
  <1>7. W[{x, y}] = EdgeWeight(size, PopOf(SideOf(S, G, x, y)), PopOf(SideOf(S, G, y, x)))
    BY <1>2 DEF WeighsEdges
  <1>8. PopOf(SideOf(S, G, x, y)) = i
    BY <1>5
  <1> DEFINE w == W[{x, y}]
             m == PopOf(SideOf(S, G, y, x))
             pa == PopOf(A)
  <1>9. w = EdgeWeight(size, i, m) /\ m = all - i
    BY <1>6, <1>7, <1>8
  <1> HIDE DEF i, j, k, all, w, m, pa
  <1>10. m = j + k /\ pa = i + j
    BY <1>3, <1>4, <1>9 DEF pa
  <1>11. w = EdgeWeight(size, i, j + k) /\ w = EdgeWeight(size, j + k, i)
    <2> DEFINE n == j + k
    <2>1. n \in Int /\ i \in Int /\ m = n
      BY <1>3, <1>4, <1>10
    <2> HIDE DEF n
    <2>2. w = EdgeWeight(size, i, n)
      BY <1>9, <2>1
    <2>3. EdgeWeight(size, n, i) = EdgeWeight(size, i, n)
      BY <2>1, EdgeWeightIs
    <2>4. w = EdgeWeight(size, i, n) /\ w = EdgeWeight(size, n, i)
      BY <2>2, <2>3
    <2> QED  BY <2>4 DEF n
  <1> QED  BY <1>3, <1>4, <1>10, <1>11 DEF OtherBeyond, i, j, k, w, pa

\* The weights of a tree and the total over its edges.
LEMMA PathWeightAddsUp ==
    ASSUME NEW S \in SUBSET Vertices, NEW G, NEW A, NEW P, NEW B, NEW Q, NEW a, NEW b,
           JoinedBy(S, G, A, P, B, Q, a, b), NEW size \in Nat \ {0}, NEW W, WeighsEdges(S, G, size, W),
           NEW F, Inside(A, F) \subseteq P, P \subseteq F, NEW rt \in A
    PROVE  PathWeight(A, F, rt, PopOf(B), size, AnyCutOptions(size), a) = Total(W, P)
  <1> DEFINE opts == AnyCutOptions(size)
             other == PopOf(B)
             U == A \ {rt}
             subtree == [v \in U |-> A \ Component(rt, A \ {v}, F)]
             out == [v \in U |-> CutsOfEdge(size, PopOf(subtree[v]), PopOf(A) - PopOf(subtree[v]) + other, opts)]
             in == [v \in U |-> CutsOfEdge(size, PopOf(subtree[v]) + other, PopOf(A) - PopOf(subtree[v]), opts)]
             delta == [v \in U |-> in[v] - out[v]]
             D == {v \in U : a \in subtree[v]}
             f == [v \in U |-> IF v \in D THEN in[v] ELSE out[v]]
  <1>1. IsTree(A, P) /\ a \in A /\ IsFiniteSet(A) /\ A \in SUBSET Vertices /\ B \in SUBSET Vertices
    <2>1. IsTree(A, P) /\ a \in A /\ S = A \cup B
      BY DEF JoinedBy
    <2> QED  BY <2>1 DEF IsTree
  <1>2. PathWeight(A, F, rt, PopOf(B), size, opts, a) = Total(out, U) + Total(delta, D)
    BY DEF PathWeight
  <1>3. /\ \A v \in U : subtree[v] = A \ Component(rt, A \ {v}, F)
        /\ \A v \in U : out[v] = CutsOfEdge(size, PopOf(subtree[v]), PopOf(A) - PopOf(subtree[v]) + other, opts)
        /\ \A v \in U : in[v] = CutsOfEdge(size, PopOf(subtree[v]) + other, PopOf(A) - PopOf(subtree[v]), opts)
        /\ \A v \in U : delta[v] = in[v] - out[v]
        /\ \A v \in U : f[v] = IF v \in D THEN in[v] ELSE out[v]
        /\ \A v \in U : v \in D <=> a \in subtree[v]
    OBVIOUS
  <1>4. D \in SUBSET U /\ IsFiniteSet(U)
    BY <1>1, FS_Subset
  <1> HIDE DEF subtree, out, in, delta, D, f, U
  <1>5. ASSUME NEW v \in U
        PROVE  /\ out[v] \in Int /\ in[v] \in Int
               /\ out[v] = EdgeWeight(size, PopOf(subtree[v]), PopOf(A) - PopOf(subtree[v]) + other)
               /\ in[v] = EdgeWeight(size, PopOf(subtree[v]) + other, PopOf(A) - PopOf(subtree[v]))
    <2> DEFINE X == subtree[v]
               i == PopOf(X)
               n == PopOf(A)
               above == n - i + other
               below == i + other
               rest == n - i
    <2>1. X \in SUBSET Vertices /\ A \in SUBSET Vertices /\ B \in SUBSET Vertices
      BY <1>1, <1>3
    <2> HIDE DEF X
    <2>2. i \in Int /\ n \in Int /\ other \in Int
      BY <2>1, PopIsNat
    <2> HIDE DEF i, n, other
    <2>3. above \in Int /\ below \in Int /\ rest \in Int
      BY <2>2
    <2>4. out[v] = CutsOfEdge(size, i, above, opts) /\ in[v] = CutsOfEdge(size, below, rest, opts)
      BY <1>3 DEF i, n, X
    <2> HIDE DEF above, below, rest
    <2>5. /\ EdgeWeight(size, i, above) \in Nat /\ CutsOfEdge(size, i, above, opts) = EdgeWeight(size, i, above)
      BY <2>2, <2>3, EdgeWeightIs
    <2>6. /\ EdgeWeight(size, below, rest) \in Nat
          /\ CutsOfEdge(size, below, rest, opts) = EdgeWeight(size, below, rest)
      BY <2>2, <2>3, EdgeWeightIs
    <2>7. /\ out[v] \in Int /\ in[v] \in Int
          /\ out[v] = EdgeWeight(size, i, above) /\ in[v] = EdgeWeight(size, below, rest)
      BY <2>4, <2>5, <2>6
    <2> QED  BY <2>7 DEF X, i, n, above, below, rest
  <1>6. Total(f, U) = Total(out, U) + Total(delta, D)
    <2>1. \A v \in U : out[v] \in Int /\ delta[v] \in Int /\ f[v] = IF v \in D THEN out[v] + delta[v] ELSE out[v]
      BY <1>3, <1>5
    <2> QED  BY <1>4, <2>1, TotalWithGains
  <1>7. ASSUME NEW v, NEW p, Hangs(A, P, rt, v, p)
        PROVE  f[v] \in Int /\ W[{v, p}] = f[v]
    <2> DEFINE X == SideOf(A, P, v, p)
               Y == SideOf(A, P, p, v)
    <2>1. {v, p} \in P /\ v # p /\ {p, v} = {v, p}
      BY <1>7 DEF Hangs
    <2>2. v \in U /\ Y = A \ X
      <3>1. v # rt /\ v \in A /\ Y = A \ X
        BY <1>1, <1>7, HangsBelow
      <3> QED  BY <3>1 DEF U
    <2>3. subtree[v] = X
      <3>1. A \ Component(rt, A \ {v}, F) = X
        BY <1>1, <1>7, CutOffBelow
      <3> QED  BY <1>3, <2>2, <3>1
    <2>4. f[v] \in Int
      BY <1>3, <1>5, <2>2
    <2>5. CASE a \notin X
      <3>1. Hangs(A, P, a, v, p)
        <4>1. a \in Y
          BY <1>1, <2>2, <2>5
        <4> QED  BY <2>1, <4>1 DEF Hangs
      <3> DEFINE i == PopOf(X)
                 j == PopOf(Y)
                 n == PopOf(A)
      <3>2. i \in Nat /\ j \in Nat /\ other \in Nat /\ n = i + j /\ W[{v, p}] = EdgeWeight(size, i, j + other)
        <4>1. OtherBeyond(A, P, B, size, W, v, p)
          BY <3>1, SidesInJoined
        <4> QED  BY <4>1 DEF OtherBeyond
      <3>3. f[v] = out[v] /\ out[v] = EdgeWeight(size, i, n - i + other)
        BY <1>3, <1>5, <2>2, <2>3, <2>5
      <3> HIDE DEF i, j, n, other
      <3>4. n - i + other = j + other
        BY <3>2
      <3>5. W[{v, p}] = f[v]
        BY <3>2, <3>3, <3>4
      <3> QED  BY <2>4, <3>5
    <2>6. CASE a \in X
      <3>1. Hangs(A, P, a, p, v)
        BY <2>1, <2>6 DEF Hangs
      <3> DEFINE i == PopOf(X)
                 j == PopOf(Y)
                 n == PopOf(A)
      <3>2. i \in Nat /\ j \in Nat /\ other \in Nat /\ n = j + i /\ W[{p, v}] = EdgeWeight(size, i + other, j)
        <4>1. OtherBeyond(A, P, B, size, W, p, v)
          BY <3>1, SidesInJoined
        <4> QED  BY <4>1 DEF OtherBeyond
      <3>3. f[v] = in[v] /\ in[v] = EdgeWeight(size, i + other, n - i)
        BY <1>3, <1>5, <2>2, <2>3, <2>6
      <3> HIDE DEF i, j, n, other
      <3>4. n - i = j
        BY <3>2
      <3>5. W[{v, p}] = f[v]
        BY <2>1, <3>2, <3>3, <3>4
      <3> QED  BY <2>4, <3>5
    <2> QED  BY <2>5, <2>6
  <1>8. Total(W, P) = Total(f, U)
    <2>1. WeighedAlike(A, P, rt, f, W)
      BY <1>7 DEF WeighedAlike
    <2> QED  BY <1>1, <2>1, TotalOfEdges DEF U
  <1> QED  BY <1>2, <1>6, <1>8

\* The cuts of two joined trees are those of either and those at the joint.
LEMMA JoinedAddsUp ==
    ASSUME NEW S \in SUBSET Vertices, NEW G, NEW A, NEW P, NEW B, NEW Q, NEW a, NEW b,
           JoinedBy(S, G, A, P, B, Q, a, b), NEW size \in Nat \ {0}, NEW W, WeighsEdges(S, G, size, W)
    PROVE  /\ CutCount(G, S, size) = EdgeWeight(size, PopOf(B), PopOf(A)) + Total(W, P) + Total(W, Q)
           /\ Total(W, P) \in Int /\ Total(W, Q) \in Int /\ EdgeWeight(size, PopOf(B), PopOf(A)) \in Int
  <1> DEFINE e == {a, b}
             i == PopOf(A)
             j == PopOf(B)
             R == P \cup Q
  <1>1. IsTree(A, P) /\ IsTree(B, Q) /\ A \cap B = {} /\ a \in A /\ S = A \cup B /\ G = R \cup {e} /\ IsTree(S, G)
    <2>1. IsTree(A, P) /\ IsTree(B, Q) /\ A \cap B = {} /\ a \in A /\ S = A \cup B /\ G = R \cup {e}
      BY DEF JoinedBy
    <2> QED  BY <2>1, JoinedIsTree
  <1>2. P \subseteq G /\ Q \subseteq G /\ e \in G /\ a # b /\ P \cap Q = {} /\ e \notin R
    <2>1. EdgesApart(G, A, P, B, Q, a, b)
      BY JoinedEdges
    <2> QED  BY <2>1 DEF EdgesApart
  <1>3. \A f \in G : W[f] \in Int
    <2>1. \A f \in G : W[f] \in Nat
      BY <1>1, WeightsAre
    <2> QED  BY <2>1
  <1>4. IsFiniteSet(P) /\ IsFiniteSet(Q)
    BY <1>1 DEF IsTree
  <1>5. IsFiniteSet(R) /\ \A f \in R : W[f] \in Int
    <2>1. IsFiniteSet(R)
      BY <1>2, <1>4, PartsAddUp
    <2> QED  BY <1>2, <1>3, <2>1
  <1>6. Total(W, R) = Total(W, P) + Total(W, Q) /\ Total(W, P) \in Int /\ Total(W, Q) \in Int
    <2>1. \A f \in P \cup Q : W[f] \in Int
      BY <1>5
    <2>2. Total(W, P \cup Q) = Total(W, P) + Total(W, Q)
      BY <1>2, <1>4, <2>1, TotalOfUnion
    <2>3. Total(W, P) \in Int /\ Total(W, Q) \in Int
      BY <1>4, <2>1, TotalType
    <2> QED  BY <2>2, <2>3
  <1> HIDE DEF e, R
  <1>7. Total(W, G) = Total(W, R) + W[e]
    <2>1. W[e] \in Int
      BY <1>2, <1>3
    <2>2. Total(W, R \cup {e}) = Total(W, R) + W[e]
      BY <1>2, <1>5, <2>1, TotalAdd
    <2> QED  BY <1>1, <2>2
  <1>8. W[e] = EdgeWeight(size, j, i)
    <2>1. SideOf(S, G, b, a) = B
      BY JointSide
    <2>2. {b, a} \in G /\ b # a /\ {b, a} = e
      BY <1>2 DEF e
    <2>3. SideOf(S, G, a, b) = A
      <3>1. SideOf(S, G, a, b) = S \ SideOf(S, G, b, a)
        <4>1. IsTree(S, G) /\ a \in S /\ {b, a} \in G /\ b # a
          BY <1>1, <2>2
        <4> QED  BY <4>1, HangsOneWay
      <3> QED  BY <1>1, <2>1, <3>1
    <2>4. W[{b, a}] = EdgeWeight(size, PopOf(SideOf(S, G, b, a)), PopOf(SideOf(S, G, a, b)))
      BY <2>2 DEF WeighsEdges
    <2> QED  BY <2>1, <2>2, <2>3, <2>4
  <1>9. CutCount(G, S, size) = Total(W, G)
    BY <1>1, CutsAddUp
  <1>10. W[e] \in Int
    BY <1>2, <1>3
  <1> DEFINE t == Total(W, G)
             tr == Total(W, R)
             tp == Total(W, P)
             tq == Total(W, Q)
             we == W[e]
  <1> HIDE DEF t, tr, tp, tq, we
  <1>11. t = tr + we /\ tr = tp + tq /\ tp \in Int /\ tq \in Int /\ we \in Int
    BY <1>6, <1>7, <1>10 DEF t, tr, tp, tq, we
  <1>12. t = we + tp + tq
    BY <1>11
  <1> QED  BY <1>8, <1>9, <1>11, <1>12 DEF t, tp, tq, we, i, j

\* The weight of an edge between two trees, from the weights at its ends.
PathsAndJoint(F, A, roota, B, rootb, size, a, b) ==
    EdgeWeight(size, PopOf(B), PopOf(A))
        + (PathWeight(A, F, roota, PopOf(B), size, AnyCutOptions(size), a)
             + PathWeight(B, F, rootb, PopOf(A), size, AnyCutOptions(size), b))

\* It is the number of cuts of the joined tree.
LEMMA PathsAndJointAre ==
    ASSUME NEW ids, NEW F, NEW A, NEW B, NEW a, NEW b, TwoTrees(ids, F, A, B, a, b),
           NEW S, NEW G, TwoAsOne(F, A, B, a, b, S, G), NEW size \in Nat \ {0}, NEW roota \in A, NEW rootb \in B
    PROVE  /\ PathsAndJoint(F, A, roota, B, rootb, size, a, b) = CutCount(G, S, size)
           /\ PathWeight(A, F, roota, PopOf(B), size, AnyCutOptions(size), a) \in Int
           /\ PathWeight(B, F, rootb, PopOf(A), size, AnyCutOptions(size), b) \in Int
  <1> DEFINE P == Inside(A, F)
             Q == Inside(B, F)
             opts == AnyCutOptions(size)
  <1>1. JoinedBy(S, G, A, P, B, Q, a, b)
    BY TwoTreesJoin
  <1>2. S \in SUBSET Vertices /\ P \subseteq F /\ Q \subseteq F
    BY DEF TwoTrees, TwoAsOne, Inside
  <1>3. Inside(A, F) \subseteq P /\ Inside(B, F) \subseteq Q
    OBVIOUS
  <1> HIDE DEF P, Q, opts
  <1>4. JoinedBy(S, G, B, Q, A, P, b, a) /\ IsTree(S, G)
    BY <1>1, JoinedEitherWay, JoinedIsTree
  <1>5. PICK W : WeighsEdges(S, G, size, W)
    BY <1>2, <1>4, EdgesCanBeWeighed
  <1>6. PathWeight(A, F, roota, PopOf(B), size, opts, a) = Total(W, P)
    BY <1>1, <1>2, <1>3, <1>5, PathWeightAddsUp DEF opts
  <1>7. PathWeight(B, F, rootb, PopOf(A), size, opts, b) = Total(W, Q)
    BY <1>2, <1>3, <1>4, <1>5, PathWeightAddsUp DEF opts
  <1>8. /\ CutCount(G, S, size) = EdgeWeight(size, PopOf(B), PopOf(A)) + Total(W, P) + Total(W, Q)
        /\ Total(W, P) \in Int /\ Total(W, Q) \in Int /\ EdgeWeight(size, PopOf(B), PopOf(A)) \in Int
    BY <1>1, <1>2, <1>5, JoinedAddsUp
  <1> DEFINE w == EdgeWeight(size, PopOf(B), PopOf(A))
             tp == Total(W, P)
             tq == Total(W, Q)
  <1>9. PathsAndJoint(F, A, roota, B, rootb, size, a, b) = w + (tp + tq)
    BY <1>6, <1>7 DEF PathsAndJoint, opts
  <1>10. w + (tp + tq) = w + tp + tq
    <2>1. w \in Int /\ tp \in Int /\ tq \in Int
      BY <1>8
    <2> HIDE DEF w, tp, tq
    <2> QED  BY <2>1
  <1> QED  BY <1>6, <1>7, <1>8, <1>9, <1>10 DEF opts

\* The boundary of two regions, edge by edge.
LEMMA BoundaryIs ==
    ASSUME NEW F, NEW A, NEW roota, NEW B, NEW rootb, NEW boundary, NEW size,
           NEW a \in A, NEW b \in B, {a, b} \in boundary, A \cap B = {},
           PathWeight(A, F, roota, PopOf(B), size, AnyCutOptions(size), a) \in Int,
           PathWeight(B, F, rootb, PopOf(A), size, AnyCutOptions(size), b) \in Int
    PROVE  get_log_eff_boundary_len_for_adj_region_pair(
               F, A, roota, B, rootb, boundary, size, AnyCutOptions(size))[{a, b}]
              = PathsAndJoint(F, A, roota, B, rootb, size, a, b)
  <1> DEFINE opts == AnyCutOptions(size)
             other1 == PopOf(B)
             other2 == PopOf(A)
             weights1 == compute_tree_path_weights_in_undirected_packed_tree(F, A, roota, other1, size, opts)
             weights2 == compute_tree_path_weights_in_undirected_packed_tree(F, B, rootb, other2, size, opts)
             weight == [w \in A \cup B |-> IF w \in A THEN weights1[w] ELSE weights2[w]]
             joining == EdgeWeight(size, other1, other2)
  <1>1. get_log_eff_boundary_len_for_adj_region_pair(F, A, roota, B, rootb, boundary, size, opts)[{a, b}]
           = joining + Total(weight, {a, b})
    BY DEF get_log_eff_boundary_len_for_adj_region_pair, EdgeWeight, Total
  <1>2. weights1[a] = PathWeight(A, F, roota, other1, size, opts, a)
        /\ weights2[b] = PathWeight(B, F, rootb, other2, size, opts, b)
    <2> HIDE DEF opts, other1, other2
    <2> QED  BY PathWeightIs
  <1>3. weight[a] = weights1[a] /\ weight[b] = weights2[b] /\ a # b
    <2> HIDE DEF weights1, weights2
    <2> QED  OBVIOUS
  <1> HIDE DEF weight, weights1, weights2
  <1>4. Total(weight, {a, b}) = weight[a] + weight[b]
    <2>1. a # b /\ weight[a] \in Int /\ weight[b] \in Int
      BY <1>2, <1>3
    <2> QED  BY <2>1, TotalOfTwo
  <1> QED  BY <1>1, <1>2, <1>3, <1>4 DEF PathsAndJoint

\* The edge e lies between the regions r and s.
Between(ids, e, r, s) == e \in Edges /\ RegionsOf(ids, e) = {r, s}

\* The end of an edge in a region it touches.
LEMMA EndInRegion ==
    ASSUME NEW ids, NEW rep, NEW r, NEW s, Between(ids, rep, r, s)
    PROVE  /\ (CHOOSE v \in rep : ids[v] = r) \in Region(ids, r)
           /\ (CHOOSE v \in rep : ids[v] = s) \in Region(ids, s)
  <1>1. rep \subseteq Vertices
    BY MapAssumption DEF Between
  <1>2. ASSUME NEW q \in {r, s}
        PROVE  (CHOOSE v \in rep : ids[v] = q) \in Region(ids, q)
    <2>1. \E v \in rep : ids[v] = q
      BY DEF RegionsOf, Between
    <2> DEFINE v == CHOOSE w \in rep : ids[w] = q
    <2>2. v \in rep /\ ids[v] = q
      BY <2>1
    <2> HIDE DEF v
    <2>3. v \in Region(ids, q)
      BY <1>1, <2>2 DEF Region
    <2> QED  BY <2>3 DEF v
  <1> QED  BY <1>2

\* It has an end in each.
EndsIn(ids, e, r, s) == \E a, b : e = {a, b} /\ ids[a] = r /\ ids[b] = s

\* An edge between two regions has an end in each.
LEMMA EndsOfBoundary ==
    ASSUME NEW ids, NEW e, NEW r, NEW s, r # s, Between(ids, e, r, s)
    PROVE  EndsIn(ids, e, r, s)
  <1>1. PICK u, v \in Vertices : u # v /\ e = {u, v}
    BY GraphFacts DEF Between
  <1>2. {ids[u], ids[v]} = {r, s}
    BY <1>1 DEF RegionsOf, Between
  <1>3. CASE ids[u] = r
    BY <1>1, <1>2, <1>3 DEF EndsIn
  <1>4. CASE ids[u] = s
    <2>1. ids[v] = r /\ e = {v, u}
      BY <1>1, <1>2, <1>4
    <2> QED  BY <1>4, <2>1 DEF EndsIn
  <1> QED  BY <1>2, <1>3, <1>4

\* At each edge between two regions of a linked plan, and from ends wherever they are.
LEMMA BoundaryAgreesAt ==
    ASSUME NEW ids, NEW n, NEW F, NEW L, IsLinked(ids, n, F, L),
           NEW sizes, \A q \in 0 .. n - 1 : sizes[q] \in Nat \ {0},
           NEW r, NEW s, r # s, NEW boundary, NEW e \in boundary, Between(ids, e, r, s),
           NEW rootr \in Region(ids, r), NEW roots \in Region(ids, s)
    PROVE  get_log_eff_boundary_len_for_adj_region_pair(
               F, Region(ids, r), rootr, Region(ids, s), roots, boundary, sizes[r] + sizes[s],
               AnyCutOptions(sizes[r] + sizes[s]))[e]
              = get_regions_log_splitting_prob(ids, sizes, F, e)
  <1>1. PICK a, b : e = {a, b} /\ ids[a] = r /\ ids[b] = s
    <2>1. EndsIn(ids, e, r, s)
      BY EndsOfBoundary
    <2> QED  BY <2>1 DEF EndsIn
  <1>2. e \in Edges /\ Crosses(ids, e) /\ {a, b} \in Edges /\ ids[a] # ids[b] /\ {a, b} \in boundary
    <2>1. {a, b} \in Edges /\ ids[a] # ids[b] /\ {a, b} \in boundary
      BY <1>1 DEF Between
    <2>2. e \in Edges
      BY DEF Between
    <2> QED  BY <1>1, <2>1, <2>2, CrossesIs
  <1> DEFINE A == Region(ids, r)
             B == Region(ids, s)
             S == A \cup B
             G == Inside(S, F) \cup {{a, b}}
             size == sizes[r] + sizes[s]
             opts == AnyCutOptions(size)
  <1>3. TwoTrees(ids, F, A, B, a, b) /\ r \in 0 .. n - 1 /\ s \in 0 .. n - 1
    <2>1. /\ TwoTrees(ids, F, Region(ids, ids[a]), Region(ids, ids[b]), a, b)
          /\ ids[a] \in 0 .. n - 1 /\ ids[b] \in 0 .. n - 1
      BY <1>2, RegionsJoined
    <2> QED  BY <1>1, <2>1
  <1>4. size \in Nat \ {0} /\ sizes[r] \in Int /\ sizes[s] \in Int
    <2> DEFINE i == sizes[r]
               j == sizes[s]
    <2>1. i \in Nat \ {0} /\ j \in Nat \ {0}
      BY <1>3
    <2> HIDE DEF i, j
    <2>2. i + j \in Nat \ {0} /\ i \in Int /\ j \in Int
      BY <2>1
    <2> QED  BY <2>2 DEF i, j
  <1>5. TwoAsOne(F, A, B, a, b, S, G) /\ JoinsAt(ids, sizes, e, a, b, r, s, S, size) /\ G = Inside(S, F) \cup {e}
    BY <1>1, <1>4 DEF TwoAsOne, JoinsAt
  <1>6. rootr \in A /\ roots \in B /\ a \in A /\ b \in B /\ A \cap B = {}
    BY <1>3 DEF TwoTrees
  <1> HIDE DEF A, B, S, G, size, opts
  <1>7. get_regions_log_splitting_prob(ids, sizes, F, e) = CutCount(G, S, size)
    <2>1. get_regions_log_splitting_prob(ids, sizes, F, e) = JointCount(ids, sizes, F, e)
      BY <1>2, ProbabilityIsOfTheJoinedTree
    <2>2. JointCount(ids, sizes, F, e) = CutCount(Inside(S, F) \cup {e}, S, size)
      BY <1>5, JointCountIs
    <2> QED  BY <1>5, <2>1, <2>2
  <1>8. /\ PathsAndJoint(F, A, rootr, B, roots, size, a, b) = CutCount(G, S, size)
        /\ PathWeight(A, F, rootr, PopOf(B), size, opts, a) \in Int
        /\ PathWeight(B, F, roots, PopOf(A), size, opts, b) \in Int
    <2>1. TwoAsOne(F, A, B, a, b, S, G)
      BY <1>5
    <2> QED  BY <1>3, <1>4, <1>6, <2>1, PathsAndJointAre DEF opts
  <1>9. get_log_eff_boundary_len_for_adj_region_pair(F, A, rootr, B, roots, boundary, size, opts)[{a, b}]
           = PathsAndJoint(F, A, rootr, B, roots, size, a, b)
    <2>1. {a, b} \in boundary
      BY <1>2
    <2> QED  BY <1>6, <1>8, <2>1, BoundaryIs DEF opts
  <1>10. get_log_eff_boundary_len_for_adj_region_pair(F, A, rootr, B, roots, boundary, size, opts)[e]
            = get_regions_log_splitting_prob(ids, sizes, F, e)
    BY <1>1, <1>7, <1>8, <1>9
  <1> QED  BY <1>10 DEF A, B, size, opts

\* The boundary is a number for each of its edges.
LEMMA BoundaryLists ==
    ASSUME NEW F, NEW A, NEW roota, NEW B, NEW rootb, NEW boundary, NEW size, NEW opts, NEW cuts,
           \A e \in boundary : get_log_eff_boundary_len_for_adj_region_pair(
               F, A, roota, B, rootb, boundary, size, opts)[e] = cuts[e]
    PROVE  get_log_eff_boundary_len_for_adj_region_pair(F, A, roota, B, rootb, boundary, size, opts)
              = [e \in boundary |-> cuts[e]]
  <1> DEFINE g == get_log_eff_boundary_len_for_adj_region_pair(F, A, roota, B, rootb, boundary, size, opts)
  <1>1. \E h : g = [e \in boundary |-> h[e]]
    <2> DEFINE h == [e \in boundary |-> g[e]]
    <2>1. g = [e \in boundary |-> g[e]]
      BY DEF get_log_eff_boundary_len_for_adj_region_pair
    <2> HIDE DEF g
    <2>2. g = [e \in boundary |-> h[e]]
      BY <2>1
    <2> QED  BY <2>2
  <1> HIDE DEF g
  <1>2. \A e \in boundary : g[e] = cuts[e]
    BY DEF g
  <1>3. g = [e \in boundary |-> cuts[e]]
    BY <1>1, <1>2
  <1> QED  BY <1>3 DEF g

\* In a linked plan.
LEMMA PlanBoundaryAgrees == PlanInv => BoundaryAgreesWithSearch
  <1> SUFFICES ASSUME PlanInv, NEW r \in 0 .. num_regions - 1, NEW s \in 0 .. num_regions - 1, r < s,
                      NEW rep \in {e \in Edges : RegionsOf(region_ids, e) = {r, s}}
               PROVE  LET boundary == {e \in Edges : RegionsOf(region_ids, e) = {r, s}}
                          size == region_sizes[r] + region_sizes[s]
                          end(e, q) == CHOOSE v \in e : region_ids[v] = q
                          cuts(e) == get_regions_log_splitting_prob(region_ids, region_sizes, forest_edges, e)
                      IN  get_log_eff_boundary_len_for_adj_region_pair(
                              forest_edges, RegionOf(r), end(rep, r), RegionOf(s), end(rep, s),
                              boundary, size, AnyCutOptions(size))
                            = [e \in boundary |-> cuts(e)]
    BY DEF BoundaryAgreesWithSearch
  <1> DEFINE boundary == {e \in Edges : RegionsOf(region_ids, e) = {r, s}}
             size == region_sizes[r] + region_sizes[s]
             opts == AnyCutOptions(size)
             rootr == CHOOSE v \in rep : region_ids[v] = r
             roots == CHOOSE v \in rep : region_ids[v] = s
             A == Region(region_ids, r)
             B == Region(region_ids, s)
             cuts == [e \in boundary |->
                         get_regions_log_splitting_prob(region_ids, region_sizes, forest_edges, e)]
  <1>1. /\ IsLinked(region_ids, num_regions, forest_edges, DOMAIN linking_edges)
        /\ \A q \in 0 .. num_regions - 1 : region_sizes[q] \in Nat \ {0}
    <2>1. num_regions \in Nat
      BY LinkedPlanAssumption DEF PlanInv, LinkedInv
    <2>2. num_regions > 1
      BY <2>1
    <2>3. IsLinked(region_ids, num_regions, forest_edges, DOMAIN linking_edges)
      BY <2>2 DEF PlanInv, LinkedInv
    <2> QED  BY <2>3, PlanHas
  <1>2. rootr \in A /\ roots \in B
    <2>1. Between(region_ids, rep, r, s)
      BY DEF Between
    <2> QED  BY <2>1, EndInRegion
  <1>3. r # s
    OBVIOUS
  <1>4. \A e \in boundary : cuts[e] = get_regions_log_splitting_prob(region_ids, region_sizes, forest_edges, e)
    OBVIOUS
  <1> HIDE DEF cuts, rootr, roots
  <1>5. \A e \in boundary :
           get_log_eff_boundary_len_for_adj_region_pair(
               forest_edges, A, rootr, B, roots, boundary, size, opts)[e] = cuts[e]
    <2> TAKE e \in boundary
    <2>1. Between(region_ids, e, r, s)
      BY DEF Between
    <2> HIDE DEF boundary
    <2>2. get_log_eff_boundary_len_for_adj_region_pair(
              forest_edges, A, rootr, B, roots, boundary, size, opts)[e]
             = get_regions_log_splitting_prob(region_ids, region_sizes, forest_edges, e)
      BY <1>1, <1>2, <1>3, <2>1, BoundaryAgreesAt
    <2> QED  BY <1>4, <2>2
  <1> HIDE DEF boundary, size, opts, A, B
  <1>6. get_log_eff_boundary_len_for_adj_region_pair(forest_edges, A, rootr, B, roots, boundary, size, opts)
           = [e \in boundary |-> cuts[e]]
    BY <1>5, BoundaryLists
  <1>7. get_log_eff_boundary_len_for_adj_region_pair(forest_edges, A, rootr, B, roots, boundary, size, opts)
           = [e \in boundary |-> get_regions_log_splitting_prob(region_ids, region_sizes, forest_edges, e)]
    BY <1>4, <1>6
  <1> QED  BY <1>7 DEF boundary, size, opts, rootr, roots, A, B, RegionOf

\* In every plan a run reaches, for any two regions that touch, at each of the
\* edges between them and from every representative edge, the effective boundary
\* by path weights is what the search of the tree joined there finds.
THEOREM BoundaryIsThatOfTheSearch == Spec => []BoundaryAgreesWithSearch
  <1> QED  BY PlanStaysLinked, PlanBoundaryAgrees, PTL

-----------------------------------------------------------------------------
(* Drawing a tree on a region: what is reached, and what hangs together. *)
\* Every vertex of W is entered by exactly one of the edges, and no other vertex is.
Covers(M, W) ==
    /\ \A e \in M : e[2] \in W
    /\ \A w \in W : \E e \in M : e[2] = w
    /\ \A e, f \in M : e[2] = f[2] => e = f

\* Going up along the edges ends: every set has a vertex that none of its own enters.
Downward(M) == \A X : X # {} => \E x \in X : \A e \in M : e[2] = x => e[1] \notin X

\* Edges into vertices that were not covered.
LEMMA CoversMore ==
    ASSUME NEW M, NEW N, NEW W, NEW V, Covers(M, W), Covers(N, V), W \cap V = {}
    PROVE  Covers(M \cup N, W \cup V)
  <1>1. \A e \in M \cup N : e[2] \in W \cup V
    BY DEF Covers
  <1>2. \A w \in W \cup V : \E e \in M \cup N : e[2] = w
    BY DEF Covers
  <1>3. \A e, f \in M \cup N : e[2] = f[2] => e = f
    BY DEF Covers
  <1> QED
    BY <1>1, <1>2, <1>3 DEF Covers

\* Edges that enter what has no edge yet lead down as well.
LEMMA DownwardMore ==
    ASSUME NEW M, NEW N, Downward(M), Downward(N),
           \A e \in M : \A f \in N : f[2] # e[1] /\ f[2] # e[2]
    PROVE  Downward(M \cup N)
  <1> SUFFICES ASSUME NEW X, X # {}
               PROVE  \E x \in X : \A e \in M \cup N : e[2] = x => e[1] \notin X
    BY DEF Downward
  <1> DEFINE Y == {y \in X : \A f \in N : f[2] # y}
  <1>1. CASE Y # {}
    <2>1. PICK x \in Y : \A e \in M : e[2] = x => e[1] \notin Y
      BY <1>1 DEF Downward
    <2>2. x \in X /\ \A f \in N : f[2] # x
      OBVIOUS
    <2>3. ASSUME NEW e \in M \cup N, e[2] = x
          PROVE  e[1] \notin X
      <3>1. e \in M
        BY <2>2, <2>3
      <3>2. \A f \in N : f[2] # e[1]
        BY <3>1
      <3> QED  BY <2>1, <2>3, <3>1, <3>2
    <2> QED  BY <2>2, <2>3
  <1>2. CASE Y = {}
    <2>1. PICK x \in X : \A f \in N : f[2] = x => f[1] \notin X
      BY DEF Downward
    <2>2. PICK f \in N : f[2] = x
      BY <1>2
    <2>3. ASSUME NEW e \in M \cup N, e[2] = x
          PROVE  e[1] \notin X
      <3>1. e \in N
        BY <2>2, <2>3
      <3> QED  BY <2>1, <2>3, <3>1
    <2> QED  BY <2>3
  <1> QED  BY <1>1, <1>2

\* There are no more edges than vertices they cover.
LEMMA CoversCount ==
    ASSUME NEW M, NEW W, IsFiniteSet(W), Covers(M, W)
    PROVE  IsFiniteSet(M) /\ Cardinality(M) <= Cardinality(W)
  <1> DEFINE edge == [w \in W |-> CHOOSE e \in M : e[2] = w]
  <1>1. \A w \in W : edge[w] \in M /\ edge[w][2] = w
    BY DEF Covers
  <1>2. \A e \in M : e[2] \in W /\ edge[e[2]] = e
    BY <1>1 DEF Covers
  <1>3. edge \in Surjection(W, M)
    <2>1. edge \in [W -> M]
      BY <1>1 DEF edge
    <2> QED  BY <1>2, <2>1 DEF Surjection
  <1> QED  BY <1>3, FS_Surjection

\* What is reached from a node along the edges of a finite set, found round by
\* round, is the least set with the node that no edge leads out of.
LEMMA ReachedIsLeast ==
    ASSUME NEW T, IsFiniteSet(T), NEW node
    PROVE  /\ node \in ReachedFrom(node, T)
           /\ \A e \in T : e[1] \in ReachedFrom(node, T) => e[2] \in ReachedFrom(node, T)
           /\ \A Z : node \in Z /\ (\A e \in T : e[1] \in Z => e[2] \in Z) => ReachedFrom(node, T) \subseteq Z
  <1> DEFINE N == Cardinality(T)
             Into(X) == X \cup {e[2] : e \in {d \in T : d[1] \in X}}
             All == {node} \cup {e[2] : e \in T}
             h == [n \in 1 .. N |-> [X \in SUBSET All |-> Into(X)]]
             Search(f) == f = [k \in 0 .. N |->
                                 IF k = 0 THEN {node}
                                 ELSE LET before == f[k - 1]
                                      IN  before \cup {e[2] : e \in {d \in T : d[1] \in before}}]
             found == CHOOSE f : Search(f)
  <1>0. N \in Nat
    BY FS_CardinalityType
  <1>1. \E f : Search(f)
    <2> DEFINE D == SUBSET All
    <2>1. {node} \in D
      OBVIOUS
    <2>2. h \in [1 .. N -> [D -> D]]
      <3>1. \A X \in D : Into(X) \in D
        OBVIOUS
      <3> QED  BY <3>1
    <2>3. PICK f \in [0 .. N -> D] : IsIteration(f, N, {node}, h)
      <3> HIDE DEF N, h, D
      <3> QED  BY <1>0, <2>1, <2>2, IterationExists
    <2>4. \A k \in 1 .. N : h[k][f[k - 1]] = Into(f[k - 1])
      <3> TAKE k \in 1 .. N
      <3>1. k - 1 \in 0 .. N
        BY <1>0
      <3>2. f[k - 1] \in D
        BY <2>3, <3>1
      <3> QED  BY <3>2
    <2>5. \A k \in 0 .. N : k # 0 => k \in 1 .. N
      BY <1>0
    <2> HIDE DEF h, N, D
    <2>6. Search(f)
      BY <2>3, <2>4, <2>5 DEF IsIteration
    <2> QED  BY <2>6
  <1>2. ReachedFrom(node, T) = found[N]
    BY DEF ReachedFrom
  <1>3. Search(found)
    <2> HIDE DEF Search
    <2> QED  BY <1>1
  <1> HIDE DEF found
  <1>4. found[0] = {node} /\ \A k \in 1 .. N : found[k] = Into(found[k - 1])
    <2>1. \A k \in 1 .. N : k \in 0 .. N /\ k # 0
      BY <1>0
    <2>2. 0 \in 0 .. N
      BY <1>0
    <2> HIDE DEF N
    <2>3. found[0] = {node}
      BY <1>3, <2>2
    <2>4. ASSUME NEW k \in 1 .. N
          PROVE  found[k] = Into(found[k - 1])
      <3>1. k \in 0 .. N /\ k # 0
        BY <2>1
      <3> QED  BY <1>3, <3>1
    <2> QED  BY <2>3, <2>4
  <1> DEFINE Heads(X) == {node} \cup {e[2] : e \in X}
             From1(X) == {e \in T : e[1] \in X}
             G == [X \in SUBSET T |-> X \cup From1(Heads(X))]
             g == [k \in 0 .. N |-> IF k = 0 THEN {} ELSE From1(found[k - 1])]
  <1>G. /\ g[0] = {}
        /\ \A k \in 1 .. N : g[k] = From1(found[k - 1])
    <2>1. 0 \in 0 .. N /\ \A k \in 1 .. N : k \in 0 .. N /\ k # 0
      BY <1>0
    <2> HIDE DEF N, From1
    <2> QED  BY <2>1
  <1> HIDE DEF g
  <1>5. \A k \in 0 .. N : found[k] = Heads(g[k]) /\ (k > 0 => g[k - 1] \subseteq g[k])
    <2> DEFINE S == {n \in Nat : n <= N => found[n] = Heads(g[n]) /\ (n > 0 => g[n - 1] \subseteq g[n])}
    <2>1. 0 \in S
      <3>1. found[0] = Heads(g[0])
        BY <1>4, <1>G
      <3> QED  BY <3>1
    <2>2. ASSUME NEW n \in Nat, n \in S
          PROVE  n + 1 \in S
      <3> SUFFICES ASSUME n + 1 <= N
                   PROVE  found[n + 1] = Heads(g[n + 1]) /\ g[n] \subseteq g[n + 1]
        <4>1. (n + 1) - 1 = n /\ n + 1 \in Nat
          OBVIOUS
        <4> HIDE DEF N, Heads
        <4> QED  BY <4>1
      <3>1. n + 1 \in 1 .. N /\ n \in 0 .. N /\ (n + 1) - 1 = n /\ n + 1 \in 0 .. N /\ n + 1 # 0
        BY <1>0
      <3>2. found[n + 1] = Into(found[n]) /\ g[n + 1] = From1(found[n]) /\ found[n] = Heads(g[n])
        <4>1. found[n + 1] = Into(found[n])
          <5> HIDE DEF Into, N
          <5> QED  BY <1>4, <3>1
        <4>2. g[n + 1] = From1(found[n])
          <5> HIDE DEF From1, N
          <5> QED  BY <1>G, <3>1
        <4>3. found[n] = Heads(g[n])
          <5>1. n <= N
            BY <1>0, <3>1
          <5> HIDE DEF Heads, N
          <5> QED  BY <2>2, <5>1
        <4> QED  BY <4>1, <4>2, <4>3
      <3>3. g[n] \subseteq g[n + 1]
        <4>1. CASE n = 0
          BY <1>G, <4>1
        <4>2. CASE n # 0
          <5>1. n \in 1 .. N
            BY <1>0, <3>1, <4>2
          <5>2. found[n] = Into(found[n - 1])
            <6> HIDE DEF Into, N
            <6> QED  BY <1>4, <5>1
          <5>3. g[n] = From1(found[n - 1])
            <6> HIDE DEF From1, N
            <6> QED  BY <1>G, <5>1
          <5>4. From1(found[n - 1]) \subseteq From1(found[n])
            BY <5>2
          <5> HIDE DEF From1, Into, N
          <5> QED  BY <3>2, <5>3, <5>4
        <4> QED  BY <4>1, <4>2
      <3> HIDE DEF N
      <3> QED  BY <3>2, <3>3
    <2>3. Nat \subseteq S
      <3> HIDE DEF S
      <3> QED  BY <2>1, <2>2, SetInduction
    <2> QED
      <3> SUFFICES ASSUME NEW k \in 0 .. N
                   PROVE  found[k] = Heads(g[k]) /\ (k > 0 => g[k - 1] \subseteq g[k])
        OBVIOUS
      <3>1. k \in Nat /\ k <= N
        BY <1>0
      <3>2. k \in S
        <4> HIDE DEF S
        <4> QED  BY <2>3, <3>1
      <3> HIDE DEF N, Heads
      <3> QED  BY <3>1, <3>2
  <1>6. IsGrowth(G, T)
    BY DEF IsGrowth
  <1>7. Repeats(g, {}, G, N, SUBSET T)
    <2>1. g[0] = {}
      BY <1>G
    <2>2. ASSUME NEW n \in 1 .. N, g[n - 1] \in SUBSET T
          PROVE  g[n] = G[g[n - 1]]
      <3>1. n \in 0 .. N /\ n # 0 /\ n > 0 /\ n - 1 \in 0 .. N
        BY <1>0
      <3>2. g[n] = From1(found[n - 1])
        <4> HIDE DEF From1, N
        <4> QED  BY <1>G
      <3>4. found[n - 1] = Heads(g[n - 1]) /\ g[n - 1] \subseteq g[n]
        <4> HIDE DEF Heads, N
        <4> QED  BY <1>5, <3>1
      <3> HIDE DEF N
      <3>3. G[g[n - 1]] = g[n - 1] \cup From1(Heads(g[n - 1]))
        BY <2>2
      <3>5. From1(found[n - 1]) = From1(Heads(g[n - 1]))
        BY <3>4
      <3> HIDE DEF G, From1, Heads
      <3> QED  BY <3>2, <3>3, <3>4, <3>5
    <2> QED  BY <2>1, <2>2 DEF Repeats
  <1> DEFINE Y == g[N]
  <1>8. IsLeastFixpoint(Y, {}, G, T)
    <2> HIDE DEF G
    <2> QED  BY <1>6, <1>7, GrowthEnds
  <1>9. found[N] = Heads(Y)
    BY <1>0, <1>5
  <1> HIDE DEF found
  <1>10. Y \in SUBSET T /\ G[Y] = Y
    <2> HIDE DEF Y
    <2> QED  BY <1>8 DEF IsLeastFixpoint
  <1> HIDE DEF Y
  <1>11. From1(Heads(Y)) \subseteq Y
    BY <1>10
  <1>12. ASSUME NEW Z, node \in Z, \A e \in T : e[1] \in Z => e[2] \in Z
         PROVE  Heads(Y) \subseteq Z
    <2> DEFINE D == {e \in T : e[2] \in Z}
    <2>1. \A X \in SUBSET D : G[X] \subseteq D
      <3> TAKE X \in SUBSET D
      <3>1. G[X] = X \cup From1(Heads(X))
        OBVIOUS
      <3>2. Heads(X) \subseteq Z
        BY <1>12
      <3>3. From1(Heads(X)) \subseteq D
        BY <1>12, <3>2
      <3> QED  BY <3>1, <3>3
    <2>2. D \in SUBSET T /\ {} \subseteq D
      OBVIOUS
    <2> HIDE DEF D, G
    <2>3. Y \subseteq D
      BY <1>8, <2>1, <2>2 DEF IsLeastFixpoint
    <2> QED  BY <1>12, <2>3 DEF D
  <1>13. /\ node \in Heads(Y)
         /\ \A e \in T : e[1] \in Heads(Y) => e[2] \in Heads(Y)
    <2>1. ASSUME NEW e \in T, e[1] \in Heads(Y)
          PROVE  e[2] \in Heads(Y)
      <3>1. e \in From1(Heads(Y))
        BY <2>1
      <3> QED  BY <1>11, <3>1
    <2> QED  BY <2>1
  <1> DEFINE R == Heads(Y)
  <1>14. ReachedFrom(node, T) = R
    BY <1>2, <1>9
  <1> HIDE DEF Heads, R
  <1> QED  BY <1>12, <1>13, <1>14 DEF R

\* The exits of a walk lead from its start to where it is: they never go round in a circle.
Leads(w, tree) ==
    /\ w.at \notin tree /\ DOMAIN w.left_by \cap tree = {}
    /\ w.start \in DOMAIN w.left_by \cup {w.at}
    /\ \A n \in DOMAIN w.left_by : w.left_by[n].to \in DOMAIN w.left_by \cup {w.at}
    /\ \A X \in SUBSET (DOMAIN w.left_by \ {w.at}) : X # {} => \E n \in X : w.left_by[n].to \notin X

\* What a walk that has come to the tree adds to it.
Joins(chain, left_by, tree) ==
    /\ chain \subseteq DOMAIN left_by
    /\ \A n \in chain : left_by[n].to \in chain \cup tree
    /\ \A X : X # {} => \E n \in X : n \in chain => left_by[n].to \notin X

\* Before its first step.
LEMMA StartLeads ==
    ASSUME NEW node, NEW tree, node \notin tree
    PROVE  Leads(WalkFrom(node), tree)
  <1>1. DOMAIN WalkFrom(node).left_by = {} /\ WalkFrom(node).at = node /\ WalkFrom(node).start = node
    BY DEF WalkFrom
  <1> QED  BY <1>1 DEF Leads

\* A step that does not reach the tree: only the last exits from the nodes count.
LEMMA StepLeads ==
    ASSUME NEW w, NEW tree, Leads(w, tree), NEW exit, exit.to \notin tree, NEW t,
           NEW u, u = [start |-> w.start, at |-> exit.to, left_by |-> RecordExit(w, exit), tries |-> t]
    PROVE  Leads(u, tree)
  <1> DEFINE lb == RecordExit(w, exit)
             D == DOMAIN w.left_by \cup {w.at}
  <1>1. DOMAIN lb = D /\ lb[w.at] = exit /\ \A n \in DOMAIN w.left_by \ {w.at} : lb[n] = w.left_by[n]
    BY DEF RecordExit
  <1>2. u.left_by = lb /\ u.at = exit.to /\ u.start = w.start
    OBVIOUS
  <1> HIDE DEF lb
  <1>3. \A n \in D : lb[n].to \in D \cup {exit.to}
    BY <1>1 DEF Leads
  <1>4. ASSUME NEW X \in SUBSET (D \ {exit.to}), X # {}
        PROVE  \E n \in X : lb[n].to \notin X
    <2>1. CASE w.at \in X
      BY <1>1, <2>1
    <2>2. CASE w.at \notin X
      <3>1. X \in SUBSET (DOMAIN w.left_by \ {w.at})
        BY <2>2
      <3>2. PICK n \in X : w.left_by[n].to \notin X
        BY <1>4, <3>1 DEF Leads
      <3> QED  BY <1>1, <3>1, <3>2
    <2> QED  BY <2>1, <2>2
  <1>5. D \cap tree = {} /\ w.start \in D
    BY DEF Leads
  <1> QED  BY <1>1, <1>2, <1>3, <1>4, <1>5 DEF Leads

\* What a chain is: its nodes are left for others of it, or for the tree.
LEMMA ChainIs ==
    ASSUME NEW left_by, IsFiniteSet(DOMAIN left_by), NEW tree, DOMAIN left_by \cap tree = {},
           NEW start \in DOMAIN left_by, \A n \in DOMAIN left_by : left_by[n].to \in DOMAIN left_by \cup tree
    PROVE  /\ Chain(start, left_by, tree) \subseteq DOMAIN left_by
           /\ \A n \in Chain(start, left_by, tree) : left_by[n].to \in Chain(start, left_by, tree) \cup tree
  <1> DEFINE D == DOMAIN left_by
             N == Cardinality(D)
             A == D \cup tree
             Onward(n) == IF n \in tree THEN n ELSE left_by[n].to
             h == [k \in 1 .. N |-> [n \in A |-> Onward(n)]]
             Goes(f) == f = [k \in 0 .. N |->
                               IF k = 0 THEN start
                               ELSE LET n == f[k - 1] IN IF n \in tree THEN n ELSE left_by[n].to]
             node == CHOOSE f : Goes(f)
  <1>0. N \in Nat
    BY FS_CardinalityType
  <1>1. \E f : Goes(f) /\ f \in [0 .. N -> A]
    <2>1. start \in A
      OBVIOUS
    <2>2. h \in [1 .. N -> [A -> A]]
      <3>1. \A n \in A : Onward(n) \in A
        OBVIOUS
      <3> QED  BY <3>1
    <2>3. PICK f \in [0 .. N -> A] : IsIteration(f, N, start, h)
      <3> HIDE DEF N, h, A
      <3> QED  BY <1>0, <2>1, <2>2, IterationExists
    <2>4. \A k \in 1 .. N : h[k][f[k - 1]] = Onward(f[k - 1])
      <3> TAKE k \in 1 .. N
      <3>1. k - 1 \in 0 .. N
        BY <1>0
      <3>2. f[k - 1] \in A
        BY <2>3, <3>1
      <3> QED  BY <3>2
    <2>5. \A k \in 0 .. N : k # 0 => k \in 1 .. N
      BY <1>0
    <2> HIDE DEF h, N, A
    <2>6. Goes(f)
      BY <2>3, <2>4, <2>5 DEF IsIteration
    <2> QED  BY <2>3, <2>6
  <1>2. Chain(start, left_by, tree) = {node[k] : k \in DOMAIN node} \ tree
    BY DEF Chain
  <1>3. Goes(node)
    <2> HIDE DEF Goes
    <2> QED  BY <1>1
  <1> HIDE DEF node
  <1>4. DOMAIN node = 0 .. N
    BY <1>3
  <1>5. node[0] = start
    <2>1. 0 \in 0 .. N
      BY <1>0
    <2> HIDE DEF N
    <2> QED  BY <1>3, <2>1
  <1>6. \A k \in 1 .. N : node[k] = Onward(node[k - 1])
    <2> TAKE k \in 1 .. N
    <2>1. k \in 0 .. N /\ k # 0
      BY <1>0
    <2> HIDE DEF N
    <2> QED  BY <1>3, <2>1
  <1> HIDE DEF Goes
  <1> DEFINE G == [X \in SUBSET D |-> X \cup ({left_by[n].to : n \in X} \cap D)]
             g == [k \in 0 .. N |-> {node[j] : j \in 0 .. k} \cap D]
  <1>7. \A k \in 0 .. N : node[k] \in A
    <2> DEFINE S == {k \in Nat : k <= N => node[k] \in A}
    <2>1. 0 \in S
      BY <1>5
    <2>2. ASSUME NEW k \in Nat, k \in S
          PROVE  k + 1 \in S
      <3>1. (k + 1) - 1 = k /\ k + 1 \in Nat
        OBVIOUS
      <3>2. ASSUME k + 1 <= N
            PROVE  node[k + 1] \in A
        <4>1. k + 1 \in 1 .. N /\ k <= N
          BY <1>0, <3>2
        <4>2. node[k + 1] = Onward(node[k])
          <5> HIDE DEF N, Onward
          <5> QED  BY <1>6, <3>1, <4>1
        <4>3. node[k] \in A
          BY <2>2, <4>1
        <4> QED  BY <4>2, <4>3
      <3> QED  BY <3>1, <3>2
    <2>3. Nat \subseteq S
      <3> HIDE DEF S
      <3> QED  BY <2>1, <2>2, SetInduction
    <2> TAKE k \in 0 .. N
    <2>4. k \in Nat /\ k <= N
      BY <1>0
    <2> QED  BY <2>3, <2>4
  <1>8. IsGrowth(G, D)
    BY DEF IsGrowth
  <1>9. /\ g[0] = {start}
        /\ \A k \in 0 .. N : g[k] = {node[j] : j \in 0 .. k} \cap D
    <2>1. 0 \in 0 .. N /\ 0 .. 0 = {0}
      BY <1>0
    <2>2. g[0] = {node[j] : j \in 0 .. 0} \cap D
      BY <2>1
    <2>3. {node[j] : j \in 0 .. 0} = {start}
      BY <1>5, <2>1
    <2> QED  BY <2>2, <2>3
  <1> HIDE DEF g
  <1>10. Repeats(g, {start}, G, N, SUBSET D)
    <2>1. ASSUME NEW k \in 1 .. N
          PROVE  g[k] = G[g[k - 1]]
      <3> DEFINE Y == g[k - 1]
      <3>1. k \in 0 .. N /\ k - 1 \in 0 .. N /\ 0 .. k = (0 .. k - 1) \cup {k}
        BY <1>0
      <3>2. Y = {node[j] : j \in 0 .. k - 1} \cap D /\ g[k] = {node[j] : j \in 0 .. k} \cap D
        <4> HIDE DEF N, D
        <4> QED  BY <1>9, <3>1
      <3>3. Y \in SUBSET D
        BY <3>2
      <3>4. G[Y] = Y \cup ({left_by[n].to : n \in Y} \cap D)
        <4> HIDE DEF Y
        <4> QED  BY <3>3
      <3>5. \A j \in 0 .. k - 1 : node[j] \in D => left_by[node[j]].to = node[j + 1] /\ j + 1 \in 0 .. k
        <4> TAKE j \in 0 .. k - 1
        <4>1. j + 1 \in 1 .. N /\ (j + 1) - 1 = j /\ j + 1 \in 0 .. k
          BY <1>0
        <4>2. node[j + 1] = Onward(node[j])
          <5> HIDE DEF N, Onward
          <5> QED  BY <1>6, <4>1
        <4> QED  BY <4>1, <4>2
      <3>6. {left_by[n].to : n \in Y} \cap D \subseteq g[k]
        <4> SUFFICES ASSUME NEW n \in Y, left_by[n].to \in D
                     PROVE  left_by[n].to \in g[k]
          OBVIOUS
        <4>1. PICK j \in 0 .. k - 1 : n = node[j] /\ node[j] \in D
          BY <3>2
        <4>2. left_by[n].to = node[j + 1] /\ j + 1 \in 0 .. k
          BY <3>5, <4>1
        <4> QED  BY <3>2, <4>2
      <3>7. Y \subseteq g[k]
        BY <3>1, <3>2
      <3>8. g[k] \subseteq Y \cup ({left_by[n].to : n \in Y} \cap D)
        <4> SUFFICES ASSUME NEW x \in g[k], x \notin Y
                     PROVE  \E n \in Y : x = left_by[n].to
          BY <3>2
        <4>1. x = node[k] /\ x \in D
          BY <3>1, <3>2
        <4>2. node[k] = Onward(node[k - 1])
          BY <1>6
        <4>3. node[k - 1] \notin tree
          <5>1. ASSUME node[k - 1] \in tree
                PROVE  FALSE
            <6>1. x \in tree
              BY <4>1, <4>2, <5>1
            <6> QED  BY <4>1, <6>1
          <5> QED  BY <5>1
        <4>4. node[k - 1] \in A
          <5> HIDE DEF A, N
          <5> QED  BY <1>7, <3>1
        <4>5. node[k - 1] \in Y
          <5>1. k - 1 \in 0 .. k - 1
            BY <3>1, <1>0
          <5>2. node[k - 1] \in D
            BY <4>3, <4>4
          <5> QED  BY <3>2, <5>1, <5>2
        <4> QED  BY <4>1, <4>2, <4>3, <4>5
      <3> HIDE DEF Y, G
      <3>9. g[k] = G[Y]
        BY <3>4, <3>6, <3>7, <3>8
      <3> QED  BY <3>9 DEF Y
    <2> HIDE DEF G, N
    <2> QED  BY <1>9, <2>1 DEF Repeats
  <1> DEFINE C == g[N]
  <1>11. IsLeastFixpoint(C, {start}, G, D)
    <2>1. {start} \in SUBSET D /\ IsFiniteSet(D)
      OBVIOUS
    <2> HIDE DEF G, D
    <2> QED  BY <1>8, <1>10, <2>1, GrowthEnds
  <1>12. C \in SUBSET D /\ G[C] = C
    <2> HIDE DEF C, G, D
    <2> QED  BY <1>11 DEF IsLeastFixpoint
  <1>13. Chain(start, left_by, tree) = C
    <2>1. N \in 0 .. N
      BY <1>0
    <2>2. C = {node[j] : j \in 0 .. N} \cap D
      BY <1>9, <2>1
    <2>3. {node[j] : j \in 0 .. N} \cap D = {node[j] : j \in 0 .. N} \ tree
      BY <1>7
    <2> QED  BY <1>2, <1>4, <2>2, <2>3
  <1> HIDE DEF C
  <1>14. \A n \in C : left_by[n].to \in C \cup tree
    BY <1>12
  <1> QED  BY <1>12, <1>13, <1>14

\* A walk that comes to the tree: its chain joins it.
LEMMA ChainJoins ==
    ASSUME NEW w, NEW tree, Leads(w, tree), NEW exit, exit.to \in tree, IsFiniteSet(DOMAIN w.left_by)
    PROVE  /\ Joins(Chain(w.start, RecordExit(w, exit), tree), RecordExit(w, exit), tree)
           /\ DOMAIN RecordExit(w, exit) \cap tree = {}
  <1> DEFINE lb == RecordExit(w, exit)
             D == DOMAIN w.left_by \cup {w.at}
             chain == Chain(w.start, lb, tree)
  <1>1. DOMAIN lb = D /\ lb[w.at] = exit /\ \A n \in DOMAIN w.left_by \ {w.at} : lb[n] = w.left_by[n]
    BY DEF RecordExit
  <1> HIDE DEF lb
  <1>2. D \cap tree = {} /\ w.start \in D
    BY DEF Leads
  <1>3. \A n \in D : lb[n].to \in D \cup tree
    BY <1>1 DEF Leads
  <1>4. IsFiniteSet(D)
    BY FS_AddElement
  <1>5. chain \subseteq D /\ \A n \in chain : lb[n].to \in chain \cup tree
    <2>1. IsFiniteSet(DOMAIN lb) /\ DOMAIN lb \cap tree = {} /\ w.start \in DOMAIN lb
          /\ \A n \in DOMAIN lb : lb[n].to \in DOMAIN lb \cup tree
      BY <1>1, <1>2, <1>3, <1>4
    <2> HIDE DEF D
    <2> QED  BY <1>1, <2>1, ChainIs
  <1>6. ASSUME NEW X, X # {}
        PROVE  \E n \in X : n \in chain => lb[n].to \notin X
    <2>1. CASE ~(X \subseteq chain)
      BY <2>1
    <2>2. CASE X \subseteq chain /\ w.at \in X
      <3>1. exit.to \notin D
        BY <1>2
      <3> QED  BY <1>1, <1>5, <2>2, <3>1
    <2>3. CASE X \subseteq chain /\ w.at \notin X
      <3>1. X \in SUBSET (DOMAIN w.left_by \ {w.at})
        BY <1>5, <2>3
      <3>2. PICK n \in X : w.left_by[n].to \notin X
        BY <1>6, <3>1 DEF Leads
      <3> QED  BY <1>1, <3>1, <3>2
    <2> QED  BY <2>1, <2>2, <2>3
  <1>7. Joins(chain, lb, tree)
    <2> HIDE DEF chain, D
    <2> QED  BY <1>1, <1>5, <1>6 DEF Joins
  <1> QED  BY <1>1, <1>2, <1>7 DEF lb

\* A connected part of the map has a spanning tree.
LEMMA TreesExist ==
    ASSUME NEW S \in SUBSET Vertices, S # {}, Connected(S, Edges)
    PROVE  SpanningTrees(S) # {}
  <1> DEFINE E == Inside(S, Edges)
  <1>1. E \in SUBSET Edges /\ IsFiniteSet(E) /\ Links(E) /\ IsFiniteSet(S) /\ IsFiniteSet(Edges) /\ Links(Edges)
    BY GraphFacts DEF Inside
  <1>2. Connected(S, E)
    BY <1>1, ConnectedMore
  <1>3. PICK X \in SUBSET E :
              /\ SameClosed(S, {} \cup X, {} \cup E)
              /\ IsFiniteSet(X) /\ Cardinality(X) \in Nat
              /\ Cardinality(X) <= Cardinality(Components(S, {})) - Cardinality(Components(S, {} \cup E))
    <2> HIDE DEF E
    <2> QED  BY <1>1, JoinPieces
  <1>4. {} \cup E = E /\ {} \cup X = X
    OBVIOUS
  <1>5. Cardinality(Components(S, E)) = 1
    <2> HIDE DEF E
    <2> QED  BY <1>1, <1>2, OnePiece
  <1>6. Cardinality(Components(S, {})) = Cardinality(S)
    BY <1>1, SinglePieces
  <1>7. Connected(S, X)
    <2>1. \A D : Closed(D, S, X) <=> Closed(D, S, E)
      BY <1>3, <1>4 DEF SameClosed
    <2> HIDE DEF E
    <2> QED  BY <1>1, <1>2, <2>1, ConnectedIsClosed
  <1>8. X \in SUBSET Edges /\ Links(X) /\ Inside(S, X) = X
    BY <1>1, <1>3 DEF Inside, Links
  <1>9. Cardinality(X) >= Cardinality(S) - 1
    <2>1. Cardinality(Inside(S, X)) >= Cardinality(S) - 1
      BY <1>1, <1>3, <1>7, <1>8, EdgesToConnect
    <2> QED  BY <1>8, <2>1
  <1>10. Cardinality(X) = Cardinality(S) - 1
    <2>1. Cardinality(S) \in Nat
      BY <1>1, FS_CardinalityType
    <2>2. Cardinality(X) <= Cardinality(S) - 1
      BY <1>3, <1>4, <1>5, <1>6
    <2> QED  BY <1>3, <1>9, <2>1, <2>2
  <1>11. IsTree(S, X)
    BY <1>1, <1>3, <1>7, <1>8, <1>10 DEF IsTree, Inside
  <1>12. X \in SpanningTrees(S)
    BY <1>1, <1>8, <1>11, FewestToConnect DEF SpanningTrees
  <1> QED  BY <1>12

\* The directed tree a search finds: every vertex but the root has one above it.
LEMMA SomeTreeIs ==
    ASSUME NEW S \in SUBSET Vertices, NEW from \in S, Connected(S, Edges)
    PROVE  /\ Covers(SomeTree(S, from), S \ {from}) /\ Downward(SomeTree(S, from))
           /\ \A e \in SomeTree(S, from) : e \in S \X S /\ {e[1], e[2]} \in Edges
  <1> DEFINE T == CHOOSE U \in SpanningTrees(S) : TRUE
             M == SomeTree(S, from)
  <1>0. T \in SpanningTrees(S)
    BY TreesExist
  <1>1. T \in SUBSET Edges /\ IsTree(S, T) /\ IsFiniteSet(S)
    <2>1. IsFiniteSet(S) /\ IsFiniteSet(Edges) /\ Links(Edges)
      BY GraphFacts
    <2> HIDE DEF T
    <2> QED  BY <1>0, <2>1, FewestToConnect DEF SpanningTrees
  <1>2. M = {p \in S \X (S \ {from}) : {p[1], p[2]} \in T /\ p[1] \in Component(from, S \ {p[2]}, T)}
    BY DEF SomeTree
  <1> HIDE DEF T, M
  <1>3. \A p, v : {p, v} \in T => p # v /\ p \in S /\ v \in S
    <2>1. \A e \in T : e \subseteq S /\ \E a, b : a # b /\ e = {a, b}
      BY <1>1 DEF IsTree, Links
    <2> TAKE p, v
    <2> HAVE {p, v} \in T
    <2>2. PICK a, b : a # b /\ {p, v} = {a, b}
      BY <2>1
    <2> QED  BY <2>1, <2>2
  <1>4. ASSUME NEW v \in S \ {from}
        PROVE  \E p \in S : <<p, v>> \in M /\ \A q : <<q, v>> \in M => q = p
    <2>1. PICK p : Hangs(S, T, from, v, p)
      BY <1>1, SomethingAbove
    <2>2. {v, p} \in T /\ v # p
      BY <2>1 DEF Hangs
    <2>3. S \ Component(from, S \ {v}, T) = SideOf(S, T, v, p)
      <3>1. Inside(S, T) \subseteq T
        BY DEF Inside
      <3> QED  BY <1>1, <2>1, <3>1, CutOffBelow
    <2>4. p \in S /\ p \notin SideOf(S, T, v, p)
      BY <1>1, <2>1, <2>2, HangsOneWay
    <2>5. {p, v} = {v, p}
      OBVIOUS
    <2>6. <<p, v>> \in M
      BY <1>2, <2>2, <2>3, <2>4, <2>5
    <2>7. ASSUME NEW q, <<q, v>> \in M, q # p
          PROVE  FALSE
      <3>1. {q, v} \in T /\ q \in Component(from, S \ {v}, T) /\ q \in S
        BY <1>2, <2>7
      <3>2. {v, q} = {q, v} /\ q # v
        BY <1>3, <3>1
      <3>3. Hangs(S, T, from, q, v)
        BY <1>1, <2>1, <2>7, <3>1, <3>2, OthersHang
      <3>4. q \in SideOf(S, T, q, v)
        BY <1>1, <3>1, <3>2, HangsOneWay
      <3>5. SideOf(S, T, v, p) = {v} \cup UNION {SideOf(S, T, c, v) : c \in NextTo(T, S, v) \ {p}}
        BY <1>1, <2>2, SideIs
      <3>6. q \in NextTo(T, S, v) \ {p}
        BY <2>7, <3>1, <3>2 DEF NextTo
      <3>7. q \in SideOf(S, T, v, p)
        BY <3>4, <3>5, <3>6
      <3> QED  BY <2>3, <3>1, <3>7
    <2> QED  BY <2>4, <2>6, <2>7
  <1>5. Covers(M, S \ {from})
    <2>1. \A e \in M : e = <<e[1], e[2]>> /\ e[2] \in S \ {from}
      BY <1>2
    <2>2. \A v \in S \ {from} : \E e \in M : e[2] = v
      BY <1>4
    <2>3. ASSUME NEW e \in M, NEW f \in M, e[2] = f[2]
          PROVE  e = f
      <3>1. e = <<e[1], e[2]>> /\ f = <<f[1], e[2]>> /\ e[2] \in S \ {from}
        BY <2>1, <2>3
      <3> QED  BY <1>4, <3>1
    <2> QED  BY <2>1, <2>2, <2>3 DEF Covers
  <1>6. ASSUME NEW X, X # {}
        PROVE  \E x \in X : \A e \in M : e[2] = x => e[1] \notin X
    <2>1. CASE ~(X \subseteq S \ {from})
      BY <1>2, <2>1
    <2>2. CASE X \subseteq S \ {from}
      <3> DEFINE R == S \ X
                 C == Component(from, R, T)
      <3>1. from \in R /\ IsFiniteSet(R) /\ R \subseteq S
        BY <1>1, <2>2, FS_Subset
      <3>2. from \in C /\ Closed(C, R, T)
        <4> HIDE DEF R
        <4> QED  BY <3>1, ComponentIsLeast
      <3> HIDE DEF C
      <3>3. ~Closed(C, S, T)
        <4>1. Connected(S, T)
          BY <1>1 DEF IsTree
        <4>2. C # {} /\ C # S
          BY <1>6, <2>2, <3>2 DEF Closed
        <4> QED  BY <1>1, <4>1, <4>2, ConnectedIsClosed
      <3>4. PICK e \in Inside(S, T) : e \cap C # {} /\ ~(e \subseteq C)
        BY <3>1, <3>2, <3>3 DEF Closed
      <3>5. PICK a, b : e = {a, b} /\ a \in C /\ b \notin C
        <4>1. PICK u, v : e = {u, v}
          BY <1>1, <3>4 DEF IsTree, Links, Inside
        <4>2. (u \in C /\ v \notin C) \/ (v \in C /\ u \notin C)
          BY <3>4, <4>1
        <4>3. e = {v, u}
          BY <4>1
        <4> QED  BY <4>1, <4>2, <4>3
      <3>6. {a, b} \in T /\ a \in S /\ b \in S /\ a \notin X
        BY <3>2, <3>4, <3>5 DEF Closed, Inside
      <3>7. b \in X
        <4>1. ASSUME b \in R
              PROVE  FALSE
          <5>1. a \in R
            BY <3>2, <3>5 DEF Closed
          <5>2. {a, b} \in Inside(R, T)
            BY <3>6, <4>1, <5>1 DEF Inside
          <5> QED  BY <3>2, <3>5, <5>2 DEF Closed
        <4> QED  BY <3>6, <4>1
      <3>8. a \in Component(from, S \ {b}, T)
        <4> DEFINE Q == S \ {b}
                   K == Component(from, Q, T)
        <4>1. from \in Q /\ IsFiniteSet(Q) /\ R \subseteq Q
          BY <1>1, <2>2, <3>7, FS_RemoveElement
        <4>2. from \in K /\ Closed(K, Q, T)
          <5> HIDE DEF Q
          <5> QED  BY <4>1, ComponentIsLeast
        <4> HIDE DEF K, Q, R
        <4>3. Closed(K \cap R, R, T)
          BY <4>1, <4>2 DEF Closed, Inside
        <4>4. C \subseteq K \cap R
          BY <3>1, <4>2, <4>3, ComponentIsLeast DEF C
        <4> QED  BY <3>5, <4>4 DEF K, Q
      <3>9. <<a, b>> \in M
        BY <1>2, <2>2, <3>6, <3>7, <3>8
      <3>10. ASSUME NEW f \in M, f[2] = b
             PROVE  f[1] \notin X
        <4>1. <<a, b>>[2] = b /\ <<a, b>>[1] = a
          OBVIOUS
        <4>2. f = <<a, b>>
          BY <1>5, <3>9, <3>10, <4>1 DEF Covers
        <4> QED  BY <3>6, <4>1, <4>2
      <3> QED  BY <3>7, <3>10
    <2> QED  BY <2>1, <2>2
  <1>7. \A e \in M : e \in S \X S /\ {e[1], e[2]} \in Edges
    BY <1>1, <1>2
  <1> QED  BY <1>5, <1>6, <1>7 DEF Downward, M

-----------------------------------------------------------------------------
(* What holds of a draw under way. *)
\* The edges that leave a precinct of the region; those that stay in a county,
\* and the steps between counties of the others.
OwnEdges(T) == {e \in T : e[1] \in active}

WithinEdges(T) == {e \in OwnEdges(T) : counties[e[1]] = counties[e[2]]}

StepsOf(M) == {<<counties[e[1]], counties[e[2]]>> : e \in M}

CountySteps(T) == StepsOf(OwnEdges(T) \ WithinEdges(T))

\* The region and its counties, which never change.
RegionToDraw ==
    /\ active \in SUBSET Vertices /\ active # {} /\ ActiveCounties \in SUBSET Nat
    /\ \A u, v \in active : {u, v} \in Edges /\ map_counties[u] = map_counties[v] => counties[u] = counties[v]
    /\ \A c \in ActiveCounties : Connected(CountyPart(counties, active, c), Edges)

\* The edges drawn so far cover what is marked as visited, and lead down from
\* the root: between counties, and within each from where it was entered.
TreeSoFar(T, marked, c_marked, entered) ==
    /\ T \subseteq Vertices \X Vertices
    /\ ignore \subseteq marked /\ root \in marked
    /\ \A e \in OwnEdges(T) : e[2] \in active /\ {e[1], e[2]} \in Edges
    /\ Covers(OwnEdges(T), (active \cap marked) \ {root})
    /\ Downward(CountySteps(T)) /\ Downward(WithinEdges(T))
    /\ \A e \in WithinEdges(T) : e[1] \in marked
    /\ \A e \in OwnEdges(T) \ WithinEdges(T) : entered[counties[e[2]]] = e[2] /\ counties[e[1]] \in c_marked
    /\ ActiveCounties \subseteq DOMAIN entered /\ entered[counties[root]] = root
    /\ \A c \in ActiveCounties \cap c_marked : entered[c] \in active \cap marked /\ counties[entered[c]] = c
    /\ \A v \in active \cap marked : counties[v] \in c_marked

\* While counties are connected a county is entered and nothing else of it is reached.
OnlyEntered(T, marked, entered) ==
    /\ WithinEdges(T) = {}
    /\ \A v \in active \cap marked : entered[counties[v]] = v

\* A walk between counties, and one between precincts.
IsCountyWalk(w) ==
    /\ Leads(w, c_visited) /\ w.at \in ActiveCounties
    /\ \A c \in DOMAIN w.left_by : c \in ActiveCounties /\ w.left_by[c] \in AdminExits(c)

IsVertexWalk(w) ==
    /\ Leads(w, visited) /\ w.at \in active
    /\ \A v \in DOMAIN w.left_by : v \in active /\ w.left_by[v] \in VertexExits(v)

IsWalk(w) == w = [start |-> w.start, at |-> w.at, left_by |-> w.left_by, tries |-> w.tries]

Drawing ==
    /\ TreeSoFar(ust, visited, c_visited, admin_roots)
    /\ remaining = Cardinality(active \ visited)
    /\ stage = "connect" => OnlyEntered(ust, visited, admin_roots)
    /\ stage = "draw" => ActiveCounties \subseteq c_visited
    /\ walk # NoWalk => /\ IsWalk(walk)
                        /\ stage = "connect" => IsCountyWalk(walk)
                        /\ stage = "draw" => IsVertexWalk(walk)

DrawInv == RegionToDraw /\ (stage \in {"connect", "draw"} => Drawing)

\* The region is finite, and its root is in it.
LEMMA RegionIs ==
    ASSUME RegionToDraw
    PROVE  /\ active \in SUBSET Nat /\ IsFiniteSet(active) /\ root \in active
           /\ IsFiniteSet(ActiveCounties) /\ \A v \in active : counties[v] \in ActiveCounties
  <1>1. active \in SUBSET Vertices /\ active # {}
    BY DEF RegionToDraw
  <1>2. active \in SUBSET Nat /\ IsFiniteSet(active)
    BY <1>1, GraphFacts, MapAssumption
  <1>3. root \in active
    <2> DEFINE A == active
    <2>1. A \in SUBSET Nat /\ A # {}
      BY <1>1, <1>2
    <2> HIDE DEF A
    <2>2. Min(A) \in A
      BY <2>1, LeastIs
    <2> QED  BY <2>2 DEF root, A
  <1>4. IsFiniteSet(ActiveCounties)
    <2> DEFINE f == [v \in active |-> counties[v]]
               C == ActiveCounties
    <2>1. \A v \in active : f[v] \in C
      BY DEF ActiveCounties, CountiesIn
    <2>2. \A c \in C : \E v \in active : f[v] = c
      BY DEF ActiveCounties, CountiesIn
    <2>3. f \in Surjection(active, C)
      <3> HIDE DEF C
      <3>1. f \in [active -> C]
        BY <2>1
      <3> QED  BY <2>2, <3>1 DEF Surjection
    <2> HIDE DEF f, C
    <2>4. IsFiniteSet(C)
      BY <1>2, <2>3, FS_Surjection
    <2> QED  BY <2>4 DEF C
  <1>5. \A v \in active : counties[v] \in ActiveCounties
    BY DEF ActiveCounties, CountiesIn
  <1> QED  BY <1>2, <1>3, <1>4, <1>5

\* What a walk between counties adds, and where it enters them.
EdgesTaken(chain, left_by) == {left_by[c].edge : c \in chain}

EndsReached(chain, left_by) == {left_by[c].edge[2] : c \in chain}

EnteredBy(entered, chain, left_by) ==
    [c \in DOMAIN entered |-> IF c \in chain THEN left_by[c].edge[2] ELSE entered[c]]

\* A walk between counties joins the tree: every county on it is entered once.
LEMMA CountiesJoin ==
    ASSUME RegionToDraw, NEW T, NEW marked, NEW c_marked, NEW entered,
           TreeSoFar(T, marked, c_marked, entered), OnlyEntered(T, marked, entered),
           NEW chain, NEW left_by, Joins(chain, left_by, c_marked),
           \A c \in chain : c \in ActiveCounties /\ c \notin c_marked /\ left_by[c] \in AdminExits(c)
    PROVE  /\ TreeSoFar(T \cup EdgesTaken(chain, left_by), marked \cup EndsReached(chain, left_by), c_marked \cup chain,
                        EnteredBy(entered, chain, left_by))
           /\ OnlyEntered(T \cup EdgesTaken(chain, left_by), marked \cup EndsReached(chain, left_by),
                          EnteredBy(entered, chain, left_by))
           /\ \A c \in chain : left_by[c].edge[2] \in active \ marked /\ counties[left_by[c].edge[2]] = c
  <1> DEFINE r(c) == left_by[c].edge[2]
             p(c) == left_by[c].edge[1]
             M == EdgesTaken(chain, left_by)
             R == EndsReached(chain, left_by)
             after == EnteredBy(entered, chain, left_by)
             N == OwnEdges(T)
             W == (active \cap marked) \ {root}
  <1>1. ASSUME NEW c \in chain
        PROVE  /\ left_by[c].edge = <<p(c), r(c)>> /\ p(c) \in active /\ r(c) \in active
               /\ {p(c), r(c)} \in Edges /\ counties[r(c)] = c /\ counties[p(c)] # c
               /\ left_by[c].to = counties[p(c)]
    <2>1. PICK q \in active \X active :
             /\ {q[1], q[2]} \in Edges /\ counties[q[1]] = c /\ counties[q[2]] # c
             /\ left_by[c] = [to |-> counties[q[2]], edge |-> <<q[2], q[1]>>]
      BY DEF AdminExits
    <2>2. left_by[c].edge = <<q[2], q[1]>> /\ left_by[c].to = counties[q[2]]
      BY <2>1
    <2>3. p(c) = q[2] /\ r(c) = q[1]
      BY <2>2
    <2>4. {q[1], q[2]} = {q[2], q[1]}
      OBVIOUS
    <2> QED  BY <2>1, <2>2, <2>3, <2>4
  <1>R. \A v : v \in R <=> \E c \in chain : v = r(c)
    BY DEF EndsReached
  <1>M. \A c \in chain : left_by[c].edge \in M
    BY DEF EdgesTaken
  <1>4. \A e \in M : \E c \in chain : e = <<p(c), r(c)>> /\ e[1] = p(c) /\ e[2] = r(c)
    <2> TAKE e \in M
    <2>1. PICK c \in chain : e = left_by[c].edge
      BY DEF EdgesTaken
    <2>2. left_by[c].edge = <<p(c), r(c)>>
      BY <1>1
    <2> QED  BY <2>1, <2>2
  <1> HIDE DEF r, p, N, W, M, R
  <1>2. ASSUME NEW c \in chain
        PROVE  r(c) \notin marked
    <2>1. r(c) \in active /\ counties[r(c)] = c
      BY <1>1
    <2>2. \A v \in active \cap marked : counties[v] \in c_marked
      BY DEF TreeSoFar
    <2> QED  BY <2>1, <2>2
  <1>3. ASSUME NEW e \in M
        PROVE  /\ e = <<e[1], e[2]>> /\ e[1] \in active /\ e[2] \in active /\ {e[1], e[2]} \in Edges
               /\ counties[e[1]] # counties[e[2]] /\ counties[e[2]] \in chain
               /\ left_by[counties[e[2]]].to = counties[e[1]] /\ e[2] = r(counties[e[2]])
    <2>1. PICK c \in chain : e = <<p(c), r(c)>> /\ e[1] = p(c) /\ e[2] = r(c)
      BY <1>4
    <2>2. /\ p(c) \in active /\ r(c) \in active
          /\ {p(c), r(c)} \in Edges /\ counties[r(c)] = c /\ counties[p(c)] # c
          /\ left_by[c].to = counties[p(c)]
      BY <1>1
    <2> QED  BY <2>1, <2>2
  <1>5. /\ OwnEdges(T \cup M) = N \cup M /\ WithinEdges(T \cup M) = {}
        /\ CountySteps(T \cup M) = CountySteps(T) \cup StepsOf(M)
    <2>1. \A e \in M : e[1] \in active /\ counties[e[1]] # counties[e[2]]
      BY <1>3
    <2>2. WithinEdges(T) = {}
      BY DEF OnlyEntered
    <2>3. OwnEdges(T \cup M) = OwnEdges(T) \cup M
      BY <2>1 DEF OwnEdges
    <2>4. WithinEdges(T \cup M) = WithinEdges(T)
      BY <2>1, <2>3 DEF WithinEdges
    <2>5. CountySteps(T \cup M) = CountySteps(T) \cup StepsOf(M)
      <3>1. OwnEdges(T \cup M) \ WithinEdges(T \cup M) = (OwnEdges(T) \ WithinEdges(T)) \cup M
        BY <2>1 DEF OwnEdges, WithinEdges
      <3> QED  BY <3>1 DEF CountySteps, StepsOf
    <2> QED  BY <2>2, <2>3, <2>4, <2>5 DEF N
  <1>6. Covers(N \cup M, (active \cap (marked \cup R)) \ {root})
    <2>1. Covers(M, R)
      <3>1. \A e \in M : e[2] \in R
        BY <1>3, <1>R
      <3>2. \A v \in R : \E e \in M : e[2] = v
        <4> TAKE v \in R
        <4>1. PICK c \in chain : v = r(c)
          BY <1>R
        <4>2. left_by[c].edge \in M
          BY <1>M
        <4> QED  BY <4>1, <4>2 DEF r
      <3>3. ASSUME NEW e \in M, NEW f \in M, e[2] = f[2]
            PROVE  e = f
        <4>1. PICK c \in chain : e = <<p(c), r(c)>> /\ e[2] = r(c)
          BY <1>4
        <4>2. PICK d \in chain : f = <<p(d), r(d)>> /\ f[2] = r(d)
          BY <1>4
        <4>3. counties[r(c)] = c /\ counties[r(d)] = d
          BY <1>1
        <4>4. c = d
          BY <3>3, <4>1, <4>2, <4>3
        <4> QED  BY <4>1, <4>2, <4>4
      <3> QED  BY <3>1, <3>2, <3>3 DEF Covers
    <2>2. Covers(N, W)
      BY DEF TreeSoFar, N, W
    <2>3. W \cap R = {} /\ W \cup R = (active \cap (marked \cup R)) \ {root}
      <3>1. ASSUME NEW v \in R
            PROVE  v \in active /\ v \notin marked
        <4>1. PICK c \in chain : v = r(c)
          BY <1>R
        <4>2. r(c) \in active /\ r(c) \notin marked
          BY <1>1, <1>2
        <4> QED  BY <4>1, <4>2
      <3>2. root \in marked
        BY DEF TreeSoFar
      <3> QED  BY <3>1, <3>2 DEF W
    <2>4. Covers(N \cup M, W \cup R)
      BY <2>1, <2>2, <2>3, CoversMore
    <2> QED  BY <2>3, <2>4
  <1>7. Downward(CountySteps(T \cup M))
    <2> DEFINE P == CountySteps(T)
               Q == StepsOf(M)
    <2>1. Downward(P)
      BY DEF TreeSoFar
    <2>2. \A q \in Q : q[2] \in chain /\ q[1] = left_by[q[2]].to
      <3> TAKE q \in Q
      <3>1. PICK e \in M : q = <<counties[e[1]], counties[e[2]]>>
        BY DEF StepsOf
      <3>2. counties[e[2]] \in chain /\ left_by[counties[e[2]]].to = counties[e[1]]
        BY <1>3
      <3>3. q[1] = counties[e[1]] /\ q[2] = counties[e[2]]
        BY <3>1
      <3> HIDE DEF Q
      <3> QED  BY <3>2, <3>3
    <2>3. Downward(Q)
      <3> SUFFICES ASSUME NEW X, X # {}
                   PROVE  \E x \in X : \A e \in Q : e[2] = x => e[1] \notin X
        BY DEF Downward
      <3>1. PICK x \in X : x \in chain => left_by[x].to \notin X
        BY DEF Joins
      <3>2. ASSUME NEW e \in Q, e[2] = x
            PROVE  e[1] \notin X
        <4>1. x \in chain /\ e[1] = left_by[x].to
          BY <2>2, <3>2
        <4> QED  BY <3>1, <4>1
      <3> QED  BY <3>2
    <2>4. ASSUME NEW e \in P, NEW f \in Q
          PROVE  f[2] # e[1] /\ f[2] # e[2]
      <3>1. PICK d \in OwnEdges(T) \ WithinEdges(T) : e = <<counties[d[1]], counties[d[2]]>>
        BY DEF CountySteps, StepsOf
      <3>2. e[1] = counties[d[1]] /\ e[2] = counties[d[2]]
        BY <3>1
      <3>3. counties[d[1]] \in c_marked
        BY <3>1 DEF TreeSoFar
      <3>4. counties[d[2]] \in c_marked
        BY <3>1 DEF TreeSoFar, Covers
      <3>5. f[2] \notin c_marked
        BY <2>2
      <3> QED  BY <3>2, <3>3, <3>4, <3>5
    <2>5. CountySteps(T \cup M) = P \cup Q
      BY <1>5
    <2> HIDE DEF P, Q
    <2> QED  BY <2>1, <2>3, <2>4, <2>5, DownwardMore
  <1>8. Downward(WithinEdges(T \cup M))
    BY <1>5 DEF Downward
  <1>9. \A e \in N \cup M : e[2] \in active /\ {e[1], e[2]} \in Edges
    <2>1. \A e \in N : e[2] \in active /\ {e[1], e[2]} \in Edges
      BY DEF TreeSoFar, N
    <2>2. \A e \in M : e[2] \in active /\ {e[1], e[2]} \in Edges
      BY <1>3
    <2> QED  BY <2>1, <2>2
  <1>10. T \cup M \subseteq Vertices \X Vertices
    <2>1. ASSUME NEW e \in M
          PROVE  e \in Vertices \X Vertices
      <3>1. e = <<e[1], e[2]>> /\ e[1] \in Vertices /\ e[2] \in Vertices
        BY <1>3 DEF RegionToDraw
      <3> QED  BY <3>1
    <2> QED  BY <2>1 DEF TreeSoFar
  <1>11. ActiveCounties \subseteq DOMAIN after
    BY DEF TreeSoFar, EnteredBy
  <1>12. ASSUME NEW c \in ActiveCounties
         PROVE  after[c] = IF c \in chain THEN r(c) ELSE entered[c]
    BY <1>11 DEF r, EnteredBy
  <1> HIDE DEF after
  <1>13. ASSUME NEW c \in ActiveCounties \cap (c_marked \cup chain)
         PROVE  after[c] \in active \cap (marked \cup R) /\ counties[after[c]] = c
    <2>1. CASE c \in chain
      <3>1. after[c] = r(c) /\ r(c) \in active /\ r(c) \in R /\ counties[r(c)] = c
        BY <1>1, <1>12, <1>R, <2>1
      <3> QED  BY <3>1
    <2>2. CASE c \notin chain
      BY <1>12, <2>2 DEF TreeSoFar
    <2> QED  BY <2>1, <2>2
  <1>14. ASSUME NEW v \in active \cap (marked \cup R)
         PROVE  counties[v] \in c_marked \cup chain /\ after[counties[v]] = v
    <2>1. counties[v] \in ActiveCounties
      BY RegionIs
    <2>2. CASE v \in R
      <3>1. PICK c \in chain : v = r(c)
        BY <1>R, <2>2
      <3>2. counties[v] = c
        BY <1>1, <3>1
      <3> QED  BY <1>12, <2>1, <3>1, <3>2
    <2>3. CASE v \in marked
      <3>1. counties[v] \in c_marked /\ entered[counties[v]] = v
        BY <2>3 DEF TreeSoFar, OnlyEntered
      <3> QED  BY <1>12, <2>1, <3>1
    <2> QED  BY <2>2, <2>3
  <1>15. ASSUME NEW e \in N \cup M
         PROVE  after[counties[e[2]]] = e[2] /\ counties[e[1]] \in c_marked \cup chain
    <2>1. CASE e \in N
      <3>1. e \in OwnEdges(T) \ WithinEdges(T)
        BY <2>1 DEF OnlyEntered, N
      <3>2. counties[e[1]] \in c_marked /\ e[2] \in active \cap marked
        BY <3>1 DEF TreeSoFar, Covers
      <3> QED  BY <1>14, <3>2
    <2>2. CASE e \in M
      <3>1. /\ e[2] \in active /\ counties[e[2]] \in chain
            /\ left_by[counties[e[2]]].to = counties[e[1]] /\ e[2] = r(counties[e[2]])
        BY <1>3, <2>2
      <3>2. e[2] \in active \cap (marked \cup R)
        BY <1>R, <3>1
      <3>3. counties[e[1]] \in c_marked \cup chain
        BY <3>1 DEF Joins
      <3> QED  BY <1>14, <3>2, <3>3
    <2> QED  BY <2>1, <2>2
  <1>16. after[counties[root]] = root
    <2>1. root \in active \cap (marked \cup R)
      BY RegionIs DEF TreeSoFar
    <2> QED  BY <1>14, <2>1
  <1>17. OnlyEntered(T \cup M, marked \cup R, after)
    BY <1>5, <1>14 DEF OnlyEntered
  <1>18. TreeSoFar(T \cup M, marked \cup R, c_marked \cup chain, after)
    <2>1. ignore \subseteq marked \cup R /\ root \in marked \cup R
      BY DEF TreeSoFar
    <2>2. \A e \in WithinEdges(T \cup M) : e[1] \in marked \cup R
      BY <1>5
    <2> QED  BY <1>5, <1>6, <1>7, <1>8, <1>9, <1>10, <1>11, <1>13, <1>14, <1>15, <1>16, <2>1, <2>2 DEF TreeSoFar
  <1> QED  BY <1>1, <1>2, <1>17, <1>18 DEF r, M, R, after

\* Precincts join the tree by edges that stay in their counties.
LEMMA PrecinctsJoin ==
    ASSUME RegionToDraw, NEW T, NEW marked, NEW c_marked, NEW entered,
           TreeSoFar(T, marked, c_marked, entered),
           NEW R \in SUBSET (active \ marked), \A v \in R : counties[v] \in c_marked,
           NEW M \in SUBSET (active \X active), Covers(M, R), Downward(M),
           \A e \in M : e[1] \in marked \cup R /\ {e[1], e[2]} \in Edges /\ counties[e[1]] = counties[e[2]]
    PROVE  TreeSoFar(T \cup M, marked \cup R, c_marked, entered)
  <1> DEFINE N == OwnEdges(T)
             W == (active \cap marked) \ {root}
  <1>1. \A e \in M : e = <<e[1], e[2]>> /\ e[1] \in active /\ e[2] \in active /\ e[2] \in R
    BY DEF Covers
  <1>2. OwnEdges(T \cup M) = N \cup M /\ WithinEdges(T \cup M) = WithinEdges(T) \cup M
    <2>1. OwnEdges(T \cup M) = OwnEdges(T) \cup M
      BY <1>1 DEF OwnEdges
    <2> QED  BY <2>1 DEF WithinEdges
  <1>3. OwnEdges(T \cup M) \ WithinEdges(T \cup M) = OwnEdges(T) \ WithinEdges(T)
    BY <1>1 DEF OwnEdges, WithinEdges
  <1>4. CountySteps(T \cup M) = CountySteps(T)
    BY <1>3 DEF CountySteps
  <1> HIDE DEF N, W
  <1>5. root \in marked
    BY DEF TreeSoFar
  <1>6. Covers(N \cup M, (active \cap (marked \cup R)) \ {root})
    <2>1. Covers(N, W)
      BY DEF TreeSoFar, N, W
    <2>2. W \cap R = {} /\ W \cup R = (active \cap (marked \cup R)) \ {root}
      BY <1>5 DEF W
    <2>3. Covers(N \cup M, W \cup R)
      BY <2>1, <2>2, CoversMore
    <2> QED  BY <2>2, <2>3
  <1>7. \A e \in WithinEdges(T) : e[1] \in marked /\ e[2] \in marked
    BY DEF TreeSoFar, WithinEdges, Covers
  <1>8. Downward(WithinEdges(T \cup M))
    <2> DEFINE V == WithinEdges(T)
    <2>1. Downward(V)
      BY DEF TreeSoFar
    <2>2. \A e \in V : \A f \in M : f[2] # e[1] /\ f[2] # e[2]
      BY <1>1, <1>7
    <2> HIDE DEF V
    <2>3. Downward(V \cup M)
      BY <2>1, <2>2, DownwardMore
    <2> QED  BY <1>2, <2>3 DEF V
  <1>9. \A e \in N \cup M : e[2] \in active /\ {e[1], e[2]} \in Edges
    <2>1. \A e \in N : e[2] \in active /\ {e[1], e[2]} \in Edges
      BY DEF TreeSoFar, N
    <2> QED  BY <1>1, <2>1
  <1>10. T \cup M \subseteq Vertices \X Vertices
    <2>1. active \subseteq Vertices
      BY DEF RegionToDraw
    <2>2. M \subseteq Vertices \X Vertices
      BY <2>1
    <2> QED  BY <2>2 DEF TreeSoFar
  <1>11. \A e \in WithinEdges(T \cup M) : e[1] \in marked \cup R
    BY <1>2, <1>7
  <1>12. \A e \in OwnEdges(T \cup M) \ WithinEdges(T \cup M) :
            entered[counties[e[2]]] = e[2] /\ counties[e[1]] \in c_marked
    BY <1>3 DEF TreeSoFar
  <1>13. /\ ActiveCounties \subseteq DOMAIN entered /\ entered[counties[root]] = root
         /\ \A c \in ActiveCounties \cap c_marked : entered[c] \in active \cap (marked \cup R) /\ counties[entered[c]] = c
    BY DEF TreeSoFar
  <1>14. \A v \in active \cap (marked \cup R) : counties[v] \in c_marked
    BY DEF TreeSoFar
  <1>15. ignore \subseteq marked \cup R /\ Downward(CountySteps(T \cup M))
    BY <1>4 DEF TreeSoFar
  <1> QED  BY <1>2, <1>5, <1>6, <1>8, <1>9, <1>10, <1>11, <1>12, <1>13, <1>14, <1>15 DEF TreeSoFar

\* A walk between precincts joins the tree.
LEMMA WalkJoins ==
    ASSUME RegionToDraw, NEW T, NEW marked, NEW c_marked, NEW entered,
           TreeSoFar(T, marked, c_marked, entered), ActiveCounties \subseteq c_marked,
           NEW chain, NEW left_by, Joins(chain, left_by, marked),
           \A v \in chain : v \in active \ marked /\ left_by[v] \in VertexExits(v)
    PROVE  TreeSoFar(T \cup {left_by[v].edge : v \in chain}, marked \cup chain, c_marked, entered)
  <1> DEFINE M == {left_by[v].edge : v \in chain}
             p(v) == left_by[v].to
  <1>1. ASSUME NEW v \in chain
        PROVE  /\ left_by[v].edge = <<p(v), v>> /\ p(v) \in active /\ v \in active
               /\ {p(v), v} \in Edges /\ counties[p(v)] = counties[v] /\ p(v) \in chain \cup marked
    <2>1. PICK u \in active :
             {v, u} \in Edges /\ map_counties[u] = map_counties[v] /\ left_by[v] = [to |-> u, edge |-> <<u, v>>]
      BY DEF VertexExits
    <2>2. left_by[v].edge = <<u, v>> /\ p(v) = u
      BY <2>1
    <2>3. {v, u} = {u, v} /\ v \in active
      OBVIOUS
    <2>4. counties[u] = counties[v]
      BY <2>1, <2>3 DEF RegionToDraw
    <2>5. p(v) \in chain \cup marked
      BY DEF Joins
    <2> QED  BY <2>1, <2>2, <2>3, <2>4, <2>5
  <1>2. \A v \in chain : <<p(v), v>> \in M
    <2> TAKE v \in chain
    <2>1. left_by[v].edge \in M
      OBVIOUS
    <2> HIDE DEF M
    <2> QED  BY <1>1, <2>1
  <1>3. ASSUME NEW e \in M
        PROVE  /\ e \in active \X active /\ e[2] \in chain /\ e = <<p(e[2]), e[2]>> /\ e[1] = p(e[2])
               /\ e[1] \in marked \cup chain /\ {e[1], e[2]} \in Edges /\ counties[e[1]] = counties[e[2]]
    <2>1. PICK v \in chain : e = left_by[v].edge
      OBVIOUS
    <2> HIDE DEF M, p
    <2>2. e = <<p(v), v>>
      BY <1>1, <2>1
    <2>3. e[1] = p(v) /\ e[2] = v
      BY <2>2
    <2> QED  BY <1>1, <2>2, <2>3
  <1> HIDE DEF M
  <1>4. Covers(M, chain)
    <2>1. \A v \in chain : \E e \in M : e[2] = v
      <3> TAKE v \in chain
      <3>1. <<p(v), v>>[2] = v
        OBVIOUS
      <3> QED  BY <1>2, <3>1
    <2>2. ASSUME NEW e \in M, NEW f \in M, e[2] = f[2]
          PROVE  e = f
      <3>1. e = <<p(e[2]), e[2]>> /\ f = <<p(f[2]), f[2]>>
        BY <1>3
      <3> QED  BY <2>2, <3>1
    <2> QED  BY <1>3, <2>1, <2>2 DEF Covers
  <1>5. Downward(M)
    <2> SUFFICES ASSUME NEW X, X # {}
                 PROVE  \E x \in X : \A e \in M : e[2] = x => e[1] \notin X
      BY DEF Downward
    <2>1. PICK x \in X : x \in chain => left_by[x].to \notin X
      BY DEF Joins
    <2>2. ASSUME NEW e \in M, e[2] = x
          PROVE  e[1] \notin X
      <3>1. x \in chain /\ e[1] = left_by[x].to
        BY <1>3, <2>2
      <3> QED  BY <2>1, <3>1
    <2> QED  BY <2>2
  <1> HIDE DEF p
  <1>6. chain \in SUBSET (active \ marked) /\ \A v \in chain : counties[v] \in c_marked
    BY RegionIs
  <1>7. M \in SUBSET (active \X active)
    BY <1>3
  <1>8. \A e \in M : e[1] \in marked \cup chain /\ {e[1], e[2]} \in Edges /\ counties[e[1]] = counties[e[2]]
    BY <1>3
  <1>9. TreeSoFar(T \cup M, marked \cup chain, c_marked, entered)
    BY <1>4, <1>5, <1>6, <1>7, <1>8, PrecinctsJoin
  <1> QED  BY <1>9 DEF M

\* The trees of the counties that are filled in.
FilledIn(skipped, entered) == UNION {SomeTree(CountyPart(counties, active, c), entered[c]) : c \in skipped}

PartsOf(skipped) == UNION {CountyPart(counties, active, c) : c \in skipped}

\* Counties are filled in: each has one precinct in the tree, and hangs from it.
LEMMA CountiesFilledIn ==
    ASSUME RegionToDraw, NEW T, NEW marked, NEW c_marked, NEW entered,
           TreeSoFar(T, marked, c_marked, entered), OnlyEntered(T, marked, entered),
           ActiveCounties \subseteq c_marked, NEW skipped \in SUBSET ActiveCounties
    PROVE  TreeSoFar(T \cup FilledIn(skipped, entered), marked \cup (PartsOf(skipped) \ marked), c_marked, entered)
  <1> DEFINE S(c) == CountyPart(counties, active, c)
             U(c) == SomeTree(S(c), entered[c])
             M == FilledIn(skipped, entered)
             R == PartsOf(skipped) \ marked
  <1>1. ASSUME NEW c \in skipped
        PROVE  /\ Covers(U(c), S(c) \ {entered[c]}) /\ Downward(U(c))
               /\ \A e \in U(c) : e \in S(c) \X S(c) /\ {e[1], e[2]} \in Edges
               /\ entered[c] \in S(c) /\ entered[c] \in marked
    <2>1. c \in ActiveCounties /\ c \in ActiveCounties \cap c_marked
      OBVIOUS
    <2>2. entered[c] \in active \cap marked /\ counties[entered[c]] = c
      BY <2>1 DEF TreeSoFar
    <2>3. S(c) \in SUBSET Vertices /\ entered[c] \in S(c)
      BY <2>2 DEF CountyPart, RegionToDraw
    <2>4. Connected(S(c), Edges)
      BY <2>1 DEF RegionToDraw
    <2> HIDE DEF S
    <2>5. /\ Covers(SomeTree(S(c), entered[c]), S(c) \ {entered[c]}) /\ Downward(SomeTree(S(c), entered[c]))
          /\ \A e \in SomeTree(S(c), entered[c]) : e \in S(c) \X S(c) /\ {e[1], e[2]} \in Edges
      BY <2>3, <2>4, SomeTreeIs
    <2> QED  BY <2>2, <2>3, <2>5
  <1>2. \A c : \A v : v \in S(c) <=> v \in active /\ counties[v] = c
    BY DEF CountyPart
  <1>3. \A e : e \in M <=> \E c \in skipped : e \in U(c)
    BY DEF FilledIn
  <1>4. \A v : v \in R <=> v \notin marked /\ \E c \in skipped : v \in S(c)
    BY DEF PartsOf
  <1>5. \A c \in skipped : \A v \in S(c) : v \in marked => v = entered[c]
    BY <1>2 DEF OnlyEntered
  <1> HIDE DEF S, U, M, R
  <1>6. ASSUME NEW e \in M
        PROVE  /\ counties[e[2]] \in skipped /\ e \in U(counties[e[2]]) /\ e[2] # entered[counties[e[2]]]
               /\ e \in active \X active /\ e[1] \in S(counties[e[2]]) /\ e[2] \in S(counties[e[2]])
               /\ {e[1], e[2]} \in Edges /\ counties[e[1]] = counties[e[2]] /\ e[2] \in R
               /\ e[1] \in marked \cup R
    <2>1. PICK c \in skipped : e \in U(c)
      BY <1>3
    <2>2. e[2] \in S(c) \ {entered[c]} /\ e \in S(c) \X S(c) /\ {e[1], e[2]} \in Edges
      BY <1>1, <2>1 DEF Covers
    <2>3. e[1] \in S(c) /\ e[2] \in S(c) /\ e = <<e[1], e[2]>>
      BY <2>2
    <2>4. counties[e[2]] = c /\ counties[e[1]] = c /\ e[1] \in active /\ e[2] \in active
      BY <1>2, <2>3
    <2>5. e[2] \notin marked
      BY <1>5, <2>2
    <2>6. e[2] \in R /\ e[1] \in marked \cup R
      BY <1>4, <2>3, <2>5
    <2> QED  BY <2>1, <2>2, <2>3, <2>4, <2>6
  <1>7. Covers(M, R)
    <2>1. ASSUME NEW v \in R
          PROVE  \E e \in M : e[2] = v
      <3>1. PICK c \in skipped : v \in S(c) /\ v \notin marked
        BY <1>4
      <3>2. v \in S(c) \ {entered[c]}
        BY <1>1, <3>1
      <3>3. PICK e \in U(c) : e[2] = v
        BY <1>1, <3>2 DEF Covers
      <3> QED  BY <1>3, <3>3
    <2>2. ASSUME NEW e \in M, NEW f \in M, e[2] = f[2]
          PROVE  e = f
      <3> DEFINE c == counties[e[2]]
      <3>1. c \in skipped /\ e \in U(c)
        BY <1>6
      <3>2. f \in U(c)
        BY <1>6, <2>2
      <3> HIDE DEF c
      <3> QED  BY <1>1, <2>2, <3>1, <3>2 DEF Covers
    <2> QED  BY <1>6, <2>1, <2>2 DEF Covers
  <1>8. Downward(M)
    <2> SUFFICES ASSUME NEW X, X # {}
                 PROVE  \E x \in X : \A e \in M : e[2] = x => e[1] \notin X
      BY DEF Downward
    <2>1. CASE \E x \in X : \A e \in M : e[2] # x
      BY <2>1
    <2>2. ASSUME NEW d \in M, d[2] \in X
          PROVE  \E x \in X : \A e \in M : e[2] = x => e[1] \notin X
      <3> DEFINE c == counties[d[2]]
                 Y == X \cap S(c)
      <3>1. c \in skipped /\ d[2] \in Y
        BY <1>6, <2>2
      <3> HIDE DEF c
      <3>2. Downward(U(c)) /\ Y # {}
        BY <1>1, <3>1
      <3>3. PICK x \in Y : \A e \in U(c) : e[2] = x => e[1] \notin Y
        <4> HIDE DEF Y
        <4> QED  BY <3>2 DEF Downward
      <3>4. ASSUME NEW e \in M, e[2] = x
            PROVE  e[1] \notin X
        <4>1. counties[x] = c
          BY <1>2, <3>3
        <4>2. e \in U(c) /\ e[1] \in S(c)
          BY <1>6, <3>4, <4>1
        <4> QED  BY <3>3, <3>4, <4>2
      <3> QED  BY <3>3, <3>4
    <2> QED  BY <2>1, <2>2
  <1>9. R \in SUBSET (active \ marked) /\ \A v \in R : counties[v] \in c_marked
    <2>1. ASSUME NEW v \in R
          PROVE  v \in active /\ v \notin marked /\ counties[v] \in c_marked
      <3>1. PICK c \in skipped : v \in S(c) /\ v \notin marked
        BY <1>4
      <3> QED  BY <1>2, <3>1
    <2> QED  BY <2>1
  <1>10. M \in SUBSET (active \X active)
    BY <1>6
  <1>11. \A e \in M : e[1] \in marked \cup R /\ {e[1], e[2]} \in Edges /\ counties[e[1]] = counties[e[2]]
    BY <1>6
  <1>12. TreeSoFar(T \cup M, marked \cup R, c_marked, entered)
    BY <1>7, <1>8, <1>9, <1>10, <1>11, PrecinctsJoin
  <1> QED  BY <1>12 DEF M, R

\* Down between counties and down within each is down.
LEMMA DownBothWays ==
    ASSUME NEW T, Downward(CountySteps(T)), Downward(WithinEdges(T))
    PROVE  Downward(OwnEdges(T))
  <1> SUFFICES ASSUME NEW X, X # {}
               PROVE  \E x \in X : \A e \in OwnEdges(T) : e[2] = x => e[1] \notin X
    BY DEF Downward
  <1> DEFINE L == {counties[x] : x \in X}
  <1>1. PICK c \in L : \A s \in CountySteps(T) : s[2] = c => s[1] \notin L
    <2>1. L # {}
      OBVIOUS
    <2> HIDE DEF L
    <2> QED  BY <2>1 DEF Downward
  <1> DEFINE Y == {x \in X : counties[x] = c}
  <1>2. PICK x \in Y : \A e \in WithinEdges(T) : e[2] = x => e[1] \notin Y
    <2>1. Y # {}
      OBVIOUS
    <2> HIDE DEF Y
    <2> QED  BY <2>1 DEF Downward
  <1>3. ASSUME NEW e \in OwnEdges(T), e[2] = x, e[1] \in X
        PROVE  FALSE
    <2>1. CASE e \in WithinEdges(T)
      <3>1. counties[e[1]] = c
        BY <1>3, <2>1 DEF WithinEdges
      <3> QED  BY <1>2, <1>3, <2>1, <3>1
    <2>2. CASE e \notin WithinEdges(T)
      <3> DEFINE s == <<counties[e[1]], counties[e[2]]>>
      <3>1. s \in CountySteps(T)
        BY <2>2 DEF CountySteps, StepsOf
      <3>2. s[2] = c /\ s[1] \in L
        BY <1>3
      <3> HIDE DEF s
      <3> QED  BY <1>1, <3>1, <3>2
    <2> QED  BY <2>1, <2>2
  <1> QED  BY <1>3

\* Once every precinct of the region is reached, what the edges lead to from the
\* root is the region, and they are a hierarchical tree on it.
LEMMA DrawnTreeIs ==
    ASSUME RegionToDraw, NEW T, NEW marked, NEW c_marked, NEW entered,
           TreeSoFar(T, marked, c_marked, entered), active \subseteq marked
    PROVE  /\ ReachedFrom(root, T) = active
           /\ Undirected(TreeFrom(root, T)) \in HierarchicalTrees(counties, active)
  <1> DEFINE N == OwnEdges(T)
             R == ReachedFrom(root, T)
             U == Undirected(TreeFrom(root, T))
             A == active
  <1>1. A \in SUBSET Vertices /\ A # {} /\ IsFiniteSet(A) /\ root \in A
    BY RegionIs DEF RegionToDraw
  <1>2. IsFiniteSet(T)
    <2>1. T \subseteq Vertices \X Vertices /\ IsFiniteSet(Vertices)
      BY MapAssumption DEF TreeSoFar
    <2>2. IsFiniteSet(Vertices \X Vertices)
      BY <2>1, FS_Product
    <2> QED  BY <2>1, <2>2, FS_Subset
  <1>3. /\ \A e \in N : e \in T /\ e[1] \in A /\ e[2] \in A /\ {e[1], e[2]} \in Edges
        /\ \A e \in T : e[1] \in A => e \in N
    BY DEF TreeSoFar, OwnEdges
  <1>4. Covers(N, A \ {root})
    <2>1. (active \cap marked) \ {root} = A \ {root}
      OBVIOUS
    <2> QED  BY <2>1 DEF TreeSoFar
  <1>5. Downward(N)
    BY DownBothWays DEF TreeSoFar
  <1>6. \A e \in N : counties[e[1]] # counties[e[2]] => entered[counties[e[2]]] = e[2]
    BY DEF TreeSoFar, WithinEdges
  <1>7. entered[counties[root]] = root
    BY DEF TreeSoFar
  <1> HIDE DEF N, A
  <1>8. R = A
    <2>1. /\ root \in R /\ \A e \in T : e[1] \in R => e[2] \in R
          /\ \A Z : root \in Z /\ (\A e \in T : e[1] \in Z => e[2] \in Z) => R \subseteq Z
      BY <1>2, ReachedIsLeast
    <2> HIDE DEF R
    <2>2. R \subseteq A
      <3>1. \A e \in T : e[1] \in A => e[2] \in A
        BY <1>3
      <3> QED  BY <1>1, <2>1, <3>1
    <2>3. ASSUME A \ R # {}
          PROVE  FALSE
      <3> DEFINE X == A \ R
      <3>1. PICK x \in X : \A e \in N : e[2] = x => e[1] \notin X
        <4> HIDE DEF X
        <4> QED  BY <1>5, <2>3 DEF Downward, X
      <3>2. x \in A \ {root}
        BY <2>1
      <3>3. PICK e \in N : e[2] = x
        BY <1>4, <3>2 DEF Covers
      <3>4. e[1] \in R
        BY <1>3, <3>1, <3>3
      <3> QED  BY <1>3, <2>1, <3>3, <3>4
    <2> QED  BY <2>2, <2>3
  <1>9. U = {{e[1], e[2]} : e \in N}
    <2>1. TreeFrom(root, T) = N
      <3>1. TreeFrom(root, T) = {e \in T : e[1] \in R}
        BY DEF TreeFrom
      <3> HIDE DEF R
      <3> QED  BY <1>8, <3>1 DEF N, OwnEdges, A
    <2> QED  BY <2>1 DEF Undirected
  <1> HIDE DEF R, U
  <1>10. U \in SUBSET Edges /\ (\A e \in U : e \subseteq A) /\ IsFiniteSet(U) /\ Links(U)
    <2>1. U \in SUBSET Edges /\ \A e \in U : e \subseteq A
      <3> SUFFICES ASSUME NEW u \in U
                   PROVE  u \in Edges /\ u \subseteq A
        OBVIOUS
      <3>1. PICK e \in N : u = {e[1], e[2]}
        BY <1>9
      <3> QED  BY <1>3, <3>1
    <2> QED  BY <2>1, GraphFacts
  <1>11. Cardinality(U) <= Cardinality(A) - 1
    <2>1. IsFiniteSet(A \ {root}) /\ Cardinality(A \ {root}) = Cardinality(A) - 1
      BY <1>1, FS_RemoveElement
    <2>2. IsFiniteSet(N) /\ Cardinality(N) <= Cardinality(A \ {root})
      BY <1>4, <2>1, CoversCount
    <2> DEFINE f == [e \in N |-> {e[1], e[2]}]
    <2>3. f \in Surjection(N, U)
      <3>1. f \in [N -> U]
        BY <1>9
      <3>2. \A u \in U : \E e \in N : f[e] = u
        BY <1>9
      <3> QED  BY <3>1, <3>2 DEF Surjection
    <2> HIDE DEF f
    <2>4. Cardinality(U) <= Cardinality(N)
      BY <2>2, <2>3, FS_Surjection
    <2>5. Cardinality(U) \in Nat /\ Cardinality(N) \in Nat /\ Cardinality(A) \in Nat
      BY <1>1, <1>10, <2>2, FS_CardinalityType
    <2> QED  BY <2>1, <2>2, <2>4, <2>5
  <1>12. \A e \in N : {e[1], e[2]} \in U
    BY <1>9
  <1>13. Connected(A, U)
    <2>1. ASSUME NEW D, D # {}, Closed(D, A, U), root \notin D
          PROVE  FALSE
      <3>1. PICK x \in D : \A e \in N : e[2] = x => e[1] \notin D
        BY <1>5, <2>1 DEF Downward
      <3>2. x \in A \ {root}
        BY <2>1, <3>1 DEF Closed
      <3>3. PICK e \in N : e[2] = x
        BY <1>4, <3>2 DEF Covers
      <3>4. {e[1], e[2]} \in Inside(A, U)
        BY <1>3, <1>12 DEF Inside
      <3>5. {e[1], e[2]} \cap D # {}
        BY <3>1, <3>3
      <3>6. e[1] \in D
        BY <2>1, <3>4, <3>5 DEF Closed
      <3> QED  BY <3>1, <3>3, <3>6
    <2>2. ASSUME NEW D, D # {}, Closed(D, A, U)
          PROVE  D = A
      <3>1. Closed(A, A, U)
        BY DEF Closed, Inside
      <3>2. Closed(A \ D, A, U)
        BY <2>2, <3>1, ClosedWithout
      <3>3. root \in D
        BY <2>1, <2>2
      <3>4. root \notin A \ D
        BY <3>3
      <3> DEFINE F == A \ D
      <3>5. F = {}
        <4> HIDE DEF F
        <4> QED  BY <2>1, <3>2, <3>4 DEF F
      <3>6. D \subseteq A
        BY <2>2 DEF Closed
      <3> QED  BY <3>5, <3>6
    <2> QED  BY <1>1, <2>2, ConnectedIsClosed
  <1>14. ASSUME NEW v \in A
         PROVE  Connected(CountyPart(counties, A, counties[v]), U)
    <2> DEFINE c == counties[v]
               P == CountyPart(counties, A, c)
               r == entered[c]
    <2>1. \A w : w \in P <=> w \in A /\ counties[w] = c
      BY DEF CountyPart
    <2>2. IsFiniteSet(P)
      <3>1. P \subseteq A
        BY <2>1
      <3> HIDE DEF P
      <3> QED  BY <1>1, <3>1, FS_Subset
    <2> HIDE DEF P, c, r
    <2>3. ASSUME NEW D, D # {}, Closed(D, P, U), r \notin D
          PROVE  FALSE
      <3>1. PICK x \in D : \A e \in N : e[2] = x => e[1] \notin D
        BY <1>5, <2>3 DEF Downward
      <3>2. x \in P /\ counties[x] = c /\ x \in A
        BY <2>1, <2>3, <3>1 DEF Closed
      <3>3. x # root
        BY <1>7, <2>3, <3>1, <3>2 DEF r
      <3>4. PICK e \in N : e[2] = x
        BY <1>4, <3>2, <3>3 DEF Covers
      <3>5. counties[e[1]] = c
        BY <1>6, <2>3, <3>1, <3>2, <3>4 DEF r
      <3>6. e[1] \in P
        BY <1>3, <2>1, <3>5
      <3>7. {e[1], e[2]} \in Inside(P, U)
        BY <1>12, <3>2, <3>4, <3>6 DEF Inside
      <3>8. {e[1], e[2]} \cap D # {}
        BY <3>1, <3>4
      <3>9. e[1] \in D
        BY <2>3, <3>7, <3>8 DEF Closed
      <3> QED  BY <3>1, <3>4, <3>9
    <2>4. ASSUME NEW D, D # {}, Closed(D, P, U)
          PROVE  D = P
      <3>1. Closed(P, P, U)
        BY DEF Closed, Inside
      <3>2. Closed(P \ D, P, U)
        BY <2>4, <3>1, ClosedWithout
      <3>3. r \in D
        BY <2>3, <2>4
      <3>4. r \notin P \ D
        BY <3>3
      <3> DEFINE F == P \ D
      <3>5. F = {}
        <4> HIDE DEF F
        <4> QED  BY <2>3, <3>2, <3>4 DEF F
      <3>6. D \subseteq P
        BY <2>4 DEF Closed
      <3> QED  BY <3>5, <3>6
    <2>5. Connected(P, U)
      BY <2>2, <2>4, ConnectedIsClosed
    <2> QED  BY <2>5 DEF P, c
  <1>15. IsTree(A, U)
    <2>1. Cardinality(Inside(A, U)) >= Cardinality(A) - 1
      BY <1>1, <1>10, <1>13, EdgesToConnect
    <2>2. Inside(A, U) = U
      BY <1>10 DEF Inside
    <2>3. Cardinality(U) \in Nat /\ Cardinality(A) \in Nat
      BY <1>1, <1>10, FS_CardinalityType
    <2>4. Cardinality(U) = Cardinality(A) - 1
      BY <1>11, <2>1, <2>2, <2>3
    <2> QED  BY <1>1, <1>10, <1>13, <2>4 DEF IsTree
  <1>16. U \in HierarchicalTrees(counties, A)
    <2>1. IsHierarchicalTree(counties, A, U)
      BY <1>14, <1>15 DEF IsHierarchicalTree
    <2> QED  BY <1>1, <1>10, <2>1, HierarchicalTreesAre
  <1> QED  BY <1>8, <1>16 DEF R, U, A

-----------------------------------------------------------------------------
(* Every step of a draw. *)
\* The region, its counties and the exits of walks do not change.
LEMMA FixedStays ==
    ASSUME UNCHANGED fixed
    PROVE  /\ active' = active /\ counties' = counties /\ root' = root /\ ActiveCounties' = ActiveCounties
           /\ RegionToDraw => RegionToDraw'
           /\ TreeSoFar(ust', visited', c_visited', admin_roots') => TreeSoFar(ust, visited, c_visited, admin_roots)'
           /\ OnlyEntered(ust', visited', admin_roots') => OnlyEntered(ust, visited, admin_roots)'
           /\ \A c : AdminExits(c)' = AdminExits(c)
           /\ \A v : VertexExits(v)' = VertexExits(v)
  <1>1. map_counties' = map_counties /\ draw' = draw /\ counties' = counties
    BY DEF fixed
  <1>2. active' = active
    BY <1>1 DEF active
  <1>3. root' = root /\ ignore' = ignore
    BY <1>2 DEF root, ignore
  <1>4. ActiveCounties' = ActiveCounties
    BY <1>1, <1>2 DEF ActiveCounties, CountiesIn
  <1>5. RegionToDraw => RegionToDraw'
    BY <1>1, <1>2, <1>4 DEF RegionToDraw, CountyPart
  <1>6. TreeSoFar(ust', visited', c_visited', admin_roots') => TreeSoFar(ust, visited, c_visited, admin_roots)'
    BY <1>1, <1>2, <1>3, <1>4 DEF TreeSoFar, OwnEdges, WithinEdges, CountySteps, StepsOf
  <1>7. OnlyEntered(ust', visited', admin_roots') => OnlyEntered(ust, visited, admin_roots)'
    BY <1>1, <1>2 DEF OnlyEntered, OwnEdges, WithinEdges
  <1>8. \A c : AdminExits(c)' = AdminExits(c)
    BY <1>1, <1>2 DEF AdminExits
  <1>9. \A v : VertexExits(v)' = VertexExits(v)
    BY <1>1, <1>2 DEF VertexExits
  <1> QED  BY <1>1, <1>2, <1>3, <1>4, <1>5, <1>6, <1>7, <1>8, <1>9

\* A walk that starts or goes on leaves the tree as it is.
LEMMA TreeStays ==
    ASSUME DrawInv, stage \in {"connect", "draw"}, UNCHANGED <<fixed, stage, trees>>
    PROVE  /\ RegionToDraw' /\ stage' = stage
           /\ TreeSoFar(ust, visited, c_visited, admin_roots)'
           /\ (remaining = Cardinality(active \ visited))'
           /\ stage' = "connect" => OnlyEntered(ust, visited, admin_roots)'
           /\ stage' = "draw" => (ActiveCounties \subseteq c_visited)'
  <1>1. UNCHANGED fixed /\ stage' = stage
    OBVIOUS
  <1>2. UNCHANGED <<visited, remaining, c_visited, admin_roots, ust>>
    BY DEF trees
  <1>3. Drawing /\ RegionToDraw
    BY DEF DrawInv
  <1>4. TreeSoFar(ust', visited', c_visited', admin_roots')
    <2>1. TreeSoFar(ust, visited, c_visited, admin_roots)
      BY <1>3 DEF Drawing
    <2> QED  BY <1>2, <2>1
  <1>5. TreeSoFar(ust, visited, c_visited, admin_roots)'
    BY <1>1, <1>4, FixedStays
  <1>6. stage' = "connect" => OnlyEntered(ust, visited, admin_roots)'
    <2>1. stage' = "connect" => OnlyEntered(ust', visited', admin_roots')
      <3>1. stage' = "connect" => OnlyEntered(ust, visited, admin_roots)
        BY <1>1, <1>3 DEF Drawing
      <3> QED  BY <1>2, <3>1
    <2> QED  BY <1>1, <2>1, FixedStays
  <1>7. active' = active /\ ActiveCounties' = ActiveCounties /\ RegionToDraw'
    BY <1>1, <1>3, FixedStays
  <1>8. (remaining = Cardinality(active \ visited))'
    BY <1>2, <1>3, <1>7 DEF Drawing
  <1>9. stage' = "draw" => (ActiveCounties \subseteq c_visited)'
    BY <1>1, <1>2, <1>3, <1>7 DEF Drawing
  <1> QED  BY <1>1, <1>5, <1>6, <1>7, <1>8, <1>9

\* The start of a walk between counties.
LEMMA StartCountyWalkPreserves ==
    ASSUME DrawInv, StartCountyWalk
    PROVE  DrawInv'
  <1>1. /\ stage = "connect" /\ ActiveCounties \ c_visited # {}
        /\ walk' = WalkFrom(Min(ActiveCounties \ c_visited)) /\ UNCHANGED <<fixed, stage, trees>>
    BY DEF StartCountyWalk
  <1> DEFINE C == ActiveCounties \ c_visited
             n == Min(C)
  <1>2. n \in C
    <2>1. C \in SUBSET Nat /\ C # {}
      BY <1>1 DEF DrawInv, RegionToDraw
    <2> HIDE DEF C
    <2> QED  BY <2>1, LeastIs
  <1>3. walk' = WalkFrom(n) /\ n \in ActiveCounties /\ n \notin c_visited
    BY <1>1, <1>2
  <1> HIDE DEF C, n
  <1>4. Leads(walk', c_visited)
    BY <1>3, StartLeads
  <1>5. /\ walk'.at = n /\ DOMAIN walk'.left_by = {}
        /\ walk' = [start |-> walk'.start, at |-> walk'.at, left_by |-> walk'.left_by, tries |-> walk'.tries]
    BY <1>3 DEF WalkFrom
  <1>6. ActiveCounties' = ActiveCounties /\ c_visited' = c_visited
    BY <1>1, FixedStays DEF trees
  <1>7. IsCountyWalk(walk)' /\ IsWalk(walk)'
    <2>1. Leads(walk, c_visited)'
      BY <1>4, <1>6 DEF Leads
    <2> QED  BY <1>3, <1>5, <1>6, <2>1 DEF IsCountyWalk, IsWalk
  <1>8. /\ RegionToDraw' /\ stage' = stage
        /\ TreeSoFar(ust, visited, c_visited, admin_roots)'
        /\ (remaining = Cardinality(active \ visited))'
        /\ stage' = "connect" => OnlyEntered(ust, visited, admin_roots)'
        /\ stage' = "draw" => (ActiveCounties \subseteq c_visited)'
    BY <1>1, TreeStays
  <1> QED  BY <1>1, <1>7, <1>8 DEF DrawInv, Drawing

\* A step of a walk, wherever it goes, leaves a record of exits that lead to it.
LEMMA WanderLeads ==
    ASSUME NEW exits, NEW rejects, NEW tree, Wander(exits, rejects, tree), IsWalk(walk), Leads(walk, tree)
    PROVE  /\ IsWalk(walk') /\ Leads(walk', tree)
           /\ \/ walk'.at = walk.at /\ walk'.left_by = walk.left_by
              \/ \E exit \in exits : walk'.at = exit.to /\ walk'.left_by = RecordExit(walk, exit)
  <1>1. CASE walk' = [walk EXCEPT !.tries = @ + 1]
    <2>1. walk' = [start |-> walk.start, at |-> walk.at, left_by |-> walk.left_by, tries |-> walk.tries + 1]
      BY <1>1 DEF IsWalk
    <2>2. walk'.start = walk.start /\ walk'.at = walk.at /\ walk'.left_by = walk.left_by /\ walk'.tries = walk.tries + 1
      BY <2>1
    <2>3. IsWalk(walk')
      BY <2>1, <2>2 DEF IsWalk
    <2>4. Leads(walk', tree)
      BY <2>2 DEF Leads
    <2> QED  BY <2>2, <2>3, <2>4
  <1>2. ASSUME NEW exit \in exits, exit.to \notin tree,
               walk' = [walk EXCEPT !.tries = TriesAfter(walk, exit), !.at = exit.to,
                                    !.left_by = RecordExit(walk, exit)]
        PROVE  /\ IsWalk(walk') /\ Leads(walk', tree)
               /\ walk'.at = exit.to /\ walk'.left_by = RecordExit(walk, exit)
    <2> DEFINE t == TriesAfter(walk, exit)
               lb == RecordExit(walk, exit)
               u == [start |-> walk.start, at |-> exit.to, left_by |-> lb, tries |-> t]
    <2>1. walk' = u
      <3> HIDE DEF t, lb
      <3>1. walk = [start |-> walk.start, at |-> walk.at, left_by |-> walk.left_by, tries |-> walk.tries]
        BY DEF IsWalk
      <3>2. walk' = [walk EXCEPT !.tries = t, !.at = exit.to, !.left_by = lb]
        BY <1>2 DEF t, lb
      <3> QED  BY <3>1, <3>2
    <2>2. Leads(u, tree)
      <3>1. u = [start |-> walk.start, at |-> exit.to, left_by |-> RecordExit(walk, exit), tries |-> t]
        OBVIOUS
      <3> HIDE DEF u, t
      <3> QED  BY <1>2, <3>1, StepLeads
    <2>3. u.start = walk.start /\ u.at = exit.to /\ u.left_by = lb /\ u.tries = t
      OBVIOUS
    <2>4. IsWalk(u)
      <3>1. u = [start |-> u.start, at |-> u.at, left_by |-> u.left_by, tries |-> u.tries]
        OBVIOUS
      <3> HIDE DEF u
      <3> QED  BY <3>1 DEF IsWalk
    <2> HIDE DEF u
    <2> QED  BY <2>1, <2>2, <2>3, <2>4
  <1>3. \/ walk' = [walk EXCEPT !.tries = @ + 1]
        \/ \E exit \in exits : /\ exit.to \notin tree
                               /\ walk' = [walk EXCEPT !.tries = TriesAfter(walk, exit), !.at = exit.to,
                                                       !.left_by = RecordExit(walk, exit)]
    BY DEF Wander
  <1> QED  BY <1>1, <1>2, <1>3

\* A step between counties.
LEMMA CountyWalkPreserves ==
    ASSUME DrawInv, CountyWalk
    PROVE  DrawInv'
  <1>1. /\ stage = "connect" /\ walk # NoWalk
        /\ Wander(AdminExits(walk.at), AdminRejects(walk.at), c_visited)
    BY DEF CountyWalk
  <1>2. UNCHANGED <<fixed, stage, trees>>
    BY <1>1 DEF Wander
  <1>3. IsWalk(walk) /\ IsCountyWalk(walk) /\ RegionToDraw
    BY <1>1 DEF DrawInv, Drawing
  <1>4. Leads(walk, c_visited) /\ walk.at \in ActiveCounties
        /\ \A c \in DOMAIN walk.left_by : c \in ActiveCounties /\ walk.left_by[c] \in AdminExits(c)
    BY <1>3 DEF IsCountyWalk
  <1>5. /\ IsWalk(walk') /\ Leads(walk', c_visited)
        /\ \/ walk'.at = walk.at /\ walk'.left_by = walk.left_by
           \/ \E exit \in AdminExits(walk.at) : walk'.at = exit.to /\ walk'.left_by = RecordExit(walk, exit)
    BY <1>1, <1>3, <1>4, WanderLeads
  <1>6. /\ walk'.at \in ActiveCounties
        /\ \A c \in DOMAIN walk'.left_by : c \in ActiveCounties /\ walk'.left_by[c] \in AdminExits(c)
    <2>1. CASE walk'.at = walk.at /\ walk'.left_by = walk.left_by
      BY <1>4, <2>1
    <2>2. ASSUME NEW exit \in AdminExits(walk.at), walk'.at = exit.to, walk'.left_by = RecordExit(walk, exit)
          PROVE  /\ walk'.at \in ActiveCounties
                 /\ \A c \in DOMAIN walk'.left_by : c \in ActiveCounties /\ walk'.left_by[c] \in AdminExits(c)
      <3> DEFINE lb == RecordExit(walk, exit)
      <3>1. /\ DOMAIN lb = DOMAIN walk.left_by \cup {walk.at}
            /\ \A n \in DOMAIN lb : lb[n] = IF n = walk.at THEN exit ELSE walk.left_by[n]
        BY DEF RecordExit
      <3>2. exit.to \in ActiveCounties
        <4>1. PICK q \in active \X active :
                 exit = [to |-> counties[q[2]], edge |-> <<q[2], q[1]>>]
          BY DEF AdminExits
        <4>2. exit.to = counties[q[2]] /\ q[2] \in active
          BY <4>1
        <4> QED  BY <1>3, <4>2, RegionIs
      <3> HIDE DEF lb
      <3>3. \A c \in DOMAIN lb : c \in ActiveCounties /\ lb[c] \in AdminExits(c)
        BY <1>4, <3>1
      <3> QED  BY <2>2, <3>2, <3>3 DEF lb
    <2> QED  BY <1>5, <2>1, <2>2
  <1>7. ActiveCounties' = ActiveCounties /\ c_visited' = c_visited /\ \A c : AdminExits(c)' = AdminExits(c)
    BY <1>2, FixedStays DEF trees
  <1>8. IsCountyWalk(walk)' /\ IsWalk(walk)'
    <2>1. Leads(walk, c_visited)'
      BY <1>5, <1>7 DEF Leads
    <2> QED  BY <1>5, <1>6, <1>7, <2>1 DEF IsCountyWalk, IsWalk
  <1>9. /\ RegionToDraw' /\ stage' = stage
        /\ TreeSoFar(ust, visited, c_visited, admin_roots)'
        /\ (remaining = Cardinality(active \ visited))'
        /\ stage' = "connect" => OnlyEntered(ust, visited, admin_roots)'
        /\ stage' = "draw" => (ActiveCounties \subseteq c_visited)'
    BY <1>1, <1>2, TreeStays
  <1> QED  BY <1>1, <1>8, <1>9 DEF DrawInv, Drawing

\* The start of a walk between precincts.
LEMMA StartVertexWalkPreserves ==
    ASSUME DrawInv, StartVertexWalk
    PROVE  DrawInv'
  <1>1. /\ stage = "draw" /\ remaining > 0
        /\ walk' = WalkFrom(Min(Vertices \ visited)) /\ UNCHANGED <<fixed, stage, trees>>
    BY DEF StartVertexWalk
  <1>2. Drawing /\ RegionToDraw
    BY <1>1 DEF DrawInv
  <1> DEFINE C == Vertices \ visited
             n == Min(C)
  <1>3. n \in C
    <2>1. C \in SUBSET Nat
      BY MapAssumption
    <2>2. C # {}
      <3>1. active \ visited # {}
        <4>1. remaining = Cardinality(active \ visited)
          BY <1>2 DEF Drawing
        <4>2. Cardinality({}) = 0
          BY FS_EmptySet
        <4> DEFINE B == active \ visited
        <4>3. B = {} => Cardinality(B) = 0
          BY <4>2
        <4> HIDE DEF B
        <4> QED  BY <1>1, <4>1, <4>3 DEF B
      <3> QED  BY <1>2, <3>1 DEF RegionToDraw
    <2> HIDE DEF C
    <2> QED  BY <2>1, <2>2, LeastIs
  <1>4. walk' = WalkFrom(n) /\ n \in active /\ n \notin visited
    <2>1. ignore \subseteq visited
      BY <1>2 DEF Drawing, TreeSoFar
    <2> QED  BY <1>1, <1>3, <2>1 DEF ignore
  <1> HIDE DEF C, n
  <1>5. Leads(walk', visited)
    BY <1>4, StartLeads
  <1>6. /\ walk'.at = n /\ DOMAIN walk'.left_by = {}
        /\ walk' = [start |-> walk'.start, at |-> walk'.at, left_by |-> walk'.left_by, tries |-> walk'.tries]
    BY <1>4 DEF WalkFrom
  <1>7. active' = active /\ visited' = visited
    BY <1>1, FixedStays DEF trees
  <1>8. IsVertexWalk(walk)' /\ IsWalk(walk)'
    <2>1. Leads(walk, visited)'
      BY <1>5, <1>7 DEF Leads
    <2> QED  BY <1>4, <1>6, <1>7, <2>1 DEF IsVertexWalk, IsWalk
  <1>9. /\ RegionToDraw' /\ stage' = stage
        /\ TreeSoFar(ust, visited, c_visited, admin_roots)'
        /\ (remaining = Cardinality(active \ visited))'
        /\ stage' = "connect" => OnlyEntered(ust, visited, admin_roots)'
        /\ stage' = "draw" => (ActiveCounties \subseteq c_visited)'
    BY <1>1, TreeStays
  <1> QED  BY <1>1, <1>8, <1>9 DEF DrawInv, Drawing

\* A step between precincts.
LEMMA VertexWalkPreserves ==
    ASSUME DrawInv, stage = "draw", VertexWalk
    PROVE  DrawInv'
  <1>1. walk # NoWalk /\ Wander(VertexExits(walk.at), VertexRejects(walk.at), visited)
    BY DEF VertexWalk
  <1>2. UNCHANGED <<fixed, stage, trees>>
    BY <1>1 DEF Wander
  <1>3. IsWalk(walk) /\ IsVertexWalk(walk)
    BY <1>1 DEF DrawInv, Drawing
  <1>4. Leads(walk, visited) /\ walk.at \in active
        /\ \A v \in DOMAIN walk.left_by : v \in active /\ walk.left_by[v] \in VertexExits(v)
    BY <1>3 DEF IsVertexWalk
  <1>5. /\ IsWalk(walk') /\ Leads(walk', visited)
        /\ \/ walk'.at = walk.at /\ walk'.left_by = walk.left_by
           \/ \E exit \in VertexExits(walk.at) : walk'.at = exit.to /\ walk'.left_by = RecordExit(walk, exit)
    BY <1>1, <1>3, <1>4, WanderLeads
  <1>6. /\ walk'.at \in active
        /\ \A v \in DOMAIN walk'.left_by : v \in active /\ walk'.left_by[v] \in VertexExits(v)
    <2>1. CASE walk'.at = walk.at /\ walk'.left_by = walk.left_by
      BY <1>4, <2>1
    <2>2. ASSUME NEW exit \in VertexExits(walk.at), walk'.at = exit.to, walk'.left_by = RecordExit(walk, exit)
          PROVE  /\ walk'.at \in active
                 /\ \A v \in DOMAIN walk'.left_by : v \in active /\ walk'.left_by[v] \in VertexExits(v)
      <3> DEFINE lb == RecordExit(walk, exit)
      <3>1. /\ DOMAIN lb = DOMAIN walk.left_by \cup {walk.at}
            /\ \A n \in DOMAIN lb : lb[n] = IF n = walk.at THEN exit ELSE walk.left_by[n]
        BY DEF RecordExit
      <3>2. exit.to \in active
        <4>1. PICK u \in active : exit = [to |-> u, edge |-> <<u, walk.at>>]
          BY DEF VertexExits
        <4> QED  BY <4>1
      <3> HIDE DEF lb
      <3>3. \A v \in DOMAIN lb : v \in active /\ lb[v] \in VertexExits(v)
        BY <1>4, <3>1
      <3> QED  BY <2>2, <3>2, <3>3 DEF lb
    <2> QED  BY <1>5, <2>1, <2>2
  <1>7. active' = active /\ visited' = visited /\ \A v : VertexExits(v)' = VertexExits(v)
    BY <1>2, FixedStays DEF trees
  <1>8. IsVertexWalk(walk)' /\ IsWalk(walk)'
    <2>1. Leads(walk, visited)'
      BY <1>5, <1>7 DEF Leads
    <2> QED  BY <1>5, <1>6, <1>7, <2>1 DEF IsVertexWalk, IsWalk
  <1>9. /\ RegionToDraw' /\ stage' = stage
        /\ TreeSoFar(ust, visited, c_visited, admin_roots)'
        /\ (remaining = Cardinality(active \ visited))'
        /\ stage' = "connect" => OnlyEntered(ust, visited, admin_roots)'
        /\ stage' = "draw" => (ActiveCounties \subseteq c_visited)'
    BY <1>2, TreeStays
  <1> QED  BY <1>8, <1>9 DEF DrawInv, Drawing

\* As many fewer are left to reach as join.
LeavesFewer(S, V, R) == Cardinality(S \ (V \cup R)) = Cardinality(S \ V) - Cardinality(R)

\* What joins is no longer left to reach.
LEMMA FewerLeft ==
    ASSUME NEW S, IsFiniteSet(S), NEW V, NEW R \in SUBSET (S \ V)
    PROVE  LeavesFewer(S, V, R)
  <1> DEFINE A == S \ (V \cup R)
  <1>1. A \cup R = S \ V /\ A \cap R = {}
    OBVIOUS
  <1>2. IsFiniteSet(A) /\ IsFiniteSet(R)
    BY FS_Subset
  <1> HIDE DEF A
  <1>3. /\ IsFiniteSet(A \cup R) /\ Cardinality(A) \in Nat /\ Cardinality(R) \in Nat
        /\ Cardinality(A \cup R) = Cardinality(A) + Cardinality(R)
    BY <1>1, <1>2, PartsAddUp
  <1>4. Cardinality(A \cup R) = Cardinality(S \ V)
    BY <1>1
  <1>5. Cardinality(A) = Cardinality(S \ V) - Cardinality(R)
    BY <1>3, <1>4
  <1> QED  BY <1>5 DEF A, LeavesFewer

\* A walk between counties comes to the tree.
LEMMA CountyJoinPreserves ==
    ASSUME DrawInv, add_walk_from_admin
    PROVE  DrawInv'
  <1>1. stage = "connect" /\ walk # NoWalk /\ walk' = NoWalk /\ UNCHANGED fixed /\ stage' = stage
    BY DEF add_walk_from_admin
  <1>2. RegionToDraw /\ Drawing /\ IsCountyWalk(walk)
    BY <1>1 DEF DrawInv, Drawing
  <1>3. /\ TreeSoFar(ust, visited, c_visited, admin_roots) /\ OnlyEntered(ust, visited, admin_roots)
        /\ remaining = Cardinality(active \ visited)
    BY <1>1, <1>2 DEF Drawing
  <1>4. PICK exit \in AdminExits(walk.at) :
          /\ exit.to \in c_visited
          /\ LET left_by == RecordExit(walk, exit)
                 chain   == Chain(walk.start, left_by, c_visited)
                 reached(c) == left_by[c].edge[2]
             IN  /\ ust' = ust \cup {left_by[c].edge : c \in chain}
                 /\ admin_roots' = [c \in DOMAIN admin_roots |->
                                       IF c \in chain THEN reached(c) ELSE admin_roots[c]]
                 /\ c_visited' = c_visited \cup chain
                 /\ visited' = visited \cup {reached(c) : c \in chain}
                 /\ remaining' = remaining - Cardinality(chain)
    BY DEF add_walk_from_admin
  <1> DEFINE lb == RecordExit(walk, exit)
             chain == Chain(walk.start, lb, c_visited)
             M == EdgesTaken(chain, lb)
             R == EndsReached(chain, lb)
             after == EnteredBy(admin_roots, chain, lb)
  <1>5. /\ ust' = ust \cup M /\ admin_roots' = after /\ c_visited' = c_visited \cup chain
        /\ visited' = visited \cup R /\ remaining' = remaining - Cardinality(chain)
    BY <1>4 DEF EdgesTaken, EndsReached, EnteredBy
  <1>6. /\ Leads(walk, c_visited) /\ walk.at \in ActiveCounties /\ DOMAIN walk.left_by \subseteq ActiveCounties
        /\ \A c \in DOMAIN walk.left_by : walk.left_by[c] \in AdminExits(c)
    BY <1>2 DEF IsCountyWalk
  <1>7. IsFiniteSet(ActiveCounties) /\ IsFiniteSet(active) /\ IsFiniteSet(DOMAIN walk.left_by)
    <2>1. IsFiniteSet(ActiveCounties) /\ IsFiniteSet(active)
      BY <1>2, RegionIs
    <2> QED  BY <1>6, <2>1, FS_Subset
  <1>8. Joins(chain, lb, c_visited) /\ DOMAIN lb \cap c_visited = {}
    BY <1>4, <1>6, <1>7, ChainJoins
  <1>9. /\ DOMAIN lb = DOMAIN walk.left_by \cup {walk.at}
        /\ \A n \in DOMAIN lb : lb[n] = IF n = walk.at THEN exit ELSE walk.left_by[n]
    BY DEF RecordExit
  <1> HIDE DEF lb, chain
  <1>10. \A c \in chain : c \in ActiveCounties /\ c \notin c_visited /\ lb[c] \in AdminExits(c)
    <2> TAKE c \in chain
    <2>1. c \in DOMAIN lb /\ c \notin c_visited
      BY <1>8 DEF Joins
    <2> QED  BY <1>6, <1>9, <2>1
  <1>11. /\ TreeSoFar(ust \cup M, visited \cup R, c_visited \cup chain, after)
         /\ OnlyEntered(ust \cup M, visited \cup R, after)
         /\ \A c \in chain : lb[c].edge[2] \in active \ visited /\ counties[lb[c].edge[2]] = c
    <2>4. RegionToDraw /\ TreeSoFar(ust, visited, c_visited, admin_roots) /\ OnlyEntered(ust, visited, admin_roots)
          /\ Joins(chain, lb, c_visited)
      BY <1>2, <1>3, <1>8
    <2> QED  BY <1>10, <2>4, CountiesJoin
  <1>12. TreeSoFar(ust, visited, c_visited, admin_roots)' /\ OnlyEntered(ust, visited, admin_roots)'
    <2>1. TreeSoFar(ust', visited', c_visited', admin_roots') /\ OnlyEntered(ust', visited', admin_roots')
      <3> HIDE DEF M, R, after
      <3> QED  BY <1>5, <1>11
    <2> QED  BY <1>1, <2>1, FixedStays
  <1>13. remaining' = Cardinality(active \ visited')
    <2>1. R \in SUBSET (active \ visited)
      BY <1>11 DEF EndsReached
    <2> DEFINE f == [c \in chain |-> lb[c].edge[2]]
    <2>2. f \in Bijection(chain, R)
      <3>1. f \in [chain -> R]
        BY DEF EndsReached
      <3>2. \A v \in R : \E c \in chain : f[c] = v
        BY DEF EndsReached
      <3>3. ASSUME NEW c \in chain, NEW d \in chain, f[c] = f[d]
            PROVE  c = d
        BY <1>11, <3>3
      <3> HIDE DEF f, R
      <3> QED  BY <3>1, <3>2, <3>3 DEF Bijection, Injection, Surjection, IsInjective
    <2>3. IsFiniteSet(chain)
      <3>1. chain \subseteq ActiveCounties
        BY <1>10
      <3> QED  BY <1>7, <3>1, FS_Subset
    <2>6. IsFiniteSet(active)
      BY <1>7
    <2> HIDE DEF f, R, M, after
    <2>4. Cardinality(R) = Cardinality(chain)
      <3>1. ExistsBijection(chain, R)
        BY <2>2 DEF ExistsBijection
      <3> QED  BY <2>3, <3>1, FS_Bijection
    <2>5. Cardinality(active \ (visited \cup R)) = Cardinality(active \ visited) - Cardinality(R)
      <3>1. LeavesFewer(active, visited, R)
        BY <2>1, <2>6, FewerLeft
      <3> QED  BY <3>1 DEF LeavesFewer
    <2> QED  BY <1>3, <1>5, <2>4, <2>5
  <1>14. RegionToDraw' /\ active' = active
    BY <1>1, <1>2, FixedStays
  <1>15. NoWalk' = NoWalk
    BY DEF NoWalk
  <1>16. Drawing'
    BY <1>1, <1>12, <1>13, <1>14, <1>15 DEF Drawing
  <1> QED  BY <1>14, <1>16 DEF DrawInv

\* A walk between precincts comes to the tree.
LEMMA VertexJoinPreserves ==
    ASSUME DrawInv, stage = "draw", add_walk_from
    PROVE  DrawInv'
  <1>1. walk # NoWalk /\ walk' = NoWalk /\ UNCHANGED fixed /\ stage' = stage
        /\ c_visited' = c_visited /\ admin_roots' = admin_roots
    BY DEF add_walk_from
  <1>2. RegionToDraw /\ Drawing /\ IsVertexWalk(walk)
    BY <1>1 DEF DrawInv, Drawing
  <1>3. /\ TreeSoFar(ust, visited, c_visited, admin_roots) /\ ActiveCounties \subseteq c_visited
        /\ remaining = Cardinality(active \ visited)
    BY <1>1, <1>2 DEF Drawing
  <1>4. PICK exit \in VertexExits(walk.at) :
          /\ exit.to \in visited
          /\ LET left_by == RecordExit(walk, exit)
                 chain   == Chain(walk.start, left_by, visited)
             IN  /\ ust' = ust \cup {left_by[v].edge : v \in chain}
                 /\ visited' = visited \cup chain
                 /\ remaining' = remaining - Cardinality(chain)
    BY DEF add_walk_from
  <1> DEFINE lb == RecordExit(walk, exit)
             chain == Chain(walk.start, lb, visited)
             M == {lb[v].edge : v \in chain}
  <1>5. ust' = ust \cup M /\ visited' = visited \cup chain /\ remaining' = remaining - Cardinality(chain)
    BY <1>4
  <1>6. /\ Leads(walk, visited) /\ walk.at \in active /\ DOMAIN walk.left_by \subseteq active
        /\ \A v \in DOMAIN walk.left_by : walk.left_by[v] \in VertexExits(v)
    BY <1>2 DEF IsVertexWalk
  <1>7. IsFiniteSet(active) /\ IsFiniteSet(DOMAIN walk.left_by)
    <2>1. IsFiniteSet(active)
      BY <1>2, RegionIs
    <2> QED  BY <1>6, <2>1, FS_Subset
  <1>8. Joins(chain, lb, visited) /\ DOMAIN lb \cap visited = {}
    BY <1>4, <1>6, <1>7, ChainJoins
  <1>9. /\ DOMAIN lb = DOMAIN walk.left_by \cup {walk.at}
        /\ \A n \in DOMAIN lb : lb[n] = IF n = walk.at THEN exit ELSE walk.left_by[n]
    BY DEF RecordExit
  <1> HIDE DEF lb, chain
  <1>10. \A v \in chain : v \in active \ visited /\ lb[v] \in VertexExits(v)
    <2> TAKE v \in chain
    <2>1. v \in DOMAIN lb /\ v \notin visited
      BY <1>8 DEF Joins
    <2> QED  BY <1>6, <1>9, <2>1
  <1>11. TreeSoFar(ust \cup M, visited \cup chain, c_visited, admin_roots)
    BY <1>2, <1>3, <1>8, <1>10, WalkJoins
  <1>12. TreeSoFar(ust, visited, c_visited, admin_roots)'
    <2>1. TreeSoFar(ust', visited', c_visited', admin_roots')
      <3> HIDE DEF M
      <3> QED  BY <1>1, <1>5, <1>11
    <2> QED  BY <1>1, <2>1, FixedStays
  <1>13. remaining' = Cardinality(active \ visited')
    <2>1. chain \in SUBSET (active \ visited)
      BY <1>10
    <2>3. IsFiniteSet(active)
      BY <1>7
    <2> HIDE DEF M
    <2>2. Cardinality(active \ (visited \cup chain)) = Cardinality(active \ visited) - Cardinality(chain)
      <3>1. LeavesFewer(active, visited, chain)
        BY <2>1, <2>3, FewerLeft
      <3> QED  BY <3>1 DEF LeavesFewer
    <2> QED  BY <1>3, <1>5, <2>2
  <1>14. RegionToDraw' /\ active' = active /\ ActiveCounties' = ActiveCounties
    BY <1>1, <1>2, FixedStays
  <1>15. NoWalk' = NoWalk
    BY DEF NoWalk
  <1>16. Drawing'
    BY <1>1, <1>3, <1>12, <1>13, <1>14, <1>15 DEF Drawing
  <1> QED  BY <1>14, <1>16 DEF DrawInv

\* The counties that cannot be split are filled in.
LEMMA SkipPreserves ==
    ASSUME DrawInv, SkipUnsplittableTrees
    PROVE  DrawInv'
  <1>1. /\ stage = "connect" /\ walk = NoWalk /\ stage' = "draw" /\ walk' = walk /\ UNCHANGED fixed
        /\ ActiveCounties \subseteq c_visited /\ c_visited' = c_visited /\ admin_roots' = admin_roots
    BY DEF SkipUnsplittableTrees
  <1>2. RegionToDraw /\ Drawing
    BY <1>1 DEF DrawInv
  <1>3. /\ TreeSoFar(ust, visited, c_visited, admin_roots) /\ OnlyEntered(ust, visited, admin_roots)
        /\ remaining = Cardinality(active \ visited)
    BY <1>1, <1>2 DEF Drawing
  <1> DEFINE skipped == IF NumCounties = 1 THEN {} ELSE {c \in ActiveCounties : Unsplittable(c)}
             M == FilledIn(skipped, admin_roots)
             R == PartsOf(skipped) \ visited
  <1>4. ust' = ust \cup M /\ visited' = visited \cup R /\ remaining' = remaining - Cardinality(R)
    BY DEF SkipUnsplittableTrees, FilledIn, PartsOf
  <1>5. skipped \in SUBSET ActiveCounties
    OBVIOUS
  <1> HIDE DEF skipped
  <1>6. TreeSoFar(ust \cup M, visited \cup R, c_visited, admin_roots)
    BY <1>1, <1>2, <1>3, <1>5, CountiesFilledIn
  <1>7. TreeSoFar(ust, visited, c_visited, admin_roots)'
    <2>1. TreeSoFar(ust', visited', c_visited', admin_roots')
      <3> HIDE DEF M, R
      <3> QED  BY <1>1, <1>4, <1>6
    <2> QED  BY <1>1, <2>1, FixedStays
  <1>8. remaining' = Cardinality(active \ visited')
    <2>1. R \in SUBSET (active \ visited)
      BY DEF PartsOf, CountyPart
    <2>2. IsFiniteSet(active)
      BY <1>2, RegionIs
    <2> HIDE DEF R
    <2>3. Cardinality(active \ (visited \cup R)) = Cardinality(active \ visited) - Cardinality(R)
      <3>1. LeavesFewer(active, visited, R)
        BY <2>1, <2>2, FewerLeft
      <3> QED  BY <3>1 DEF LeavesFewer
    <2> QED  BY <1>3, <1>4, <2>3
  <1>9. RegionToDraw' /\ active' = active /\ ActiveCounties' = ActiveCounties
    BY <1>1, <1>2, FixedStays
  <1>10. NoWalk' = NoWalk
    BY DEF NoWalk
  <1>11. Drawing'
    BY <1>1, <1>7, <1>8, <1>9, <1>10 DEF Drawing
  <1> QED  BY <1>9, <1>11 DEF DrawInv

\* A region without a tree yet, its counties told apart by c.
CountiesFit(c) ==
    /\ \A v \in active : c[v] \in Nat
    /\ \A u, v \in active : {u, v} \in Edges /\ map_counties[u] = map_counties[v] => c[u] = c[v]
    /\ \A v \in active : Connected(CountyPart(c, active, c[v]), Edges)

\* The pieces of the counties are counties of their own.
LEMMA PiecesFit ==
    ASSUME active \in SUBSET Vertices
    PROVE  CountiesFit(build_fake_counties)
  <1> DEFINE S(v) == CountyPart(map_counties, active, map_counties[v])
             piece(v) == Component(v, S(v), Edges)
             first == [v \in active |-> Min(piece(v))]
             upto(w) == {first[v] : v \in {u \in active : first[u] <= w}}
             number(w) == Cardinality(upto(w))
             c == build_fake_counties
  <1>1. \A v \in active : c[v] = number(first[v])
    <2>1. c = [v \in Vertices |-> IF v \in active THEN number(first[v]) ELSE 0]
      BY DEF build_fake_counties
    <2> HIDE DEF c, number, first
    <2> QED  BY <2>1
  <1> HIDE DEF c
  <1>2. \A u, v : v \in S(u) <=> v \in active /\ map_counties[v] = map_counties[u]
    BY DEF CountyPart
  <1>3. \A v \in active : v \in S(v) /\ S(v) \subseteq active /\ IsFiniteSet(S(v))
    <2> TAKE v \in active
    <2>1. S(v) \in SUBSET Vertices /\ S(v) \subseteq active
      BY <1>2
    <2> HIDE DEF S
    <2> QED  BY <1>2, <2>1, GraphFacts
  <1>4. \A u, v \in active : map_counties[u] = map_counties[v] => S(u) = S(v)
    BY DEF CountyPart
  <1> HIDE DEF S
  <1>5. \A v \in active : v \in piece(v) /\ Closed(piece(v), S(v), Edges) /\ piece(v) \subseteq S(v)
    <2> TAKE v \in active
    <2>1. v \in piece(v) /\ Closed(piece(v), S(v), Edges)
      BY <1>3, ComponentIsLeast
    <2> QED  BY <2>1 DEF Closed
  <1>6. \A v \in active : \A u \in piece(v) : u \in active /\ piece(u) = piece(v) /\ map_counties[u] = map_counties[v]
    <2> TAKE v \in active
    <2> TAKE u \in piece(v)
    <2>1. u \in S(v)
      BY <1>5
    <2>2. u \in active /\ map_counties[u] = map_counties[v]
      BY <1>2, <2>1
    <2>3. S(u) = S(v)
      BY <1>4, <2>2
    <2>4. Component(u, S(v), Edges) = Component(v, S(v), Edges)
      BY <1>3, SameComponent
    <2> QED  BY <2>2, <2>3, <2>4
  <1>7. \A v \in active : Connected(piece(v), Edges)
    BY <1>3, ComponentConnected
  <1> HIDE DEF piece
  <1>8. \A v \in active : first[v] \in Nat /\ first[v] \in piece(v)
    <2> TAKE v \in active
    <2>1. piece(v) \in SUBSET Nat /\ piece(v) # {}
      BY <1>3, <1>5, MapAssumption
    <2>2. Min(piece(v)) \in piece(v)
      BY <2>1, LeastIs
    <2> QED  BY <2>1, <2>2
  <1>9. \A u, v \in active : first[u] = first[v] <=> piece(u) = piece(v)
    <2> TAKE u, v \in active
    <2>1. ASSUME first[u] = first[v]
          PROVE  piece(u) = piece(v)
      <3> DEFINE m == first[u]
      <3>1. m \in piece(u) /\ m \in piece(v)
        BY <1>8, <2>1
      <3> HIDE DEF m, first
      <3>2. piece(m) = piece(u) /\ piece(m) = piece(v)
        BY <1>6, <3>1
      <3> QED  BY <3>2
    <2>2. ASSUME piece(u) = piece(v)
          PROVE  first[u] = first[v]
      BY <2>2
    <2> QED  BY <2>1, <2>2
  <1> HIDE DEF first
  <1>10. \A w : IsFiniteSet(upto(w))
    <2> TAKE w
    <2> DEFINE F == {first[v] : v \in active}
    <2>1. F \subseteq Vertices
      BY <1>6, <1>8
    <2>2. upto(w) \subseteq Vertices
      BY <2>1
    <2> QED  BY <2>2, MapAssumption, FS_Subset
  <1>11. \A u, v \in active : first[u] < first[v] => number(first[u]) < number(first[v])
    <2> TAKE u, v \in active
    <2> HAVE first[u] < first[v]
    <2>1. first[u] \in Nat /\ first[v] \in Nat /\ \A y \in active : first[y] \in Nat
      BY <1>8
    <2>2. upto(first[u]) \subseteq upto(first[v])
      BY <2>1
    <2>3. first[v] \in upto(first[v]) /\ first[v] \notin upto(first[u])
      BY <2>1
    <2> DEFINE A == upto(first[u])
               B == upto(first[v])
    <2>4. A \subseteq B /\ A # B /\ IsFiniteSet(B)
      BY <1>10, <2>2, <2>3
    <2> HIDE DEF A, B
    <2>5. Cardinality(A) < Cardinality(B)
      <3>1. IsFiniteSet(A) /\ Cardinality(A) <= Cardinality(B) /\ (Cardinality(A) = Cardinality(B) => A = B)
        BY <2>4, FS_Subset
      <3>2. Cardinality(A) \in Nat /\ Cardinality(B) \in Nat
        BY <2>4, <3>1, FS_CardinalityType
      <3> QED  BY <2>4, <3>1, <3>2
    <2> QED  BY <2>5 DEF A, B
  <1>12. \A v \in active : number(first[v]) \in Nat
    BY <1>10, FS_CardinalityType
  <1> HIDE DEF number
  <1>13. \A u, v \in active : c[u] = c[v] <=> piece(u) = piece(v)
    <2> TAKE u, v \in active
    <2>1. first[u] \in Nat /\ first[v] \in Nat /\ number(first[u]) \in Nat /\ number(first[v]) \in Nat
      BY <1>8, <1>12
    <2>2. first[u] < first[v] \/ first[v] < first[u] \/ first[u] = first[v]
      BY <2>1
    <2>3. number(first[u]) = number(first[v]) <=> first[u] = first[v]
      BY <1>11, <2>1, <2>2
    <2> QED  BY <1>1, <1>9, <2>3
  <1>14. \A v \in active : CountyPart(c, active, c[v]) = piece(v)
    <2> TAKE v \in active
    <2>1. \A u : u \in CountyPart(c, active, c[v]) <=> u \in active /\ c[u] = c[v]
      BY DEF CountyPart
    <2>2. ASSUME NEW u \in active, c[u] = c[v]
          PROVE  u \in piece(v)
      BY <1>5, <1>13, <2>2
    <2>3. ASSUME NEW u \in piece(v)
          PROVE  u \in active /\ c[u] = c[v]
      BY <1>6, <1>13
    <2> QED  BY <2>1, <2>2, <2>3
  <1>15. ASSUME NEW u \in active, NEW v \in active, {u, v} \in Edges, map_counties[u] = map_counties[v]
         PROVE  c[u] = c[v]
    <2>1. {u, v} \in Inside(S(u), Edges)
      BY <1>2, <1>3, <1>15 DEF Inside
    <2>2. v \in piece(u)
      BY <1>5, <2>1 DEF Closed
    <2>3. piece(v) = piece(u)
      BY <1>6, <2>2
    <2> QED  BY <1>13, <2>3
  <1>16. \A v \in active : c[v] \in Nat /\ Connected(CountyPart(c, active, c[v]), Edges)
    BY <1>1, <1>7, <1>12, <1>14
  <1>17. CountiesFit(c)
    BY <1>15, <1>16 DEF CountiesFit
  <1> QED  BY <1>17 DEF c

\* What is prepared for a draw.
LEMMA PreparedRegion ==
    ASSUME DrawInit
    PROVE  RegionToDraw
  <1>1. /\ map_counties \in [Vertices -> Nat] /\ active \in SUBSET Vertices /\ active # {}
        /\ counties = IF assume_hierarchical THEN map_counties ELSE build_fake_counties
        /\ assume_hierarchical => \A c \in CountiesIn(map_counties, active) :
                                      Connected(CountyPart(map_counties, active, c), Edges)
        /\ assume_hierarchical \in BOOLEAN
    BY DrawsAssumption DEF DrawInit, active
  <1>2. CountiesFit(counties)
    <2>1. CASE assume_hierarchical
      <3>1. CountiesFit(map_counties)
        BY <1>1, <2>1 DEF CountiesFit, CountiesIn
      <3> QED  BY <1>1, <2>1, <3>1
    <2>2. CASE ~assume_hierarchical
      <3>1. CountiesFit(build_fake_counties)
        BY <1>1, PiecesFit
      <3> QED  BY <1>1, <2>2, <3>1
    <2> QED  BY <2>1, <2>2
  <1>3. ActiveCounties \in SUBSET Nat /\ \A c \in ActiveCounties : Connected(CountyPart(counties, active, c), Edges)
    BY <1>2 DEF CountiesFit, ActiveCounties, CountiesIn
  <1> QED  BY <1>1, <1>2, <1>3 DEF RegionToDraw, CountiesFit

\* What earlier draws left behind leaves no precinct of the region.
LEMMA DrawInitEstablishes ==
    ASSUME DrawInit
    PROVE  DrawInv
  <1>1. RegionToDraw
    BY PreparedRegion
  <1>2. PICK earlier \in Earlier :
              /\ ust = {e \in earlier : e[1] \notin active}
              /\ admin_roots = [c \in CountiesIn(counties, Vertices) |->
                                   IF c = counties[root] THEN root
                                   ELSE Min(CountyPart(counties, Vertices, c))]
              /\ visited = ignore \cup {root}
              /\ c_visited = {counties[root]} \cup (CountiesIn(counties, Vertices) \ ActiveCounties)
    BY DEF DrawInit
  <1>3. root \in active /\ active \subseteq Vertices /\ IsFiniteSet(active)
        /\ \A v \in active : counties[v] \in ActiveCounties
    BY <1>1, RegionIs DEF RegionToDraw
  <1>4. OwnEdges(ust) = {} /\ WithinEdges(ust) = {} /\ CountySteps(ust) = {}
    <2>1. OwnEdges(ust) = {}
      BY <1>2 DEF OwnEdges
    <2>2. WithinEdges(ust) = {}
      BY <2>1 DEF WithinEdges
    <2> QED  BY <2>1, <2>2 DEF CountySteps, StepsOf
  <1>5. active \cap visited = {root} /\ active \ visited = active \ {root}
    BY <1>2, <1>3 DEF ignore
  <1>6. ActiveCounties \subseteq CountiesIn(counties, Vertices)
    BY <1>3 DEF ActiveCounties, CountiesIn
  <1>7. /\ ActiveCounties \subseteq DOMAIN admin_roots /\ admin_roots[counties[root]] = root
        /\ \A c \in ActiveCounties \cap c_visited : c = counties[root]
        /\ counties[root] \in c_visited
    BY <1>2, <1>3, <1>6
  <1>8. ust \subseteq Vertices \X Vertices
    BY <1>2, DrawsAssumption
  <1>9. Covers({}, {}) /\ Downward({})
    BY DEF Covers, Downward
  <1>10. (active \cap visited) \ {root} = {}
    BY <1>5
  <1>11. ignore \subseteq visited /\ root \in visited
    BY <1>2
  <1>12. TreeSoFar(ust, visited, c_visited, admin_roots)
    BY <1>3, <1>4, <1>5, <1>7, <1>8, <1>9, <1>10, <1>11 DEF TreeSoFar
  <1>13. OnlyEntered(ust, visited, admin_roots)
    BY <1>4, <1>5, <1>7 DEF OnlyEntered
  <1>14. remaining = Cardinality(active \ visited)
    <2>1. remaining = Cardinality(active) - 1
      BY DEF DrawInit
    <2>2. Cardinality(active \ {root}) = Cardinality(active) - 1
      BY <1>3, FS_RemoveElement
    <2> QED  BY <1>5, <2>1, <2>2
  <1>15. walk = NoWalk /\ stage = "connect"
    BY DEF DrawInit
  <1> QED  BY <1>1, <1>12, <1>13, <1>14, <1>15 DEF DrawInv, Drawing

\* Every step keeps it; from the cut on there is nothing to keep but the region.
LEMMA DrawStepPreserves ==
    ASSUME DrawInv, [DrawNext]_draw_vars
    PROVE  DrawInv'
  <1>1. CASE StartCountyWalk
    BY <1>1, StartCountyWalkPreserves
  <1>2. CASE CountyWalk
    BY <1>2, CountyWalkPreserves
  <1>3. CASE add_walk_from_admin
    BY <1>3, CountyJoinPreserves
  <1>4. CASE SkipUnsplittableTrees
    BY <1>4, SkipPreserves
  <1>5. CASE StartVertexWalk
    BY <1>5, StartVertexWalkPreserves
  <1>6. CASE VertexWalk /\ stage = "draw"
    BY <1>6, VertexWalkPreserves
  <1>7. CASE add_walk_from /\ stage = "draw"
    BY <1>7, VertexJoinPreserves
  <1>8. ASSUME UNCHANGED fixed, stage' \notin {"connect", "draw"}
        PROVE  DrawInv'
    <2>1. RegionToDraw'
      BY <1>8, FixedStays DEF DrawInv
    <2> QED  BY <1>8, <2>1 DEF DrawInv
  <1>9. CASE VertexWalk /\ stage # "draw"
    <2>1. UNCHANGED fixed /\ stage' = "fill"
      BY <1>9 DEF VertexWalk, Wander
    <2> QED  BY <1>8, <2>1
  <1>10. CASE add_walk_from /\ stage # "draw"
    <2>1. UNCHANGED fixed /\ stage' = "fill"
      BY <1>10 DEF add_walk_from
    <2> QED  BY <1>8, <2>1
  <1>11. CASE WalkFails
    <2>1. UNCHANGED fixed /\ stage' \in {"threw", "failed"}
      BY <1>11 DEF WalkFails
    <2> QED  BY <1>8, <2>1
  <1>12. CASE Reject
    <2>1. UNCHANGED fixed /\ stage' = "failed"
      BY <1>12 DEF Reject
    <2> QED  BY <1>8, <2>1
  <1>13. CASE update_from_successful_split
    <2>1. UNCHANGED fixed /\ stage' \in {"clear", "done"}
      BY <1>13 DEF update_from_successful_split
    <2> QED  BY <1>8, <2>1
  <1>14. CASE ClearCounty
    <2>1. UNCHANGED fixed /\ stage' = "fill"
      BY <1>14 DEF ClearCounty
    <2> QED  BY <1>8, <2>1
  <1>15. CASE StartFillingWalk
    <2>1. UNCHANGED fixed /\ stage' = "fill"
      BY <1>15 DEF StartFillingWalk
    <2> QED  BY <1>8, <2>1
  <1>16. CASE PackCounty
    <2>1. UNCHANGED fixed /\ stage' = "clear"
      BY <1>16 DEF PackCounty
    <2> QED  BY <1>8, <2>1
  <1>17. CASE Filled
    <2>1. UNCHANGED fixed /\ stage' = "done"
      BY <1>17 DEF Filled
    <2> QED  BY <1>8, <2>1
  <1>18. CASE UNCHANGED draw_vars
    <2>1. UNCHANGED <<fixed, stage, trees>> /\ walk' = walk
      BY <1>18 DEF draw_vars
    <2>2. CASE stage \notin {"connect", "draw"}
      BY <1>8, <2>1, <2>2
    <2>3. CASE stage \in {"connect", "draw"}
      <3>1. /\ RegionToDraw' /\ stage' = stage
            /\ TreeSoFar(ust, visited, c_visited, admin_roots)'
            /\ (remaining = Cardinality(active \ visited))'
            /\ stage' = "connect" => OnlyEntered(ust, visited, admin_roots)'
            /\ stage' = "draw" => (ActiveCounties \subseteq c_visited)'
        BY <2>1, <2>3, TreeStays
      <3>2. /\ active' = active /\ ActiveCounties' = ActiveCounties
            /\ \A c : AdminExits(c)' = AdminExits(c)
            /\ \A v : VertexExits(v)' = VertexExits(v)
        BY <2>1, FixedStays
      <3>3. visited' = visited /\ c_visited' = c_visited /\ walk' = walk /\ NoWalk' = NoWalk
        BY <2>1 DEF trees, NoWalk
      <3>4. walk # NoWalk => /\ IsWalk(walk)
                             /\ stage = "connect" => IsCountyWalk(walk)
                             /\ stage = "draw" => IsVertexWalk(walk)
        BY <2>3 DEF DrawInv, Drawing
      <3>5. IsWalk(walk) => IsWalk(walk)'
        BY <3>3 DEF IsWalk
      <3>6. IsCountyWalk(walk) => IsCountyWalk(walk)'
        BY <3>2, <3>3 DEF IsCountyWalk, Leads
      <3>7. IsVertexWalk(walk) => IsVertexWalk(walk)'
        BY <3>2, <3>3 DEF IsVertexWalk, Leads
      <3> QED  BY <3>1, <3>3, <3>4, <3>5, <3>6, <3>7 DEF DrawInv, Drawing
    <2> QED  BY <2>2, <2>3
  <1> QED  BY <1>1, <1>2, <1>3, <1>4, <1>5, <1>6, <1>7, <1>9, <1>10, <1>11, <1>12, <1>13, <1>14, <1>15, <1>16, <1>17, <1>18
           DEF DrawNext

\* When nothing is left to reach, the invariant says what was drawn.
LEMMA DrawnIsHierarchical ==
    ASSUME DrawInv
    PROVE  DrawnTreeIsHierarchical
  <1> SUFFICES ASSUME TreeDrawn
               PROVE  /\ ReachedFrom(root, ust) = active
                      /\ Undirected(TreeFrom(root, ust)) \in HierarchicalTrees(counties, active)
    BY DEF DrawnTreeIsHierarchical
  <1>1. RegionToDraw /\ TreeSoFar(ust, visited, c_visited, admin_roots) /\ Cardinality(active \ visited) = 0
    BY DEF DrawInv, Drawing, TreeDrawn
  <1>2. active \subseteq visited
    <2> DEFINE L == active \ visited
    <2>1. IsFiniteSet(L)
      BY <1>1, RegionIs, FS_Subset
    <2>2. Cardinality(L) = 0
      BY <1>1
    <2> HIDE DEF L
    <2>3. L = {}
      BY <2>1, <2>2, FS_EmptySet
    <2> QED  BY <2>3 DEF L
  <1> QED  BY <1>1, <1>2, DrawnTreeIs

\* Whatever walks are made, and whatever earlier draws left behind, the tree
\* that is cut is a hierarchical spanning tree of the region.
THEOREM DrawnTreesAreHierarchical == DrawSpec => []DrawnTreeIsHierarchical
  <1>1. DrawInit => DrawInv
    BY DrawInitEstablishes
  <1>2. DrawInv /\ [DrawNext]_draw_vars => DrawInv'
    BY DrawStepPreserves
  <1>3. DrawInv => DrawnTreeIsHierarchical
    BY DrawnIsHierarchical
  <1> QED  BY <1>1, <1>2, <1>3, PTL DEF DrawSpec
=============================================================================
