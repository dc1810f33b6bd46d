--------------------------- MODULE CycleWalkProofs ---------------------------
(***************************************************************************)
(* Proofs about CycleWalk, for every map, populations, bounds and plan to  *)
(* start from.                                                             *)
(*                                                                         *)
(* First a theory of rooted forests: paths and roots, what is below a vertex, *)
(* and what cutting, linking and everting do to roots and edges.  A move is *)
(* then told by its arc: the vertices below the edge or edges it cuts, which *)
(* change trees (UpdateMakes).  The sum of collapsed weights that the bounds *)
(* are tested on is the population of that arc (ArcPopIsSum), and what the *)
(* roots say of districts after the move is told by the arc as well        *)
(* (UpdateTells).  The invariant WalkInv adds to the properties how a move *)
(* under way is taken back: from some forest that spanned the old districts *)
(* the update has made the present one (CanTakeBack).                      *)
(*                                                                         *)
(* That the move back sees the same cuts needs them told without the paths: *)
(* as the pairs of edges of the graph, trees and links together, that lie on *)
(* a cycle and are around one part of the two districts that fits the bounds *)
(* (IsFitting, CutsAre).  The graph is the same before and after the move, *)
(* and so are the two districts' vertices taken together (CutsStayKnown).  *)
(***************************************************************************)
EXTENDS CycleWalk, FiniteStructures

---------------------------------------------------------------------------
(***************************************************************************)
(* Rooted forests                                                          *)
(***************************************************************************)
\* D falls on the way up.
Falls(f, D) == D \in [Vertices -> Nat] /\ \A v \in Vertices : f[v] # NULL => D[f[v]] < D[v]

\* A forest: going up ends, because something falls.
Rooted(f) == f \in Parents /\ \E D : Falls(f, D)

\* A parent is NULL or a vertex.
LEMMA ParentType ==
    ASSUME NEW f \in Parents
    PROVE  \A v \in Vertices : f[v] = NULL \/ f[v] \in Vertices
  BY DEF Parents

\* What holds of a vertex whenever it holds of its parent holds of all.
LEMMA ForestInduction ==
    ASSUME NEW f, Rooted(f), NEW S, \A v \in Vertices : f[v] = NULL \/ f[v] \in S => v \in S
    PROVE  \A v \in Vertices : v \in S
  <1>1. PICK D : Falls(f, D)
    BY DEF Rooted
  <1>2. D \in [Vertices -> Nat] /\ \A v \in Vertices : f[v] # NULL => D[f[v]] < D[v] /\ f[v] \in Vertices
    BY <1>1, ParentType DEF Falls, Rooted
  <1> DEFINE N == {n \in Nat : \A v \in Vertices : D[v] < n => v \in S}
  <1>3. 0 \in N
    BY <1>2
  <1>4. ASSUME NEW n \in Nat, n \in N
        PROVE  n + 1 \in N
    <2> SUFFICES ASSUME NEW v \in Vertices, D[v] < n + 1, f[v] # NULL
                 PROVE  f[v] \in S
      OBVIOUS
    <2>1. D[f[v]] < D[v] /\ f[v] \in Vertices /\ D[v] \in Nat /\ D[f[v]] \in Nat
      BY <1>2
    <2>2. D[f[v]] < n
      BY <2>1
    <2> QED  BY <1>4, <2>1, <2>2
  <1>5. Nat \subseteq N
    <2> HIDE DEF N
    <2> QED  BY <1>3, <1>4, SetInduction
  <1> SUFFICES ASSUME NEW v \in Vertices
               PROVE  v \in S
    OBVIOUS
  <1>6. D[v] + 1 \in N /\ D[v] < D[v] + 1
    BY <1>2, <1>5
  <1> QED  BY <1>6

\* What falls starts below some number.
LEMMA FallsFrom ==
    ASSUME NEW D \in [Vertices -> Nat]
    PROVE  \E n \in Nat : \A v \in Vertices : D[v] < n
  <1> DEFINE G == {T \in SUBSET Vertices : \E n \in Nat : \A v \in T : D[v] < n}
  <1>1. {} \in G
    BY 0 \in Nat
  <1>2. ASSUME NEW T \in SUBSET Vertices, NEW x \in Vertices \ T, T \in G
        PROVE  T \cup {x} \in G
    <2>1. PICK n \in Nat : \A v \in T : D[v] < n
      BY <1>2
    <2> DEFINE m == n + D[x] + 1
    <2>2. m \in Nat /\ \A v \in T \cup {x} : D[v] < m
      BY <2>1
    <2> QED  BY <2>2
  <1> HIDE DEF G
  <1>3. Vertices \in G
    BY <1>1, <1>2, SubsetInduction, VerticesAssumption
  <1> QED  BY <1>3 DEF G

\* The function the recursive definition of PathTo is about.
PathsOf(f) == CHOOSE path : path = [w \in Vertices |-> IF f[w] = NULL THEN <<w>> ELSE Append(path[f[w]], w)]

\* A path goes on from the path to the parent.
LEMMA PathStep ==
    ASSUME NEW f, Rooted(f), NEW v \in Vertices
    PROVE  PathTo(f, v) = IF f[v] = NULL THEN <<v>> ELSE Append(PathTo(f, f[v]), v)
  <1> DEFINE Next1(p, w) == IF f[w] = NULL THEN <<w>> ELSE Append(p[f[w]], w)
  <1>1. PICK D : Falls(f, D)
    BY DEF Rooted
  <1>2. D \in [Vertices -> Nat] /\ \A w \in Vertices : f[w] # NULL => D[f[w]] < D[w] /\ f[w] \in Vertices
    BY <1>1, ParentType DEF Falls, Rooted
  <1> DEFINE N == {n \in Nat : \E p \in [Vertices -> Seq(Vertices)] :
                       \A w \in Vertices : D[w] < n => p[w] = Next1(p, w)}
  <1>3. 0 \in N
    <2> DEFINE p == [w \in Vertices |-> <<>>]
    <2>1. p \in [Vertices -> Seq(Vertices)]
      OBVIOUS
    <2>2. \A w \in Vertices : ~(D[w] < 0)
      BY <1>2
    <2> QED  BY <2>1, <2>2
  <1>4. ASSUME NEW n \in Nat, n \in N
        PROVE  n + 1 \in N
    <2>1. PICK p \in [Vertices -> Seq(Vertices)] : \A w \in Vertices : D[w] < n => p[w] = Next1(p, w)
      BY <1>4
    <2> DEFINE q == [w \in Vertices |-> Next1(p, w)]
    <2>2. q \in [Vertices -> Seq(Vertices)]
      <3> SUFFICES ASSUME NEW w \in Vertices
                   PROVE  Next1(p, w) \in Seq(Vertices)
        OBVIOUS
      <3>1. f[w] # NULL => p[f[w]] \in Seq(Vertices)
        BY <1>2
      <3> QED  BY <3>1
    <2>3. ASSUME NEW w \in Vertices, D[w] < n + 1
          PROVE  q[w] = Next1(q, w)
      <3>1. CASE f[w] = NULL
        BY <3>1
      <3>2. CASE f[w] # NULL
        <4>1. f[w] \in Vertices /\ D[f[w]] < n
          BY <1>2, <2>3, <3>2
        <4>2. p[f[w]] = Next1(p, f[w])
          BY <2>1, <4>1
        <4>3. q[f[w]] = p[f[w]]
          BY <4>1, <4>2
        <4>4. q[w] = Append(p[f[w]], w)
          BY <3>2
        <4> QED  BY <3>2, <4>3, <4>4
      <3> QED  BY <3>1, <3>2
    <2>4. \A w \in Vertices : D[w] < n + 1 => q[w] = Next1(q, w)
      BY <2>3
    <2> HIDE DEF q, Next1
    <2> QED  BY <2>2, <2>4, n + 1 \in Nat
  <1>5. Nat \subseteq N
    <2> HIDE DEF N
    <2> QED  BY <1>3, <1>4, SetInduction
  <1>6. PICK n \in Nat : \A w \in Vertices : D[w] < n
    BY <1>2, FallsFrom
  <1>7. PICK p \in [Vertices -> Seq(Vertices)] : \A w \in Vertices : D[w] < n => p[w] = Next1(p, w)
    BY <1>5, <1>6
  <1>8. p = [w \in Vertices |-> IF f[w] = NULL THEN <<w>> ELSE Append(p[f[w]], w)]
    BY <1>6, <1>7
  <1>9. PathsOf(f) = [w \in Vertices |-> IF f[w] = NULL THEN <<w>> ELSE Append(PathsOf(f)[f[w]], w)]
    BY <1>8 DEF PathsOf
  <1>10. \A w : PathTo(f, w) = PathsOf(f)[w]
    BY DEF PathTo, PathsOf
  <1> HIDE DEF Next1
  <1> QED  BY <1>9, <1>10

\* p leads from a root of f to v.
IsPath(f, p, v) ==
    /\ p \in Seq(Vertices) /\ Len(p) \in Nat /\ Len(p) >= 1
    /\ p[Len(p)] = v
    /\ f[p[1]] = NULL
    /\ \A i \in 2..Len(p) : f[p[i]] = p[i - 1]

\* What Append does to the places of a sequence.
LEMMA AppendFacts ==
    ASSUME NEW s \in Seq(Vertices), NEW v \in Vertices
    PROVE  /\ Append(s, v) \in Seq(Vertices)
           /\ Len(Append(s, v)) = Len(s) + 1 /\ Len(s) \in Nat
           /\ \A i \in 1..Len(s) : Append(s, v)[i] = s[i]
           /\ Append(s, v)[Len(s) + 1] = v
  OBVIOUS

\* PathTo is such a path.
LEMMA PathFacts ==
    ASSUME NEW f, Rooted(f)
    PROVE  \A v \in Vertices : IsPath(f, PathTo(f, v), v)
  <1> DEFINE S == {v \in Vertices : IsPath(f, PathTo(f, v), v)}
  <1>1. ASSUME NEW v \in Vertices, f[v] = NULL \/ f[v] \in S
        PROVE  IsPath(f, PathTo(f, v), v)
    <2>1. CASE f[v] = NULL
      <3>1. PathTo(f, v) = <<v>>
        BY <2>1, PathStep
      <3>2. <<v>> \in Seq(Vertices) /\ Len(<<v>>) = 1 /\ <<v>>[1] = v
        OBVIOUS
      <3> QED  BY <2>1, <3>1, <3>2 DEF IsPath
    <2>2. CASE f[v] # NULL
      <3> DEFINE p == PathTo(f, f[v])
                 q == Append(p, v)
      <3>1. PathTo(f, v) = q
        BY <2>2, PathStep
      <3>2. IsPath(f, p, f[v])
        BY <1>1, <2>2
      <3>3. p \in Seq(Vertices)
        BY <3>2 DEF IsPath
      <3> HIDE DEF p
      <3>4. /\ q \in Seq(Vertices) /\ Len(q) = Len(p) + 1 /\ Len(p) \in Nat
            /\ \A i \in 1..Len(p) : q[i] = p[i]
            /\ q[Len(p) + 1] = v
        BY <3>3, AppendFacts
      <3> HIDE DEF q
      <3>5. Len(p) >= 1 /\ p[Len(p)] = f[v] /\ f[p[1]] = NULL /\ \A i \in 2..Len(p) : f[p[i]] = p[i - 1]
        BY <3>2 DEF IsPath
      <3>6. f[q[1]] = NULL
        BY <3>4, <3>5
      <3>7. ASSUME NEW i \in 2..Len(q)
            PROVE  f[q[i]] = q[i - 1]
        <4>1. CASE i = Len(p) + 1
          BY <3>4, <3>5, <4>1
        <4>2. CASE i # Len(p) + 1
          <5>1. i \in 2..Len(p) /\ i \in 1..Len(p) /\ i - 1 \in 1..Len(p)
            BY <3>4, <4>2
          <5> QED  BY <3>4, <3>5, <5>1
        <4> QED  BY <4>1, <4>2
      <3> QED  BY <3>1, <3>4, <3>5, <3>6, <3>7 DEF IsPath
    <2> QED  BY <2>1, <2>2
  <1>2. \A v \in Vertices : f[v] = NULL \/ f[v] \in S => v \in S
    BY <1>1
  <1> HIDE DEF S
  <1>3. \A v \in Vertices : v \in S
    BY <1>2, ForestInduction
  <1> QED  BY <1>3 DEF S

\* Roots are their own; others have the root of their parent.
LEMMA RootStep ==
    ASSUME NEW f, Rooted(f), NEW v \in Vertices
    PROVE  RootOf(f, v) = IF f[v] = NULL THEN v ELSE RootOf(f, f[v])
  <1>1. CASE f[v] = NULL
    <2>1. PathTo(f, v) = <<v>>
      BY <1>1, PathStep
    <2> QED  BY <1>1, <2>1 DEF RootOf
  <1>2. CASE f[v] # NULL
    <2> DEFINE p == PathTo(f, f[v])
    <2>1. f[v] \in Vertices
      BY <1>2, ParentType DEF Rooted
    <2>2. PathTo(f, v) = Append(p, v)
      BY <1>2, PathStep
    <2>3. p \in Seq(Vertices) /\ Len(p) >= 1
      BY <2>1, PathFacts DEF IsPath
    <2> HIDE DEF p
    <2>4. Append(p, v)[1] = p[1]
      <3>1. 1 \in 1..Len(p)
        BY <2>3
      <3> QED  BY <2>3, <3>1, AppendFacts
    <2>5. RootOf(f, v) = Append(p, v)[1] /\ RootOf(f, f[v]) = p[1]
      BY <2>2 DEF RootOf, p
    <2> QED  BY <1>2, <2>4, <2>5
  <1> QED  BY <1>1, <1>2

\* A root is a vertex without a parent, and its own root.
LEMMA RootFacts ==
    ASSUME NEW f, Rooted(f), NEW v \in Vertices
    PROVE  /\ RootOf(f, v) \in Vertices /\ f[RootOf(f, v)] = NULL
           /\ RootOf(f, RootOf(f, v)) = RootOf(f, v)
  <1> DEFINE p == PathTo(f, v)
  <1>1. p \in Seq(Vertices) /\ Len(p) >= 1 /\ f[p[1]] = NULL /\ Len(p) \in Nat
    BY PathFacts DEF IsPath
  <1> HIDE DEF p
  <1>2. p[1] \in Vertices
    BY <1>1
  <1>3. RootOf(f, v) = p[1]
    BY DEF p, RootOf
  <1>4. RootOf(f, p[1]) = p[1]
    BY <1>1, <1>2, RootStep
  <1> QED  BY <1>1, <1>2, <1>3, <1>4

\* Only the roots satisfy what they satisfy.
LEMMA RootIs ==
    ASSUME NEW f, Rooted(f), NEW r,
           \A v \in Vertices : r[v] = IF f[v] = NULL THEN v ELSE r[f[v]]
    PROVE  \A v \in Vertices : RootOf(f, v) = r[v]
  <1> DEFINE S == {v \in Vertices : RootOf(f, v) = r[v]}
  <1>1. ASSUME NEW v \in Vertices, f[v] = NULL \/ f[v] \in S
        PROVE  v \in S
    BY <1>1, RootStep
  <1> HIDE DEF S
  <1>2. \A v \in Vertices : v \in S
    BY <1>1, ForestInduction
  <1> QED  BY <1>2 DEF S

\* A vertex is below another when it is that vertex or its parent is below.
LEMMA BelowStep ==
    ASSUME NEW f, Rooted(f), NEW u \in Vertices, NEW w \in Vertices
    PROVE  w \in Below(f, u) <=> w = u \/ (f[w] # NULL /\ f[w] \in Below(f, u))
  <1>1. CASE f[w] = NULL
    <2>1. PathTo(f, w) = <<w>>
      BY <1>1, PathStep
    <2>2. Visits(<<w>>, u) <=> w = u
      BY DEF Visits
    <2> QED  BY <1>1, <2>1, <2>2 DEF Below
  <1>2. CASE f[w] # NULL
    <2> DEFINE p == PathTo(f, f[w])
    <2>1. f[w] \in Vertices
      BY <1>2, ParentType DEF Rooted
    <2>2. PathTo(f, w) = Append(p, w)
      BY <1>2, PathStep
    <2>3. p \in Seq(Vertices)
      BY <2>1, PathFacts DEF IsPath
    <2>4. f[w] \in Below(f, u) <=> Visits(p, u)
      BY <2>1 DEF Below
    <2>5. w \in Below(f, u) <=> Visits(Append(p, w), u)
      BY <2>2 DEF Below
    <2> HIDE DEF p
    <2>6. /\ Append(p, w) \in Seq(Vertices) /\ Len(Append(p, w)) = Len(p) + 1 /\ Len(p) \in Nat
          /\ \A i \in 1..Len(p) : Append(p, w)[i] = p[i]
          /\ Append(p, w)[Len(p) + 1] = w
      BY <2>3, AppendFacts
    <2>7. DOMAIN p = 1..Len(p) /\ DOMAIN Append(p, w) = 1..Len(p) + 1
      BY <2>3, <2>6
    <2>8. Visits(Append(p, w), u) <=> w = u \/ Visits(p, u)
      <3>1. ASSUME NEW i \in 1..Len(p) + 1, Append(p, w)[i] = u
            PROVE  w = u \/ \E k \in 1..Len(p) : p[k] = u
        <4>1. CASE i = Len(p) + 1
          BY <2>6, <3>1, <4>1
        <4>2. CASE i # Len(p) + 1
          <5>1. i \in 1..Len(p)
            BY <2>6, <4>2
          <5> QED  BY <2>6, <3>1, <5>1
        <4> QED  BY <4>1, <4>2
      <3>2. ASSUME NEW i \in 1..Len(p), p[i] = u
            PROVE  \E k \in 1..Len(p) + 1 : Append(p, w)[k] = u
        <4>1. i \in 1..Len(p) + 1
          BY <2>6
        <4> QED  BY <2>6, <3>2, <4>1
      <3>3. w = u => \E k \in 1..Len(p) + 1 : Append(p, w)[k] = u
        BY <2>6, Len(p) + 1 \in 1..Len(p) + 1
      <3> QED  BY <2>7, <3>1, <3>2, <3>3 DEF Visits
    <2> QED  BY <1>2, <2>4, <2>5, <2>8
  <1> QED  BY <1>1, <1>2

\* Only what is below u satisfies that.
LEMMA BelowIs ==
    ASSUME NEW f, Rooted(f), NEW u \in Vertices, NEW B \in SUBSET Vertices,
           \A w \in Vertices : w \in B <=> w = u \/ (f[w] # NULL /\ f[w] \in B)
    PROVE  Below(f, u) = B
  <1> DEFINE S == {w \in Vertices : w \in Below(f, u) <=> w \in B}
  <1>1. ASSUME NEW w \in Vertices, f[w] = NULL \/ f[w] \in S
        PROVE  w \in S
    BY <1>1, BelowStep
  <1> HIDE DEF S
  <1>2. \A w \in Vertices : w \in S
    BY <1>1, ForestInduction
  <1>3. Below(f, u) \subseteq Vertices
    BY DEF Below
  <1> QED  BY <1>2, <1>3 DEF S

\* A vertex has the root of every vertex above it, and is below its root.
LEMMA BelowFacts ==
    ASSUME NEW f, Rooted(f)
    PROVE  /\ \A u \in Vertices : Below(f, u) \subseteq Vertices /\ u \in Below(f, u)
           /\ \A u \in Vertices : \A w \in Below(f, u) : RootOf(f, w) = RootOf(f, u)
           /\ \A u, w \in Vertices : \A x \in Below(f, w) : w \in Below(f, u) => x \in Below(f, u)
           /\ \A w \in Vertices : w \in Below(f, RootOf(f, w))
  <1>1. \A u \in Vertices : Below(f, u) \subseteq Vertices /\ u \in Below(f, u)
    <2> TAKE u \in Vertices
    <2>1. u \in Below(f, u)
      BY BelowStep
    <2> QED  BY <2>1 DEF Below
  <1>2. ASSUME NEW u \in Vertices
        PROVE  \A w \in Below(f, u) : RootOf(f, w) = RootOf(f, u)
    <2> DEFINE S == {w \in Vertices : w \in Below(f, u) => RootOf(f, w) = RootOf(f, u)}
    <2>1. ASSUME NEW w \in Vertices, f[w] = NULL \/ f[w] \in S
          PROVE  w \in S
      BY <2>1, BelowStep, RootStep
    <2> HIDE DEF S
    <2>2. \A w \in Vertices : w \in S
      BY <2>1, ForestInduction
    <2> QED  BY <1>1, <2>2 DEF S
  <1>3. ASSUME NEW u \in Vertices, NEW w \in Vertices, w \in Below(f, u)
        PROVE  \A x \in Below(f, w) : x \in Below(f, u)
    <2> DEFINE S == {x \in Vertices : x \in Below(f, w) => x \in Below(f, u)}
    <2>1. ASSUME NEW x \in Vertices, f[x] = NULL \/ f[x] \in S
          PROVE  x \in S
      BY <1>3, <2>1, BelowStep
    <2> HIDE DEF S
    <2>2. \A x \in Vertices : x \in S
      BY <2>1, ForestInduction
    <2> QED  BY <1>1, <2>2 DEF S
  <1>4. \A w \in Vertices : w \in Below(f, RootOf(f, w))
    <2> DEFINE S == {w \in Vertices : w \in Below(f, RootOf(f, w))}
    <2>1. ASSUME NEW w \in Vertices, f[w] = NULL \/ f[w] \in S
          PROVE  w \in S
      BY <2>1, BelowStep, RootStep, RootFacts
    <2> HIDE DEF S
    <2>2. \A w \in Vertices : w \in S
      BY <2>1, ForestInduction
    <2> QED  BY <2>2 DEF S
  <1> QED  BY <1>1, <1>2, <1>3, <1>4

\* What is below does not fall further than what is above.
LEMMA BelowFalls ==
    ASSUME NEW f, Rooted(f), NEW D, Falls(f, D), NEW u \in Vertices
    PROVE  \A w \in Below(f, u) : w = u \/ D[u] < D[w]
  <1>1. D \in [Vertices -> Nat] /\ \A w \in Vertices : f[w] # NULL => D[f[w]] < D[w] /\ f[w] \in Vertices
    BY ParentType DEF Falls, Rooted
  <1> DEFINE S == {w \in Vertices : w \in Below(f, u) => w = u \/ D[u] < D[w]}
  <1>2. ASSUME NEW w \in Vertices, f[w] = NULL \/ f[w] \in S
        PROVE  w \in S
    <2>1. CASE w = u \/ f[w] = NULL \/ f[w] \notin Below(f, u)
      BY <2>1, BelowStep
    <2>2. CASE f[w] # NULL /\ f[w] \in Below(f, u)
      <3>1. f[w] \in Vertices /\ D[f[w]] < D[w] /\ (f[w] = u \/ D[u] < D[f[w]])
        BY <1>1, <1>2, <2>2
      <3>2. D[u] \in Nat /\ D[w] \in Nat /\ D[f[w]] \in Nat
        BY <1>1, <3>1
      <3> QED  BY <3>1, <3>2
    <2> QED  BY <2>1, <2>2
  <1> HIDE DEF S
  <1>3. \A w \in Vertices : w \in S
    BY <1>2, ForestInduction
  <1> QED  BY <1>3, BelowFacts DEF S

\* No two vertices are below each other.
LEMMA BelowOneWay ==
    ASSUME NEW f, Rooted(f), NEW u \in Vertices, NEW w \in Vertices,
           w \in Below(f, u), u \in Below(f, w)
    PROVE  u = w
  <1>1. PICK D : Falls(f, D)
    BY DEF Rooted
  <1>2. D[u] \in Nat /\ D[w] \in Nat
    BY <1>1 DEF Falls
  <1> QED  BY <1>1, <1>2, BelowFalls

\* On a path, what comes later is below what comes earlier, and not the other way.
LEMMA PathBelow ==
    ASSUME NEW f, Rooted(f), NEW v \in Vertices, NEW p, IsPath(f, p, v)
    PROVE  /\ \A i \in 1..Len(p) : p[i] \in Vertices
           /\ \A i, j \in 1..Len(p) : i <= j => p[j] \in Below(f, p[i])
           /\ \A i, j \in 1..Len(p) : i < j => p[i] \notin Below(f, p[j]) /\ p[i] # p[j]
           /\ \A i \in 1..Len(p) : RootOf(f, p[i]) = p[1]
  <1>0. p \in Seq(Vertices) /\ Len(p) \in Nat /\ Len(p) >= 1 /\ p[Len(p)] = v /\ f[p[1]] = NULL
        /\ \A i \in 2..Len(p) : f[p[i]] = p[i - 1]
    BY DEF IsPath
  <1>1. \A i \in 1..Len(p) : p[i] \in Vertices
    BY <1>0
  <1>2. ASSUME NEW i \in 1..Len(p)
        PROVE  \A j \in 1..Len(p) : i <= j => p[j] \in Below(f, p[i])
    <2> DEFINE S == {n \in Nat : i + n <= Len(p) => p[i + n] \in Below(f, p[i])}
    <2>1. 0 \in S
      BY <1>1, BelowFacts
    <2>2. ASSUME NEW n \in Nat, n \in S
          PROVE  n + 1 \in S
      <3> SUFFICES ASSUME i + (n + 1) <= Len(p)
                   PROVE  p[i + (n + 1)] \in Below(f, p[i])
        OBVIOUS
      <3> DEFINE j == i + (n + 1)
      <3>1. j \in 2..Len(p) /\ j \in 1..Len(p) /\ j - 1 \in 1..Len(p) /\ j - 1 = i + n
        BY <1>0
      <3>2. p[j - 1] \in Below(f, p[i])
        BY <1>0, <2>2, <3>1
      <3>3. f[p[j]] = p[j - 1] /\ p[j] \in Vertices /\ p[j - 1] \in Vertices /\ p[i] \in Vertices
        BY <1>0, <1>1, <3>1
      <3>4. p[j - 1] # NULL
        BY <3>3, VerticesAssumption
      <3> HIDE DEF j
      <3>5. p[j] \in Below(f, p[i])
        BY <3>2, <3>3, <3>4, BelowStep
      <3> QED  BY <3>5 DEF j
    <2>3. Nat \subseteq S
      <3> HIDE DEF S
      <3> QED  BY <2>1, <2>2, SetInduction
    <2> SUFFICES ASSUME NEW j \in 1..Len(p), i <= j
                 PROVE  p[j] \in Below(f, p[i])
      OBVIOUS
    <2>4. j - i \in S /\ i + (j - i) = j
      BY <1>0, <2>3
    <2>5. j <= Len(p)
      BY <1>0
    <2> QED  BY <2>4, <2>5
  <1>3. ASSUME NEW i \in 1..Len(p), NEW j \in 1..Len(p), i < j
        PROVE  p[i] \notin Below(f, p[j]) /\ p[i] # p[j]
    <2>1. j \in 2..Len(p) /\ j - 1 \in 1..Len(p) /\ i <= j - 1 /\ i <= j
      BY <1>0, <1>3
    <2>2. p[j - 1] \in Below(f, p[i]) /\ p[j] \in Below(f, p[i])
      BY <1>2, <2>1
    <2>3. f[p[j]] = p[j - 1] /\ p[j] \in Vertices /\ p[j - 1] \in Vertices /\ p[i] \in Vertices
      BY <1>0, <1>1, <2>1
    <2>4. p[j] # p[j - 1]
      <3>1. PICK D : Falls(f, D)
        BY DEF Rooted
      <3>2. D[p[j - 1]] < D[p[j]] /\ D[p[j]] \in Nat
        BY <3>1, <2>3, VerticesAssumption DEF Falls
      <3> QED  BY <3>2
    <2>5. p[j - 1] \notin Below(f, p[j])
      <3>1. p[j] \in Below(f, p[j - 1])
        BY <1>2, <2>1
      <3> QED  BY <2>3, <2>4, <3>1, BelowOneWay
    <2>6. p[i] \notin Below(f, p[j])
      BY <2>2, <2>3, <2>5, BelowFacts
    <2>7. p[j] \in Below(f, p[j])
      BY <2>3, BelowFacts
    <2> QED  BY <2>6, <2>7
  <1>4. ASSUME NEW i \in 1..Len(p)
        PROVE  RootOf(f, p[i]) = p[1]
    <2>1. 1 \in 1..Len(p) /\ 1 <= i
      BY <1>0
    <2>2. p[i] \in Below(f, p[1]) /\ p[1] \in Vertices
      BY <1>1, <1>2, <2>1
    <2>3. RootOf(f, p[1]) = p[1]
      BY <1>0, <2>2, RootStep
    <2> QED  BY <2>2, <2>3, BelowFacts
  <1> QED  BY <1>1, <1>2, <1>3, <1>4

---------------------------------------------------------------------------
(***************************************************************************)
(* What cutting, linking and everting do                                   *)
(***************************************************************************)
\* An edge is that of a vertex to its parent.
LEMMA EdgeIs ==
    ASSUME NEW f \in Parents, NEW x, NEW y
    PROVE  {x, y} \in EdgesOf(f) <=> \/ x \in Vertices /\ f[x] = y /\ y # NULL
                                     \/ y \in Vertices /\ f[y] = x /\ x # NULL
  <1>1. ASSUME {x, y} \in EdgesOf(f)
        PROVE  \/ x \in Vertices /\ f[x] = y /\ y # NULL
               \/ y \in Vertices /\ f[y] = x /\ x # NULL
    <2>1. PICK v \in Vertices : f[v] # NULL /\ {x, y} = {v, f[v]}
      BY <1>1 DEF EdgesOf
    <2>2. (x = v /\ y = f[v]) \/ (y = v /\ x = f[v])
      BY <2>1
    <2> QED  BY <2>1, <2>2
  <1>2. ASSUME NEW v \in Vertices, f[v] # NULL
        PROVE  {v, f[v]} \in EdgesOf(f) /\ {f[v], v} \in EdgesOf(f)
    <2>1. {v, f[v]} \in EdgesOf(f)
      BY <1>2 DEF EdgesOf
    <2>2. {v, f[v]} = {f[v], v}
      OBVIOUS
    <2> QED  BY <2>1, <2>2
  <1> QED  BY <1>1, <1>2

\* A vertex is not the parent of its parent, nor of itself.
LEMMA ParentIsAbove ==
    ASSUME NEW f, Rooted(f), NEW v \in Vertices, f[v] # NULL
    PROVE  f[v] \in Vertices /\ f[v] # v /\ f[f[v]] # v
  <1>1. PICK D : Falls(f, D)
    BY DEF Rooted
  <1>2. f[v] \in Vertices /\ v # NULL
    BY ParentType, VerticesAssumption DEF Rooted
  <1>3. D[v] \in Nat /\ D[f[v]] \in Nat /\ D[f[v]] < D[v] /\ (f[f[v]] # NULL => D[f[f[v]]] < D[f[v]])
    BY <1>1, <1>2 DEF Falls
  <1> QED  BY <1>2, <1>3

\* A cut takes one edge, and what is below it has the child cut off as root.
LEMMA CutFacts ==
    ASSUME NEW f, Rooted(f), NEW k \in Vertices, f[k] # NULL, NEW g, g = CutOff(f, k)
    PROVE  /\ Rooted(g) /\ g[k] = NULL /\ \A w \in Vertices : w # k => g[w] = f[w]
           /\ \A w \in Vertices : RootOf(g, w) = IF w \in Below(f, k) THEN k ELSE RootOf(f, w)
           /\ \A b \in Vertices : Below(g, b) = {w \in Below(f, b) : w \in Below(f, k) => b \in Below(f, k)}
           /\ EdgesOf(g) = EdgesOf(f) \ {{k, f[k]}}
  <1>0. f \in Parents /\ k # NULL
    BY VerticesAssumption DEF Rooted
  <1>1. g \in Parents /\ g[k] = NULL /\ \A w \in Vertices : w # k => g[w] = f[w]
    BY <1>0 DEF CutOff, Parents
  <1>2. Rooted(g)
    <2>1. PICK D : Falls(f, D)
      BY DEF Rooted
    <2>2. Falls(g, D)
      BY <1>1, <2>1 DEF Falls
    <2> QED  BY <1>1, <2>2 DEF Rooted
  <1>3. \A w \in Vertices : RootOf(g, w) = IF w \in Below(f, k) THEN k ELSE RootOf(f, w)
    <2> DEFINE r == [w \in Vertices |-> IF w \in Below(f, k) THEN k ELSE RootOf(f, w)]
    <2>1. ASSUME NEW w \in Vertices
          PROVE  r[w] = IF g[w] = NULL THEN w ELSE r[g[w]]
      <3>1. CASE w = k
        BY <1>1, <3>1, BelowFacts
      <3>2. CASE w # k /\ f[w] = NULL
        <4>1. w \notin Below(f, k) /\ RootOf(f, w) = w
          BY <3>2, BelowStep, RootStep
        <4> QED  BY <1>1, <3>2, <4>1
      <3>3. CASE w # k /\ f[w] # NULL
        <4>1. f[w] \in Vertices /\ g[w] = f[w]
          BY <1>0, <1>1, <3>3, ParentType
        <4>2. (w \in Below(f, k) <=> f[w] \in Below(f, k)) /\ RootOf(f, w) = RootOf(f, f[w])
          BY <3>3, BelowStep, RootStep
        <4> QED  BY <3>3, <4>1, <4>2
      <3> QED  BY <3>1, <3>2, <3>3
    <2> HIDE DEF r
    <2>2. \A w \in Vertices : RootOf(g, w) = r[w]
      BY <1>2, <2>1, RootIs
    <2> QED  BY <2>2 DEF r
  <1>4. ASSUME NEW b \in Vertices
        PROVE  Below(g, b) = {w \in Below(f, b) : w \in Below(f, k) => b \in Below(f, k)}
    <2> DEFINE B == {w \in Below(f, b) : w \in Below(f, k) => b \in Below(f, k)}
    <2>1. ASSUME NEW w \in Vertices
          PROVE  w \in B <=> w = b \/ (g[w] # NULL /\ g[w] \in B)
      <3>1. CASE w = b
        BY <3>1, BelowFacts
      <3>2. CASE w # b /\ w = k
        <4>1. w \notin B
          <5>1. ~(k \in Below(f, b) /\ b \in Below(f, k))
            BY <3>2, BelowOneWay
          <5> QED  BY <3>2, <5>1, BelowFacts
        <4> QED  BY <1>1, <3>2, <4>1
      <3>3. CASE w # b /\ w # k /\ f[w] = NULL
        BY <1>1, <3>3, BelowStep
      <3>4. CASE w # b /\ w # k /\ f[w] # NULL
        <4>1. f[w] \in Vertices /\ g[w] = f[w]
          BY <1>0, <1>1, <3>4, ParentType
        <4>2. (w \in Below(f, k) <=> f[w] \in Below(f, k)) /\ (w \in Below(f, b) <=> f[w] \in Below(f, b))
          BY <3>4, BelowStep
        <4> QED  BY <3>4, <4>1, <4>2
      <3> QED  BY <3>1, <3>2, <3>3, <3>4
    <2>2. B \in SUBSET Vertices
      BY BelowFacts
    <2> HIDE DEF B
    <2>3. Below(g, b) = B
      BY <1>2, <2>1, <2>2, BelowIs
    <2> QED  BY <2>3 DEF B
  <1>5. EdgesOf(g) = EdgesOf(f) \ {{k, f[k]}}
    <2>1. ASSUME NEW v \in Vertices, g[v] # NULL
          PROVE  {v, g[v]} \in EdgesOf(f) \ {{k, f[k]}}
      <3>1. v # k /\ g[v] = f[v] /\ f[v] # NULL
        BY <1>1, <2>1
      <3>2. {v, f[v]} \in EdgesOf(f)
        BY <3>1 DEF EdgesOf
      <3>3. {v, f[v]} # {k, f[k]}
        BY <3>1, ParentIsAbove
      <3> QED  BY <3>1, <3>2, <3>3
    <2>2. ASSUME NEW v \in Vertices, f[v] # NULL, {v, f[v]} # {k, f[k]}
          PROVE  {v, f[v]} \in EdgesOf(g)
      <3>1. v # k /\ g[v] = f[v]
        BY <1>1, <2>2
      <3> QED  BY <2>2, <3>1 DEF EdgesOf
    <2>3. \A e \in EdgesOf(g) : e \in EdgesOf(f) \ {{k, f[k]}}
      BY <2>1 DEF EdgesOf
    <2>4. \A e \in EdgesOf(f) \ {{k, f[k]}} : e \in EdgesOf(g)
      <3> TAKE e \in EdgesOf(f) \ {{k, f[k]}}
      <3>1. PICK v \in Vertices : f[v] # NULL /\ e = {v, f[v]}
        BY DEF EdgesOf
      <3> QED  BY <2>2, <3>1
    <2> QED  BY <2>3, <2>4
  <1> QED  BY <1>1, <1>2, <1>3, <1>4, <1>5

\* A root linked to another tree brings its tree along.
LEMMA LinkedFacts ==
    ASSUME NEW f, Rooted(f), NEW u \in Vertices, NEW v \in Vertices, f[u] = NULL, RootOf(f, v) # u,
           NEW g, g = Linked(f, u, v)
    PROVE  /\ Rooted(g)
           /\ \A w \in Vertices : RootOf(g, w) = IF RootOf(f, w) = u THEN RootOf(f, v) ELSE RootOf(f, w)
           /\ EdgesOf(g) = EdgesOf(f) \cup {{u, v}}
  <1>0. f \in Parents /\ u # NULL /\ v # NULL
    BY VerticesAssumption DEF Rooted
  <1>1. g \in Parents /\ g[u] = v /\ \A w \in Vertices : w # u => g[w] = f[w]
    BY <1>0 DEF Linked, Parents
  <1>2. RootOf(f, u) = u
    BY RootStep
  <1>3. Rooted(g)
    <2>1. PICK D : Falls(f, D)
      BY DEF Rooted
    <2>2. D \in [Vertices -> Nat] /\ \A w \in Vertices : f[w] # NULL => D[f[w]] < D[w] /\ f[w] \in Vertices
      BY <1>0, <2>1, ParentType DEF Falls
    <2> DEFINE E == [w \in Vertices |-> IF RootOf(f, w) = u THEN D[w] + D[v] + 1 ELSE D[w]]
    <2>3. E \in [Vertices -> Nat]
      BY <2>2
    <2>4. ASSUME NEW w \in Vertices, g[w] # NULL
          PROVE  E[g[w]] < E[w]
      <3>1. CASE w = u
        <4>1. g[w] = v /\ E[v] = D[v] /\ E[w] = D[u] + D[v] + 1 /\ D[u] \in Nat /\ D[v] \in Nat
          BY <1>1, <1>2, <2>2, <3>1
        <4> QED  BY <4>1
      <3>2. CASE w # u
        <4>1. g[w] = f[w] /\ f[w] \in Vertices /\ D[f[w]] < D[w] /\ RootOf(f, w) = RootOf(f, f[w])
          BY <1>1, <2>2, <2>4, <3>2, RootStep
        <4>2. D[f[w]] \in Nat /\ D[w] \in Nat /\ D[v] \in Nat
          BY <2>2, <4>1
        <4> QED  BY <4>1, <4>2
      <3> QED  BY <3>1, <3>2
    <2> HIDE DEF E
    <2>5. Falls(g, E)
      BY <2>3, <2>4 DEF Falls
    <2> QED  BY <1>1, <2>5 DEF Rooted
  <1>4. \A w \in Vertices : RootOf(g, w) = IF RootOf(f, w) = u THEN RootOf(f, v) ELSE RootOf(f, w)
    <2> DEFINE r == [w \in Vertices |-> IF RootOf(f, w) = u THEN RootOf(f, v) ELSE RootOf(f, w)]
    <2>1. ASSUME NEW w \in Vertices
          PROVE  r[w] = IF g[w] = NULL THEN w ELSE r[g[w]]
      <3>1. CASE w = u
        BY <1>0, <1>1, <1>2, <3>1
      <3>2. CASE w # u /\ f[w] = NULL
        <4>1. RootOf(f, w) = w
          BY <3>2, RootStep
        <4> QED  BY <1>1, <3>2, <4>1
      <3>3. CASE w # u /\ f[w] # NULL
        <4>1. f[w] \in Vertices /\ g[w] = f[w]
          BY <1>0, <1>1, <3>3, ParentType
        <4>2. RootOf(f, w) = RootOf(f, f[w])
          BY <3>3, RootStep
        <4> QED  BY <3>3, <4>1, <4>2
      <3> QED  BY <3>1, <3>2, <3>3
    <2> HIDE DEF r
    <2>2. \A w \in Vertices : RootOf(g, w) = r[w]
      BY <1>3, <2>1, RootIs
    <2> QED  BY <2>2 DEF r
  <1>5. EdgesOf(g) = EdgesOf(f) \cup {{u, v}}
    <2>1. \A e \in EdgesOf(g) : e \in EdgesOf(f) \cup {{u, v}}
      <3> TAKE e \in EdgesOf(g)
      <3>1. PICK w \in Vertices : g[w] # NULL /\ e = {w, g[w]}
        BY DEF EdgesOf
      <3>2. CASE w = u
        BY <1>1, <3>1, <3>2
      <3>3. CASE w # u
        BY <1>1, <3>1, <3>3 DEF EdgesOf
      <3> QED  BY <3>2, <3>3
    <2>2. \A e \in EdgesOf(f) : e \in EdgesOf(g)
      <3> TAKE e \in EdgesOf(f)
      <3>1. PICK w \in Vertices : f[w] # NULL /\ e = {w, f[w]}
        BY DEF EdgesOf
      <3>2. g[w] = f[w]
        BY <1>1, <3>1
      <3> QED  BY <3>1, <3>2 DEF EdgesOf
    <2>3. {u, v} \in EdgesOf(g)
      BY <1>0, <1>1 DEF EdgesOf
    <2> QED  BY <2>1, <2>2, <2>3
  <1> QED  BY <1>3, <1>4, <1>5

\* Everting turns the path over and leaves the rest.
LEMMA EvertedIs ==
    ASSUME NEW f, Rooted(f), NEW u \in Vertices, NEW g, g = Everted(f, u),
           NEW p, p = PathTo(f, u)
    PROVE  /\ g \in Parents /\ g[u] = NULL
           /\ \A i \in 1..Len(p) : i < Len(p) => g[p[i]] = p[i + 1]
           /\ \A v \in Vertices : (\A i \in 1..Len(p) : p[i] # v) => g[v] = f[v]
  <1>1. IsPath(f, p, u)
    BY PathFacts
  <1>2. /\ p \in Seq(Vertices) /\ Len(p) \in Nat /\ Len(p) >= 1 /\ p[Len(p)] = u
        /\ DOMAIN p = 1..Len(p) /\ Len(p) \in 1..Len(p)
    BY <1>1 DEF IsPath
  <1>3. /\ \A i \in 1..Len(p) : p[i] \in Vertices
        /\ \A i, j \in 1..Len(p) : i < j => p[i] # p[j]
    BY <1>1, PathBelow
  <1> DEFINE At(v) == CHOOSE i \in DOMAIN p : p[i] = v
             h == [v \in Vertices |-> IF v = u THEN NULL
                                      ELSE IF Visits(p, v) THEN p[1 + At(v)]
                                      ELSE f[v]]
  <1>4. g = h
    BY DEF Everted
  <1>5. \A i \in 1..Len(p) : At(p[i]) = i
    <2> SUFFICES ASSUME NEW i \in 1..Len(p)
                 PROVE  At(p[i]) = i
      OBVIOUS
    <2>1. At(p[i]) \in 1..Len(p) /\ p[At(p[i])] = p[i]
      BY <1>2
    <2> HIDE DEF At
    <2>2. ~(At(p[i]) < i) /\ ~(i < At(p[i]))
      BY <1>3, <2>1
    <2> QED  BY <1>2, <2>1, <2>2
  <1>6. \A i \in 1..Len(p) : Visits(p, p[i])
    BY <1>2 DEF Visits
  <1>7. \A v : Visits(p, v) => \E i \in 1..Len(p) : p[i] = v
    BY <1>2 DEF Visits
  <1> HIDE DEF At
  <1>8. h[u] = NULL
    OBVIOUS
  <1>9. ASSUME NEW i \in 1..Len(p), i < Len(p)
        PROVE  h[p[i]] = p[i + 1]
    <2>1. p[i] # u /\ p[i] \in Vertices /\ Visits(p, p[i]) /\ At(p[i]) = i
      BY <1>2, <1>3, <1>5, <1>6, <1>9
    <2> QED  BY <2>1
  <1>10. ASSUME NEW v \in Vertices, \A i \in 1..Len(p) : p[i] # v
         PROVE  h[v] = f[v]
    <2>1. v # u /\ ~Visits(p, v)
      BY <1>2, <1>7, <1>10
    <2> QED  BY <2>1
  <1>11. h \in [Vertices -> Vertices \cup {NULL}]
    <2> SUFFICES ASSUME NEW v \in Vertices
                 PROVE  h[v] \in Vertices \cup {NULL}
      OBVIOUS
    <2>1. CASE \E i \in 1..Len(p) : p[i] = v
      <3>1. PICK i \in 1..Len(p) : p[i] = v
        BY <2>1
      <3>2. CASE i < Len(p)
        <4>1. i + 1 \in 1..Len(p)
          BY <1>2, <3>2
        <4> QED  BY <1>3, <1>9, <3>1, <3>2, <4>1
      <3>3. CASE i = Len(p)
        BY <1>2, <1>8, <3>1, <3>3
      <3>4. i < Len(p) \/ i = Len(p)
        <4>1. Len(p) \in Nat
          BY <1>2
        <4>2. i \in Int /\ i <= Len(p)
          BY <4>1
        <4> QED  BY <4>1, <4>2
      <3> HIDE DEF h
      <3> QED  BY <3>2, <3>3, <3>4
    <2>2. CASE \A i \in 1..Len(p) : p[i] # v
      <3>1. h[v] = f[v]
        BY <1>10, <2>2
      <3>2. f[v] \in Vertices \cup {NULL}
        BY ParentType DEF Rooted
      <3> QED  BY <3>1, <3>2
    <2> QED  BY <2>1, <2>2
  <1> HIDE DEF h
  <1> QED  BY <1>4, <1>8, <1>9, <1>10, <1>11 DEF Parents

\* The same tree with another root: no edge is lost, and no other tree is touched.
LEMMA EvertedFacts ==
    ASSUME NEW f, Rooted(f), NEW u \in Vertices, NEW g, g = Everted(f, u)
    PROVE  /\ Rooted(g) /\ g[u] = NULL
           /\ \A w \in Vertices : RootOf(g, w) = IF RootOf(f, w) = RootOf(f, u) THEN u ELSE RootOf(f, w)
           /\ EdgesOf(g) = EdgesOf(f)
  <1> DEFINE p == PathTo(f, u)
             n == Len(p)
             On(v) == \E i \in 1..n : p[i] = v
  <1>1. IsPath(f, p, u)
    BY PathFacts
  <1>2. /\ n \in Nat /\ n >= 1 /\ p[n] = u /\ f[p[1]] = NULL /\ n \in 1..n /\ 1 \in 1..n
        /\ \A i \in 2..n : f[p[i]] = p[i - 1]
    BY <1>1 DEF IsPath
  <1>3. /\ \A i \in 1..n : p[i] \in Vertices
        /\ \A i, j \in 1..n : i < j => p[i] # p[j]
        /\ \A i \in 1..n : RootOf(f, p[i]) = p[1]
    BY <1>1, PathBelow
  <1>4. RootOf(f, u) = p[1]
    BY DEF RootOf
  <1>5. /\ g \in Parents /\ g[u] = NULL
        /\ \A i \in 1..n : i < n => g[p[i]] = p[i + 1]
        /\ \A v \in Vertices : ~On(v) => g[v] = f[v]
    BY EvertedIs
  <1> HIDE DEF p, n
  <1>0. f \in Parents
    BY DEF Rooted
  <1>6. PICK D : Falls(f, D)
    BY DEF Rooted
  <1>7. D \in [Vertices -> Nat] /\ \A w \in Vertices : f[w] # NULL => D[f[w]] < D[w] /\ f[w] \in Vertices
    BY <1>0, <1>6, ParentType DEF Falls
  <1>8. Rooted(g)
    <2> DEFINE At(v) == CHOOSE i \in 1..n : p[i] = v
               E == [v \in Vertices |-> IF On(v) THEN n - At(v) ELSE n + D[v]]
    <2>1. \A v : On(v) => At(v) \in 1..n /\ p[At(v)] = v
      OBVIOUS
    <2>2. \A i \in 1..n : On(p[i]) /\ At(p[i]) = i
      <3> SUFFICES ASSUME NEW i \in 1..n
                   PROVE  At(p[i]) = i /\ On(p[i])
        OBVIOUS
      <3>1. On(p[i])
        OBVIOUS
      <3>2. At(p[i]) \in 1..n /\ p[At(p[i])] = p[i]
        BY <2>1, <3>1
      <3> HIDE DEF At
      <3>3. ~(At(p[i]) < i) /\ ~(i < At(p[i]))
        BY <1>3, <3>2
      <3> QED  BY <1>2, <3>1, <3>2, <3>3
    <2> HIDE DEF At
    <2>3. E \in [Vertices -> Nat]
      <3> SUFFICES ASSUME NEW v \in Vertices
                   PROVE  (IF On(v) THEN n - At(v) ELSE n + D[v]) \in Nat
        OBVIOUS
      <3>1. On(v) => n - At(v) \in Nat
        BY <1>2, <2>1
      <3>2. n + D[v] \in Nat
        BY <1>2, <1>7
      <3> QED  BY <3>1, <3>2
    <2>4. ASSUME NEW v \in Vertices, g[v] # NULL
          PROVE  E[g[v]] < E[v]
      <3>1. CASE On(v)
        <4>1. PICK i \in 1..n : p[i] = v
          BY <3>1
        <4>2. i < n
          BY <1>2, <1>5, <2>4, <4>1
        <4>3. g[v] = p[i + 1] /\ i + 1 \in 1..n
          BY <1>2, <1>5, <4>1, <4>2
        <4>4. E[g[v]] = n - (i + 1) /\ E[v] = n - i
          BY <1>3, <2>2, <4>1, <4>3
        <4> QED  BY <1>2, <4>4
      <3>2. CASE ~On(v)
        <4>1. g[v] = f[v] /\ f[v] \in Vertices /\ D[f[v]] < D[v]
          BY <1>5, <1>7, <2>4, <3>2
        <4>2. E[v] = n + D[v] /\ D[v] \in Nat /\ D[f[v]] \in Nat
          BY <1>7, <3>2, <4>1
        <4>3. CASE On(f[v])
          <5>1. E[f[v]] = n - At(f[v]) /\ At(f[v]) \in 1..n
            BY <2>1, <4>1, <4>3
          <5> QED  BY <1>2, <4>1, <4>2, <5>1
        <4>4. CASE ~On(f[v])
          <5>1. E[f[v]] = n + D[f[v]]
            BY <4>1, <4>4
          <5> QED  BY <1>2, <4>1, <4>2, <5>1
        <4> QED  BY <4>3, <4>4
      <3> QED  BY <3>1, <3>2
    <2> HIDE DEF E
    <2>5. Falls(g, E)
      BY <2>3, <2>4 DEF Falls
    <2> QED  BY <1>5, <2>5 DEF Rooted
  <1>9. \A w \in Vertices : RootOf(g, w) = IF RootOf(f, w) = RootOf(f, u) THEN u ELSE RootOf(f, w)
    <2> DEFINE r == [w \in Vertices |-> IF RootOf(f, w) = RootOf(f, u) THEN u ELSE RootOf(f, w)]
    <2>0. u # NULL
      BY VerticesAssumption
    <2>1. ASSUME NEW w \in Vertices
          PROVE  r[w] = IF g[w] = NULL THEN w ELSE r[g[w]]
      <3>1. CASE w = u
        BY <1>5, <3>1
      <3>2. CASE On(w) /\ w # u
        <4>1. PICK i \in 1..n : p[i] = w
          BY <3>2
        <4>2. i < n /\ i + 1 \in 1..n
          BY <1>2, <3>2, <4>1
        <4>3. g[w] = p[i + 1] /\ p[i + 1] \in Vertices
          BY <1>3, <1>5, <4>1, <4>2
        <4>4. RootOf(f, w) = p[1] /\ RootOf(f, p[i + 1]) = p[1]
          BY <1>3, <4>1, <4>2
        <4>5. g[w] # NULL
          BY <4>3, VerticesAssumption
        <4> QED  BY <1>4, <4>3, <4>4, <4>5
      <3>3. CASE ~On(w) /\ f[w] = NULL
        <4>1. RootOf(f, w) = w /\ w # p[1] /\ g[w] = NULL
          BY <1>2, <1>5, <3>3, RootStep
        <4> QED  BY <1>4, <4>1
      <3>4. CASE ~On(w) /\ f[w] # NULL
        <4>1. RootOf(f, w) = RootOf(f, f[w]) /\ f[w] \in Vertices /\ g[w] = f[w]
          BY <1>5, <1>7, <3>4, RootStep
        <4> QED  BY <3>4, <4>1
      <3> QED  BY <3>1, <3>2, <3>3, <3>4
    <2> HIDE DEF r
    <2>2. \A w \in Vertices : RootOf(g, w) = r[w]
      BY <1>8, <2>1, RootIs
    <2> QED  BY <2>2 DEF r
  <1>10. \A e \in EdgesOf(g) : e \in EdgesOf(f)
    <2> TAKE e \in EdgesOf(g)
    <2>1. PICK v \in Vertices : g[v] # NULL /\ e = {v, g[v]}
      BY DEF EdgesOf
    <2>2. CASE On(v)
      <3>1. PICK i \in 1..n : p[i] = v
        BY <2>2
      <3>2. i < n /\ i + 1 \in 2..n /\ i + 1 \in 1..n
        BY <1>2, <1>5, <2>1, <3>1
      <3>3. g[v] = p[i + 1] /\ p[i + 1] \in Vertices /\ f[p[i + 1]] = v
        BY <1>2, <1>3, <1>5, <3>1, <3>2
      <3>4. v # NULL
        BY VerticesAssumption
      <3> QED  BY <1>0, <2>1, <3>3, <3>4, EdgeIs
    <2>3. CASE ~On(v)
      BY <1>5, <2>1, <2>3 DEF EdgesOf
    <2> QED  BY <2>2, <2>3
  <1>11. \A e \in EdgesOf(f) : e \in EdgesOf(g)
    <2> TAKE e \in EdgesOf(f)
    <2>1. PICK v \in Vertices : f[v] # NULL /\ e = {v, f[v]}
      BY DEF EdgesOf
    <2>2. CASE On(v)
      <3>1. PICK i \in 1..n : p[i] = v
        BY <2>2
      <3>2. i \in 2..n /\ i - 1 \in 1..n /\ i - 1 < n /\ (i - 1) + 1 = i
        BY <1>2, <2>1, <3>1
      <3>3. f[v] = p[i - 1] /\ g[p[i - 1]] = v
        BY <1>2, <1>5, <3>1, <3>2
      <3>4. v # NULL /\ f[v] \in Vertices
        BY <1>7, <2>1, VerticesAssumption
      <3> QED  BY <1>5, <2>1, <3>3, <3>4, EdgeIs
    <2>3. CASE ~On(v)
      BY <1>5, <2>1, <2>3 DEF EdgesOf
    <2> QED  BY <2>2, <2>3
  <1> QED  BY <1>5, <1>8, <1>9, <1>10, <1>11

\* The trees are told by the edges: with the same edges, or more, what was together is.
LEMMA SameEdges ==
    ASSUME NEW f, Rooted(f), NEW g, Rooted(g), EdgesOf(f) \subseteq EdgesOf(g)
    PROVE  \A v, w \in Vertices : RootOf(f, v) = RootOf(f, w) => RootOf(g, v) = RootOf(g, w)
  <1> DEFINE S == {v \in Vertices : RootOf(g, v) = RootOf(g, RootOf(f, v))}
  <1>0. f \in Parents /\ g \in Parents
    BY DEF Rooted
  <1>1. ASSUME NEW v \in Vertices, f[v] = NULL \/ f[v] \in S
        PROVE  v \in S
    <2>1. CASE f[v] = NULL
      <3>1. RootOf(f, v) = v
        BY <2>1, RootStep
      <3> QED  BY <3>1
    <2>2. CASE f[v] # NULL
      <3>1. f[v] \in Vertices /\ RootOf(f, v) = RootOf(f, f[v])
        BY <1>0, <2>2, ParentType, RootStep
      <3>2. {v, f[v]} \in EdgesOf(g)
        BY <2>2 DEF EdgesOf
      <3>3. g[v] = f[v] \/ g[f[v]] = v
        BY <1>0, <3>2, EdgeIs
      <3>4. v # NULL
        BY VerticesAssumption
      <3>5. RootOf(g, v) = RootOf(g, f[v])
        <4>1. CASE g[v] = f[v]
          BY <2>2, <4>1, RootStep
        <4>2. CASE g[f[v]] = v
          BY <3>1, <3>4, <4>2, RootStep
        <4> QED  BY <3>3, <4>1, <4>2
      <3> QED  BY <1>1, <2>2, <3>1, <3>5
    <2> QED  BY <2>1, <2>2
  <1> HIDE DEF S
  <1>2. \A v \in Vertices : v \in S
    BY <1>1, ForestInduction
  <1>3. \A v \in Vertices : RootOf(g, v) = RootOf(g, RootOf(f, v))
    BY <1>2 DEF S
  <1> QED  BY <1>3

---------------------------------------------------------------------------
(***************************************************************************)
(* The cuts and links of an update, and the way back                       *)
(***************************************************************************)
\* A forest of any vertices is not the mark of an exception.
LEMMA NotThrown ==
    ASSUME NEW f, Rooted(f), NEW v \in Vertices
    PROVE  f # Thrown
  <1>1. DOMAIN f = Vertices
    BY DEF Rooted, Parents
  <1>2. DOMAIN Thrown = {}
    BY DEF Thrown
  <1> QED  BY <1>1, <1>2

\* Edges with one more, and with one less.
WithEdge(E, u, v) == E \cup {{u, v}}
WithoutEdge(E, u, v) == E \ {{u, v}}
HasEdge(E, u, v) == {u, v} \in E

\* An edge that is taken out and put back, from its other end.
LEMMA WithBack ==
    ASSUME NEW E, NEW u, NEW v, HasEdge(E, u, v), NEW F, F = WithoutEdge(E, u, v)
    PROVE  WithEdge(F, v, u) = E
  <1>1. {u, v} = {v, u}
    OBVIOUS
  <1> DEFINE e == {u, v}
  <1>2. e \in E /\ F = E \ {e} /\ WithEdge(F, v, u) = F \cup {e}
    BY <1>1 DEF HasEdge, WithoutEdge, WithEdge
  <1> HIDE DEF e
  <1> QED  BY <1>2

\* Two edges that are put in and taken out.
LEMMA WithThenWithout ==
    ASSUME NEW E, NEW x1, NEW y1, NEW x2, NEW y2, ~HasEdge(E, x1, y1), ~HasEdge(E, x2, y2),
           {x1, y1} # {x2, y2}
    PROVE  WithoutEdge(WithoutEdge(WithEdge(WithEdge(E, x1, y1), x2, y2), x1, y1), x2, y2) = E
  <1> DEFINE a == {x1, y1}
             b == {x2, y2}
  <1>1. a \notin E /\ b \notin E /\ a # b
    BY DEF HasEdge
  <1> HIDE DEF a, b
  <1>2. (((E \cup {a}) \cup {b}) \ {a}) \ {b} = E
    BY <1>1
  <1> QED  BY <1>2 DEF WithEdge, WithoutEdge, a, b

\* The cut of a vertex that is not a root is made.
LEMMA TryCutFacts ==
    ASSUME NEW f, Rooted(f), NEW k \in Vertices, f[k] # NULL
    PROVE  TryCut(f, k) = CutOff(f, k)
  BY NotThrown DEF TryCut

\* In g the tree that u has in f has the root of v.
JoinsTrees(f, g, u, v) ==
    \A w \in Vertices : RootOf(g, w) = IF RootOf(f, w) = RootOf(f, u) THEN RootOf(f, v) ELSE RootOf(f, w)

\* A link between two trees is made: the tree of u gets the root of v.
LEMMA TryLinkFacts ==
    ASSUME NEW f, Rooted(f), NEW u \in Vertices, NEW v \in Vertices, RootOf(f, u) # RootOf(f, v),
           NEW g, g = TryLink(f, u, v)
    PROVE  /\ Rooted(g) /\ g # Thrown
           /\ JoinsTrees(f, g, u, v)
           /\ EdgesOf(g) = WithEdge(EdgesOf(f), u, v)
  <1> DEFINE h == Everted(f, u)
  <1>1. g = Linked(h, u, v)
    BY NotThrown DEF TryLink
  <1>2. /\ Rooted(h) /\ h[u] = NULL /\ EdgesOf(h) = EdgesOf(f)
        /\ \A w \in Vertices : RootOf(h, w) = IF RootOf(f, w) = RootOf(f, u) THEN u ELSE RootOf(f, w)
    BY EvertedFacts
  <1> HIDE DEF h
  <1>3. RootOf(h, v) = RootOf(f, v) /\ RootOf(f, v) # u
    <2>1. RootOf(f, RootOf(f, v)) = RootOf(f, v)
      BY RootFacts
    <2> QED  BY <1>2, <2>1
  <1>4. /\ Rooted(g)
        /\ \A w \in Vertices : RootOf(g, w) = IF RootOf(h, w) = u THEN RootOf(h, v) ELSE RootOf(h, w)
        /\ EdgesOf(g) = EdgesOf(h) \cup {{u, v}}
    BY <1>1, <1>2, <1>3, LinkedFacts
  <1>5. \A w \in Vertices : RootOf(g, w) = IF RootOf(f, w) = RootOf(f, u) THEN RootOf(f, v) ELSE RootOf(f, w)
    <2> TAKE w \in Vertices
    <2>1. RootOf(f, w) # RootOf(f, u) => RootOf(f, w) # u
      <3>1. RootOf(f, RootOf(f, w)) = RootOf(f, w)
        BY RootFacts
      <3> QED  BY <3>1
    <2> QED  BY <1>2, <1>3, <1>4, <2>1
  <1> QED  BY <1>2, <1>4, <1>5, NotThrown DEF WithEdge, JoinsTrees

\* An edge of the forest is taken out of it again.
LEMMA UnlinkFacts ==
    ASSUME NEW f, Rooted(f), NEW u \in Vertices, NEW v \in Vertices, HasEdge(EdgesOf(f), u, v),
           NEW g, g = Unlink(f, u, v)
    PROVE  Rooted(g) /\ g # Thrown /\ EdgesOf(g) = WithoutEdge(EdgesOf(f), u, v)
  <1> DEFINE h == Everted(f, v)
  <1>1. Rooted(h) /\ h[v] = NULL /\ EdgesOf(h) = EdgesOf(f)
    BY EvertedFacts
  <1>2. g = TryCut(h, u)
    BY NotThrown DEF Unlink
  <1> HIDE DEF h
  <1>3. u # NULL /\ v # NULL /\ h \in Parents
    BY <1>1, VerticesAssumption DEF Rooted
  <1>4. h[u] = v
    BY <1>1, <1>3, EdgeIs DEF HasEdge
  <1>5. g = CutOff(h, u)
    BY <1>1, <1>2, <1>3, <1>4, TryCutFacts
  <1>6. Rooted(g) /\ EdgesOf(g) = EdgesOf(h) \ {{u, h[u]}}
    BY <1>1, <1>3, <1>4, <1>5, CutFacts
  <1> QED  BY <1>1, <1>4, <1>6, NotThrown DEF WithoutEdge

\* Without the edge between them, a vertex and its parent are in different trees.
LEMMA EndsApart ==
    ASSUME NEW g, Rooted(g), NEW k \in Vertices, g[k] # NULL,
           NEW h, Rooted(h), EdgesOf(h) \subseteq WithoutEdge(EdgesOf(g), k, g[k])
    PROVE  g[k] \in Vertices /\ RootOf(h, g[k]) # RootOf(h, k)
  <1> DEFINE c == CutOff(g, k)
  <1>1. /\ Rooted(c) /\ EdgesOf(c) = EdgesOf(g) \ {{k, g[k]}}
        /\ \A w \in Vertices : RootOf(c, w) = IF w \in Below(g, k) THEN k ELSE RootOf(g, w)
    BY CutFacts
  <1> HIDE DEF c
  <1>2. g[k] \in Vertices /\ g[k] # k
    BY ParentIsAbove
  <1>3. k \in Below(g, k) /\ g[k] \notin Below(g, k)
    <2>1. k \in Below(g, g[k])
      BY <1>2, BelowStep, BelowFacts
    <2> QED  BY <1>2, <2>1, BelowOneWay, BelowFacts
  <1>4. RootOf(g, g[k]) # k
    BY <1>2, RootFacts
  <1>5. RootOf(c, g[k]) # RootOf(c, k)
    BY <1>1, <1>2, <1>3, <1>4
  <1>6. EdgesOf(h) \subseteq EdgesOf(c)
    BY <1>1 DEF WithoutEdge
  <1> QED  BY <1>1, <1>2, <1>5, <1>6, SameEdges

\* The edge from the parent of k, as EdgeAt gives it.
EdgeTo(g, k) == <<g[k], k>>

\* An update of one cut and one link is undone.
LEMMA UndoOne ==
    ASSUME NEW g, Rooted(g), NEW k \in Vertices, g[k] # NULL, NEW x \in Vertices, NEW y \in Vertices,
           ~HasEdge(EdgesOf(g), x, y),
           NEW f, f = TryLink(TryCut(g, k), x, y), f # Thrown,
           NEW h, h = Unlink(f, x, y), NEW b, b = TryLink(h, g[k], k)
    PROVE  Rooted(b) /\ b # Thrown /\ EdgesOf(b) = EdgesOf(g)
  <1> DEFINE c == CutOff(g, k)
             E == EdgesOf(g)
             p == g[k]
  <1>1. TryCut(g, k) = c
    BY TryCutFacts
  <1>2. Rooted(c) /\ EdgesOf(c) = WithoutEdge(E, k, p)
    BY CutFacts DEF WithoutEdge
  <1> HIDE DEF c
  <1>3. RootOf(c, x) # RootOf(c, y) /\ f = TryLink(c, x, y)
    BY <1>1 DEF TryLink
  <1>4. Rooted(f) /\ EdgesOf(f) = WithEdge(EdgesOf(c), x, y)
    BY <1>2, <1>3, TryLinkFacts
  <1>5. HasEdge(EdgesOf(f), x, y)
    BY <1>4 DEF HasEdge, WithEdge
  <1>6. Rooted(h) /\ EdgesOf(h) = WithoutEdge(EdgesOf(f), x, y)
    BY <1>4, <1>5, UnlinkFacts
  <1>7. EdgesOf(h) = WithoutEdge(E, k, p)
    BY <1>2, <1>4, <1>6 DEF WithEdge, WithoutEdge, HasEdge
  <1>8. g[k] \in Vertices /\ RootOf(h, g[k]) # RootOf(h, k)
    BY <1>6, <1>7, EndsApart
  <1>9. Rooted(b) /\ b # Thrown /\ EdgesOf(b) = WithEdge(EdgesOf(h), p, k)
    BY <1>6, <1>8, TryLinkFacts
  <1>10. HasEdge(E, k, p)
    BY DEF EdgesOf, HasEdge
  <1> HIDE DEF p, E
  <1>11. EdgesOf(b) = E
    BY <1>7, <1>9, <1>10, WithBack
  <1> QED  BY <1>9, <1>11 DEF E

\* An update of two cuts and two links, made and undone step by step.
MadeAndUndone(g, j, k, x1, y1, x2, y2, c2, f1, f, h1, h2, b1, b) ==
    /\ Rooted(g)
    /\ j \in Vertices /\ g[j] # NULL /\ k \in Vertices /\ g[k] # NULL /\ j # k
    /\ x1 \in Vertices /\ y1 \in Vertices /\ x2 \in Vertices /\ y2 \in Vertices
    /\ ~HasEdge(EdgesOf(g), x1, y1) /\ ~HasEdge(EdgesOf(g), x2, y2) /\ {x1, y1} # {x2, y2}
    /\ c2 = TryCut(TryCut(g, j), k) /\ f1 = TryLink(c2, x1, y1) /\ f = TryLink(f1, x2, y2) /\ f # Thrown
    /\ h1 = Unlink(f, x1, y1) /\ h2 = Unlink(h1, x2, y2)
    /\ b1 = TryLink(h2, g[j], j) /\ b = TryLink(b1, g[k], k)

\* Such an update leaves every edge as it was.
LEMMA UndoTwo ==
    ASSUME NEW g, NEW j, NEW k, NEW x1, NEW y1, NEW x2, NEW y2, NEW c2, NEW f1, NEW f, NEW h1, NEW h2, NEW b1, NEW b,
           MadeAndUndone(g, j, k, x1, y1, x2, y2, c2, f1, f, h1, h2, b1, b)
    PROVE  Rooted(b) /\ b # Thrown /\ EdgesOf(b) = EdgesOf(g)
  <1>0. /\ Rooted(g)
        /\ j \in Vertices /\ g[j] # NULL /\ k \in Vertices /\ g[k] # NULL /\ j # k
        /\ x1 \in Vertices /\ y1 \in Vertices /\ x2 \in Vertices /\ y2 \in Vertices
        /\ ~HasEdge(EdgesOf(g), x1, y1) /\ ~HasEdge(EdgesOf(g), x2, y2) /\ {x1, y1} # {x2, y2}
        /\ c2 = TryCut(TryCut(g, j), k) /\ f1 = TryLink(c2, x1, y1) /\ f = TryLink(f1, x2, y2) /\ f # Thrown
        /\ h1 = Unlink(f, x1, y1) /\ h2 = Unlink(h1, x2, y2)
        /\ b1 = TryLink(h2, g[j], j) /\ b = TryLink(b1, g[k], k)
    BY DEF MadeAndUndone
  <1> USE <1>0
  <1> DEFINE c1 == CutOff(g, j)
             E == EdgesOf(g)
             pj == g[j]
             pk == g[k]
             Ej == WithoutEdge(E, j, pj)
             Ek == WithoutEdge(E, k, pk)
             Ejk == WithoutEdge(Ej, k, pk)
  <1>1. TryCut(g, j) = c1 /\ Rooted(c1) /\ c1[k] = g[k] /\ EdgesOf(c1) = Ej
    BY TryCutFacts, CutFacts DEF WithoutEdge
  <1>2. Rooted(c2) /\ EdgesOf(c2) = Ejk
    <2> HIDE DEF c1
    <2>1. c2 = CutOff(c1, k)
      BY <1>1, TryCutFacts
    <2> QED  BY <1>1, <2>1, CutFacts DEF WithoutEdge
  <1>3. HasEdge(E, j, pj) /\ HasEdge(E, k, pk) /\ {j, pj} # {k, pk}
    <2>1. HasEdge(E, j, pj) /\ HasEdge(E, k, pk)
      BY DEF EdgesOf, HasEdge
    <2>2. {j, pj} # {k, pk}
      BY ParentIsAbove
    <2> QED  BY <2>1, <2>2
  <1>4. ~HasEdge(Ejk, x1, y1) /\ ~HasEdge(Ejk, x2, y2) /\ Ejk \subseteq Ej /\ Ejk \subseteq Ek
    BY DEF WithoutEdge, HasEdge
  <1> HIDE DEF c1
  <1>5. f1 # Thrown /\ RootOf(f1, x2) # RootOf(f1, y2)
    BY DEF TryLink
  <1>6. RootOf(c2, x1) # RootOf(c2, y1)
    BY <1>5 DEF TryLink
  <1>7. Rooted(f1) /\ EdgesOf(f1) = WithEdge(EdgesOf(c2), x1, y1)
    BY <1>2, <1>6, TryLinkFacts
  <1>8. Rooted(f) /\ EdgesOf(f) = WithEdge(EdgesOf(f1), x2, y2)
    BY <1>5, <1>7, TryLinkFacts
  <1>9. HasEdge(EdgesOf(f), x1, y1)
    BY <1>7, <1>8 DEF HasEdge, WithEdge
  <1>10. Rooted(h1) /\ EdgesOf(h1) = WithoutEdge(EdgesOf(f), x1, y1)
    BY <1>8, <1>9, UnlinkFacts
  <1>11. HasEdge(EdgesOf(h1), x2, y2)
    BY <1>8, <1>10 DEF HasEdge, WithEdge, WithoutEdge
  <1>12. Rooted(h2) /\ EdgesOf(h2) = WithoutEdge(EdgesOf(h1), x2, y2)
    BY <1>10, <1>11, UnlinkFacts
  <1>13. EdgesOf(h2) = Ejk
    <2> HIDE DEF Ejk
    <2> QED  BY <1>2, <1>4, <1>7, <1>8, <1>10, <1>12, WithThenWithout
  <1>14. g[j] \in Vertices /\ RootOf(h2, g[j]) # RootOf(h2, j)
    <2>1. EdgesOf(h2) \subseteq WithoutEdge(EdgesOf(g), j, g[j])
      BY <1>4, <1>13
    <2> QED  BY <1>12, <2>1, EndsApart
  <1>15. Rooted(b1) /\ EdgesOf(b1) = WithEdge(EdgesOf(h2), pj, j)
    BY <1>12, <1>14, TryLinkFacts
  <1>16. EdgesOf(b1) = Ek
    <2> HIDE DEF pj, pk, E
    <2>1. {j, pj} = {pj, j}
      OBVIOUS
    <2>2. EdgesOf(b1) = WithEdge(Ejk, pj, j)
      BY <1>13, <1>15
    <2> HIDE DEF Ejk, Ek
    <2>3. Ejk = WithoutEdge(Ek, j, pj) /\ HasEdge(Ek, j, pj)
      BY <1>3 DEF WithoutEdge, HasEdge, Ejk, Ek
    <2> QED  BY <2>2, <2>3, WithBack
  <1>17. g[k] \in Vertices /\ RootOf(b1, g[k]) # RootOf(b1, k)
    <2>1. EdgesOf(b1) \subseteq WithoutEdge(EdgesOf(g), k, g[k])
      BY <1>16
    <2> QED  BY <1>15, <2>1, EndsApart
  <1>18. Rooted(b) /\ b # Thrown /\ EdgesOf(b) = WithEdge(EdgesOf(b1), pk, k)
    BY <1>15, <1>17, TryLinkFacts
  <1>19. EdgesOf(b) = E
    <2> HIDE DEF pj, pk, E
    <2> QED  BY <1>3, <1>16, <1>18, WithBack
  <1> QED  BY <1>18, <1>19

---------------------------------------------------------------------------
(***************************************************************************)
(* Trading: what an update makes of the two trees                          *)
(***************************************************************************)
\* The vertices of two trees, told by their roots.
Both(g, P, Q) == {w \in Vertices : RootOf(g, w) \in {P, Q}}

\* f has two trees where g has those of P and Q: X and what X leaves of them.  The
\* ends of the first cut are not in the same one.
Traded(g, f, P, Q, X, cut) ==
    /\ Rooted(f) /\ f # Thrown
    /\ X \subseteq Both(g, P, Q)
    /\ \E rx, ry \in Both(g, P, Q) :
           /\ rx # ry
           /\ \A w \in Vertices :
                  RootOf(f, w) = IF w \in X THEN rx ELSE IF w \in Both(g, P, Q) THEN ry ELSE RootOf(g, w)
    /\ cut[1] \in Both(g, P, Q) /\ cut[2] \in Both(g, P, Q) /\ (cut[1] \in X <=> cut[2] \notin X)

\* x and y, in either order.
Either(l, x, y) == l = <<x, y>> \/ l = <<y, x>>

\* A parent is not below its child, and has its root.
LEMMA ParentNotBelow ==
    ASSUME NEW g, Rooted(g), NEW k \in Vertices, g[k] # NULL
    PROVE  /\ g[k] \in Vertices /\ g[k] \notin Below(g, k) /\ k \in Below(g, k)
           /\ RootOf(g, g[k]) = RootOf(g, k) /\ RootOf(g, k) \notin Below(g, k)
  <1>1. g[k] \in Vertices /\ g[k] # k
    BY ParentIsAbove
  <1>2. k \in Below(g, k) /\ g[k] \notin Below(g, k)
    <2>1. k \in Below(g, g[k])
      BY <1>1, BelowStep, BelowFacts
    <2> QED  BY <1>1, <2>1, BelowOneWay, BelowFacts
  <1>3. RootOf(g, k) \notin Below(g, k)
    <2> DEFINE r == RootOf(g, k)
    <2>1. r \in Vertices /\ g[r] = NULL /\ k \in Below(g, r)
      BY RootFacts, BelowFacts
    <2> HIDE DEF r
    <2>2. r # k
      BY <2>1
    <2>3. r \notin Below(g, k)
      BY <2>1, <2>2, BelowOneWay
    <2> QED  BY <2>3 DEF r
  <1>4. RootOf(g, g[k]) = RootOf(g, k)
    BY RootStep
  <1> QED  BY <1>1, <1>2, <1>3, <1>4

\* A cut above k, in the tree of P, and a link of x there to y in the tree of Q.
CutAndLink(g, P, Q, k, x, y, l, f) ==
    /\ Rooted(g) /\ P \in Vertices /\ Q \in Vertices /\ P # Q
    /\ k \in Vertices /\ g[k] # NULL /\ RootOf(g, k) = P
    /\ x \in Vertices /\ RootOf(g, x) = P /\ y \in Vertices /\ RootOf(g, y) = Q
    /\ Either(l, x, y)
    /\ f = TryLink(TryCut(g, k), l[1], l[2])

\* The part of the tree of P that x is not in, when it is cut above k.
PartWithout(g, P, k, x) == {w \in Vertices : RootOf(g, w) = P /\ (w \in Below(g, k) <=> x \notin Below(g, k))}

\* One cut in the tree of P and one link of its part with x to the tree of Q.
LEMMA TradeOne ==
    ASSUME NEW g, NEW P, NEW Q, NEW k, NEW x, NEW y, NEW l, NEW f, CutAndLink(g, P, Q, k, x, y, l, f),
           NEW X, X = PartWithout(g, P, k, x)
    PROVE  /\ Traded(g, f, P, Q, X, EdgeTo(g, k))
           /\ EdgesOf(f) \subseteq WithEdge(EdgesOf(g), l[1], l[2])
           /\ RootOf(f, x) = RootOf(f, y)
  <1> SUFFICES ASSUME Rooted(g), P \in Vertices, Q \in Vertices, P # Q,
                     k \in Vertices, g[k] # NULL, RootOf(g, k) = P,
                     x \in Vertices, RootOf(g, x) = P, y \in Vertices, RootOf(g, y) = Q,
                     Either(l, x, y), f = TryLink(TryCut(g, k), l[1], l[2]),
                     X = {w \in Vertices : RootOf(g, w) = P /\ (w \in Below(g, k) <=> x \notin Below(g, k))}
              PROVE  /\ Traded(g, f, P, Q, X, EdgeTo(g, k))
                     /\ EdgesOf(f) \subseteq WithEdge(EdgesOf(g), l[1], l[2])
                     /\ RootOf(f, x) = RootOf(f, y)
    BY DEF CutAndLink, PartWithout
  <1> DEFINE K == Below(g, k)
             c == CutOff(g, k)
  <1>1. /\ TryCut(g, k) = c /\ Rooted(c) /\ EdgesOf(c) = EdgesOf(g) \ {{k, g[k]}}
        /\ \A w \in Vertices : RootOf(c, w) = IF w \in K THEN k ELSE RootOf(g, w)
    BY TryCutFacts, CutFacts
  <1>2. /\ g[k] \in Vertices /\ g[k] \notin K /\ k \in K /\ RootOf(g, g[k]) = P /\ P \notin K
        /\ RootOf(g, P) = P /\ RootOf(g, Q) = Q
    BY ParentNotBelow, RootFacts
  <1>3. \A w \in Vertices : w \in K => RootOf(g, w) = P
    BY BelowFacts
  <1> HIDE DEF K, c
  <1>4. l[1] \in Vertices /\ l[2] \in Vertices /\ ((l[1] = x /\ l[2] = y) \/ (l[1] = y /\ l[2] = x))
    BY DEF Either
  <1>5. k # P /\ k # Q /\ y \notin K
    BY <1>2, <1>3
  <1>6. RootOf(c, x) # RootOf(c, y) /\ RootOf(c, y) = Q
    BY <1>1, <1>3, <1>5
  <1>7. /\ Rooted(f) /\ f # Thrown /\ EdgesOf(f) = WithEdge(EdgesOf(c), l[1], l[2])
        /\ \A w \in Vertices : RootOf(f, w) = IF RootOf(c, w) = RootOf(c, l[1]) THEN RootOf(c, l[2]) ELSE RootOf(c, w)
    <2> DEFINE a == l[1]
               b == l[2]
    <2>1. f = TryLink(c, a, b) /\ RootOf(c, a) # RootOf(c, b) /\ a \in Vertices /\ b \in Vertices
      BY <1>1, <1>4, <1>6
    <2>2. Rooted(c)
      BY <1>1
    <2> HIDE DEF a, b
    <2>3. Rooted(f) /\ f # Thrown /\ EdgesOf(f) = WithEdge(EdgesOf(c), a, b) /\ JoinsTrees(c, f, a, b)
      BY <2>1, <2>2, TryLinkFacts
    <2> QED  BY <2>3 DEF JoinsTrees, a, b
  <1> DEFINE B == Both(g, P, Q)
             rx == IF x \in K THEN P ELSE k
             ry == RootOf(c, l[2])
  <1>8. \A w \in Vertices : w \in B <=> RootOf(g, w) = P \/ RootOf(g, w) = Q
    BY DEF Both
  <1>9. \A w \in Vertices : w \in X <=> RootOf(g, w) = P /\ (w \in K <=> x \notin K)
    BY DEF K
  <1>10. X \subseteq B
    BY <1>8, <1>9
  <1>11. rx \in B /\ ry \in B /\ rx # ry
    <2>1. ry = RootOf(c, x) \/ ry = Q
      BY <1>4, <1>6
    <2>2. RootOf(c, x) = IF x \in K THEN k ELSE P
      BY <1>1
    <2> HIDE DEF B, ry
    <2> QED  BY <1>2, <1>5, <1>8, <2>1, <2>2
  <1>12. ASSUME NEW w \in Vertices
         PROVE  RootOf(f, w) = IF w \in X THEN rx ELSE IF w \in B THEN ry ELSE RootOf(g, w)
    <2>1. RootOf(c, w) = IF w \in K THEN k ELSE RootOf(g, w)
      BY <1>1
    <2>2. RootOf(c, x) = IF x \in K THEN k ELSE P
      BY <1>1
    <2>3. RootOf(g, w) # k
      BY <1>2, RootFacts
    <2>4. RootOf(f, w) = IF RootOf(c, w) = RootOf(c, l[1]) THEN ry ELSE RootOf(c, w)
      BY <1>7
    <2>5. (RootOf(c, l[1]) = RootOf(c, x) /\ ry = Q) \/ (RootOf(c, l[1]) = Q /\ ry = RootOf(c, x))
      BY <1>4, <1>6
    <2>6. (w \in B <=> RootOf(g, w) = P \/ RootOf(g, w) = Q) /\ (w \in K => RootOf(g, w) = P)
      BY <1>3, <1>8
    <2>7. w \in X <=> RootOf(g, w) = P /\ (w \in K <=> x \notin K)
      BY <1>9
    <2> HIDE DEF B, ry
    <2> QED  BY <1>5, <2>1, <2>2, <2>3, <2>4, <2>5, <2>6, <2>7
  <1>13. g[k] \in B /\ k \in B /\ (g[k] \in X <=> k \notin X)
    BY <1>2, <1>8, <1>9
  <1>14. Traded(g, f, P, Q, X, EdgeTo(g, k))
    <2>1. EdgeTo(g, k)[1] = g[k] /\ EdgeTo(g, k)[2] = k
      BY DEF EdgeTo
    <2> HIDE DEF rx, ry
    <2>2. \E r, s \in B : r # s /\ \A w \in Vertices :
              RootOf(f, w) = IF w \in X THEN r ELSE IF w \in B THEN s ELSE RootOf(g, w)
      BY <1>11, <1>12
    <2> QED  BY <1>7, <1>10, <1>13, <2>1, <2>2 DEF Traded
  <1>15. RootOf(f, x) = RootOf(f, y)
    BY <1>4, <1>7
  <1>16. EdgesOf(f) \subseteq WithEdge(EdgesOf(g), l[1], l[2])
    BY <1>1, <1>7 DEF WithEdge
  <1> QED  BY <1>14, <1>15, <1>16

\* The roots after two cuts.
LEMMA TwoCuts ==
    ASSUME NEW g, Rooted(g), NEW j \in Vertices, g[j] # NULL, NEW k \in Vertices, g[k] # NULL, j # k,
           NEW c, c = TryCut(TryCut(g, j), k)
    PROVE  /\ Rooted(c) /\ EdgesOf(c) \subseteq EdgesOf(g)
           /\ \A w \in Vertices :
                  RootOf(c, w) = IF w \in Below(g, k) /\ (w \in Below(g, j) => k \in Below(g, j)) THEN k
                                 ELSE IF w \in Below(g, j) THEN j ELSE RootOf(g, w)
  <1> DEFINE b == CutOff(g, j)
  <1>1. /\ TryCut(g, j) = b /\ Rooted(b) /\ b[k] = g[k] /\ EdgesOf(b) \subseteq EdgesOf(g)
        /\ \A w \in Vertices : RootOf(b, w) = IF w \in Below(g, j) THEN j ELSE RootOf(g, w)
        /\ Below(b, k) = {w \in Below(g, k) : w \in Below(g, j) => k \in Below(g, j)}
    BY TryCutFacts, CutFacts
  <1> HIDE DEF b
  <1>2. c = CutOff(b, k)
    BY <1>1, TryCutFacts
  <1>3. /\ Rooted(c) /\ EdgesOf(c) \subseteq EdgesOf(b)
        /\ \A w \in Vertices : RootOf(c, w) = IF w \in Below(b, k) THEN k ELSE RootOf(b, w)
    BY <1>1, <1>2, CutFacts
  <1> QED  BY <1>1, <1>3

\* The trees of P and Q get one root s, which makes the roots r; then those of x and
\* y get one root t.
JoinsTwice(c, f, P, Q, x, y) ==
    \E s \in {RootOf(c, P), RootOf(c, Q)} : \E r \in [Vertices -> Vertices] : \E t \in {r[x], r[y]} :
        /\ \A w \in Vertices : r[w] = IF RootOf(c, w) \in {RootOf(c, P), RootOf(c, Q)} THEN s ELSE RootOf(c, w)
        /\ \A w \in Vertices : RootOf(f, w) = IF r[w] \in {r[x], r[y]} THEN t ELSE r[w]

WithinTwo(F, E, l1, l2) == F \subseteq WithEdge(WithEdge(E, l1[1], l1[2]), l2[1], l2[2])

\* Two links, one after the other.
LEMMA TwoLinks ==
    ASSUME NEW c, Rooted(c), NEW P \in Vertices, NEW Q \in Vertices, NEW x \in Vertices, NEW y \in Vertices,
           NEW l1, Either(l1, P, Q), NEW l2, Either(l2, x, y),
           RootOf(c, P) # RootOf(c, Q),
           ~(RootOf(c, x) = RootOf(c, y)),
           ~(RootOf(c, x) \in {RootOf(c, P), RootOf(c, Q)} /\ RootOf(c, y) \in {RootOf(c, P), RootOf(c, Q)}),
           NEW f1, f1 = TryLink(c, l1[1], l1[2]),
           NEW f, f = TryLink(f1, l2[1], l2[2])
    PROVE  /\ Rooted(f) /\ f # Thrown
           /\ WithinTwo(EdgesOf(f), EdgesOf(c), l1, l2)
           /\ RootOf(f, P) = RootOf(f, Q) /\ RootOf(f, x) = RootOf(f, y)
           /\ JoinsTwice(c, f, P, Q, x, y)
  <1> DEFINE a1 == l1[1]
             b1 == l1[2]
             a2 == l2[1]
             b2 == l2[2]
             r == [w \in Vertices |-> RootOf(f1, w)]
             s == RootOf(c, b1)
             t == RootOf(f1, b2)
  <1>1. ((a1 = P /\ b1 = Q) \/ (a1 = Q /\ b1 = P)) /\ a1 \in Vertices /\ b1 \in Vertices
    BY DEF Either
  <1>2. ((a2 = x /\ b2 = y) \/ (a2 = y /\ b2 = x)) /\ a2 \in Vertices /\ b2 \in Vertices
    BY DEF Either
  <1> HIDE DEF a1, b1, a2, b2
  <1>3. Rooted(f1) /\ f1 # Thrown /\ EdgesOf(f1) = WithEdge(EdgesOf(c), a1, b1) /\ JoinsTrees(c, f1, a1, b1)
    <2>1. f1 = TryLink(c, a1, b1) /\ RootOf(c, a1) # RootOf(c, b1)
      BY <1>1 DEF a1, b1
    <2> QED  BY <1>1, <2>1, TryLinkFacts
  <1>4. \A w \in Vertices : RootOf(f1, w) = IF RootOf(c, w) \in {RootOf(c, P), RootOf(c, Q)} THEN s ELSE RootOf(c, w)
    BY <1>1, <1>3 DEF JoinsTrees
  <1>5. RootOf(f1, x) # RootOf(f1, y)
    BY <1>1, <1>4
  <1>6. Rooted(f) /\ f # Thrown /\ EdgesOf(f) = WithEdge(EdgesOf(f1), a2, b2) /\ JoinsTrees(f1, f, a2, b2)
    <2>1. f = TryLink(f1, a2, b2) /\ RootOf(f1, a2) # RootOf(f1, b2)
      BY <1>2, <1>5 DEF a2, b2
    <2> QED  BY <1>2, <1>3, <2>1, TryLinkFacts
  <1>7. \A w \in Vertices : RootOf(f, w) = IF RootOf(f1, w) \in {RootOf(f1, x), RootOf(f1, y)} THEN t ELSE RootOf(f1, w)
    BY <1>2, <1>6 DEF JoinsTrees
  <1>8. WithinTwo(EdgesOf(f), EdgesOf(c), l1, l2)
    BY <1>3, <1>6 DEF a1, b1, a2, b2, WithinTwo
  <1>9. RootOf(f, P) = RootOf(f, Q) /\ RootOf(f, x) = RootOf(f, y)
    BY <1>4, <1>7
  <1>10. r \in [Vertices -> Vertices] /\ \A w \in Vertices : r[w] = RootOf(f1, w)
    BY <1>3, RootFacts
  <1>11. s \in {RootOf(c, P), RootOf(c, Q)} /\ t \in {r[x], r[y]}
    BY <1>1, <1>2
  <1>12. /\ \A w \in Vertices : r[w] = IF RootOf(c, w) \in {RootOf(c, P), RootOf(c, Q)} THEN s ELSE RootOf(c, w)
         /\ \A w \in Vertices : RootOf(f, w) = IF r[w] \in {r[x], r[y]} THEN t ELSE r[w]
    BY <1>4, <1>7, <1>10
  <1> HIDE DEF r, s, t
  <1>13. JoinsTwice(c, f, P, Q, x, y)
    BY <1>10, <1>11, <1>12 DEF JoinsTwice
  <1> QED  BY <1>6, <1>8, <1>9, <1>13

\* Cuts above j and k, in the tree of P, and x below the lower of them; y is in that of Q.
CutsInOneTree(g, P, Q, lo, up, x, y, j, k) ==
    /\ lo \in Vertices /\ g[lo] # NULL /\ up \in Vertices /\ g[up] # NULL /\ RootOf(g, up) = P
    /\ lo \in Below(g, up) /\ lo # up
    /\ x \in Vertices /\ x \in Below(g, lo) /\ y \in Vertices /\ RootOf(g, y) = Q
    /\ (j = lo /\ k = up) \/ (j = up /\ k = lo)

\* A cut above j in the tree of P, with x, and one above k in that of Q, with y.
CutsInEitherTree(g, P, Q, x, y, j, k) ==
    /\ j \in Vertices /\ g[j] # NULL /\ RootOf(g, j) = P /\ k \in Vertices /\ g[k] # NULL /\ RootOf(g, k) = Q
    /\ x \in Vertices /\ x \in Below(g, j) /\ y \in Vertices /\ y \in Below(g, k)

\* Both cuts are made, and then the links of the roots and of x and y.
LinksBoth(g, P, Q, x, y, j, k, l1, l2, c, f1, f) ==
    /\ Rooted(g) /\ P \in Vertices /\ Q \in Vertices /\ P # Q /\ RootOf(g, P) = P /\ RootOf(g, Q) = Q
    /\ Either(l1, P, Q) /\ Either(l2, x, y)
    /\ c = TryCut(TryCut(g, j), k) /\ f1 = TryLink(c, l1[1], l1[2]) /\ f = TryLink(f1, l2[1], l2[2])

\* Two cuts in the tree of P, x below the lower one: the part between them is left out.
LEMMA TradeTwoSame ==
    ASSUME NEW g, NEW P, NEW Q, NEW lo, NEW up, NEW x, NEW y, NEW j, NEW k, NEW l1, NEW l2, NEW c, NEW f1, NEW f,
           CutsInOneTree(g, P, Q, lo, up, x, y, j, k), LinksBoth(g, P, Q, x, y, j, k, l1, l2, c, f1, f),
           NEW X, X = Below(g, up) \ Below(g, lo)
    PROVE  /\ Traded(g, f, P, Q, X, EdgeTo(g, j))
           /\ WithinTwo(EdgesOf(f), EdgesOf(g), l1, l2)
           /\ RootOf(f, P) = RootOf(f, Q) /\ RootOf(f, x) = RootOf(f, y)
  <1> SUFFICES ASSUME Rooted(g), P \in Vertices, Q \in Vertices, P # Q,
                     lo \in Vertices, g[lo] # NULL, up \in Vertices, g[up] # NULL, RootOf(g, up) = P,
                     lo \in Below(g, up), lo # up,
                     x \in Vertices, x \in Below(g, lo), y \in Vertices, RootOf(g, y) = Q, RootOf(g, Q) = Q,
                     (j = lo /\ k = up) \/ (j = up /\ k = lo),
                     Either(l1, P, Q), Either(l2, x, y),
                     c = TryCut(TryCut(g, j), k), f1 = TryLink(c, l1[1], l1[2]), f = TryLink(f1, l2[1], l2[2])
              PROVE  /\ Traded(g, f, P, Q, X, EdgeTo(g, j))
                     /\ WithinTwo(EdgesOf(f), EdgesOf(g), l1, l2)
                     /\ RootOf(f, P) = RootOf(f, Q) /\ RootOf(f, x) = RootOf(f, y)
    BY DEF CutsInOneTree, LinksBoth
  <1> DEFINE L == Below(g, lo)
             U == Below(g, up)
             B == Both(g, P, Q)
  <1>1. up \notin L /\ lo \in L /\ up \in U /\ lo \in U /\ L \subseteq U /\ U \subseteq Vertices
    BY BelowOneWay, BelowFacts
  <1>2. \A w \in U : RootOf(g, w) = P
    BY BelowFacts
  <1>3. /\ g[lo] \in Vertices /\ g[lo] \notin L /\ RootOf(g, g[lo]) = P
        /\ g[up] \in Vertices /\ g[up] \notin U /\ RootOf(g, g[up]) = P /\ P \notin U
    BY <1>1, <1>2, ParentNotBelow
  <1>4. g[lo] \in U
    BY <1>1, BelowStep
  <1>5. RootOf(g, P) = P
    BY RootFacts
  <1>6. Rooted(c) /\ EdgesOf(c) \subseteq EdgesOf(g)
    BY TwoCuts
  <1>7. \A w \in Vertices : RootOf(c, w) = IF w \in L THEN lo ELSE IF w \in U THEN up ELSE RootOf(g, w)
    <2> DEFINE J == Below(g, j)
               K == Below(g, k)
    <2>1. j \in Vertices /\ k \in Vertices /\ g[j] # NULL /\ g[k] # NULL /\ j # k
      OBVIOUS
    <2>2. \A w \in Vertices : RootOf(c, w) = IF w \in K /\ (w \in J => k \in J) THEN k
                                             ELSE IF w \in J THEN j ELSE RootOf(g, w)
      BY <2>1, TwoCuts
    <2>3. (J = L /\ K = U /\ j = lo /\ k = up) \/ (J = U /\ K = L /\ j = up /\ k = lo)
      OBVIOUS
    <2> HIDE DEF J, K, L, U
    <2>4. CASE J = L /\ K = U /\ j = lo /\ k = up
      BY <1>1, <2>2, <2>4
    <2>5. CASE J = U /\ K = L /\ j = up /\ k = lo
      BY <1>1, <2>2, <2>5
    <2> QED  BY <2>3, <2>4, <2>5
  <1> HIDE DEF L, U
  <1>8. RootOf(c, P) = P /\ RootOf(c, Q) = Q /\ RootOf(c, x) = lo /\ RootOf(c, y) = Q
    <2>1. y \notin U /\ Q \notin U
      BY <1>2
    <2>2. x \in L
      BY DEF L
    <2> QED  BY <1>1, <1>3, <1>5, <1>7, <2>1, <2>2
  <1>9. lo # P /\ lo # Q /\ up # P /\ up # Q
    BY <1>1, <1>2, <1>3
  <1>10. /\ Rooted(f) /\ f # Thrown
         /\ WithinTwo(EdgesOf(f), EdgesOf(c), l1, l2)
         /\ RootOf(f, P) = RootOf(f, Q) /\ RootOf(f, x) = RootOf(f, y)
         /\ JoinsTwice(c, f, P, Q, x, y)
    <2>1. ~(RootOf(c, x) \in {RootOf(c, P), RootOf(c, Q)} /\ RootOf(c, y) \in {RootOf(c, P), RootOf(c, Q)})
      BY <1>8, <1>9
    <2> QED  BY <1>6, <1>8, <1>9, <2>1, TwoLinks
  <1>11. PICK s \in {P, Q} : \E r \in [Vertices -> Vertices] : \E t \in {r[x], r[y]} :
                /\ \A w \in Vertices : r[w] = IF RootOf(c, w) \in {P, Q} THEN s ELSE RootOf(c, w)
                /\ \A w \in Vertices : RootOf(f, w) = IF r[w] \in {r[x], r[y]} THEN t ELSE r[w]
    BY <1>8, <1>10 DEF JoinsTwice
  <1>12. PICK r \in [Vertices -> Vertices] : \E t \in {r[x], r[y]} :
                /\ \A w \in Vertices : r[w] = IF RootOf(c, w) \in {P, Q} THEN s ELSE RootOf(c, w)
                /\ \A w \in Vertices : RootOf(f, w) = IF r[w] \in {r[x], r[y]} THEN t ELSE r[w]
    BY <1>11
  <1>13. PICK t \in {r[x], r[y]} :
                /\ \A w \in Vertices : r[w] = IF RootOf(c, w) \in {P, Q} THEN s ELSE RootOf(c, w)
                /\ \A w \in Vertices : RootOf(f, w) = IF r[w] \in {r[x], r[y]} THEN t ELSE r[w]
    BY <1>12
  <1>14. r[x] = lo /\ r[y] = s
    BY <1>8, <1>9, <1>13
  <1>15. \A w \in Vertices : w \in B <=> RootOf(g, w) = P \/ RootOf(g, w) = Q
    BY DEF Both
  <1>16. \A w \in Vertices : w \in X <=> w \in U /\ w \notin L
    BY DEF U, L
  <1>17. X \subseteq B
    <2>1. X \subseteq U
      BY DEF U
    <2> QED  BY <1>1, <1>2, <1>15, <2>1
  <1> HIDE DEF B
  <1>18. up \in B /\ t \in B /\ up # t
    BY <1>1, <1>2, <1>5, <1>9, <1>14, <1>15
  <1>19. ASSUME NEW w \in Vertices
         PROVE  RootOf(f, w) = IF w \in X THEN up ELSE IF w \in B THEN t ELSE RootOf(g, w)
    <2>1. RootOf(c, w) = IF w \in L THEN lo ELSE IF w \in U THEN up ELSE RootOf(g, w)
      BY <1>7
    <2>2. r[w] = IF RootOf(c, w) \in {P, Q} THEN s ELSE RootOf(c, w)
      BY <1>13
    <2>3. RootOf(f, w) = IF r[w] \in {lo, s} THEN t ELSE r[w]
      BY <1>13, <1>14
    <2>4. (w \in B <=> RootOf(g, w) = P \/ RootOf(g, w) = Q) /\ (w \in X <=> w \in U /\ w \notin L)
      BY <1>15, <1>16
    <2>5. (w \in U => RootOf(g, w) = P) /\ (w \in L => w \in U)
      BY <1>1, <1>2
    <2>6. RootOf(g, w) # lo /\ RootOf(g, w) # up
      BY RootFacts
    <2>7. CASE w \in X
      BY <1>9, <1>14, <2>1, <2>2, <2>3, <2>4, <2>5, <2>7
    <2>8. CASE w \in L
      BY <1>9, <2>1, <2>2, <2>3, <2>4, <2>5, <2>8
    <2>9. CASE w \notin U
      BY <1>9, <2>1, <2>2, <2>3, <2>4, <2>5, <2>6, <2>9
    <2> QED  BY <2>4, <2>7, <2>8, <2>9
  <1>20. g[j] \in B /\ j \in B /\ (g[j] \in X <=> j \notin X)
    <2>1. CASE j = lo
      BY <1>1, <1>2, <1>3, <1>4, <1>15, <1>16, <2>1
    <2>2. CASE j = up
      BY <1>1, <1>2, <1>3, <1>15, <1>16, <2>2
    <2> QED  BY <2>1, <2>2
  <1>21. Traded(g, f, P, Q, X, EdgeTo(g, j))
    <2>1. EdgeTo(g, j)[1] = g[j] /\ EdgeTo(g, j)[2] = j
      BY DEF EdgeTo
    <2>2. \E rx, ry \in B : rx # ry /\ \A w \in Vertices :
              RootOf(f, w) = IF w \in X THEN rx ELSE IF w \in B THEN ry ELSE RootOf(g, w)
      BY <1>18, <1>19
    <2> QED  BY <1>10, <1>17, <1>20, <2>1, <2>2 DEF Traded, B
  <1>22. WithinTwo(EdgesOf(f), EdgesOf(g), l1, l2)
    BY <1>6, <1>10 DEF WithEdge, WithinTwo
  <1> QED  BY <1>10, <1>21, <1>22

\* A cut in either tree, x and y below them: the parts cut off go together.
LEMMA TradeTwoApart ==
    ASSUME NEW g, NEW P, NEW Q, NEW x, NEW y, NEW j, NEW k, NEW l1, NEW l2, NEW c, NEW f1, NEW f,
           CutsInEitherTree(g, P, Q, x, y, j, k), LinksBoth(g, P, Q, x, y, j, k, l1, l2, c, f1, f),
           NEW X, X = Below(g, j) \cup Below(g, k)
    PROVE  /\ Traded(g, f, P, Q, X, EdgeTo(g, j))
           /\ WithinTwo(EdgesOf(f), EdgesOf(g), l1, l2)
           /\ RootOf(f, P) = RootOf(f, Q) /\ RootOf(f, x) = RootOf(f, y)
  <1> SUFFICES ASSUME Rooted(g), P \in Vertices, Q \in Vertices, P # Q,
                     j \in Vertices, g[j] # NULL, RootOf(g, j) = P, k \in Vertices, g[k] # NULL, RootOf(g, k) = Q,
                     x \in Vertices, x \in Below(g, j), y \in Vertices, y \in Below(g, k),
                     Either(l1, P, Q), Either(l2, x, y),
                     c = TryCut(TryCut(g, j), k), f1 = TryLink(c, l1[1], l1[2]), f = TryLink(f1, l2[1], l2[2])
              PROVE  /\ Traded(g, f, P, Q, X, EdgeTo(g, j))
                     /\ WithinTwo(EdgesOf(f), EdgesOf(g), l1, l2)
                     /\ RootOf(f, P) = RootOf(f, Q) /\ RootOf(f, x) = RootOf(f, y)
    BY DEF CutsInEitherTree, LinksBoth
  <1> DEFINE J == Below(g, j)
             K == Below(g, k)
             B == Both(g, P, Q)
  <1>1. (\A w \in J : RootOf(g, w) = P) /\ (\A w \in K : RootOf(g, w) = Q) /\ J \subseteq Vertices /\ K \subseteq Vertices
    BY BelowFacts
  <1>2. /\ g[j] \in Vertices /\ g[j] \notin J /\ RootOf(g, g[j]) = P /\ P \notin J /\ j \in J
        /\ g[k] \in Vertices /\ g[k] \notin K /\ RootOf(g, g[k]) = Q /\ Q \notin K /\ k \in K
    BY ParentNotBelow
  <1>3. RootOf(g, P) = P /\ RootOf(g, Q) = Q
    BY RootFacts
  <1>4. Rooted(c) /\ EdgesOf(c) \subseteq EdgesOf(g)
    BY <1>1, <1>2, TwoCuts
  <1>5. \A w \in Vertices : RootOf(c, w) = IF w \in K THEN k ELSE IF w \in J THEN j ELSE RootOf(g, w)
    <2>1. \A w \in Vertices : RootOf(c, w) = IF w \in K /\ (w \in J => k \in J) THEN k
                                             ELSE IF w \in J THEN j ELSE RootOf(g, w)
      BY <1>1, <1>2, TwoCuts
    <2> HIDE DEF J, K
    <2> QED  BY <1>1, <2>1
  <1>6. x \in J /\ y \in K
    OBVIOUS
  <1> HIDE DEF J, K
  <1>7. j # P /\ j # Q /\ k # P /\ k # Q /\ j # k
    BY <1>1, <1>2, <1>3
  <1>8. RootOf(c, P) = P /\ RootOf(c, Q) = Q /\ RootOf(c, x) = j /\ RootOf(c, y) = k
    BY <1>1, <1>2, <1>3, <1>5, <1>6
  <1>9. /\ Rooted(f) /\ f # Thrown /\ WithinTwo(EdgesOf(f), EdgesOf(c), l1, l2)
        /\ RootOf(f, P) = RootOf(f, Q) /\ RootOf(f, x) = RootOf(f, y)
        /\ JoinsTwice(c, f, P, Q, x, y)
    <2>1. ~(RootOf(c, x) \in {RootOf(c, P), RootOf(c, Q)} /\ RootOf(c, y) \in {RootOf(c, P), RootOf(c, Q)})
      BY <1>7, <1>8
    <2> QED  BY <1>4, <1>7, <1>8, <2>1, TwoLinks
  <1>10. PICK s \in {P, Q} : \E r \in [Vertices -> Vertices] : \E t \in {r[x], r[y]} :
                /\ \A w \in Vertices : r[w] = IF RootOf(c, w) \in {P, Q} THEN s ELSE RootOf(c, w)
                /\ \A w \in Vertices : RootOf(f, w) = IF r[w] \in {r[x], r[y]} THEN t ELSE r[w]
    BY <1>8, <1>9 DEF JoinsTwice
  <1>11. PICK r \in [Vertices -> Vertices] : \E t \in {r[x], r[y]} :
                /\ \A w \in Vertices : r[w] = IF RootOf(c, w) \in {P, Q} THEN s ELSE RootOf(c, w)
                /\ \A w \in Vertices : RootOf(f, w) = IF r[w] \in {r[x], r[y]} THEN t ELSE r[w]
    BY <1>10
  <1>12. PICK t \in {r[x], r[y]} :
                /\ \A w \in Vertices : r[w] = IF RootOf(c, w) \in {P, Q} THEN s ELSE RootOf(c, w)
                /\ \A w \in Vertices : RootOf(f, w) = IF r[w] \in {r[x], r[y]} THEN t ELSE r[w]
    BY <1>11
  <1>13. r[x] = j /\ r[y] = k
    BY <1>7, <1>8, <1>12
  <1>14. \A w \in Vertices : w \in B <=> RootOf(g, w) = P \/ RootOf(g, w) = Q
    BY DEF Both
  <1>15. \A w \in Vertices : w \in X <=> w \in J \/ w \in K
    BY DEF J, K
  <1>16. X \subseteq B
    <2>1. X = J \cup K
      BY DEF J, K
    <2> QED  BY <1>1, <1>14, <2>1
  <1> HIDE DEF B
  <1>17. t \in B /\ s \in B /\ t # s
    BY <1>1, <1>2, <1>3, <1>7, <1>13, <1>14
  <1>18. ASSUME NEW w \in Vertices
         PROVE  RootOf(f, w) = IF w \in X THEN t ELSE IF w \in B THEN s ELSE RootOf(g, w)
    <2>1. RootOf(c, w) = IF w \in K THEN k ELSE IF w \in J THEN j ELSE RootOf(g, w)
      BY <1>5
    <2>2. r[w] = IF RootOf(c, w) \in {P, Q} THEN s ELSE RootOf(c, w)
      BY <1>12
    <2>3. RootOf(f, w) = IF r[w] \in {j, k} THEN t ELSE r[w]
      BY <1>12, <1>13
    <2>4. (w \in B <=> RootOf(g, w) = P \/ RootOf(g, w) = Q) /\ (w \in X <=> w \in J \/ w \in K)
      BY <1>14, <1>15
    <2>5. RootOf(g, w) # j /\ RootOf(g, w) # k
      BY RootFacts
    <2>6. CASE w \in X
      BY <1>7, <2>1, <2>2, <2>3, <2>4, <2>6
    <2>7. CASE w \notin X
      BY <1>7, <2>1, <2>2, <2>3, <2>4, <2>5, <2>7
    <2> QED  BY <2>6, <2>7
  <1>19. g[j] \in B /\ j \in B /\ (g[j] \in X <=> j \notin X)
    BY <1>1, <1>2, <1>14, <1>15
  <1>20. Traded(g, f, P, Q, X, EdgeTo(g, j))
    <2>1. EdgeTo(g, j)[1] = g[j] /\ EdgeTo(g, j)[2] = j
      BY DEF EdgeTo
    <2>2. \E rx, ry \in B : rx # ry /\ \A w \in Vertices :
              RootOf(f, w) = IF w \in X THEN rx ELSE IF w \in B THEN ry ELSE RootOf(g, w)
      BY <1>17, <1>18
    <2> QED  BY <1>9, <1>16, <1>19, <2>1, <2>2 DEF Traded, B
  <1>21. WithinTwo(EdgesOf(f), EdgesOf(g), l1, l2)
    BY <1>4, <1>9 DEF WithEdge, WithinTwo
  <1> QED  BY <1>9, <1>20, <1>21

\* What is traded is told by either part.
LEMMA TradedOther ==
    ASSUME NEW g, NEW f, NEW P, NEW Q, NEW X, NEW cut, Traded(g, f, P, Q, X, cut)
    PROVE  Traded(g, f, P, Q, Both(g, P, Q) \ X, cut)
  <1> DEFINE B == Both(g, P, Q)
             Y == B \ X
  <1>1. /\ Rooted(f) /\ f # Thrown /\ X \subseteq B
        /\ cut[1] \in B /\ cut[2] \in B /\ (cut[1] \in X <=> cut[2] \notin X)
    BY DEF Traded
  <1>2. PICK rx \in B, ry \in B : rx # ry /\ \A w \in Vertices :
            RootOf(f, w) = IF w \in X THEN rx ELSE IF w \in B THEN ry ELSE RootOf(g, w)
    BY DEF Traded
  <1> HIDE DEF B
  <1>3. \A w \in Vertices : RootOf(f, w) = IF w \in Y THEN ry ELSE IF w \in B THEN rx ELSE RootOf(g, w)
    BY <1>1, <1>2
  <1>4. Y \subseteq B /\ (cut[1] \in Y <=> cut[2] \notin Y)
    BY <1>1
  <1> HIDE DEF Y
  <1>5. \E r, s \in B : r # s /\ \A w \in Vertices :
            RootOf(f, w) = IF w \in Y THEN r ELSE IF w \in B THEN s ELSE RootOf(g, w)
    BY <1>2, <1>3
  <1> QED  BY <1>1, <1>4, <1>5 DEF Traded, Y, B

---------------------------------------------------------------------------
(***************************************************************************)
(* The cycle                                                               *)
(***************************************************************************)
\* p climbs in f to a root, and what is later on it is above.
IsClimb(f, p) ==
    /\ p \in Seq(Vertices) /\ Len(p) \in Nat /\ Len(p) >= 1
    /\ f[p[Len(p)]] = NULL
    /\ \A i \in 1..Len(p) : p[i] \in Vertices /\ RootOf(f, p[i]) = p[Len(p)]
    /\ \A i \in 1..Len(p) : i < Len(p) => f[p[i]] = p[i + 1]
    /\ \A i, j \in 1..Len(p) : i <= j => p[i] \in Below(f, p[j])
    /\ \A i, j \in 1..Len(p) : i < j => p[j] \notin Below(f, p[i]) /\ p[i] # p[j]

\* The path to v, reversed, climbs from v.
LEMMA ReversedPathClimbs ==
    ASSUME NEW f, Rooted(f), NEW v \in Vertices, NEW p, p = Reverse(PathTo(f, v))
    PROVE  IsClimb(f, p) /\ p[1] = v /\ p[Len(p)] = RootOf(f, v)
  <1> DEFINE s == PathTo(f, v)
             n == Len(s)
  <1>1. IsPath(f, s, v)
    BY PathFacts
  <1>2. /\ s \in Seq(Vertices) /\ n \in Nat /\ n >= 1 /\ s[n] = v /\ f[s[1]] = NULL
        /\ \A i \in 2..n : f[s[i]] = s[i - 1]
    BY <1>1 DEF IsPath
  <1>3. /\ \A i \in 1..n : s[i] \in Vertices
        /\ \A i, j \in 1..n : i <= j => s[j] \in Below(f, s[i])
        /\ \A i, j \in 1..n : i < j => s[i] \notin Below(f, s[j]) /\ s[i] # s[j]
        /\ \A i \in 1..n : RootOf(f, s[i]) = s[1]
    BY <1>1, PathBelow
  <1>4. p = [i \in 1..n |-> s[(n - i) + 1]] /\ RootOf(f, v) = s[1]
    BY DEF Reverse, RootOf
  <1> HIDE DEF s, n
  <1>5. \A i \in 1..n : (n - i) + 1 \in 1..n /\ p[i] = s[(n - i) + 1]
    BY <1>2, <1>4
  <1>6. p \in [1..n -> Vertices]
    BY <1>3, <1>4, <1>5
  <1>7. p \in Seq(Vertices) /\ Len(p) = n
    BY <1>2, <1>6
  <1>8. p[1] = v /\ p[n] = s[1]
    <2>1. 1 \in 1..n /\ n \in 1..n /\ (n - 1) + 1 = n /\ (n - n) + 1 = 1
      BY <1>2
    <2> QED  BY <1>2, <1>5, <2>1
  <1>9. \A i \in 1..n : p[i] \in Vertices /\ RootOf(f, p[i]) = p[n]
    BY <1>3, <1>5, <1>8
  <1>10. ASSUME NEW i \in 1..n, i < n
         PROVE  f[p[i]] = p[i + 1]
    <2>1. i + 1 \in 1..n /\ (n - i) + 1 \in 2..n /\ ((n - i) + 1) - 1 = (n - (i + 1)) + 1
      BY <1>2, <1>10
    <2> QED  BY <1>2, <1>5, <2>1
  <1>11. ASSUME NEW i \in 1..n, NEW j \in 1..n
         PROVE  /\ i <= j => p[i] \in Below(f, p[j])
                /\ i < j => p[j] \notin Below(f, p[i]) /\ p[i] # p[j]
    <2> DEFINE a == (n - i) + 1
               b == (n - j) + 1
    <2>1. a \in 1..n /\ b \in 1..n /\ p[i] = s[a] /\ p[j] = s[b]
      BY <1>5
    <2>2. (i <= j => b <= a) /\ (i < j => b < a)
      BY <1>2
    <2> HIDE DEF a, b
    <2> QED  BY <1>3, <2>1, <2>2
  <1> QED  BY <1>2, <1>4, <1>7, <1>8, <1>9, <1>10, <1>11 DEF IsClimb

\* p and q climb to different roots, and the two edges that close the cycle between
\* their ends are not the same.
IsCycle(g, p, q) ==
    /\ Rooted(g) /\ IsClimb(g, p) /\ IsClimb(g, q)
    /\ p[Len(p)] # q[Len(q)]
    /\ Len(p) > 1 \/ Len(q) > 1

CycleOf(g, p, q) == [rooted |-> g, path1 |-> p, path2 |-> q]

\* The child that is cut off at a tree edge of the cycle.
KidAt(p, q, i) == IF i <= Len(p) THEN p[i - 1] ELSE q[Len(q) + Len(p) + 1 - i]

\* Two positions on the cycle, and not those of the two edges that close it.
CutPlaces(p, q, i, j) ==
    /\ i \in 1..Len(p) + Len(q) /\ j \in 1..Len(p) + Len(q) /\ i < j
    /\ ~(i = 1 /\ j = Len(p) + 1)

\* What EdgeAt gives at the two edges that close the cycle, and at the others.
LEMMA EdgeAtFacts ==
    ASSUME NEW g, NEW p, NEW q, IsCycle(g, p, q), NEW c, c = CycleOf(g, p, q),
           NEW i \in 1..Len(p) + Len(q)
    PROVE  /\ i = 1 => EdgeAt(c, i) = <<p[1], q[1]>>
           /\ i = Len(p) + 1 => EdgeAt(c, i) = <<p[Len(p)], q[Len(q)]>>
           /\ i # 1 /\ i # Len(p) + 1 =>
                 LET k == KidAt(p, q, i)
                 IN  /\ k \in Vertices /\ g[k] # NULL /\ EdgeAt(c, i) = EdgeTo(g, k)
                     /\ RootOf(g, k) = IF i <= Len(p) THEN p[Len(p)] ELSE q[Len(q)]
  <1> DEFINE n1 == Len(p)
             n2 == Len(q)
  <1>1. n1 \in Nat /\ n1 >= 1 /\ n2 \in Nat /\ n2 >= 1
    BY DEF IsCycle, IsClimb
  <1>2. /\ \A k \in 1..n1 : p[k] \in Vertices /\ RootOf(g, p[k]) = p[n1]
        /\ \A k \in 1..n1 : k < n1 => g[p[k]] = p[k + 1]
        /\ \A k \in 1..n2 : q[k] \in Vertices /\ RootOf(g, q[k]) = q[n2]
        /\ \A k \in 1..n2 : k < n2 => g[q[k]] = q[k + 1]
    BY DEF IsCycle, IsClimb
  <1>3. c.path1 = p /\ c.path2 = q
    BY DEF CycleOf
  <1>4. EdgeAt(c, i) = IF i = 1 THEN <<p[1], q[1]>>
                       ELSE IF i <= n1 THEN <<p[i], p[i - 1]>>
                       ELSE IF i = n1 + 1 THEN <<p[n1], q[n2]>>
                       ELSE <<q[n2 + n1 + 2 - i], q[n2 + n1 + 1 - i]>>
    BY <1>3 DEF EdgeAt
  <1>5. i \in Int /\ 1 <= i /\ i <= n1 + n2
    BY <1>1
  <1> HIDE DEF n1, n2
  <1>6. ASSUME i # 1, i <= n1
        PROVE  /\ p[i - 1] \in Vertices /\ g[p[i - 1]] = p[i] /\ p[i] \in Vertices
               /\ RootOf(g, p[i - 1]) = p[n1]
    <2>1. i - 1 \in 1..n1 /\ i - 1 < n1 /\ (i - 1) + 1 = i /\ i \in 1..n1
      BY <1>1, <1>5, <1>6
    <2> QED  BY <1>2, <2>1
  <1>7. ASSUME i > n1 + 1
        PROVE  LET m == n2 + n1 + 1 - i
               IN  /\ q[m] \in Vertices /\ g[q[m]] = q[n2 + n1 + 2 - i] /\ q[n2 + n1 + 2 - i] \in Vertices
                   /\ RootOf(g, q[m]) = q[n2]
    <2> DEFINE m == n2 + n1 + 1 - i
    <2>1. m \in 1..n2 /\ m < n2 /\ m + 1 = n2 + n1 + 2 - i /\ m + 1 \in 1..n2
      BY <1>1, <1>5, <1>7
    <2> HIDE DEF m
    <2>2. q[m] \in Vertices /\ g[q[m]] = q[m + 1] /\ q[m + 1] \in Vertices /\ RootOf(g, q[m]) = q[n2]
      BY <1>2, <2>1
    <2> QED  BY <2>1, <2>2 DEF m
  <1>8. i = 1 => EdgeAt(c, i) = <<p[1], q[1]>>
    BY <1>4
  <1>9. i = n1 + 1 => EdgeAt(c, i) = <<p[n1], q[n2]>>
    BY <1>1, <1>4
  <1>10. ASSUME i # 1, i # n1 + 1
         PROVE  LET k == KidAt(p, q, i)
                IN  /\ k \in Vertices /\ g[k] # NULL /\ EdgeAt(c, i) = EdgeTo(g, k)
                    /\ RootOf(g, k) = IF i <= n1 THEN p[n1] ELSE q[n2]
    <2> DEFINE k == KidAt(p, q, i)
    <2>1. CASE i <= n1
      <3>1. k = p[i - 1]
        BY <2>1 DEF KidAt, n1
      <3> HIDE DEF k
      <3>2. k \in Vertices /\ g[k] = p[i] /\ p[i] \in Vertices /\ RootOf(g, k) = p[n1] /\ EdgeAt(c, i) = <<p[i], k>>
        BY <1>4, <1>6, <1>10, <2>1, <3>1
      <3>3. k \in Vertices /\ g[k] # NULL /\ EdgeAt(c, i) = EdgeTo(g, k) /\ RootOf(g, k) = p[n1]
        BY <3>2, VerticesAssumption DEF EdgeTo
      <3> QED  BY <2>1, <3>3 DEF k
    <2>2. CASE i > n1 + 1
      <3> DEFINE a == q[n2 + n1 + 2 - i]
      <3>1. k = q[n2 + n1 + 1 - i] /\ ~(i <= n1)
        BY <1>1, <1>5, <2>2 DEF KidAt, n1, n2
      <3>2. k \in Vertices /\ g[k] = a /\ a \in Vertices /\ RootOf(g, k) = q[n2]
        BY <1>7, <2>2, <3>1
      <3>3. EdgeAt(c, i) = <<a, k>>
        BY <1>4, <1>10, <2>2, <3>1
      <3> HIDE DEF k, a
      <3>4. k \in Vertices /\ g[k] # NULL /\ EdgeAt(c, i) = EdgeTo(g, k) /\ RootOf(g, k) = q[n2]
        BY <3>2, <3>3, VerticesAssumption DEF EdgeTo
      <3> QED  BY <3>1, <3>4 DEF k
    <2>3. i <= n1 \/ i > n1 + 1
      BY <1>1, <1>5, <1>10
    <2> QED  BY <2>1, <2>2, <2>3
  <1> QED  BY <1>8, <1>9, <1>10 DEF n1, n2

\* Two links that close the cycle do not join the same vertices.
LEMMA LinksDiffer ==
    ASSUME NEW g, NEW p, NEW q, IsCycle(g, p, q)
    PROVE  /\ p[1] \in Vertices /\ q[1] \in Vertices /\ p[Len(p)] \in Vertices /\ q[Len(q)] \in Vertices
           /\ RootOf(g, p[1]) = p[Len(p)] /\ RootOf(g, q[1]) = q[Len(q)]
           /\ RootOf(g, p[Len(p)]) = p[Len(p)] /\ RootOf(g, q[Len(q)]) = q[Len(q)]
           /\ p[1] # p[Len(p)] \/ q[1] # q[Len(q)]
  <1>1. /\ Len(p) \in Nat /\ Len(p) >= 1 /\ Len(q) \in Nat /\ Len(q) >= 1
        /\ 1 \in 1..Len(p) /\ Len(p) \in 1..Len(p) /\ 1 \in 1..Len(q) /\ Len(q) \in 1..Len(q)
        /\ 1 < Len(p) \/ 1 < Len(q)
    BY DEF IsCycle, IsClimb
  <1> QED  BY <1>1 DEF IsCycle, IsClimb

\* The setting of an update: two places on a cycle, and the links that close it.
OnCycle(g, p, q, i, j, l1, l2) ==
    /\ IsCycle(g, p, q) /\ CutPlaces(p, q, i, j)
    /\ Either(l1, p[Len(p)], q[Len(q)]) /\ Either(l2, p[1], q[1])

\* An edge that would be cut and linked is left alone.
HasShape(c, p, i, j, l1, l2, U) ==
    /\ i = Len(p) + 1 => U.cuts = <<EdgeAt(c, j)>> /\ U.links = <<l2>>
    /\ j = Len(p) + 1 => U.cuts = <<EdgeAt(c, i)>> /\ U.links = <<l2>>
    /\ i = 1 => U.cuts = <<EdgeAt(c, j)>> /\ U.links = <<l1>>
    /\ i # 1 /\ i # Len(p) + 1 /\ j # Len(p) + 1 =>
          U.cuts = <<EdgeAt(c, i), EdgeAt(c, j)>> /\ U.links = <<l1, l2>>

\* So it is, and every cut is of a tree edge.
LEMMA UpdateShape ==
    ASSUME NEW g, NEW p, NEW q, NEW i, NEW j, NEW l1, NEW l2, OnCycle(g, p, q, i, j, l1, l2),
           NEW c, c = CycleOf(g, p, q)
    PROVE  HasShape(c, p, i, j, l1, l2, UpdateOf(EdgeAt(c, i), EdgeAt(c, j), l1, l2))
  <1> SUFFICES ASSUME IsCycle(g, p, q), CutPlaces(p, q, i, j),
                     Either(l1, p[Len(p)], q[Len(q)]), Either(l2, p[1], q[1]),
                     NEW U, U = UpdateOf(EdgeAt(c, i), EdgeAt(c, j), l1, l2)
              PROVE  /\ i = Len(p) + 1 => U.cuts = <<EdgeAt(c, j)>> /\ U.links = <<l2>>
                     /\ j = Len(p) + 1 => U.cuts = <<EdgeAt(c, i)>> /\ U.links = <<l2>>
                     /\ i = 1 => U.cuts = <<EdgeAt(c, j)>> /\ U.links = <<l1>>
                     /\ i # 1 /\ i # Len(p) + 1 /\ j # Len(p) + 1 =>
                           U.cuts = <<EdgeAt(c, i), EdgeAt(c, j)>> /\ U.links = <<l1, l2>>
    BY DEF OnCycle, HasShape
  <1> DEFINE a == EdgeAt(c, i)
             b == EdgeAt(c, j)
             n1 == Len(p)
             u == p[1]
             v == q[1]
             P == p[n1]
             Q == q[Len(q)]
             Joint(e) == RootOf(g, e[1]) = RootOf(g, e[2])
  <1>1. /\ i \in 1..n1 + Len(q) /\ j \in 1..n1 + Len(q) /\ i < j /\ ~(i = 1 /\ j = n1 + 1)
        /\ n1 \in Nat /\ n1 >= 1 /\ j # 1 /\ (i = n1 + 1 => i # 1 /\ j # n1 + 1) /\ (i = 1 => i # n1 + 1)
        /\ (j = n1 + 1 => i # n1 + 1)
    BY DEF CutPlaces, IsCycle, IsClimb
  <1>2. RootOf(g, u) = P /\ RootOf(g, v) = Q /\ RootOf(g, P) = P /\ RootOf(g, Q) = Q /\ P # Q /\ (u # P \/ v # Q)
    BY LinksDiffer DEF IsCycle
  <1>3. ASSUME NEW m \in 1..n1 + Len(q)
        PROVE  /\ m = 1 => EdgeAt(c, m) = <<u, v>>
               /\ m = n1 + 1 => EdgeAt(c, m) = <<P, Q>>
               /\ m # 1 /\ m # n1 + 1 => Joint(EdgeAt(c, m))
    <2>1. m # 1 /\ m # n1 + 1 => Joint(EdgeAt(c, m))
      <3> SUFFICES ASSUME m # 1, m # n1 + 1
                   PROVE  Joint(EdgeAt(c, m))
        OBVIOUS
      <3> DEFINE k == KidAt(p, q, m)
      <3>1. k \in Vertices /\ g[k] # NULL /\ EdgeAt(c, m) = EdgeTo(g, k)
        BY EdgeAtFacts
      <3> HIDE DEF k
      <3>2. EdgeTo(g, k)[1] = g[k] /\ EdgeTo(g, k)[2] = k
        BY DEF EdgeTo
      <3>3. RootOf(g, g[k]) = RootOf(g, k)
        BY <3>1, ParentNotBelow DEF IsCycle
      <3> QED  BY <3>1, <3>2, <3>3
    <2>2. (m = 1 => EdgeAt(c, m) = <<u, v>>) /\ (m = n1 + 1 => EdgeAt(c, m) = <<P, Q>>)
      BY EdgeAtFacts
    <2> QED  BY <2>1, <2>2
  <1>4. /\ i = 1 => a = <<u, v>>
        /\ i = n1 + 1 => a = <<P, Q>>
        /\ i # 1 /\ i # n1 + 1 => Joint(a)
        /\ j = n1 + 1 => b = <<P, Q>>
        /\ j # n1 + 1 => Joint(b)
    BY <1>1, <1>3
  <1>5. (l1 = <<P, Q>> \/ l1 = <<Q, P>>) /\ (l2 = <<u, v>> \/ l2 = <<v, u>>)
    BY DEF Either
  <1> DEFINE same(l, e) == SameEdge(l, e)
  <1> HIDE DEF a, b, n1, u, v, P, Q
  <1>6. ~Joint(l1) /\ ~Joint(l2) /\ ~SameEdge(l1, <<u, v>>) /\ ~SameEdge(l2, <<P, Q>>)
    BY <1>2, <1>5 DEF SameEdge
  <1>7. \A e : SameEdge(l1, e) \/ SameEdge(l2, e) => ~Joint(e)
    BY <1>6 DEF SameEdge
  <1>8. SameEdge(l1, <<P, Q>>) /\ SameEdge(l2, <<u, v>>)
    BY <1>5 DEF SameEdge
  <1>9. /\ SameEdge(l1, a) <=> i = n1 + 1
        /\ SameEdge(l1, b) <=> j = n1 + 1
        /\ SameEdge(l2, a) <=> i = 1
        /\ ~SameEdge(l2, b)
    BY <1>1, <1>4, <1>6, <1>7, <1>8
  <1>10. U = IF SameEdge(l1, a) THEN [cuts |-> <<b>>, links |-> <<l2>>]
             ELSE IF SameEdge(l1, b) THEN [cuts |-> <<a>>, links |-> <<l2>>]
             ELSE IF SameEdge(l2, a) THEN [cuts |-> <<b>>, links |-> <<l1>>]
             ELSE [cuts |-> <<a, b>>, links |-> <<l1, l2>>]
    BY <1>9 DEF UpdateOf, a, b
  <1>11. /\ i = n1 + 1 => U.cuts = <<b>> /\ U.links = <<l2>>
         /\ j = n1 + 1 => U.cuts = <<a>> /\ U.links = <<l2>>
         /\ i = 1 => U.cuts = <<b>> /\ U.links = <<l1>>
         /\ i # 1 /\ i # n1 + 1 /\ j # n1 + 1 => U.cuts = <<a, b>> /\ U.links = <<l1, l2>>
    BY <1>1, <1>9, <1>10
  <1> QED  BY <1>11 DEF a, b, n1

\* A link between the trees of g.
IsLink(g, l) == l[1] \in Vertices /\ l[2] \in Vertices /\ RootOf(g, l[1]) # RootOf(g, l[2])

\* One cut and one link, or two of each.
OneCutUpdate(g, U) ==
    \E k \in Vertices : \E l :
        /\ g[k] # NULL /\ U.cuts = <<EdgeTo(g, k)>>
        /\ IsLink(g, l) /\ U.links = <<l>>

TwoCutUpdate(g, U) ==
    \E j, k \in Vertices : \E l1, l2 :
        /\ g[j] # NULL /\ g[k] # NULL /\ j # k /\ U.cuts = <<EdgeTo(g, j), EdgeTo(g, k)>>
        /\ IsLink(g, l1) /\ IsLink(g, l2) /\ {l1[1], l1[2]} # {l2[1], l2[2]} /\ U.links = <<l1, l2>>

IsUpdate(g, U) == OneCutUpdate(g, U) \/ TwoCutUpdate(g, U)

\* What an update of one cut and one link does.
LEMMA UpdatedOne ==
    ASSUME NEW U, NEW a, NEW l, U.cuts = <<a>>, U.links = <<l>>, NEW f
    PROVE  /\ Updated(f, U) = TryLink(TryCut(f, a[2]), l[1], l[2])
           /\ Undone(f, U) = TryLink(Unlink(f, l[1], l[2]), a[1], a[2])
           /\ U.cuts[1] = a /\ U.links[1] = l
  <1>1. Len(<<a>>) = 1 /\ <<a>>[1] = a /\ Len(<<l>>) = 1 /\ <<l>>[1] = l
    OBVIOUS
  <1> QED  BY <1>1 DEF Updated, Undone, CutAll, LinkAll, UnlinkAll

\* What an update of two cuts and two links does.
LEMMA UpdatedTwo ==
    ASSUME NEW U, NEW a, NEW b, NEW l, NEW m, U.cuts = <<a, b>>, U.links = <<l, m>>, NEW f
    PROVE  /\ Updated(f, U) = TryLink(TryLink(TryCut(TryCut(f, a[2]), b[2]), l[1], l[2]), m[1], m[2])
           /\ Undone(f, U) = TryLink(TryLink(Unlink(Unlink(f, l[1], l[2]), m[1], m[2]), a[1], a[2]), b[1], b[2])
           /\ U.cuts[1] = a /\ U.links[1] = l
  <1>1. Len(<<a, b>>) = 2 /\ <<a, b>>[1] = a /\ <<a, b>>[2] = b /\ Len(<<l, m>>) = 2 /\ <<l, m>>[1] = l /\ <<l, m>>[2] = m
    OBVIOUS
  <1> QED  BY <1>1 DEF Updated, Undone, CutAll, LinkAll, UnlinkAll

\* A link between two trees is no edge of the forest.
LEMMA LinkIsNew ==
    ASSUME NEW g, Rooted(g), NEW l, IsLink(g, l)
    PROVE  ~HasEdge(EdgesOf(g), l[1], l[2])
  <1> DEFINE x == l[1]
             y == l[2]
  <1>1. x \in Vertices /\ y \in Vertices /\ RootOf(g, x) # RootOf(g, y) /\ x # NULL /\ y # NULL
    BY VerticesAssumption DEF IsLink
  <1> HIDE DEF x, y
  <1>2. g \in Parents
    BY DEF Rooted
  <1> SUFFICES ASSUME {x, y} \in EdgesOf(g)
               PROVE  FALSE
    BY DEF HasEdge, x, y
  <1>3. g[x] = y \/ g[y] = x
    BY <1>2, EdgeIs
  <1> QED  BY <1>1, <1>3, RootStep

\* An update that was made is undone: every edge is as it was.
THEOREM UndoneFacts ==
    ASSUME NEW g, Rooted(g), NEW U, IsUpdate(g, U), NEW f, f = Updated(g, U), f # Thrown,
           NEW b, b = Undone(f, U)
    PROVE  Rooted(b) /\ b # Thrown /\ EdgesOf(b) = EdgesOf(g)
  <1>1. CASE OneCutUpdate(g, U)
    <2>1. PICK k \in Vertices : \E l :
              /\ g[k] # NULL /\ U.cuts = <<EdgeTo(g, k)>>
              /\ IsLink(g, l) /\ U.links = <<l>>
      BY <1>1 DEF OneCutUpdate
    <2>2. PICK l : g[k] # NULL /\ U.cuts = <<EdgeTo(g, k)>> /\ IsLink(g, l) /\ U.links = <<l>>
      BY <2>1
    <2> DEFINE x == l[1]
               y == l[2]
               h == Unlink(f, x, y)
    <2>3. EdgeTo(g, k)[1] = g[k] /\ EdgeTo(g, k)[2] = k
      BY DEF EdgeTo
    <2>4. /\ Updated(g, U) = TryLink(TryCut(g, EdgeTo(g, k)[2]), x, y)
          /\ Undone(f, U) = TryLink(h, EdgeTo(g, k)[1], EdgeTo(g, k)[2])
      BY <2>2, UpdatedOne
    <2>5. f = TryLink(TryCut(g, k), x, y) /\ b = TryLink(h, g[k], k)
      BY <2>3, <2>4
    <2>6. ~HasEdge(EdgesOf(g), x, y) /\ x \in Vertices /\ y \in Vertices
      BY <2>2, LinkIsNew DEF IsLink
    <2> DEFINE hh == h
    <2>7. hh = Unlink(f, x, y) /\ b = TryLink(hh, g[k], k)
      BY <2>5
    <2> HIDE DEF x, y, hh
    <2> QED  BY <2>2, <2>5, <2>6, <2>7, UndoOne
  <1>2. CASE TwoCutUpdate(g, U)
    <2>1. PICK j \in Vertices, k \in Vertices : \E l1, l2 :
        /\ g[j] # NULL /\ g[k] # NULL /\ j # k /\ U.cuts = <<EdgeTo(g, j), EdgeTo(g, k)>>
        /\ IsLink(g, l1) /\ IsLink(g, l2) /\ {l1[1], l1[2]} # {l2[1], l2[2]} /\ U.links = <<l1, l2>>
      BY <1>2 DEF TwoCutUpdate
    <2>2. PICK l1, l2 : 
        /\ g[j] # NULL /\ g[k] # NULL /\ j # k /\ U.cuts = <<EdgeTo(g, j), EdgeTo(g, k)>>
        /\ IsLink(g, l1) /\ IsLink(g, l2) /\ {l1[1], l1[2]} # {l2[1], l2[2]} /\ U.links = <<l1, l2>>
      BY <2>1
    <2> DEFINE x1 == l1[1]
               y1 == l1[2]
               x2 == l2[1]
               y2 == l2[2]
               c2 == TryCut(TryCut(g, j), k)
               f1 == TryLink(c2, x1, y1)
               h1 == Unlink(f, x1, y1)
               h2 == Unlink(h1, x2, y2)
               b1 == TryLink(h2, g[j], j)
    <2>3. EdgeTo(g, k)[1] = g[k] /\ EdgeTo(g, k)[2] = k /\ EdgeTo(g, j)[1] = g[j] /\ EdgeTo(g, j)[2] = j
      BY DEF EdgeTo
    <2>4. /\ Updated(g, U) = TryLink(TryLink(TryCut(TryCut(g, EdgeTo(g, j)[2]), EdgeTo(g, k)[2]), x1, y1), x2, y2)
          /\ Undone(f, U) = TryLink(TryLink(h2, EdgeTo(g, j)[1], EdgeTo(g, j)[2]), EdgeTo(g, k)[1], EdgeTo(g, k)[2])
      BY <2>2, UpdatedTwo
    <2>5. f = TryLink(f1, x2, y2) /\ b = TryLink(b1, g[k], k)
      BY <2>3, <2>4
    <2>6. /\ ~HasEdge(EdgesOf(g), x1, y1) /\ ~HasEdge(EdgesOf(g), x2, y2)
          /\ x1 \in Vertices /\ y1 \in Vertices /\ x2 \in Vertices /\ y2 \in Vertices
          /\ {x1, y1} # {x2, y2}
      BY <2>2, LinkIsNew DEF IsLink
    <2>7. c2 = TryCut(TryCut(g, j), k) /\ f1 = TryLink(c2, x1, y1) /\ h1 = Unlink(f, x1, y1) /\ h2 = Unlink(h1, x2, y2)
          /\ b1 = TryLink(h2, g[j], j)
      OBVIOUS
    <2>8. g[j] # NULL /\ g[k] # NULL /\ j # k
      BY <2>2
    <2> HIDE DEF x1, y1, x2, y2, c2, f1, h1, h2, b1
    <2>9. MadeAndUndone(g, j, k, x1, y1, x2, y2, c2, f1, f, h1, h2, b1, b)
      BY <2>5, <2>6, <2>7, <2>8 DEF MadeAndUndone
    <2> QED  BY <2>9, UndoTwo
  <1> QED  BY <1>1, <1>2 DEF IsUpdate

\* Which of the two trees is called the first does not matter.
LEMMA TradedEitherWay ==
    ASSUME NEW g, NEW f, NEW P, NEW Q, NEW X, NEW cut, Traded(g, f, Q, P, X, cut)
    PROVE  Traded(g, f, P, Q, X, cut)
<1>1. Both(g, P, Q) = Both(g, Q, P)
    BY DEF Both
<1> QED
    BY <1>1 DEF Traded

\* What an update made, and that it can be undone.
Makes(g, U, f, P, Q, X, l1, l2) ==
    /\ Traded(g, f, P, Q, X, U.cuts[1])
    /\ WithinTwo(EdgesOf(f), EdgesOf(g), l1, l2)
    /\ IsUpdate(g, U)
    /\ RootOf(f, U.links[1][1]) = RootOf(f, U.links[1][2])

\* So it is for what is made, too.
LEMMA MakesEitherWay ==
    ASSUME NEW g, NEW U, NEW f, NEW P, NEW Q, NEW X, NEW l1, NEW l2, Makes(g, U, f, Q, P, X, l1, l2)
    PROVE  Makes(g, U, f, P, Q, X, l1, l2)
BY TradedEitherWay DEF Makes

\* A link of x and y is one of vertices in different trees.
LEMMA EitherLinks ==
    ASSUME NEW g, NEW x \in Vertices, NEW y \in Vertices, RootOf(g, x) # RootOf(g, y), NEW l, Either(l, x, y)
    PROVE  /\ IsLink(g, l)
           /\ {l[1], l[2]} = {x, y}
           /\ \A f : RootOf(f, x) = RootOf(f, y) => RootOf(f, l[1]) = RootOf(f, l[2])
BY DEF Either, IsLink

\* Edges within one more are within two more.
LEMMA WithinOne ==
    ASSUME NEW E, NEW F, NEW l1, NEW l2, NEW l, l = l1 \/ l = l2, F \subseteq WithEdge(E, l[1], l[2])
    PROVE  WithinTwo(F, E, l1, l2)
BY DEF WithinTwo, WithEdge

\* An update of one cut and one link.
LEMMA OneCutMakes ==
    ASSUME NEW g, NEW P, NEW Q, NEW k, NEW x, NEW y, NEW l, NEW f, CutAndLink(g, P, Q, k, x, y, l, f),
           NEW l1, NEW l2, l = l1 \/ l = l2,
           NEW U, U.cuts = <<EdgeTo(g, k)>>, U.links = <<l>>,
           NEW X, X = PartWithout(g, P, k, x)
    PROVE  Makes(g, U, f, P, Q, X, l1, l2)
  <1>1. U.cuts[1] = EdgeTo(g, k) /\ U.links[1] = l
    OBVIOUS
  <1>2. /\ Traded(g, f, P, Q, X, EdgeTo(g, k))
        /\ EdgesOf(f) \subseteq WithEdge(EdgesOf(g), l[1], l[2])
        /\ RootOf(f, x) = RootOf(f, y)
    BY TradeOne
  <1>3. WithinTwo(EdgesOf(f), EdgesOf(g), l1, l2)
    BY <1>2, WithinOne
  <1>4. IsLink(g, l) /\ RootOf(f, l[1]) = RootOf(f, l[2])
    BY <1>2, EitherLinks DEF CutAndLink
  <1>5. IsUpdate(g, U)
    BY <1>4 DEF IsUpdate, OneCutUpdate, CutAndLink
  <1> QED
    BY <1>1, <1>2, <1>3, <1>4, <1>5 DEF Makes

\* The links of two different pairs of vertices make the two cuts an update.
LEMMA IsTwoCutUpdate ==
    ASSUME NEW g, NEW P, NEW Q, NEW x, NEW y, NEW j, NEW k, NEW l1, NEW l2, NEW c, NEW f1, NEW f,
           LinksBoth(g, P, Q, x, y, j, k, l1, l2, c, f1, f),
           j \in Vertices, g[j] # NULL, k \in Vertices, g[k] # NULL, j # k,
           x \in Vertices, y \in Vertices, RootOf(g, x) = P, RootOf(g, y) = Q, x # P \/ y # Q,
           NEW U, U.cuts = <<EdgeTo(g, j), EdgeTo(g, k)>>, U.links = <<l1, l2>>
    PROVE  IsUpdate(g, U) /\ (RootOf(f, P) = RootOf(f, Q) => RootOf(f, l1[1]) = RootOf(f, l1[2]))
  <1>1. P \in Vertices /\ Q \in Vertices /\ RootOf(g, P) # RootOf(g, Q) /\ Either(l1, P, Q) /\ Either(l2, x, y)
    BY DEF LinksBoth
  <1>2. IsLink(g, l1) /\ {l1[1], l1[2]} = {P, Q} /\ (RootOf(f, P) = RootOf(f, Q) => RootOf(f, l1[1]) = RootOf(f, l1[2]))
    BY <1>1, EitherLinks
  <1>3. IsLink(g, l2) /\ {l2[1], l2[2]} = {x, y}
    BY <1>1, EitherLinks DEF LinksBoth
  <1>4. {P, Q} # {x, y}
    BY DEF LinksBoth
  <1>5. {l1[1], l1[2]} # {l2[1], l2[2]}
    BY <1>2, <1>3, <1>4
  <1>6. TwoCutUpdate(g, U)
    BY <1>2, <1>3, <1>5 DEF TwoCutUpdate
  <1> QED
    BY <1>2, <1>6 DEF IsUpdate

\* An update of two cuts in the tree of P.
LEMMA TwoCutsMakeSame ==
    ASSUME NEW g, NEW P, NEW Q, NEW lo, NEW up, NEW x, NEW y, NEW j, NEW k, NEW l1, NEW l2, NEW c, NEW f1, NEW f,
           CutsInOneTree(g, P, Q, lo, up, x, y, j, k), LinksBoth(g, P, Q, x, y, j, k, l1, l2, c, f1, f),
           x # P \/ y # Q,
           NEW U, U.cuts = <<EdgeTo(g, j), EdgeTo(g, k)>>, U.links = <<l1, l2>>,
           NEW X, X = Below(g, up) \ Below(g, lo)
    PROVE  Makes(g, U, f, P, Q, X, l1, l2)
  <1>1. U.cuts[1] = EdgeTo(g, j) /\ U.links[1] = l1
    OBVIOUS
  <1>2. /\ Traded(g, f, P, Q, X, EdgeTo(g, j))
        /\ WithinTwo(EdgesOf(f), EdgesOf(g), l1, l2)
        /\ RootOf(f, P) = RootOf(f, Q)
    BY TradeTwoSame
  <1>3. /\ j \in Vertices /\ g[j] # NULL /\ k \in Vertices /\ g[k] # NULL /\ j # k
        /\ x \in Vertices /\ y \in Vertices /\ RootOf(g, y) = Q
        /\ lo \in Vertices /\ up \in Vertices /\ lo \in Below(g, up) /\ x \in Below(g, lo) /\ RootOf(g, up) = P
    BY DEF CutsInOneTree
  <1>4. RootOf(g, x) = P
    BY <1>3, BelowFacts DEF LinksBoth
  <1>5. IsUpdate(g, U) /\ RootOf(f, l1[1]) = RootOf(f, l1[2])
    BY <1>2, <1>3, <1>4, IsTwoCutUpdate
  <1> QED
    BY <1>1, <1>2, <1>5 DEF Makes

\* An update of a cut in either tree.
LEMMA TwoCutsMakeApart ==
    ASSUME NEW g, NEW P, NEW Q, NEW x, NEW y, NEW j, NEW k, NEW l1, NEW l2, NEW c, NEW f1, NEW f,
           CutsInEitherTree(g, P, Q, x, y, j, k), LinksBoth(g, P, Q, x, y, j, k, l1, l2, c, f1, f),
           x # P \/ y # Q,
           NEW U, U.cuts = <<EdgeTo(g, j), EdgeTo(g, k)>>, U.links = <<l1, l2>>,
           NEW X, X = Both(g, P, Q) \ (Below(g, j) \cup Below(g, k))
    PROVE  Makes(g, U, f, P, Q, X, l1, l2)
  <1>1. U.cuts[1] = EdgeTo(g, j) /\ U.links[1] = l1
    OBVIOUS
  <1> DEFINE Z == Below(g, j) \cup Below(g, k)
  <1>2. /\ Traded(g, f, P, Q, Z, EdgeTo(g, j))
        /\ WithinTwo(EdgesOf(f), EdgesOf(g), l1, l2)
        /\ RootOf(f, P) = RootOf(f, Q)
    BY TradeTwoApart
  <1>3. Traded(g, f, P, Q, X, EdgeTo(g, j))
    BY <1>2, TradedOther
  <1>4. /\ j \in Vertices /\ g[j] # NULL /\ k \in Vertices /\ g[k] # NULL /\ j # k
        /\ x \in Vertices /\ y \in Vertices /\ x \in Below(g, j) /\ y \in Below(g, k)
        /\ RootOf(g, j) = P /\ RootOf(g, k) = Q
    BY DEF CutsInEitherTree, LinksBoth
  <1>5. RootOf(g, x) = P /\ RootOf(g, y) = Q
    BY <1>4, BelowFacts DEF LinksBoth
  <1>6. IsUpdate(g, U) /\ RootOf(f, l1[1]) = RootOf(f, l1[2])
    BY <1>2, <1>4, <1>5, IsTwoCutUpdate
  <1> QED
    BY <1>1, <1>2, <1>3, <1>6 DEF Makes

\* What hangs at the first m vertices of a climb.
Upto(g, p, m) == IF m = 0 THEN {} ELSE Below(g, p[m])

\* What hangs on the cycle from its place i to before its place j: places count up
\* along p and then down along q.
ArcOf(g, p, q, i, j) ==
    LET N == Len(p) + Len(q)
    IN  IF j <= Len(p) + 1 THEN Upto(g, p, j - 1) \ Upto(g, p, i - 1)
        ELSE IF i > Len(p) THEN Upto(g, q, N + 1 - i) \ Upto(g, q, N + 1 - j)
        ELSE Both(g, p[Len(p)], q[Len(q)]) \ (Upto(g, p, i - 1) \cup Upto(g, q, N + 1 - j))

\* All of a climb's tree hangs at it, and its start at every vertex on it.
LEMMA UptoFacts ==
    ASSUME NEW g, Rooted(g), NEW p, IsClimb(g, p)
    PROVE  /\ Upto(g, p, Len(p)) = {w \in Vertices : RootOf(g, w) = p[Len(p)]}
           /\ \A m \in 1..Len(p) : p[m] \in Vertices /\ RootOf(g, p[m]) = p[Len(p)] /\ p[1] \in Below(g, p[m])
           /\ \A m \in 1..Len(p) : m < Len(p) => g[p[m]] # NULL /\ p[Len(p)] \notin Below(g, p[m])
           /\ \A m, n \in 1..Len(p) : m < n => p[m] \in Below(g, p[n]) /\ p[m] # p[n]
           /\ \A m \in 1..Len(p) : \A w \in Below(g, p[m]) : w \in Vertices /\ RootOf(g, w) = p[Len(p)]
  <1>1. Len(p) \in Nat /\ Len(p) >= 1
    BY DEF IsClimb
  <1>2. \A m \in 1..Len(p) : p[m] \in Vertices /\ RootOf(g, p[m]) = p[Len(p)]
    BY DEF IsClimb
  <1>3. \A m \in 1..Len(p) : \A w \in Below(g, p[m]) : w \in Vertices /\ RootOf(g, w) = p[Len(p)]
    BY <1>2, BelowFacts
  <1>4. \A m \in 1..Len(p) : p[1] \in Below(g, p[m])
    BY <1>1 DEF IsClimb
  <1>5. \A m \in 1..Len(p) : m < Len(p) => g[p[m]] # NULL /\ p[Len(p)] \notin Below(g, p[m])
    <2> SUFFICES ASSUME NEW m \in 1..Len(p), m < Len(p)
                 PROVE  g[p[m]] # NULL /\ p[Len(p)] \notin Below(g, p[m])
        OBVIOUS
    <2>1. m + 1 \in 1..Len(p) /\ Len(p) \in 1..Len(p)
        BY <1>1
    <2>2. g[p[m]] = p[m + 1] /\ p[m + 1] \in Vertices
        BY <2>1 DEF IsClimb
    <2>3. p[Len(p)] \notin Below(g, p[m])
        BY <2>1 DEF IsClimb
    <2> QED
        BY <2>2, <2>3, VerticesAssumption
  <1>6. \A m, n \in 1..Len(p) : m < n => p[m] \in Below(g, p[n]) /\ p[m] # p[n]
    BY <1>1 DEF IsClimb
  <1>7. Upto(g, p, Len(p)) = {w \in Vertices : RootOf(g, w) = p[Len(p)]}
    <2>1. Len(p) \in 1..Len(p) /\ Len(p) # 0
        BY <1>1
    <2>2. \A w \in Vertices : w \in Below(g, RootOf(g, w))
        BY BelowFacts
    <2>3. \A w \in Vertices : RootOf(g, w) = p[Len(p)] => w \in Below(g, p[Len(p)])
        BY <2>2
    <2> QED
        BY <2>1, <2>3, <1>3 DEF Upto
  <1> QED
    BY <1>2, <1>3, <1>4, <1>5, <1>6, <1>7

\* What is known of its ends.
LEMMA CycleEnds ==
    ASSUME NEW g, NEW p, NEW q, IsCycle(g, p, q)
    PROVE  /\ Rooted(g) /\ IsClimb(g, p) /\ IsClimb(g, q)
           /\ Len(p) \in Nat /\ Len(p) >= 1 /\ Len(q) \in Nat /\ Len(q) >= 1
           /\ p[Len(p)] \in Vertices /\ q[Len(q)] \in Vertices /\ p[Len(p)] # q[Len(q)]
           /\ p[1] \in Vertices /\ RootOf(g, p[1]) = p[Len(p)] /\ RootOf(g, p[Len(p)]) = p[Len(p)]
           /\ q[1] \in Vertices /\ RootOf(g, q[1]) = q[Len(q)] /\ RootOf(g, q[Len(q)]) = q[Len(q)]
           /\ p[1] # p[Len(p)] \/ q[1] # q[Len(q)]
BY LinksDiffer DEF IsCycle, IsClimb

\* The trees of both ends.
LEMMA BothIs ==
    ASSUME NEW g, NEW p, NEW q, IsCycle(g, p, q)
    PROVE  /\ Both(g, p[Len(p)], q[Len(q)]) = Upto(g, p, Len(p)) \cup Upto(g, q, Len(q))
           /\ Upto(g, p, Len(p)) \cap Upto(g, q, Len(q)) = {}
BY CycleEnds, UptoFacts DEF Both

\* A single cut below P, at place m of the climb to it, and a link of its start.
LEMMA CutUnderStart ==
    ASSUME NEW g, NEW p, NEW q, Rooted(g), IsClimb(g, p), IsClimb(g, q), p[Len(p)] # q[Len(q)],
           NEW m, m \in 1..Len(p), m < Len(p),
           NEW l, Either(l, p[1], q[1]), NEW l1, NEW l2, l = l1 \/ l = l2,
           NEW U, U.cuts = <<EdgeTo(g, p[m])>>, U.links = <<l>>, NEW f, f = Updated(g, U)
    PROVE  Makes(g, U, f, p[Len(p)], q[Len(q)], Upto(g, p, Len(p)) \ Upto(g, p, m), l1, l2)
  <1> DEFINE P == p[Len(p)]
             Q == q[Len(q)]
             k == p[m]
             x == p[1]
             y == q[1]
             X == Upto(g, p, Len(p)) \ Upto(g, p, m)
  <1>1. f = TryLink(TryCut(g, k), l[1], l[2])
    BY UpdatedOne DEF EdgeTo
  <1>2. 1 \in 1..Len(p) /\ Len(p) \in 1..Len(p) /\ 1 \in 1..Len(q) /\ Len(q) \in 1..Len(q) /\ m # 0
    BY DEF IsClimb
  <1>3. /\ P \in Vertices /\ Q \in Vertices /\ k \in Vertices /\ g[k] # NULL /\ RootOf(g, k) = P
        /\ x \in Vertices /\ RootOf(g, x) = P /\ y \in Vertices /\ RootOf(g, y) = Q /\ x \in Below(g, k)
    BY <1>2, UptoFacts
  <1>4. CutAndLink(g, P, Q, k, x, y, l, f)
    BY <1>1, <1>3 DEF CutAndLink
  <1>5. X = PartWithout(g, P, k, x)
    <2>1. Upto(g, p, Len(p)) = {w \in Vertices : RootOf(g, w) = P}
        BY UptoFacts
    <2>2. Upto(g, p, m) = Below(g, k)
        BY <1>2 DEF Upto
    <2> QED
        BY <2>1, <2>2, <1>3 DEF PartWithout
  <1> HIDE DEF X, P, Q, k, x, y
  <1>6. Makes(g, U, f, P, Q, X, l1, l2)
    BY <1>4, <1>5, OneCutMakes DEF k
  <1> QED
    BY <1>6 DEF X, P, Q

\* A single cut below P, and a link of P.
LEMMA CutUnderRoot ==
    ASSUME NEW g, NEW p, NEW q, Rooted(g), IsClimb(g, p), IsClimb(g, q), p[Len(p)] # q[Len(q)],
           NEW m, m \in 1..Len(p), m < Len(p),
           NEW l, Either(l, p[Len(p)], q[Len(q)]), NEW l1, NEW l2, l = l1 \/ l = l2,
           NEW U, U.cuts = <<EdgeTo(g, p[m])>>, U.links = <<l>>, NEW f, f = Updated(g, U)
    PROVE  Makes(g, U, f, p[Len(p)], q[Len(q)], Upto(g, p, m), l1, l2)
  <1> DEFINE P == p[Len(p)]
             Q == q[Len(q)]
             k == p[m]
             X == Upto(g, p, m)
  <1>1. f = TryLink(TryCut(g, k), l[1], l[2])
    BY UpdatedOne DEF EdgeTo
  <1>2. 1 \in 1..Len(p) /\ Len(p) \in 1..Len(p) /\ 1 \in 1..Len(q) /\ Len(q) \in 1..Len(q) /\ m # 0
    BY DEF IsClimb
  <1>3. /\ P \in Vertices /\ Q \in Vertices /\ k \in Vertices /\ g[k] # NULL /\ RootOf(g, k) = P
        /\ RootOf(g, P) = P /\ RootOf(g, Q) = Q /\ P \notin Below(g, k)
    BY <1>2, UptoFacts
  <1>4. CutAndLink(g, P, Q, k, P, Q, l, f)
    BY <1>1, <1>3 DEF CutAndLink
  <1>5. X = PartWithout(g, P, k, P)
    <2>1. \A w \in Below(g, k) : w \in Vertices /\ RootOf(g, w) = P
        BY UptoFacts
    <2>2. X = Below(g, k)
        BY <1>2 DEF Upto
    <2> QED
        BY <2>1, <2>2, <1>3 DEF PartWithout
  <1> HIDE DEF X, P, Q, k
  <1>6. Makes(g, U, f, P, Q, X, l1, l2)
    BY <1>4, <1>5, OneCutMakes DEF k
  <1> QED
    BY <1>6 DEF X, P, Q

\* Two cuts below P, at places m and n, in either order.
LEMMA CutsUnderOne ==
    ASSUME NEW g, NEW p, NEW q, Rooted(g), IsClimb(g, p), IsClimb(g, q), p[Len(p)] # q[Len(q)],
           NEW m \in 1..Len(p), NEW n \in 1..Len(p), m < n, n < Len(p),
           NEW j, NEW k, (j = p[m] /\ k = p[n]) \/ (j = p[n] /\ k = p[m]),
           NEW l1, Either(l1, p[Len(p)], q[Len(q)]), NEW l2, Either(l2, p[1], q[1]),
           NEW U, U.cuts = <<EdgeTo(g, j), EdgeTo(g, k)>>, U.links = <<l1, l2>>, NEW f, f = Updated(g, U)
    PROVE  Makes(g, U, f, p[Len(p)], q[Len(q)], Upto(g, p, n) \ Upto(g, p, m), l1, l2)
  <1> DEFINE P == p[Len(p)]
             Q == q[Len(q)]
             lo == p[m]
             up == p[n]
             x == p[1]
             y == q[1]
             X == Upto(g, p, n) \ Upto(g, p, m)
             c == TryCut(TryCut(g, j), k)
             f1 == TryLink(c, l1[1], l1[2])
  <1>1. f = TryLink(f1, l2[1], l2[2])
    BY UpdatedTwo DEF EdgeTo
  <1>2. 1 \in 1..Len(p) /\ Len(p) \in 1..Len(p) /\ 1 \in 1..Len(q) /\ Len(q) \in 1..Len(q) /\ m # 0 /\ n # 0 /\ m < Len(p)
    BY DEF IsClimb
  <1>3. /\ P \in Vertices /\ Q \in Vertices /\ lo \in Vertices /\ g[lo] # NULL /\ up \in Vertices /\ g[up] # NULL
        /\ RootOf(g, up) = P /\ RootOf(g, P) = P /\ RootOf(g, Q) = Q
        /\ x \in Vertices /\ y \in Vertices /\ RootOf(g, y) = Q /\ x \in Below(g, lo)
        /\ lo \in Below(g, up) /\ lo # up /\ P \notin Below(g, lo)
    BY <1>2, UptoFacts
  <1>4. X = Below(g, up) \ Below(g, lo) /\ x # P
    BY <1>2, <1>3 DEF Upto
  <1>5. CutsInOneTree(g, P, Q, lo, up, x, y, j, k)
    BY <1>3 DEF CutsInOneTree
  <1>6. LinksBoth(g, P, Q, x, y, j, k, l1, l2, c, f1, f)
    BY <1>1, <1>3 DEF LinksBoth
  <1> HIDE DEF X, P, Q, lo, up, x, y, c, f1
  <1>7. Makes(g, U, f, P, Q, X, l1, l2)
    BY <1>4, <1>5, <1>6, TwoCutsMakeSame
  <1> QED
    BY <1>7 DEF X, P, Q

\* A cut at place m of p and one at place n of q.
LEMMA CutsUnderBoth ==
    ASSUME NEW g, NEW p, NEW q, Rooted(g), IsClimb(g, p), IsClimb(g, q), p[Len(p)] # q[Len(q)],
           NEW m \in 1..Len(p), m < Len(p), NEW n \in 1..Len(q), n < Len(q),
           NEW l1, Either(l1, p[Len(p)], q[Len(q)]), NEW l2, Either(l2, p[1], q[1]),
           NEW U, U.cuts = <<EdgeTo(g, p[m]), EdgeTo(g, q[n])>>, U.links = <<l1, l2>>, NEW f, f = Updated(g, U)
    PROVE  Makes(g, U, f, p[Len(p)], q[Len(q)],
                 Both(g, p[Len(p)], q[Len(q)]) \ (Upto(g, p, m) \cup Upto(g, q, n)), l1, l2)
  <1> DEFINE P == p[Len(p)]
             Q == q[Len(q)]
             j == p[m]
             k == q[n]
             x == p[1]
             y == q[1]
             X == Both(g, P, Q) \ (Upto(g, p, m) \cup Upto(g, q, n))
             c == TryCut(TryCut(g, j), k)
             f1 == TryLink(c, l1[1], l1[2])
  <1>1. f = TryLink(f1, l2[1], l2[2])
    BY UpdatedTwo DEF EdgeTo
  <1>2. 1 \in 1..Len(p) /\ Len(p) \in 1..Len(p) /\ 1 \in 1..Len(q) /\ Len(q) \in 1..Len(q) /\ m # 0 /\ n # 0
    BY DEF IsClimb
  <1>3. /\ P \in Vertices /\ Q \in Vertices /\ j \in Vertices /\ g[j] # NULL /\ k \in Vertices /\ g[k] # NULL
        /\ RootOf(g, j) = P /\ RootOf(g, k) = Q /\ RootOf(g, P) = P /\ RootOf(g, Q) = Q
        /\ x \in Vertices /\ y \in Vertices /\ x \in Below(g, j) /\ y \in Below(g, k) /\ P \notin Below(g, j)
    BY <1>2, UptoFacts
  <1>4. X = Both(g, P, Q) \ (Below(g, j) \cup Below(g, k)) /\ x # P
    BY <1>2, <1>3 DEF Upto
  <1>5. CutsInEitherTree(g, P, Q, x, y, j, k)
    BY <1>3 DEF CutsInEitherTree
  <1>6. LinksBoth(g, P, Q, x, y, j, k, l1, l2, c, f1, f)
    BY <1>1, <1>3 DEF LinksBoth
  <1>7. U.cuts = <<EdgeTo(g, j), EdgeTo(g, k)>>
    OBVIOUS
  <1> HIDE DEF X, P, Q, j, k, x, y, c, f1
  <1>8. Makes(g, U, f, P, Q, X, l1, l2)
    BY <1>4, <1>5, <1>6, <1>7, TwoCutsMakeApart
  <1> QED
    BY <1>8 DEF X, P, Q

\* In either order.
LEMMA EitherWay == ASSUME NEW l, NEW x, NEW y, Either(l, x, y) PROVE Either(l, y, x)
BY DEF Either

\* The update of two places on a cycle trades what hangs between them.
LEMMA UpdateMakes ==
    ASSUME NEW g, NEW p, NEW q, NEW i, NEW j, NEW l1, NEW l2, OnCycle(g, p, q, i, j, l1, l2),
           NEW c, c = CycleOf(g, p, q),
           NEW V, V = UpdateOf(EdgeAt(c, i), EdgeAt(c, j), l1, l2),
           NEW U, U.cuts = V.cuts, U.links = V.links, NEW f, f = Updated(g, U)
    PROVE  Makes(g, U, f, p[Len(p)], q[Len(q)], ArcOf(g, p, q, i, j), l1, l2)
  <1> DEFINE n1 == Len(p)
             n2 == Len(q)
             N == n1 + n2
             P == p[n1]
             Q == q[n2]
  <1>1. /\ IsCycle(g, p, q) /\ CutPlaces(p, q, i, j) /\ Either(l1, P, Q) /\ Either(l2, p[1], q[1])
        /\ Either(l1, Q, P) /\ Either(l2, q[1], p[1])
    BY EitherWay DEF OnCycle
  <1>2. /\ Rooted(g) /\ IsClimb(g, p) /\ IsClimb(g, q) /\ P # Q
        /\ n1 \in Nat /\ n1 >= 1 /\ n2 \in Nat /\ n2 >= 1
    BY <1>1, CycleEnds
  <1>3. i \in 1..N /\ j \in 1..N /\ i < j /\ ~(i = 1 /\ j = n1 + 1)
    BY <1>1 DEF CutPlaces
  <1>4. /\ i = n1 + 1 => U.cuts = <<EdgeAt(c, j)>> /\ U.links = <<l2>>
        /\ j = n1 + 1 => U.cuts = <<EdgeAt(c, i)>> /\ U.links = <<l2>>
        /\ i = 1 => U.cuts = <<EdgeAt(c, j)>> /\ U.links = <<l1>>
        /\ i # 1 /\ i # n1 + 1 /\ j # n1 + 1 =>
               U.cuts = <<EdgeAt(c, i), EdgeAt(c, j)>> /\ U.links = <<l1, l2>>
    <2>1. HasShape(c, p, i, j, l1, l2, V)
        BY UpdateShape
    <2> QED
        BY <2>1 DEF HasShape
  <1>5. \A h \in 1..N : h # 1 /\ h # n1 + 1 => EdgeAt(c, h) = EdgeTo(g, KidAt(p, q, h))
    BY <1>1, EdgeAtFacts
  <1>6. /\ Both(g, P, Q) = Upto(g, p, n1) \cup Upto(g, q, n2)
        /\ Upto(g, p, n1) \cap Upto(g, q, n2) = {}
        /\ Upto(g, p, 0) = {}
    BY <1>1, BothIs DEF Upto
  <1> DEFINE A == ArcOf(g, p, q, i, j)
  <1> USE <1>2
  <1>7. /\ j <= n1 + 1 => A = Upto(g, p, j - 1) \ Upto(g, p, i - 1)
        /\ ~(j <= n1 + 1) /\ i > n1 => A = Upto(g, q, N + 1 - i) \ Upto(g, q, N + 1 - j)
        /\ ~(j <= n1 + 1) /\ ~(i > n1) => A = Both(g, P, Q) \ (Upto(g, p, i - 1) \cup Upto(g, q, N + 1 - j))
    BY DEF ArcOf
  <1>8. /\ \A h \in 1..N : h <= n1 => KidAt(p, q, h) = p[h - 1]
        /\ \A h \in 1..N : h > n1 => KidAt(p, q, h) = q[N + 1 - h]
    BY DEF KidAt
  <1> HIDE DEF A
  <1> SUFFICES Makes(g, U, f, P, Q, A, l1, l2)
    BY DEF A
  <1>a. CASE i = n1 + 1
    <2> DEFINE m == N + 1 - j
    <2>1. m \in 1..n2 /\ m < n2 /\ j # 1 /\ j # n1 + 1 /\ j > n1 /\ N + 1 - i = n2 /\ ~(j <= n1 + 1) /\ i > n1
        BY <1>3, <1>a
    <2>2. U.cuts = <<EdgeTo(g, q[m])>> /\ U.links = <<l2>>
        BY <2>1, <1>3, <1>4, <1>5, <1>8, <1>a
    <2>3. A = Upto(g, q, n2) \ Upto(g, q, m)
        BY <2>1, <1>7
    <2> HIDE DEF m
    <2>4. Makes(g, U, f, Q, P, Upto(g, q, n2) \ Upto(g, q, m), l1, l2)
        BY <2>1, <2>2, <1>1, CutUnderStart
    <2> QED
        BY <2>3, <2>4, MakesEitherWay
  <1>b. CASE j = n1 + 1
    <2> DEFINE m == i - 1
    <2>1. m \in 1..n1 /\ m < n1 /\ i # 1 /\ i # n1 + 1 /\ i <= n1 /\ j - 1 = n1 /\ j <= n1 + 1
        BY <1>3, <1>b
    <2>2. U.cuts = <<EdgeTo(g, p[m])>> /\ U.links = <<l2>>
        BY <2>1, <1>3, <1>4, <1>5, <1>8, <1>b
    <2>3. A = Upto(g, p, n1) \ Upto(g, p, m)
        BY <2>1, <1>7
    <2> HIDE DEF m
    <2>4. Makes(g, U, f, P, Q, Upto(g, p, n1) \ Upto(g, p, m), l1, l2)
        BY <2>1, <2>2, <1>1, CutUnderStart
    <2> QED
        BY <2>3, <2>4
  <1>c. CASE i = 1 /\ j <= n1
    <2> DEFINE m == j - 1
    <2>1. m \in 1..n1 /\ m < n1 /\ j # 1 /\ j # n1 + 1 /\ j <= n1 + 1 /\ i - 1 = 0
        BY <1>3, <1>c
    <2>2. U.cuts = <<EdgeTo(g, p[m])>> /\ U.links = <<l1>>
        BY <2>1, <1>3, <1>4, <1>5, <1>8, <1>c
    <2>3. A = Upto(g, p, m)
        BY <2>1, <1>6, <1>7
    <2> HIDE DEF m
    <2>4. Makes(g, U, f, P, Q, Upto(g, p, m), l1, l2)
        BY <2>1, <2>2, <1>1, CutUnderRoot
    <2> QED
        BY <2>3, <2>4
  <1>d. CASE i = 1 /\ j > n1 + 1
    <2> DEFINE m == N + 1 - j
    <2>1. m \in 1..n2 /\ m < n2 /\ j # 1 /\ j # n1 + 1 /\ j > n1 /\ ~(j <= n1 + 1) /\ i - 1 = 0 /\ ~(i > n1)
        BY <1>3, <1>d
    <2>2. U.cuts = <<EdgeTo(g, q[m])>> /\ U.links = <<l1>>
        BY <2>1, <1>3, <1>4, <1>5, <1>8, <1>d
    <2>3. A = Both(g, P, Q) \ Upto(g, q, m)
        BY <2>1, <1>6, <1>7
    <2> HIDE DEF m
    <2>4. Makes(g, U, f, Q, P, Upto(g, q, m), l1, l2)
        BY <2>1, <2>2, <1>1, CutUnderRoot
    <2>5. Makes(g, U, f, P, Q, Upto(g, q, m), l1, l2)
        BY <2>4, MakesEitherWay
    <2> QED
        BY <2>3, <2>5, TradedOther DEF Makes
  <1>e. CASE i # 1 /\ j <= n1
    <2> DEFINE m == i - 1
               n == j - 1
    <2>1. /\ m \in 1..n1 /\ n \in 1..n1 /\ m < n /\ n < n1 /\ j # 1 /\ i # n1 + 1 /\ j # n1 + 1
          /\ i <= n1 /\ j <= n1 + 1
        BY <1>3, <1>e
    <2>2. U.cuts = <<EdgeTo(g, p[m]), EdgeTo(g, p[n])>> /\ U.links = <<l1, l2>>
        BY <2>1, <1>3, <1>4, <1>5, <1>8, <1>e
    <2>3. A = Upto(g, p, n) \ Upto(g, p, m)
        BY <2>1, <1>7
    <2> HIDE DEF m, n
    <2>4. Makes(g, U, f, P, Q, Upto(g, p, n) \ Upto(g, p, m), l1, l2)
        BY <2>1, <2>2, <1>1, CutsUnderOne
    <2> QED
        BY <2>3, <2>4
  <1>f. CASE i # 1 /\ i <= n1 /\ j > n1 + 1
    <2> DEFINE m == i - 1
               n == N + 1 - j
    <2>1. /\ m \in 1..n1 /\ m < n1 /\ n \in 1..n2 /\ n < n2 /\ j # 1 /\ i # n1 + 1 /\ j # n1 + 1
          /\ j > n1 /\ ~(j <= n1 + 1) /\ ~(i > n1)
        BY <1>3, <1>f
    <2>2. U.cuts = <<EdgeTo(g, p[m]), EdgeTo(g, q[n])>> /\ U.links = <<l1, l2>>
        BY <2>1, <1>3, <1>4, <1>5, <1>8, <1>f
    <2>3. A = Both(g, P, Q) \ (Upto(g, p, m) \cup Upto(g, q, n))
        BY <2>1, <1>7
    <2> HIDE DEF m, n
    <2>4. Makes(g, U, f, P, Q, Both(g, P, Q) \ (Upto(g, p, m) \cup Upto(g, q, n)), l1, l2)
        BY <2>1, <2>2, <1>1, CutsUnderBoth
    <2> QED
        BY <2>3, <2>4
  <1>g. CASE i > n1 + 1
    <2> DEFINE m == N + 1 - j
               n == N + 1 - i
    <2>1. /\ m \in 1..n2 /\ n \in 1..n2 /\ m < n /\ n < n2 /\ i # 1 /\ j # 1 /\ i # n1 + 1 /\ j # n1 + 1
          /\ i > n1 /\ j > n1 /\ ~(j <= n1 + 1)
        BY <1>3, <1>g
    <2>2. U.cuts = <<EdgeTo(g, q[n]), EdgeTo(g, q[m])>> /\ U.links = <<l1, l2>>
        BY <2>1, <1>3, <1>4, <1>5, <1>8, <1>g
    <2>3. A = Upto(g, q, n) \ Upto(g, q, m)
        BY <2>1, <1>7
    <2> HIDE DEF m, n
    <2>4. Makes(g, U, f, Q, P, Upto(g, q, n) \ Upto(g, q, m), l1, l2)
        BY <2>1, <2>2, <1>1, CutsUnderOne
    <2> QED
        BY <2>3, <2>4, MakesEitherWay
  <1>9. \/ i = n1 + 1 \/ j = n1 + 1 \/ (i = 1 /\ j <= n1) \/ (i = 1 /\ j > n1 + 1)
        \/ (i # 1 /\ j <= n1) \/ (i # 1 /\ i <= n1 /\ j > n1 + 1) \/ i > n1 + 1
    BY <1>3
  <1> QED
    BY <1>9, <1>a, <1>b, <1>c, <1>d, <1>e, <1>f, <1>g

---------------------------------------------------------------------------
(***************************************************************************)
(* Trees and districts                                                     *)
(***************************************************************************)
MapEdges == {{e[1], e[2]} : e \in Edges}

\* The trees of f are the districts of ids.
TreesAre(f, ids) == \A v, w \in Vertices : ids[v] = ids[w] <=> RootOf(f, v) = RootOf(f, w)

\* A root of every district is noted, or was one.
RootsIn(ids, roots) == roots \in [Regions -> Vertices] /\ \A d \in Regions : ids[roots[d]] = d

\* Trees of map edges that are the districts, each with a vertex noted.
TreesTell(f, ids, roots) ==
    /\ Rooted(f) /\ EdgesOf(f) \subseteq MapEdges
    /\ ids \in [Vertices -> Regions]
    /\ RootsIn(ids, roots)
    /\ TreesAre(f, ids)

\* Both directions of an edge of the map.
LEMMA AdjacentIs ==
    ASSUME WalkAssumption, NEW u, NEW v
    PROVE  Adjacent(u, v) <=> {u, v} \in MapEdges
  <1>1. \A e \in Edges : e = <<e[1], e[2]>>
    BY DEF WalkAssumption
  <1>2. ASSUME {u, v} \in MapEdges
        PROVE  Adjacent(u, v)
    <2>1. PICK e \in Edges : {u, v} = {e[1], e[2]}
        BY <1>2 DEF MapEdges
    <2>2. (u = e[1] /\ v = e[2]) \/ (u = e[2] /\ v = e[1])
        BY <2>1
    <2> QED
        BY <2>2, <1>1 DEF Adjacent
  <1>3. ASSUME Adjacent(u, v)
        PROVE  {u, v} \in MapEdges
    <2>1. CASE <<u, v>> \in Edges
        <3>1. <<u, v>>[1] = u /\ <<u, v>>[2] = v
            OBVIOUS
        <3> QED
            BY <2>1, <3>1 DEF MapEdges
    <2>2. CASE <<v, u>> \in Edges
        <3>1. <<v, u>>[1] = v /\ <<v, u>>[2] = u /\ {u, v} = {v, u}
            OBVIOUS
        <3> QED
            BY <2>2, <3>1 DEF MapEdges
    <2> QED
        BY <2>1, <2>2, <1>3 DEF Adjacent
  <1> QED
    BY <1>2, <1>3

\* Edges of the map are those to parents that are adjacent.
LEMMA EdgesOnMap ==
    ASSUME WalkAssumption, NEW f \in Parents
    PROVE  EdgesOf(f) \subseteq MapEdges <=> \A v \in Vertices : f[v] # NULL => Adjacent(v, f[v])
  <1>1. \A v \in Vertices : Adjacent(v, f[v]) <=> {v, f[v]} \in MapEdges
    BY AdjacentIs
  <1> QED
    BY <1>1 DEF EdgesOf

\* What TreesTell says is what the property asks of the trees.
LEMMA TreesSpan ==
    ASSUME WalkAssumption, NEW f, NEW ids, NEW roots, TreesTell(f, ids, roots)
    PROVE  /\ \A d \in Regions : Members(ids, d) = TreeOf(f, roots[d])
           /\ \A v \in Vertices : f[v] # NULL => Adjacent(v, f[v])
  <1>1. f \in Parents
    BY DEF TreesTell, Rooted
  <1>2. \A d \in Regions : Members(ids, d) = TreeOf(f, roots[d])
    BY DEF TreesTell, RootsIn, TreesAre, Members, TreeOf
  <1> QED
    BY <1>1, <1>2, EdgesOnMap DEF TreesTell

\* Other parents for the same edges tell the same.
LEMMA TreesKept ==
    ASSUME NEW f, NEW ids, NEW roots, TreesTell(f, ids, roots), NEW g, Rooted(g), EdgesOf(g) = EdgesOf(f)
    PROVE  TreesTell(g, ids, roots)
  <1>1. Rooted(f)
    BY DEF TreesTell
  <1>2. \A v, w \in Vertices : RootOf(f, v) = RootOf(f, w) => RootOf(g, v) = RootOf(g, w)
    BY <1>1, SameEdges
  <1>3. \A v, w \in Vertices : RootOf(g, v) = RootOf(g, w) => RootOf(f, v) = RootOf(f, w)
    BY <1>1, SameEdges
  <1> QED
    BY <1>2, <1>3 DEF TreesTell, TreesAre

\* So do everted trees.
LEMMA TreesEverted ==
    ASSUME NEW f, NEW ids, NEW roots, TreesTell(f, ids, roots), NEW u \in Vertices
    PROVE  TreesTell(Everted(f, u), ids, roots) /\ EdgesOf(Everted(f, u)) = EdgesOf(f)
  <1>1. Rooted(f)
    BY DEF TreesTell
  <1>2. Rooted(Everted(f, u)) /\ EdgesOf(Everted(f, u)) = EdgesOf(f)
    BY <1>1, EvertedFacts
  <1> QED
    BY <1>2, TreesKept

\* Another vertex of the district can be noted.
LEMMA RootMoved ==
    ASSUME NEW f, NEW ids, NEW roots, TreesTell(f, ids, roots),
           NEW v \in Vertices, NEW r \in Vertices, RootOf(f, r) = RootOf(f, v)
    PROVE  TreesTell(f, ids, [roots EXCEPT ![ids[v]] = r])
  <1>1. ids[r] = ids[v]
    BY DEF TreesTell, TreesAre
  <1> QED
    BY <1>1 DEF TreesTell, RootsIn

\* An edge of the map takes the place of one on the path between its ends.
LEMMA RewireTells ==
    ASSUME WalkAssumption, NEW f, NEW ids, NEW roots, TreesTell(f, ids, roots),
           NEW u \in Vertices, NEW v \in Vertices, f[u] = NULL, RootOf(f, v) = u, Adjacent(u, v),
           NEW i \in 1..Len(PathTo(f, v)) - 1
    PROVE  TreesTell(Rewire(f, u, v, i).forest, ids, [roots EXCEPT ![ids[v]] = Rewire(f, u, v, i).root])
  <1> DEFINE p == PathTo(f, v)
             k == p[i + 1]
             c == CutOff(f, k)
             g == Linked(c, u, v)
             r == RootOf(c, v)
  <1>1. Rooted(f) /\ EdgesOf(f) \subseteq MapEdges /\ ids \in [Vertices -> Regions] /\ TreesAre(f, ids) /\ RootsIn(ids, roots)
    BY DEF TreesTell
  <1>2. Rewire(f, u, v, i) = [forest |-> g, root |-> r]
    BY DEF Rewire
  <1>3. IsPath(f, p, v)
    BY <1>1, PathFacts
  <1>4. Len(p) \in Nat /\ i \in 1..Len(p) /\ i + 1 \in 1..Len(p) /\ i < i + 1 /\ i + 1 \in 2..Len(p) /\ Len(p) \in 1..Len(p)
        /\ 1 \in 1..Len(p) /\ 1 < i + 1 /\ i + 1 <= Len(p) /\ (i + 1) - 1 = i
    BY <1>3 DEF IsPath
  <1>5. /\ k \in Vertices /\ p[i] \in Vertices /\ p[1] \notin Below(f, k) /\ v \in Below(f, k)
        /\ RootOf(f, k) = p[1] /\ RootOf(f, v) = p[1]
    <2>1. /\ \A m \in 1..Len(p) : p[m] \in Vertices
          /\ \A m, n \in 1..Len(p) : m <= n => p[n] \in Below(f, p[m])
          /\ \A m, n \in 1..Len(p) : m < n => p[m] \notin Below(f, p[n]) /\ p[m] # p[n]
          /\ \A m \in 1..Len(p) : RootOf(f, p[m]) = p[1]
        BY <1>1, <1>3, PathBelow
    <2>2. p[Len(p)] = v
        BY <1>3 DEF IsPath
    <2> HIDE DEF p
    <2> QED
        BY <2>1, <2>2, <1>4
  <1>6. f[k] # NULL /\ p[1] = u
    <2>1. f[k] = p[i]
        BY <1>3, <1>4 DEF IsPath
    <2> QED
        BY <2>1, <1>5, VerticesAssumption
  <1> HIDE DEF k, p
  <1>7. /\ Rooted(c) /\ \A w \in Vertices : w # k => c[w] = f[w]
        /\ \A w \in Vertices : RootOf(c, w) = IF w \in Below(f, k) THEN k ELSE RootOf(f, w)
        /\ EdgesOf(c) = EdgesOf(f) \ {{k, f[k]}}
    BY <1>1, <1>5, <1>6, CutFacts
  <1>8. k \in Below(f, k) /\ \A w \in Below(f, k) : w \in Vertices /\ RootOf(f, w) = u
    BY <1>1, <1>5, <1>6, BelowFacts
  <1>9. c[u] = NULL /\ r = k /\ k # u /\ RootOf(c, u) = u /\ RootOf(f, u) = u
    BY <1>1, <1>5, <1>6, <1>7, <1>8, RootStep
  <1> HIDE DEF c
  <1>10. /\ Rooted(g)
         /\ \A w \in Vertices : RootOf(g, w) = IF RootOf(c, w) = u THEN RootOf(c, v) ELSE RootOf(c, w)
         /\ EdgesOf(g) = EdgesOf(c) \cup {{u, v}}
    BY <1>7, <1>9, LinkedFacts
  <1> HIDE DEF g
  <1>11. EdgesOf(g) \subseteq MapEdges
    <2>1. {u, v} \in MapEdges
        BY AdjacentIs
    <2> QED
        BY <2>1, <1>1, <1>7, <1>10
  <1>12. \A w \in Vertices : RootOf(g, w) = IF RootOf(f, w) = u THEN k ELSE RootOf(f, w)
    BY <1>7, <1>8, <1>9, <1>10
  <1>13. \A w \in Vertices : RootOf(f, w) = k => FALSE
    BY <1>1, <1>6, RootFacts
  <1>14. TreesAre(g, ids)
    BY <1>1, <1>12, <1>13 DEF TreesAre
  <1>15. TreesTell(g, ids, roots)
    BY <1>1, <1>10, <1>11, <1>14 DEF TreesTell
  <1>16. RootOf(g, r) = RootOf(g, v) /\ r \in Vertices
    BY <1>5, <1>6, <1>9, <1>12
  <1> HIDE DEF r
  <1> QED
    BY <1>2, <1>15, <1>16, RootMoved

\* P and Q are the roots of the trees of d1 and d2, in either order, and the links are
\* edges of the map.
BetweenDistricts(g, P, Q, d1, d2, l1, l2) ==
    /\ P \in Vertices /\ Q \in Vertices /\ RootOf(g, P) = P /\ RootOf(g, Q) = Q
    /\ d1 \in Regions /\ d2 \in Regions /\ d1 # d2
    /\ \/ region_ids[P] = d1 /\ region_ids[Q] = d2
       \/ region_ids[P] = d2 /\ region_ids[Q] = d1
    /\ HasEdge(MapEdges, l1[1], l1[2]) /\ HasEdge(MapEdges, l2[1], l2[2])

\* The two districts have shared out their vertices anew: one has those of X.
SharedOut(ids, X, d1, d2) ==
    LET all == Members(region_ids, d1) \cup Members(region_ids, d2)
    IN  /\ X \subseteq all
        /\ \/ Members(ids, d1) = X /\ Members(ids, d2) = all \ X
           \/ Members(ids, d2) = X /\ Members(ids, d1) = all \ X
        /\ \A d \in Regions : d # d1 /\ d # d2 => Members(ids, d) = Members(region_ids, d)

\* X has the root r in f, and what is left of the trees of P and Q the root s.
TwoRoots(g, f, P, Q, X, r, s) ==
    \A w \in Vertices : RootOf(f, w) = IF w \in X THEN r ELSE IF w \in Both(g, P, Q) THEN s ELSE RootOf(g, w)

\* The roots of f where g has those of P and Q.
AreRoots(g, f, P, Q, X, roots) ==
    /\ roots[1] \in Both(g, P, Q) /\ roots[2] \in Both(g, P, Q) /\ roots[1] # roots[2]
    /\ RootOf(f, roots[1]) = roots[1] /\ RootOf(f, roots[2]) = roots[2]
    /\ TwoRoots(g, f, P, Q, X, roots[1], roots[2]) \/ TwoRoots(g, f, P, Q, X, roots[2], roots[1])

\* After an update the roots that are noted are those of the two new trees.
LEMMA NewRootsAre ==
    ASSUME NEW g, NEW f, NEW P, NEW Q, NEW X, NEW U, Traded(g, f, P, Q, X, U.cuts[1]), NEW d1
    PROVE  AreRoots(g, f, P, Q, X, NewRoots(f, region_ids, U, d1))
  <1> DEFINE roots == NewRoots(f, region_ids, U, d1)
             B == Both(g, P, Q)
             a == U.cuts[1][1]
             b == U.cuts[1][2]
  <1>1. a \in B /\ b \in B /\ (a \in X <=> b \notin X) /\ X \subseteq B /\ B \subseteq Vertices
    BY DEF Traded, Both
  <1>2. PICK rx, ry \in B :
            /\ rx # ry
            /\ \A w \in Vertices : RootOf(f, w) = IF w \in X THEN rx ELSE IF w \in B THEN ry ELSE RootOf(g, w)
    BY DEF Traded
  <1>t. TwoRoots(g, f, P, Q, X, rx, ry) /\ Rooted(f)
    BY <1>2 DEF TwoRoots, Traded
  <1>r. RootOf(f, RootOf(f, a)) = RootOf(f, a) /\ RootOf(f, RootOf(f, b)) = RootOf(f, b)
    BY <1>t, <1>1, RootFacts
  <1>3. (RootOf(f, a) = rx /\ RootOf(f, b) = ry) \/ (RootOf(f, a) = ry /\ RootOf(f, b) = rx)
    BY <1>1, <1>2
  <1>4. roots = <<RootOf(f, a), RootOf(f, b)>> \/ roots = <<RootOf(f, b), RootOf(f, a)>>
    BY DEF NewRoots
  <1>5. (roots[1] = rx /\ roots[2] = ry) \/ (roots[1] = ry /\ roots[2] = rx)
    BY <1>3, <1>4
  <1> HIDE DEF roots, B
  <1>6. roots[1] \in B /\ roots[2] \in B /\ roots[1] # roots[2]
    BY <1>2, <1>5
  <1>7. TwoRoots(g, f, P, Q, X, roots[1], roots[2]) \/ TwoRoots(g, f, P, Q, X, roots[2], roots[1])
    BY <1>t, <1>5
  <1>8. RootOf(f, roots[1]) = roots[1] /\ RootOf(f, roots[2]) = roots[2]
    BY <1>r, <1>3, <1>5
  <1> QED
    BY <1>6, <1>7, <1>8 DEF roots, B, AreRoots

\* The update between two districts makes trees that are the new districts.
LEMMA UpdateTells ==
    ASSUME NEW g, NEW old, TreesTell(g, region_ids, old), NEW P, NEW Q, NEW d1, NEW d2, NEW l1, NEW l2,
           BetweenDistricts(g, P, Q, d1, d2, l1, l2),
           NEW U, NEW f, NEW X, Makes(g, U, f, P, Q, X, l1, l2),
           NEW roots, roots = NewRoots(f, region_ids, U, d1),
           NEW ids, ids = Reassigned(f, roots, d1, d2)
    PROVE  /\ TreesTell(f, ids, [old EXCEPT ![d1] = roots[1], ![d2] = roots[2]])
           /\ SharedOut(ids, X, d1, d2)
           /\ ids # region_ids
  <1> DEFINE B == Both(g, P, Q)
             r1 == roots[1]
             r2 == roots[2]
  <1>1. /\ Rooted(g) /\ EdgesOf(g) \subseteq MapEdges /\ region_ids \in [Vertices -> Regions]
        /\ RootsIn(region_ids, old) /\ TreesAre(g, region_ids)
    BY DEF TreesTell
  <1>2. /\ P \in Vertices /\ Q \in Vertices /\ RootOf(g, P) = P /\ RootOf(g, Q) = Q
        /\ d1 \in Regions /\ d2 \in Regions /\ d1 # d2
        /\ \/ region_ids[P] = d1 /\ region_ids[Q] = d2
           \/ region_ids[P] = d2 /\ region_ids[Q] = d1
    BY DEF BetweenDistricts
  <1>3. /\ Traded(g, f, P, Q, X, U.cuts[1]) /\ WithinTwo(EdgesOf(f), EdgesOf(g), l1, l2)
        /\ IsUpdate(g, U) /\ RootOf(f, U.links[1][1]) = RootOf(f, U.links[1][2])
    BY DEF Makes
  <1>4. Rooted(f) /\ X \subseteq B
    BY <1>3 DEF Traded
  <1>a. AreRoots(g, f, P, Q, X, roots)
    BY <1>3, NewRootsAre
  <1>5. /\ r1 \in B /\ r2 \in B /\ r1 # r2
        /\ \/ \A w \in Vertices : RootOf(f, w) = IF w \in X THEN r1 ELSE IF w \in B THEN r2 ELSE RootOf(g, w)
           \/ \A w \in Vertices : RootOf(f, w) = IF w \in X THEN r2 ELSE IF w \in B THEN r1 ELSE RootOf(g, w)
    BY <1>a DEF AreRoots, TwoRoots
  <1> HIDE DEF r1, r2
  <1>6. \A w \in Vertices : w \in B <=> region_ids[w] \in {d1, d2}
    BY <1>1, <1>2 DEF Both, TreesAre
  <1>7. B \subseteq Vertices /\ B = Members(region_ids, d1) \cup Members(region_ids, d2)
    BY <1>6 DEF Both, Members
  <1>8. \A w \in Vertices : w \notin B => RootOf(g, w) # r1 /\ RootOf(g, w) # r2
    <2> SUFFICES ASSUME NEW w \in Vertices, RootOf(g, w) = r1 \/ RootOf(g, w) = r2
                 PROVE  w \in B
        OBVIOUS
    <2>1. RootOf(g, RootOf(g, w)) = RootOf(g, w)
        BY <1>1, RootFacts
    <2> QED
        BY <2>1, <1>5 DEF Both
  <1>9. ids = [v \in Vertices |-> IF RootOf(f, v) = r1 THEN d1 ELSE IF RootOf(f, v) = r2 THEN d2 ELSE region_ids[v]]
    BY DEF Reassigned, r1, r2
  <1> HIDE DEF B
  <1>10. /\ \A w \in Vertices : w \in B <=> RootOf(f, w) \in {r1, r2}
         /\ \A w \in Vertices : w \notin B => RootOf(f, w) = RootOf(g, w)
    BY <1>4, <1>5, <1>8
  <1>11. ids \in [Vertices -> Regions]
    BY <1>1, <1>2, <1>9
  <1>12. TreesAre(f, ids)
    <2>1. \A w \in Vertices : w \in B => (ids[w] = d1 /\ RootOf(f, w) = r1) \/ (ids[w] = d2 /\ RootOf(f, w) = r2)
        BY <1>5, <1>9, <1>10
    <2>2. \A w \in Vertices : w \notin B => ids[w] = region_ids[w] /\ ids[w] # d1 /\ ids[w] # d2
        BY <1>6, <1>9, <1>10
    <2>3. ASSUME NEW v \in Vertices, NEW w \in Vertices
          PROVE  ids[v] = ids[w] <=> RootOf(f, v) = RootOf(f, w)
        <3>1. CASE v \in B /\ w \in B
            BY <2>1, <3>1, <1>2, <1>5
        <3>2. CASE v \notin B /\ w \notin B
            BY <2>2, <3>2, <1>1, <1>10 DEF TreesAre
        <3>3. CASE (v \in B) # (w \in B)
            BY <2>1, <2>2, <3>3, <1>10
        <3> QED
            BY <3>1, <3>2, <3>3
    <2> QED
        BY <2>3 DEF TreesAre
  <1>13. EdgesOf(f) \subseteq MapEdges
    BY <1>1, <1>3 DEF WithinTwo, WithEdge, HasEdge, BetweenDistricts
  <1>14. r1 \in Vertices /\ r2 \in Vertices /\ RootOf(f, r1) = r1 /\ RootOf(f, r2) = r2
    BY <1>a, <1>5, <1>7 DEF AreRoots, r1, r2
  <1> DEFINE new == [old EXCEPT ![d1] = r1, ![d2] = r2]
  <1>15. RootsIn(ids, new)
    <2>1. old \in [Regions -> Vertices] /\ \A d \in Regions : region_ids[old[d]] = d
        BY <1>1 DEF RootsIn
    <2>2. new \in [Regions -> Vertices]
        BY <2>1, <1>14
    <2>3. ids[r1] = d1 /\ ids[r2] = d2
        BY <1>5, <1>9, <1>14
    <2>4. ASSUME NEW d \in Regions
          PROVE  ids[new[d]] = d
        <3>1. CASE d = d1
            BY <2>1, <2>3, <3>1, <1>2
        <3>2. CASE d = d2
            BY <2>1, <2>3, <3>2, <1>2
        <3>3. CASE d # d1 /\ d # d2
            <4>1. new[d] = old[d] /\ old[d] \in Vertices /\ region_ids[old[d]] = d
                BY <2>1, <3>3
            <4>2. old[d] \notin B
                BY <4>1, <3>3, <1>6
            <4> QED
                BY <4>1, <4>2, <1>9, <1>10
        <3> QED
            BY <3>1, <3>2, <3>3
    <2> QED
        BY <2>2, <2>4 DEF RootsIn
  <1>16. TreesTell(f, ids, new)
    BY <1>4, <1>11, <1>12, <1>13, <1>15 DEF TreesTell
  <1>17. SharedOut(ids, X, d1, d2)
    <2> DEFINE all == Members(region_ids, d1) \cup Members(region_ids, d2)
    <2>1. X \subseteq all /\ all = B
        BY <1>4, <1>7
    <2>2. ASSUME NEW d \in Regions, d # d1, d # d2
          PROVE  Members(ids, d) = Members(region_ids, d)
        <3>1. \A w \in Vertices : ids[w] = d <=> region_ids[w] = d
            BY <2>2, <1>6, <1>9, <1>10
        <3> QED
            BY <3>1 DEF Members
    <2>3. \A w \in Vertices : (ids[w] = d1 <=> RootOf(f, w) = r1) /\ (ids[w] = d2 <=> RootOf(f, w) = r2)
        BY <1>2, <1>5, <1>6, <1>9, <1>10
    <2>4. \/ Members(ids, d1) = X /\ Members(ids, d2) = all \ X
          \/ Members(ids, d2) = X /\ Members(ids, d1) = all \ X
        <3>1. CASE \A w \in Vertices : RootOf(f, w) = IF w \in X THEN r1 ELSE IF w \in B THEN r2 ELSE RootOf(g, w)
            <4>1. \A w \in Vertices : (RootOf(f, w) = r1 <=> w \in X) /\ (RootOf(f, w) = r2 <=> w \in B /\ w \notin X)
                BY <3>1, <1>4, <1>5, <1>8
            <4>2. Members(ids, d1) = X /\ Members(ids, d2) = B \ X
                BY <4>1, <2>3, <1>4, <1>7 DEF Members
            <4> QED
                BY <4>2, <2>1
        <3>2. CASE \A w \in Vertices : RootOf(f, w) = IF w \in X THEN r2 ELSE IF w \in B THEN r1 ELSE RootOf(g, w)
            <4>1. \A w \in Vertices : (RootOf(f, w) = r2 <=> w \in X) /\ (RootOf(f, w) = r1 <=> w \in B /\ w \notin X)
                BY <3>2, <1>4, <1>5, <1>8
            <4>2. Members(ids, d2) = X /\ Members(ids, d1) = B \ X
                BY <4>1, <2>3, <1>4, <1>7 DEF Members
            <4> QED
                BY <4>2, <2>1
        <3> QED
            BY <3>1, <3>2, <1>5
    <2> QED
        BY <2>1, <2>2, <2>4 DEF SharedOut
  <1>18. ids # region_ids
    <2>1. PICK l : IsLink(g, l) /\ U.links[1] = l
        BY <1>3 DEF IsUpdate, OneCutUpdate, TwoCutUpdate
    <2>2. l[1] \in Vertices /\ l[2] \in Vertices /\ region_ids[l[1]] # region_ids[l[2]]
        BY <2>1, <1>1 DEF IsLink, TreesAre
    <2>3. ids[l[1]] = ids[l[2]]
        BY <2>1, <2>2, <1>3, <1>12 DEF TreesAre
    <2> QED
        BY <2>2, <2>3
  <1> QED
    BY <1>16, <1>17, <1>18 DEF r1, r2

---------------------------------------------------------------------------
(***************************************************************************)
(* Populations                                                             *)
(***************************************************************************)
\* PopOf totals.
LEMMA PopIs == \A S : PopOf(S) = Total(pop, S)
BY DEF PopOf, Total

\* Populations of vertices are numbers, and add up.
LEMMA PopFacts ==
    ASSUME WalkAssumption
    PROVE  /\ PopOf({}) = 0
           /\ \A S \in SUBSET Vertices : PopOf(S) \in Int
           /\ \A S, T \in SUBSET Vertices : S \cap T = {} => PopOf(S \cup T) = PopOf(S) + PopOf(T)
           /\ \A S, T \in SUBSET Vertices : S \subseteq T => PopOf(T \ S) = PopOf(T) - PopOf(S)
  <1>1. \A v \in Vertices : pop[v] \in Int
    BY DEF WalkAssumption
  <1>2. \A S \in SUBSET Vertices : IsFiniteSet(S)
    BY FS_Subset, VerticesAssumption
  <1>3. PopOf({}) = 0
    BY PopIs, TotalOfNone
  <1>4. \A S \in SUBSET Vertices : PopOf(S) \in Int
    <2> TAKE S \in SUBSET Vertices
    <2>1. Total(pop, S) \in Int
        BY <1>1, <1>2, TotalType
    <2> QED
        BY <2>1, PopIs
  <1>5. \A S, T \in SUBSET Vertices : S \cap T = {} => PopOf(S \cup T) = PopOf(S) + PopOf(T)
    <2> SUFFICES ASSUME NEW S \in SUBSET Vertices, NEW T \in SUBSET Vertices, S \cap T = {}
                 PROVE  PopOf(S \cup T) = PopOf(S) + PopOf(T)
        OBVIOUS
    <2>1. IsFiniteSet(S) /\ IsFiniteSet(T) /\ \A y \in S \cup T : pop[y] \in Int
        BY <1>1, <1>2
    <2>2. Total(pop, S \cup T) = Total(pop, S) + Total(pop, T)
        BY <2>1, TotalOfUnion
    <2> QED
        BY <2>2, PopIs
  <1>6. \A S, T \in SUBSET Vertices : S \subseteq T => PopOf(T \ S) = PopOf(T) - PopOf(S)
    <2> SUFFICES ASSUME NEW S \in SUBSET Vertices, NEW T \in SUBSET Vertices, S \subseteq T
                 PROVE  PopOf(T \ S) = PopOf(T) - PopOf(S)
        OBVIOUS
    <2> DEFINE D == T \ S
    <2>1. D \in SUBSET Vertices /\ D \cap S = {} /\ T = D \cup S
        OBVIOUS
    <2> HIDE DEF D
    <2>2. PopOf(D \cup S) = PopOf(D) + PopOf(S)
        BY <2>1, <1>5
    <2>3. PopOf(D) \in Int /\ PopOf(S) \in Int
        BY <2>1, <1>4
    <2>4. PopOf(D) = PopOf(T) - PopOf(S)
        BY <2>1, <2>2, <2>3
    <2> QED
        BY <2>4 DEF D
  <1> QED
    BY <1>3, <1>4, <1>5, <1>6

\* The population up to place r of the cycle: up along p, then down along q.
MarksOf(g, p, q) ==
    [r \in 0..Len(p) + Len(q) |->
        IF r <= Len(p) THEN PopOf(Upto(g, p, r))
        ELSE PopOf(Upto(g, p, Len(p))) + PopOf(Upto(g, q, Len(q))) - PopOf(Upto(g, q, Len(p) + Len(q) - r))]

\* Climbing on, more hangs below.
LEMMA UptoGrows ==
    ASSUME NEW g, Rooted(g), NEW p, IsClimb(g, p)
    PROVE  /\ \A m \in 0..Len(p) : Upto(g, p, m) \in SUBSET Vertices
           /\ \A m, n \in 0..Len(p) : m <= n => Upto(g, p, m) \subseteq Upto(g, p, n)
  <1>1. Len(p) \in Nat /\ \A m \in 0..Len(p) : m # 0 => m \in 1..Len(p)
    BY DEF IsClimb
  <1>2. \A m \in 0..Len(p) : Upto(g, p, m) \in SUBSET Vertices
    <2> SUFFICES ASSUME NEW m \in 0..Len(p), NEW w \in Upto(g, p, m)
                 PROVE  w \in Vertices
        OBVIOUS
    <2>1. m \in 1..Len(p) /\ w \in Below(g, p[m])
        BY <1>1 DEF Upto
    <2> QED
        BY <2>1, UptoFacts
  <1>3. \A m, n \in 0..Len(p) : m <= n => Upto(g, p, m) \subseteq Upto(g, p, n)
    <2> SUFFICES ASSUME NEW m \in 0..Len(p), NEW n \in 0..Len(p), m <= n, NEW w \in Upto(g, p, m)
                 PROVE  w \in Upto(g, p, n)
        OBVIOUS
    <2>1. m \in 1..Len(p) /\ n \in 1..Len(p) /\ n # 0 /\ w \in Below(g, p[m])
        BY <1>1 DEF Upto
    <2>2. p[m] \in Below(g, p[n]) /\ p[m] \in Vertices /\ p[n] \in Vertices
        BY <2>1 DEF IsClimb
    <2>3. w \in Below(g, p[n])
        BY <2>1, <2>2, BelowFacts
    <2> QED
        BY <2>1, <2>3 DEF Upto
  <1> QED
    BY <1>2, <1>3

\* The marks are numbers.
LEMMA MarksType ==
    ASSUME WalkAssumption, NEW g, NEW p, NEW q, IsCycle(g, p, q)
    PROVE  /\ MarksOf(g, p, q) \in [0..Len(p) + Len(q) -> Int]
           /\ \A m \in 0..Len(p) : PopOf(Upto(g, p, m)) \in Int
           /\ \A m \in 0..Len(q) : PopOf(Upto(g, q, m)) \in Int
  <1>1. Rooted(g) /\ IsClimb(g, p) /\ IsClimb(g, q) /\ Len(p) \in Nat /\ Len(q) \in Nat
    BY CycleEnds
  <1>2. /\ \A m \in 0..Len(p) : PopOf(Upto(g, p, m)) \in Int
        /\ \A m \in 0..Len(q) : PopOf(Upto(g, q, m)) \in Int
    BY <1>1, UptoGrows, PopFacts
  <1>3. ASSUME NEW r \in 0..Len(p) + Len(q)
        PROVE  MarksOf(g, p, q)[r] \in Int
    <2>1. CASE r <= Len(p)
        BY <1>1, <1>2, <2>1 DEF MarksOf
    <2>2. CASE ~(r <= Len(p))
        <3>1. Len(p) + Len(q) - r \in 0..Len(q) /\ Len(p) \in 0..Len(p) /\ Len(q) \in 0..Len(q)
            BY <1>1, <2>2
        <3> QED
            BY <3>1, <1>2, <2>2 DEF MarksOf
    <2> QED
        BY <2>1, <2>2
  <1> QED
    BY <1>2, <1>3 DEF MarksOf

\* What hangs between two places has the population between their marks.
LEMMA ArcPop ==
    ASSUME WalkAssumption, NEW g, NEW p, NEW q, IsCycle(g, p, q), NEW i, NEW j, CutPlaces(p, q, i, j)
    PROVE  /\ ArcOf(g, p, q, i, j) \in SUBSET Vertices
           /\ PopOf(ArcOf(g, p, q, i, j)) = MarksOf(g, p, q)[j - 1] - MarksOf(g, p, q)[i - 1]
  <1> DEFINE n1 == Len(p)
             n2 == Len(q)
             N == n1 + n2
             F(m) == Upto(g, p, m)
             G(m) == Upto(g, q, m)
             M == MarksOf(g, p, q)
             A == ArcOf(g, p, q, i, j)
             B == Both(g, p[n1], q[n2])
  <1>1. Rooted(g) /\ IsClimb(g, p) /\ IsClimb(g, q) /\ n1 \in Nat /\ n2 \in Nat /\ n1 >= 1 /\ n2 >= 1
    BY CycleEnds
  <1>2. i \in 1..N /\ j \in 1..N /\ i < j
    BY DEF CutPlaces
  <1>3. /\ \A m \in 0..n1 : F(m) \in SUBSET Vertices /\ PopOf(F(m)) \in Int
        /\ \A m \in 0..n2 : G(m) \in SUBSET Vertices /\ PopOf(G(m)) \in Int
        /\ \A m, n \in 0..n1 : m <= n => F(m) \subseteq F(n)
        /\ \A m, n \in 0..n2 : m <= n => G(m) \subseteq G(n)
    BY <1>1, UptoGrows, MarksType
  <1>4. \A r \in 0..N : M[r] = IF r <= n1 THEN PopOf(F(r)) ELSE PopOf(F(n1)) + PopOf(G(n2)) - PopOf(G(N - r))
    BY DEF MarksOf
  <1>5. /\ j <= n1 + 1 => A = F(j - 1) \ F(i - 1)
        /\ ~(j <= n1 + 1) /\ i > n1 => A = G(N + 1 - i) \ G(N + 1 - j)
        /\ ~(j <= n1 + 1) /\ ~(i > n1) => A = B \ (F(i - 1) \cup G(N + 1 - j))
    BY DEF ArcOf
  <1>6. B = F(n1) \cup G(n2) /\ F(n1) \cap G(n2) = {}
    BY BothIs
  <1> HIDE DEF F, G, M, A, B, N, n1, n2
  <1>n. N = n1 + n2
    BY DEF N
  <1>7. CASE j <= n1 + 1
    <2>1. j - 1 \in 0..n1 /\ i - 1 \in 0..n1 /\ j - 1 \in 0..N /\ i - 1 \in 0..N /\ i - 1 <= j - 1 /\ j - 1 <= n1 /\ i - 1 <= n1
        BY <1>1, <1>2, <1>7, <1>n
    <2>2. PopOf(A) = PopOf(F(j - 1)) - PopOf(F(i - 1)) /\ A \in SUBSET Vertices
        BY <2>1, <1>3, <1>5, <1>7, PopFacts
    <2> QED
        BY <2>1, <2>2, <1>4 DEF A, M
  <1>8. CASE ~(j <= n1 + 1) /\ i > n1
    <2>1. /\ N + 1 - i \in 0..n2 /\ N + 1 - j \in 0..n2 /\ N + 1 - j <= N + 1 - i
          /\ j - 1 \in 0..N /\ i - 1 \in 0..N /\ ~(j - 1 <= n1) /\ N - (j - 1) = N + 1 - j /\ N - (i - 1) = N + 1 - i
        BY <1>1, <1>2, <1>8, <1>n
    <2>2. PopOf(A) = PopOf(G(N + 1 - i)) - PopOf(G(N + 1 - j)) /\ A \in SUBSET Vertices
        BY <2>1, <1>3, <1>5, <1>8, PopFacts
    <2>3. M[j - 1] = PopOf(F(n1)) + PopOf(G(n2)) - PopOf(G(N + 1 - j))
        BY <2>1, <1>4
    <2>4. M[i - 1] = PopOf(F(n1)) + PopOf(G(n2)) - PopOf(G(N + 1 - i))
        <3>1. CASE i - 1 <= n1
            <4>1. i - 1 = n1 /\ N + 1 - i = n2 /\ n1 \in 0..n1 /\ n2 \in 0..n2
                BY <3>1, <1>1, <1>2, <1>8, <1>n
            <4>2. M[i - 1] = PopOf(F(n1)) /\ PopOf(F(n1)) \in Int /\ PopOf(G(n2)) \in Int
                BY <4>1, <2>1, <1>3, <1>4, <3>1
            <4> QED
                BY <4>1, <4>2
        <3>2. CASE ~(i - 1 <= n1)
            BY <3>2, <2>1, <1>4
        <3> QED
            BY <3>1, <3>2
    <2>5. n1 \in 0..n1 /\ n2 \in 0..n2
        BY <1>1
    <2>6. PopOf(F(n1)) \in Int /\ PopOf(G(n2)) \in Int /\ PopOf(G(N + 1 - j)) \in Int /\ PopOf(G(N + 1 - i)) \in Int
        BY <2>1, <2>5, <1>3
    <2>7. PopOf(A) = M[j - 1] - M[i - 1]
        BY <2>2, <2>3, <2>4, <2>6
    <2> QED
        BY <2>2, <2>7 DEF A, M
  <1>9. CASE ~(j <= n1 + 1) /\ ~(i > n1)
    <2> DEFINE S == F(i - 1)
               T == G(N + 1 - j)
    <2>1. /\ i - 1 \in 0..n1 /\ N + 1 - j \in 0..n2 /\ n1 \in 0..n1 /\ n2 \in 0..n2 /\ i - 1 <= n1 /\ N + 1 - j <= n2
          /\ j - 1 \in 0..N /\ i - 1 \in 0..N /\ ~(j - 1 <= n1) /\ N - (j - 1) = N + 1 - j
        BY <1>1, <1>2, <1>9, <1>n
    <2>2. /\ S \in SUBSET Vertices /\ T \in SUBSET Vertices /\ S \subseteq F(n1) /\ T \subseteq G(n2)
          /\ PopOf(S) \in Int /\ PopOf(T) \in Int /\ PopOf(F(n1)) \in Int /\ PopOf(G(n2)) \in Int
          /\ F(n1) \in SUBSET Vertices /\ G(n2) \in SUBSET Vertices
        BY <2>1, <1>3
    <2>3. A = B \ (S \cup T)
        BY <1>5, <1>9
    <2>4. M[i - 1] = PopOf(S) /\ M[j - 1] = PopOf(F(n1)) + PopOf(G(n2)) - PopOf(T)
        BY <2>1, <1>4
    <2> HIDE DEF S, T
    <2>5. S \cap T = {} /\ S \cup T \in SUBSET Vertices /\ B \in SUBSET Vertices /\ S \cup T \subseteq B
        BY <2>2, <1>6
    <2>6. PopOf(S \cup T) = PopOf(S) + PopOf(T) /\ PopOf(B) = PopOf(F(n1)) + PopOf(G(n2))
        BY <2>2, <2>5, <1>6, PopFacts
    <2>7. PopOf(A) = PopOf(B) - PopOf(S \cup T) /\ A \in SUBSET Vertices
        BY <2>3, <2>5, PopFacts
    <2>8. PopOf(A) = M[j - 1] - M[i - 1]
        BY <2>2, <2>4, <2>6, <2>7
    <2> QED
        BY <2>7, <2>8 DEF A, M
  <1> QED
    BY <1>7, <1>8, <1>9

\* The collapsed weights are the gaps between the marks.
LEMMA WeightsAre ==
    ASSUME WalkAssumption, NEW g, NEW p, NEW q, IsCycle(g, p, q), NEW c, c = CycleOf(g, p, q),
           NEW w, w = CollapsedWeights(c), NEW M, M = MarksOf(g, p, q)
    PROVE  /\ Len(w) = Len(p) + Len(q)
           /\ \A k \in 1..Len(p) + Len(q) : w[k] = M[k] - M[k - 1] /\ w[k] \in Int
  <1> DEFINE n1 == Len(p)
             n2 == Len(q)
             N == n1 + n2
             F(m) == PopOf(Upto(g, p, m))
             G(m) == PopOf(Upto(g, q, m))
  <1>1. n1 \in Nat /\ n2 \in Nat /\ n1 >= 1 /\ n2 >= 1
    BY CycleEnds
  <1>2. /\ \A m \in 0..n1 : F(m) \in Int
        /\ \A m \in 0..n2 : G(m) \in Int
        /\ M \in [0..N -> Int]
        /\ \A r \in 0..N : M[r] = IF r <= n1 THEN F(r) ELSE F(n1) + G(n2) - G(N - r)
    BY MarksType DEF MarksOf
  <1>3. c.rooted = g /\ c.path1 = p /\ c.path2 = q
    BY DEF CycleOf
  <1>4. F(0) = 0 /\ G(0) = 0
    BY PopFacts DEF Upto
  <1>5. /\ \A m \in 1..n1 : F(m) = PopOf(Below(g, p[m]))
        /\ \A m \in 1..n2 : G(m) = PopOf(Below(g, q[m]))
    BY <1>1 DEF Upto
  <1>6. /\ \A m \in 1..n1 : PopOf(Below(g, p[m])) - (IF m = 1 THEN 0 ELSE PopOf(Below(g, p[m - 1]))) = F(m) - F(m - 1)
        /\ \A m \in 1..n2 : PopOf(Below(g, q[m])) - (IF m = 1 THEN 0 ELSE PopOf(Below(g, q[m - 1]))) = G(m) - G(m - 1)
    <2>1. ASSUME NEW m \in 1..n1
          PROVE  PopOf(Below(g, p[m])) - (IF m = 1 THEN 0 ELSE PopOf(Below(g, p[m - 1]))) = F(m) - F(m - 1)
        <3>1. CASE m = 1
            BY <3>1, <1>4, <1>5
        <3>2. CASE m # 1
            <4>1. m - 1 \in 1..n1
                BY <3>2, <1>1
            <4> QED
                BY <4>1, <3>2, <1>5
        <3> QED
            BY <3>1, <3>2
    <2>2. ASSUME NEW m \in 1..n2
          PROVE  PopOf(Below(g, q[m])) - (IF m = 1 THEN 0 ELSE PopOf(Below(g, q[m - 1]))) = G(m) - G(m - 1)
        <3>1. CASE m = 1
            BY <3>1, <1>4, <1>5
        <3>2. CASE m # 1
            <4>1. m - 1 \in 1..n2
                BY <3>2, <1>1
            <4> QED
                BY <4>1, <3>2, <1>5
        <3> QED
            BY <3>1, <3>2
    <2> QED
        BY <2>1, <2>2
  <1> DEFINE v == [k \in 1..N |-> IF k <= n1 THEN F(k) - F(k - 1) ELSE G(N + 1 - k) - G(N - k)]
  <1>7. w = v
    <2> DEFINE a(k) == PopOf(Below(g, p[k])) - (IF k = 1 THEN 0 ELSE PopOf(Below(g, p[k - 1])))
               b(k) == PopOf(Below(g, q[k])) - (IF k = 1 THEN 0 ELSE PopOf(Below(g, q[k - 1])))
    <2>1. w = [k \in 1..N |-> IF k <= n1 THEN a(k) ELSE b(N + 1 - k)]
        BY <1>3 DEF CollapsedWeights
    <2>2. ASSUME NEW k \in 1..N
          PROVE  (IF k <= n1 THEN a(k) ELSE b(N + 1 - k)) = IF k <= n1 THEN F(k) - F(k - 1) ELSE G(N + 1 - k) - G(N - k)
        <3>1. CASE k <= n1
            <4>1. k \in 1..n1
                BY <3>1, <1>1
            <4> QED
                BY <3>1, <4>1, <1>6
        <3>2. CASE ~(k <= n1)
            <4>1. N + 1 - k \in 1..n2 /\ (N + 1 - k) - 1 = N - k
                BY <3>2, <1>1
            <4>2. b(N + 1 - k) = G(N + 1 - k) - G((N + 1 - k) - 1)
                BY <4>1, <1>6
            <4> QED
                BY <3>2, <4>1, <4>2
        <3> QED
            BY <3>1, <3>2
    <2> HIDE DEF a, b, F, G, N, n1
    <2> QED
        BY <2>1, <2>2 DEF v
  <1> HIDE DEF F, G
  <1>8. ASSUME NEW k \in 1..N
        PROVE  v[k] = M[k] - M[k - 1] /\ v[k] \in Int
    <2>0. k \in 0..N /\ k - 1 \in 0..N
        BY <1>1
    <2>1. CASE k <= n1
        <3>1. k - 1 <= n1 /\ k \in 0..n1 /\ k - 1 \in 0..n1
            BY <2>1, <1>1
        <3>2. M[k] = F(k) /\ M[k - 1] = F(k - 1)
            BY <2>0, <2>1, <3>1, <1>2
        <3>3. F(k) \in Int /\ F(k - 1) \in Int
            BY <3>1, <1>2
        <3>4. v[k] = F(k) - F(k - 1)
            BY <2>1
        <3> QED
            BY <3>2, <3>3, <3>4
    <2>2. CASE ~(k <= n1)
        <3>1. N + 1 - k \in 0..n2 /\ N - k \in 0..n2 /\ N - (k - 1) = N + 1 - k /\ n1 \in 0..n1 /\ n2 \in 0..n2
            BY <2>2, <1>1
        <3>2. F(n1) \in Int /\ G(n2) \in Int /\ G(N + 1 - k) \in Int /\ G(N - k) \in Int
            BY <3>1, <1>2
        <3>3. M[k] = F(n1) + G(n2) - G(N - k)
            BY <2>0, <2>2, <1>2
        <3>4. M[k - 1] = F(n1) + G(n2) - G(N + 1 - k)
            <4>1. CASE k - 1 <= n1
                <5>1. k - 1 = n1 /\ N + 1 - k = n2
                    BY <4>1, <2>2, <1>1
                <5>2. M[k - 1] = F(n1)
                    BY <5>1, <2>0, <1>2, <4>1
                <5> QED
                    BY <5>1, <5>2, <3>2
            <4>2. CASE ~(k - 1 <= n1)
                BY <4>2, <2>0, <3>1, <1>2
            <4> QED
                BY <4>1, <4>2
        <3>5. v[k] = G(N + 1 - k) - G(N - k)
            BY <2>2
        <3> QED
            BY <3>2, <3>3, <3>4, <3>5
    <2> QED
        BY <2>1, <2>2
  <1>9. Len(v) = N
    <2> HIDE DEF v, N
    <2>1. v \in [1..N -> Int] /\ N \in Nat
        BY <1>8, <1>1 DEF v, N
    <2>2. v \in Seq(Int)
        BY <2>1
    <2> QED
        BY <2>1, <2>2
  <1> HIDE DEF v
  <1> QED
    BY <1>7, <1>8, <1>9

\* Gaps between marks sum to the way from the one to the other.
LEMMA SumIs ==
    ASSUME NEW w, NEW M, NEW from \in Nat, NEW to \in Nat, 1 <= from, from <= to,
           \A k \in from..to : w[k] = M[k] - M[k - 1] /\ w[k] \in Int,
           \A k \in from - 1..to : M[k] \in Int
    PROVE  SumFromTo(w, from, to) = M[to] - M[from - 1]
  <1> DEFINE n == to - from + 1
             h == [r \in 0..n - 1 |-> from + r]
             f == [r \in 0..n - 1 |-> w[from + r]]
             m == [r \in 0..n |-> M[from - 1 + r]]
  <1>1. n \in Nat /\ n >= 1
    OBVIOUS
  <1>2. \A r \in 0..n : m[r] \in Int
    OBVIOUS
  <1>3. \A r \in 0..n - 1 : f[r] = m[r + 1] - m[r]
    <2> SUFFICES ASSUME NEW r \in 0..n - 1
                 PROVE  f[r] = m[r + 1] - m[r]
        OBVIOUS
    <2>1. from + r \in from..to /\ r + 1 \in 0..n /\ r \in 0..n /\ (from + r) - 1 = from - 1 + r /\ from - 1 + (r + 1) = from + r
        OBVIOUS
    <2>2. w[from + r] = M[from + r] - M[(from + r) - 1]
        BY <2>1
    <2>3. m[r + 1] = M[from - 1 + (r + 1)] /\ m[r] = M[from - 1 + r] /\ f[r] = w[from + r]
        BY <2>1
    <2> HIDE DEF m, f, n
    <2> QED
        BY <2>1, <2>2, <2>3
  <1>4. \A x, y \in 0..n - 1 : h[x] = h[y] => x = y
    OBVIOUS
  <1>5. \A x \in 0..n - 1 : f[x] = w[h[x]] /\ f[x] \in Int
    <2> SUFFICES ASSUME NEW x \in 0..n - 1
                 PROVE  f[x] = w[h[x]] /\ f[x] \in Int
        OBVIOUS
    <2>1. from + x \in from..to /\ h[x] = from + x /\ f[x] = w[from + x]
        OBVIOUS
    <2> QED
        BY <2>1
  <1>6. {h[x] : x \in 0..n - 1} = from..to
    <2>1. ASSUME NEW k \in from..to
          PROVE  \E x \in 0..n - 1 : h[x] = k
        <3>1. k - from \in 0..n - 1 /\ h[k - from] = k
            OBVIOUS
        <3> QED
            BY <3>1
    <2>2. \A x \in 0..n - 1 : h[x] \in from..to
        OBVIOUS
    <2> HIDE DEF h, n
    <2> QED
        BY <2>1, <2>2
  <1>7. m[n] = M[to] /\ m[0] = M[from - 1]
    OBVIOUS
  <1>8. IsFiniteSet(0..n - 1)
    BY <1>1, FS_Interval
  <1>9. SumFromTo(w, from, to) = Total(w, from..to)
    BY DEF SumFromTo, Total
  <1> HIDE DEF n, h, f, m
  <1>10. Total(f, 0..n - 1) = m[n] - m[0]
    BY <1>1, <1>2, <1>3, TotalOfGaps
  <1> DEFINE S == 0..n - 1
  <1>11. Total(f, S) = Total(w, {h[x] : x \in S})
    <2>1. IsFiniteSet(S) /\ (\A x, y \in S : h[x] = h[y] => x = y) /\ (\A x \in S : f[x] = w[h[x]] /\ f[x] \in Int)
        BY <1>4, <1>5, <1>8
    <2> HIDE DEF S
    <2> QED
        BY <2>1, TotalOfImage
  <1> QED
    BY <1>6, <1>7, <1>9, <1>10, <1>11

\* The first of two arcs has the population that is checked against the bounds.
LEMMA ArcPopIsSum ==
    ASSUME WalkAssumption, NEW g, NEW p, NEW q, IsCycle(g, p, q), NEW c, c = CycleOf(g, p, q),
           NEW i, NEW j, CutPlaces(p, q, i, j)
    PROVE  PopOf(ArcOf(g, p, q, i, j)) = SumFromTo(CollapsedWeights(c), i, j - 1)
  <1> DEFINE N == Len(p) + Len(q)
             w == CollapsedWeights(c)
             M == MarksOf(g, p, q)
  <1>1. i \in 1..N /\ j \in 1..N /\ i < j /\ N \in Nat
    BY CycleEnds DEF CutPlaces
  <1>2. \A k \in 1..N : w[k] = M[k] - M[k - 1] /\ w[k] \in Int
    BY WeightsAre
  <1>3. M \in [0..N -> Int]
    BY MarksType
  <1>4. PopOf(ArcOf(g, p, q, i, j)) = M[j - 1] - M[i - 1]
    BY ArcPop
  <1> HIDE DEF w, M, N
  <1>5. i \in Nat /\ j - 1 \in Nat /\ 1 <= i /\ i <= j - 1
    BY <1>1
  <1>6. \A k \in i..j - 1 : k \in 1..N
    BY <1>1
  <1>7. \A k \in i - 1..j - 1 : k \in 0..N
    BY <1>1
  <1>8. \A k \in i..j - 1 : w[k] = M[k] - M[k - 1] /\ w[k] \in Int
    BY <1>2, <1>6
  <1>9. \A k \in i - 1..j - 1 : M[k] \in Int
    BY <1>3, <1>7
  <1>10. SumFromTo(w, i, j - 1) = M[j - 1] - M[i - 1]
    BY <1>5, <1>8, <1>9, SumIs
  <1> QED
    BY <1>4, <1>10 DEF w

---------------------------------------------------------------------------
(***************************************************************************)
(* The cycle two crossing edges close                                      *)
(***************************************************************************)
\* e goes from the one district to the other.
Crosses(e, d1, d2) ==
    /\ e \in Edges
    /\ \/ region_ids[e[1]] = d1 /\ region_ids[e[2]] = d2
       \/ region_ids[e[1]] = d2 /\ region_ids[e[2]] = d1

\* The crossing edges of a pair join the lower district of the pair and the higher.
LEMMA PairCrosses ==
    ASSUME WalkAssumption, region_ids \in [Vertices -> Regions], cross_edges = CrossEdges(region_ids),
           NEW pair \in DOMAIN cross_edges, NEW d1, d1 = Min(pair), NEW d2, d2 = Max(pair)
    PROVE  /\ d1 \in Regions /\ d2 \in Regions /\ d1 # d2
           /\ \A e \in cross_edges[pair] : Crosses(e, d1, d2)
  <1> DEFINE crossing == {e \in Edges : region_ids[e[1]] # region_ids[e[2]]}
             sides(e) == {region_ids[e[1]], region_ids[e[2]]}
  <1>1. cross_edges = [x \in {sides(e) : e \in crossing} |-> {e \in crossing : sides(e) = x}]
    BY DEF CrossEdges
  <1>2. PICK o \in crossing : pair = sides(o)
    BY <1>1
  <1> DEFINE a == region_ids[o[1]]
             b == region_ids[o[2]]
  <1>3. a \in Regions /\ b \in Regions /\ a # b /\ a \in Int /\ b \in Int /\ pair = {a, b}
    BY <1>2 DEF WalkAssumption
  <1> HIDE DEF a, b
  <1>4. d1 = IF a < b THEN a ELSE b
    <2>1. \E x \in pair : \A y \in pair : x <= y
        BY <1>3
    <2>2. d1 \in pair /\ \A y \in pair : d1 <= y
        BY <2>1 DEF Min
    <2> QED
        BY <2>2, <1>3
  <1>5. d2 = IF a < b THEN b ELSE a
    <2>1. \E x \in pair : \A y \in pair : x >= y
        BY <1>3
    <2>2. d2 \in pair /\ \A y \in pair : d2 >= y
        BY <2>1 DEF Max
    <2> QED
        BY <2>2, <1>3
  <1>6. {d1, d2} = pair /\ d1 # d2
    BY <1>3, <1>4, <1>5
  <1>7. ASSUME NEW e \in cross_edges[pair]
        PROVE  Crosses(e, d1, d2)
    <2>1. e \in Edges /\ region_ids[e[1]] # region_ids[e[2]] /\ {region_ids[e[1]], region_ids[e[2]]} = pair
        BY <1>1
    <2> QED
        BY <2>1, <1>6 DEF Crosses
  <1> QED
    BY <1>3, <1>4, <1>5, <1>7

\* What is known of the cycle of two crossing edges.
CycleKnown(f, c, roots, e1, e2, d1, d2) ==
    LET g == c.rooted
        p == c.path1
        q == c.path2
        l1 == From(e1, region_ids, d1)
        l2 == From(e2, region_ids, d1)
    IN  /\ c = CycleOf(g, p, q) /\ IsCycle(g, p, q)
        /\ TreesTell(g, region_ids, roots) /\ EdgesOf(g) = EdgesOf(f)
        /\ Either(l1, p[Len(p)], q[Len(q)]) /\ Either(l2, p[1], q[1])
        /\ BetweenDistricts(g, p[Len(p)], q[Len(q)], d1, d2, l1, l2)

\* The two edges close a cycle with the paths between their ends.
LEMMA PickedCycle ==
    ASSUME WalkAssumption, NEW f, NEW roots, TreesTell(f, region_ids, roots),
           NEW d1 \in Regions, NEW d2 \in Regions, d1 # d2,
           NEW e1, NEW e2, e1 # e2, Crosses(e1, d1, d2), Crosses(e2, d1, d2)
    PROVE  CycleKnown(f, CyclePaths(f, region_ids, e1, e2), roots, e1, e2, d1, d2)
  <1> DEFINE u1 == e1[1]
             v1 == e1[2]
             same == region_ids[e2[1]] = region_ids[u1]
             u2 == IF same THEN e2[1] ELSE e2[2]
             v2 == IF same THEN e2[2] ELSE e2[1]
             h == Everted(f, u1)
             g == Everted(h, v1)
             p == Reverse(PathTo(g, u2))
             q == Reverse(PathTo(g, v2))
             l1 == From(e1, region_ids, d1)
             l2 == From(e2, region_ids, d1)
  <1>1. CyclePaths(f, region_ids, e1, e2) = CycleOf(g, p, q)
    BY DEF CyclePaths, CycleOf
  <1>2. /\ e1 \in Vertices \X Vertices /\ e2 \in Vertices \X Vertices /\ e1[1] < e1[2] /\ e2[1] < e2[2]
        /\ Vertices \subseteq Int
    BY DEF WalkAssumption, Crosses
  <1>3. /\ u1 \in Vertices /\ v1 \in Vertices /\ u2 \in Vertices /\ v2 \in Vertices
        /\ e1 = <<u1, v1>> /\ (e2 = <<u2, v2>> \/ e2 = <<v2, u2>>)
    BY <1>2
  <1>4. /\ region_ids[u2] = region_ids[u1] /\ region_ids[v2] = region_ids[v1] /\ region_ids[u1] # region_ids[v1]
        /\ (region_ids[u1] = d1 /\ region_ids[v1] = d2) \/ (region_ids[u1] = d2 /\ region_ids[v1] = d1)
    BY DEF Crosses
  <1>5. u2 # u1 \/ v2 # v1
    <2>1. ASSUME u2 = u1, v2 = v1
          PROVE  FALSE
        <3>1. e2 = <<u1, v1>> \/ e2 = <<v1, u1>>
            BY <2>1, <1>3
        <3>2. e2 = <<v1, u1>>
            BY <3>1, <1>3
        <3>3. v1 < u1 /\ u1 < v1 /\ u1 \in Int /\ v1 \in Int
            BY <3>2, <1>2, <1>3
        <3> HIDE DEF u1, v1
        <3> QED
            BY <3>3
    <2> QED
        BY <2>1
  <1>l. /\ Either(l1, u1, v1) /\ Either(l2, u2, v2)
        /\ HasEdge(MapEdges, l1[1], l1[2]) /\ HasEdge(MapEdges, l2[1], l2[2])
    <2>1. l1 = <<e1[1], e1[2]>> \/ l1 = <<e1[2], e1[1]>>
        BY <1>2 DEF From
    <2>2. l2 = <<e2[1], e2[2]>> \/ l2 = <<e2[2], e2[1]>>
        BY <1>2 DEF From
    <2>3. {e1[1], e1[2]} \in MapEdges /\ {e2[1], e2[2]} \in MapEdges
        BY DEF Crosses, MapEdges
    <2>4. {l1[1], l1[2]} = {e1[1], e1[2]} /\ {l2[1], l2[2]} = {e2[1], e2[2]}
        BY <2>1, <2>2
    <2>5. Either(l2, u2, v2)
        BY <2>2, <1>3 DEF Either
    <2> QED
        BY <2>1, <2>3, <2>4, <2>5 DEF Either, HasEdge
  <1> HIDE DEF u1, v1, u2, v2, l1, l2, same
  <1>6. TreesTell(h, region_ids, roots) /\ EdgesOf(h) = EdgesOf(f)
    BY <1>3, TreesEverted
  <1> HIDE DEF h
  <1>7. TreesTell(g, region_ids, roots) /\ EdgesOf(g) = EdgesOf(f)
    BY <1>3, <1>6, TreesEverted
  <1>8. Rooted(h) /\ Rooted(g) /\ TreesAre(g, region_ids) /\ TreesAre(h, region_ids)
    BY <1>6, <1>7 DEF TreesTell
  <1>9. RootOf(g, v1) = v1 /\ RootOf(g, u1) = u1
    <2>1. Rooted(f) /\ TreesAre(f, region_ids)
        BY DEF TreesTell
    <2>2. RootOf(h, u1) = u1
        BY <2>1, <1>3, EvertedFacts DEF h
    <2>3. \A w \in Vertices : RootOf(g, w) = IF RootOf(h, w) = RootOf(h, v1) THEN v1 ELSE RootOf(h, w)
        BY <1>3, <1>8, EvertedFacts
    <2>4. RootOf(h, u1) # RootOf(h, v1)
        BY <1>3, <1>4, <1>8 DEF TreesAre
    <2> QED
        BY <2>2, <2>3, <2>4, <1>3
  <1>10. RootOf(g, u2) = u1 /\ RootOf(g, v2) = v1 /\ u1 # v1
    BY <1>3, <1>4, <1>8, <1>9 DEF TreesAre
  <1> HIDE DEF g
  <1>11. /\ IsClimb(g, p) /\ p[1] = u2 /\ p[Len(p)] = u1
         /\ IsClimb(g, q) /\ q[1] = v2 /\ q[Len(q)] = v1
    BY <1>3, <1>8, <1>10, ReversedPathClimbs
  <1> HIDE DEF p, q
  <1>12. Len(p) > 1 \/ Len(q) > 1
    <2>1. Len(p) \in Nat /\ Len(p) >= 1 /\ Len(q) \in Nat /\ Len(q) >= 1
        BY <1>11 DEF IsClimb
    <2>2. Len(p) # 1 \/ Len(q) # 1
        BY <1>5, <1>11
    <2> DEFINE m == Len(p)
               n == Len(q)
    <2>3. m \in Nat /\ m >= 1 /\ n \in Nat /\ n >= 1 /\ (m # 1 \/ n # 1)
        BY <2>1, <2>2
    <2> HIDE DEF m, n
    <2>4. m > 1 \/ n > 1
        BY <2>3
    <2> QED
        BY <2>4 DEF m, n
  <1>13. IsCycle(g, p, q)
    BY <1>8, <1>10, <1>11, <1>12 DEF IsCycle
  <1>14. BetweenDistricts(g, u1, v1, d1, d2, l1, l2)
    BY <1>3, <1>4, <1>9, <1>l DEF BetweenDistricts
  <1> DEFINE c == CycleOf(g, p, q)
  <1>15. c.rooted = g /\ c.path1 = p /\ c.path2 = q
    BY DEF CycleOf
  <1> HIDE DEF c
  <1>16. CycleKnown(f, c, roots, e1, e2, d1, d2)
    BY <1>7, <1>11, <1>13, <1>14, <1>15, <1>l DEF CycleKnown, c, l1, l2
  <1> QED
    BY <1>1, <1>16 DEF c

\* The populations on both sides of two cuts, in one of the two ways to assign them.
SidesFit(pop1, total, d1, d2) ==
    \/ InBounds(pop1, d1) /\ InBounds(total - pop1, d2)
    \/ InBounds(pop1, d2) /\ InBounds(total - pop1, d1)

\* Valid cuts are two places on the cycle, and what is between them and the rest fits.
LEMMA ValidCutsAre ==
    ASSUME WalkAssumption, NEW g, NEW p, NEW q, IsCycle(g, p, q), NEW c, c = CycleOf(g, p, q),
           NEW d1, NEW d2, NEW cuts \in ValidCuts(c, d1, d2)
    PROVE  /\ CutPlaces(p, q, cuts[1], cuts[2] + 1)
           /\ SidesFit(PopOf(ArcOf(g, p, q, cuts[1], cuts[2] + 1)), region_pops[d1] + region_pops[d2], d1, d2)
  <1> DEFINE w == CollapsedWeights(c)
             N == Len(p) + Len(q)
             total == region_pops[d1] + region_pops[d2]
             pop1 == SumFromTo(w, cuts[1], cuts[2])
  <1>1. Len(w) = N /\ c.path1 = p /\ Len(p) \in Nat /\ Len(q) \in Nat /\ Len(p) >= 1 /\ N \in Nat
    BY WeightsAre, CycleEnds DEF CycleOf
  <1>2. /\ cuts \in (1..Len(w)) \X (1..Len(w) - 1)
        /\ cuts[1] <= cuts[2] /\ cuts # <<1, Len(c.path1)>>
        /\ \/ InBounds(pop1, d1) /\ InBounds(total - pop1, d2)
           \/ InBounds(pop1, d2) /\ InBounds(total - pop1, d1)
    BY DEF ValidCuts, find_valid_cut_pairs
  <1> HIDE DEF w
  <1>3. cuts[1] \in 1..N /\ cuts[2] \in 1..N - 1 /\ cuts = <<cuts[1], cuts[2]>> /\ cuts[1] <= cuts[2]
    BY <1>1, <1>2
  <1>4. ~(cuts[1] = 1 /\ cuts[2] = Len(p))
    BY <1>1, <1>2, <1>3
  <1>5. CutPlaces(p, q, cuts[1], cuts[2] + 1)
    BY <1>1, <1>3, <1>4 DEF CutPlaces
  <1>6. PopOf(ArcOf(g, p, q, cuts[1], cuts[2] + 1)) = pop1
    <2>1. (cuts[2] + 1) - 1 = cuts[2]
        BY <1>1, <1>3
    <2>2. PopOf(ArcOf(g, p, q, cuts[1], cuts[2] + 1)) = SumFromTo(CollapsedWeights(c), cuts[1], (cuts[2] + 1) - 1)
        BY <1>5, ArcPopIsSum
    <2> QED
        BY <2>1, <2>2 DEF w
  <1> QED
    BY <1>2, <1>5, <1>6 DEF SidesFit

---------------------------------------------------------------------------
(***************************************************************************)
(* The edges of a cycle, and what parts of the trees they are around       *)
(***************************************************************************)
---------------------------------------------------------------------------
(***************************************************************************)
(* The cuts of a cycle, told without the cycle                             *)
(*                                                                         *)
(* The move back walks another cycle: other trees, other paths, other      *)
(* positions.  What both see is one graph, the two trees with the links.   *)
(* The pairs of edges that can be cut are told from that graph alone.      *)
(***************************************************************************)
\* An edge with an end in K and an end outside.
Straddles(e, K) == (\E a \in e : a \in K) /\ (\E b \in e : b \notin K)

\* The edges around K.
RimOf(G, K) == {e \in G : Straddles(e, K)}

\* No part of V is held by the edge x alone.
OnSomeCycle(G, V, x) == \A K \in SUBSET V : RimOf(G, K) # {x}

\* Two edges of a cycle around a part of V, and the part and the rest fit.
IsFitting(G, V, total, d1, d2, X) ==
    /\ \E x, y \in G : x # y /\ X = {x, y}
    /\ \A x \in X : OnSomeCycle(G, V, x)
    /\ \E K \in SUBSET V : RimOf(G, K) = X /\ SidesFit(PopOf(K), total, d1, d2)

\* What is in one of the two sets only.
OneOf(S, T) == (S \ T) \cup (T \ S)

\* An edge of two vertices, around what is in one of two sets only.
LEMMA StraddlesOneOf ==
    ASSUME NEW a, NEW b, NEW S, NEW T
    PROVE  Straddles({a, b}, OneOf(S, T)) <=> ~(Straddles({a, b}, S) <=> Straddles({a, b}, T))
BY DEF Straddles, OneOf

\* Which edges have an end on either side.
LEMMA StraddlesIs ==
    ASSUME NEW a, NEW b, NEW S
    PROVE  Straddles({a, b}, S) <=> ~(a \in S <=> b \in S)
BY DEF Straddles

\* No edge of a tree has an end on either side of S.
Uncut(g, S) == \A v \in Vertices : g[v] # NULL => (v \in S <=> g[v] \in S)

\* Then S holds every tree whole or not at all.
LEMMA WholeTrees ==
    ASSUME NEW g, Rooted(g), NEW S, Uncut(g, S)
    PROVE  \A v \in Vertices : v \in S <=> RootOf(g, v) \in S
  <1> DEFINE D == {v \in Vertices : v \in S <=> RootOf(g, v) \in S}
  <1>1. ASSUME NEW v \in Vertices, g[v] = NULL \/ g[v] \in D
        PROVE  v \in D
    <2>1. RootOf(g, v) = IF g[v] = NULL THEN v ELSE RootOf(g, g[v])
        BY RootStep
    <2> QED
        BY <1>1, <2>1 DEF Uncut
  <1> HIDE DEF D
  <1>2. \A v \in Vertices : v \in D
    BY <1>1, ForestInduction
  <1> QED
    BY <1>2 DEF D

\* A part of the two trees of a cycle that cuts no tree edge and not both links is nothing or all.
LEMMA NothingOrAll ==
    ASSUME NEW g, NEW p, NEW q, IsCycle(g, p, q), NEW S \in SUBSET Both(g, p[Len(p)], q[Len(q)]), Uncut(g, S),
           (p[Len(p)] \in S <=> q[Len(q)] \in S) \/ (p[1] \in S <=> q[1] \in S)
    PROVE  S = {} \/ S = Both(g, p[Len(p)], q[Len(q)])
  <1> DEFINE P == p[Len(p)]
             Q == q[Len(q)]
  <1>1. /\ Rooted(g) /\ P \in Vertices /\ Q \in Vertices
        /\ p[1] \in Vertices /\ RootOf(g, p[1]) = P /\ q[1] \in Vertices /\ RootOf(g, q[1]) = Q
    BY CycleEnds
  <1> DEFINE a == p[1]
             b == q[1]
  <1>2. \A v \in Vertices : v \in S <=> RootOf(g, v) \in S
    BY <1>1, WholeTrees
  <1> HIDE DEF P, Q, a, b
  <1>3. (P \in S <=> Q \in S) \/ (a \in S <=> b \in S)
    BY DEF P, Q, a, b
  <1>4. a \in Vertices /\ b \in Vertices /\ RootOf(g, a) = P /\ RootOf(g, b) = Q
    BY <1>1 DEF a, b
  <1>5. P \in S <=> Q \in S
    BY <1>2, <1>3, <1>4
  <1>6. S \in SUBSET Both(g, P, Q)
    BY DEF P, Q
  <1>7. S = {} \/ S = Both(g, P, Q)
    BY <1>2, <1>5, <1>6 DEF Both
  <1> QED
    BY <1>7 DEF P, Q

\* Of the tree edges, only the one above k is around what is below k.
LEMMA AroundBelow ==
    ASSUME NEW g, Rooted(g), NEW k \in Vertices, g[k] # NULL
    PROVE  \A v \in Vertices : g[v] # NULL => (~(v \in Below(g, k) <=> g[v] \in Below(g, k)) <=> v = k)
  <1> SUFFICES ASSUME NEW v \in Vertices, g[v] # NULL
               PROVE  ~(v \in Below(g, k) <=> g[v] \in Below(g, k)) <=> v = k
    OBVIOUS
  <1>1. v \in Below(g, k) <=> v = k \/ (g[v] # NULL /\ g[v] \in Below(g, k))
    BY BelowStep
  <1>2. g[k] \notin Below(g, k)
    BY ParentNotBelow
  <1> QED
    BY <1>1, <1>2

\* The edge above v is told by v.
LEMMA EdgeAbove ==
    ASSUME NEW g, Rooted(g), NEW v \in Vertices, NEW k \in Vertices, g[v] # NULL, g[k] # NULL, {v, g[v]} = {k, g[k]}
    PROVE  v = k
  <1>1. g[v] # v /\ g[g[v]] # v
    BY ParentIsAbove
  <1>2. v = k \/ (v = g[k] /\ g[v] = k)
    OBVIOUS
  <1> QED
    BY <1>1, <1>2

\* What a climb starts from is only below its own vertices.
LEMMA ClimbMeets ==
    ASSUME NEW g, Rooted(g), NEW p, IsClimb(g, p), NEW v \in Vertices, p[1] \in Below(g, v)
    PROVE  \E m \in 1..Len(p) : p[m] = v
  <1> SUFFICES ASSUME \A m \in 1..Len(p) : p[m] # v
               PROVE  FALSE
    OBVIOUS
  <1> DEFINE n == Len(p)
             N == {m \in Nat : m + 1 \in 1..n => p[m + 1] \in Below(g, v)}
  <1>1. n \in Nat /\ n >= 1 /\ g[p[n]] = NULL /\ \A i \in 1..n : p[i] \in Vertices
    BY DEF IsClimb
  <1>2. 0 \in N
    <2>1. 0 + 1 = 1 /\ 0 \in Nat
        OBVIOUS
    <2> QED
        BY <2>1
  <1>3. ASSUME NEW m \in Nat, m \in N
        PROVE  m + 1 \in N
    <2> SUFFICES ASSUME (m + 1) + 1 \in 1..n
                 PROVE  p[(m + 1) + 1] \in Below(g, v)
        OBVIOUS
    <2>1. m + 1 \in 1..n /\ m + 1 < n
        BY <1>1
    <2>2. p[m + 1] \in Below(g, v)
        BY <2>1, <1>3
    <2>3. g[p[m + 1]] = p[(m + 1) + 1] /\ p[m + 1] # v
        BY <2>1 DEF IsClimb
    <2> DEFINE w == p[m + 1]
    <2>4. w \in Vertices
        BY <2>1, <1>1
    <2> HIDE DEF w
    <2>5. w \in Below(g, v) <=> w = v \/ (g[w] # NULL /\ g[w] \in Below(g, v))
        BY <2>4, BelowStep
    <2>6. w \in Below(g, v) /\ w # v
        BY <2>2, <2>3 DEF w
    <2>7. g[w] \in Below(g, v)
        BY <2>5, <2>6
    <2> QED
        BY <2>7, <2>3 DEF w
  <1>4. Nat \subseteq N
    <2> HIDE DEF N
    <2> QED
        BY <1>2, <1>3, SetInduction
  <1>5. n - 1 \in Nat /\ (n - 1) + 1 = n /\ n \in 1..n
    BY <1>1
  <1>6. p[n] \in Below(g, v)
    BY <1>4, <1>5
  <1> DEFINE w == p[n]
  <1>7. w \in Vertices /\ g[w] = NULL /\ w # v /\ w \in Below(g, v)
    BY <1>1, <1>5, <1>6
  <1> HIDE DEF w
  <1>8. w \in Below(g, v) <=> w = v \/ (g[w] # NULL /\ g[w] \in Below(g, v))
    BY <1>7, BelowStep
  <1> QED
    BY <1>7, <1>8

\* The edge at a place of the cycle.
PlaceEdge(g, p, q, i) == {EdgeAt(CycleOf(g, p, q), i)[1], EdgeAt(CycleOf(g, p, q), i)[2]}

\* The trees with the two links that close the cycle.
CycleGraph(g, p, q) == EdgesOf(g) \cup {{p[1], q[1]}, {p[Len(p)], q[Len(q)]}}

\* The edge at place i is the one above the vertex k of that side.
AtKid(g, p, q, i, k) ==
    /\ k \in Vertices /\ g[k] # NULL
    /\ \/ i <= Len(p) /\ k = p[i - 1] /\ RootOf(g, k) = p[Len(p)]
       \/ ~(i <= Len(p)) /\ k = q[Len(q) + Len(p) + 1 - i] /\ RootOf(g, k) = q[Len(q)]

\* The edges at the places of the cycle.
LEMMA PlaceEdgeIs ==
    ASSUME NEW g, NEW p, NEW q, IsCycle(g, p, q), NEW i \in 1..Len(p) + Len(q)
    PROVE  /\ i = 1 => PlaceEdge(g, p, q, i) = {p[1], q[1]}
           /\ i = Len(p) + 1 => PlaceEdge(g, p, q, i) = {p[Len(p)], q[Len(q)]}
           /\ i # 1 /\ i # Len(p) + 1 => \E k \in Vertices : AtKid(g, p, q, i, k) /\ PlaceEdge(g, p, q, i) = {k, g[k]}
  <1> DEFINE c == CycleOf(g, p, q)
             a == EdgeAt(c, i)
  <1>1. ASSUME i = 1 PROVE PlaceEdge(g, p, q, i) = {p[1], q[1]}
    <2>1. a = <<p[1], q[1]>>
        BY <1>1, EdgeAtFacts
    <2> HIDE DEF a, c
    <2>2. a[1] = p[1] /\ a[2] = q[1]
        BY <2>1
    <2> QED
        BY <2>2 DEF PlaceEdge, a, c
  <1>2. ASSUME i = Len(p) + 1 PROVE PlaceEdge(g, p, q, i) = {p[Len(p)], q[Len(q)]}
    <2> DEFINE P == p[Len(p)]
               Q == q[Len(q)]
    <2>1. a = <<P, Q>>
        BY <1>2, EdgeAtFacts
    <2> HIDE DEF a, c, P, Q
    <2>2. a[1] = P /\ a[2] = Q
        BY <2>1
    <2> QED
        BY <2>2 DEF PlaceEdge, a, c, P, Q
  <1>3. ASSUME i # 1, i # Len(p) + 1
        PROVE  \E k \in Vertices : AtKid(g, p, q, i, k) /\ PlaceEdge(g, p, q, i) = {k, g[k]}
    <2> DEFINE k == KidAt(p, q, i)
    <2>1. /\ k \in Vertices /\ g[k] # NULL /\ a = EdgeTo(g, k)
          /\ RootOf(g, k) = IF i <= Len(p) THEN p[Len(p)] ELSE q[Len(q)]
        BY <1>3, EdgeAtFacts
    <2>2. k = IF i <= Len(p) THEN p[i - 1] ELSE q[Len(q) + Len(p) + 1 - i]
        BY DEF KidAt
    <2> HIDE DEF a, c, k
    <2>3. a[1] = g[k] /\ a[2] = k
        BY <2>1 DEF EdgeTo
    <2>4. PlaceEdge(g, p, q, i) = {k, g[k]}
        BY <2>3 DEF PlaceEdge, a, c
    <2>5. AtKid(g, p, q, i, k)
        BY <2>1, <2>2 DEF AtKid
    <2> QED
        BY <2>1, <2>4, <2>5
  <1> QED
    BY <1>1, <1>2, <1>3

\* Two links that are not the same and no tree edges.
NewLinks(g, a, b, P, Q) ==
    /\ {a, b} # {P, Q}
    /\ \A v \in Vertices : g[v] # NULL => {v, g[v]} # {a, b} /\ {v, g[v]} # {P, Q}

\* The links that close a cycle are new.
LEMMA LinksAreNew ==
    ASSUME NEW g, NEW p, NEW q, IsCycle(g, p, q)
    PROVE  NewLinks(g, p[1], q[1], p[Len(p)], q[Len(q)])
  <1> DEFINE a == p[1]
             b == q[1]
             P == p[Len(p)]
             Q == q[Len(q)]
  <1>1. /\ Rooted(g) /\ P \in Vertices /\ Q \in Vertices /\ P # Q /\ RootOf(g, P) = P /\ RootOf(g, Q) = Q
        /\ a \in Vertices /\ RootOf(g, a) = P /\ b \in Vertices /\ RootOf(g, b) = Q
        /\ a # P \/ b # Q
    BY CycleEnds
  <1> HIDE DEF a, b, P, Q
  <1>2. {a, b} # {P, Q}
    BY <1>1
  <1>3. ASSUME NEW v \in Vertices, g[v] # NULL
        PROVE  {v, g[v]} # {a, b} /\ {v, g[v]} # {P, Q}
    <2>1. g[v] \in Vertices /\ RootOf(g, g[v]) = RootOf(g, v)
        BY <1>1, <1>3, ParentNotBelow
    <2> DEFINE w == g[v]
    <2> HIDE DEF w
    <2>2. RootOf(g, w) = RootOf(g, v)
        BY <2>1 DEF w
    <2>3. {v, w} # {a, b} /\ {v, w} # {P, Q}
        BY <1>1, <2>2
    <2> QED
        BY <2>3 DEF w
  <1> QED
    BY <1>2, <1>3 DEF NewLinks, a, b, P, Q

\* No edge is at two places.
LEMMA PlacesDiffer ==
    ASSUME NEW g, NEW p, NEW q, IsCycle(g, p, q),
           NEW i \in 1..Len(p) + Len(q), NEW j \in 1..Len(p) + Len(q), i < j
    PROVE  PlaceEdge(g, p, q, i) # PlaceEdge(g, p, q, j)
  <1>0. NewLinks(g, p[1], q[1], p[Len(p)], q[Len(q)])
    BY LinksAreNew
  <1> DEFINE m == Len(p)
             n == Len(q)
             L1 == {p[1], q[1]}
             L2 == {p[Len(p)], q[Len(q)]}
  <1>1. Rooted(g) /\ IsClimb(g, p) /\ IsClimb(g, q) /\ m \in Nat /\ n \in Nat /\ m >= 1 /\ n >= 1 /\ p[m] # q[n]
    BY CycleEnds
  <1>2. /\ L1 # L2 /\ \A v \in Vertices : g[v] # NULL => {v, g[v]} # L1 /\ {v, g[v]} # L2
    BY <1>0 DEF NewLinks
  <1>3. \A h \in 1..m + n : /\ h = 1 => PlaceEdge(g, p, q, h) = L1
                            /\ h = m + 1 => PlaceEdge(g, p, q, h) = L2
                            /\ h # 1 /\ h # m + 1 =>
                                   \E k \in Vertices : AtKid(g, p, q, h, k) /\ PlaceEdge(g, p, q, h) = {k, g[k]}
    BY PlaceEdgeIs
  <1>4. i \in 1..m + n /\ j \in 1..m + n
    OBVIOUS
  <1>9. /\ \A x, y \in 1..m : x < y => p[x] # p[y]
        /\ \A x, y \in 1..n : x < y => q[x] # q[y]
    BY <1>1 DEF IsClimb
  <1>5. ASSUME i # 1, i # m + 1, j # 1, j # m + 1, PlaceEdge(g, p, q, i) = PlaceEdge(g, p, q, j)
        PROVE  FALSE
    <2>1. PICK k \in Vertices : AtKid(g, p, q, i, k) /\ PlaceEdge(g, p, q, i) = {k, g[k]}
        BY <1>3, <1>4, <1>5
    <2>2. PICK l \in Vertices : AtKid(g, p, q, j, l) /\ PlaceEdge(g, p, q, j) = {l, g[l]}
        BY <1>3, <1>4, <1>5
    <2>3. g[k] # NULL /\ g[l] # NULL /\ {k, g[k]} = {l, g[l]}
        BY <1>5, <2>1, <2>2 DEF AtKid
    <2>4. k = l
        BY <1>1, <2>3, EdgeAbove
    <2>5. /\ \/ i <= m /\ k = p[i - 1] /\ RootOf(g, k) = p[m]
             \/ ~(i <= m) /\ k = q[n + m + 1 - i] /\ RootOf(g, k) = q[n]
          /\ \/ j <= m /\ k = p[j - 1] /\ RootOf(g, k) = p[m]
             \/ ~(j <= m) /\ k = q[n + m + 1 - j] /\ RootOf(g, k) = q[n]
        BY <2>1, <2>2, <2>4 DEF AtKid
    <2>6. CASE j <= m
        <3>1. k = p[i - 1] /\ k = p[j - 1] /\ i - 1 \in 1..m /\ j - 1 \in 1..m /\ i - 1 < j - 1
            BY <1>1, <1>4, <1>5, <2>5, <2>6
        <3> QED
            BY <1>1, <1>9, <3>1
    <2>7. CASE ~(j <= m)
        <3>1. ~(i <= m) /\ k = q[n + m + 1 - i] /\ k = q[n + m + 1 - j]
            BY <1>1, <2>5, <2>7
        <3>2. n + m + 1 - i \in 1..n /\ n + m + 1 - j \in 1..n /\ n + m + 1 - j < n + m + 1 - i
            BY <1>1, <1>4, <2>7, <3>1
        <3> QED
            BY <1>1, <1>9, <3>1, <3>2
    <2> QED
        BY <2>6, <2>7
  <1> SUFFICES ASSUME PlaceEdge(g, p, q, i) = PlaceEdge(g, p, q, j)
               PROVE  FALSE
    OBVIOUS
  <1>6. j # 1 /\ (i = m + 1 => j # m + 1 /\ i # 1)
    BY <1>1, <1>4
  <1> HIDE DEF L1, L2, m, n
  <1>7. i = 1 \/ i = m + 1 \/ j = m + 1
    BY <1>5, <1>6
  <1>8. ASSUME NEW h \in 1..m + n, h # 1, h # m + 1
        PROVE  PlaceEdge(g, p, q, h) # L1 /\ PlaceEdge(g, p, q, h) # L2
    <2>1. PICK k \in Vertices : AtKid(g, p, q, h, k) /\ PlaceEdge(g, p, q, h) = {k, g[k]}
        BY <1>3, <1>8
    <2>2. g[k] # NULL
        BY <2>1 DEF AtKid
    <2> QED
        BY <1>2, <2>1, <2>2
  <1> QED
    BY <1>2, <1>3, <1>4, <1>6, <1>7, <1>8

\* Which edges of the trees and which links are around K.
RimTells(g, p, q, K, R) ==
    /\ \A v \in Vertices : g[v] # NULL => ({v, g[v]} \in R <=> ~(v \in K <=> g[v] \in K))
    /\ {p[1], q[1]} \in R <=> ~(p[1] \in K <=> q[1] \in K)
    /\ {p[Len(p)], q[Len(q)]} \in R <=> ~(p[Len(p)] \in K <=> q[Len(q)] \in K)

\* They are those with an end on either side.
LEMMA RimIs ==
    ASSUME NEW g, NEW p, NEW q, NEW K
    PROVE  RimTells(g, p, q, K, RimOf(CycleGraph(g, p, q), K))
  <1> DEFINE G == CycleGraph(g, p, q)
  <1>1. {p[1], q[1]} \in G /\ {p[Len(p)], q[Len(q)]} \in G /\ \A v \in Vertices : g[v] # NULL => {v, g[v]} \in G
    BY DEF CycleGraph, EdgesOf
  <1> HIDE DEF G
  <1>2. \A a, b : {a, b} \in G => ({a, b} \in RimOf(G, K) <=> ~(a \in K <=> b \in K))
    BY StraddlesIs DEF RimOf
  <1> QED
    BY <1>1, <1>2 DEF RimTells, G

\* What an edge of the graph is.
LEMMA GraphEdges ==
    ASSUME NEW g, NEW p, NEW q, NEW e \in CycleGraph(g, p, q)
    PROVE  \/ e = {p[1], q[1]} \/ e = {p[Len(p)], q[Len(q)]}
           \/ \E v \in Vertices : g[v] # NULL /\ e = {v, g[v]}
BY DEF CycleGraph, EdgesOf

\* The ends of the links: none of their roots is below a vertex with a parent, and which
\* starts are below a vertex of a climb.
LEMMA StartsBelow ==
    ASSUME NEW g, NEW p, NEW q, IsCycle(g, p, q), NEW i \in 1..Len(p) + Len(q), i # 1, i # Len(p) + 1,
           NEW k, AtKid(g, p, q, i, k)
    PROVE  /\ Below(g, k) \subseteq Both(g, p[Len(p)], q[Len(q)])
           /\ p[Len(p)] \notin Below(g, k) /\ q[Len(q)] \notin Below(g, k)
           /\ ~(p[1] \in Below(g, k) <=> q[1] \in Below(g, k))
  <1> DEFINE P == p[Len(p)]
             Q == q[Len(q)]
             m == Len(p)
             n == Len(q)
  <1>1. /\ Rooted(g) /\ IsClimb(g, p) /\ IsClimb(g, q) /\ m \in Nat /\ m >= 1 /\ n \in Nat /\ n >= 1
        /\ P \in Vertices /\ Q \in Vertices /\ P # Q /\ RootOf(g, P) = P /\ RootOf(g, Q) = Q
        /\ p[1] \in Vertices /\ RootOf(g, p[1]) = P /\ q[1] \in Vertices /\ RootOf(g, q[1]) = Q
    BY CycleEnds
  <1>2. k \in Vertices /\ g[k] # NULL
    BY DEF AtKid
  <1>3. \A w \in Below(g, k) : w \in Vertices /\ RootOf(g, w) = RootOf(g, k)
    BY <1>1, <1>2, BelowFacts
  <1>4. RootOf(g, k) \notin Below(g, k)
    BY <1>1, <1>2, ParentNotBelow
  <1>5. CASE i <= m
    <2>1. RootOf(g, k) = P /\ k = p[i - 1] /\ i - 1 \in 1..m
        BY <1>1, <1>5 DEF AtKid
    <2>2. p[1] \in Below(g, k)
        BY <1>1, <2>1 DEF IsClimb
    <2>3. q[1] \notin Below(g, k) /\ Q \notin Below(g, k) /\ P \notin Below(g, k)
        BY <1>1, <1>3, <1>4, <2>1
    <2> QED
        BY <1>3, <2>1, <2>2, <2>3 DEF Both
  <1>6. CASE ~(i <= m)
    <2>1. RootOf(g, k) = Q /\ k = q[n + m + 1 - i]
        BY <1>6 DEF AtKid
    <2>2. n + m + 1 - i \in 1..n
        BY <1>1, <1>6
    <2>3. q[1] \in Below(g, k)
        BY <1>1, <2>1, <2>2 DEF IsClimb
    <2>4. p[1] \notin Below(g, k) /\ Q \notin Below(g, k) /\ P \notin Below(g, k)
        BY <1>1, <1>3, <1>4, <2>1
    <2> QED
        BY <1>3, <2>1, <2>3, <2>4 DEF Both
  <1> QED
    BY <1>5, <1>6

\* A link is not alone around a part of the two trees.
LEMMA LinkOnCycle ==
    ASSUME NEW g, NEW p, NEW q, IsCycle(g, p, q)
    PROVE  /\ OnSomeCycle(CycleGraph(g, p, q), Both(g, p[Len(p)], q[Len(q)]), {p[1], q[1]})
           /\ OnSomeCycle(CycleGraph(g, p, q), Both(g, p[Len(p)], q[Len(q)]), {p[Len(p)], q[Len(q)]})
  <1> DEFINE G == CycleGraph(g, p, q)
             V == Both(g, p[Len(p)], q[Len(q)])
             L1 == {p[1], q[1]}
             L2 == {p[Len(p)], q[Len(q)]}
  <1>1. NewLinks(g, p[1], q[1], p[Len(p)], q[Len(q)])
    BY LinksAreNew
  <1>2. L1 # L2 /\ \A v \in Vertices : g[v] # NULL => {v, g[v]} # L1 /\ {v, g[v]} # L2
    BY <1>1 DEF NewLinks
  <1>3. /\ p[1] \in V /\ q[1] \in V /\ p[Len(p)] \in V /\ q[Len(q)] \in V
    BY CycleEnds DEF Both
  <1> SUFFICES ASSUME NEW K \in SUBSET V
               PROVE  RimOf(G, K) # {L1} /\ RimOf(G, K) # {L2}
    BY DEF OnSomeCycle
  <1>4. /\ \A v \in Vertices : g[v] # NULL => ({v, g[v]} \in RimOf(G, K) <=> ~(v \in K <=> g[v] \in K))
        /\ L1 \in RimOf(G, K) <=> ~(p[1] \in K <=> q[1] \in K)
        /\ L2 \in RimOf(G, K) <=> ~(p[Len(p)] \in K <=> q[Len(q)] \in K)
    BY RimIs DEF RimTells
  <1>5. ASSUME RimOf(G, K) = {L1} \/ RimOf(G, K) = {L2}
        PROVE  FALSE
    <2>1. Uncut(g, K)
        BY <1>2, <1>4, <1>5 DEF Uncut
    <2>2. (p[Len(p)] \in K <=> q[Len(q)] \in K) \/ (p[1] \in K <=> q[1] \in K)
        <3> DEFINE R == RimOf(G, K)
        <3>1. (L1 \in R <=> ~(p[1] \in K <=> q[1] \in K)) /\ (L2 \in R <=> ~(p[Len(p)] \in K <=> q[Len(q)] \in K))
            BY <1>4
        <3>2. L1 # L2 /\ (R = {L1} \/ R = {L2})
            BY <1>2, <1>5
        <3> HIDE DEF R, L1, L2
        <3>3. L1 \notin R \/ L2 \notin R
            BY <3>2
        <3> QED
            BY <3>1, <3>3
    <2>3. K = {} \/ K = V
        BY <2>1, <2>2, NothingOrAll
    <2> QED
        BY <1>3, <1>4, <1>5, <2>3
  <1> QED
    BY <1>5

\* Nor is any edge of the cycle.
LEMMA PlaceOnCycle ==
    ASSUME NEW g, NEW p, NEW q, IsCycle(g, p, q), NEW i \in 1..Len(p) + Len(q)
    PROVE  OnSomeCycle(CycleGraph(g, p, q), Both(g, p[Len(p)], q[Len(q)]), PlaceEdge(g, p, q, i))
  <1>0. /\ OnSomeCycle(CycleGraph(g, p, q), Both(g, p[Len(p)], q[Len(q)]), {p[1], q[1]})
        /\ OnSomeCycle(CycleGraph(g, p, q), Both(g, p[Len(p)], q[Len(q)]), {p[Len(p)], q[Len(q)]})
    BY LinkOnCycle
  <1>1. CASE i = 1
    <2>1. PlaceEdge(g, p, q, i) = {p[1], q[1]}
        BY <1>1, PlaceEdgeIs
    <2> QED
        BY <2>1, <1>0
  <1>2. CASE i = Len(p) + 1
    <2>1. PlaceEdge(g, p, q, i) = {p[Len(p)], q[Len(q)]}
        BY <1>2, PlaceEdgeIs
    <2> QED
        BY <2>1, <1>0
  <1>3. ASSUME i # 1, i # Len(p) + 1
        PROVE  OnSomeCycle(CycleGraph(g, p, q), Both(g, p[Len(p)], q[Len(q)]), PlaceEdge(g, p, q, i))
    <2>1. PICK k \in Vertices : AtKid(g, p, q, i, k) /\ PlaceEdge(g, p, q, i) = {k, g[k]}
        BY <1>3, PlaceEdgeIs
    <2> DEFINE G == CycleGraph(g, p, q)
               V == Both(g, p[Len(p)], q[Len(q)])
               B == Below(g, k)
    <2>2. /\ B \subseteq V /\ p[Len(p)] \notin B /\ q[Len(q)] \notin B
          /\ ~(p[1] \in B <=> q[1] \in B)
        BY <1>3, <2>1, StartsBelow
    <2>3. g[k] # NULL /\ k \in Vertices /\ Rooted(g)
        BY <2>1, CycleEnds DEF AtKid
    <2>4. \A v \in Vertices : g[v] # NULL => (~(v \in B <=> g[v] \in B) <=> v = k)
        BY <2>3, AroundBelow
    <2>5. \A v \in Vertices : g[v] # NULL /\ {v, g[v]} = {k, g[k]} => v = k
        BY <2>3, EdgeAbove
    <2>6. NewLinks(g, p[1], q[1], p[Len(p)], q[Len(q)])
        BY LinksAreNew
    <2>7. {k, g[k]} # {p[1], q[1]} /\ {k, g[k]} # {p[Len(p)], q[Len(q)]}
        BY <2>3, <2>6 DEF NewLinks
    <2> SUFFICES ASSUME NEW K \in SUBSET V, RimOf(G, K) = {{k, g[k]}}
                 PROVE  FALSE
        BY <2>1 DEF OnSomeCycle
    <2>8. /\ \A v \in Vertices : g[v] # NULL => ({v, g[v]} \in RimOf(G, K) <=> ~(v \in K <=> g[v] \in K))
          /\ {p[1], q[1]} \in RimOf(G, K) <=> ~(p[1] \in K <=> q[1] \in K)
          /\ {p[Len(p)], q[Len(q)]} \in RimOf(G, K) <=> ~(p[Len(p)] \in K <=> q[Len(q)] \in K)
        BY RimIs DEF RimTells
    <2>9. /\ \A v \in Vertices : g[v] # NULL => (v = k <=> ~(v \in K <=> g[v] \in K))
          /\ p[1] \in K <=> q[1] \in K
          /\ p[Len(p)] \in K <=> q[Len(q)] \in K
        <3> HIDE DEF G, V, B
        <3> QED
            BY <2>5, <2>7, <2>8
    <2> DEFINE S == OneOf(K, B)
    <2>10. S \in SUBSET V
        BY <2>2 DEF OneOf
    <2>11. \A v : v \in S <=> ~(v \in K <=> v \in B)
        BY DEF OneOf
    <2> HIDE DEF S, B, V
    <2>12. Uncut(g, S)
        BY <2>4, <2>9, <2>11 DEF Uncut
    <2>13. p[Len(p)] \in S <=> q[Len(q)] \in S
        BY <2>2, <2>9, <2>11
    <2>14. ~(p[1] \in S <=> q[1] \in S)
        BY <2>2, <2>9, <2>11
    <2>15. S = {} \/ S = V
        BY <2>10, <2>12, <2>13, NothingOrAll DEF V
    <2>16. p[1] \in V /\ q[1] \in V
        BY CycleEnds DEF Both, V
    <2> QED
        BY <2>14, <2>15, <2>16
  <1> QED
    BY <1>1, <1>2, <1>3

\* e is an edge of the cycle.
IsPlaceEdge(g, p, q, e) == \E i \in 1..Len(p) + Len(q) : PlaceEdge(g, p, q, i) = e

\* A tree edge that is at no place of the cycle is alone around what is below it.
LEMMA OffTheCycle ==
    ASSUME NEW g, NEW p, NEW q, IsCycle(g, p, q), NEW v \in Vertices, g[v] # NULL,
           RootOf(g, v) \in {p[Len(p)], q[Len(q)]},
           OnSomeCycle(CycleGraph(g, p, q), Both(g, p[Len(p)], q[Len(q)]), {v, g[v]})
    PROVE  IsPlaceEdge(g, p, q, {v, g[v]})
  <1> DEFINE P == p[Len(p)]
             Q == q[Len(q)]
             m == Len(p)
             n == Len(q)
             G == CycleGraph(g, p, q)
             V == Both(g, p[Len(p)], q[Len(q)])
             B == Below(g, v)
  <1>1. /\ Rooted(g) /\ IsClimb(g, p) /\ IsClimb(g, q) /\ m \in Nat /\ m >= 1 /\ n \in Nat /\ n >= 1
        /\ P \in Vertices /\ Q \in Vertices /\ P # Q /\ RootOf(g, P) = P /\ RootOf(g, Q) = Q
        /\ p[1] \in Vertices /\ RootOf(g, p[1]) = P /\ q[1] \in Vertices /\ RootOf(g, q[1]) = Q
    BY CycleEnds
  <1>2. \A w \in B : w \in Vertices /\ RootOf(g, w) = RootOf(g, v)
    BY <1>1, BelowFacts
  <1>3. RootOf(g, v) \notin B
    BY <1>1, ParentNotBelow
  <1>4. B \in SUBSET V /\ P \notin B /\ Q \notin B /\ ~(p[1] \in B /\ q[1] \in B)
    BY <1>1, <1>2, <1>3 DEF Both
  <1>5. \A w \in Vertices : g[w] # NULL => (~(w \in B <=> g[w] \in B) <=> w = v)
    BY <1>1, AroundBelow
  <1>6. p[1] \in B \/ q[1] \in B
    <2> SUFFICES ASSUME p[1] \notin B, q[1] \notin B
                 PROVE  FALSE
        OBVIOUS
    <2>r. RimTells(g, p, q, B, RimOf(G, B))
        BY RimIs
    <2>1. /\ \A w \in Vertices : g[w] # NULL => ({w, g[w]} \in RimOf(G, B) <=> ~(w \in B <=> g[w] \in B))
          /\ {p[1], q[1]} \in RimOf(G, B) <=> ~(p[1] \in B <=> q[1] \in B)
          /\ {p[Len(p)], q[Len(q)]} \in RimOf(G, B) <=> ~(p[Len(p)] \in B <=> q[Len(q)] \in B)
        BY <2>r DEF RimTells
    <2>2. \A e \in RimOf(G, B) : \/ e = {p[1], q[1]} \/ e = {p[Len(p)], q[Len(q)]}
                                 \/ \E w \in Vertices : g[w] # NULL /\ e = {w, g[w]}
        BY GraphEdges DEF RimOf
    <2> HIDE DEF G, B, V
    <2>4. {p[1], q[1]} \notin RimOf(G, B) /\ {p[Len(p)], q[Len(q)]} \notin RimOf(G, B)
        BY <1>4, <2>1
    <2>5. \A w \in Vertices : g[w] # NULL => ({w, g[w]} \in RimOf(G, B) <=> w = v)
        BY <1>5, <2>1
    <2>6. ASSUME NEW e \in RimOf(G, B)
          PROVE  e = {v, g[v]}
        <3>1. e # {p[1], q[1]} /\ e # {p[Len(p)], q[Len(q)]}
            BY <2>4
        <3>2. PICK w \in Vertices : g[w] # NULL /\ e = {w, g[w]}
            BY <2>2, <3>1
        <3>3. w = v
            BY <2>5, <3>2
        <3> QED
            BY <3>2, <3>3
    <2>7. {v, g[v]} \in RimOf(G, B)
        BY <2>5
    <2>3. RimOf(G, B) = {{v, g[v]}}
        BY <2>6, <2>7
    <2> QED
        BY <1>4, <2>3 DEF OnSomeCycle, G, V
  <1>7. CASE p[1] \in B
    <2>1. PICK h \in 1..m : p[h] = v
        BY <1>1, <1>7, ClimbMeets
    <2>2. h < m
        <3>1. h # m
            BY <1>1, <2>1 DEF IsClimb
        <3> QED
            BY <1>1, <3>1
    <2> DEFINE i == h + 1
    <2>3. i \in 1..m + n /\ i # 1 /\ i # m + 1 /\ i <= m /\ i - 1 = h
        BY <1>1, <2>2
    <2> HIDE DEF i
    <2>4. PICK k \in Vertices : AtKid(g, p, q, i, k) /\ PlaceEdge(g, p, q, i) = {k, g[k]}
        BY <2>3, PlaceEdgeIs
    <2>5. k = v
        BY <2>1, <2>3, <2>4 DEF AtKid
    <2> QED
        BY <2>3, <2>4, <2>5 DEF IsPlaceEdge
  <1>8. CASE q[1] \in B
    <2>1. PICK h \in 1..n : q[h] = v
        BY <1>1, <1>8, ClimbMeets
    <2>2. h < n
        <3>1. h # n
            BY <1>1, <2>1 DEF IsClimb
        <3> QED
            BY <1>1, <3>1
    <2> DEFINE i == n + m + 1 - h
    <2>3. i \in 1..m + n /\ i # 1 /\ i # m + 1 /\ ~(i <= m) /\ n + m + 1 - i = h
        BY <1>1, <2>2
    <2> HIDE DEF i
    <2>4. PICK k \in Vertices : AtKid(g, p, q, i, k) /\ PlaceEdge(g, p, q, i) = {k, g[k]}
        BY <2>3, PlaceEdgeIs
    <2>5. k = v
        BY <2>1, <2>3, <2>4 DEF AtKid
    <2> QED
        BY <2>3, <2>4, <2>5 DEF IsPlaceEdge
  <1> QED
    BY <1>6, <1>7, <1>8

\* Around S are the edge x and the first link, or nothing if they are the same.
Around(g, p, q, S, x) ==
    \A e \in CycleGraph(g, p, q) : Straddles(e, S) <=> ~(e = x <=> e = {p[1], q[1]})

\* What is below the vertex at a place of the cycle.
LEMMA BelowAround ==
    ASSUME NEW g, NEW p, NEW q, IsCycle(g, p, q), NEW i \in 1..Len(p) + Len(q), i # 1, i # Len(p) + 1,
           NEW k, AtKid(g, p, q, i, k)
    PROVE  Around(g, p, q, Below(g, k), {k, g[k]})
  <1> DEFINE B == Below(g, k)
             a == p[1]
             b == q[1]
             P == p[Len(p)]
             Q == q[Len(q)]
  <1>1. P \notin B /\ Q \notin B /\ ~(a \in B <=> b \in B)
    BY StartsBelow
  <1>2. g[k] # NULL /\ k \in Vertices /\ Rooted(g)
    BY CycleEnds DEF AtKid
  <1>3. \A v \in Vertices : g[v] # NULL => (~(v \in B <=> g[v] \in B) <=> v = k)
    BY <1>2, AroundBelow
  <1>4. NewLinks(g, a, b, P, Q)
    BY LinksAreNew
  <1> SUFFICES ASSUME NEW e \in CycleGraph(g, p, q)
               PROVE  Straddles(e, B) <=> ~(e = {k, g[k]} <=> e = {a, b})
    BY DEF Around
  <1>5. e = {a, b} \/ e = {P, Q} \/ \E v \in Vertices : g[v] # NULL /\ e = {v, g[v]}
    BY GraphEdges
  <1> HIDE DEF B, a, b, P, Q
  <1>6. CASE e = {a, b}
    <2>1. Straddles({a, b}, B)
        BY <1>1, StraddlesIs
    <2>2. {k, g[k]} # {a, b}
        BY <1>2, <1>4 DEF NewLinks
    <2> QED
        BY <1>6, <2>1, <2>2
  <1>7. CASE e = {P, Q}
    <2>1. ~Straddles({P, Q}, B)
        BY <1>1, StraddlesIs
    <2>2. {k, g[k]} # {P, Q} /\ {P, Q} # {a, b}
        BY <1>2, <1>4 DEF NewLinks
    <2> QED
        BY <1>7, <2>1, <2>2
  <1>8. ASSUME NEW v \in Vertices, g[v] # NULL, e = {v, g[v]}
        PROVE  Straddles(e, B) <=> ~(e = {k, g[k]} <=> e = {a, b})
    <2>1. e # {a, b}
        BY <1>4, <1>8 DEF NewLinks
    <2>2. Straddles({v, g[v]}, B) <=> v = k
        BY <1>3, <1>8, StraddlesIs
    <2>3. {v, g[v]} = {k, g[k]} <=> v = k
        BY <1>2, <1>8, EdgeAbove
    <2> QED
        BY <1>8, <2>1, <2>2, <2>3
  <1> QED
    BY <1>5, <1>6, <1>7, <1>8

\* Nothing, and all of one tree or of both.
LEMMA WholeAround ==
    ASSUME NEW g, NEW p, NEW q, IsCycle(g, p, q)
    PROVE  /\ Around(g, p, q, {}, {p[1], q[1]})
           /\ Around(g, p, q, Upto(g, p, Len(p)), {p[Len(p)], q[Len(q)]})
           /\ Around(g, p, q, Upto(g, q, Len(q)), {p[Len(p)], q[Len(q)]})
           /\ Around(g, p, q, Both(g, p[Len(p)], q[Len(q)]), {p[1], q[1]})
  <1> DEFINE S == Upto(g, p, Len(p))
             T == Upto(g, q, Len(q))
             V == Both(g, p[Len(p)], q[Len(q)])
             a == p[1]
             b == q[1]
             P == p[Len(p)]
             Q == q[Len(q)]
             G == CycleGraph(g, p, q)
  <1>1. /\ Rooted(g) /\ P \in Vertices /\ Q \in Vertices /\ P # Q /\ RootOf(g, P) = P /\ RootOf(g, Q) = Q
        /\ a \in Vertices /\ RootOf(g, a) = P /\ b \in Vertices /\ RootOf(g, b) = Q
    BY CycleEnds
  <1>2. S = {w \in Vertices : RootOf(g, w) = P} /\ T = {w \in Vertices : RootOf(g, w) = Q}
    BY CycleEnds, UptoFacts
  <1>3. V = {w \in Vertices : RootOf(g, w) \in {P, Q}}
    BY DEF Both
  <1>4. NewLinks(g, a, b, P, Q)
    BY LinksAreNew
  <1>5. \A e \in G : e = {a, b} \/ e = {P, Q} \/ \E v \in Vertices : g[v] # NULL /\ e = {v, g[v]}
    BY GraphEdges
  <1>6. \A v \in Vertices : g[v] # NULL => g[v] \in Vertices /\ RootOf(g, g[v]) = RootOf(g, v)
    BY <1>1, ParentNotBelow
  <1> HIDE DEF S, T, V, a, b, P, Q, G
  <1>7. a \in S /\ b \notin S /\ P \in S /\ Q \notin S /\ a \notin T /\ b \in T /\ P \notin T /\ Q \in T
    BY <1>1, <1>2
  <1>8. a \in V /\ b \in V /\ P \in V /\ Q \in V
    BY <1>1, <1>3
  <1>9. ASSUME NEW v \in Vertices, g[v] # NULL
        PROVE  (v \in S <=> g[v] \in S) /\ (v \in T <=> g[v] \in T) /\ (v \in V <=> g[v] \in V)
    <2>1. g[v] \in Vertices /\ RootOf(g, g[v]) = RootOf(g, v)
        BY <1>6, <1>9
    <2> DEFINE w == g[v]
    <2> HIDE DEF w
    <2>2. w \in Vertices /\ RootOf(g, w) = RootOf(g, v)
        BY <2>1 DEF w
    <2>3. (v \in S <=> w \in S) /\ (v \in T <=> w \in T) /\ (v \in V <=> w \in V)
        BY <2>2, <1>2, <1>3
    <2> QED
        BY <2>3 DEF w
  <1>10. ASSUME NEW e \in G
         PROVE  /\ ~Straddles(e, {}) /\ ~Straddles(e, V)
                /\ Straddles(e, S) <=> ~(e = {P, Q} <=> e = {a, b})
                /\ Straddles(e, T) <=> ~(e = {P, Q} <=> e = {a, b})
    <2>1. CASE e = {a, b}
        <3>1. {a, b} # {P, Q}
            BY <1>4 DEF NewLinks
        <3>2. Straddles({a, b}, S) /\ Straddles({a, b}, T) /\ ~Straddles({a, b}, V) /\ ~Straddles({a, b}, {})
            BY <1>7, <1>8, StraddlesIs
        <3> QED
            BY <2>1, <3>1, <3>2
    <2>2. CASE e = {P, Q}
        <3>1. {a, b} # {P, Q}
            BY <1>4 DEF NewLinks
        <3>2. Straddles({P, Q}, S) /\ Straddles({P, Q}, T) /\ ~Straddles({P, Q}, V) /\ ~Straddles({P, Q}, {})
            BY <1>7, <1>8, StraddlesIs
        <3> QED
            BY <2>2, <3>1, <3>2
    <2>3. ASSUME NEW v \in Vertices, g[v] # NULL, e = {v, g[v]}
          PROVE  /\ ~Straddles(e, {}) /\ ~Straddles(e, V)
                 /\ Straddles(e, S) <=> ~(e = {P, Q} <=> e = {a, b})
                 /\ Straddles(e, T) <=> ~(e = {P, Q} <=> e = {a, b})
        <3>1. e # {a, b} /\ e # {P, Q}
            BY <1>4, <2>3 DEF NewLinks
        <3>2. ~Straddles({v, g[v]}, S) /\ ~Straddles({v, g[v]}, T) /\ ~Straddles({v, g[v]}, V) /\ ~Straddles({v, g[v]}, {})
            BY <1>9, <2>3, StraddlesIs
        <3> QED
            BY <2>3, <3>1, <3>2
    <2> QED
        BY <1>5, <2>1, <2>2, <2>3
  <1>11. /\ Around(g, p, q, {}, {a, b}) /\ Around(g, p, q, V, {a, b})
         /\ Around(g, p, q, S, {P, Q}) /\ Around(g, p, q, T, {P, Q})
    BY <1>10 DEF Around, a, b, G
  <1> QED
    BY <1>11 DEF S, T, V, a, b, P, Q

\* What is up to a place of the first climb, and of the second.
LEMMA UptoAround ==
    ASSUME NEW g, NEW p, NEW q, IsCycle(g, p, q)
    PROVE  /\ \A m \in 0..Len(p) : Around(g, p, q, Upto(g, p, m), PlaceEdge(g, p, q, m + 1))
           /\ \A m \in 1..Len(q) : Around(g, p, q, Upto(g, q, m), PlaceEdge(g, p, q, Len(p) + Len(q) + 1 - m))
  <1>1. Len(p) \in Nat /\ Len(p) >= 1 /\ Len(q) \in Nat /\ Len(q) >= 1
    BY CycleEnds
  <1>2. /\ Around(g, p, q, {}, {p[1], q[1]})
        /\ Around(g, p, q, Upto(g, p, Len(p)), {p[Len(p)], q[Len(q)]})
        /\ Around(g, p, q, Upto(g, q, Len(q)), {p[Len(p)], q[Len(q)]})
    BY WholeAround
  <1>3. ASSUME NEW m \in 0..Len(p)
        PROVE  Around(g, p, q, Upto(g, p, m), PlaceEdge(g, p, q, m + 1))
    <2> DEFINE i == m + 1
    <2>1. i \in 1..Len(p) + Len(q) /\ i = m + 1
        BY <1>1
    <2> HIDE DEF i
    <2>2. CASE m = 0
        <3>1. i = 1
            BY <2>1, <2>2
        <3>2. PlaceEdge(g, p, q, i) = {p[1], q[1]}
            BY <2>1, <3>1, PlaceEdgeIs
        <3> QED
            BY <1>2, <2>2, <3>2 DEF Upto, i
    <2>3. CASE m = Len(p)
        <3>1. i = Len(p) + 1
            BY <2>1, <2>3
        <3>2. PlaceEdge(g, p, q, i) = {p[Len(p)], q[Len(q)]}
            BY <2>1, <3>1, PlaceEdgeIs
        <3> QED
            BY <1>2, <2>3, <3>2 DEF i
    <2>4. CASE m # 0 /\ m # Len(p)
        <3>1. i # 1 /\ i # Len(p) + 1 /\ i <= Len(p) /\ i - 1 = m
            BY <1>1, <2>1, <2>4
        <3>2. PICK k \in Vertices : AtKid(g, p, q, i, k) /\ PlaceEdge(g, p, q, i) = {k, g[k]}
            BY <2>1, <3>1, PlaceEdgeIs
        <3>3. k = p[m]
            BY <3>1, <3>2 DEF AtKid
        <3>4. Around(g, p, q, Below(g, k), {k, g[k]})
            BY <2>1, <3>1, <3>2, BelowAround
        <3> QED
            BY <2>4, <3>2, <3>3, <3>4 DEF Upto, i
    <2> QED
        BY <2>2, <2>3, <2>4
  <1>4. ASSUME NEW m \in 1..Len(q)
        PROVE  Around(g, p, q, Upto(g, q, m), PlaceEdge(g, p, q, Len(p) + Len(q) + 1 - m))
    <2> DEFINE i == Len(p) + Len(q) + 1 - m
    <2>1. i \in 1..Len(p) + Len(q) /\ i = Len(p) + Len(q) + 1 - m /\ i # 1
        BY <1>1
    <2> HIDE DEF i
    <2>3. CASE m = Len(q)
        <3>1. i = Len(p) + 1
            BY <1>1, <2>1, <2>3
        <3>2. PlaceEdge(g, p, q, i) = {p[Len(p)], q[Len(q)]}
            BY <2>1, <3>1, PlaceEdgeIs
        <3> QED
            BY <1>2, <2>3, <3>2 DEF i
    <2>4. CASE m # Len(q)
        <3>1. i # Len(p) + 1 /\ ~(i <= Len(p)) /\ Len(q) + Len(p) + 1 - i = m /\ m # 0
            BY <1>1, <2>1, <2>4
        <3>2. PICK k \in Vertices : AtKid(g, p, q, i, k) /\ PlaceEdge(g, p, q, i) = {k, g[k]}
            BY <2>1, <3>1, PlaceEdgeIs
        <3>3. k = q[m]
            BY <3>1, <3>2 DEF AtKid
        <3>4. Around(g, p, q, Below(g, k), {k, g[k]})
            BY <2>1, <3>1, <3>2, BelowAround
        <3> QED
            BY <3>1, <3>2, <3>3, <3>4 DEF Upto, i
    <2> QED
        BY <2>3, <2>4
  <1> QED
    BY <1>3, <1>4

\* An edge of the graph has two ends, so it is around one set or around the other.
LEMMA GraphStraddles ==
    ASSUME NEW g, NEW p, NEW q, NEW e \in CycleGraph(g, p, q), NEW S, NEW T
    PROVE  Straddles(e, OneOf(S, T)) <=> ~(Straddles(e, S) <=> Straddles(e, T))
  <1>1. \A a, b : Straddles({a, b}, OneOf(S, T)) <=> ~(Straddles({a, b}, S) <=> Straddles({a, b}, T))
    BY StraddlesOneOf
  <1>2. e = {p[1], q[1]} \/ e = {p[Len(p)], q[Len(q)]} \/ \E v \in Vertices : g[v] # NULL /\ e = {v, g[v]}
    BY GraphEdges
  <1>3. CASE e = {p[1], q[1]}
    BY <1>1, <1>3
  <1>4. CASE e = {p[Len(p)], q[Len(q)]}
    BY <1>1, <1>4
  <1>5. ASSUME NEW v, e = {v, g[v]}
        PROVE  Straddles(e, OneOf(S, T)) <=> ~(Straddles(e, S) <=> Straddles(e, T))
    BY <1>1, <1>5
  <1> QED
    BY <1>2, <1>3, <1>4, <1>5

\* Around what is in one of two sets only are the edges of both.
LEMMA TwoAround ==
    ASSUME NEW g, NEW p, NEW q, NEW S, NEW T, NEW x, NEW y,
           Around(g, p, q, S, x), Around(g, p, q, T, y), x # y, x \in CycleGraph(g, p, q), y \in CycleGraph(g, p, q)
    PROVE  RimOf(CycleGraph(g, p, q), OneOf(S, T)) = {x, y}
  <1> DEFINE G == CycleGraph(g, p, q)
  <1>1. ASSUME NEW e \in G
        PROVE  Straddles(e, OneOf(S, T)) <=> e = x \/ e = y
    <2>1. Straddles(e, S) <=> ~(e = x <=> e = {p[1], q[1]})
        BY DEF Around
    <2>2. Straddles(e, T) <=> ~(e = y <=> e = {p[1], q[1]})
        BY DEF Around
    <2>3. Straddles(e, OneOf(S, T)) <=> ~(Straddles(e, S) <=> Straddles(e, T))
        BY GraphStraddles
    <2> QED
        BY <2>1, <2>2, <2>3
  <1> HIDE DEF G
  <1>2. RimOf(G, OneOf(S, T)) = {x, y}
    BY <1>1 DEF RimOf, G
  <1> QED
    BY <1>2 DEF G

\* What is left of the two trees has the same edges around it.
LEMMA RestAround ==
    ASSUME NEW g, NEW p, NEW q, IsCycle(g, p, q), NEW S, NEW x, Around(g, p, q, S, x)
    PROVE  Around(g, p, q, OneOf(Both(g, p[Len(p)], q[Len(q)]), S), x)
  <1> DEFINE G == CycleGraph(g, p, q)
             V == Both(g, p[Len(p)], q[Len(q)])
  <1>0. Around(g, p, q, V, {p[1], q[1]})
    BY WholeAround
  <1> SUFFICES ASSUME NEW e \in G
               PROVE  Straddles(e, OneOf(V, S)) <=> ~(e = x <=> e = {p[1], q[1]})
    BY DEF Around
  <1> HIDE DEF V
  <1>1. ~Straddles(e, V)
    BY <1>0 DEF Around
  <1>2. Straddles(e, S) <=> ~(e = x <=> e = {p[1], q[1]})
    BY DEF Around
  <1>3. Straddles(e, OneOf(V, S)) <=> ~(Straddles(e, V) <=> Straddles(e, S))
    BY GraphStraddles
  <1> QED
    BY <1>1, <1>2, <1>3

\* The edges of the cycle are in the graph, with both ends in the two trees.
LEMMA PlaceInGraph ==
    ASSUME NEW g, NEW p, NEW q, IsCycle(g, p, q), NEW i \in 1..Len(p) + Len(q)
    PROVE  PlaceEdge(g, p, q, i) \in CycleGraph(g, p, q)
  <1>0. {p[1], q[1]} \in CycleGraph(g, p, q) /\ {p[Len(p)], q[Len(q)]} \in CycleGraph(g, p, q)
    BY DEF CycleGraph
  <1>1. CASE i = 1
    <2>1. PlaceEdge(g, p, q, i) = {p[1], q[1]}
        BY <1>1, PlaceEdgeIs
    <2> QED
        BY <1>0, <2>1
  <1>2. CASE i = Len(p) + 1
    <2>1. PlaceEdge(g, p, q, i) = {p[Len(p)], q[Len(q)]}
        BY <1>2, PlaceEdgeIs
    <2> QED
        BY <1>0, <2>1
  <1>3. CASE i # 1 /\ i # Len(p) + 1
    <2>1. PICK k \in Vertices : AtKid(g, p, q, i, k) /\ PlaceEdge(g, p, q, i) = {k, g[k]}
        BY <1>3, PlaceEdgeIs
    <2> QED
        BY <2>1 DEF AtKid, CycleGraph, EdgesOf
  <1> QED
    BY <1>1, <1>2, <1>3

\* What hangs between two places lies between their edges.
IsArc(g, p, q, i, j, K) ==
    /\ K \subseteq Both(g, p[Len(p)], q[Len(q)])
    /\ RimOf(CycleGraph(g, p, q), K) = {PlaceEdge(g, p, q, i), PlaceEdge(g, p, q, j)}

\* So does the arc of two places.
LEMMA ArcIs ==
    ASSUME NEW g, NEW p, NEW q, IsCycle(g, p, q), NEW i \in 1..Len(p) + Len(q), NEW j \in 1..Len(p) + Len(q), i < j
    PROVE  IsArc(g, p, q, i, j, ArcOf(g, p, q, i, j))
  <1> DEFINE m == Len(p)
             n == Len(q)
             N == m + n
             V == Both(g, p[m], q[n])
             X == PlaceEdge(g, p, q, i)
             Y == PlaceEdge(g, p, q, j)
             G == CycleGraph(g, p, q)
             A == ArcOf(g, p, q, i, j)
  <1>1. Rooted(g) /\ IsClimb(g, p) /\ IsClimb(g, q) /\ m \in Nat /\ m >= 1 /\ n \in Nat /\ n >= 1
    BY CycleEnds
  <1>2. X \in G /\ Y \in G /\ X # Y
    BY PlaceInGraph, PlacesDiffer
  <1>3. /\ \A h \in 0..m : Around(g, p, q, Upto(g, p, h), PlaceEdge(g, p, q, h + 1))
        /\ \A h \in 1..n : Around(g, p, q, Upto(g, q, h), PlaceEdge(g, p, q, N + 1 - h))
    BY UptoAround
  <1>4. /\ \A h, l \in 0..m : h <= l => Upto(g, p, h) \subseteq Upto(g, p, l)
        /\ \A h, l \in 0..n : h <= l => Upto(g, q, h) \subseteq Upto(g, q, l)
    BY <1>1, UptoGrows
  <1>5. V = Upto(g, p, m) \cup Upto(g, q, n) /\ Upto(g, p, m) \cap Upto(g, q, n) = {}
    BY BothIs
  <1>6. CASE j <= m + 1
    <2> DEFINE S == Upto(g, p, j - 1)
               T == Upto(g, p, i - 1)
    <2>1. j - 1 \in 0..m /\ i - 1 \in 0..m /\ i - 1 <= j - 1 /\ (j - 1) + 1 = j /\ (i - 1) + 1 = i
        BY <1>1, <1>6
    <2>2. Around(g, p, q, S, Y) /\ Around(g, p, q, T, X)
        BY <1>3, <2>1
    <2>3. A = S \ T
        BY <1>6 DEF ArcOf
    <2>4. T \subseteq S /\ S \subseteq Upto(g, p, m)
        <3>1. j - 1 <= m /\ m \in 0..m
            BY <1>1, <2>1
        <3> QED
            BY <1>4, <2>1, <3>1
    <2> HIDE DEF S, T, A, V, X, Y, G
    <2>5. A = OneOf(S, T) /\ A \subseteq V
        BY <1>5, <2>3, <2>4 DEF OneOf
    <2>6. RimOf(CycleGraph(g, p, q), OneOf(S, T)) = {Y, X}
        BY <1>2, <2>2, TwoAround DEF G
    <2> QED
        BY <2>5, <2>6 DEF IsArc, A, V, X, Y
  <1>7. CASE ~(j <= m + 1) /\ i > m
    <2> DEFINE S == Upto(g, q, N + 1 - i)
               T == Upto(g, q, N + 1 - j)
    <2>1. /\ N + 1 - j \in 1..n /\ N + 1 - i \in 1..n /\ N + 1 - j <= N + 1 - i
          /\ N + 1 - (N + 1 - j) = j /\ N + 1 - (N + 1 - i) = i
        BY <1>1, <1>7
    <2>2. Around(g, p, q, S, X) /\ Around(g, p, q, T, Y)
        BY <1>3, <2>1
    <2>3. A = S \ T
        BY <1>7 DEF ArcOf
    <2>4. T \subseteq S /\ S \subseteq Upto(g, q, n)
        <3>1. N + 1 - i <= n /\ n \in 0..n /\ N + 1 - i \in 0..n /\ N + 1 - j \in 0..n
            BY <1>1, <2>1
        <3> QED
            BY <1>4, <2>1, <3>1
    <2> HIDE DEF S, T, A, V, X, Y, G
    <2>5. A = OneOf(S, T) /\ A \subseteq V
        BY <1>5, <2>3, <2>4 DEF OneOf
    <2>6. RimOf(CycleGraph(g, p, q), OneOf(S, T)) = {X, Y}
        BY <1>2, <2>2, TwoAround DEF G
    <2> QED
        BY <2>5, <2>6 DEF IsArc, A, V, X, Y
  <1>8. CASE ~(j <= m + 1) /\ ~(i > m)
    <2> DEFINE S == Upto(g, p, i - 1)
               T == Upto(g, q, N + 1 - j)
    <2>1. /\ N + 1 - j \in 1..n /\ i - 1 \in 0..m /\ (i - 1) + 1 = i /\ N + 1 - (N + 1 - j) = j
        BY <1>1, <1>8
    <2>2. Around(g, p, q, S, X) /\ Around(g, p, q, T, Y)
        BY <1>3, <2>1
    <2>3. A = V \ (S \cup T)
        BY <1>8 DEF ArcOf
    <2>4. S \subseteq Upto(g, p, m) /\ T \subseteq Upto(g, q, n)
        <3>1. N + 1 - j <= n /\ n \in 0..n /\ N + 1 - j \in 0..n /\ i - 1 <= m /\ m \in 0..m
            BY <1>1, <2>1
        <3> QED
            BY <1>4, <2>1, <3>1
    <2>0. Around(g, p, q, OneOf(V, S), X)
        BY <2>2, RestAround
    <2> HIDE DEF S, T, A, V, X, Y, G
    <2>5. A = OneOf(OneOf(V, S), T) /\ A \subseteq V
        BY <1>5, <2>3, <2>4 DEF OneOf
    <2> DEFINE R == OneOf(V, S)
    <2>7. Around(g, p, q, R, X)
        BY <2>0
    <2> HIDE DEF R
    <2>6. RimOf(CycleGraph(g, p, q), OneOf(R, T)) = {X, Y}
        BY <1>2, <2>2, <2>7, TwoAround DEF G
    <2> QED
        BY <2>5, <2>6 DEF IsArc, A, V, X, Y, R
  <1> QED
    BY <1>6, <1>7, <1>8

\* A part of the two trees is told by the edges around it, but for what is left.
LEMMA SameRim ==
    ASSUME NEW g, NEW p, NEW q, IsCycle(g, p, q), NEW K \in SUBSET Both(g, p[Len(p)], q[Len(q)]),
           NEW A \in SUBSET Both(g, p[Len(p)], q[Len(q)]),
           RimOf(CycleGraph(g, p, q), K) = RimOf(CycleGraph(g, p, q), A)
    PROVE  K = A \/ K = Both(g, p[Len(p)], q[Len(q)]) \ A
  <1> DEFINE V == Both(g, p[Len(p)], q[Len(q)])
             S == OneOf(K, A)
             R == RimOf(CycleGraph(g, p, q), K)
  <1>1. RimTells(g, p, q, K, R)
    BY RimIs
  <1>2. RimTells(g, p, q, A, R)
    <2>1. RimTells(g, p, q, A, RimOf(CycleGraph(g, p, q), A))
        BY RimIs
    <2> QED
        BY <2>1
  <1>3. \A v : v \in S <=> ~(v \in K <=> v \in A)
    BY DEF OneOf
  <1>4. S \in SUBSET V
    BY DEF OneOf
  <1> HIDE DEF S, R
  <1>5. Uncut(g, S)
    BY <1>1, <1>2, <1>3 DEF RimTells, Uncut
  <1>6. p[1] \in S <=> q[1] \in S
    BY <1>1, <1>2, <1>3 DEF RimTells
  <1>7. S = {} \/ S = V
    BY <1>4, <1>5, <1>6, NothingOrAll
  <1> HIDE DEF V
  <1>8. K \in SUBSET V /\ A \in SUBSET V
    BY DEF V
  <1>9. K = A \/ K = V \ A
    BY <1>3, <1>7, <1>8
  <1> QED
    BY <1>9 DEF V

---------------------------------------------------------------------------
(***************************************************************************)
(* The cuts of a cycle are those of its graph                              *)
(***************************************************************************)
\* Either side may be called the part, as either may be either district.
LEMMA RestFits ==
    ASSUME WalkAssumption, NEW V \in SUBSET Vertices, NEW K \in SUBSET V, NEW d1, NEW d2,
           SidesFit(PopOf(V \ K), PopOf(V), d1, d2)
    PROVE  SidesFit(PopOf(K), PopOf(V), d1, d2)
  <1>1. PopOf(V \ K) = PopOf(V) - PopOf(K) /\ PopOf(V) \in Int /\ PopOf(K) \in Int
    BY PopFacts
  <1>2. PopOf(V) - PopOf(V \ K) = PopOf(K) /\ PopOf(V) - PopOf(K) = PopOf(V \ K)
    BY <1>1
  <1> DEFINE a == PopOf(V \ K)
             b == PopOf(K)
             t == PopOf(V)
  <1>3. t - a = b /\ t - b = a /\ SidesFit(a, t, d1, d2)
    BY <1>2
  <1> HIDE DEF a, b, t
  <1>4. SidesFit(b, t, d1, d2)
    BY <1>3 DEF SidesFit
  <1> QED
    BY <1>4 DEF b, t

\* Two places on the cycle whose arc fits are a fitting pair.
LEMMA PlacesFit ==
    ASSUME NEW g, NEW p, NEW q, IsCycle(g, p, q), NEW i \in 1..Len(p) + Len(q), NEW j \in 1..Len(p) + Len(q), i < j,
           NEW total, NEW d1, NEW d2, SidesFit(PopOf(ArcOf(g, p, q, i, j)), total, d1, d2)
    PROVE  IsFitting(CycleGraph(g, p, q), Both(g, p[Len(p)], q[Len(q)]), total, d1, d2,
                     {PlaceEdge(g, p, q, i), PlaceEdge(g, p, q, j)})
  <1> DEFINE X == PlaceEdge(g, p, q, i)
             Y == PlaceEdge(g, p, q, j)
             G == CycleGraph(g, p, q)
             V == Both(g, p[Len(p)], q[Len(q)])
             A == ArcOf(g, p, q, i, j)
  <1>1. X \in G /\ Y \in G
    BY PlaceInGraph
  <1>2. X # Y
    BY PlacesDiffer
  <1>3. OnSomeCycle(G, V, X) /\ OnSomeCycle(G, V, Y)
    BY PlaceOnCycle
  <1>4. IsArc(g, p, q, i, j, A)
    BY ArcIs
  <1>5. A \in SUBSET V /\ RimOf(G, A) = {X, Y} /\ SidesFit(PopOf(A), total, d1, d2)
    BY <1>4 DEF IsArc
  <1> HIDE DEF X, Y, G, V, A
  <1>6. IsFitting(G, V, total, d1, d2, {X, Y})
    BY <1>1, <1>2, <1>3, <1>5 DEF IsFitting
  <1> QED
    BY <1>6 DEF X, Y, G, V

\* An edge around a part of the two trees that is on a cycle is on this one.
LEMMA OnThisCycle ==
    ASSUME NEW g, NEW p, NEW q, IsCycle(g, p, q), NEW K \in SUBSET Both(g, p[Len(p)], q[Len(q)]),
           NEW x \in RimOf(CycleGraph(g, p, q), K),
           OnSomeCycle(CycleGraph(g, p, q), Both(g, p[Len(p)], q[Len(q)]), x)
    PROVE  IsPlaceEdge(g, p, q, x)
  <1> DEFINE m == Len(p)
             n == Len(q)
  <1>1. Rooted(g) /\ m \in Nat /\ m >= 1 /\ n \in Nat /\ n >= 1
    BY CycleEnds
  <1>2. x \in CycleGraph(g, p, q) /\ Straddles(x, K)
    BY DEF RimOf
  <1>3. x = {p[1], q[1]} \/ x = {p[m], q[n]} \/ \E v \in Vertices : g[v] # NULL /\ x = {v, g[v]}
    BY <1>2, GraphEdges
  <1>4. CASE x = {p[1], q[1]}
    <2>1. 1 \in 1..m + n
        BY <1>1
    <2>2. PlaceEdge(g, p, q, 1) = {p[1], q[1]}
        BY <2>1, PlaceEdgeIs
    <2> QED
        BY <1>4, <2>1, <2>2 DEF IsPlaceEdge
  <1>5. CASE x = {p[m], q[n]}
    <2> DEFINE i == m + 1
    <2>1. i \in 1..m + n /\ i = m + 1
        BY <1>1
    <2> HIDE DEF i
    <2>2. PlaceEdge(g, p, q, i) = {p[m], q[n]}
        BY <2>1, PlaceEdgeIs
    <2> QED
        BY <1>5, <2>1, <2>2 DEF IsPlaceEdge
  <1>6. ASSUME NEW v \in Vertices, g[v] # NULL, x = {v, g[v]}
        PROVE  IsPlaceEdge(g, p, q, x)
    <2>1. g[v] \in Vertices /\ RootOf(g, g[v]) = RootOf(g, v)
        BY <1>1, <1>6, ParentNotBelow
    <2>2. v \in K \/ g[v] \in K
        BY <1>2, <1>6 DEF Straddles
    <2>3. RootOf(g, v) \in {p[m], q[n]}
        BY <2>1, <2>2 DEF Both
    <2>4. OnSomeCycle(CycleGraph(g, p, q), Both(g, p[Len(p)], q[Len(q)]), {v, g[v]})
        BY <1>6
    <2>5. IsPlaceEdge(g, p, q, {v, g[v]})
        <3>1. g[v] # NULL /\ RootOf(g, v) \in {p[Len(p)], q[Len(q)]}
            BY <1>6, <2>3
        <3> HIDE DEF m, n
        <3> QED
            BY <2>4, <3>1, OffTheCycle
    <2> QED
        BY <1>6, <2>5
  <1> QED
    BY <1>3, <1>4, <1>5, <1>6

\* X is at two places of the cycle, and what hangs between them fits.
AtPlaces(g, p, q, total, d1, d2, X) ==
    \E i, j \in 1..Len(p) + Len(q) :
        /\ i < j
        /\ X = {PlaceEdge(g, p, q, i), PlaceEdge(g, p, q, j)}
        /\ SidesFit(PopOf(ArcOf(g, p, q, i, j)), total, d1, d2)

\* A fitting pair is at two places of the cycle.
LEMMA FittingAtPlaces ==
    ASSUME WalkAssumption, NEW g, NEW p, NEW q, IsCycle(g, p, q), NEW total,
           total = PopOf(Both(g, p[Len(p)], q[Len(q)])), NEW d1, NEW d2, NEW X,
           IsFitting(CycleGraph(g, p, q), Both(g, p[Len(p)], q[Len(q)]), total, d1, d2, X)
    PROVE  AtPlaces(g, p, q, total, d1, d2, X)
  <1> DEFINE G == CycleGraph(g, p, q)
             V == Both(g, p[Len(p)], q[Len(q)])
             N == Len(p) + Len(q)
  <1>1. PICK x \in G, y \in G : x # y /\ X = {x, y}
    BY DEF IsFitting
  <1>2. OnSomeCycle(G, V, x) /\ OnSomeCycle(G, V, y)
    BY <1>1 DEF IsFitting
  <1>3. PICK K \in SUBSET V : RimOf(G, K) = X /\ SidesFit(PopOf(K), total, d1, d2)
    BY DEF IsFitting
  <1>4. x \in RimOf(G, K) /\ y \in RimOf(G, K)
    BY <1>1, <1>3
  <1>5. PICK i \in 1..N : PlaceEdge(g, p, q, i) = x
    BY <1>2, <1>4, OnThisCycle DEF IsPlaceEdge
  <1>6. PICK j \in 1..N : PlaceEdge(g, p, q, j) = y
    BY <1>2, <1>4, OnThisCycle DEF IsPlaceEdge
  <1>7. N \in Nat
    BY CycleEnds
  <1>8. ASSUME NEW a \in 1..N, NEW b \in 1..N, a < b, X = {PlaceEdge(g, p, q, a), PlaceEdge(g, p, q, b)}
        PROVE  AtPlaces(g, p, q, total, d1, d2, X)
    <2> DEFINE A == ArcOf(g, p, q, a, b)
    <2>1. IsArc(g, p, q, a, b, A)
        BY <1>8, ArcIs
    <2>2. A \in SUBSET V /\ RimOf(G, A) = X
        BY <1>8, <2>1 DEF IsArc
    <2> HIDE DEF A
    <2>3. K = A \/ K = V \ A
        <3>1. RimOf(CycleGraph(g, p, q), K) = RimOf(CycleGraph(g, p, q), A)
            BY <1>3, <2>2
        <3> QED
            BY <2>2, <3>1, SameRim
    <2>4. SidesFit(PopOf(A), total, d1, d2)
        <3>1. CASE K = A
            BY <1>3, <3>1
        <3>2. CASE K = V \ A
            <4>1. V \in SUBSET Vertices
                BY DEF Both
            <4> HIDE DEF V, G, N
            <4>2. total = PopOf(V)
                BY DEF V
            <4>3. SidesFit(PopOf(V \ A), PopOf(V), d1, d2)
                BY <1>3, <3>2, <4>2
            <4>4. SidesFit(PopOf(A), PopOf(V), d1, d2)
                BY <2>2, <4>1, <4>3, RestFits
            <4> QED
                BY <4>2, <4>4
        <3> QED
            BY <2>3, <3>1, <3>2
    <2> QED
        BY <1>8, <2>4 DEF AtPlaces, A
  <1>9. i # j
    BY <1>1, <1>5, <1>6
  <1>10. CASE i < j
    <2>1. X = {PlaceEdge(g, p, q, i), PlaceEdge(g, p, q, j)}
        BY <1>1, <1>5, <1>6
    <2> QED
        BY <1>8, <1>10, <2>1
  <1>11. CASE j < i
    <2>1. X = {PlaceEdge(g, p, q, j), PlaceEdge(g, p, q, i)}
        BY <1>1, <1>5, <1>6
    <2> QED
        BY <1>8, <1>11, <2>1
  <1> QED
    BY <1>7, <1>9, <1>10, <1>11

\* The pairs of edges that valid cuts cut.
CutsOf(c, d1, d2) == {CutEdges(c, x) : x \in ValidCuts(c, d1, d2)}

\* Two places whose arc fits are valid cuts.
LEMMA ValidCutsMade ==
    ASSUME WalkAssumption, NEW g, NEW p, NEW q, IsCycle(g, p, q), NEW c, c = CycleOf(g, p, q),
           NEW d1, NEW d2, NEW i, NEW j, CutPlaces(p, q, i, j),
           SidesFit(PopOf(ArcOf(g, p, q, i, j)), region_pops[d1] + region_pops[d2], d1, d2)
    PROVE  <<i, j - 1>> \in ValidCuts(c, d1, d2)
  <1> DEFINE w == CollapsedWeights(c)
             N == Len(p) + Len(q)
             total == region_pops[d1] + region_pops[d2]
             x == <<i, j - 1>>
             pop1 == SumFromTo(w, x[1], x[2])
  <1>1. Len(w) = N /\ c.path1 = p /\ Len(p) \in Nat /\ Len(q) \in Nat /\ Len(p) >= 1 /\ N \in Nat
    BY WeightsAre, CycleEnds DEF CycleOf
  <1>2. i \in 1..N /\ j \in 1..N /\ i < j /\ ~(i = 1 /\ j = Len(p) + 1)
    BY DEF CutPlaces
  <1>3. PopOf(ArcOf(g, p, q, i, j)) = SumFromTo(w, i, j - 1)
    BY ArcPopIsSum
  <1> HIDE DEF w, N
  <1>4. x[1] = i /\ x[2] = j - 1
    OBVIOUS
  <1>5. i \in 1..N /\ j - 1 \in 1..N - 1 /\ i <= j - 1 /\ ~(i = 1 /\ j - 1 = Len(p))
    BY <1>1, <1>2
  <1>6. x \in (1..Len(w)) \X (1..Len(w) - 1) /\ x[1] <= x[2] /\ x # <<1, Len(c.path1)>>
    BY <1>1, <1>4, <1>5
  <1>7. \/ InBounds(pop1, d1) /\ InBounds(total - pop1, d2)
        \/ InBounds(pop1, d2) /\ InBounds(total - pop1, d1)
    BY <1>3, <1>4 DEF SidesFit
  <1> HIDE DEF x, total
  <1> QED
    BY <1>6, <1>7 DEF ValidCuts, find_valid_cut_pairs, w, x, total

\* C holds the fitting pairs, but for the pair that is taken.
AreCuts(C, G, V, total, d1, d2, taken) ==
    \A X : X \in C <=> IsFitting(G, V, total, d1, d2, X) /\ X # taken

\* The links that close the cycle.
LinksOf(p, q) == {{p[1], q[1]}, {p[Len(p)], q[Len(q)]}}

\* Two places have the links if they are those of the links.
LEMMA PlacesOfLinks ==
    ASSUME NEW g, NEW p, NEW q, IsCycle(g, p, q), NEW i \in 1..Len(p) + Len(q), NEW j \in 1..Len(p) + Len(q), i < j
    PROVE  {PlaceEdge(g, p, q, i), PlaceEdge(g, p, q, j)} = LinksOf(p, q) <=> i = 1 /\ j = Len(p) + 1
  <1> DEFINE m == Len(p)
             N == Len(p) + Len(q)
             E(h) == PlaceEdge(g, p, q, h)
  <1>1. m \in Nat /\ m >= 1 /\ N \in Nat /\ m + 1 \in 1..N /\ 1 \in 1..N
    BY CycleEnds
  <1>2. E(1) = {p[1], q[1]}
    BY <1>1, PlaceEdgeIs
  <1> DEFINE h == m + 1
  <1>3. h \in 1..N /\ h = Len(p) + 1
    BY <1>1
  <1> HIDE DEF h
  <1>4. E(h) = {p[Len(p)], q[Len(q)]}
    BY <1>3, PlaceEdgeIs
  <1>5. LinksOf(p, q) = {E(1), E(h)}
    BY <1>2, <1>4 DEF LinksOf
  <1>6. \A a, b \in 1..N : a < b => E(a) # E(b)
    BY PlacesDiffer
  <1>7. \A a, b \in 1..N : E(a) = E(b) => a = b
    BY <1>1, <1>6
  <1> HIDE DEF E, N, m
  <1>8. i \in 1..N /\ j \in 1..N
    BY DEF N
  <1>9. {E(i), E(j)} = {E(1), E(h)} <=> i = 1 /\ j = h
    <2>1. ASSUME {E(i), E(j)} = {E(1), E(h)}
          PROVE  i = 1 /\ j = h
        <3>1. (E(i) = E(1) \/ E(i) = E(h)) /\ (E(j) = E(1) \/ E(j) = E(h))
            BY <2>1
        <3>2. (i = 1 \/ i = h) /\ (j = 1 \/ j = h)
            BY <1>1, <1>3, <1>7, <1>8, <3>1
        <3> QED
            BY <1>1, <1>3, <1>8, <3>2
    <2> QED
        BY <2>1
  <1> QED
    BY <1>3, <1>5, <1>9 DEF E

\* The valid cuts on a cycle are the fitting pairs of its graph other than the links.
LEMMA CutsAre ==
    ASSUME WalkAssumption, NEW g, NEW p, NEW q, IsCycle(g, p, q), NEW d1, NEW d2, NEW total,
           total = region_pops[d1] + region_pops[d2], total = PopOf(Both(g, p[Len(p)], q[Len(q)]))
    PROVE  AreCuts(CutsOf(CycleOf(g, p, q), d1, d2), CycleGraph(g, p, q), Both(g, p[Len(p)], q[Len(q)]), total, d1, d2,
                   LinksOf(p, q))
  <1> DEFINE c == CycleOf(g, p, q)
             N == Len(p) + Len(q)
             G == CycleGraph(g, p, q)
             V == Both(g, p[Len(p)], q[Len(q)])
             E(h) == PlaceEdge(g, p, q, h)
  <1>1. Len(p) \in Nat /\ Len(q) \in Nat /\ N \in Nat
    BY CycleEnds
  <1>c. c = CycleOf(g, p, q)
    OBVIOUS
  <1>2. ASSUME NEW x \in ValidCuts(c, d1, d2)
        PROVE  /\ IsFitting(G, V, total, d1, d2, CutEdges(c, x))
               /\ CutEdges(c, x) # LinksOf(p, q)
    <2> DEFINE i == x[1]
               j == x[2] + 1
    <2>1. CutPlaces(p, q, i, j) /\ SidesFit(PopOf(ArcOf(g, p, q, i, j)), region_pops[d1] + region_pops[d2], d1, d2)
        <3> HIDE DEF c
        <3> QED
            BY <1>c, ValidCutsAre
    <2>2. CutEdges(c, x) = {E(i), E(j)}
        BY DEF CutEdges, PlaceEdge
    <2> HIDE DEF i, j, c
    <2>3. i \in 1..N /\ j \in 1..N /\ i < j /\ ~(i = 1 /\ j = Len(p) + 1)
        BY <2>1 DEF CutPlaces
    <2>4. SidesFit(PopOf(ArcOf(g, p, q, i, j)), total, d1, d2)
        BY <2>1
    <2>5. IsFitting(G, V, total, d1, d2, {E(i), E(j)})
        BY <2>3, <2>4, PlacesFit
    <2>6. {E(i), E(j)} # LinksOf(p, q)
        BY <2>3, PlacesOfLinks
    <2> QED
        BY <2>2, <2>5, <2>6
  <1>3. ASSUME NEW X, IsFitting(G, V, total, d1, d2, X), X # LinksOf(p, q)
        PROVE  X \in CutsOf(c, d1, d2)
    <2>1. AtPlaces(g, p, q, total, d1, d2, X)
        BY <1>3, FittingAtPlaces
    <2>2. PICK i \in 1..N, j \in 1..N :
              /\ i < j
              /\ X = {E(i), E(j)}
              /\ SidesFit(PopOf(ArcOf(g, p, q, i, j)), total, d1, d2)
        BY <2>1 DEF AtPlaces
    <2>3. {E(i), E(j)} # LinksOf(p, q)
        BY <1>3, <2>2
    <2>4. ~(i = 1 /\ j = Len(p) + 1)
        BY <2>2, <2>3, PlacesOfLinks
    <2>5. CutPlaces(p, q, i, j)
        BY <2>2, <2>4 DEF CutPlaces
    <2>6. <<i, j - 1>> \in ValidCuts(c, d1, d2)
        <3>1. SidesFit(PopOf(ArcOf(g, p, q, i, j)), region_pops[d1] + region_pops[d2], d1, d2)
            BY <2>2
        <3> HIDE DEF c
        <3> QED
            BY <1>c, <2>5, <3>1, ValidCutsMade
    <2>7. CutEdges(c, <<i, j - 1>>) = {E(i), E(j)}
        <3> DEFINE x == <<i, j - 1>>
        <3>1. x[1] = i /\ x[2] + 1 = j
            BY <1>1
        <3> HIDE DEF x, c
        <3>2. CutEdges(c, x) = {{EdgeAt(c, i)[1], EdgeAt(c, i)[2]}, {EdgeAt(c, j)[1], EdgeAt(c, j)[2]}}
            BY <3>1 DEF CutEdges
        <3> QED
            BY <3>2 DEF PlaceEdge, x, c
    <2> QED
        BY <2>2, <2>6, <2>7 DEF CutsOf
  <1> HIDE DEF c, G, V
  <1>4. \A X : X \in CutsOf(c, d1, d2) <=> IsFitting(G, V, total, d1, d2, X) /\ X # LinksOf(p, q)
    BY <1>2, <1>3 DEF CutsOf
  <1> QED
    BY <1>4 DEF AreCuts, c, G, V

\* The links themselves fit if the trees do.
LEMMA LinksFit ==
    ASSUME NEW g, NEW p, NEW q, IsCycle(g, p, q), NEW total, NEW d1, NEW d2,
           SidesFit(PopOf({w \in Vertices : RootOf(g, w) = p[Len(p)]}), total, d1, d2)
    PROVE  IsFitting(CycleGraph(g, p, q), Both(g, p[Len(p)], q[Len(q)]), total, d1, d2, LinksOf(p, q))
  <1> DEFINE i == 1
             j == Len(p) + 1
  <1>1. Len(p) \in Nat /\ Len(p) >= 1 /\ Len(q) \in Nat /\ Len(q) >= 1 /\ Rooted(g) /\ IsClimb(g, p)
    BY CycleEnds
  <1>2. i \in 1..Len(p) + Len(q) /\ j \in 1..Len(p) + Len(q) /\ i < j /\ i = 1 /\ j = Len(p) + 1
    BY <1>1
  <1>3. ArcOf(g, p, q, i, j) = {w \in Vertices : RootOf(g, w) = p[Len(p)]}
    <2>1. Upto(g, p, Len(p)) = {w \in Vertices : RootOf(g, w) = p[Len(p)]}
        BY <1>1, UptoFacts
    <2>2. j - 1 = Len(p) /\ i - 1 = 0 /\ j <= Len(p) + 1
        BY <1>1
    <2>3. Upto(g, p, 0) = {}
        BY DEF Upto
    <2> HIDE DEF i, j
    <2>4. ArcOf(g, p, q, i, j) = Upto(g, p, j - 1) \ Upto(g, p, i - 1)
        BY <2>2 DEF ArcOf
    <2> QED
        BY <2>1, <2>2, <2>3, <2>4
  <1> HIDE DEF i, j
  <1>4. SidesFit(PopOf(ArcOf(g, p, q, i, j)), total, d1, d2)
    BY <1>3
  <1>5. {PlaceEdge(g, p, q, i), PlaceEdge(g, p, q, j)} = LinksOf(p, q)
    BY <1>2, PlacesOfLinks
  <1>6. IsFitting(CycleGraph(g, p, q), Both(g, p[Len(p)], q[Len(q)]), total, d1, d2,
                  {PlaceEdge(g, p, q, i), PlaceEdge(g, p, q, j)})
    BY <1>2, <1>4, PlacesFit
  <1> QED
    BY <1>5, <1>6

\* A link that was made joined two trees, and is an edge more.
LEMMA LinkMade ==
    ASSUME NEW f, Rooted(f), NEW l, l[1] \in Vertices, l[2] \in Vertices, NEW h, h = TryLink(f, l[1], l[2]), h # Thrown
    PROVE  Rooted(h) /\ EdgesOf(h) = EdgesOf(f) \cup {{l[1], l[2]}}
  <1> DEFINE x == l[1]
             y == l[2]
  <1>1. x \in Vertices /\ y \in Vertices /\ h = TryLink(f, x, y)
    OBVIOUS
  <1> HIDE DEF x, y
  <1>2. RootOf(f, x) # RootOf(f, y)
    BY <1>1 DEF TryLink
  <1>3. Rooted(h) /\ EdgesOf(h) = WithEdge(EdgesOf(f), x, y)
    BY <1>1, <1>2, TryLinkFacts
  <1> QED
    BY <1>3 DEF WithEdge, x, y

\* The edges that f has in place of those of g.
Trades(g, f, cuts, links) == EdgesOf(f) = (EdgesOf(g) \ cuts) \cup links

\* An edge fewer, and one more.
LEMMA OneTraded ==
    ASSUME NEW g, Rooted(g), NEW k \in Vertices, g[k] # NULL, NEW l, l[1] \in Vertices, l[2] \in Vertices,
           NEW f, f = TryLink(TryCut(g, k), l[1], l[2]), f # Thrown
    PROVE  Trades(g, f, {{k, g[k]}}, {{l[1], l[2]}})
  <1> DEFINE h == TryCut(g, k)
  <1>1. h = CutOff(g, k)
    BY TryCutFacts
  <1>2. f = TryLink(h, l[1], l[2])
    OBVIOUS
  <1> HIDE DEF h
  <1>3. Rooted(h) /\ EdgesOf(h) = EdgesOf(g) \ {{k, g[k]}}
    BY <1>1, CutFacts
  <1>4. EdgesOf(f) = EdgesOf(h) \cup {{l[1], l[2]}}
    BY <1>2, <1>3, LinkMade
  <1> QED
    BY <1>3, <1>4 DEF Trades

\* Two edges fewer, and two more.
LEMMA TwoTraded ==
    ASSUME NEW g, Rooted(g), NEW j \in Vertices, NEW k \in Vertices, j # k, g[j] # NULL, g[k] # NULL,
           NEW l, l[1] \in Vertices, l[2] \in Vertices, NEW m, m[1] \in Vertices, m[2] \in Vertices,
           NEW f, f = TryLink(TryLink(TryCut(TryCut(g, j), k), l[1], l[2]), m[1], m[2]), f # Thrown
    PROVE  Trades(g, f, {{j, g[j]}, {k, g[k]}}, {{l[1], l[2]}, {m[1], m[2]}})
  <1> DEFINE h == TryCut(g, j)
             b == TryCut(h, k)
             t == TryLink(b, l[1], l[2])
  <1>1. h = CutOff(g, j)
    BY TryCutFacts
  <1>2. b = TryCut(h, k) /\ t = TryLink(b, l[1], l[2]) /\ f = TryLink(t, m[1], m[2])
    OBVIOUS
  <1> HIDE DEF h, b, t
  <1>3. Rooted(h) /\ EdgesOf(h) = EdgesOf(g) \ {{j, g[j]}} /\ h[k] = g[k]
    BY <1>1, CutFacts
  <1>4. b = CutOff(h, k)
    BY <1>2, <1>3, TryCutFacts
  <1>5. Rooted(b) /\ EdgesOf(b) = EdgesOf(h) \ {{k, h[k]}}
    BY <1>3, <1>4, CutFacts
  <1>6. t # Thrown
    BY <1>2 DEF TryLink
  <1>7. Rooted(t) /\ EdgesOf(t) = EdgesOf(b) \cup {{l[1], l[2]}}
    BY <1>2, <1>5, <1>6, LinkMade
  <1>8. EdgesOf(f) = EdgesOf(t) \cup {{m[1], m[2]}}
    BY <1>2, <1>7, LinkMade
  <1> DEFINE El == {l[1], l[2]}
             Em == {m[1], m[2]}
             Ej == {j, g[j]}
             Ek == {k, g[k]}
             A == EdgesOf(g)
  <1>9. /\ EdgesOf(h) = A \ {Ej} /\ EdgesOf(b) = EdgesOf(h) \ {Ek}
        /\ EdgesOf(t) = EdgesOf(b) \cup {El} /\ EdgesOf(f) = EdgesOf(t) \cup {Em}
    BY <1>3, <1>5, <1>7, <1>8
  <1> HIDE DEF El, Em, Ej, Ek, A
  <1>10. EdgesOf(f) = (A \ {Ej, Ek}) \cup {El, Em}
    BY <1>9
  <1> QED
    BY <1>10 DEF Trades, El, Em, Ej, Ek, A

\* The edge at a place that is a tree edge, as it is cut.
LEMMA CutAt ==
    ASSUME NEW g, NEW p, NEW q, IsCycle(g, p, q), NEW i \in 1..Len(p) + Len(q), i # 1, i # Len(p) + 1
    PROVE  LET k == EdgeAt(CycleOf(g, p, q), i)[2]
           IN  k \in Vertices /\ g[k] # NULL /\ PlaceEdge(g, p, q, i) = {k, g[k]}
  <1> DEFINE c == CycleOf(g, p, q)
             k == KidAt(p, q, i)
  <1>1. k \in Vertices /\ g[k] # NULL /\ EdgeAt(c, i) = EdgeTo(g, k)
    BY EdgeAtFacts
  <1> HIDE DEF c, k
  <1>2. EdgeAt(c, i)[1] = g[k] /\ EdgeAt(c, i)[2] = k
    BY <1>1 DEF EdgeTo
  <1> QED
    BY <1>1, <1>2 DEF PlaceEdge, c

\* After an update the trees and the edges that were cut make up the same graph.
LEMMA SameGraph ==
    ASSUME NEW g, NEW p, NEW q, NEW i, NEW j, NEW l1, NEW l2, OnCycle(g, p, q, i, j, l1, l2),
           NEW U, HasShape(CycleOf(g, p, q), p, i, j, l1, l2, U), NEW f, f = Updated(g, U), f # Thrown
    PROVE  EdgesOf(f) \cup {PlaceEdge(g, p, q, i), PlaceEdge(g, p, q, j)} = CycleGraph(g, p, q)
  <1> DEFINE c == CycleOf(g, p, q)
             N == Len(p) + Len(q)
             m == Len(p)
             E == EdgesOf(g)
             Ei == PlaceEdge(g, p, q, i)
             Ej == PlaceEdge(g, p, q, j)
             a == EdgeAt(c, i)
             b == EdgeAt(c, j)
             L1 == {p[1], q[1]}
             L2 == {p[Len(p)], q[Len(q)]}
  <1>1. IsCycle(g, p, q) /\ CutPlaces(p, q, i, j) /\ Either(l1, p[Len(p)], q[Len(q)]) /\ Either(l2, p[1], q[1])
    BY DEF OnCycle
  <1>2. /\ Rooted(g) /\ m \in Nat /\ m >= 1 /\ N \in Nat
        /\ p[1] \in Vertices /\ q[1] \in Vertices /\ p[Len(p)] \in Vertices /\ q[Len(q)] \in Vertices
    BY <1>1, CycleEnds
  <1>3. i \in 1..N /\ j \in 1..N /\ i < j /\ ~(i = 1 /\ j = m + 1)
    BY <1>1 DEF CutPlaces
  <1>4. /\ l1[1] \in Vertices /\ l1[2] \in Vertices /\ {l1[1], l1[2]} = L2
        /\ l2[1] \in Vertices /\ l2[2] \in Vertices /\ {l2[1], l2[2]} = L1
    BY <1>1, <1>2 DEF Either
  <1>t. l1[1] \in Vertices /\ l1[2] \in Vertices /\ l2[1] \in Vertices /\ l2[2] \in Vertices
    BY <1>4
  <1>r. Rooted(g)
    BY <1>2
  <1>5. Ei # Ej /\ (i = 1 => Ei = L1) /\ (i = m + 1 => Ei = L2) /\ (j = m + 1 => Ej = L2)
    BY <1>1, <1>3, PlacesDiffer, PlaceEdgeIs
  <1>6. i # 1 /\ i # m + 1 => a[2] \in Vertices /\ g[a[2]] # NULL /\ Ei = {a[2], g[a[2]]}
    BY <1>1, <1>3, CutAt
  <1>7. j # m + 1 => b[2] \in Vertices /\ g[b[2]] # NULL /\ Ej = {b[2], g[b[2]]}
    <2>1. j # 1
        BY <1>2, <1>3
    <2> QED
        BY <1>1, <1>3, <2>1, CutAt
  <1>8. /\ i = m + 1 => U.cuts = <<b>> /\ U.links = <<l2>>
        /\ j = m + 1 => U.cuts = <<a>> /\ U.links = <<l2>>
        /\ i = 1 => U.cuts = <<b>> /\ U.links = <<l1>>
        /\ i # 1 /\ i # m + 1 /\ j # m + 1 => U.cuts = <<a, b>> /\ U.links = <<l1, l2>>
    BY DEF HasShape
  <1>9. CycleGraph(g, p, q) = E \cup {L1, L2}
    BY DEF CycleGraph
  <1>10. \A v \in Vertices : g[v] # NULL => {v, g[v]} \in E
    BY DEF EdgesOf
  <1> DEFINE ka == a[2]
             kb == b[2]
  <1> HIDE DEF c, N, Ei, Ej, a, b, L1, L2, m, E
  <1>11. ASSUME i = m + 1
         PROVE  EdgesOf(f) \cup {Ei, Ej} = E \cup {L1, L2}
    <2>1. j # m + 1
        BY <1>2, <1>3, <1>11
    <2>2. f = TryLink(TryCut(g, kb), l2[1], l2[2])
        BY <1>8, <1>11, UpdatedOne
    <2>3. kb \in Vertices /\ g[kb] # NULL /\ Ej = {kb, g[kb]} /\ Ei = L2
        BY <1>5, <1>7, <1>11, <2>1
    <2> HIDE DEF kb
    <2>k. kb \in Vertices /\ g[kb] # NULL
        BY <2>3
    <2>4. Trades(g, f, {{kb, g[kb]}}, {{l2[1], l2[2]}})
        BY <1>r, <1>t, <2>2, <2>k, OneTraded
    <2>5. EdgesOf(f) = (E \ {Ej}) \cup {L1} /\ Ej \in E
        BY <1>4, <1>10, <2>3, <2>4 DEF E, Trades
    <2> QED
        BY <2>3, <2>5
  <1>12. ASSUME j = m + 1
         PROVE  EdgesOf(f) \cup {Ei, Ej} = E \cup {L1, L2}
    <2>1. i # m + 1 /\ i # 1
        BY <1>2, <1>3, <1>12
    <2>2. f = TryLink(TryCut(g, ka), l2[1], l2[2])
        BY <1>8, <1>12, UpdatedOne
    <2>3. ka \in Vertices /\ g[ka] # NULL /\ Ei = {ka, g[ka]} /\ Ej = L2
        BY <1>5, <1>6, <1>12, <2>1
    <2> HIDE DEF ka
    <2>k. ka \in Vertices /\ g[ka] # NULL
        BY <2>3
    <2>4. Trades(g, f, {{ka, g[ka]}}, {{l2[1], l2[2]}})
        BY <1>r, <1>t, <2>2, <2>k, OneTraded
    <2>5. EdgesOf(f) = (E \ {Ei}) \cup {L1} /\ Ei \in E
        BY <1>4, <1>10, <2>3, <2>4 DEF E, Trades
    <2> QED
        BY <2>3, <2>5
  <1>13. ASSUME i = 1
         PROVE  EdgesOf(f) \cup {Ei, Ej} = E \cup {L1, L2}
    <2>1. j # m + 1
        BY <1>3, <1>13
    <2>2. f = TryLink(TryCut(g, kb), l1[1], l1[2])
        BY <1>8, <1>13, UpdatedOne
    <2>3. kb \in Vertices /\ g[kb] # NULL /\ Ej = {kb, g[kb]} /\ Ei = L1
        BY <1>5, <1>7, <1>13, <2>1
    <2> HIDE DEF kb
    <2>k. kb \in Vertices /\ g[kb] # NULL
        BY <2>3
    <2>4. Trades(g, f, {{kb, g[kb]}}, {{l1[1], l1[2]}})
        BY <1>r, <1>t, <2>2, <2>k, OneTraded
    <2>5. EdgesOf(f) = (E \ {Ej}) \cup {L2} /\ Ej \in E
        BY <1>4, <1>10, <2>3, <2>4 DEF E, Trades
    <2> QED
        BY <2>3, <2>5
  <1>14. ASSUME i # 1, i # m + 1, j # m + 1
         PROVE  EdgesOf(f) \cup {Ei, Ej} = E \cup {L1, L2}
    <2>2. f = TryLink(TryLink(TryCut(TryCut(g, ka), kb), l1[1], l1[2]), l2[1], l2[2])
        BY <1>8, <1>14, UpdatedTwo
    <2>3. /\ ka \in Vertices /\ g[ka] # NULL /\ Ei = {ka, g[ka]}
          /\ kb \in Vertices /\ g[kb] # NULL /\ Ej = {kb, g[kb]}
        BY <1>6, <1>7, <1>14
    <2> HIDE DEF ka, kb
    <2>4. ka # kb
        BY <1>5, <2>3
    <2>k. ka \in Vertices /\ g[ka] # NULL /\ kb \in Vertices /\ g[kb] # NULL
        BY <2>3
    <2>5. Trades(g, f, {{ka, g[ka]}, {kb, g[kb]}}, {{l1[1], l1[2]}, {l2[1], l2[2]}})
        BY <1>r, <1>t, <2>2, <2>k, <2>4, TwoTraded
    <2>6. EdgesOf(f) = (E \ {Ei, Ej}) \cup {L2, L1} /\ Ei \in E /\ Ej \in E
        BY <1>4, <1>10, <2>3, <2>5 DEF E, Trades
    <2> QED
        BY <2>6
  <1>15. EdgesOf(f) \cup {Ei, Ej} = E \cup {L1, L2}
    BY <1>11, <1>12, <1>13, <1>14
  <1> QED
    BY <1>9, <1>15 DEF Ei, Ej, L1, L2

---------------------------------------------------------------------------
(***************************************************************************)
(* The cuts a move back sees                                               *)
(***************************************************************************)
\* Populations and crossing edges of the plan, and no district is out of bounds.
Books(ids, pops, edges) ==
    /\ pops = [d \in Regions |-> PopOf(Members(ids, d))]
    /\ edges = CrossEdges(ids)
    /\ \A d \in Regions : InBounds(pops[d], d)

\* The edges of the cycle stay in the two trees.
LEMMA PlaceEnds ==
    ASSUME NEW g, NEW p, NEW q, IsCycle(g, p, q), NEW i \in 1..Len(p) + Len(q)
    PROVE  PlaceEdge(g, p, q, i) \subseteq Both(g, p[Len(p)], q[Len(q)])
  <1> DEFINE a == p[1]
             b == q[1]
             P == p[Len(p)]
             Q == q[Len(q)]
             V == Both(g, P, Q)
  <1>1. /\ Rooted(g) /\ P \in Vertices /\ Q \in Vertices /\ RootOf(g, P) = P /\ RootOf(g, Q) = Q
        /\ a \in Vertices /\ RootOf(g, a) = P /\ b \in Vertices /\ RootOf(g, b) = Q
    BY CycleEnds
  <1>2. /\ i = 1 => PlaceEdge(g, p, q, i) = {a, b}
        /\ i = Len(p) + 1 => PlaceEdge(g, p, q, i) = {P, Q}
        /\ i # 1 /\ i # Len(p) + 1 => \E k \in Vertices : AtKid(g, p, q, i, k) /\ PlaceEdge(g, p, q, i) = {k, g[k]}
    BY PlaceEdgeIs
  <1>3. a \in V /\ b \in V /\ P \in V /\ Q \in V
    <2> HIDE DEF a, b, P, Q
    <2> QED
        BY <1>1 DEF Both
  <1>4. ASSUME i # 1, i # Len(p) + 1
        PROVE  PlaceEdge(g, p, q, i) \subseteq V
    <2>1. PICK k \in Vertices : AtKid(g, p, q, i, k) /\ PlaceEdge(g, p, q, i) = {k, g[k]}
        BY <1>2, <1>4
    <2>2. g[k] # NULL /\ (RootOf(g, k) = P \/ RootOf(g, k) = Q)
        BY <2>1 DEF AtKid
    <2>3. g[k] \in Vertices /\ RootOf(g, g[k]) = RootOf(g, k)
        BY <1>1, <2>2, ParentNotBelow
    <2> HIDE DEF P, Q
    <2>4. k \in V /\ g[k] \in V
        BY <2>2, <2>3 DEF Both
    <2> QED
        BY <2>1, <2>4
  <1> HIDE DEF a, b, P, Q, V
  <1>5. ASSUME i = 1 PROVE PlaceEdge(g, p, q, i) \subseteq V
    BY <1>2, <1>3, <1>5
  <1>6. ASSUME i = Len(p) + 1 PROVE PlaceEdge(g, p, q, i) \subseteq V
    BY <1>2, <1>3, <1>6
  <1>7. PlaceEdge(g, p, q, i) \subseteq V
    BY <1>4, <1>5, <1>6
  <1> QED
    BY <1>7 DEF V, P, Q

\* The trees of two roots are their districts.
LEMMA TreesAreMembers ==
    ASSUME NEW g, NEW ids, NEW roots, TreesTell(g, ids, roots), NEW P \in Vertices, NEW Q \in Vertices,
           RootOf(g, P) = P, RootOf(g, Q) = Q, NEW d1, NEW d2,
           (ids[P] = d1 /\ ids[Q] = d2) \/ (ids[P] = d2 /\ ids[Q] = d1)
    PROVE  /\ Both(g, P, Q) = Members(ids, d1) \cup Members(ids, d2)
           /\ {w \in Vertices : RootOf(g, w) = P} = Members(ids, ids[P])
  <1>1. TreesAre(g, ids)
    BY DEF TreesTell
  <1>2. \A w \in Vertices : (RootOf(g, w) = P <=> ids[w] = ids[P]) /\ (RootOf(g, w) = Q <=> ids[w] = ids[Q])
    BY <1>1 DEF TreesAre
  <1>3. {w \in Vertices : RootOf(g, w) = P} = Members(ids, ids[P])
    BY <1>2 DEF Members
  <1>4. \A w \in Vertices : RootOf(g, w) \in {P, Q} <=> ids[w] = d1 \/ ids[w] = d2
    BY <1>2
  <1>5. Both(g, P, Q) = Members(ids, d1) \cup Members(ids, d2)
    BY <1>4 DEF Both, Members
  <1> QED
    BY <1>3, <1>5

\* The populations of two districts add up to that of both.
LEMMA PopsOfTwo ==
    ASSUME WalkAssumption, NEW ids, NEW pops, NEW edges, Books(ids, pops, edges),
           NEW d1 \in Regions, NEW d2 \in Regions, d1 # d2
    PROVE  /\ pops[d1] = PopOf(Members(ids, d1)) /\ pops[d2] = PopOf(Members(ids, d2))
           /\ pops[d1] \in Int /\ pops[d2] \in Int
           /\ pops[d1] + pops[d2] = PopOf(Members(ids, d1) \cup Members(ids, d2))
           /\ SidesFit(pops[d1], pops[d1] + pops[d2], d1, d2)
           /\ SidesFit(pops[d2], pops[d1] + pops[d2], d1, d2)
  <1> DEFINE A == Members(ids, d1)
             B == Members(ids, d2)
  <1>1. A \in SUBSET Vertices /\ B \in SUBSET Vertices /\ A \cap B = {}
    BY DEF Members
  <1>2. pops[d1] = PopOf(A) /\ pops[d2] = PopOf(B) /\ InBounds(pops[d1], d1) /\ InBounds(pops[d2], d2)
    BY DEF Books
  <1> HIDE DEF A, B
  <1>3. PopOf(A) \in Int /\ PopOf(B) \in Int /\ PopOf(A \cup B) = PopOf(A) + PopOf(B)
    BY <1>1, PopFacts
  <1> DEFINE x == pops[d1]
             y == pops[d2]
  <1>4. x \in Int /\ y \in Int /\ InBounds(x, d1) /\ InBounds(y, d2)
    BY <1>2, <1>3
  <1> HIDE DEF x, y
  <1>5. (x + y) - x = y /\ (x + y) - y = x
    BY <1>4
  <1>6. SidesFit(x, x + y, d1, d2) /\ SidesFit(y, x + y, d1, d2)
    BY <1>4, <1>5 DEF SidesFit
  <1> QED
    BY <1>2, <1>3, <1>6 DEF A, B, x, y

\* x is an edge of the map between the districts.
JoinsDistricts(x, ids, d1, d2) ==
    \E e \in Edges :
        /\ x = {e[1], e[2]}
        /\ (ids[e[1]] = d1 /\ ids[e[2]] = d2) \/ (ids[e[1]] = d2 /\ ids[e[2]] = d1)

\* What is kept of a move tells which cuts there are between the districts it made: the
\* edges it cut now join them, and with the trees they make up the graph it was chosen
\* from, in which the choices were the fitting pairs.
KnowsTheCuts(f, ids, pops, m) ==
    LET G == EdgesOf(f) \cup m.chosen
        V == Members(ids, m.d1) \cup Members(ids, m.d2)
        total == pops[m.d1] + pops[m.d2]
    IN  /\ m.d1 \in Regions /\ m.d2 \in Regions /\ m.d1 # m.d2
        /\ \E x, y : /\ x # y /\ m.chosen = {x, y}
                     /\ JoinsDistricts(x, ids, m.d1, m.d2) /\ JoinsDistricts(y, ids, m.d1, m.d2)
        /\ IsFitting(G, V, total, m.d1, m.d2, m.links)
        /\ m.chosen \in m.choices
        /\ AreCuts(m.choices, G, V, total, m.d1, m.d2, m.links)

\* A move between two districts along the cycle of p and q in g.
IsMove(g, p, q, i, j, l1, l2, d1, d2, U, f, ids) ==
    /\ d1 \in Regions /\ d2 \in Regions /\ d1 # d2
    /\ OnCycle(g, p, q, i, j, l1, l2)
    /\ BetweenDistricts(g, p[Len(p)], q[Len(q)], d1, d2, l1, l2)
    /\ SidesFit(PopOf(ArcOf(g, p, q, i, j)), region_pops[d1] + region_pops[d2], d1, d2)
    /\ HasShape(CycleOf(g, p, q), p, i, j, l1, l2, U)
    /\ f = Updated(g, U) /\ f # Thrown
    /\ SharedOut(ids, ArcOf(g, p, q, i, j), d1, d2)

\* What is kept of it.
KeepsMove(m, g, p, q, i, j, d1, d2) ==
    /\ m.d1 = d1 /\ m.d2 = d2
    /\ m.links = LinksOf(p, q)
    /\ m.chosen = {PlaceEdge(g, p, q, i), PlaceEdge(g, p, q, j)}
    /\ m.choices = CutsOf(CycleOf(g, p, q), d1, d2)

\* An edge of the cycle at which the move cut joins the districts it made.
LEMMA CutJoins ==
    ASSUME NEW g, NEW p, NEW q, NEW i, NEW j, NEW l1, NEW l2, NEW d1, NEW d2, NEW U, NEW f, NEW ids,
           IsMove(g, p, q, i, j, l1, l2, d1, d2, U, f, ids),
           NEW roots, TreesTell(g, region_ids, roots), NEW h \in {i, j}
    PROVE  JoinsDistricts(PlaceEdge(g, p, q, h), ids, d1, d2)
  <1> DEFINE P == p[Len(p)]
             Q == q[Len(q)]
             N == Len(p) + Len(q)
             A == ArcOf(g, p, q, i, j)
             V == Both(g, P, Q)
             x == PlaceEdge(g, p, q, h)
  <1>1. IsCycle(g, p, q) /\ CutPlaces(p, q, i, j) /\ Either(l1, P, Q) /\ Either(l2, p[1], q[1])
    BY DEF IsMove, OnCycle
  <1>2. /\ P \in Vertices /\ Q \in Vertices /\ RootOf(g, P) = P /\ RootOf(g, Q) = Q
        /\ (region_ids[P] = d1 /\ region_ids[Q] = d2) \/ (region_ids[P] = d2 /\ region_ids[Q] = d1)
        /\ {l1[1], l1[2]} \in MapEdges /\ {l2[1], l2[2]} \in MapEdges
    BY DEF IsMove, BetweenDistricts, HasEdge
  <1>3. i \in 1..N /\ j \in 1..N /\ i < j /\ h \in 1..N
    BY <1>1 DEF CutPlaces
  <1>4. V = Members(region_ids, d1) \cup Members(region_ids, d2)
    <2>1. P \in Vertices /\ Q \in Vertices /\ RootOf(g, P) = P /\ RootOf(g, Q) = Q
        BY <1>2
    <2>2. (region_ids[P] = d1 /\ region_ids[Q] = d2) \/ (region_ids[P] = d2 /\ region_ids[Q] = d1)
        BY <1>2
    <2> HIDE DEF P, Q, N, A, V, x
    <2>3. Both(g, P, Q) = Members(region_ids, d1) \cup Members(region_ids, d2)
        BY <2>1, <2>2, TreesAreMembers
    <2> QED
        BY <2>3 DEF V
  <1>5. x \subseteq V
    BY <1>1, <1>3, PlaceEnds
  <1>6. x \in CycleGraph(g, p, q)
    BY <1>1, <1>3, PlaceInGraph
  <1>7. Straddles(x, A)
    <2>1. IsArc(g, p, q, i, j, A)
        BY <1>1, <1>3, ArcIs
    <2>2. x \in RimOf(CycleGraph(g, p, q), A)
        BY <2>1 DEF IsArc
    <2> QED
        BY <2>2 DEF RimOf
  <1>8. x \in MapEdges
    <2>1. EdgesOf(g) \subseteq MapEdges
        BY DEF TreesTell
    <2>2. {p[1], q[1]} \in MapEdges /\ {P, Q} \in MapEdges
        <3>1. {l1[1], l1[2]} = {P, Q} /\ {l2[1], l2[2]} = {p[1], q[1]}
            BY <1>1 DEF Either
        <3> QED
            BY <1>2, <3>1
    <2> QED
        BY <1>6, <2>1, <2>2 DEF CycleGraph
  <1>9. PICK e \in Edges : x = {e[1], e[2]}
    BY <1>8 DEF MapEdges
  <1>10. /\ \/ Members(ids, d1) = A /\ Members(ids, d2) = V \ A
            \/ Members(ids, d2) = A /\ Members(ids, d1) = V \ A
    BY <1>4 DEF IsMove, SharedOut
  <1> DEFINE a == e[1]
             b == e[2]
  <1> HIDE DEF A, V, x, a, b
  <1>11. a \in V /\ b \in V /\ ((a \in A /\ b \notin A) \/ (b \in A /\ a \notin A))
    <2>1. x = {a, b}
        BY <1>9 DEF a, b
    <2> QED
        BY <1>5, <1>7, <2>1 DEF Straddles
  <1>12. (ids[a] = d1 /\ ids[b] = d2) \/ (ids[a] = d2 /\ ids[b] = d1)
    <2>1. \/ a \in Members(ids, d1) /\ b \in Members(ids, d2)
          \/ a \in Members(ids, d2) /\ b \in Members(ids, d1)
        BY <1>10, <1>11
    <2> QED
        BY <2>1 DEF Members
  <1> QED
    BY <1>9, <1>12 DEF JoinsDistricts, x, a, b

\* A move that is made, and kept like this, leaves the cuts known.
LEMMA CutsStayKnown ==
    ASSUME WalkAssumption, Books(region_ids, region_pops, cross_edges),
           NEW g, NEW roots, TreesTell(g, region_ids, roots),
           NEW p, NEW q, NEW i, NEW j, NEW l1, NEW l2, NEW d1, NEW d2, NEW U, NEW f, NEW ids,
           IsMove(g, p, q, i, j, l1, l2, d1, d2, U, f, ids),
           NEW pops, NEW edges, Books(ids, pops, edges),
           NEW m, KeepsMove(m, g, p, q, i, j, d1, d2)
    PROVE  KnowsTheCuts(f, ids, pops, m)
  <1> DEFINE P == p[Len(p)]
             Q == q[Len(q)]
             N == Len(p) + Len(q)
             A == ArcOf(g, p, q, i, j)
             V == Both(g, P, Q)
             x == PlaceEdge(g, p, q, i)
             y == PlaceEdge(g, p, q, j)
             G == CycleGraph(g, p, q)
             total == region_pops[d1] + region_pops[d2]
             L == LinksOf(p, q)
  <1>1. IsCycle(g, p, q) /\ CutPlaces(p, q, i, j) /\ OnCycle(g, p, q, i, j, l1, l2) /\ Either(l1, P, Q)
    BY DEF IsMove, OnCycle
  <1>2. i \in 1..N /\ j \in 1..N /\ i < j /\ ~(i = 1 /\ j = Len(p) + 1)
    BY <1>1 DEF CutPlaces
  <1>3. /\ m.d1 = d1 /\ m.d2 = d2 /\ m.links = L /\ m.chosen = {x, y}
        /\ m.choices = CutsOf(CycleOf(g, p, q), d1, d2)
    BY DEF KeepsMove
  <1>4. d1 \in Regions /\ d2 \in Regions /\ d1 # d2
    BY DEF IsMove
  <1>5. x # y
    BY <1>1, <1>2, PlacesDiffer
  <1>6. JoinsDistricts(x, ids, d1, d2) /\ JoinsDistricts(y, ids, d1, d2)
    <2>1. i \in {i, j} /\ j \in {i, j}
        OBVIOUS
    <2> QED
        BY <2>1, CutJoins
  <1>7. EdgesOf(f) \cup {x, y} = G
    <2>1. HasShape(CycleOf(g, p, q), p, i, j, l1, l2, U) /\ f = Updated(g, U) /\ f # Thrown
        BY DEF IsMove
    <2> QED
        BY <1>1, <2>1, SameGraph
  <1>8. /\ P \in Vertices /\ Q \in Vertices /\ RootOf(g, P) = P /\ RootOf(g, Q) = Q
        /\ (region_ids[P] = d1 /\ region_ids[Q] = d2) \/ (region_ids[P] = d2 /\ region_ids[Q] = d1)
    BY DEF IsMove, BetweenDistricts
  <1> DEFINE T == {w \in Vertices : RootOf(g, w) = P}
  <1>9. V = Members(region_ids, d1) \cup Members(region_ids, d2) /\ T = Members(region_ids, region_ids[P])
    <2> HIDE DEF P, Q, N, A, V, x, y, G, total, L, T
    <2>1. /\ Both(g, P, Q) = Members(region_ids, d1) \cup Members(region_ids, d2)
          /\ {w \in Vertices : RootOf(g, w) = P} = Members(region_ids, region_ids[P])
        BY <1>8, TreesAreMembers
    <2> QED
        BY <2>1 DEF V, T
  <1>10. /\ region_pops[d1] = PopOf(Members(region_ids, d1)) /\ region_pops[d2] = PopOf(Members(region_ids, d2))
         /\ total = PopOf(Members(region_ids, d1) \cup Members(region_ids, d2))
         /\ SidesFit(region_pops[d1], total, d1, d2) /\ SidesFit(region_pops[d2], total, d1, d2)
    <2> HIDE DEF P, Q, N, A, V, x, y, G, total, L, T
    <2>1. /\ region_pops[d1] = PopOf(Members(region_ids, d1)) /\ region_pops[d2] = PopOf(Members(region_ids, d2))
          /\ region_pops[d1] + region_pops[d2] = PopOf(Members(region_ids, d1) \cup Members(region_ids, d2))
          /\ SidesFit(region_pops[d1], region_pops[d1] + region_pops[d2], d1, d2)
          /\ SidesFit(region_pops[d2], region_pops[d1] + region_pops[d2], d1, d2)
      <3>1. region_pops[d1] = PopOf(Members(region_ids, d1))
        <4>1. d1 \in Regions
            BY <1>4
        <4>2. \A d \in Regions : region_pops[d] = PopOf(Members(region_ids, d))
            BY DEF Books
        <4> QED
            BY <4>1, <4>2
      <3>2. region_pops[d2] = PopOf(Members(region_ids, d2))
          BY <1>4 DEF Books
      <3>3. region_pops[d1] + region_pops[d2] = PopOf(Members(region_ids, d1) \cup Members(region_ids, d2))
          BY <1>4, PopsOfTwo
      <3>4. SidesFit(region_pops[d1], region_pops[d1] + region_pops[d2], d1, d2)
          BY <1>4, PopsOfTwo
      <3>5. SidesFit(region_pops[d2], region_pops[d1] + region_pops[d2], d1, d2)
          BY <1>4, PopsOfTwo
      <3> QED
          BY <3>1, <3>2, <3>3, <3>4, <3>5
    <2> QED
        BY <2>1 DEF total
  <1>11. pops[d1] + pops[d2] = PopOf(Members(ids, d1) \cup Members(ids, d2))
    BY <1>4, PopsOfTwo
  <1>12. A \subseteq V /\ Members(ids, d1) \cup Members(ids, d2) = V
    <2>1. SharedOut(ids, A, d1, d2)
        BY DEF IsMove
    <2> HIDE DEF A, V
    <2> QED
        BY <1>9, <2>1 DEF SharedOut
  <1>13. SidesFit(PopOf(T), total, d1, d2)
    BY <1>8, <1>9, <1>10
  <1>14. IsFitting(G, V, total, d1, d2, L)
    BY <1>1, <1>13, LinksFit
  <1>15. IsFitting(G, V, total, d1, d2, {x, y})
    <2>1. SidesFit(PopOf(A), total, d1, d2)
        BY DEF IsMove
    <2> QED
        BY <1>1, <1>2, <2>1, PlacesFit
  <1>16. {x, y} # L
    BY <1>1, <1>2, PlacesOfLinks
  <1>17. AreCuts(CutsOf(CycleOf(g, p, q), d1, d2), G, V, total, d1, d2, L)
    <2>1. total = PopOf(V)
        BY <1>9, <1>10
    <2> QED
        BY <1>1, <2>1, CutsAre
  <1> HIDE DEF P, Q, N, A, V, x, y, G, total, L, T
  <1>18. {x, y} \in m.choices /\ AreCuts(m.choices, G, V, total, d1, d2, L)
    BY <1>3, <1>15, <1>16, <1>17 DEF AreCuts
  <1>19. pops[d1] + pops[d2] = total
    BY <1>9, <1>10, <1>11, <1>12
  <1>20. /\ EdgesOf(f) \cup m.chosen = G
         /\ Members(ids, m.d1) \cup Members(ids, m.d2) = V
         /\ pops[m.d1] + pops[m.d2] = total
    BY <1>3, <1>7, <1>12, <1>19
  <1>21. /\ \E a, b : /\ a # b /\ m.chosen = {a, b}
                      /\ JoinsDistricts(a, ids, m.d1, m.d2) /\ JoinsDistricts(b, ids, m.d1, m.d2)
         /\ IsFitting(G, V, total, m.d1, m.d2, m.links)
         /\ m.chosen \in m.choices
         /\ AreCuts(m.choices, G, V, total, m.d1, m.d2, m.links)
    BY <1>3, <1>5, <1>6, <1>14, <1>18
  <1>22. m.d1 \in Regions /\ m.d2 \in Regions /\ m.d1 # m.d2
    BY <1>3, <1>4
  <1> QED
    BY <1>20, <1>21, <1>22 DEF KnowsTheCuts

\* The edges of a pair are two.
LEMMA TwoOf ==
    ASSUME NEW S, NEW a, NEW b, a # b, S = {a, b}
    PROVE  Cardinality(S) = 2
  <1>1. IsFiniteSet({a}) /\ Cardinality({a}) = 1
    BY FS_Singleton
  <1> DEFINE R == {a}
  <1>2. b \notin R /\ IsFiniteSet(R) /\ Cardinality(R) = 1
    BY <1>1
  <1> HIDE DEF R
  <1>3. Cardinality(R \cup {b}) = Cardinality(R) + 1
    BY <1>2, FS_AddElement
  <1> QED
    BY <1>2, <1>3 DEF R

\* An edge of the map is told by its ends.
LEMMA EdgeByEnds ==
    ASSUME WalkAssumption, NEW e \in Edges, NEW o \in Edges, {e[1], e[2]} = {o[1], o[2]}
    PROVE  e = o
  <1>1. /\ e \in Vertices \X Vertices /\ o \in Vertices \X Vertices /\ e[1] < e[2] /\ o[1] < o[2]
        /\ Vertices \subseteq Int
    BY DEF WalkAssumption
  <1>2. e[1] \in Int /\ e[2] \in Int /\ o[1] \in Int /\ o[2] \in Int /\ e = <<e[1], e[2]>> /\ o = <<o[1], o[2]>>
    <2>1. e[1] \in Vertices /\ e[2] \in Vertices /\ e = <<e[1], e[2]>>
        BY <1>1
    <2>2. o[1] \in Vertices /\ o[2] \in Vertices /\ o = <<o[1], o[2]>>
        BY <1>1
    <2> QED
        BY <1>1, <2>1, <2>2
  <1> DEFINE a == e[1]
             b == e[2]
             x == o[1]
             y == o[2]
  <1>3. a \in Int /\ b \in Int /\ x \in Int /\ y \in Int /\ a < b /\ x < y /\ {a, b} = {x, y}
    BY <1>1, <1>2
  <1> HIDE DEF a, b, x, y
  <1>4. (a = x /\ b = y) \/ (a = y /\ b = x)
    BY <1>3
  <1>5. a = x /\ b = y
    BY <1>3, <1>4
  <1> QED
    BY <1>2, <1>5 DEF a, b, x, y

\* The edges that a move back would link to close its cycle.
BackEdges(m) == {e \in Edges : {e[1], e[2]} \in m.chosen}

\* They are two crossing edges of the districts of the move.
BackFacts(back, m) ==
    /\ {m.d1, m.d2} \in DOMAIN cross_edges
    /\ back \subseteq cross_edges[{m.d1, m.d2}]
    /\ Cardinality(back) = 2
    /\ \A e \in back : Crosses(e, m.d1, m.d2)
    /\ \A e, o \in back : e # o => m.chosen = {{e[1], e[2]}, {o[1], o[2]}}

\* The edges of a known move that were cut are two edges of the map that cross.
LEMMA BackCrosses ==
    ASSUME WalkAssumption, Books(region_ids, region_pops, cross_edges), NEW f, NEW m,
           KnowsTheCuts(f, region_ids, region_pops, m)
    PROVE  BackFacts(BackEdges(m), m)
  <1> DEFINE back == BackEdges(m)
             d1 == m.d1
             d2 == m.d2
  <1>b. back = {e \in Edges : {e[1], e[2]} \in m.chosen}
    BY DEF BackEdges
  <1> HIDE DEF back
  <1>1. PICK x, y : /\ x # y /\ m.chosen = {x, y}
                    /\ JoinsDistricts(x, region_ids, d1, d2) /\ JoinsDistricts(y, region_ids, d1, d2)
    BY DEF KnowsTheCuts
  <1>2. d1 # d2
    BY DEF KnowsTheCuts
  <1>3. PICK a \in Edges : /\ x = {a[1], a[2]}
                           /\ \/ region_ids[a[1]] = d1 /\ region_ids[a[2]] = d2
                              \/ region_ids[a[1]] = d2 /\ region_ids[a[2]] = d1
    BY <1>1 DEF JoinsDistricts
  <1>4. PICK b \in Edges : /\ y = {b[1], b[2]}
                           /\ \/ region_ids[b[1]] = d1 /\ region_ids[b[2]] = d2
                              \/ region_ids[b[1]] = d2 /\ region_ids[b[2]] = d1
    BY <1>1 DEF JoinsDistricts
  <1>5. a # b
    BY <1>1, <1>3, <1>4
  <1>6. ASSUME NEW e \in back
        PROVE  e = a \/ e = b
    <2>1. e \in Edges /\ ({e[1], e[2]} = x \/ {e[1], e[2]} = y)
        BY <1>1, <1>6, <1>b
    <2> QED
        BY <2>1, <1>3, <1>4, EdgeByEnds
  <1>7. a \in back /\ b \in back
    BY <1>1, <1>3, <1>4, <1>b
  <1>8. back = {a, b}
    BY <1>6, <1>7
  <1>9. Cardinality(back) = 2
    BY <1>5, <1>8, TwoOf
  <1> HIDE DEF d1, d2
  <1>10. Crosses(a, d1, d2) /\ Crosses(b, d1, d2)
    BY <1>3, <1>4 DEF Crosses
  <1> DEFINE crossing == {e \in Edges : region_ids[e[1]] # region_ids[e[2]]}
             sides(e) == {region_ids[e[1]], region_ids[e[2]]}
  <1>11. cross_edges = [w \in {sides(e) : e \in crossing} |-> {e \in crossing : sides(e) = w}]
    BY DEF Books, CrossEdges
  <1>12. a \in crossing /\ b \in crossing /\ sides(a) = {d1, d2} /\ sides(b) = {d1, d2}
    BY <1>2, <1>3, <1>4
  <1> HIDE DEF crossing, sides
  <1>13. {d1, d2} \in DOMAIN cross_edges /\ a \in cross_edges[{d1, d2}] /\ b \in cross_edges[{d1, d2}]
    BY <1>11, <1>12
  <1>14. ASSUME NEW e \in back, NEW o \in back, e # o
         PROVE  m.chosen = {{e[1], e[2]}, {o[1], o[2]}}
    <2>1. (e = a /\ o = b) \/ (e = b /\ o = a)
        BY <1>8, <1>14
    <2> QED
        BY <2>1, <1>1, <1>3, <1>4
  <1>15. \A e \in back : Crosses(e, d1, d2)
    BY <1>8, <1>10
  <1>16. back \subseteq cross_edges[{d1, d2}]
    BY <1>8, <1>13
  <1> QED
    BY <1>9, <1>13, <1>14, <1>15, <1>16 DEF d1, d2, back, BackFacts

\* The two edges are those of the pair, without their direction.
ArePair(X, e1, e2) == X = {{e1[1], e1[2]}, {e2[1], e2[2]}}

\* The cuts of the cycle are those that were kept: the move back for the one taken.
SeesTheSame(c, m) == CutsOf(c, m.d1, m.d2) = (m.choices \ {m.chosen}) \cup {m.links}

\* The cycle a move back closes has the links of the edges that were cut.
LEMMA BackLinks ==
    ASSUME NEW f, NEW c, NEW roots, NEW e1, NEW e2, NEW d1, NEW d2,
           CycleKnown(f, c, roots, e1, e2, d1, d2), NEW X, ArePair(X, e1, e2)
    PROVE  LinksOf(c.path1, c.path2) = X
  <1> DEFINE p == c.path1
             q == c.path2
             l1 == From(e1, region_ids, d1)
             l2 == From(e2, region_ids, d1)
  <1>1. Either(l1, p[Len(p)], q[Len(q)]) /\ Either(l2, p[1], q[1])
    BY DEF CycleKnown
  <1>2. {l1[1], l1[2]} = {e1[1], e1[2]} /\ {l2[1], l2[2]} = {e2[1], e2[2]}
    BY DEF From
  <1> DEFINE P == p[Len(p)]
             Q == q[Len(q)]
             u == p[1]
             v == q[1]
  <1>3. LinksOf(p, q) = {{u, v}, {P, Q}}
    BY DEF LinksOf
  <1> HIDE DEF l1, l2, P, Q, u, v, p, q
  <1>4. {l1[1], l1[2]} = {P, Q} /\ {l2[1], l2[2]} = {u, v}
    BY <1>1 DEF Either, P, Q, u, v
  <1>5. X = {{P, Q}, {u, v}}
    BY <1>2, <1>4 DEF ArePair
  <1> QED
    BY <1>3, <1>5 DEF p, q

\* The graph the cycle is in, its vertices and their population are those of the
\* move, so that the cuts are the same, but for the move itself.
LEMMA BackSeesTheSame ==
    ASSUME WalkAssumption, Books(region_ids, region_pops, cross_edges), NEW f, NEW m,
           KnowsTheCuts(f, region_ids, region_pops, m),
           NEW c, NEW roots, NEW e1, NEW e2, CycleKnown(f, c, roots, e1, e2, m.d1, m.d2),
           ArePair(m.chosen, e1, e2)
    PROVE  SeesTheSame(c, m)
  <1> DEFINE g == c.rooted
             p == c.path1
             q == c.path2
             P == p[Len(p)]
             Q == q[Len(q)]
             d1 == m.d1
             d2 == m.d2
             l1 == From(e1, region_ids, d1)
             l2 == From(e2, region_ids, d1)
             G == EdgesOf(f) \cup m.chosen
             V == Members(region_ids, d1) \cup Members(region_ids, d2)
             total == region_pops[d1] + region_pops[d2]
  <1>1. /\ c = CycleOf(g, p, q) /\ IsCycle(g, p, q) /\ TreesTell(g, region_ids, roots) /\ EdgesOf(g) = EdgesOf(f)
        /\ BetweenDistricts(g, P, Q, d1, d2, l1, l2)
    BY DEF CycleKnown
  <1>2. LinksOf(p, q) = m.chosen
    BY BackLinks
  <1>3. /\ d1 \in Regions /\ d2 \in Regions /\ d1 # d2
        /\ IsFitting(G, V, total, d1, d2, m.links)
        /\ m.chosen \in m.choices
        /\ AreCuts(m.choices, G, V, total, d1, d2, m.links)
    BY DEF KnowsTheCuts
  <1>4. CycleGraph(g, p, q) = G
    BY <1>1, <1>2 DEF CycleGraph, LinksOf
  <1>5. /\ P \in Vertices /\ Q \in Vertices /\ RootOf(g, P) = P /\ RootOf(g, Q) = Q
        /\ (region_ids[P] = d1 /\ region_ids[Q] = d2) \/ (region_ids[P] = d2 /\ region_ids[Q] = d1)
    BY <1>1 DEF BetweenDistricts
  <1>6. Both(g, P, Q) = V
    <2> HIDE DEF g, P, Q, d1, d2
    <2>1. Both(g, P, Q) = Members(region_ids, d1) \cup Members(region_ids, d2)
        BY <1>1, <1>5, TreesAreMembers
    <2> QED
        BY <2>1
  <1>7. total = PopOf(V)
    <2> HIDE DEF d1, d2
    <2>1. region_pops[d1] + region_pops[d2] = PopOf(Members(region_ids, d1) \cup Members(region_ids, d2))
        BY <1>3, PopsOfTwo
    <2> QED
        BY <2>1
  <1>8. AreCuts(CutsOf(c, d1, d2), G, V, total, d1, d2, m.chosen)
    <2>1. total = PopOf(Both(g, P, Q))
        BY <1>6, <1>7
    <2> HIDE DEF g, p, q, d1, d2
    <2>2. AreCuts(CutsOf(CycleOf(g, p, q), d1, d2), CycleGraph(g, p, q), Both(g, p[Len(p)], q[Len(q)]), total, d1, d2,
                  LinksOf(p, q))
        BY <1>1, <2>1, CutsAre
    <2> HIDE DEF G, V, total
    <2> QED
        BY <1>1, <1>2, <1>4, <1>6, <2>2
  <1> DEFINE C == CutsOf(c, d1, d2)
             fits(X) == IsFitting(G, V, total, d1, d2, X)
  <1>9. /\ \A X : X \in C <=> fits(X) /\ X # m.chosen
        /\ \A X : X \in m.choices <=> fits(X) /\ X # m.links
        /\ fits(m.links) /\ fits(m.chosen) /\ m.links # m.chosen
    BY <1>3, <1>8 DEF AreCuts
  <1> HIDE DEF C, fits
  <1>10. C = (m.choices \ {m.chosen}) \cup {m.links}
    BY <1>9
  <1> QED
    BY <1>10 DEF C, SeesTheSame

\* While the cuts are known, the move back sees them.
LEMMA MoveBackKnown ==
    ASSUME WalkAssumption, TreesTell(forest, region_ids, district_roots),
           Books(region_ids, region_pops, cross_edges),
           KnowsTheCuts(forest, region_ids, region_pops, proposal)
    PROVE  MoveBackSeesTheSameCuts
  <1> DEFINE back == BackEdges(proposal)
             pair == {proposal.d1, proposal.d2}
  <1>1. /\ pair \in DOMAIN cross_edges /\ back \subseteq cross_edges[pair] /\ Cardinality(back) = 2
        /\ \A e \in back : Crosses(e, proposal.d1, proposal.d2)
        /\ \A e, o \in back : e # o => proposal.chosen = {{e[1], e[2]}, {o[1], o[2]}}
    <2>1. BackFacts(BackEdges(proposal), proposal)
        BY BackCrosses
    <2> QED
        BY <2>1 DEF BackFacts
  <1>2. proposal.d1 \in Regions /\ proposal.d2 \in Regions /\ proposal.d1 # proposal.d2
    BY DEF KnowsTheCuts
  <1> HIDE DEF back, pair
  <1>3. ASSUME NEW e1 \in back, NEW e2 \in back, e1 # e2
        PROVE  SeesTheSame(CyclePaths(forest, region_ids, e1, e2), proposal)
    <2> DEFINE c == CyclePaths(forest, region_ids, e1, e2)
               d1 == proposal.d1
               d2 == proposal.d2
    <2>1. ArePair(proposal.chosen, e1, e2)
        BY <1>1, <1>3 DEF ArePair
    <2>2. Crosses(e1, d1, d2) /\ Crosses(e2, d1, d2) /\ d1 \in Regions /\ d2 \in Regions /\ d1 # d2
        BY <1>1, <1>2
    <2> HIDE DEF d1, d2
    <2>3. CycleKnown(forest, c, district_roots, e1, e2, d1, d2)
        BY <1>3, <2>2, PickedCycle
    <2> HIDE DEF c
    <2> USE DEF d1, d2
    <2>4. SeesTheSame(c, proposal)
        BY <2>1, <2>3, BackSeesTheSame
    <2> QED
        BY <2>4 DEF c
  <1>4. \A e1, e2 \in back :
            e1 # e2 => SeesTheSame(CyclePaths(forest, region_ids, e1, e2), proposal)
    BY <1>3
  <1> QED
    BY <1>1, <1>4 DEF MoveBackSeesTheSameCuts, SeesTheSame, CutsOf, back, BackEdges, pair

---------------------------------------------------------------------------
(***************************************************************************)
(* The invariant                                                           *)
(***************************************************************************)
\* A proposed move can be taken back: the trees are those of a forest for the old
\* districts after the update that was kept, and what else was kept is of that plan.
CanTakeBack ==
    \E g :
        /\ TreesTell(g, proposal.old_ids, proposal.old_roots) /\ EdgesOf(g) = proposal.old_forest
        /\ IsUpdate(g, proposal.update) /\ forest = Updated(g, proposal.update)
        /\ Books(proposal.old_ids, proposal.old_pops, proposal.old_edges)
        /\ proposal.d1 \in Regions /\ proposal.d2 \in Regions
        /\ region_ids # proposal.old_ids

\* Nothing was thrown, the trees and the books are of the plan, and so are those kept;
\* the cuts kept with a proposed move are those of the cycle that takes it back.
WalkInv ==
    /\ phase \in {"ready", "proposed"}
    /\ TreesTell(forest, region_ids, district_roots)
    /\ Books(region_ids, region_pops, cross_edges)
    /\ phase = "proposed" => CanTakeBack
    /\ phase = "proposed" => KnowsTheCuts(forest, region_ids, region_pops, proposal)

\* Sharing out within the bounds keeps the books right.
LEMMA BooksShared ==
    ASSUME WalkAssumption, Books(region_ids, region_pops, cross_edges),
           NEW d1 \in Regions, NEW d2 \in Regions, d1 # d2,
           NEW X, NEW ids, SharedOut(ids, X, d1, d2), SidesFit(PopOf(X), region_pops[d1] + region_pops[d2], d1, d2),
           NEW pops, pops = [region_pops EXCEPT ![d1] = PopOf(Members(ids, d1)), ![d2] = PopOf(Members(ids, d2))]
    PROVE  Books(ids, pops, CrossEdges(ids))
  <1> DEFINE A == Members(region_ids, d1)
             B == Members(region_ids, d2)
             all == A \cup B
  <1>1. /\ region_pops = [d \in Regions |-> PopOf(Members(region_ids, d))]
        /\ \A d \in Regions : InBounds(region_pops[d], d)
    BY DEF Books
  <1>2. /\ X \subseteq all
        /\ \/ Members(ids, d1) = X /\ Members(ids, d2) = all \ X
           \/ Members(ids, d2) = X /\ Members(ids, d1) = all \ X
        /\ \A d \in Regions : d # d1 /\ d # d2 => Members(ids, d) = Members(region_ids, d)
    BY DEF SharedOut
  <1>3. A \in SUBSET Vertices /\ B \in SUBSET Vertices /\ A \cap B = {}
    BY DEF Members
  <1>4. region_pops[d1] = PopOf(A) /\ region_pops[d2] = PopOf(B)
    BY <1>1
  <1> HIDE DEF A, B
  <1>5. PopOf(all) = PopOf(A) + PopOf(B) /\ all \in SUBSET Vertices
    BY <1>3, PopFacts
  <1>6. PopOf(all \ X) = PopOf(A) + PopOf(B) - PopOf(X)
    BY <1>2, <1>5, PopFacts
  <1>7. \A n : InBounds(n, d1) <=> InBounds(n, d2)
    BY DEF InBounds, WalkAssumption
  <1>8. InBounds(PopOf(X), d1) /\ InBounds(PopOf(all \ X), d2) /\ InBounds(PopOf(X), d2) /\ InBounds(PopOf(all \ X), d1)
    <2> DEFINE rest == PopOf(all \ X)
               total == region_pops[d1] + region_pops[d2]
    <2>0. total = PopOf(A) + PopOf(B)
        BY <1>4
    <2>1. total - PopOf(X) = rest
        <3>1. PopOf(A) \in Int /\ PopOf(B) \in Int /\ PopOf(X) \in Int
            BY <1>2, <1>3, <1>5, PopFacts
        <3> HIDE DEF total, all
        <3>2. rest = PopOf(A) + PopOf(B) - PopOf(X)
            BY <1>6
        <3> HIDE DEF rest
        <3> QED
            BY <2>0, <3>1, <3>2
    <2> HIDE DEF rest, total
    <2>2. SidesFit(PopOf(X), total, d1, d2)
        BY DEF total
    <2>3. (InBounds(PopOf(X), d1) /\ InBounds(rest, d2)) \/ (InBounds(PopOf(X), d2) /\ InBounds(rest, d1))
        BY <2>1, <2>2 DEF SidesFit
    <2>4. InBounds(PopOf(X), d1) /\ InBounds(rest, d2) /\ InBounds(PopOf(X), d2) /\ InBounds(rest, d1)
        BY <2>3, <1>7
    <2> QED
        BY <2>4 DEF rest
  <1>9. pops = [d \in Regions |-> PopOf(Members(ids, d))]
    <2>1. ASSUME NEW d \in Regions
          PROVE  pops[d] = PopOf(Members(ids, d))
        <3>1. CASE d = d1
            BY <3>1, <1>1
        <3>2. CASE d = d2
            BY <3>2, <1>1
        <3>3. CASE d # d1 /\ d # d2
            <4>1. pops[d] = region_pops[d] /\ Members(ids, d) = Members(region_ids, d)
                BY <3>3, <1>1, <1>2
            <4> QED
                BY <4>1, <1>1
        <3> QED
            BY <3>1, <3>2, <3>3
    <2>2. pops = [d \in Regions |-> pops[d]]
        BY <1>1
    <2> QED
        BY <2>1, <2>2
  <1>10. ASSUME NEW d \in Regions
         PROVE  InBounds(pops[d], d)
    <2>1. CASE d = d1 \/ d = d2
        BY <2>1, <1>2, <1>8, <1>9
    <2>2. CASE d # d1 /\ d # d2
        <3>1. pops[d] = region_pops[d]
            BY <2>2, <1>1
        <3> QED
            BY <3>1, <1>1
    <2> QED
        BY <2>1, <2>2
  <1> QED
    BY <1>9, <1>10 DEF Books

\* An edge within a tree is taken up, or the tree only gets another root.
LEMMA ForestWalkStep ==
    ASSUME WalkAssumption, WalkInv, internal_forest_walk
    PROVE  WalkInv' /\ phase = "ready"
  <1>1. PICK e \in Edges :
            LET u       == e[1]
                v       == e[2]
                everted == Everted(forest, u)
                path    == PathTo(everted, v)
            IN  /\ phase = "ready"
                /\ RootOf(forest, u) = RootOf(forest, v)
                /\ \/ /\ forest' = everted
                      /\ district_roots' = [district_roots EXCEPT ![region_ids[v]] = RootOf(everted, v)]
                   \/ /\ Len(path) > 2
                      /\ \E i \in 1..Len(path) - 1 :
                             LET rewired == Rewire(everted, u, v, i)
                             IN  /\ forest' = rewired.forest
                                 /\ district_roots' = [district_roots EXCEPT ![region_ids[v]] = rewired.root]
                   \/ /\ Len(path) > 2
                      /\ forest' = everted
                      /\ UNCHANGED district_roots
                /\ UNCHANGED <<region_ids, region_pops, cross_edges, phase, proposal>>
    BY DEF internal_forest_walk
  <1> DEFINE u == e[1]
             v == e[2]
             f == Everted(forest, u)
  <1>2. u \in Vertices /\ v \in Vertices /\ Adjacent(u, v)
    BY DEF WalkAssumption, Adjacent
  <1>3. TreesTell(forest, region_ids, district_roots) /\ Rooted(forest)
    BY DEF WalkInv, TreesTell
  <1>4. TreesTell(f, region_ids, district_roots)
    BY <1>2, <1>3, TreesEverted
  <1>5. Rooted(f) /\ f[u] = NULL /\ RootOf(f, v) = u
    <2>1. RootOf(forest, v) = RootOf(forest, u)
        BY <1>1
    <2> HIDE DEF u, v
    <2> QED
        BY <2>1, <1>2, <1>3, EvertedFacts
  <1>6. TreesTell(forest', region_ids, district_roots')
    <2>1. CASE forest' = f /\ district_roots' = [district_roots EXCEPT ![region_ids[v]] = RootOf(f, v)]
        <3>1. RootOf(f, v) \in Vertices /\ RootOf(f, RootOf(f, v)) = RootOf(f, v)
            BY <1>2, <1>5, RootFacts
        <3> HIDE DEF f, v
        <3> QED
            BY <2>1, <3>1, <1>2, <1>4, RootMoved
    <2>2. ASSUME NEW i \in 1..Len(PathTo(f, v)) - 1,
                 forest' = Rewire(f, u, v, i).forest,
                 district_roots' = [district_roots EXCEPT ![region_ids[v]] = Rewire(f, u, v, i).root]
          PROVE  TreesTell(forest', region_ids, district_roots')
        <3> HIDE DEF f, u, v
        <3> QED
            BY <2>2, <1>2, <1>4, <1>5, RewireTells
    <2>3. CASE forest' = f /\ UNCHANGED district_roots
        BY <2>3, <1>4
    <2> QED
        BY <1>1, <2>1, <2>2, <2>3
  <1>7. phase = "ready" /\ UNCHANGED <<region_ids, region_pops, cross_edges, phase>>
    BY <1>1
  <1>8. Books(region_ids, region_pops, cross_edges)
    BY DEF WalkInv
  <1> QED
    BY <1>6, <1>7, <1>8 DEF WalkInv

\* Looking for a move and finding none leaves the trees as they were, but for their roots.
LEMMA NoCutsStep ==
    ASSUME WalkAssumption, WalkInv, no_valid_cuts
    PROVE  WalkInv' /\ phase = "ready"
  <1>1. PICK pair \in DOMAIN cross_edges, e1 \in Edges, e2 \in Edges :
            /\ Picked(pair, e1, e2)
            /\ forest' = Everted(Everted(CyclePaths(forest, region_ids, e1, e2).rooted,
                                         district_roots[Min(pair)]), district_roots[Max(pair)])
            /\ UNCHANGED <<district_roots, region_ids, region_pops, cross_edges, phase, proposal>>
    BY DEF no_valid_cuts
  <1> DEFINE d1 == Min(pair)
             d2 == Max(pair)
             c == CyclePaths(forest, region_ids, e1, e2)
             g == c.rooted
  <1>2. phase = "ready" /\ e1 \in cross_edges[pair] /\ e2 \in cross_edges[pair] /\ e1 # e2
    BY <1>1 DEF Picked
  <1>3. /\ TreesTell(forest, region_ids, district_roots) /\ Books(region_ids, region_pops, cross_edges)
        /\ region_ids \in [Vertices -> Regions] /\ district_roots \in [Regions -> Vertices]
    BY DEF WalkInv, TreesTell, RootsIn
  <1>4. d1 \in Regions /\ d2 \in Regions /\ d1 # d2 /\ \A e \in cross_edges[pair] : Crosses(e, d1, d2)
    BY <1>3, PairCrosses DEF Books
  <1>5. CycleKnown(forest, c, district_roots, e1, e2, d1, d2)
    <2> HIDE DEF d1, d2
    <2> QED
        BY <1>2, <1>3, <1>4, PickedCycle
  <1>6. TreesTell(g, region_ids, district_roots)
    BY <1>5 DEF CycleKnown
  <1> HIDE DEF g, d1, d2
  <1>7. TreesTell(Everted(Everted(g, district_roots[d1]), district_roots[d2]), region_ids, district_roots)
    <2>1. district_roots[d1] \in Vertices /\ district_roots[d2] \in Vertices
        BY <1>3, <1>4
    <2>2. TreesTell(Everted(g, district_roots[d1]), region_ids, district_roots)
        BY <2>1, <1>6, TreesEverted
    <2> QED
        BY <2>1, <2>2, TreesEverted
  <1>8. TreesTell(forest', region_ids, district_roots)
    BY <1>1, <1>7 DEF g, d1, d2
  <1> QED
    BY <1>1, <1>2, <1>3, <1>8 DEF WalkInv

\* A move is proposed: the update is made, never thrown at, and can be taken back.
LEMMA ProposeStep ==
    ASSUME WalkAssumption, WalkInv, propose
    PROVE  WalkInv' /\ phase = "ready"
  <1>1. PICK pair \in DOMAIN cross_edges, e1 \in Edges, e2 \in Edges : 
            /\ Picked(pair, e1, e2)
            /\ LET d1 == Min(pair)
                   d2 == Max(pair)
                   c  == CyclePaths(forest, region_ids, e1, e2)
                   valid == ValidCuts(c, d1, d2)
               IN  \E cuts \in valid :
                   LET plain  == UpdateOf(EdgeAt(c, cuts[1]), EdgeAt(c, cuts[2] + 1),
                                          From(e1, region_ids, d1), From(e2, region_ids, d1))
                       position == LinkPosition(c, plain.links[1][1])
                       update == [cuts |-> plain.cuts, links |-> plain.links,
                                  swap_link11 |-> swap_assignment_check(position, cuts, Len(c.path1),
                                                                        CollapsedWeights(c))]
                       f == Updated(c.rooted, update)
                   IN  IF f = Thrown
                       THEN phase' = "thrown" /\ UNCHANGED <<planVars, proposal>>
                       ELSE /\ apply_update(f, update, d1, d2)
                            /\ phase' = "proposed"
                            /\ proposal' = [update |-> update, d1 |-> d1, d2 |-> d2,
                                            links |-> {{e1[1], e1[2]}, {e2[1], e2[2]}},
                                            chosen |-> CutEdges(c, cuts),
                                            choices |-> {CutEdges(c, p) : p \in valid},
                                            old_forest |-> EdgesOf(forest),
                                            old_roots |-> district_roots,
                                            old_ids |-> region_ids,
                                            old_pops |-> region_pops,
                                            old_edges |-> cross_edges]
    BY DEF propose
  <1> DEFINE d1 == Min(pair)
             d2 == Max(pair)
             c == CyclePaths(forest, region_ids, e1, e2)
             g == c.rooted
             p == c.path1
             q == c.path2
             P == p[Len(p)]
             Q == q[Len(q)]
             l1 == From(e1, region_ids, d1)
             l2 == From(e2, region_ids, d1)
  <1>2. PICK cuts \in ValidCuts(c, d1, d2) :
            LET plain  == UpdateOf(EdgeAt(c, cuts[1]), EdgeAt(c, cuts[2] + 1), l1, l2)
                position == LinkPosition(c, plain.links[1][1])
                update == [cuts |-> plain.cuts, links |-> plain.links,
                           swap_link11 |-> swap_assignment_check(position, cuts, Len(c.path1),
                                                                 CollapsedWeights(c))]
                f == Updated(c.rooted, update)
            IN  IF f = Thrown
                THEN phase' = "thrown" /\ UNCHANGED <<planVars, proposal>>
                ELSE /\ apply_update(f, update, d1, d2)
                     /\ phase' = "proposed"
                     /\ proposal' = [update |-> update, d1 |-> d1, d2 |-> d2,
                                     links |-> {{e1[1], e1[2]}, {e2[1], e2[2]}},
                                     chosen |-> CutEdges(c, cuts),
                                     choices |-> {CutEdges(c, x) : x \in ValidCuts(c, d1, d2)},
                                     old_forest |-> EdgesOf(forest),
                                     old_roots |-> district_roots,
                                     old_ids |-> region_ids,
                                     old_pops |-> region_pops,
                                     old_edges |-> cross_edges]
    BY <1>1
  <1> DEFINE i == cuts[1]
             j == cuts[2] + 1
             plain == UpdateOf(EdgeAt(c, i), EdgeAt(c, j), l1, l2)
             swap == swap_assignment_check(LinkPosition(c, plain.links[1][1]), cuts, Len(c.path1), CollapsedWeights(c))
             update == [cuts |-> plain.cuts, links |-> plain.links, swap_link11 |-> swap]
             f == Updated(g, update)
             X == ArcOf(g, p, q, i, j)
  <1>3. phase = "ready" /\ e1 \in cross_edges[pair] /\ e2 \in cross_edges[pair] /\ e1 # e2
    BY <1>1 DEF Picked
  <1>4. /\ TreesTell(forest, region_ids, district_roots) /\ Books(region_ids, region_pops, cross_edges)
        /\ region_ids \in [Vertices -> Regions]
    BY DEF WalkInv, TreesTell
  <1>5. d1 \in Regions /\ d2 \in Regions /\ d1 # d2 /\ \A e \in cross_edges[pair] : Crosses(e, d1, d2)
    BY <1>4, PairCrosses DEF Books
  <1>6. CycleKnown(forest, c, district_roots, e1, e2, d1, d2)
    <2> HIDE DEF d1, d2
    <2> QED
        BY <1>3, <1>4, <1>5, PickedCycle
  <1>7. /\ c = CycleOf(g, p, q) /\ IsCycle(g, p, q)
        /\ TreesTell(g, region_ids, district_roots) /\ EdgesOf(g) = EdgesOf(forest)
        /\ Either(l1, P, Q) /\ Either(l2, p[1], q[1])
        /\ BetweenDistricts(g, P, Q, d1, d2, l1, l2)
    BY <1>6 DEF CycleKnown
  <1>8. CutPlaces(p, q, i, j) /\ SidesFit(PopOf(X), region_pops[d1] + region_pops[d2], d1, d2)
    <2> HIDE DEF d1, d2, c, g, p, q
    <2> QED
        BY <1>7, ValidCutsAre
  <1>9. Makes(g, update, f, P, Q, X, l1, l2)
    <2>1. OnCycle(g, p, q, i, j, l1, l2)
        BY <1>7, <1>8 DEF OnCycle
    <2>2. update.cuts = plain.cuts /\ update.links = plain.links /\ f = Updated(g, update)
        OBVIOUS
    <2>3. plain = UpdateOf(EdgeAt(c, i), EdgeAt(c, j), l1, l2)
        OBVIOUS
    <2> HIDE DEF c, g, p, q, l1, l2, i, j, plain, update, f
    <2>4. c = CycleOf(g, p, q)
        BY <1>7
    <2> QED
        BY <2>1, <2>2, <2>3, <2>4, UpdateMakes
  <1>10. f # Thrown /\ IsUpdate(g, update)
    BY <1>9 DEF Makes, Traded
  <1>11. /\ apply_update(f, update, d1, d2)
         /\ phase' = "proposed"
         /\ proposal'.update = update /\ proposal'.d1 = d1 /\ proposal'.d2 = d2
         /\ proposal'.old_forest = EdgesOf(forest) /\ proposal'.old_roots = district_roots
         /\ proposal'.old_ids = region_ids /\ proposal'.old_pops = region_pops /\ proposal'.old_edges = cross_edges
         /\ proposal'.links = {{e1[1], e1[2]}, {e2[1], e2[2]}}
         /\ proposal'.chosen = CutEdges(c, cuts)
         /\ proposal'.choices = {CutEdges(c, x) : x \in ValidCuts(c, d1, d2)}
    <2>1. IF f = Thrown
          THEN phase' = "thrown" /\ UNCHANGED <<planVars, proposal>>
          ELSE /\ apply_update(f, update, d1, d2)
               /\ phase' = "proposed"
               /\ proposal' = [update |-> update, d1 |-> d1, d2 |-> d2,
                               links |-> {{e1[1], e1[2]}, {e2[1], e2[2]}},
                               chosen |-> CutEdges(c, cuts),
                               choices |-> {CutEdges(c, x) : x \in ValidCuts(c, d1, d2)},
                               old_forest |-> EdgesOf(forest),
                               old_roots |-> district_roots,
                               old_ids |-> region_ids,
                               old_pops |-> region_pops,
                               old_edges |-> cross_edges]
        BY <1>2
    <2> HIDE DEF f, update, d1, d2, c
    <2> QED
        BY <1>10, <2>1
  <1>m. HasShape(CycleOf(g, p, q), p, i, j, l1, l2, update) /\ OnCycle(g, p, q, i, j, l1, l2)
    <2>1. OnCycle(g, p, q, i, j, l1, l2)
        BY <1>7, <1>8 DEF OnCycle
    <2>2. update.cuts = plain.cuts /\ update.links = plain.links
        OBVIOUS
    <2>3. plain = UpdateOf(EdgeAt(c, i), EdgeAt(c, j), l1, l2)
        OBVIOUS
    <2> HIDE DEF c, g, p, q, l1, l2, i, j, plain, update, f
    <2>4. c = CycleOf(g, p, q)
        BY <1>7
    <2>5. HasShape(c, p, i, j, l1, l2, UpdateOf(EdgeAt(c, i), EdgeAt(c, j), l1, l2))
        BY <2>1, <2>4, UpdateShape
    <2> QED
        BY <2>1, <2>2, <2>3, <2>4, <2>5 DEF HasShape
  <1>n. KeepsMove(proposal', g, p, q, i, j, d1, d2)
    <2> DEFINE m == proposal'
    <2>1. LinksOf(p, q) = m.links
        <3>1. ArePair(m.links, e1, e2)
            BY <1>11 DEF ArePair
        <3> HIDE DEF m, c, d1, d2
        <3> QED
            BY <3>1, <1>6, BackLinks
    <2>2. m.chosen = {PlaceEdge(g, p, q, i), PlaceEdge(g, p, q, j)}
        <3> HIDE DEF c, g, p, q
        <3> QED
            BY <1>7, <1>11 DEF CutEdges, PlaceEdge
    <2>3. m.choices = CutsOf(CycleOf(g, p, q), d1, d2)
        <3> HIDE DEF c, g, p, q
        <3> QED
            BY <1>7, <1>11 DEF CutsOf
    <2> QED
        BY <1>11, <2>1, <2>2, <2>3 DEF KeepsMove
  <1> DEFINE roots == NewRoots(f, region_ids, update, d1)
             ids == Reassigned(f, roots, d1, d2)
             pops == [region_pops EXCEPT ![d1] = PopOf(Members(ids, d1)), ![d2] = PopOf(Members(ids, d2))]
  <1> HIDE DEF d1, d2, c, g, p, q, P, Q, l1, l2, i, j, plain, swap, update, f, X
  <1>12. /\ forest' = f /\ district_roots' = [district_roots EXCEPT ![d1] = roots[1], ![d2] = roots[2]]
         /\ region_ids' = ids /\ region_pops' = pops /\ cross_edges' = CrossEdges(ids)
    BY <1>11 DEF apply_update
  <1>13. /\ TreesTell(f, ids, [district_roots EXCEPT ![d1] = roots[1], ![d2] = roots[2]])
         /\ SharedOut(ids, X, d1, d2)
         /\ ids # region_ids
    <2> HIDE DEF roots, ids
    <2>1. roots = NewRoots(f, region_ids, update, d1) /\ ids = Reassigned(f, roots, d1, d2)
        BY DEF roots, ids
    <2> QED
        BY <2>1, <1>7, <1>9, UpdateTells
  <1> HIDE DEF roots, ids
  <1>14. Books(ids, pops, CrossEdges(ids))
    <2>1. pops = [region_pops EXCEPT ![d1] = PopOf(Members(ids, d1)), ![d2] = PopOf(Members(ids, d2))]
        OBVIOUS
    <2> HIDE DEF pops
    <2> QED
        BY <2>1, <1>4, <1>5, <1>8, <1>13, BooksShared
  <1> HIDE DEF pops
  <1>15. CanTakeBack'
    <2>1. /\ TreesTell(g, proposal'.old_ids, proposal'.old_roots) /\ EdgesOf(g) = proposal'.old_forest
          /\ IsUpdate(g, proposal'.update) /\ forest' = Updated(g, proposal'.update)
          /\ Books(proposal'.old_ids, proposal'.old_pops, proposal'.old_edges)
          /\ proposal'.d1 \in Regions /\ proposal'.d2 \in Regions
          /\ region_ids' # proposal'.old_ids
        BY <1>4, <1>5, <1>7, <1>10, <1>11, <1>12, <1>13 DEF f
    <2> QED
        BY <2>1 DEF CanTakeBack
  <1>16. KnowsTheCuts(f, ids, pops, proposal')
    <2>1. IsMove(g, p, q, i, j, l1, l2, d1, d2, update, f, ids)
        BY <1>5, <1>7, <1>8, <1>10, <1>13, <1>m DEF IsMove, f, P, Q, X
    <2>2. TreesTell(g, region_ids, district_roots)
        BY <1>7
    <2> QED
        BY <2>1, <2>2, <1>4, <1>14, <1>n, CutsStayKnown
  <1>17. KnowsTheCuts(forest, region_ids, region_pops, proposal)'
    BY <1>12, <1>16
  <1> QED
    BY <1>3, <1>11, <1>12, <1>13, <1>14, <1>15, <1>17 DEF WalkInv

\* A rejected move is taken back.
LEMMA RejectStep ==
    ASSUME WalkInv, reject
    PROVE  WalkInv' /\ EdgesOf(forest') = proposal.old_forest
  <1> DEFINE f == Undone(forest, proposal.update)
             roots == proposal.old_roots
             ids == proposal.old_ids
  <1>1. phase = "proposed"
    BY DEF reject
  <1>2. CanTakeBack
    BY <1>1 DEF WalkInv
  <1>3. PICK g :
            /\ TreesTell(g, ids, roots) /\ EdgesOf(g) = proposal.old_forest
            /\ IsUpdate(g, proposal.update) /\ forest = Updated(g, proposal.update)
            /\ Books(ids, proposal.old_pops, proposal.old_edges)
            /\ proposal.d1 \in Regions /\ proposal.d2 \in Regions
            /\ region_ids # ids
    BY <1>2 DEF CanTakeBack
  <1>4. Rooted(g) /\ roots \in [Regions -> Vertices]
    BY <1>3 DEF TreesTell, RootsIn
  <1>5. Rooted(forest)
    BY DEF WalkInv, TreesTell
  <1>6. roots[proposal.d1] \in Vertices /\ roots[proposal.d2] \in Vertices
    BY <1>3, <1>4
  <1>7. forest # Thrown
    BY <1>5, <1>6, NotThrown
  <1>8. Rooted(f) /\ f # Thrown /\ EdgesOf(f) = EdgesOf(g)
    BY <1>3, <1>4, <1>7, UndoneFacts
  <1> DEFINE h == Everted(Everted(f, roots[proposal.d1]), roots[proposal.d2])
  <1>9. /\ forest' = h /\ district_roots' = roots /\ region_ids' = ids
        /\ region_pops' = proposal.old_pops /\ cross_edges' = proposal.old_edges /\ phase' = "ready"
    BY <1>8 DEF reject
  <1>10. TreesTell(f, ids, roots)
    BY <1>3, <1>8, TreesKept
  <1> HIDE DEF f, roots, ids
  <1>11. TreesTell(h, ids, roots) /\ EdgesOf(h) = EdgesOf(f)
    BY <1>6, <1>10, TreesEverted
  <1> HIDE DEF h
  <1> QED
    BY <1>3, <1>8, <1>9, <1>11 DEF WalkInv

---------------------------------------------------------------------------
(***************************************************************************)
(* The first state                                                         *)
(***************************************************************************)
\* The vertices met going up from v, as IsForest goes up.
IsAbove(a, f, v) ==
    a = [k \in 0..Cardinality(Vertices) |-> IF k = 0 THEN v ELSE IF a[k - 1] = NULL THEN NULL ELSE f[a[k - 1]]]

AboveOf(f, v) == CHOOSE a : IsAbove(a, f, v)

\* IsForest is about them.
LEMMA ForestIs ==
    ASSUME NEW f
    PROVE  IsForest(f) <=> \A v \in Vertices : AboveOf(f, v)[Cardinality(Vertices)] = NULL
BY DEF IsForest, AboveOf, IsAbove

\* The number of vertices is one.
LEMMA VertexCount == Cardinality(Vertices) \in Nat
BY FS_CardinalityType, VerticesAssumption

\* Going up is defined.
LEMMA AboveExists ==
    ASSUME NEW f \in Parents, NEW v \in Vertices
    PROVE  IsAbove(AboveOf(f, v), f, v)
  <1> DEFINE N == Cardinality(Vertices)
             D == Vertices \cup {NULL}
             up == [x \in D |-> IF x = NULL THEN NULL ELSE f[x]]
             h == [n \in 1..N |-> up]
  <1>1. N \in Nat
    BY VertexCount
  <1>2. up \in [D -> D]
    <2> SUFFICES ASSUME NEW x \in D
                 PROVE  (IF x = NULL THEN NULL ELSE f[x]) \in D
        OBVIOUS
    <2> QED
        BY DEF Parents
  <1>3. h \in [1..N -> [D -> D]] /\ v \in D /\ \A n \in 1..N : \A x \in D : h[n][x] = IF x = NULL THEN NULL ELSE f[x]
    BY <1>2
  <1> HIDE DEF N, D, up, h
  <1>4. PICK a \in [0..N -> D] : IsIteration(a, N, v, h)
    BY <1>1, <1>3, IterationExists
  <1>5. ASSUME NEW k \in 0..N
        PROVE  a[k] = IF k = 0 THEN v ELSE IF a[k - 1] = NULL THEN NULL ELSE f[a[k - 1]]
    <2>1. a[k] = IF k = 0 THEN v ELSE h[k][a[k - 1]]
        BY <1>4 DEF IsIteration
    <2>2. CASE k = 0
        BY <2>1, <2>2
    <2>3. CASE k # 0
        <3>1. k \in 1..N /\ k - 1 \in 0..N
            BY <2>3, <1>1
        <3>2. a[k - 1] \in D
            BY <3>1, <1>4
        <3> QED
            BY <2>1, <2>3, <3>1, <3>2, <1>3
    <2> QED
        BY <2>2, <2>3
  <1>6. IsAbove(a, f, v)
    BY <1>4, <1>5 DEF IsAbove, N
  <1> QED
    BY <1>6 DEF AboveOf

\* Going up from the parent is one step ahead.
LEMMA AboveShift ==
    ASSUME NEW f \in Parents, NEW v \in Vertices, f[v] # NULL
    PROVE  \A k \in Nat : k + 1 <= Cardinality(Vertices) => AboveOf(f, f[v])[k] = AboveOf(f, v)[k + 1]
  <1> DEFINE N == Cardinality(Vertices)
             a == AboveOf(f, v)
             b == AboveOf(f, f[v])
             S == {k \in Nat : k + 1 <= N => b[k] = a[k + 1]}
  <1>1. N \in Nat /\ f[v] \in Vertices
    BY VertexCount, ParentType
  <1>2. IsAbove(a, f, v) /\ IsAbove(b, f, f[v])
    BY <1>1, AboveExists
  <1>3. /\ \A k \in 0..N : a[k] = IF k = 0 THEN v ELSE IF a[k - 1] = NULL THEN NULL ELSE f[a[k - 1]]
        /\ \A k \in 0..N : b[k] = IF k = 0 THEN f[v] ELSE IF b[k - 1] = NULL THEN NULL ELSE f[b[k - 1]]
    BY <1>2 DEF IsAbove
  <1> HIDE DEF a, b, N
  <1>4. 0 \in S
    <2> SUFFICES ASSUME 0 + 1 <= N
                 PROVE  b[0] = a[0 + 1]
        OBVIOUS
    <2>1. 0 \in 0..N /\ 1 \in 0..N /\ 1 - 1 = 0 /\ 0 + 1 = 1
        BY <1>1
    <2>2. a[0] = v /\ b[0] = f[v]
        BY <2>1, <1>3
    <2>3. a[1] = IF a[0] = NULL THEN NULL ELSE f[a[0]]
        BY <2>1, <1>3
    <2> QED
        BY <2>1, <2>2, <2>3, VerticesAssumption
  <1>5. ASSUME NEW k \in Nat, k \in S
        PROVE  k + 1 \in S
    <2> SUFFICES ASSUME (k + 1) + 1 <= N
                 PROVE  b[k + 1] = a[(k + 1) + 1]
        OBVIOUS
    <2>1. k + 1 <= N /\ k + 1 \in 0..N /\ (k + 1) + 1 \in 0..N /\ (k + 1) - 1 = k /\ ((k + 1) + 1) - 1 = k + 1
          /\ k + 1 # 0 /\ (k + 1) + 1 # 0
        BY <1>1
    <2>2. b[k] = a[k + 1]
        BY <2>1, <1>5
    <2>3. b[k + 1] = IF b[k] = NULL THEN NULL ELSE f[b[k]]
        BY <2>1, <1>3
    <2>4. a[(k + 1) + 1] = IF a[k + 1] = NULL THEN NULL ELSE f[a[k + 1]]
        BY <2>1, <1>3
    <2> QED
        BY <2>2, <2>3, <2>4
  <1>6. Nat \subseteq S
    <2> HIDE DEF S
    <2> QED
        BY <1>4, <1>5, SetInduction
  <1> QED
    BY <1>6 DEF a, b, N

\* A forest is rooted: the number of steps to the end falls on the way up.
LEMMA ForestIsRooted ==
    ASSUME NEW f \in Parents, IsForest(f)
    PROVE  Rooted(f)
  <1> DEFINE N == Cardinality(Vertices)
             Ends(v) == {k \in 0..N : AboveOf(f, v)[k] = NULL}
             Least(v, n) == n \in Ends(v) /\ \A m \in Ends(v) : n <= m
             D == [v \in Vertices |-> CHOOSE n : Least(v, n)]
  <1>1. N \in Nat
    BY VertexCount
  <1>2. ASSUME NEW v \in Vertices
        PROVE  Least(v, D[v]) /\ D[v] \in Nat
    <2>1. Ends(v) \in SUBSET Nat /\ N \in Ends(v)
        BY <1>1, ForestIs
    <2>2. \E n \in Ends(v) : \A m \in Ends(v) : n <= m
        <3> HIDE DEF Ends
        <3> QED
            BY <2>1, LeastElement
    <2>3. \E n : Least(v, n)
        BY <2>2
    <2> HIDE DEF Ends
    <2> QED
        BY <2>1, <2>3
  <1>3. ASSUME NEW v \in Vertices, f[v] # NULL
        PROVE  D[f[v]] < D[v]
    <2> DEFINE a == AboveOf(f, v)
               b == AboveOf(f, f[v])
    <2>1. f[v] \in Vertices
        BY <1>3, ParentType
    <2>2. Least(v, D[v]) /\ D[v] \in Nat /\ Least(f[v], D[f[v]]) /\ D[f[v]] \in Nat
        BY <1>2, <2>1
    <2> HIDE DEF D
    <2>3. a[D[v]] = NULL /\ D[v] \in 0..N
        BY <2>2
    <2>4. IsAbove(a, f, v)
        BY AboveExists
    <2>5. a[0] = v
        BY <1>1, <2>4 DEF IsAbove
    <2>6. D[v] # 0
        BY <2>3, <2>5, VerticesAssumption
    <2> DEFINE k == D[v] - 1
    <2>7. k \in Nat /\ k + 1 = D[v] /\ k + 1 <= N /\ k \in 0..N
        BY <1>1, <2>3, <2>6
    <2>8. b[k] = a[k + 1]
        BY <1>3, <2>7, AboveShift
    <2>9. k \in Ends(f[v])
        BY <2>3, <2>7, <2>8
    <2> HIDE DEF k
    <2>10. D[f[v]] <= k
        BY <2>2, <2>9
    <2> QED
        BY <2>2, <2>7, <2>10
  <1>4. D \in [Vertices -> Nat]
    BY <1>2
  <1> HIDE DEF D
  <1>5. Falls(f, D)
    BY <1>3, <1>4 DEF Falls
  <1> QED
    BY <1>5 DEF Rooted

\* Spanning trees of the districts that are given tell them.
LEMMA SpanningForestsTell ==
    ASSUME WalkAssumption, NEW f \in SpanningForests, NEW roots,
           roots = [d \in Regions |-> CHOOSE v \in Members(init_plan, d) : f[v] = NULL]
    PROVE  TreesTell(f, init_plan, roots)
  <1> DEFINE R(d) == {v \in Members(init_plan, d) : f[v] = NULL}
  <1>1. /\ f \in Parents
        /\ \A v \in Vertices : f[v] # NULL => Adjacent(v, f[v]) /\ init_plan[v] = init_plan[f[v]]
        /\ \A d \in Regions : Cardinality(R(d)) = 1
        /\ IsForest(f)
    BY DEF SpanningForests
  <1>2. init_plan \in [Vertices -> Regions]
    BY DEF WalkAssumption
  <1>3. Rooted(f)
    BY <1>1, ForestIsRooted
  <1>4. EdgesOf(f) \subseteq MapEdges
    BY <1>1, EdgesOnMap
  <1>5. ASSUME NEW d \in Regions
        PROVE  \E x : R(d) = {x}
    <2>1. R(d) \subseteq Vertices
        BY DEF Members
    <2>2. IsFiniteSet(R(d))
        BY <2>1, FS_Subset, VerticesAssumption
    <2> HIDE DEF R
    <2> QED
        BY <2>2, <1>1, FS_Singleton
  <1>6. \A v \in Vertices : init_plan[RootOf(f, v)] = init_plan[v]
    <2> DEFINE S == {v \in Vertices : init_plan[RootOf(f, v)] = init_plan[v]}
    <2>1. ASSUME NEW v \in Vertices, f[v] = NULL \/ f[v] \in S
          PROVE  v \in S
        <3>1. RootOf(f, v) = IF f[v] = NULL THEN v ELSE RootOf(f, f[v])
            BY <1>3, RootStep
        <3>2. CASE f[v] = NULL
            BY <3>1, <3>2
        <3>3. CASE f[v] # NULL
            <4>1. f[v] \in S /\ init_plan[v] = init_plan[f[v]]
                BY <2>1, <3>3, <1>1
            <4> QED
                BY <3>1, <3>3, <4>1
        <3> QED
            BY <3>2, <3>3
    <2> HIDE DEF S
    <2>2. \A v \in Vertices : v \in S
        BY <1>3, <2>1, ForestInduction
    <2> QED
        BY <2>2 DEF S
  <1>7. \A v \in Vertices : RootOf(f, v) \in R(init_plan[v])
    BY <1>3, <1>6, RootFacts DEF Members
  <1>8. TreesAre(f, init_plan)
    <2>1. ASSUME NEW v \in Vertices, NEW w \in Vertices, init_plan[v] = init_plan[w]
          PROVE  RootOf(f, v) = RootOf(f, w)
        <3>1. init_plan[v] \in Regions
            BY <1>2
        <3>2. PICK x : R(init_plan[v]) = {x}
            BY <3>1, <1>5
        <3>3. RootOf(f, v) \in R(init_plan[v]) /\ RootOf(f, w) \in R(init_plan[v])
            BY <1>7, <2>1
        <3> HIDE DEF R
        <3> QED
            BY <3>2, <3>3
    <2>2. \A v, w \in Vertices : RootOf(f, v) = RootOf(f, w) => init_plan[v] = init_plan[w]
        BY <1>6
    <2> QED
        BY <2>1, <2>2 DEF TreesAre
  <1>9. RootsIn(init_plan, roots)
    <2>1. ASSUME NEW d \in Regions
          PROVE  roots[d] \in Members(init_plan, d)
        <3>1. \E v \in Members(init_plan, d) : f[v] = NULL
            BY <1>5
        <3> QED
            BY <3>1
    <2> QED
        BY <2>1 DEF RootsIn, Members
  <1> QED
    BY <1>2, <1>3, <1>4, <1>8, <1>9 DEF TreesTell

---------------------------------------------------------------------------
(***************************************************************************)
(* The theorems                                                            *)
(***************************************************************************)
\* The chain starts in the invariant.
LEMMA InitWalkInv ==
    ASSUME WalkAssumption, Init
    PROVE  WalkInv
  <1>1. forest \in SpanningForests /\ region_ids = init_plan /\ phase = "ready"
    BY DEF Init
  <1>2. district_roots = [d \in Regions |-> CHOOSE v \in Members(init_plan, d) : forest[v] = NULL]
    BY DEF Init
  <1>3. TreesTell(forest, region_ids, district_roots)
    BY <1>1, <1>2, SpanningForestsTell
  <1>4. Books(region_ids, region_pops, cross_edges)
    BY DEF Init, Books
  <1> QED
    BY <1>1, <1>3, <1>4 DEF WalkInv

\* Every step keeps it; only a rejected move has the districts it kept afterwards.
LEMMA NextWalkInv ==
    ASSUME WalkAssumption, WalkInv, [Next]_vars
    PROVE  /\ WalkInv'
           /\ \/ UNCHANGED vars
              \/ phase = "proposed" /\ region_ids' = proposal.old_ids => EdgesOf(forest') = proposal.old_forest
  <1>1. CASE internal_forest_walk
    BY <1>1, ForestWalkStep
  <1>2. CASE too_few_edges
    BY <1>2 DEF too_few_edges, vars, planVars, WalkInv, CanTakeBack
  <1>3. CASE no_valid_cuts
    BY <1>3, NoCutsStep
  <1>4. CASE propose
    BY <1>4, ProposeStep
  <1>5. CASE accept
    <2>1. CanTakeBack
        BY <1>5 DEF accept, WalkInv
    <2>2. region_ids # proposal.old_ids
        BY <2>1 DEF CanTakeBack
    <2> QED
        BY <2>2, <1>5 DEF accept, planVars, WalkInv
  <1>6. CASE reject
    BY <1>6, RejectStep
  <1>7. CASE UNCHANGED vars
    BY <1>7 DEF vars, planVars, WalkInv, CanTakeBack
  <1> QED
    BY <1>1, <1>2, <1>3, <1>4, <1>5, <1>6, <1>7 DEF Next

\* The invariant of the chain: the trees are those of the districts, the books are
\* right, and a proposed move can be taken back.
THEOREM WalkInvariant == Spec => []WalkInv
  <1>1. Init => WalkInv
    BY InitWalkInv, WalkIsAssumed
  <1>2. WalkInv /\ [Next]_vars => WalkInv'
    BY NextWalkInv, WalkIsAssumed
  <1> QED
    BY <1>1, <1>2, PTL DEF Spec

\* In every state the tree at a district's root spans exactly the district, on edges of
\* the map, and no cut or link of a move or of taking it back was thrown at
\* (apply_update, LinkCutTree::cut and link in cw_lct).
THEOREM TreesSpanAlways == Spec => []TreesSpanTheDistricts
  <1>1. WalkInv => TreesSpanTheDistricts
    BY TreesSpan, WalkIsAssumed DEF WalkInv, TreesSpanTheDistricts
  <1> QED
    BY <1>1, WalkInvariant, PTL

\* In every state populations and crossing edges are those of the plan, and the
\* districts are within their bounds (find_valid_cut_pairs, restore).
THEOREM PopulationsAlwaysInBounds == Spec => []PopulationsInBounds
  <1>1. WalkInv => PopulationsInBounds
    BY DEF WalkInv, Books, PopulationsInBounds
  <1> QED
    BY <1>1, WalkInvariant, PTL

\* Taking a rejected move back leaves exactly the tree edges there were (cycle_walk).
THEOREM RejectedIsUndone == Spec => RejectedMoveIsUndone
  <1>1. WalkInv /\ [Next]_vars
            => [phase = "proposed" /\ region_ids' = proposal.old_ids => EdgesOf(forest') = proposal.old_forest]_vars
    BY NextWalkInv, WalkIsAssumed
  <1> QED
    BY <1>1, WalkInvariant, PTL DEF Spec, RejectedMoveIsUndone

\* The two edges that a proposed move cut both cross between its districts, and the cuts
\* of the cycle they close are those its ratio counts: the ones it chose from, with the
\* links taken back for the cut taken (cw_proposal, cycle_walk).
THEOREM MoveBackSeesTheSame == Spec => []MoveBackSeesTheSameCuts
  <1>1. WalkInv => MoveBackSeesTheSameCuts
    BY MoveBackKnown, WalkIsAssumed DEF WalkInv, MoveBackSeesTheSameCuts
  <1> QED
    BY <1>1, WalkInvariant, PTL
================================================================
