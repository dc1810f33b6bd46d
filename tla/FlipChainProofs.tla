-------------------------- MODULE FlipChainProofs --------------------------
(***************************************************************************)
(* The plans of the flip sampler, from the seed that grows to the chain:   *)
(* districts stay whole and connected, the records kept beside a plan      *)
(* follow it, and the exponent gathered swap by swap is what the ratio of  *)
(* the whole move needs.                                                   *)
(*                                                                         *)
(* While the seed grows, SeedInv is inductive: a membership onto districts *)
(* numbered from 0, the records of it, and connected districts until the   *)
(* compact variant moves a precinct.  Then ChainInv is: it adds to the     *)
(* properties that the pieces still to be drawn are disjoint and each      *)
(* within one district, so that a swap leaves the others what they were.   *)
(*                                                                         *)
(* The last part is about the way back: MovesInv remembers what the tests  *)
(* have seen of every swap, and what they have seen is enough for each to  *)
(* pass them the other way around, from the last swap to the first.        *)
(***************************************************************************)
EXTENDS FlipChain, FiniteStructures, SequenceTheorems

\* A membership that leaves none of K districts empty.
Whole(plan, K) ==
    /\ plan \in [Vertices -> 0 .. K - 1]
    /\ \A d \in 0 .. K - 1 : Region(plan, d) # {}

AllConnected(plan, K) == \A d \in 0 .. K - 1 : Connected(Region(plan, d), Edges)

\* The neighbours of every district.
Adjacency(plan, K) == [d \in 0 .. K - 1 |-> {plan[v] : v \in Neighbors(Region(plan, d))} \ {d}]

Members(plan, K) == [d \in 0 .. K - 1 |-> Region(plan, d)]

\* The records of a seed of K districts.
SeedOf(K) ==
    /\ K \in ndists .. Cardinality(Vertices)
    /\ stage = "even" <=> K = ndists
    /\ Whole(member_dvec, K)
    /\ member_plist = Members(member_dvec, K)
    /\ adj_list_up = Adjacency(member_dvec, K)
    /\ stage = "even" => district_pop = DistrictPops(member_dvec) /\ pairs \subseteq AllPairs(adj_list_up)
    /\ stage = "merge" \/ algorithm = "rsg" => AllConnected(member_dvec, K)

\* The pieces to be drawn from.
PiecesFit(pieces, plan) ==
    /\ \A C \in pieces : /\ C # {} /\ C \subseteq Vertices /\ \A u, v \in C : plan[u] = plan[v]
                          /\ Connected(C, Edges)
    /\ \A C, D \in pieces : C # D => C \cap D = {}

\* A plan of the chain with the populations kept for it.
PlanKept(plan, pops) ==
    Whole(plan, ndists) /\ AllConnected(plan, ndists) /\ pops = DistrictPops(plan)

Stages == {"merge", "even", "failed", "refused", "cut", "swap", "decide"}

SeedInv == stage \in {"merge", "even"} => \E K \in Nat : SeedOf(K)

ChainInv ==
    stage \in {"cut", "swap", "decide"} =>
        /\ PlanKept(cdvec, district_pops) /\ PlanKept(cds_prop, cdspop_prop)
        /\ mh_exponent = Cardinality(genAlConn(cds_prop)) - Cardinality(genAlConn(cdvec))
        /\ stage = "cut" => cds_prop = cdvec
        /\ stage = "swap" => PiecesFit(boundary_cc, cds_prop)

FInv == stage \in Stages /\ SeedInv /\ ChainInv

---------------------------------------------------------------------------
\* The least of a set of numbers, which the code takes as a piece's first precinct.
LEMMA MinIsLeast ==
    ASSUME NEW S \in SUBSET Nat, S # {}
    PROVE  Min(S) \in S /\ \A x \in S : Min(S) <= x
  BY LeastElement DEF Min

\* The map is finite, its populations are positive, and there are precincts enough.
LEMMA MapFacts ==
    /\ IsFiniteSet(Vertices) /\ Vertices \in SUBSET Nat /\ Cardinality(Vertices) \in Nat
    /\ Vertices = 0 .. Cardinality(Vertices) - 1
    /\ ndists \in Nat /\ ndists >= 2 /\ ndists < Cardinality(Vertices)
    /\ Pop \in [Vertices -> Nat \ {0}]
    /\ \A S \in SUBSET Vertices : IsFiniteSet(S)
  <1>1. IsFiniteSet(Vertices) /\ Vertices \in SUBSET Nat
    BY MapAssumption
  <1>2. Cardinality(Vertices) \in Nat /\ \A S \in SUBSET Vertices : IsFiniteSet(S)
    BY <1>1, FS_CardinalityType, FS_Subset
  <1>3. /\ Vertices = 0 .. Cardinality(Vertices) - 1 /\ Pop \in [Vertices -> Nat \ {0}]
        /\ ndists \in 2 .. Cardinality(Vertices) - 1
    BY GrowthAssumption
  <1> QED  BY <1>1, <1>2, <1>3

\* An adjacency has two ends, which are different precincts.
LEMMA EdgeEnds ==
    ASSUME NEW e \in Edges
    PROVE  \E u, v \in Vertices : u # v /\ e = {u, v}
  <1>1. e \subseteq Vertices /\ IsFiniteSet(e) /\ Cardinality(e) = 2
    BY MapAssumption, FS_Subset
  <1>2. e # {}
    BY <1>1, FS_EmptySet
  <1>3. PICK u \in e : TRUE
    BY <1>2
  <1>4. IsFiniteSet(e \ {u}) /\ Cardinality(e \ {u}) = 1
    BY <1>1, FS_RemoveElement
  <1>5. PICK v : e \ {u} = {v}
    BY <1>4, FS_Singleton
  <1> QED  BY <1>1, <1>3, <1>5

\* There are finitely many adjacencies, and any of them.
LEMMA GraphIsFinite ==
    /\ IsFiniteSet(Edges) /\ \A E \in SUBSET Edges : IsFiniteSet(E)
    /\ \A plan : IsFiniteSet(genAlConn(plan))
  <1>1. IsFiniteSet(SUBSET Vertices)
    BY MapFacts, FS_SUBSET
  <1>2. Edges \in SUBSET (SUBSET Vertices)
    BY MapAssumption
  <1>3. \A E \in SUBSET Edges : IsFiniteSet(E)
    BY <1>1, <1>2, FS_Subset
  <1>4. \A plan : genAlConn(plan) \in SUBSET Edges
    BY DEF genAlConn
  <1> QED  BY <1>3, <1>4

\* An adjacency crosses a border when its ends are in different districts.
LEMMA CrossingEnds ==
    ASSUME NEW plan, NEW u, NEW v, {u, v} \in Edges
    PROVE  Crosses(plan, {u, v}) <=> plan[u] # plan[v]
  <1>1. RegionsOf(plan, {u, v}) = {plan[u], plan[v]}
    BY DEF RegionsOf
  <1>2. CASE plan[u] = plan[v]
    <2>1. RegionsOf(plan, {u, v}) = {plan[u]}
      BY <1>1, <1>2
    <2> QED  BY <1>2, <2>1, FS_Singleton DEF Crosses
  <1>3. CASE plan[u] # plan[v]
    <2>1. IsFiniteSet({plan[u]}) /\ Cardinality({plan[u]}) = 1
      BY FS_Singleton
    <2>2. Cardinality({plan[u]} \cup {plan[v]}) = 1 + 1
      BY <1>3, <2>1, FS_AddElement
    <2>3. RegionsOf(plan, {u, v}) = {plan[u]} \cup {plan[v]}
      BY <1>1
    <2> QED  BY <1>3, <2>2, <2>3 DEF Crosses
  <1> QED  BY <1>2, <1>3

\* The adjacencies kept are those whose ends share a district.
LEMMA KeptEdges ==
    ASSUME NEW plan
    PROVE  /\ \A e \in Edges : e \in genAlConn(plan) <=> \A u, v \in e : plan[u] = plan[v]
           /\ genAlConn(plan) \subseteq Edges
  <1>1. ASSUME NEW e \in Edges
        PROVE  e \in genAlConn(plan) <=> \A u, v \in e : plan[u] = plan[v]
    <2>1. PICK u, v \in Vertices : u # v /\ e = {u, v}
      BY EdgeEnds
    <2>2. Crosses(plan, e) <=> plan[u] # plan[v]
      BY <2>1, CrossingEnds
    <2> QED  BY <2>1, <2>2 DEF genAlConn
  <1> QED  BY <1>1 DEF genAlConn

\* Precincts on a border.
LEMMA BorderPrecincts ==
    ASSUME NEW plan
    PROVE  findBoundary(plan) \in SUBSET Vertices
  BY MapAssumption DEF findBoundary

\* A part of a district that no adjacency leaves is one that no kept adjacency leaves.
LEMMA ClosedInDistrict ==
    ASSUME NEW plan, NEW d, NEW D \in SUBSET Region(plan, d)
    PROVE  Closed(D, Region(plan, d), Edges) <=> Closed(D, Vertices, genAlConn(plan))
  <1>1. \A e \in Edges : e \in genAlConn(plan) <=> \A u, v \in e : plan[u] = plan[v]
    BY KeptEdges
  <1>2. \A e \in genAlConn(plan) : e \in Edges /\ e \subseteq Vertices
    BY MapAssumption DEF genAlConn
  <1>3. \A e \in genAlConn(plan) : e \cap D # {} => e \subseteq Region(plan, d)
    BY <1>1, <1>2 DEF Region
  <1>4. \A e \in Edges : e \subseteq Region(plan, d) => e \in genAlConn(plan)
    BY <1>1 DEF Region
  <1>5. Region(plan, d) \subseteq Vertices
    BY DEF Region
  <1> QED  BY <1>2, <1>3, <1>4, <1>5 DEF Closed, Inside

\* A component of the kept adjacencies is within one district.
LEMMA ComponentInDistrict ==
    ASSUME NEW plan, NEW v \in Vertices
    PROVE  /\ v \in Component(v, Vertices, genAlConn(plan))
           /\ Component(v, Vertices, genAlConn(plan)) \subseteq Region(plan, plan[v])
           /\ Closed(Component(v, Vertices, genAlConn(plan)), Vertices, genAlConn(plan))
           /\ \A D : v \in D /\ Closed(D, Vertices, genAlConn(plan)) =>
                  Component(v, Vertices, genAlConn(plan)) \subseteq D
  <1>1. Closed(Region(plan, plan[v]), Region(plan, plan[v]), Edges)
    BY DEF Closed, Inside
  <1>2. Closed(Region(plan, plan[v]), Vertices, genAlConn(plan))
    BY <1>1, ClosedInDistrict
  <1>3. v \in Region(plan, plan[v])
    BY DEF Region
  <1>4. IsFiniteSet(Vertices)
    BY MapFacts
  <1> QED  BY <1>2, <1>3, <1>4, ComponentIsLeast

Image(plan) == {plan[v] : v \in Vertices}

\* When there are no more components than districts, every district is connected.
THEOREM CountTellsConnected ==
    ASSUME NEW plan, countpartitions(plan) = Cardinality(Image(plan)), NEW d
    PROVE  Connected(Region(plan, d), Edges)
  <1> DEFINE G == genAlConn(plan)
             R == Region(plan, d)
             Q == Components(Vertices, G)
             f == [C \in Q |-> plan[CHOOSE v \in C : TRUE]]
             Of(v) == Component(v, Vertices, G)
  <1>1. \A v \in Vertices : /\ Of(v) \in Q /\ f[Of(v)] = plan[v]
                            /\ v \in Of(v)
                            /\ \A D : v \in D /\ Closed(D, Vertices, G) => Of(v) \subseteq D
    <2> TAKE v \in Vertices
    <2>1. Of(v) \in Q
      BY DEF Components
    <2>2. /\ v \in Of(v) /\ Of(v) \subseteq Region(plan, plan[v])
          /\ \A D : v \in D /\ Closed(D, Vertices, G) => Of(v) \subseteq D
      BY ComponentInDistrict
    <2>3. f[Of(v)] = plan[CHOOSE u \in Of(v) : TRUE]
      BY <2>1
    <2>4. (CHOOSE u \in Of(v) : TRUE) \in Of(v)
      BY <2>2
    <2>5. plan[CHOOSE u \in Of(v) : TRUE] = plan[v]
      BY <2>2, <2>4 DEF Region
    <2> QED  BY <2>1, <2>2, <2>3, <2>5
  <1>2. IsFiniteSet(Q)
    <2>1. [v \in Vertices |-> Of(v)] \in Surjection(Vertices, Q)
      BY DEF Surjection, Components
    <2> QED  BY <2>1, FS_Surjection, MapFacts
  <1>3. f \in Surjection(Q, Image(plan))
    <2>1. \A C \in Q : \E v \in Vertices : C = Of(v)
      BY DEF Components
    <2>2. \A C \in Q : f[C] \in Image(plan)
      <3> TAKE C \in Q
      <3>1. PICK v \in Vertices : C = Of(v)
        BY <2>1
      <3>2. f[C] = plan[v]
        BY <1>1, <3>1
      <3> QED  BY <3>2 DEF Image
    <2>3. f \in [Q -> Image(plan)]
      BY <2>2
    <2>4. \A a \in Image(plan) : \E C \in Q : f[C] = a
      <3> TAKE a \in Image(plan)
      <3>1. PICK v \in Vertices : a = plan[v]
        BY DEF Image
      <3> QED  BY <1>1, <3>1
    <2> HIDE DEF f, Q
    <2> QED  BY <2>3, <2>4 DEF Surjection
  <1>4. \A C, D \in Q : f[C] = f[D] => C = D
    <2>1. Cardinality(Q) = Cardinality(Image(plan))
      BY DEF countpartitions
    <2> HIDE DEF f, Q
    <2>2. f \in Injection(Q, Image(plan))
      BY <1>2, <1>3, <2>1, FS_Surjection
    <2> QED  BY <2>2 DEF Injection, IsInjective
  <1>5. ASSUME NEW D, D # {}, Closed(D, R, Edges)
        PROVE  D = R
    <2>1. D \in SUBSET R
      BY <1>5 DEF Closed
    <2>2. Closed(D, Vertices, G)
      BY <1>5, <2>1, ClosedInDistrict
    <2>3. PICK u \in D : TRUE
      BY <1>5
    <2>4. u \in Vertices /\ plan[u] = d
      BY <2>1, <2>3 DEF Region
    <2> HIDE DEF f, Q, G, Of
    <2>5. \A w \in R : w \in D
      <3> TAKE w \in R
      <3>1. w \in Vertices /\ plan[w] = d
        BY DEF Region
      <3>2. Of(w) = Of(u)
        BY <1>1, <1>4, <2>4, <3>1
      <3> QED  BY <1>1, <2>2, <2>3, <2>4, <3>1, <3>2
    <2> QED  BY <2>1, <2>5
  <1>6. IsFiniteSet(R)
    BY MapFacts DEF Region
  <1> QED  BY <1>5, <1>6, ConnectedIsClosed

\* Connected districts are the components: there are as many.
THEOREM ConnectedCount ==
    ASSUME NEW plan, \A d \in Image(plan) : Connected(Region(plan, d), Edges),
           IsFiniteSet(Image(plan))
    PROVE  countpartitions(plan) = Cardinality(Image(plan))
  <1> DEFINE G == genAlConn(plan)
             Q == Components(Vertices, G)
             Of(v) == Component(v, Vertices, G)
             g == [d \in Image(plan) |-> Region(plan, d)]
  <1>1. \A v \in Vertices : Of(v) = Region(plan, plan[v])
    <2> TAKE v \in Vertices
    <2>1. /\ v \in Of(v) /\ Of(v) \in SUBSET Region(plan, plan[v])
          /\ Closed(Of(v), Vertices, G)
      BY ComponentInDistrict
    <2>2. Closed(Of(v), Region(plan, plan[v]), Edges)
      BY <2>1, ClosedInDistrict
    <2>3. Connected(Region(plan, plan[v]), Edges)
      BY DEF Image
    <2>4. IsFiniteSet(Region(plan, plan[v]))
      BY MapFacts DEF Region
    <2> HIDE DEF Of
    <2>5. Of(v) # {}
      BY <2>1
    <2> QED  BY <2>2, <2>3, <2>4, <2>5, ConnectedIsClosed
  <1>2. Q = {Of(v) : v \in Vertices}
    BY DEF Components
  <1> HIDE DEF Of, G
  <1>3. g \in Surjection(Image(plan), Q)
    BY <1>1, <1>2 DEF Surjection, Image
  <1>4. Cardinality(Q) = Cardinality(Image(plan))
    <2>1. \A d \in Image(plan) : \E v \in Vertices : v \in Region(plan, d)
      BY DEF Image, Region
    <2>2. \A d, e \in Image(plan) : Region(plan, d) = Region(plan, e) => d = e
      BY <2>1 DEF Region
    <2>3. g \in [Image(plan) -> Q] /\ \A d, e \in Image(plan) : g[d] = g[e] => d = e
      BY <1>3, <2>2 DEF Surjection
    <2> HIDE DEF g, Q
    <2>4. g \in Injection(Image(plan), Q)
      BY <2>3 DEF Injection, IsInjective
    <2> QED  BY <1>3, <2>4, FS_Surjection
  <1> QED  BY <1>4 DEF countpartitions, G

\* The numbers from 0 are as many as the first that is not one of them.
LEMMA Numbers ==
    ASSUME NEW K \in Nat
    PROVE  IsFiniteSet(0 .. K - 1) /\ Cardinality(0 .. K - 1) = K
  <1>1. 0 \in Int /\ K - 1 \in Int
    OBVIOUS
  <1>2. CASE K = 0
    <2>1. 0 .. K - 1 = {}
      BY <1>2
    <2> QED  BY <1>2, <2>1, FS_EmptySet
  <1>3. CASE K # 0
    <2>1. ~(0 > K - 1) /\ (K - 1) - 0 + 1 = K
      BY <1>3
    <2> QED  BY <1>1, <2>1, FS_Interval
  <1> QED  BY <1>2, <1>3

\* What is whole takes every number.
LEMMA WholeImage ==
    ASSUME NEW K \in Nat, NEW plan, Whole(plan, K)
    PROVE  Image(plan) = 0 .. K - 1 /\ IsFiniteSet(Image(plan)) /\ Cardinality(Image(plan)) = K
  <1>1. Image(plan) = 0 .. K - 1
    BY DEF Whole, Image, Region
  <1> QED  BY <1>1, Numbers

\* The test of the code, one count of components, tells that K whole districts are connected.
LEMMA TestTellsConnected ==
    ASSUME NEW K \in Nat, NEW plan, Whole(plan, K), countpartitions(plan) = K
    PROVE  AllConnected(plan, K)
  BY WholeImage, CountTellsConnected DEF AllConnected

---------------------------------------------------------------------------
\* The seed.  District j becomes part of i: the districts above j move down.
Merged(plan, i, j) == [v \in Vertices |-> Renumbered(plan[v], i, j)]

\* The number district d had before.
Back(d, j) == IF d < j THEN d ELSE d + 1

\* What the renumbering takes to a district: j and i to i, and one to any other.
LEMMA RenumberedIs ==
    ASSUME NEW K \in Nat, NEW i \in 0 .. K - 1, NEW j \in 0 .. K - 1, i < j,
           NEW d \in 0 .. K - 2, NEW e \in 0 .. K - 1
    PROVE  /\ Renumbered(e, i, j) \in 0 .. K - 2 /\ i \in 0 .. K - 2
           /\ Renumbered(e, i, j) = d <=> IF d = i THEN e \in {i, j} ELSE e = Back(d, j)
           /\ Back(d, j) \in 0 .. K - 1 /\ (d # i => Back(d, j) \notin {i, j})
  BY DEF Renumbered, Back

\* The districts of the plan after a merge, out of those before it.
LEMMA MergedRegions ==
    ASSUME NEW K \in Nat, NEW i \in 0 .. K - 1, NEW j \in 0 .. K - 1, i < j,
           NEW plan, Whole(plan, K)
    PROVE  /\ Whole(Merged(plan, i, j), K - 1)
           /\ \A d \in 0 .. K - 2 :
                 Region(Merged(plan, i, j), d) =
                    IF d = i THEN Region(plan, i) \cup Region(plan, j) ELSE Region(plan, Back(d, j))
  <1> DEFINE new == Merged(plan, i, j)
  <1>a. new = [v \in Vertices |-> Renumbered(plan[v], i, j)]
    BY DEF Merged
  <1> HIDE DEF new
  <1>0. \A v \in Vertices : plan[v] \in 0 .. K - 1
    BY DEF Whole
  <1>1. ASSUME NEW d \in 0 .. K - 2
        PROVE  Region(new, d) = IF d = i THEN Region(plan, i) \cup Region(plan, j)
                                ELSE Region(plan, Back(d, j))
    <2>1. \A v \in Vertices : new[v] = d <=> IF d = i THEN plan[v] \in {i, j} ELSE plan[v] = Back(d, j)
      BY <1>a, <1>0, RenumberedIs
    <2> QED  BY <2>1 DEF Region
  <1>2. new \in [Vertices -> 0 .. K - 2]
    <2>1. i \in 0 .. K - 2
      OBVIOUS
    <2>2. \A v \in Vertices : Renumbered(plan[v], i, j) \in 0 .. K - 2
      BY <1>0, <2>1, RenumberedIs
    <2> QED  BY <1>a, <2>2
  <1>3. \A d \in 0 .. K - 2 : Region(new, d) # {}
    <2> TAKE d \in 0 .. K - 2
    <2>1. Back(d, j) \in 0 .. K - 1
      BY RenumberedIs
    <2>2. Region(plan, i) # {} /\ Region(plan, Back(d, j)) # {}
      BY <2>1 DEF Whole
    <2> QED  BY <1>1, <2>2
  <1>4. (K - 1) - 1 = K - 2
    OBVIOUS
  <1> QED  BY <1>1, <1>2, <1>3, <1>4 DEF Whole, new

\* The neighbours of a union are the neighbours of its parts.
LEMMA NeighborsOfUnion ==
    ASSUME NEW A, NEW B
    PROVE  Neighbors(A \cup B) = Neighbors(A) \cup Neighbors(B)
  BY DEF Neighbors

\* A merge keeps the records: the list of members loses an entry, and the lists
\* of neighbours are renumbered in place.
LEMMA MergedRecords ==
    ASSUME NEW K \in Nat, NEW i \in 0 .. K - 1, NEW j \in 0 .. K - 1, i < j,
           NEW plan, Whole(plan, K),
           member_plist = Members(plan, K), adj_list_up = Adjacency(plan, K)
    PROVE  /\ WithoutDistrict(member_plist, i, j, member_plist[i] \cup member_plist[j]) = Members(Merged(plan, i, j), K - 1)
           /\ SunkAdjacency(i, j) = Adjacency(Merged(plan, i, j), K - 1)
  <1> DEFINE new == Merged(plan, i, j)
  <1>0. Cardinality(Districts) = K /\ (K - 1) - 1 = K - 2
    BY Numbers DEF Districts, Members
  <1>1. /\ Whole(new, K - 1)
        /\ \A d \in 0 .. K - 2 :
              Region(new, d) = IF d = i THEN Region(plan, i) \cup Region(plan, j)
                               ELSE Region(plan, Back(d, j))
    BY MergedRegions
  <1>2. \A d \in 0 .. K - 2 : Back(d, j) \in 0 .. K - 1 /\ (d # i => Back(d, j) \notin {i, j})
    BY RenumberedIs
  <1>3. \A d \in 0 .. K - 1 : member_plist[d] = Region(plan, d)
    BY DEF Members
  <1>4. WithoutDistrict(member_plist, i, j, member_plist[i] \cup member_plist[j]) = Members(new, K - 1)
    BY <1>0, <1>1, <1>2, <1>3 DEF WithoutDistrict, Members, Back
  <1> DEFINE N(d) == {plan[v] : v \in Neighbors(Region(plan, d))}
             kept(d) == IF d = i THEN (N(i) \ {i}) \cup (N(j) \ {j}) ELSE N(Back(d, j)) \ {Back(d, j)}
             sunk(d) == {Renumbered(e, i, j) : e \in kept(d)} \ (IF d = i THEN {i} ELSE {})
             told(d) == {new[v] : v \in Neighbors(Region(new, d))} \ {d}
  <1>5. \A d \in 0 .. K - 1 : adj_list_up[d] = N(d) \ {d}
    BY DEF Adjacency
  <1>6. SunkAdjacency(i, j) = [d \in 0 .. K - 2 |-> sunk(d)]
    <2>1. WithoutDistrict(adj_list_up, i, j, adj_list_up[i] \cup adj_list_up[j]) = [d \in 0 .. K - 2 |-> kept(d)]
      <3> HIDE DEF N
      <3> QED  BY <1>0, <1>2, <1>5 DEF WithoutDistrict, Back
    <2> HIDE DEF kept
    <2> QED  BY <2>1 DEF SunkAdjacency
  <1>7. ASSUME NEW d \in 0 .. K - 2
        PROVE  sunk(d) = told(d)
    <2>0. \A d0 : \A v \in Neighbors(Region(plan, d0)) : v \in Vertices /\ plan[v] \in 0 .. K - 1
      BY DEF Neighbors, Whole
    <2>1. CASE d = i
      <3>1. Neighbors(Region(new, d)) = Neighbors(Region(plan, i)) \cup Neighbors(Region(plan, j))
        BY <1>1, <2>1, NeighborsOfUnion
      <3>2. told(d) = {Renumbered(e, i, j) : e \in N(i) \cup N(j)} \ {i}
        BY <2>0, <2>1, <3>1 DEF Merged
      <3>3. Renumbered(i, i, j) = i /\ Renumbered(j, i, j) = i
        BY RenumberedIs, <2>1
      <3>4. sunk(d) = {Renumbered(e, i, j) : e \in (N(i) \ {i}) \cup (N(j) \ {j})} \ {i}
        BY <2>1
      <3> HIDE DEF N, sunk, told
      <3> QED  BY <3>2, <3>3, <3>4
    <2>2. CASE d # i
      <3> DEFINE b == Back(d, j)
      <3>1. Region(new, d) = Region(plan, b)
        BY <1>1, <2>2
      <3>2. told(d) = {Renumbered(e, i, j) : e \in N(b)} \ {d}
        BY <2>0, <3>1 DEF Merged
      <3>3. \A e \in N(b) : Renumbered(e, i, j) = d <=> e = b
        <4>1. \A e \in N(b) : e \in 0 .. K - 1
          BY <2>0
        <4> HIDE DEF N
        <4> QED  BY <2>2, <4>1, RenumberedIs
      <3>4. sunk(d) = {Renumbered(e, i, j) : e \in N(b) \ {b}}
        BY <2>2
      <3> HIDE DEF N, sunk, told, b
      <3> QED  BY <3>2, <3>3, <3>4
    <2> QED  BY <2>1, <2>2
  <1>8. Adjacency(new, K - 1) = [d \in 0 .. K - 2 |-> told(d)]
    BY <1>0 DEF Adjacency
  <1> HIDE DEF sunk, told
  <1> QED  BY <1>4, <1>6, <1>7, <1>8

\* Districts that are merged are next to each other: what they make is connected.
LEMMA MergedConnected ==
    ASSUME NEW K \in Nat, NEW i \in 0 .. K - 1, NEW j \in 0 .. K - 1, i < j,
           NEW plan, Whole(plan, K),
           AllConnected(plan, K),
           NEW u \in Region(plan, i), NEW v \in Region(plan, j), {u, v} \in Edges
    PROVE  AllConnected(Merged(plan, i, j), K - 1)
  <1> DEFINE new == Merged(plan, i, j)
  <1>1. \A d \in 0 .. K - 2 :
              Region(new, d) = IF d = i THEN Region(plan, i) \cup Region(plan, j)
                               ELSE Region(plan, Back(d, j))
    BY MergedRegions
  <1>2. \A d \in 0 .. K - 2 : Back(d, j) \in 0 .. K - 1
    BY RenumberedIs
  <1>3. \A d : IsFiniteSet(Region(plan, d))
    BY MapFacts DEF Region
  <1>4. Connected(Region(plan, i), Edges) /\ Connected(Region(plan, j), Edges)
    BY DEF AllConnected
  <1>5. Connected(Region(plan, i) \cup Region(plan, j), Edges)
    BY <1>3, <1>4, ConnectedUnion
  <1>6. (K - 1) - 1 = K - 2
    OBVIOUS
  <1> QED  BY <1>1, <1>2, <1>5, <1>6 DEF AllConnected

\* Populations of sets of precincts add up.
LEMMA PopAddsUp ==
    /\ \A S \in SUBSET Vertices : PopOf(S) \in Nat
    /\ \A S, T \in SUBSET Vertices : S \cap T = {} => PopOf(S \cup T) = PopOf(S) + PopOf(T)
    /\ \A v \in Vertices : PopOf({v}) = Pop[v]
  <1>1. /\ \A v \in Vertices : Pop[v] \in Nat \ {0} /\ Pop[v] \in Int
        /\ \A S \in SUBSET Vertices : IsFiniteSet(S)
    BY MapFacts
  <1>2. \A S : PopOf(S) = Total(Pop, S)
    BY DEF PopOf, Total
  <1>3. ASSUME NEW S \in SUBSET Vertices
        PROVE  PopOf(S) \in Nat
    <2>1. \A v \in S : Pop[v] \in Nat \ {0} /\ Pop[v] \in Int
      BY <1>1
    <2>2. Total(Pop, S) \in Int /\ Total(Pop, S) >= Cardinality(S) /\ Cardinality(S) \in Nat
      BY <1>1, <2>1, TotalType, TotalOfPositives, FS_CardinalityType
    <2> QED  BY <1>2, <2>2
  <1>4. ASSUME NEW S \in SUBSET Vertices, NEW T \in SUBSET Vertices, S \cap T = {}
        PROVE  PopOf(S \cup T) = PopOf(S) + PopOf(T)
    <2>1. \A v \in S \cup T : Pop[v] \in Int
      BY <1>1
    <2>2. IsFiniteSet(S) /\ IsFiniteSet(T)
      BY <1>1
    <2>3. Total(Pop, S \cup T) = Total(Pop, S) + Total(Pop, T)
      BY <1>4, <2>1, <2>2, TotalOfUnion
    <2> QED  BY <1>2, <2>3
  <1>5. ASSUME NEW v \in Vertices
        PROVE  PopOf({v}) = Pop[v]
    <2>1. Pop[v] \in Int /\ IsFiniteSet({}) /\ v \notin {} /\ \A y \in {} : Pop[y] \in Int
      BY <1>1, FS_EmptySet
    <2>2. Total(Pop, {} \cup {v}) = Total(Pop, {}) + Pop[v]
      BY <2>1, TotalAdd
    <2>3. Total(Pop, {}) = 0 /\ {} \cup {v} = {v}
      BY TotalOfNone
    <2> QED  BY <1>2, <2>1, <2>2, <2>3
  <1> QED  BY <1>3, <1>4, <1>5

\* The districts after part C of district i has gone to d.
LEMMA SwappedRegions ==
    ASSUME NEW K \in Nat, NEW plan \in [Vertices -> 0 .. K - 1],
           NEW i \in 0 .. K - 1, NEW d \in 0 .. K - 1, i # d, NEW C \in SUBSET Region(plan, i)
    PROVE  /\ Swapped(plan, C, d) \in [Vertices -> 0 .. K - 1]
           /\ Region(Swapped(plan, C, d), i) = Region(plan, i) \ C
           /\ Region(Swapped(plan, C, d), d) = Region(plan, d) \cup C
           /\ \A e \in 0 .. K - 1 : e \notin {i, d} => Region(Swapped(plan, C, d), e) = Region(plan, e)
  BY DEF Swapped, Region

\* Populations kept by subtracting and adding are those of the new plan.
LEMMA SwappedPops ==
    ASSUME NEW plan \in [Vertices -> 0 .. ndists - 1],
           NEW i \in 0 .. ndists - 1, NEW d \in 0 .. ndists - 1, i # d, NEW C \in SUBSET Region(plan, i)
    PROVE  DistrictPops(Swapped(plan, C, d)) = update_distpop(DistrictPops(plan), C, i, d)
  <1> DEFINE new == Swapped(plan, C, d)
  <1>1. /\ Region(new, i) = Region(plan, i) \ C /\ Region(new, d) = Region(plan, d) \cup C
        /\ \A e \in 0 .. ndists - 1 : e \notin {i, d} => Region(new, e) = Region(plan, e)
    BY DEF Swapped, Region
  <1> HIDE DEF new
  <1>2. /\ C \in SUBSET Vertices /\ Region(plan, i) \ C \in SUBSET Vertices
        /\ Region(plan, d) \in SUBSET Vertices /\ Region(plan, d) \cap C = {}
        /\ (Region(plan, i) \ C) \cap C = {} /\ (Region(plan, i) \ C) \cup C = Region(plan, i)
    BY DEF Region
  <1>3. PopOf(Region(new, d)) = PopOf(Region(plan, d)) + PopOf(C)
    BY <1>1, <1>2, PopAddsUp
  <1>4. PopOf(Region(plan, i)) = PopOf(Region(plan, i) \ C) + PopOf(C)
    BY <1>2, PopAddsUp
  <1>5. PopOf(C) \in Nat /\ PopOf(Region(plan, i) \ C) \in Nat
    BY <1>2, PopAddsUp
  <1>6. PopOf(Region(new, i)) = PopOf(Region(plan, i)) - PopOf(C)
    BY <1>1, <1>4, <1>5
  <1>7. \A e \in 0 .. ndists - 1 : DistrictPops(new)[e] = update_distpop(DistrictPops(plan), C, i, d)[e]
    BY <1>1, <1>3, <1>6 DEF DistrictPops, update_distpop
  <1> QED  BY <1>7 DEF DistrictPops, update_distpop, new

\* No precinct is its own neighbour.
LEMMA NoLoops ==
    ASSUME NEW v \in Vertices
    PROVE  v \notin Neighbors({v})
  <1>1. ASSUME {v, v} \in Edges
        PROVE  FALSE
    <2>1. PICK u, w \in Vertices : u # w /\ {v, v} = {u, w}
      BY <1>1, EdgeEnds
    <2> QED  BY <2>1
  <1> QED  BY <1>1 DEF Neighbors

\* A growth starts with every precinct a district.
LEMMA OwnSeed ==
    /\ Whole(OwnDistricts, Cardinality(Vertices)) /\ AllConnected(OwnDistricts, Cardinality(Vertices))
    /\ OwnMembers = Members(OwnDistricts, Cardinality(Vertices))
    /\ OwnNeighbors = Adjacency(OwnDistricts, Cardinality(Vertices))
  <1>1. Vertices = 0 .. Cardinality(Vertices) - 1
    BY MapFacts
  <1>2. \A v \in Vertices : Region(OwnDistricts, v) = {v}
    BY DEF Region, OwnDistricts
  <1>3. \A v \in Vertices : {OwnDistricts[u] : u \in Neighbors({v})} = Neighbors({v})
    BY DEF OwnDistricts, Neighbors
  <1>4. \A v \in Vertices : Neighbors({v}) \ {v} = Neighbors({v})
    BY NoLoops
  <1>5. OwnNeighbors = Adjacency(OwnDistricts, Cardinality(Vertices))
    BY <1>1, <1>2, <1>3, <1>4 DEF OwnNeighbors, Adjacency
  <1>6. OwnMembers = Members(OwnDistricts, Cardinality(Vertices))
    BY <1>1, <1>2 DEF OwnMembers, Members
  <1>7. Whole(OwnDistricts, Cardinality(Vertices))
    BY <1>1, <1>2 DEF Whole, OwnDistricts
  <1>8. AllConnected(OwnDistricts, Cardinality(Vertices))
    BY <1>1, <1>2, ConnectedSingle DEF AllConnected
  <1> QED  BY <1>5, <1>6, <1>7, <1>8

\* A precinct moved by a test of one count: no district is emptied, as the
\* others would then be fewer components than the test asks for.
LEMMA TestKeepsWhole ==
    ASSUME NEW plan, Whole(plan, ndists), AllConnected(plan, ndists),
           NEW i \in 0 .. ndists - 1, NEW j \in 0 .. ndists - 1, i # j, NEW p0 \in Region(plan, i),
           NEW u \in Region(plan, j), {u, p0} \in Edges,
           countpartitions(Swapped(plan, {p0}, j)) = ndists
    PROVE  Region(plan, i) # {p0}
  <1> DEFINE new == Swapped(plan, {p0}, j)
             Rest == (0 .. ndists - 1) \ {i}
  <1> SUFFICES ASSUME Region(plan, i) = {p0}
               PROVE  FALSE
    OBVIOUS
  <1>0. ndists \in Nat /\ plan \in [Vertices -> 0 .. ndists - 1] /\ {p0} \in SUBSET Region(plan, i)
    BY MapFacts DEF Whole
  <1>1. /\ new \in [Vertices -> 0 .. ndists - 1]
        /\ Region(new, i) = {} /\ Region(new, j) = Region(plan, j) \cup {p0}
        /\ \A e \in 0 .. ndists - 1 : e \notin {i, j} => Region(new, e) = Region(plan, e)
    BY <1>0 DEF Swapped, Region
  <1>2. Image(new) = Rest
    <2>1. \A e \in Rest : Region(new, e) # {}
      BY <1>1 DEF Whole
    <2>2. \A v \in Vertices : new[v] \in Rest
      BY <1>1 DEF Region
    <2> HIDE DEF new, Rest
    <2> QED  BY <2>1, <2>2 DEF Image, Region
  <1>3. IsFiniteSet(Rest) /\ Cardinality(Rest) = ndists - 1
    <2> DEFINE All == 0 .. ndists - 1
    <2>1. IsFiniteSet(All) /\ Cardinality(All) = ndists /\ i \in All
      BY <1>0, Numbers
    <2> HIDE DEF All
    <2>2. IsFiniteSet(All \ {i}) /\ Cardinality(All \ {i}) = ndists - 1
      BY <2>1, FS_RemoveElement
    <2> QED  BY <2>2 DEF All
  <1>4. ASSUME NEW e \in Image(new)
        PROVE  Connected(Region(new, e), Edges)
    <2>1. CASE e = j
      <3>1. IsFiniteSet(Region(plan, j)) /\ IsFiniteSet({p0})
        BY MapFacts, FS_Singleton DEF Region
      <3>2. Connected(Region(plan, j), Edges) /\ Connected({p0}, Edges)
        BY ConnectedSingle DEF AllConnected
      <3>3. Connected(Region(plan, j) \cup {p0}, Edges)
        BY <3>1, <3>2, ConnectedUnion
      <3> QED  BY <1>1, <2>1, <3>3
    <2>2. CASE e # j
      BY <1>1, <1>2, <2>2 DEF AllConnected
    <2> QED  BY <2>1, <2>2
  <1>5. countpartitions(new) = ndists - 1
    <2> HIDE DEF new, Rest
    <2> QED  BY <1>2, <1>3, <1>4, ConnectedCount
  <1> QED  BY <1>0, <1>5

\* What moving part C of a whole district i does, when it is not all of i.
LEMMA SwappedWhole ==
    ASSUME NEW plan, Whole(plan, ndists),
           NEW i \in 0 .. ndists - 1, NEW d \in 0 .. ndists - 1, i # d, NEW C \in SUBSET Region(plan, i),
           C # Region(plan, i)
    PROVE  Whole(Swapped(plan, C, d), ndists)
  BY DEF Swapped, Region, Whole

\* The districts beside d, by either way of looking them up.
LEMMA NeighborsAreBeside ==
    ASSUME NEW K \in Nat, SeedOf(K), NEW d \in 0 .. K - 1, NEW e \in DistrictNeighbors(d)
    PROVE  /\ e \in 0 .. K - 1 /\ e # d
           /\ \E u \in Region(member_dvec, d) : \E v \in Region(member_dvec, e) : {u, v} \in Edges
  <1>1. /\ member_plist[d] = Region(member_dvec, d)
        /\ adj_list_up[d] = {member_dvec[v] : v \in Neighbors(Region(member_dvec, d))} \ {d}
        /\ \A v \in Vertices : member_dvec[v] \in 0 .. K - 1
    BY DEF SeedOf, Members, Adjacency, Whole
  <1>2. \A v \in Neighbors(Region(member_dvec, d)) \ Region(member_dvec, d) : member_dvec[v] # d
    BY DEF Neighbors, Region
  <1>3. \E v \in Neighbors(Region(member_dvec, d)) : e = member_dvec[v] /\ e # d
    BY <1>1, <1>2 DEF DistrictNeighbors
  <1>4. PICK v \in Neighbors(Region(member_dvec, d)) : e = member_dvec[v] /\ e # d
    BY <1>3
  <1>5. v \in Vertices /\ \E u \in Region(member_dvec, d) : {u, v} \in Edges
    BY DEF Neighbors
  <1>6. v \in Region(member_dvec, e)
    BY <1>4, <1>5 DEF Region
  <1> QED  BY <1>1, <1>4, <1>5, <1>6

\* Merging two districts that are next to each other.
LEMMA MergeKeepsSeed ==
    ASSUME NEW K \in Nat, SeedOf(K), NEW i \in 0 .. K - 1, NEW j \in 0 .. K - 1, i < j,
           NEW u \in Region(member_dvec, i), NEW v \in Region(member_dvec, j), {u, v} \in Edges,
           MergeDistricts(i, j)
    PROVE  SeedOf(K - 1)' /\ K - 1 \in Nat /\ stage' \in {"merge", "even"}
  <1>1. Cardinality(Districts) = K
    BY Numbers DEF SeedOf, Districts, Members
  <1>2. /\ stage = "merge" /\ K \in ndists .. Cardinality(Vertices) /\ K # ndists
        /\ K - 1 \in ndists .. Cardinality(Vertices)
    BY MapFacts DEF SeedOf, MergeDistricts
  <1>3. member_dvec' = Merged(member_dvec, i, j)
    BY DEF MergeDistricts, Merged
  <1>4. /\ member_plist' = Members(member_dvec', K - 1)
        /\ adj_list_up' = Adjacency(member_dvec', K - 1)
    BY <1>3, MergedRecords DEF MergeDistricts, SeedOf
  <1>5. Whole(member_dvec', K - 1)
    BY <1>3, MergedRegions DEF SeedOf
  <1>6. AllConnected(member_dvec', K - 1)
    BY <1>2, <1>3, MergedConnected DEF SeedOf
  <1>7. stage' \in {"merge", "even"} /\ (stage' = "even" <=> K - 1 = ndists)
    BY <1>1, <1>2 DEF MergeDistricts
  <1>8. stage' = "even" => /\ district_pop' = DistrictPops(member_dvec')
                           /\ pairs' = AllPairs(adj_list_up')
    BY <1>1, <1>2 DEF MergeDistricts, DistrictPops
  <1> QED  BY <1>2, <1>4, <1>5, <1>6, <1>7, <1>8 DEF SeedOf

\* A precinct moved from i to j, when i keeps others: the records follow.
LEMMA MoveKeepsSeed ==
    ASSUME SeedOf(ndists), stage = "even", NEW i \in 0 .. ndists - 1, NEW j \in 0 .. ndists - 1, i # j,
           NEW p0 \in Region(member_dvec, i), Region(member_dvec, i) # {p0}, Move(p0, i, j),
           algorithm = "rsg" => countpartitions(Swapped(member_dvec, {p0}, j)) = ndists
    PROVE  SeedOf(ndists)' /\ stage' = "even"
  <1>1. /\ ndists \in Nat /\ ndists \in ndists .. Cardinality(Vertices)
        /\ Whole(member_dvec, ndists) /\ member_dvec \in [Vertices -> 0 .. ndists - 1]
        /\ p0 \in Vertices
        /\ {p0} \in SUBSET Region(member_dvec, i)
    BY MapFacts DEF SeedOf, Whole, Region
  <1>2. member_dvec' = Swapped(member_dvec, {p0}, j)
    BY <1>1 DEF Move, Swapped
  <1>3. Whole(member_dvec', ndists)
    BY <1>1, <1>2, SwappedWhole
  <1>4. /\ Region(member_dvec', i) = Region(member_dvec, i) \ {p0}
        /\ Region(member_dvec', j) = Region(member_dvec, j) \cup {p0}
        /\ \A e \in 0 .. ndists - 1 : e \notin {i, j} => Region(member_dvec', e) = Region(member_dvec, e)
    BY <1>1, <1>2 DEF Swapped, Region
  <1>5. member_plist' = Members(member_dvec', ndists)
    BY <1>4 DEF Move, Members, SeedOf
  <1>6. adj_list_up' = Adjacency(member_dvec', ndists) /\ pairs' = AllPairs(adj_list_up')
    BY DEF Move, DistrictAdjacency, Adjacency
  <1>7. district_pop' = DistrictPops(member_dvec')
    <2>1. DistrictPops(member_dvec') = update_distpop(DistrictPops(member_dvec), {p0}, i, j)
      BY <1>1, <1>2, SwappedPops
    <2>2. PopOf({p0}) = Pop[p0]
      BY <1>1, PopAddsUp
    <2> QED  BY <2>1, <2>2 DEF Move, update_distpop, SeedOf
  <1>8. algorithm' = "rsg" => AllConnected(member_dvec', ndists)
    BY <1>1, <1>2, <1>3, TestTellsConnected DEF Move
  <1>9. stage' = "even"
    BY DEF Move
  <1> QED  BY <1>1, <1>3, <1>5, <1>6, <1>7, <1>8, <1>9 DEF SeedOf

\* The four steps of a seed that grows.
LEMMA MergeKeeps ==
    ASSUME SeedInv, Merge
    PROVE  SeedInv' /\ stage' \in {"merge", "even"}
  <1>1. PICK i0 \in Districts : \E j0 \in DistrictNeighbors(i0) :
            MergeDistricts(Min({i0, j0}), IF i0 < j0 THEN j0 ELSE i0)
    BY DEF Merge
  <1>2. PICK j0 \in DistrictNeighbors(i0) : MergeDistricts(Min({i0, j0}), IF i0 < j0 THEN j0 ELSE i0)
    BY <1>1
  <1>3. PICK K \in Nat : SeedOf(K)
    BY <1>2 DEF SeedInv, MergeDistricts
  <1>4. i0 \in 0 .. K - 1
    BY <1>3 DEF SeedOf, Members, Districts
  <1>5. /\ j0 \in 0 .. K - 1 /\ i0 # j0
        /\ \E u \in Region(member_dvec, i0) : \E v \in Region(member_dvec, j0) : {u, v} \in Edges
    BY <1>3, <1>4, NeighborsAreBeside
  <1>6. PICK u \in Region(member_dvec, i0) : \E v \in Region(member_dvec, j0) : {u, v} \in Edges
    BY <1>5
  <1>7. PICK v \in Region(member_dvec, j0) : {u, v} \in Edges
    BY <1>6
  <1>8. Min({i0, j0}) \in {i0, j0} /\ \A x \in {i0, j0} : Min({i0, j0}) <= x
    BY <1>4, <1>5, MinIsLeast
  <1>9. CASE i0 < j0
    <2>1. Min({i0, j0}) = i0
      BY <1>4, <1>5, <1>8, <1>9
    <2>2. MergeDistricts(i0, j0)
      BY <1>2, <1>9, <2>1
    <2>3. SeedOf(K - 1)' /\ K - 1 \in Nat /\ stage' \in {"merge", "even"}
      BY <1>3, <1>4, <1>5, <1>7, <1>9, <2>2, MergeKeepsSeed
    <2> QED  BY <2>3 DEF SeedInv
  <1>10. CASE ~ (i0 < j0)
    <2>1. j0 < i0
      BY <1>4, <1>5, <1>10
    <2>2. Min({i0, j0}) = j0
      BY <1>4, <1>5, <1>8, <2>1
    <2>3. MergeDistricts(j0, i0)
      BY <1>2, <1>10, <2>2
    <2>4. {v, u} \in Edges
      <3>1. {v, u} = {u, v}
        OBVIOUS
      <3> QED  BY <1>7, <3>1
    <2>5. SeedOf(K - 1)' /\ K - 1 \in Nat /\ stage' \in {"merge", "even"}
      BY <1>3, <1>4, <1>5, <1>6, <1>7, <2>1, <2>3, <2>4, MergeKeepsSeed
    <2> QED  BY <2>5 DEF SeedInv
  <1> QED  BY <1>9, <1>10

\* A seed that is evened out has ndists districts.
LEMMA EvenSeed ==
    ASSUME SeedInv, stage = "even"
    PROVE  SeedOf(ndists) /\ Districts = 0 .. ndists - 1
  <1>1. PICK K \in Nat : SeedOf(K)
    BY DEF SeedInv
  <1>2. K = ndists
    BY <1>1 DEF SeedOf
  <1> QED  BY <1>1, <1>2 DEF SeedOf, Districts, Members

\* A test that moves nothing, or puts a pair aside, changes no record of the plan.
LEMMA NoMoveKeeps ==
    ASSUME SeedOf(ndists), stage = "even",
           UNCHANGED <<algorithm, stage, member_dvec, member_plist, adj_list_up, district_pop>>,
           pairs' \subseteq pairs
    PROVE  SeedInv' /\ stage' = "even"
  <1>1. SeedOf(ndists)'
    BY DEF SeedOf, DistrictPops
  <1> QED  BY <1>1, MapFacts DEF SeedInv

\* Moving a precinct is giving it away as a set of one.
LEMMA MovedIsSwapped ==
    ASSUME SeedOf(ndists), NEW p0, NEW j
    PROVE  [member_dvec EXCEPT ![p0] = j] = Swapped(member_dvec, {p0}, j)
  BY DEF SeedOf, Whole, Swapped

\* rsg moves a precinct, or tries one that may not move.
LEMMA MoveAnyKeeps ==
    ASSUME SeedInv, MoveAny
    PROVE  SeedInv' /\ stage' = "even"
  <1>1. stage = "even" /\ algorithm = "rsg"
    BY DEF MoveAny, Evening
  <1>2. SeedOf(ndists) /\ Districts = 0 .. ndists - 1
    BY <1>1, EvenSeed
  <1>3. CASE Stay
    BY <1>1, <1>2, <1>3, NoMoveKeeps DEF Stay
  <1>4. CASE ~ Stay
    <2>1. PICK i \in Districts : \E p0 \in member_plist[i] :
              \E j \in {member_dvec[v] : v \in Neighbors({p0})} \ {i} : KeepsContiguity(p0, j) /\ Move(p0, i, j)
      BY <1>4 DEF MoveAny
    <2>2. PICK p0 \in member_plist[i] :
              \E j \in {member_dvec[v] : v \in Neighbors({p0})} \ {i} : KeepsContiguity(p0, j) /\ Move(p0, i, j)
      BY <2>1
    <2>3. PICK j \in {member_dvec[v] : v \in Neighbors({p0})} \ {i} : KeepsContiguity(p0, j) /\ Move(p0, i, j)
      BY <2>2
    <2>4. PICK u \in Neighbors({p0}) : j = member_dvec[u] /\ j # i
      BY <2>3
    <2>5. i \in 0 .. ndists - 1 /\ p0 \in Region(member_dvec, i)
      BY <1>2 DEF SeedOf, Members
    <2>6. u \in Region(member_dvec, j) /\ {p0, u} \in Edges /\ {u, p0} \in Edges
      <3>1. u \in Vertices /\ {p0, u} \in Edges /\ {u, p0} = {p0, u}
        BY DEF Neighbors
      <3> QED  BY <2>4, <3>1 DEF Region
    <2>7. j \in 0 .. ndists - 1
      BY <1>2, <2>4, <2>6 DEF SeedOf, Whole, Region
    <2>8. countpartitions(Swapped(member_dvec, {p0}, j)) = ndists
      BY <1>2, <2>3, MovedIsSwapped DEF KeepsContiguity
    <2>9. Whole(member_dvec, ndists) /\ AllConnected(member_dvec, ndists)
      BY <1>1, <1>2 DEF SeedOf
    <2>10. Region(member_dvec, i) # {p0}
      BY <2>4, <2>5, <2>6, <2>7, <2>8, <2>9, TestKeepsWhole
    <2>11. SeedOf(ndists)' /\ stage' = "even"
      BY <1>1, <1>2, <2>3, <2>4, <2>5, <2>7, <2>8, <2>10, MoveKeepsSeed
    <2> QED  BY <2>11, MapFacts DEF SeedInv
  <1> QED  BY <1>3, <1>4

\* The compact variant leaves a precinct in every district because the populations
\* stay above the lowest there is.
LEMMA ParityKeepsWhole ==
    ASSUME SeedOf(ndists), stage = "even", Districts = 0 .. ndists - 1,
           NEW i \in 0 .. ndists - 1, NEW j, NEW p0 \in Region(member_dvec, i), KeepsParity(p0, i, j)
    PROVE  Region(member_dvec, i) # {p0}
  <1> DEFINE Pops == {district_pop[d] : d \in Districts}
  <1>1. \A d \in 0 .. ndists - 1 : district_pop[d] = PopOf(Region(member_dvec, d)) /\ district_pop[d] \in Nat
    <2>1. \A d : Region(member_dvec, d) \in SUBSET Vertices
      BY DEF Region
    <2>2. district_pop = DistrictPops(member_dvec)
      BY DEF SeedOf
    <2> QED  BY <2>1, <2>2, PopAddsUp DEF DistrictPops
  <1>2. Pops \in SUBSET Nat /\ Pops # {}
    BY <1>1
  <1>3. LowestPop \in Nat
    <2> HIDE DEF Pops
    <2>1. Min(Pops) \in Nat
      BY <1>2, MinIsLeast
    <2> QED  BY <2>1 DEF LowestPop, Pops
  <1>4. district_pop[i] - Pop[p0] > LowestPop
    BY DEF KeepsParity
  <1>5. p0 \in Vertices /\ Pop[p0] \in Nat
    BY MapFacts DEF Region
  <1>6. SUFFICES ASSUME Region(member_dvec, i) = {p0}
                 PROVE  FALSE
    OBVIOUS
  <1>7. district_pop[i] = Pop[p0]
    BY <1>1, <1>5, <1>6, PopAddsUp
  <1> QED  BY <1>3, <1>4, <1>5, <1>7

\* crsg moves a precinct, or puts a pair of districts aside.
LEMMA MoveFarthestKeeps ==
    ASSUME SeedInv, MoveFarthest
    PROVE  SeedInv' /\ stage' = "even"
  <1>1. stage = "even" /\ algorithm = "crsg"
    BY DEF MoveFarthest, Evening
  <1>2. SeedOf(ndists) /\ Districts = 0 .. ndists - 1
    BY <1>1, EvenSeed
  <1>3. PICK ij \in WorstPairs : TryPair(ij[1], ij[2])
    BY DEF MoveFarthest
  <1> DEFINE i == ij[1]
             j == ij[2]
  <1>4. i \in 0 .. ndists - 1 /\ j \in 0 .. ndists - 1 /\ i # j
    <2>1. ij \in AllPairs(adj_list_up)
      BY <1>1, <1>2 DEF WorstPairs, SeedOf
    <2>2. DOMAIN adj_list_up = 0 .. ndists - 1 /\ \A d \in 0 .. ndists - 1 : d \notin adj_list_up[d]
      BY <1>2 DEF SeedOf, Adjacency
    <2> QED  BY <2>1, <2>2 DEF AllPairs
  <1>5. CASE TryNextPair(i, j)
    BY <1>1, <1>2, <1>5, NoMoveKeeps DEF TryNextPair
  <1>6. CASE ~ TryNextPair(i, j)
    <2>1. \E p0 \in member_plist[i] : KeepsParity(p0, i, j) /\ Move(p0, i, j)
      BY <1>3, <1>6 DEF TryPair, SwapCandidates
    <2>2. PICK p0 \in member_plist[i] : KeepsParity(p0, i, j) /\ Move(p0, i, j)
      BY <2>1
    <2>3. p0 \in Region(member_dvec, i)
      BY <1>2, <1>4 DEF SeedOf, Members
    <2> HIDE DEF i, j
    <2>4. Region(member_dvec, i) # {p0}
      BY <1>1, <1>2, <1>4, <2>2, <2>3, ParityKeepsWhole
    <2>5. SeedOf(ndists)' /\ stage' = "even"
      BY <1>1, <1>2, <1>4, <2>2, <2>3, <2>4, MoveKeepsSeed
    <2> QED  BY <2>5, MapFacts DEF SeedInv
  <1> QED  BY <1>5, <1>6

\* The growth starts again from districts of one precinct, or fails.
LEMMA GiveUpKeeps ==
    ASSUME SeedInv, GiveUp
    PROVE  SeedInv' /\ stage' \in {"merge", "failed"}
  <1>1. CASE stage' = "failed"
    BY <1>1 DEF SeedInv
  <1>2. CASE stage' # "failed"
    <2>1. /\ stage' = "merge" /\ member_dvec' = OwnDistricts /\ member_plist' = OwnMembers
          /\ adj_list_up' = OwnNeighbors
      BY <1>2 DEF GiveUp
    <2>2. SeedOf(Cardinality(Vertices))'
      BY <2>1, OwnSeed, MapFacts DEF SeedOf
    <2> QED  BY <2>1, <2>2, MapFacts DEF SeedInv
  <1> QED  BY <1>1, <1>2

\* A seed keeps its districts and its records while it grows.
LEMMA GrowKeeps ==
    ASSUME SeedInv, SeedNext
    PROVE  SeedInv' /\ stage' \in {"merge", "even", "failed"}
  BY MergeKeeps, MoveAnyKeeps, MoveFarthestKeeps, GiveUpKeeps DEF SeedNext

---------------------------------------------------------------------------
\* The chain starts.

\* Districts numbered by their first precincts are the districts there were.
LEMMA NumberedByFirst ==
    ASSUME NEW K \in Nat, NEW plan, Whole(plan, K)
    PROVE  /\ Whole(vec_group_id(plan), K)
           /\ \A v \in Vertices : Region(vec_group_id(plan), vec_group_id(plan)[v]) = Region(plan, plan[v])
  <1> DEFINE first(v) == Min(Region(plan, plan[v]))
             F == {first(v) : v \in Vertices}
             below(v) == {x \in F : x < first(v)}
             new == vec_group_id(plan)
             D == 0 .. K - 1
  <1>1. \A v \in Vertices : first(v) \in Vertices /\ plan[first(v)] = plan[v] /\ first(v) \in Nat
    <2> TAKE v \in Vertices
    <2>1. Region(plan, plan[v]) \in SUBSET Nat /\ v \in Region(plan, plan[v])
      BY MapFacts DEF Region
    <2>2. first(v) \in Region(plan, plan[v])
      BY <2>1, MinIsLeast
    <2> QED  BY <2>1, <2>2 DEF Region
  <1>2. \A u, v \in Vertices : first(u) = first(v) <=> plan[u] = plan[v]
    <2>1. \A u, v \in Vertices : plan[u] = plan[v] => first(u) = first(v)
      OBVIOUS
    <2> HIDE DEF first
    <2> QED  BY <1>1, <2>1
  <1>3. IsFiniteSet(D) /\ Cardinality(D) = K
    BY Numbers
  <1>4. \A d \in D : \E v \in Vertices : plan[v] = d
    BY DEF Whole, Region
  <1>5. \A v \in Vertices : plan[v] \in D
    BY DEF Whole
  <1>6. new = [v \in Vertices |-> Cardinality(below(v))]
    <2>1. \A v \in Vertices : below(v) = {first(u) : u \in {w \in Vertices : first(w) < first(v)}}
      <3> HIDE DEF first
      <3> QED  OBVIOUS
    <2> QED  BY <2>1 DEF vec_group_id
  <1> HIDE DEF first, new, D
  <1>7. IsFiniteSet(F) /\ Cardinality(F) <= K
    <2> DEFINE at == [d \in D |-> first(CHOOSE v \in Vertices : plan[v] = d)]
    <2>1. \A d \in D : at[d] \in F
      BY <1>4
    <2>2. \A v \in Vertices : at[plan[v]] = first(v)
      <3> TAKE v \in Vertices
      <3> DEFINE u == CHOOSE w \in Vertices : plan[w] = plan[v]
      <3>1. u \in Vertices /\ plan[u] = plan[v]
        OBVIOUS
      <3>2. at[plan[v]] = first(u)
        BY <1>5
      <3> HIDE DEF u
      <3> QED  BY <1>2, <3>1, <3>2
    <2>3. at \in Surjection(D, F)
      <3>1. at \in [D -> F]
        BY <2>1
      <3>2. \A x \in F : \E d \in D : at[d] = x
        <4> HIDE DEF at
        <4> QED  BY <1>5, <2>2
      <3> HIDE DEF at, F
      <3> QED  BY <3>1, <3>2 DEF Surjection
    <2> HIDE DEF at, F
    <2> QED  BY <1>3, <2>3, FS_Surjection
  <1>8. Cardinality(F) \in Nat /\ \A v \in Vertices : first(v) \in F
    BY <1>7, FS_CardinalityType
  <1>9. \A v \in Vertices : new[v] \in D
    <2> TAKE v \in Vertices
    <2>1. below(v) \in SUBSET (F \ {first(v)})
      BY <1>1
    <2>2. IsFiniteSet(F \ {first(v)}) /\ Cardinality(F \ {first(v)}) = Cardinality(F) - 1
      <3> HIDE DEF F
      <3> QED  BY <1>7, <1>8, FS_RemoveElement
    <2>3. IsFiniteSet(below(v)) /\ Cardinality(below(v)) <= Cardinality(F) - 1
      <3> HIDE DEF F, below
      <3> QED  BY <2>1, <2>2, FS_Subset
    <2>4. Cardinality(below(v)) \in Nat
      BY <2>3, FS_CardinalityType
    <2> HIDE DEF below, F
    <2> QED  BY <1>6, <1>7, <1>8, <2>3, <2>4 DEF D
  <1>10. \A u, v \in Vertices : first(u) < first(v) => new[u] < new[v]
    <2> TAKE u, v \in Vertices
    <2> HAVE first(u) < first(v)
    <2>1. below(u) \in SUBSET below(v) /\ first(u) \in below(v) /\ first(u) \notin below(u)
      BY <1>1
    <2>2. IsFiniteSet(below(v)) /\ IsFiniteSet(below(u))
      BY <1>7, FS_Subset
    <2>3. Cardinality(below(u)) \in Nat /\ Cardinality(below(v)) \in Nat
      BY <2>2, FS_CardinalityType
    <2>4. below(u) # below(v)
      BY <2>1
    <2> HIDE DEF below
    <2>5. Cardinality(below(u)) <= Cardinality(below(v)) /\ Cardinality(below(u)) # Cardinality(below(v))
      BY <2>1, <2>2, <2>4, FS_Subset
    <2> QED  BY <1>6, <2>3, <2>5
  <1>11. \A u, v \in Vertices : new[u] = new[v] <=> plan[u] = plan[v]
    <2> TAKE u, v \in Vertices
    <2>1. first(u) \in Nat /\ first(v) \in Nat /\ new[u] \in Int /\ new[v] \in Int
      BY <1>1, <1>9 DEF D
    <2>2. plan[u] = plan[v] => new[u] = new[v]
      <3>1. plan[u] = plan[v] => below(u) = below(v)
        BY <1>2
      <3> HIDE DEF below
      <3> QED  BY <1>6, <3>1
    <2>3. first(u) = first(v) \/ new[u] < new[v] \/ new[v] < new[u]
      BY <1>10, <2>1
    <2> QED  BY <1>2, <2>1, <2>2, <2>3
  <1>12. \A v \in Vertices : Region(new, new[v]) = Region(plan, plan[v])
    BY <1>11 DEF Region
  <1>13. \A d \in D : Region(new, d) # {}
    <2> DEFINE g == [d \in D |-> new[CHOOSE v \in Vertices : plan[v] = d]]
    <2>1. \A d \in D : \E v \in Vertices : plan[v] = d /\ g[d] = new[v]
      BY <1>4
    <2>2. g \in [D -> D]
      BY <1>4, <1>9
    <2> HIDE DEF g
    <2>3. \A d, e \in D : g[d] = g[e] => d = e
      BY <1>11, <2>1
    <2>4. g \in Injection(D, D)
      BY <2>2, <2>3 DEF Injection, IsInjective
    <2>5. g \in Surjection(D, D)
      BY <1>3, <2>4, FS_Injection
    <2>6. \A d \in D : \E e \in D : g[e] = d
      BY <2>5 DEF Surjection
    <2> QED  BY <2>1, <2>6 DEF Region
  <1>14. new \in [Vertices -> D]
    <2>1. new = [v \in Vertices |-> new[v]]
      BY <1>6
    <2> QED  BY <1>9, <2>1
  <1> QED  BY <1>12, <1>13, <1>14 DEF Whole, new, D

\* The plan that the chain starts from.
LEMMA StartKeeps ==
    ASSUME SeedInv, Start
    PROVE  stage' \in {"cut", "refused"} /\ ChainInv'
  <1>1. stage = "even"
    BY DEF Start, Grown
  <1>2. SeedOf(ndists) /\ ndists \in Nat
    BY <1>1, EvenSeed, MapFacts
  <1>3. CASE contiguity(member_dvec)
    <2>1. /\ stage' = "cut" /\ cdvec' = vec_group_id(member_dvec) /\ district_pops' = DistrictPops(cdvec')
          /\ cds_prop' = cdvec' /\ cdspop_prop' = district_pops' /\ mh_exponent' = 0
      BY <1>3 DEF Start, NoProposal
    <2>2. /\ Whole(cdvec', ndists)
          /\ \A v \in Vertices : Region(cdvec', cdvec'[v]) = Region(member_dvec, member_dvec[v])
      BY <1>2, <2>1, NumberedByFirst DEF SeedOf
    <2>3. AllConnected(cdvec', ndists)
      <3> SUFFICES ASSUME NEW d \in 0 .. ndists - 1
                   PROVE  Connected(Region(cdvec', d), Edges)
        BY DEF AllConnected
      <3>1. PICK v \in Vertices : cdvec'[v] = d
        BY <2>2 DEF Whole, Region
      <3> QED  BY <1>3, <2>2, <3>1 DEF contiguity
    <2>4. Cardinality(genAlConn(cdvec')) - Cardinality(genAlConn(cdvec')) = 0
      <3>1. IsFiniteSet(genAlConn(cdvec'))
        BY GraphIsFinite
      <3>2. Cardinality(genAlConn(cdvec')) \in Nat
        BY <3>1, FS_CardinalityType
      <3> QED  BY <3>2
    <2> QED  BY <2>1, <2>2, <2>3, <2>4 DEF ChainInv, PlanKept
  <1>4. CASE ~ contiguity(member_dvec)
    BY <1>4 DEF Start, ChainInv
  <1> QED  BY <1>3, <1>4

---------------------------------------------------------------------------
\* The search for the pieces on the borders.

\* What PieceFrom is to find: the least set that holds v and its kept neighbours, and every kept
\* neighbour that is not marked.
IsPiece(P, v, kept, mark) ==
    /\ P \in SUBSET Vertices
    /\ {v} \cup KeptNeighbors(kept, {v}) \subseteq P
    /\ KeptNeighbors(kept, P) \ mark \subseteq P
    /\ \A D \in SUBSET Vertices :
          /\ {v} \cup KeptNeighbors(kept, {v}) \subseteq D
          /\ \A X \in SUBSET D : KeptNeighbors(kept, X) \ mark \subseteq D
          => P \subseteq D

\* The search for one piece ends with it.
LEMMA PieceIs ==
    ASSUME NEW v \in Vertices, NEW kept \in SUBSET Edges, NEW mark
    PROVE  IsPiece(PieceFrom(v, kept, mark), v, kept, mark)
  <1> DEFINE N == Cardinality(Vertices)
             a == {v} \cup KeptNeighbors(kept, {v})
             Grow1(X) == X \cup (KeptNeighbors(kept, X) \ mark)
             F == [X \in SUBSET Vertices |-> Grow1(X)]
             h == [n \in 1 .. N |-> F]
             Search(f) == f = [n \in 0 .. N |->
                                 IF n = 0 THEN {v} \cup KeptNeighbors(kept, {v})
                                 ELSE f[n - 1] \cup (KeptNeighbors(kept, f[n - 1]) \ mark)]
             found == CHOOSE f : Search(f)
  <1>0. N \in Nat /\ IsFiniteSet(Vertices)
    BY MapFacts
  <1>1. \A X \in SUBSET Vertices : KeptNeighbors(kept, X) \in SUBSET Vertices
    BY MapAssumption DEF KeptNeighbors
  <1>2. F \in [SUBSET Vertices -> SUBSET Vertices] /\ \A X \in SUBSET Vertices : X \subseteq F[X]
    BY <1>1
  <1>3. a \in SUBSET Vertices /\ h \in [1 .. N -> [SUBSET Vertices -> SUBSET Vertices]]
    BY <1>1, <1>2
  <1>4. \E f : Search(f)
    <2>1. PICK f \in [0 .. N -> SUBSET Vertices] : IsIteration(f, N, a, h)
      <3> HIDE DEF N, h, a
      <3> QED  BY <1>0, <1>3, IterationExists
    <2>2. \A k \in 1 .. N : h[k][f[k - 1]] = Grow1(f[k - 1])
      <3> TAKE k \in 1 .. N
      <3>1. k - 1 \in 0 .. N
        BY <1>0
      <3>2. f[k - 1] \in SUBSET Vertices
        BY <2>1, <3>1
      <3> QED  BY <3>2
    <2>3. \A k \in 0 .. N : k # 0 => k \in 1 .. N
      BY <1>0
    <2> HIDE DEF h, N
    <2>4. Search(f)
      BY <2>1, <2>2, <2>3 DEF IsIteration
    <2> QED  BY <2>4
  <1>5. PieceFrom(v, kept, mark) = found[N]
    BY DEF PieceFrom
  <1>6. Search(found)
    <2> HIDE DEF Search
    <2> QED  BY <1>4
  <1> HIDE DEF found
  <1>7. found[0] = a
    BY <1>0, <1>6
  <1>8. \A k \in 1 .. N : found[k - 1] \in SUBSET Vertices => found[k] = F[found[k - 1]]
    <2> TAKE k \in 1 .. N
    <2>1. k \in 0 .. N /\ k # 0
      BY <1>0
    <2>2. found[k] = Grow1(found[k - 1])
      BY <1>6, <2>1
    <2> QED  BY <2>2
  <1>9. IsLeastFixpoint(found[N], a, F, Vertices)
    <2>1. IsGrowth(F, Vertices)
      BY <1>2 DEF IsGrowth
    <2>2. Repeats(found, a, F, Cardinality(Vertices), SUBSET Vertices)
      BY <1>7, <1>8 DEF Repeats
    <2>3. a \in SUBSET Vertices
      BY <1>3
    <2> HIDE DEF F, a
    <2> QED  BY <1>0, <2>1, <2>2, <2>3, GrowthEnds
  <1> DEFINE P == found[N]
  <1>10. /\ P \in SUBSET Vertices /\ a \subseteq P /\ F[P] = P
         /\ \A D \in SUBSET Vertices : a \subseteq D /\ (\A X \in SUBSET D : F[X] \subseteq D) => P \subseteq D
    <2> HIDE DEF a, F
    <2> QED  BY <1>9 DEF IsLeastFixpoint
  <1> HIDE DEF P
  <1>11. KeptNeighbors(kept, P) \ mark \subseteq P
    BY <1>10
  <1>12. ASSUME NEW D \in SUBSET Vertices, a \subseteq D, \A X \in SUBSET D : KeptNeighbors(kept, X) \ mark \subseteq D
         PROVE  P \subseteq D
    <2>1. \A X \in SUBSET D : F[X] \subseteq D
      BY <1>12
    <2> HIDE DEF F, a
    <2> QED  BY <1>10, <1>12, <2>1
  <1>13. IsPiece(P, v, kept, mark)
    BY <1>10, <1>11, <1>12 DEF IsPiece
  <1> QED  BY <1>5, <1>13 DEF P

\* A kept edge leads to a kept neighbour.
LEMMA KeptEdgeTo ==
    ASSUME NEW kept \in SUBSET Edges, NEW X, NEW w \in KeptNeighbors(kept, X)
    PROVE  \E u \in X : {u, w} \in kept
  <1>1. PICK e \in kept : w \in e /\ e \cap X # {} /\ w \notin X
    BY DEF KeptNeighbors
  <1>2. PICK a, b \in Vertices : e = {a, b}
    BY <1>1, EdgeEnds
  <1> QED  BY <1>1, <1>2

\* A piece is connected: what no edge within it leaves holds all of it.
LEMMA PieceConnected ==
    ASSUME NEW v \in Vertices, NEW kept \in SUBSET Edges, NEW mark, NEW P, IsPiece(P, v, kept, mark)
    PROVE  Connected(P, Edges)
  <1>1. /\ P \in SUBSET Vertices /\ v \in P /\ KeptNeighbors(kept, {v}) \subseteq P
        /\ KeptNeighbors(kept, P) \ mark \subseteq P
        /\ \A D \in SUBSET Vertices :
              /\ {v} \cup KeptNeighbors(kept, {v}) \subseteq D
              /\ \A X \in SUBSET D : KeptNeighbors(kept, X) \ mark \subseteq D
              => P \subseteq D
    BY DEF IsPiece
  <1>3. ASSUME NEW D, v \in D, Closed(D, P, Edges)
        PROVE  D = P
    <2>1. D \in SUBSET Vertices /\ D \subseteq P
      BY <1>1, <1>3 DEF Closed
    <2>2. \A u \in D : \A w \in P : {u, w} \in kept => w \in D
      BY <1>3, <2>1 DEF Closed, Inside
    <2>3. KeptNeighbors(kept, {v}) \subseteq D
      <3> SUFFICES ASSUME NEW w \in KeptNeighbors(kept, {v})
                   PROVE  w \in D
        OBVIOUS
      <3> DEFINE alone == {v}
      <3>0. w \in KeptNeighbors(kept, alone)
        OBVIOUS
      <3> HIDE DEF alone
      <3>1. PICK u \in alone : {u, w} \in kept
        BY <3>0, KeptEdgeTo
      <3>2. {v, w} \in kept /\ w \in P
        BY <1>1, <3>1 DEF alone
      <3> QED  BY <1>3, <2>2, <3>2
    <2>4. ASSUME NEW X \in SUBSET D, NEW w \in KeptNeighbors(kept, X), w \notin mark
          PROVE  w \in D
      <3>1. PICK u \in X : {u, w} \in kept
        BY KeptEdgeTo
      <3>2. w \in P
        <4> SUFFICES ASSUME w \notin P
                     PROVE  FALSE
          OBVIOUS
        <4>1. {u, w} \in {e \in kept : e \cap P # {}} /\ u \in P
          BY <2>1, <3>1
        <4>2. w \in KeptNeighbors(kept, P)
          BY <4>1 DEF KeptNeighbors
        <4> QED  BY <1>1, <2>4, <4>2
      <3> QED  BY <2>2, <3>1, <3>2
    <2>5. P \subseteq D
      BY <1>1, <1>3, <2>1, <2>3, <2>4
    <2> QED  BY <2>1, <2>5
  <1>4. ASSUME NEW D, D # {}, Closed(D, P, Edges)
        PROVE  D = P
    <2>1. CASE v \in D
      BY <1>3, <1>4, <2>1
    <2>2. CASE v \notin D
      <3>1. Closed(P, P, Edges)
        BY DEF Closed, Inside
      <3>2. Closed(P \ D, P, Edges) /\ v \in P \ D
        BY <1>1, <1>4, <2>2, <3>1, ClosedWithout
      <3>3. P \ D = P
        BY <1>3, <3>2
      <3>4. D \subseteq P
        BY <1>4 DEF Closed
      <3> QED  BY <1>4, <3>3, <3>4
    <2> QED  BY <2>1, <2>2
  <1>5. IsFiniteSet(P)
    BY <1>1, MapFacts
  <1> QED  BY <1>4, <1>5, ConnectedIsClosed

\* One turn of the search for pieces.
TurnOf(s, kept) ==
    LET piece == PieceFrom(Min(s.left), kept, s.mark)
    IN  [left |-> s.left \ piece, mark |-> s.mark \cup piece, found |-> s.found \cup {piece}]

Searches == [left : SUBSET Vertices, mark : SUBSET Vertices, found : SUBSET SUBSET Vertices]

\* A turn finds the piece of a precinct that was left.
LEMMA TurnGoesOn ==
    ASSUME NEW kept \in SUBSET Edges, NEW s \in Searches, s.left # {}
    PROVE  /\ Cardinality(TurnOf(s, kept).left) < Cardinality(s.left)
           /\ Cardinality(TurnOf(s, kept).left) \in Nat /\ Cardinality(s.left) \in Nat
  <1> DEFINE v == Min(s.left)
             P == PieceFrom(v, kept, s.mark)
             old == s.left
             new == old \ P
  <1>1. v \in old /\ v \in Vertices /\ old \in SUBSET Vertices
    <2>1. old \in SUBSET Vertices /\ old \in SUBSET Nat
      BY MapFacts DEF Searches
    <2> QED  BY <2>1, MinIsLeast
  <1>2. v \in P
    <2> HIDE DEF v
    <2>1. IsPiece(P, v, kept, s.mark)
      BY <1>1, PieceIs
    <2> QED  BY <2>1 DEF IsPiece
  <1>3. TurnOf(s, kept).left = new
    BY DEF TurnOf
  <1> HIDE DEF v, P, old
  <1>4. IsFiniteSet(old) /\ new \in SUBSET old /\ new # old /\ IsFiniteSet(new)
    BY <1>1, <1>2, MapFacts
  <1> HIDE DEF new
  <1>5. Cardinality(new) <= Cardinality(old) /\ Cardinality(new) # Cardinality(old)
    BY <1>4, FS_Subset
  <1>6. Cardinality(new) \in Nat /\ Cardinality(old) \in Nat
    BY <1>4, FS_CardinalityType
  <1> QED  BY <1>3, <1>5, <1>6 DEF old

\* The search goes on until nothing is left, and stays where every turn stays.
LEMMA SearchEnds ==
    ASSUME NEW kept \in SUBSET Edges, NEW boundary \in SUBSET Vertices, NEW Half \in SUBSET Searches,
           [left |-> boundary, mark |-> {0}, found |-> {}] \in Half,
           \A s \in Half : s.left # {} => TurnOf(s, kept) \in Half
    PROVE  \E s \in Half : s.left = {} /\ s.found = bsearch_boundary(kept, boundary)
  <1> DEFINE N == Cardinality(boundary)
             a == [left |-> boundary, mark |-> {0}, found |-> {}]
             Turn(s) == IF s.left = {} THEN s ELSE TurnOf(s, kept)
             H == [s \in Half |-> Turn(s)]
             h == [n \in 1 .. N |-> H]
             Search(f) == f = [n \in 0 .. N |->
                     IF n = 0 THEN [left |-> boundary, mark |-> {0}, found |-> {}]
                     ELSE IF f[n - 1].left = {} THEN f[n - 1]
                     ELSE [left  |-> f[n - 1].left \ PieceFrom(Min(f[n - 1].left), kept, f[n - 1].mark),
                           mark  |-> f[n - 1].mark \cup PieceFrom(Min(f[n - 1].left), kept, f[n - 1].mark),
                           found |-> f[n - 1].found \cup {PieceFrom(Min(f[n - 1].left), kept, f[n - 1].mark)}]]
             search == CHOOSE f : Search(f)
  <1>0. N \in Nat
    BY MapFacts, FS_CardinalityType
  <1>1. a \in Half
    OBVIOUS
  <1>2. \A s \in Half : Turn(s) \in Half
    <2> HIDE DEF a
    <2> QED  OBVIOUS
  <1>3. H \in [Half -> Half] /\ h \in [1 .. N -> [Half -> Half]]
    <2> HIDE DEF Turn
    <2> QED  BY <1>2
  <1>4. \E f : Search(f)
    <2>1. PICK f \in [0 .. N -> Half] : IsIteration(f, N, a, h)
      <3> HIDE DEF N, h, a
      <3> QED  BY <1>0, <1>1, <1>3, IterationExists
    <2>2. \A k \in 1 .. N : h[k][f[k - 1]] = Turn(f[k - 1])
      <3> TAKE k \in 1 .. N
      <3>1. k - 1 \in 0 .. N
        BY <1>0
      <3> HIDE DEF Turn, N
      <3>2. f[k - 1] \in Half
        BY <2>1, <3>1
      <3> QED  BY <3>2
    <2>3. \A k \in 0 .. N : k # 0 => k \in 1 .. N
      BY <1>0
    <2> HIDE DEF h, N
    <2>4. f = [n \in 0 .. N |-> IF n = 0 THEN a ELSE Turn(f[n - 1])]
      <3> HIDE DEF Turn, a
      <3> QED  BY <2>1, <2>2, <2>3 DEF IsIteration
    <2>5. Search(f)
      BY <2>4 DEF TurnOf
    <2> QED  BY <2>5
  <1>5. bsearch_boundary(kept, boundary) = search[N].found
    BY DEF bsearch_boundary
  <1>6. Search(search)
    <2> HIDE DEF Search
    <2> QED  BY <1>4
  <1> HIDE DEF search
  <1>7. search[0] = a /\ \A k \in 1 .. N : search[k] = Turn(search[k - 1])
    <2>1. search[0] = a
      BY <1>0, <1>6
    <2>2. ASSUME NEW k \in 1 .. N
          PROVE  search[k] = Turn(search[k - 1])
      <3>1. k \in 0 .. N /\ k # 0
        BY <1>0
      <3> QED  BY <1>6, <3>1 DEF TurnOf
    <2> QED  BY <2>1, <2>2
  <1>8. \A n \in 0 .. N : search[n] \in Half
    <2>1. Repeats(search, a, H, N, Half)
      <3> HIDE DEF Turn, a, N
      <3> QED  BY <1>7 DEF Repeats
    <2> HIDE DEF N, H, a
    <2> QED  BY <1>0, <1>1, <1>3, <2>1, RepeatsStay
  <1> DEFINE S == {n \in Nat : n <= N => search[n].left = {} \/ Cardinality(search[n].left) <= N - n}
  <1>9. 0 \in S
    BY <1>0, <1>7
  <1>10. ASSUME NEW n \in Nat, n \in S
         PROVE  n + 1 \in S
    <2> SUFFICES ASSUME n + 1 <= N
                 PROVE  search[n + 1].left = {} \/ Cardinality(search[n + 1].left) <= N - (n + 1)
      OBVIOUS
    <2>1. n \in 0 .. N /\ n + 1 \in 1 .. N /\ (n + 1) - 1 = n
      BY <1>0
    <2>2. search[n + 1] = Turn(search[n]) /\ search[n] \in Half /\ search[n] \in Searches
      BY <1>7, <1>8, <2>1
    <2>3. CASE search[n].left = {}
      BY <2>2, <2>3
    <2>4. CASE search[n].left # {}
      <3>1. Cardinality(search[n].left) <= N - n
        BY <1>10, <2>1, <2>4
      <3>2. search[n + 1] = TurnOf(search[n], kept)
        BY <2>2, <2>4
      <3> DEFINE s == search[n]
                 t == search[n + 1]
      <3>3. s \in Searches /\ s.left # {} /\ t = TurnOf(s, kept) /\ Cardinality(s.left) <= N - n
        BY <2>2, <2>4, <3>1, <3>2
      <3> HIDE DEF s, t, N
      <3>4. /\ Cardinality(t.left) < Cardinality(s.left)
            /\ Cardinality(t.left) \in Nat /\ Cardinality(s.left) \in Nat
        BY <3>3, TurnGoesOn
      <3>5. Cardinality(t.left) <= N - (n + 1)
        BY <1>0, <3>3, <3>4
      <3> QED  BY <3>5 DEF t
    <2> QED  BY <2>3, <2>4
  <1>11. N \in S
    <2> HIDE DEF S
    <2> QED  BY <1>0, <1>9, <1>10, SetInduction
  <1>12. search[N] \in Half /\ search[N] \in Searches
    BY <1>0, <1>8
  <1>13. search[N].left = {}
    <2>1. search[N].left = {} \/ Cardinality(search[N].left) <= 0
      BY <1>0, <1>11
    <2>2. IsFiniteSet(search[N].left)
      BY <1>12, MapFacts DEF Searches
    <2>3. Cardinality(search[N].left) \in Nat /\ (Cardinality(search[N].left) = 0 => search[N].left = {})
      BY <2>2, FS_CardinalityType, FS_EmptySet
    <2> QED  BY <2>1, <2>3
  <1> QED  BY <1>5, <1>12, <1>13

\* The search halfway: the pieces found are disjoint and within districts, what
\* is marked is precinct 0 and what they hold, and a kept edge leaves a piece
\* only to what was marked before.  Precinct 0 is left only at the beginning.
HalfFound(s, kept, plan) ==
    /\ s \in Searches
    /\ PiecesFit(s.found, plan)
    /\ s.mark = {0} \cup UNION s.found
    /\ s.left \cap UNION s.found = {}
    /\ \A P \in s.found : KeptNeighbors(kept, P) \subseteq s.mark
    /\ 0 \in s.left => s.found = {}

\* A turn adds a piece that fits.
LEMMA PieceFits ==
    ASSUME NEW plan, NEW kept \in SUBSET genAlConn(plan), NEW s, HalfFound(s, kept, plan), s.left # {},
           NEW piece, piece = PieceFrom(Min(s.left), kept, s.mark)
    PROVE  HalfFound([left |-> s.left \ piece, mark |-> s.mark \cup piece, found |-> s.found \cup {piece}],
                     kept, plan)
  <1> DEFINE v == Min(s.left)
             found == s.found
  <1>b. /\ found \in SUBSET SUBSET Vertices /\ s.left \in SUBSET Vertices /\ s.mark \in SUBSET Vertices
        /\ PiecesFit(found, plan) /\ s.mark = {0} \cup UNION found
        /\ s.left \cap UNION found = {} /\ (0 \in s.left => found = {})
        /\ \A P \in found : KeptNeighbors(kept, P) \subseteq s.mark
    BY DEF HalfFound, Searches
  <1>1. v \in s.left /\ v \in Vertices /\ (0 \in s.left => v = 0)
    <2>1. s.left \in SUBSET Nat
      BY MapFacts DEF HalfFound, Searches
    <2>2. v \in s.left /\ \A x \in s.left : v <= x
      BY <2>1, MinIsLeast
    <2>3. v \in Nat /\ v \in Vertices
      BY <2>1, <2>2 DEF HalfFound, Searches
    <2> HIDE DEF v
    <2> QED  BY <2>2, <2>3
  <1>2. kept \in SUBSET Edges /\ \A e \in kept : e \subseteq Vertices /\ \A u, w \in e : plan[u] = plan[w]
    BY KeptEdges, MapAssumption
  <1>a. piece = PieceFrom(v, kept, s.mark)
    OBVIOUS
  <1> HIDE DEF v, found
  <1>3. /\ piece \in SUBSET Vertices
        /\ v \in piece /\ KeptNeighbors(kept, {v}) \subseteq piece
        /\ KeptNeighbors(kept, piece) \ s.mark \subseteq piece
        /\ \A D \in SUBSET Vertices :
                 /\ {v} \cup KeptNeighbors(kept, {v}) \subseteq D
                 /\ \A X \in SUBSET D : KeptNeighbors(kept, X) \ s.mark \subseteq D
                 => piece \subseteq D
    <2>1. IsPiece(piece, v, kept, s.mark)
      BY <1>1, <1>2, <1>a, PieceIs
    <2> QED  BY <2>1 DEF IsPiece
  <1>4. \A X \in SUBSET Region(plan, plan[v]) : KeptNeighbors(kept, X) \in SUBSET Region(plan, plan[v])
    BY <1>2 DEF KeptNeighbors, Region
  <1>5. v \in Region(plan, plan[v]) /\ Region(plan, plan[v]) \in SUBSET Vertices
    BY <1>1 DEF Region
  <1>6. piece \subseteq Region(plan, plan[v])
    <2> DEFINE D == Region(plan, plan[v])
    <2>1. {v} \in SUBSET D
      BY <1>5
    <2>2. {v} \cup KeptNeighbors(kept, {v}) \subseteq D
      BY <1>4, <2>1
    <2>3. \A X \in SUBSET D : KeptNeighbors(kept, X) \ s.mark \subseteq D
      BY <1>4
    <2> HIDE DEF D
    <2> QED  BY <1>3, <1>5, <2>2, <2>3 DEF D
  <1>7. \A u, w \in piece : plan[u] = plan[w]
    BY <1>6 DEF Region
  <1>8. KeptNeighbors(kept, {v}) \cap UNION found = {}
    <2> SUFFICES ASSUME NEW w \in KeptNeighbors(kept, {v}), NEW P \in found, w \in P
                 PROVE  FALSE
      OBVIOUS
    <2>1. PICK e \in kept : v \in e /\ w \in e
      BY DEF KeptNeighbors
    <2>2. v \notin P
      BY <1>b, <1>1
    <2>3. v \in KeptNeighbors(kept, P)
      <3>1. e \in {f \in kept : f \cap P # {}}
        BY <2>1
      <3>2. v \in UNION {f \in kept : f \cap P # {}}
        BY <2>1, <3>1
      <3> QED  BY <2>2, <3>2 DEF KeptNeighbors
    <2>4. v = 0
      <3>1. v \in s.mark
        BY <1>b, <2>3
      <3>2. v \notin UNION found
        BY <1>b, <1>1
      <3> HIDE DEF found
      <3> QED  BY <1>b, <3>1, <3>2
    <2> QED  BY <1>b, <1>1, <2>4
  <1>9. piece \cap UNION found = {}
    <2> DEFINE D == Vertices \ UNION found
    <2>1. \A X \in SUBSET D : KeptNeighbors(kept, X) \in SUBSET Vertices
      BY <1>2 DEF KeptNeighbors
    <2>2. UNION found \subseteq s.mark
      BY <1>b
    <2>3. \A X \in SUBSET D : KeptNeighbors(kept, X) \ s.mark \subseteq D
      BY <2>1, <2>2
    <2>4. {v} \cup KeptNeighbors(kept, {v}) \subseteq D
      <3>1. v \in D
        BY <1>b, <1>1
      <3>2. KeptNeighbors(kept, {v}) \subseteq Vertices
        BY <1>2 DEF KeptNeighbors
      <3> QED  BY <1>8, <3>1, <3>2
    <2>5. D \in SUBSET Vertices
      OBVIOUS
    <2>6. piece \subseteq D
      <3> HIDE DEF D
      <3> QED  BY <1>3, <2>3, <2>4, <2>5
    <2> QED  BY <2>6
  <1> DEFINE t == [left |-> s.left \ piece, mark |-> s.mark \cup piece, found |-> s.found \cup {piece}]
  <1>10. t \in [left : SUBSET Vertices, mark : SUBSET Vertices, found : SUBSET SUBSET Vertices]
    <2>1. /\ s.left \ piece \in SUBSET Vertices /\ s.mark \cup piece \in SUBSET Vertices
          /\ found \cup {piece} \in SUBSET SUBSET Vertices
      BY <1>b, <1>3
    <2> QED  BY <2>1 DEF found
  <1>c. /\ \A C \in found \cup {piece} : C \in found \/ C = piece
        /\ UNION (found \cup {piece}) = piece \cup UNION found
    OBVIOUS
  <1>11. PiecesFit(found \cup {piece}, plan)
    <2>a. \A C \in found : /\ C # {} /\ C \subseteq Vertices /\ C \cap piece = {}
                            /\ \A u, w \in C : plan[u] = plan[w]
                            /\ Connected(C, Edges)
      BY <1>b, <1>9 DEF PiecesFit
    <2>c. Connected(piece, Edges)
      <3>1. IsPiece(piece, v, kept, s.mark)
        BY <1>1, <1>2, <1>a, PieceIs
      <3> QED  BY <1>1, <1>2, <3>1, PieceConnected
    <2>b. \A C, D \in found : C # D => C \cap D = {}
      BY <1>b DEF PiecesFit
    <2>1. \A C \in found \cup {piece} : /\ C # {} /\ C \subseteq Vertices /\ \A u, w \in C : plan[u] = plan[w]
                                        /\ Connected(C, Edges)
      BY <1>c, <1>3, <1>7, <2>a, <2>c
    <2>2. \A C, D \in found \cup {piece} : C # D => C \cap D = {}
      BY <1>c, <2>a, <2>b
    <2> QED  BY <2>1, <2>2 DEF PiecesFit
  <1>12. s.mark \cup piece = {0} \cup UNION (found \cup {piece})
    BY <1>b, <1>c
  <1>13. (s.left \ piece) \cap UNION (found \cup {piece}) = {}
    BY <1>b, <1>c
  <1>14. \A P \in found \cup {piece} : KeptNeighbors(kept, P) \subseteq s.mark \cup piece
    BY <1>b, <1>3
  <1>15. 0 \notin s.left \ piece
    BY <1>1, <1>3
  <1> QED  BY <1>10, <1>11, <1>12, <1>13, <1>14, <1>15 DEF HalfFound, Searches, found

\* The pieces found at the borders of a plan are disjoint, none is empty, and
\* each is within a district: precinct 0, which seems reached from the start,
\* takes no precinct into two pieces.
THEOREM PiecesFound ==
    ASSUME NEW plan, NEW kept \in SUBSET genAlConn(plan), NEW boundary \in SUBSET Vertices
    PROVE  PiecesFit(bsearch_boundary(kept, boundary), plan)
  <1> DEFINE Half == {s \in Searches : HalfFound(s, kept, plan)}
             a == [left |-> boundary, mark |-> {0}, found |-> {}]
  <1>1. a \in Half
    <2>1. 0 \in Vertices
      BY MapFacts
    <2>2. a \in Searches
      BY <2>1 DEF Searches
    <2> QED  BY <2>2 DEF HalfFound, PiecesFit
  <1>2. ASSUME NEW s \in Half, s.left # {}
        PROVE  TurnOf(s, kept) \in Half
    <2>1. HalfFound(TurnOf(s, kept), kept, plan)
      BY <1>2, PieceFits DEF TurnOf
    <2> QED  BY <2>1 DEF HalfFound
  <1>3. kept \in SUBSET Edges /\ Half \in SUBSET Searches
    BY DEF genAlConn
  <1>4. PICK s \in Half : s.found = bsearch_boundary(kept, boundary)
    <2> HIDE DEF Half
    <2> QED  BY <1>1, <1>2, <1>3, SearchEnds
  <1> QED  BY <1>4 DEF HalfFound

\* Cutting edges leaves the plan what it is, and the pieces fit it.
LEMMA CutEdgesKeeps ==
    ASSUME ChainInv, CutEdges
    PROVE  stage' = "swap" /\ ChainInv'
  <1>1. /\ stage = "cut" /\ stage' = "swap"
        /\ UNCHANGED <<cdvec, district_pops, cds_prop, cdspop_prop, mh_exponent>>
    BY DEF CutEdges, chain
  <1>2. /\ PlanKept(cdvec, district_pops) /\ PlanKept(cds_prop, cdspop_prop) /\ cds_prop = cdvec
        /\ mh_exponent = Cardinality(genAlConn(cds_prop)) - Cardinality(genAlConn(cdvec))
    BY <1>1 DEF ChainInv
  <1>3. PICK kept \in SUBSET genAlConn(cdvec) : boundary_cc' = bsearch_boundary(kept, findBoundary(cdvec))
    BY DEF CutEdges
  <1>4. PiecesFit(boundary_cc', cds_prop)
    BY <1>2, <1>3, PiecesFound, BorderPrecincts
  <1> QED  BY <1>1, <1>2, <1>4 DEF ChainInv

---------------------------------------------------------------------------
\* Swapping a piece.

\* The adjacencies with an end in each of two sets.
Between(C, S) == {e \in Edges : e \cap C # {} /\ e \cap S # {}}

\* Counting the adjacencies between two sets that share nothing from the ends in
\* one of them counts each once.
LEMMA CutCounts ==
    ASSUME NEW C \in SUBSET Vertices, NEW S \in SUBSET Vertices, C \cap S = {}
    PROVE  Cut(C, S) = Cardinality(Between(C, S))
  <1> DEFINE Pairs == {vu \in C \X S : {vu[1], vu[2]} \in Edges}
             B == Between(C, S)
             f == [vu \in Pairs |-> {vu[1], vu[2]}]
  <1>1. f \in [Pairs -> B]
    <2> SUFFICES ASSUME NEW vu \in Pairs
                 PROVE  {vu[1], vu[2]} \in B
      OBVIOUS
    <2>1. vu[1] \in C /\ vu[2] \in S /\ {vu[1], vu[2]} \in Edges
      OBVIOUS
    <2> QED  BY <2>1 DEF Between
  <1>2. \A x, y \in Pairs : f[x] = f[y] => x = y
    <2> SUFFICES ASSUME NEW x \in Pairs, NEW y \in Pairs, {x[1], x[2]} = {y[1], y[2]}
                 PROVE  x = y
      OBVIOUS
    <2>1. /\ x[1] \in C /\ x[2] \in S /\ y[1] \in C /\ y[2] \in S
          /\ x = <<x[1], x[2]>> /\ y = <<y[1], y[2]>>
      OBVIOUS
    <2>2. x[1] = y[1] /\ x[2] = y[2]
      BY <2>1
    <2> QED  BY <2>1, <2>2
  <1>3. \A e \in B : \E x \in Pairs : f[x] = e
    <2> SUFFICES ASSUME NEW e \in B
                 PROVE  \E x \in Pairs : {x[1], x[2]} = e
      OBVIOUS
    <2>1. e \in Edges /\ e \cap C # {} /\ e \cap S # {}
      BY DEF Between
    <2>2. PICK a \in C, b \in S : a \in e /\ b \in e
      BY <2>1
    <2>3. PICK u, v \in Vertices : e = {u, v}
      BY <2>1, EdgeEnds
    <2>4. {a, b} = e
      BY <2>2, <2>3
    <2>5. <<a, b>> \in Pairs
      BY <2>1, <2>4
    <2> QED  BY <2>4, <2>5
  <1>4. IsFiniteSet(B)
    BY GraphIsFinite DEF Between
  <1>5. f \in Bijection(Pairs, B)
    <2> HIDE DEF f, Pairs, B
    <2> QED  BY <1>1, <1>2, <1>3 DEF Bijection, Injection, IsInjective, Surjection
  <1>6. Cardinality(Pairs) = Cardinality(B)
    <2>1. IsFiniteSet(C \X S)
      BY MapFacts, FS_Product
    <2>2. IsFiniteSet(Pairs)
      BY <2>1, FS_Subset
    <2> HIDE DEF f, Pairs, B
    <2>3. ExistsBijection(Pairs, B)
      BY <1>5 DEF ExistsBijection
    <2> QED  BY <2>2, <2>3, FS_Bijection
  <1> QED  BY <1>6 DEF Cut

\* The size of a finite set with a set that shares nothing with it.
LEMMA SizeOfUnion ==
    ASSUME NEW A, NEW B, IsFiniteSet(A), IsFiniteSet(B), A \cap B = {}
    PROVE  Cardinality(A \cup B) = Cardinality(A) + Cardinality(B)
  <1>1. Cardinality(A \cup B) = Cardinality(A) + Cardinality(B) - Cardinality(A \cap B)
    BY FS_Union
  <1>2. Cardinality(A \cap B) = 0 /\ Cardinality(A) \in Nat /\ Cardinality(B) \in Nat
    BY FS_EmptySet, FS_CardinalityType
  <1> QED  BY <1>1, <1>2

\* The exponent of one swap is the number of adjacencies that the plan gains
\* inside districts.
LEMMA SwapCountsEdges ==
    ASSUME NEW plan \in [Vertices -> 0 .. ndists - 1],
           NEW i \in 0 .. ndists - 1, NEW d \in 0 .. ndists - 1, i # d, NEW C \in SUBSET Region(plan, i)
    PROVE  Cut(C, Region(plan, d)) - Cut(C, Region(plan, i) \ C) =
             Cardinality(genAlConn(Swapped(plan, C, d))) - Cardinality(genAlConn(plan))
  <1> DEFINE new == Swapped(plan, C, d)
             A == {e \in genAlConn(plan) : e \subseteq C \/ e \cap C = {}}
             Lost == Between(C, Region(plan, i) \ C)
             Gained == Between(C, Region(plan, d))
  <1>1. C \in SUBSET Vertices /\ Region(plan, d) \in SUBSET Vertices /\ Region(plan, i) \in SUBSET Vertices
    BY DEF Region
  <1>2. \A v \in Vertices : new[v] = IF v \in C THEN d ELSE plan[v]
    BY DEF Swapped
  <1>3. \A v \in C : plan[v] = i
    BY DEF Region
  <1>4. \A e \in Edges : \E u, v \in Vertices : u # v /\ e = {u, v}
    BY EdgeEnds
  <1>5. /\ \A e \in Edges : e \in genAlConn(plan) <=> \A u, v \in e : plan[u] = plan[v]
        /\ genAlConn(plan) \subseteq Edges
    BY KeptEdges
  <1>6. /\ \A e \in Edges : e \in genAlConn(new) <=> \A u, v \in e : new[u] = new[v]
        /\ genAlConn(new) \subseteq Edges
    BY KeptEdges
  <1>7. genAlConn(plan) = A \cup Lost
    <2>1. ASSUME NEW e \in genAlConn(plan)
          PROVE  e \in A \cup Lost
      <3>1. e \in Edges /\ \A u, v \in e : plan[u] = plan[v]
        BY <1>5
      <3>2. e \subseteq Vertices
        BY <3>1, MapAssumption
      <3>3. CASE e \cap C # {} /\ ~ (e \subseteq C)
        <4>1. e \cap (Region(plan, i) \ C) # {}
          BY <1>3, <3>1, <3>2, <3>3 DEF Region
        <4> QED  BY <3>1, <3>3, <4>1 DEF Between
      <3> QED  BY <3>3
    <2>2. ASSUME NEW e \in Lost
          PROVE  e \in genAlConn(plan)
      <3>1. e \in Edges /\ e \cap C # {} /\ e \cap (Region(plan, i) \ C) # {}
        BY DEF Between
      <3>2. PICK u, v \in Vertices : u # v /\ e = {u, v}
        BY <1>4, <3>1
      <3>3. plan[u] = i /\ plan[v] = i
        BY <1>3, <3>1, <3>2 DEF Region
      <3> QED  BY <1>5, <3>1, <3>2, <3>3
    <2> HIDE DEF Lost
    <2> QED  BY <2>1, <2>2
  <1>8. genAlConn(new) = A \cup Gained
    <2>1. ASSUME NEW e \in genAlConn(new)
          PROVE  e \in A \cup Gained
      <3>1. e \in Edges /\ \A u, v \in e : new[u] = new[v]
        BY <1>6
      <3>2. e \subseteq Vertices
        BY <3>1, MapAssumption
      <3>3. CASE e \subseteq C
        <4>1. \A u, v \in e : plan[u] = plan[v]
          BY <1>3, <3>3
        <4> QED  BY <1>5, <3>1, <3>3, <4>1
      <3>4. CASE e \cap C = {}
        <4>1. \A u \in e : new[u] = plan[u]
          BY <1>2, <3>2, <3>4
        <4>2. \A u, v \in e : plan[u] = plan[v]
          BY <3>1, <4>1
        <4> QED  BY <1>5, <3>1, <3>4, <4>2
      <3>5. CASE e \cap C # {} /\ ~ (e \subseteq C)
        <4>1. PICK u \in e : u \in C
          BY <3>5
        <4>2. PICK v \in e : v \notin C
          BY <3>5
        <4>3. v \in Vertices /\ u \in Vertices /\ new[u] = d /\ new[v] = plan[v]
          BY <1>2, <3>2, <4>1, <4>2
        <4>4. v \in Region(plan, d)
          BY <3>1, <4>3 DEF Region
        <4> QED  BY <3>1, <4>1, <4>4 DEF Between
      <3> QED  BY <3>3, <3>4, <3>5
    <2>2. ASSUME NEW e \in A
          PROVE  e \in genAlConn(new)
      <3>1. e \in Edges /\ e \subseteq Vertices /\ \A u, v \in e : plan[u] = plan[v]
        BY <1>5, MapAssumption
      <3>2. \A u, v \in e : new[u] = new[v]
        BY <1>2, <3>1
      <3> HIDE DEF new
      <3> QED  BY <1>6, <3>1, <3>2
    <2>3. ASSUME NEW e \in Gained
          PROVE  e \in genAlConn(new)
      <3>1. e \in Edges /\ e \cap C # {} /\ e \cap Region(plan, d) # {}
        BY DEF Between
      <3>2. PICK u, v \in Vertices : u # v /\ e = {u, v}
        BY <1>4, <3>1
      <3>3. C \cap Region(plan, d) = {}
        BY <1>3 DEF Region
      <3>4. \A w \in Region(plan, d) : w \notin C /\ plan[w] = d
        BY <3>3 DEF Region
      <3>5. new[u] = d /\ new[v] = d
        BY <1>2, <3>1, <3>2, <3>4
      <3> HIDE DEF new
      <3> QED  BY <1>6, <3>1, <3>2, <3>5
    <2> HIDE DEF A, Gained, new
    <2> QED  BY <2>1, <2>2, <2>3
  <1>9. C \cap Region(plan, d) = {} /\ C \cap (Region(plan, i) \ C) = {}
    BY <1>3 DEF Region
  <1>10. A \cap Lost = {} /\ A \cap Gained = {}
    BY <1>9 DEF Between
  <1>11. IsFiniteSet(A) /\ IsFiniteSet(Lost) /\ IsFiniteSet(Gained)
    <2>1. A \in SUBSET Edges /\ Lost \in SUBSET Edges /\ Gained \in SUBSET Edges
      BY <1>5 DEF Between
    <2> HIDE DEF A, Lost, Gained
    <2> QED  BY <2>1, GraphIsFinite
  <1>12. Cut(C, Region(plan, d)) = Cardinality(Gained) /\ Cut(C, Region(plan, i) \ C) = Cardinality(Lost)
    <2>1. Region(plan, i) \ C \in SUBSET Vertices
      BY <1>1
    <2> QED  BY <1>1, <1>9, <2>1, CutCounts
  <1> HIDE DEF A, Lost, Gained, new
  <1>13. /\ Cardinality(genAlConn(plan)) = Cardinality(A) + Cardinality(Lost)
         /\ Cardinality(genAlConn(new)) = Cardinality(A) + Cardinality(Gained)
    BY <1>7, <1>8, <1>10, <1>11, SizeOfUnion
  <1>14. Cardinality(A) \in Nat /\ Cardinality(Lost) \in Nat /\ Cardinality(Gained) \in Nat
    BY <1>11, FS_CardinalityType
  <1>15. Cut(C, Region(plan, d)) - Cut(C, Region(plan, i) \ C) =
             Cardinality(genAlConn(new)) - Cardinality(genAlConn(plan))
    BY <1>12, <1>13, <1>14
  <1> QED  BY <1>15 DEF new

\* A draw that starts over forgets the proposal.
LEMMA TryAgainKeeps ==
    ASSUME ChainInv, stage = "swap", TryAgain
    PROVE  stage' \in {"cut", "swap", "decide"} /\ ChainInv'
  <1>1. /\ stage' = "cut" /\ mh_exponent' = 0 /\ cds_prop' = cdvec /\ cdspop_prop' = district_pops
        /\ UNCHANGED <<cdvec, district_pops>>
    BY DEF TryAgain, NoProposal, chain
  <1>2. PlanKept(cdvec, district_pops)
    BY DEF ChainInv
  <1>3. Cardinality(genAlConn(cdvec)) \in Nat
    BY GraphIsFinite, FS_CardinalityType
  <1>4. mh_exponent' = Cardinality(genAlConn(cds_prop')) - Cardinality(genAlConn(cdvec'))
    BY <1>1, <1>3
  <1> QED  BY <1>1, <1>2, <1>4 DEF ChainInv

\* What a draw does to the proposal: nothing, or a swap of a piece that stays
\* clear of the tests.
LEMMA SwapKeeps ==
    ASSUME ChainInv, stage = "swap", NEW C \in boundary_cc, NEW d \in 0 .. ndists - 1, Swap(C, d)
    PROVE  stage' \in {"cut", "swap", "decide"} /\ ChainInv'
  <1> DEFINE i == DistrictOf(cds_prop, C)
             R == Region(cds_prop, i)
             new == Swapped(cds_prop, C, d)
  <1>1. /\ PlanKept(cdvec, district_pops) /\ PlanKept(cds_prop, cdspop_prop)
        /\ PiecesFit(boundary_cc, cds_prop)
        /\ mh_exponent = Cardinality(genAlConn(cds_prop)) - Cardinality(genAlConn(cdvec))
    BY DEF ChainInv
  <1>2. /\ Swappable(cds_prop, accepted_partitions, C)
        /\ d \in CandidateDistricts(cds_prop, C)
    BY DEF Swap, ParityDistricts
  <1>3. C # {} /\ C \in SUBSET Vertices /\ \A u, v \in C : cds_prop[u] = cds_prop[v]
    BY <1>1 DEF PiecesFit
  <1>4. Min(C) \in C /\ Min(C) \in Vertices
    BY <1>3, MapFacts, MinIsLeast
  <1>5. /\ C \in SUBSET R /\ i \in 0 .. ndists - 1 /\ i # d /\ ndists \in Nat
        /\ cds_prop \in [Vertices -> 0 .. ndists - 1]
    <2>1. cds_prop \in [Vertices -> 0 .. ndists - 1]
      BY <1>1 DEF PlanKept, Whole
    <2>2. \A v \in C : cds_prop[v] = i
      BY <1>3, <1>4 DEF DistrictOf
    <2>3. i # d
      BY <1>2 DEF CandidateDistricts
    <2>4. i \in 0 .. ndists - 1
      BY <1>4, <2>1 DEF DistrictOf
    <2> HIDE DEF i
    <2> QED  BY <1>3, <2>1, <2>2, <2>3, <2>4, MapFacts DEF Region
  <1>6. C # R
    BY <1>2 DEF Swappable, elim_check
  <1>7. countpartitions(new) = ndists
    BY <1>2 DEF Swappable, Splits
  <1>8. Whole(new, ndists)
    <2> HIDE DEF i
    <2> QED  BY <1>1, <1>5, <1>6, SwappedWhole DEF PlanKept
  <1>9. AllConnected(new, ndists)
    BY <1>5, <1>7, <1>8, TestTellsConnected
  <1>10. DistrictPops(new) = update_distpop(cdspop_prop, C, i, d)
    <2> HIDE DEF i
    <2> QED  BY <1>1, <1>5, SwappedPops DEF PlanKept
  <1>11. update_mhprob(cds_prop, C, d) = Cardinality(genAlConn(new)) - Cardinality(genAlConn(cds_prop))
    <2>1. update_mhprob(cds_prop, C, d) = Cut(C, Region(cds_prop, d)) - Cut(C, Region(cds_prop, i) \ C)
      BY DEF update_mhprob
    <2> HIDE DEF i
    <2> QED  BY <1>5, <2>1, SwapCountsEdges
  <1>12. \A plan : Cardinality(genAlConn(plan)) \in Nat
    BY GraphIsFinite, FS_CardinalityType
  <1>13. PiecesFit(boundary_cc \ {C}, new)
    <2>1. \A D \in boundary_cc \ {C} : /\ D # {} /\ D \subseteq Vertices /\ D \cap C = {}
                                       /\ \A u, v \in D : cds_prop[u] = cds_prop[v]
                                       /\ Connected(D, Edges)
      BY <1>1 DEF PiecesFit
    <2>2. \A D \in boundary_cc \ {C} : \A v \in D : new[v] = cds_prop[v]
      BY <2>1 DEF Swapped
    <2>3. \A D, E \in boundary_cc : D # E => D \cap E = {}
      BY <1>1 DEF PiecesFit
    <2> HIDE DEF new
    <2> QED  BY <2>1, <2>2, <2>3 DEF PiecesFit
  <1>14. CASE TryAgain
    BY <1>14, TryAgainKeeps
  <1>15. CASE ~ TryAgain
    <2>1. /\ boundary_cc' = boundary_cc \ {C} /\ cds_prop' = new
          /\ mh_exponent' = mh_exponent + update_mhprob(cds_prop, C, d)
          /\ cdspop_prop' = update_distpop(cdspop_prop, C, i, d)
          /\ stage' \in {"swap", "decide"}
          /\ UNCHANGED <<cdvec, district_pops>>
      BY <1>15 DEF Swap, chain
    <2> HIDE DEF i, new
    <2>2. mh_exponent' = Cardinality(genAlConn(cds_prop')) - Cardinality(genAlConn(cdvec'))
      <3>1. /\ Cardinality(genAlConn(cds_prop)) \in Int /\ Cardinality(genAlConn(cdvec)) \in Int
            /\ Cardinality(genAlConn(new)) \in Int
        BY <1>12
      <3> QED  BY <1>1, <1>11, <2>1, <3>1
    <2>3. PlanKept(cds_prop', cdspop_prop')
      BY <1>8, <1>9, <1>10, <2>1 DEF PlanKept
    <2>4. PlanKept(cdvec', district_pops')
      BY <1>1, <2>1
    <2>5. PiecesFit(boundary_cc', cds_prop')
      BY <1>13, <2>1
    <2>6. stage' # "cut"
      BY <2>1
    <2> QED  BY <2>1, <2>2, <2>3, <2>4, <2>5, <2>6 DEF ChainInv
  <1> QED  BY <1>14, <1>15

\* A piece that is passed over.
LEMMA PassOverKeeps ==
    ASSUME ChainInv, stage = "swap", NEW C \in boundary_cc, PassOver(C)
    PROVE  stage' \in {"cut", "swap", "decide"} /\ ChainInv'
  <1>1. CASE TryAgain
    BY <1>1, TryAgainKeeps
  <1>2. CASE ~ TryAgain
    <2>1. /\ boundary_cc' = boundary_cc \ {C} /\ stage' = "swap"
          /\ UNCHANGED <<cdvec, district_pops, cds_prop, cdspop_prop, mh_exponent>>
      BY <1>2 DEF PassOver, seedVars, chain
    <2>2. PiecesFit(boundary_cc', cds_prop)
      BY <2>1 DEF ChainInv, PiecesFit
    <2> QED  BY <2>1, <2>2 DEF ChainInv
  <1> QED  BY <1>1, <1>2

\* The proposal becomes the plan, or is forgotten.
LEMMA DecisionKeeps ==
    ASSUME ChainInv, mh_decision
    PROVE  stage' = "cut" /\ ChainInv'
  <1>1. /\ stage = "decide" /\ stage' = "cut" /\ mh_exponent' = 0
        /\ cds_prop' = cdvec' /\ cdspop_prop' = district_pops'
        /\ \/ cdvec' = cds_prop /\ district_pops' = cdspop_prop
           \/ cdvec' = cdvec /\ district_pops' = district_pops
    BY DEF mh_decision, NoProposal, chain
  <1>2. PlanKept(cdvec, district_pops) /\ PlanKept(cds_prop, cdspop_prop)
    BY <1>1 DEF ChainInv
  <1>3. PlanKept(cdvec', district_pops')
    BY <1>1, <1>2
  <1>4. Cardinality(genAlConn(cdvec')) \in Nat
    BY GraphIsFinite, FS_CardinalityType
  <1>5. mh_exponent' = Cardinality(genAlConn(cds_prop')) - Cardinality(genAlConn(cdvec'))
    BY <1>1, <1>4
  <1> QED  BY <1>1, <1>3, <1>5 DEF ChainInv

---------------------------------------------------------------------------

\* A growth starts with the invariant.
LEMMA InitFInv == Init => FInv
  <1> SUFFICES ASSUME Init
               PROVE  FInv
    OBVIOUS
  <1>1. stage = "merge"
    BY DEF Init, SeedInit
  <1>2. SeedOf(Cardinality(Vertices))
    <2>1. member_dvec = OwnDistricts /\ member_plist = OwnMembers /\ adj_list_up = OwnNeighbors
      BY DEF Init, SeedInit
    <2> QED  BY <1>1, <2>1, OwnSeed, MapFacts DEF SeedOf
  <1> QED  BY <1>1, <1>2, MapFacts DEF FInv, SeedInv, ChainInv, Stages

\* One case for each action: those of a seed leave nothing of the chain to tell,
\* and those of the chain nothing of the seed.
LEMMA NextFInv == FInv /\ [Next]_vars => FInv'
  <1> SUFFICES ASSUME FInv, [Next]_vars
               PROVE  FInv'
    OBVIOUS
  <1>0. stage \in Stages /\ SeedInv /\ ChainInv
    BY DEF FInv
  <1>1. CASE Grow
    <2>1. SeedInv' /\ stage' \in {"merge", "even", "failed"}
      BY <1>0, <1>1, GrowKeeps DEF Grow
    <2> QED  BY <2>1 DEF FInv, ChainInv, Stages
  <1>2. CASE Start
    <2>1. stage' \in {"cut", "refused"} /\ ChainInv'
      BY <1>0, <1>2, StartKeeps
    <2> QED  BY <2>1 DEF FInv, SeedInv, Stages
  <1>3. CASE CutEdges
    <2>1. stage' = "swap" /\ ChainInv'
      BY <1>0, <1>3, CutEdgesKeeps
    <2> QED  BY <2>1 DEF FInv, SeedInv, Stages
  <1>4. CASE make_swaps
    <2>1. stage' \in {"cut", "swap", "decide"} /\ ChainInv'
      BY <1>0, <1>4, SwapKeeps, PassOverKeeps DEF make_swaps
    <2> QED  BY <2>1 DEF FInv, SeedInv, Stages
  <1>5. CASE mh_decision
    <2>1. stage' = "cut" /\ ChainInv'
      BY <1>0, <1>5, DecisionKeeps
    <2> QED  BY <2>1 DEF FInv, SeedInv, Stages
  <1>6. CASE UNCHANGED vars
    BY <1>0, <1>6 DEF FInv, SeedInv, SeedOf, ChainInv, DistrictPops, vars, seedVars, growth, chain, proposal
  <1> QED  BY <1>1, <1>2, <1>3, <1>4, <1>5, <1>6 DEF Next

\* FInv holds throughout.
THEOREM FlipInvariant == Spec => []FInv
  BY InitFInv, NextFInv, PTL DEF Spec

\* No sequence of swaps takes a district of the chain away or apart, and no seed
\* that was taken apart while it grew gets into the chain.
THEOREM DistrictsNeverSplit == Spec => []DistrictsStayConnected
  <1>1. FInv => DistrictsStayConnected
    BY DEF FInv, ChainInv, PlanKept, Whole, AllConnected, DistrictsStayConnected, ValidPlan
  <1> QED  BY <1>1, FlipInvariant, PTL

\* Members, neighbours and populations follow the plan through renumberings,
\* moves, swaps and proposals that are dropped.
THEOREM RecordsAlwaysFollow == Spec => []RecordsFollowThePlan
  <1>1. FInv => RecordsFollowThePlan
    <2> SUFFICES ASSUME FInv
                 PROVE  RecordsFollowThePlan
      OBVIOUS
    <2>1. stage \in {"cut", "swap", "decide"} => /\ district_pops = DistrictPops(cdvec)
                                                 /\ cdspop_prop = DistrictPops(cds_prop)
      BY DEF FInv, ChainInv, PlanKept
    <2>2. ASSUME stage \in {"merge", "even"}
          PROVE  /\ member_plist = [d \in Districts |-> Region(member_dvec, d)]
                 /\ adj_list_up = [d \in Districts |->
                        {member_dvec[v] : v \in Neighbors(member_plist[d])} \ {d}]
                 /\ stage = "even" => district_pop = DistrictPops(member_dvec)
      <3>1. PICK K \in Nat : SeedOf(K)
        BY <2>2 DEF FInv, SeedInv
      <3>2. Districts = 0 .. K - 1 /\ \A d \in Districts : member_plist[d] = Region(member_dvec, d)
        BY <3>1 DEF SeedOf, Members, Districts
      <3> QED  BY <3>1, <3>2 DEF SeedOf, Members, Adjacency
    <2> QED  BY <2>1, <2>2 DEF RecordsFollowThePlan
  <1> QED  BY <1>1, FlipInvariant, PTL

\* The exponents of the swaps of a move add up to what the ratio needs, the
\* adjacencies the proposal has within districts more than the plan.
THEOREM RatioAlwaysTells == Spec => []RatioTellsCutEdges
  <1>1. FInv => RatioTellsCutEdges
    BY DEF FInv, ChainInv, RatioTellsCutEdges
  <1> QED  BY <1>1, FlipInvariant, PTL

---------------------------------------------------------------------------
\* The way back.

\* Any of a set.
OneOf(S) == CHOOSE m \in S : TRUE

\* The plan once the first n moves of a proposal are made.
After(plan, moves, n) ==
    [v \in Vertices |->
        LET moved == {m \in 1 .. n : v \in moves[m].piece}
        IN  IF moved = {} THEN plan[v] ELSE moves[OneOf(moved)].prop_cd]

\* The first N pieces that have moved share nothing and are not next to each other.
Apart(moves, N) ==
    \A m, n \in 1 .. N : m # n =>
        /\ moves[m].piece \cap moves[n].piece = {}
        /\ Neighbors(moves[n].piece) \cap moves[m].piece = {}

\* A plan the chain may be at.
Fine(plan) == Whole(plan, ndists) /\ AllConnected(plan, ndists) /\ InBounds(DistrictPops(plan), PopBounds)

\* What the tests have seen of a move of piece C from i to d, made in plan `before`.
MadeIn(before, C, i, d) ==
    /\ C # {} /\ C \in SUBSET Vertices /\ Connected(C, Edges)
    /\ i \in 0 .. ndists - 1 /\ d \in 0 .. ndists - 1 /\ i # d
    /\ \A v \in C : before[v] = i
    /\ C # Region(before, i) /\ ~ Splits(before, C)
    /\ d \in CandidateDistricts(before, C)

\* What is known of the nth move of a proposal.
MoveMade(plan, moves, n) ==
    /\ MadeIn(After(plan, moves, n - 1), moves[n].piece, moves[n].curr_cd, moves[n].prop_cd)
    /\ Fine(After(plan, moves, n))

Moves == [piece : SUBSET Vertices, curr_cd : 0 .. ndists - 1, prop_cd : 0 .. ndists - 1]

\* What is remembered of a proposal: the moves made are those of a plan after the
\* other, each with what its tests have seen, and none undoes or adjoins another.
MovesInv ==
    stage \in {"cut", "swap", "decide"} =>
        /\ swaps \in Seq(Moves)
        /\ cds_prop = After(cdvec, swaps, Len(swaps))
        /\ \A n \in 1 .. Len(swaps) : MoveMade(cdvec, swaps, n)
        /\ Apart(swaps, Len(swaps))
        /\ stage = "cut" => swaps = <<>>
        /\ stage = "swap" => \A C \in boundary_cc : \A n \in 1 .. Len(swaps) : C \cap swaps[n].piece = {}

\* Before the first move the plan is what it was.
LEMMA AfterNone ==
    ASSUME NEW D, NEW plan \in [Vertices -> D], NEW moves
    PROVE  After(plan, moves, 0) = plan
  <1>1. \A v : {m \in 1 .. 0 : v \in moves[m].piece} = {}
    OBVIOUS
  <1> QED  BY <1>1 DEF After

\* What comes later does not matter.
LEMMA AfterSame ==
    ASSUME NEW plan, NEW moves, NEW other, NEW n \in Nat, \A m \in 1 .. n : other[m] = moves[m]
    PROVE  After(plan, other, n) = After(plan, moves, n)
  <1> DEFINE A(v) == {m \in 1 .. n : v \in moves[m].piece}
             B(v) == {m \in 1 .. n : v \in other[m].piece}
  <1>1. \A v \in Vertices : A(v) = B(v)
    OBVIOUS
  <1>2. \A v \in Vertices : A(v) # {} => OneOf(A(v)) \in 1 .. n
    <2> TAKE v \in Vertices
    <2>1. A(v) # {} => OneOf(A(v)) \in A(v)
      BY DEF OneOf
    <2> QED  BY <2>1
  <1>3. \A v \in Vertices :
            (IF A(v) = {} THEN plan[v] ELSE moves[OneOf(A(v))].prop_cd)
            = (IF B(v) = {} THEN plan[v] ELSE other[OneOf(B(v))].prop_cd)
    <2> HIDE DEF A, B
    <2> QED  BY <1>1, <1>2
  <1> QED  BY <1>3 DEF After

\* A precinct no piece holds is where it was, and one in a piece went with it.
LEMMA AfterIs ==
    ASSUME NEW plan, NEW moves, NEW n \in Nat, Apart(moves, n), NEW v \in Vertices
    PROVE  /\ (\A m \in 1 .. n : v \notin moves[m].piece) => After(plan, moves, n)[v] = plan[v]
           /\ \A m \in 1 .. n : v \in moves[m].piece => After(plan, moves, n)[v] = moves[m].prop_cd
  <1> DEFINE A == {m \in 1 .. n : v \in moves[m].piece}
  <1>1. After(plan, moves, n)[v] = IF A = {} THEN plan[v] ELSE moves[OneOf(A)].prop_cd
    BY DEF After
  <1>2. ASSUME NEW m \in 1 .. n, v \in moves[m].piece
        PROVE  A = {m}
    BY <1>2 DEF Apart
  <1>3. \A m : OneOf({m}) = m
    BY DEF OneOf
  <1> HIDE DEF A
  <1>4. ASSUME NEW m \in 1 .. n, v \in moves[m].piece
        PROVE  After(plan, moves, n)[v] = moves[m].prop_cd
    <2>1. A = {m}
      BY <1>2, <1>4
    <2> QED  BY <1>1, <1>3, <2>1
  <1>5. (\A m \in 1 .. n : v \notin moves[m].piece) => A = {}
    BY DEF A
  <1> QED  BY <1>1, <1>4, <1>5

\* One move more is a swap.
LEMMA AfterNext ==
    ASSUME NEW plan, NEW moves, NEW n \in Nat \ {0}, Apart(moves, n)
    PROVE  /\ After(plan, moves, n) = Swapped(After(plan, moves, n - 1), moves[n].piece, moves[n].prop_cd)
           /\ \A v \in Vertices : v \in moves[n].piece => After(plan, moves, n - 1)[v] = plan[v]
  <1>1. n - 1 \in Nat /\ Apart(moves, n - 1) /\ n \in 1 .. n /\ \A m \in 1 .. n : m # n => m \in 1 .. n - 1
    BY DEF Apart
  <1>2. ASSUME NEW v \in Vertices
        PROVE  After(plan, moves, n)[v] = IF v \in moves[n].piece THEN moves[n].prop_cd
                                          ELSE After(plan, moves, n - 1)[v]
    <2>1. CASE v \in moves[n].piece
      BY <1>1, <2>1, AfterIs
    <2>2. CASE \A m \in 1 .. n : v \notin moves[m].piece
      <3>1. After(plan, moves, n)[v] = plan[v]
        BY <2>2, AfterIs
      <3>2. \A m \in 1 .. n - 1 : v \notin moves[m].piece
        BY <2>2
      <3>3. After(plan, moves, n - 1)[v] = plan[v]
        BY <1>1, <3>2, AfterIs
      <3> QED  BY <1>1, <2>2, <3>1, <3>3
    <2>3. ASSUME v \notin moves[n].piece, NEW m \in 1 .. n, v \in moves[m].piece
          PROVE  After(plan, moves, n)[v] = After(plan, moves, n - 1)[v]
      <3>1. m \in 1 .. n - 1
        BY <1>1, <2>3
      <3>2. After(plan, moves, n)[v] = moves[m].prop_cd
        BY <2>3, AfterIs
      <3>3. After(plan, moves, n - 1)[v] = moves[m].prop_cd
        BY <1>1, <2>3, <3>1, AfterIs
      <3> QED  BY <3>2, <3>3
    <2> QED  BY <2>1, <2>2, <2>3
  <1>3. ASSUME NEW v \in Vertices, v \in moves[n].piece
        PROVE  After(plan, moves, n - 1)[v] = plan[v]
    <2>1. \A m \in 1 .. n - 1 : v \notin moves[m].piece
      <3> TAKE m \in 1 .. n - 1
      <3>1. m \in 1 .. n /\ m # n
        OBVIOUS
      <3> QED  BY <1>1, <1>3, <3>1 DEF Apart
    <2> QED  BY <1>1, <2>1, AfterIs
  <1>4. After(plan, moves, n) = [v \in Vertices |-> After(plan, moves, n)[v]]
    BY DEF After
  <1>5. Swapped(After(plan, moves, n - 1), moves[n].piece, moves[n].prop_cd)
          = [v \in Vertices |-> IF v \in moves[n].piece THEN moves[n].prop_cd
                                ELSE After(plan, moves, n - 1)[v]]
    BY DEF Swapped
  <1> QED  BY <1>2, <1>3, <1>4, <1>5, Zenon

---------------------------------------------------------------------------
\* A move is added to those made.
LEMMA OneMoveMore ==
    ASSUME NEW q \in Seq(Moves), NEW x \in Moves
    PROVE  /\ Append(q, x) \in Seq(Moves) /\ Len(q) \in Nat /\ Len(Append(q, x)) = Len(q) + 1
           /\ \A m \in 1 .. Len(q) : Append(q, x)[m] = q[m]
           /\ Append(q, x)[Len(q) + 1] = x
  BY AppendProperties

\* No neighbours, either way.
LEMMA NotBeside ==
    ASSUME NEW A \in SUBSET Vertices, NEW B \in SUBSET Vertices, Neighbors(A) \cap B = {}
    PROVE  Neighbors(B) \cap A = {}
  <1> SUFFICES ASSUME NEW v \in A, v \in Neighbors(B)
               PROVE  FALSE
    OBVIOUS
  <1>1. PICK u \in B : {u, v} \in Edges
    BY DEF Neighbors
  <1>2. {v, u} = {u, v}
    OBVIOUS
  <1>3. {v, u} \in Edges /\ u \in Vertices
    BY <1>1, <1>2
  <1>4. u \in Neighbors(A)
    BY <1>3 DEF Neighbors
  <1> QED  BY <1>1, <1>4

\* Without a proposal nothing has moved.
LEMMA NothingMoved ==
    ASSUME NEW plan, Whole(plan, ndists)
    PROVE  /\ <<>> \in Seq(Moves) /\ plan = After(plan, <<>>, Len(<<>>))
           /\ Apart(<<>>, Len(<<>>)) /\ Len(<<>>) = 0
           /\ \A n \in 1 .. Len(<<>>) : FALSE
  <1>1. <<>> \in Seq(Moves) /\ Len(<<>>) = 0
    OBVIOUS
  <1>2. plan = After(plan, <<>>, 0)
    BY AfterNone DEF Whole
  <1>3. \A n \in 1 .. 0 : FALSE
    OBVIOUS
  <1> QED  BY <1>1, <1>2, <1>3 DEF Apart

\* The same for a state of the chain.
LEMMA FreshMovesInv ==
    ASSUME ChainInv', stage' = "cut", swaps' = <<>>, cds_prop' = cdvec'
    PROVE  MovesInv'
  <1> DEFINE plan == cdvec'
             old == swaps'
  <1>1. Whole(plan, ndists) /\ old = <<>> /\ cds_prop' = plan
    BY DEF ChainInv, PlanKept
  <1> HIDE DEF plan, old
  <1>2. /\ old \in Seq(Moves) /\ plan = After(plan, old, Len(old))
        /\ Apart(old, Len(old)) /\ Len(old) = 0
        /\ \A n \in 1 .. Len(old) : FALSE
    BY <1>1, NothingMoved
  <1> QED  BY <1>1, <1>2 DEF MovesInv, plan, old

\* What a swap adds.
LEMMA MoveAdded ==
    ASSUME NEW plan, NEW q \in Seq(Moves), NEW x \in Moves,
           Apart(q, Len(q)), \A n \in 1 .. Len(q) : MoveMade(plan, q, n),
           \A n \in 1 .. Len(q) : x.piece \cap q[n].piece = {} /\ Neighbors(x.piece) \cap q[n].piece = {},
           MadeIn(After(plan, q, Len(q)), x.piece, x.curr_cd, x.prop_cd),
           Fine(Swapped(After(plan, q, Len(q)), x.piece, x.prop_cd))
    PROVE  /\ Apart(Append(q, x), Len(Append(q, x)))
           /\ \A n \in 1 .. Len(Append(q, x)) : MoveMade(plan, Append(q, x), n)
           /\ After(plan, Append(q, x), Len(Append(q, x))) = Swapped(After(plan, q, Len(q)), x.piece, x.prop_cd)
  <1> DEFINE r == Append(q, x)
             N == Len(q)
  <1>1. /\ r \in Seq(Moves) /\ N \in Nat /\ Len(r) = N + 1 /\ Len(q) = N
        /\ \A m \in 1 .. N : r[m] = q[m]
        /\ r[N + 1] = x
    BY OneMoveMore
  <1> HIDE DEF r, N
  <1>2. \A m \in 1 .. N + 1 : m # N + 1 => m \in 1 .. N
    BY <1>1
  <1>3. /\ x.piece \in SUBSET Vertices
        /\ \A m \in 1 .. N : q[m].piece \in SUBSET Vertices
    <2>1. \A m \in 1 .. N : q[m] \in Moves
      BY <1>1
    <2> QED  BY <2>1 DEF Moves
  <1>4. \A n \in 1 .. N : /\ x.piece \cap q[n].piece = {} /\ q[n].piece \cap x.piece = {}
                          /\ Neighbors(x.piece) \cap q[n].piece = {}
                          /\ Neighbors(q[n].piece) \cap x.piece = {}
    <2> TAKE n \in 1 .. N
    <2>1. x.piece \cap q[n].piece = {} /\ Neighbors(x.piece) \cap q[n].piece = {}
      BY <1>1
    <2> QED  BY <1>3, <2>1, NotBeside
  <1>5. Apart(r, N + 1)
    <2>1. ASSUME NEW m \in 1 .. N + 1, NEW n \in 1 .. N + 1, m # n
          PROVE  /\ r[m].piece \cap r[n].piece = {}
                 /\ Neighbors(r[n].piece) \cap r[m].piece = {}
      <3>1. CASE m = N + 1
        <4>1. n \in 1 .. N /\ r[n] = q[n] /\ r[m] = x
          BY <1>1, <1>2, <2>1, <3>1
        <4> QED  BY <1>4, <4>1
      <3>2. CASE n = N + 1
        <4>1. m \in 1 .. N /\ r[m] = q[m] /\ r[n] = x
          BY <1>1, <1>2, <2>1, <3>2
        <4> QED  BY <1>4, <4>1
      <3>3. CASE m # N + 1 /\ n # N + 1
        <4>1. m \in 1 .. N /\ n \in 1 .. N /\ r[m] = q[m] /\ r[n] = q[n]
          BY <1>1, <1>2, <3>3
        <4>2. Apart(q, N)
          BY <1>1
        <4> QED  BY <2>1, <4>1, <4>2 DEF Apart
      <3> QED  BY <3>1, <3>2, <3>3
    <2> QED  BY <2>1 DEF Apart
  <1>6. \A n \in 0 .. N : After(plan, r, n) = After(plan, q, n)
    <2> TAKE n \in 0 .. N
    <2>1. n \in Nat /\ \A m \in 1 .. n : r[m] = q[m]
      BY <1>1
    <2> QED  BY <2>1, AfterSame
  <1>7. After(plan, r, N + 1) = Swapped(After(plan, q, N), x.piece, x.prop_cd)
    <2>1. N + 1 \in Nat \ {0} /\ (N + 1) - 1 = N /\ N \in 0 .. N
      BY <1>1
    <2>2. After(plan, r, N + 1) = Swapped(After(plan, r, (N + 1) - 1), r[N + 1].piece, r[N + 1].prop_cd)
      BY <1>5, <2>1, AfterNext
    <2>3. After(plan, r, N) = After(plan, q, N)
      BY <1>6, <2>1
    <2> QED  BY <1>1, <2>1, <2>2, <2>3
  <1>8. ASSUME NEW n \in 1 .. N + 1
        PROVE  MoveMade(plan, r, n)
    <2>1. CASE n = N + 1
      <3>1. n - 1 = N /\ N \in 0 .. N /\ r[n] = x
        BY <1>1, <2>1
      <3>2. After(plan, r, n - 1) = After(plan, q, N) /\ After(plan, r, n) = Swapped(After(plan, q, N), x.piece, x.prop_cd)
        BY <1>6, <1>7, <2>1, <3>1
      <3>3. /\ MadeIn(After(plan, q, N), x.piece, x.curr_cd, x.prop_cd)
            /\ Fine(Swapped(After(plan, q, N), x.piece, x.prop_cd))
        BY <1>1
      <3> QED  BY <3>1, <3>2, <3>3 DEF MoveMade
    <2>2. CASE n # N + 1
      <3>1. n \in 1 .. N /\ n - 1 \in 0 .. N /\ n \in 0 .. N
        BY <1>1, <1>2, <2>2
      <3>2. /\ r[n] = q[n] /\ After(plan, r, n - 1) = After(plan, q, n - 1)
            /\ After(plan, r, n) = After(plan, q, n) /\ MoveMade(plan, q, n)
        BY <1>1, <1>6, <3>1
      <3> QED  BY <3>2 DEF MoveMade
    <2> QED  BY <2>1, <2>2
  <1>9. /\ Apart(r, Len(r)) /\ \A n \in 1 .. Len(r) : MoveMade(plan, r, n)
        /\ After(plan, r, Len(r)) = Swapped(After(plan, q, Len(q)), x.piece, x.prop_cd)
    BY <1>1, <1>5, <1>7, <1>8
  <1> QED  BY <1>9 DEF r

\* A swap: the tests it has passed are what is remembered of it.
LEMMA SwapKeepsMoves ==
    ASSUME ChainInv, MovesInv, stage = "swap", NEW C \in boundary_cc, NEW d \in 0 .. ndists - 1,
           Swap(C, d), ChainInv'
    PROVE  MovesInv'
  <1> DEFINE i == DistrictOf(cds_prop, C)
             N == Len(swaps)
             x == [piece |-> C, curr_cd |-> i, prop_cd |-> d]
  <1>1. /\ PlanKept(cdvec, district_pops) /\ PlanKept(cds_prop, cdspop_prop)
        /\ PiecesFit(boundary_cc, cds_prop)
    BY DEF ChainInv
  <1>2. /\ swaps \in Seq(Moves) /\ cds_prop = After(cdvec, swaps, N) /\ Apart(swaps, N)
        /\ \A n \in 1 .. N : MoveMade(cdvec, swaps, n)
        /\ \A D \in boundary_cc : \A n \in 1 .. N : D \cap swaps[n].piece = {}
    BY DEF MovesInv
  <1>3. CASE TryAgain
    <2>1. stage' = "cut" /\ swaps' = <<>> /\ cds_prop' = cdvec'
      BY <1>3 DEF TryAgain, NoProposal, chain
    <2> QED  BY <2>1, FreshMovesInv
  <1>4. CASE ~ TryAgain
    <2>1. /\ boundary_cc' = boundary_cc \ {C}
          /\ swaps' = Append(swaps, x)
          /\ cds_prop' = Swapped(cds_prop, C, d)
          /\ cdspop_prop' = update_distpop(cdspop_prop, C, i, d)
          /\ stage' \in {"swap", "decide"} /\ cdvec' = cdvec
      BY <1>4 DEF Swap, chain
    <2>2. /\ Neighbors(C) \cap accepted_partitions = {} /\ ~ elim_check(cds_prop, C) /\ ~ Splits(cds_prop, C)
          /\ d \in CandidateDistricts(cds_prop, C)
          /\ InBounds(update_distpop(cdspop_prop, C, i, d), PopBounds)
      <3>1. PlanKept(cds_prop, cdspop_prop)
        BY <1>1
      <3> QED  BY DEF Swap, Swappable, adjacency_check, ParityDistricts
    <2>3. C # {} /\ C \in SUBSET Vertices /\ Connected(C, Edges) /\ \A u, v \in C : cds_prop[u] = cds_prop[v]
      BY <1>1 DEF PiecesFit
    <2>4. Min(C) \in C /\ Min(C) \in Vertices
      BY <2>3, MapFacts, MinIsLeast
    <2>5. /\ i \in 0 .. ndists - 1 /\ i # d /\ \A v \in C : cds_prop[v] = i
      BY <1>1, <2>2, <2>3, <2>4 DEF DistrictOf, PlanKept, Whole, CandidateDistricts
    <2>6. C # Region(cds_prop, i)
      BY <2>2 DEF elim_check
    <2> HIDE DEF i, N
    <2>7. MadeIn(cds_prop, C, i, d)
      BY <2>2, <2>3, <2>5, <2>6 DEF MadeIn
    <2>8. Fine(cds_prop')
      <3>1. PlanKept(cds_prop', cdspop_prop')
        BY <2>1 DEF ChainInv
      <3>2. InBounds(cdspop_prop', PopBounds)
        BY <2>1, <2>2
      <3>3. DistrictPops(cds_prop') = cdspop_prop'
        BY <3>1 DEF PlanKept, DistrictPops
      <3> QED  BY <3>1, <3>2, <3>3 DEF Fine, PlanKept
    <2>9. x \in Moves /\ x.piece = C /\ x.curr_cd = i /\ x.prop_cd = d
      BY <2>3, <2>5 DEF Moves
    <2>10. \A n \in 1 .. N : C \cap swaps[n].piece = {} /\ Neighbors(C) \cap swaps[n].piece = {}
      <3>1. DOMAIN swaps = 1 .. N
        BY <1>2 DEF N
      <3>2. \A n \in 1 .. N : swaps[n].piece \subseteq accepted_partitions
        BY <3>1 DEF accepted_partitions
      <3> QED  BY <1>2, <2>2, <3>2
    <2> HIDE DEF x
    <2>11. /\ Apart(swaps', Len(swaps')) /\ \A n \in 1 .. Len(swaps') : MoveMade(cdvec, swaps', n)
           /\ After(cdvec, swaps', Len(swaps')) = cds_prop'
      <3>1. /\ Apart(swaps, Len(swaps)) /\ \A n \in 1 .. Len(swaps) : MoveMade(cdvec, swaps, n)
            /\ cds_prop = After(cdvec, swaps, Len(swaps))
            /\ \A n \in 1 .. Len(swaps) : x.piece \cap swaps[n].piece = {} /\ Neighbors(x.piece) \cap swaps[n].piece = {}
        BY <1>2, <2>9, <2>10 DEF N
      <3>2. MadeIn(After(cdvec, swaps, Len(swaps)), x.piece, x.curr_cd, x.prop_cd)
        BY <2>7, <2>9, <3>1
      <3>3. Fine(Swapped(After(cdvec, swaps, Len(swaps)), x.piece, x.prop_cd))
        BY <2>1, <2>8, <2>9, <3>1
      <3>4. /\ Apart(Append(swaps, x), Len(Append(swaps, x)))
            /\ \A n \in 1 .. Len(Append(swaps, x)) : MoveMade(cdvec, Append(swaps, x), n)
            /\ After(cdvec, Append(swaps, x), Len(Append(swaps, x)))
                  = Swapped(After(cdvec, swaps, Len(swaps)), x.piece, x.prop_cd)
        BY <1>2, <2>9, <3>1, <3>2, <3>3, MoveAdded
      <3> QED  BY <2>1, <2>9, <3>1, <3>4
    <2>12. /\ swaps' \in Seq(Moves) /\ N \in Nat /\ Len(swaps') = N + 1
           /\ \A m \in 1 .. N : swaps'[m] = swaps[m]
           /\ swaps'[N + 1] = x
      BY <1>2, <2>1, <2>9, OneMoveMore DEF N
    <2>13. \A D \in boundary_cc' : \A n \in 1 .. Len(swaps') : D \cap swaps'[n].piece = {}
      <3> TAKE D \in boundary_cc'
      <3> TAKE n \in 1 .. Len(swaps')
      <3>1. D \in boundary_cc /\ D \cap C = {}
        BY <1>1, <2>1 DEF PiecesFit
      <3>2. CASE n = N + 1
        BY <2>9, <2>12, <3>1, <3>2
      <3>3. CASE n # N + 1
        <4>1. n \in 1 .. N
          BY <2>12, <3>3
        <4> QED  BY <1>2, <2>12, <3>1, <4>1
      <3> QED  BY <3>2, <3>3
    <2> QED  BY <2>1, <2>11, <2>12, <2>13 DEF MovesInv
  <1> QED  BY <1>3, <1>4

\* A piece that is passed over.
LEMMA PassOverKeepsMoves ==
    ASSUME ChainInv, MovesInv, stage = "swap", NEW C \in boundary_cc, PassOver(C), ChainInv'
    PROVE  MovesInv'
  <1>1. CASE TryAgain
    <2>1. stage' = "cut" /\ swaps' = <<>> /\ cds_prop' = cdvec'
      BY <1>1 DEF TryAgain, NoProposal, chain
    <2> QED  BY <2>1, FreshMovesInv
  <1>2. CASE ~ TryAgain
    <2>1. /\ boundary_cc' = boundary_cc \ {C} /\ stage' = "swap"
          /\ UNCHANGED <<cdvec, swaps, cds_prop>>
      BY <1>2 DEF PassOver, seedVars, chain
    <2> QED  BY <2>1 DEF MovesInv, MoveMade, Apart
  <1> QED  BY <1>1, <1>2

\* Every step remembers what the tests have seen.
LEMMA NextMovesInv == FInv /\ MovesInv /\ [Next]_vars => MovesInv'
  <1> SUFFICES ASSUME FInv, MovesInv, [Next]_vars
               PROVE  MovesInv'
    OBVIOUS
  <1>0. FInv' /\ ChainInv /\ ChainInv'
    BY NextFInv DEF FInv
  <1>1. CASE Grow
    <2>1. stage' \in {"merge", "even", "failed"}
      BY <1>1, GrowKeeps DEF Grow, FInv
    <2> QED  BY <2>1 DEF MovesInv
  <1>2. CASE Start
    <2>1. stage' # "cut" => stage' = "refused"
      BY <1>2 DEF Start
    <2>2. swaps' = <<>> /\ cds_prop' = cdvec'
      BY <1>2 DEF Start, NoProposal
    <2>3. CASE stage' = "cut"
      BY <1>0, <2>2, <2>3, FreshMovesInv
    <2> QED  BY <2>1, <2>3 DEF MovesInv
  <1>3. CASE CutEdges
    <2>1. /\ stage = "cut" /\ stage' = "swap"
          /\ UNCHANGED <<cdvec, swaps, cds_prop>>
      BY <1>3 DEF CutEdges, chain
    <2>2. swaps = <<>> /\ swaps \in Seq(Moves) /\ cds_prop = After(cdvec, swaps, Len(swaps)) /\ Apart(swaps, Len(swaps))
      BY <2>1 DEF MovesInv
    <2>3. \A n \in 1 .. Len(swaps) : FALSE
      BY <2>2
    <2> QED  BY <2>1, <2>2, <2>3 DEF MovesInv
  <1>4. CASE make_swaps
    BY <1>0, <1>4, SwapKeepsMoves, PassOverKeepsMoves DEF make_swaps
  <1>5. CASE mh_decision
    <2>1. stage' = "cut" /\ swaps' = <<>> /\ cds_prop' = cdvec'
      BY <1>5 DEF mh_decision, NoProposal
    <2> QED  BY <1>0, <2>1, FreshMovesInv
  <1>6. CASE UNCHANGED vars
    BY <1>6 DEF MovesInv, MoveMade, Apart, vars, seedVars, growth, chain, proposal
  <1> QED  BY <1>1, <1>2, <1>3, <1>4, <1>5, <1>6 DEF Next

\* At the beginning nothing is proposed.
LEMMA InitMovesInv == Init => MovesInv
  BY DEF Init, SeedInit, MovesInv

---------------------------------------------------------------------------
\* Pieces that can be found again: connected, without a precinct in common.
ArePieces(moved) ==
    /\ moved \in SUBSET SUBSET Vertices
    /\ \A C \in moved : Connected(C, Edges)
    /\ \A C, D \in moved : C # D => C \cap D = {}

\* Keeping every adjacency within one of them is enough.
KeptIn(moved) == {e \in Edges : \E C \in moved : e \subseteq C}

\* A kept edge that touches a piece is in it.
LEMMA KeptInPiece ==
    ASSUME NEW moved, ArePieces(moved), NEW C \in moved, NEW X \in SUBSET C
    PROVE  KeptNeighbors(KeptIn(moved), X) \subseteq C
  <1>1. \A e \in KeptIn(moved) : e \cap X # {} => e \subseteq C
    <2> TAKE e \in KeptIn(moved)
    <2> HAVE e \cap X # {}
    <2>1. PICK D \in moved : e \subseteq D
      BY DEF KeptIn
    <2>2. C \cap D # {}
      BY <2>1
    <2> QED  BY <2>1, <2>2 DEF ArePieces
  <1> QED  BY <1>1 DEF KeptNeighbors

\* The search finds a piece again, from precinct 0 if it holds that.
LEMMA PieceAgain ==
    ASSUME NEW moved, ArePieces(moved), NEW C \in moved, NEW v \in C,
           v = 0 \/ 0 \notin C, NEW mark, C \cap mark \subseteq {0}
    PROVE  PieceFrom(v, KeptIn(moved), mark) = C
  <1> DEFINE kept == KeptIn(moved)
             P == PieceFrom(v, kept, mark)
  <1>1. C \in SUBSET Vertices /\ v \in Vertices /\ kept \in SUBSET Edges /\ Connected(C, Edges)
    BY DEF ArePieces, KeptIn
  <1>2. \A X \in SUBSET C : KeptNeighbors(kept, X) \subseteq C
    BY KeptInPiece
  <1>3. /\ P \in SUBSET Vertices /\ v \in P
        /\ KeptNeighbors(kept, P) \ mark \subseteq P
        /\ \A D \in SUBSET Vertices :
              /\ {v} \cup KeptNeighbors(kept, {v}) \subseteq D
              /\ \A X \in SUBSET D : KeptNeighbors(kept, X) \ mark \subseteq D
              => P \subseteq D
    <2> HIDE DEF kept
    <2>1. IsPiece(PieceFrom(v, kept, mark), v, kept, mark)
      BY <1>1, PieceIs
    <2> QED  BY <2>1 DEF IsPiece
  <1> HIDE DEF P
  <1>4. P \subseteq C
    <2>1. {v} \in SUBSET C
      OBVIOUS
    <2>2. {v} \cup KeptNeighbors(kept, {v}) \subseteq C
      BY <1>2, <2>1
    <2>3. \A X \in SUBSET C : KeptNeighbors(kept, X) \ mark \subseteq C
      BY <1>2
    <2> HIDE DEF kept
    <2> QED  BY <1>1, <1>3, <2>2, <2>3
  <1>5. Closed(P, C, Edges)
    <2> SUFFICES ASSUME NEW e \in Edges, e \subseteq C, e \cap P # {}
                 PROVE  e \subseteq P
      BY <1>4 DEF Closed, Inside
    <2>1. PICK a, b \in Vertices : e = {a, b}
      BY EdgeEnds
    <2>2. e \in kept
      BY DEF KeptIn
    <2> HIDE DEF kept
    <2>3. ASSUME NEW w \in e, w \notin P
          PROVE  FALSE
      <3>1. w \in KeptNeighbors(kept, P)
        <4>1. e \in {f \in kept : f \cap P # {}}
          BY <2>2
        <4>2. w \in UNION {f \in kept : f \cap P # {}}
          BY <2>3, <4>1
        <4> QED  BY <2>3, <4>2 DEF KeptNeighbors
      <3>2. w \in mark /\ w \in C
        BY <1>3, <2>3, <3>1
      <3>3. w = 0 /\ v = 0
        BY <3>2
      <3> QED  BY <1>3, <2>3, <3>3
    <2> QED  BY <2>3
  <1>6. P = C
    <2>1. IsFiniteSet(C) /\ P # {}
      BY <1>1, <1>3, MapFacts
    <2> QED  BY <1>1, <1>5, <2>1, ConnectedIsClosed
  <1> QED  BY <1>6 DEF P

\* A precinct of none of them is a piece of its own.
LEMMA PieceAlone ==
    ASSUME NEW moved, ArePieces(moved), NEW v \in Vertices, v \notin UNION moved, NEW mark
    PROVE  PieceFrom(v, KeptIn(moved), mark) = {v}
  <1> DEFINE kept == KeptIn(moved)
             P == PieceFrom(v, kept, mark)
  <1>1. \A e \in kept : v \notin e
    BY DEF KeptIn
  <1>2. kept \in SUBSET Edges
    BY DEF KeptIn
  <1> HIDE DEF kept
  <1>3. \A X \in SUBSET {v} : KeptNeighbors(kept, X) = {}
    BY <1>1 DEF KeptNeighbors
  <1>4. /\ v \in P
        /\ \A D \in SUBSET Vertices :
              /\ {v} \cup KeptNeighbors(kept, {v}) \subseteq D
              /\ \A X \in SUBSET D : KeptNeighbors(kept, X) \ mark \subseteq D
              => P \subseteq D
    <2>1. IsPiece(PieceFrom(v, kept, mark), v, kept, mark)
      BY <1>2, PieceIs
    <2> QED  BY <2>1 DEF IsPiece
  <1> HIDE DEF P
  <1> DEFINE alone == {v}
  <1>5. alone \in SUBSET Vertices /\ {v} \cup KeptNeighbors(kept, {v}) \subseteq alone
    BY <1>3
  <1>6. \A X \in SUBSET alone : KeptNeighbors(kept, X) \ mark \subseteq alone
    BY <1>3
  <1>7. P \subseteq alone
    <2> HIDE DEF alone
    <2> QED  BY <1>4, <1>5, <1>6
  <1>8. P = {v}
    BY <1>4, <1>7
  <1> QED  BY <1>8 DEF P, kept

\* The search halfway: what it has found are pieces and precincts of none.
HalfAgain(s, moved, boundary) ==
    /\ s.mark = {0} \cup UNION s.found
    /\ boundary \subseteq s.left \cup UNION s.found
    /\ s.left \cap UNION s.found = {} /\ s.left \subseteq boundary
    /\ \A P \in s.found : P \in moved \/ \E v \in Vertices \ UNION moved : P = {v}

\* A turn finds one more.
LEMMA TurnAgain ==
    ASSUME NEW moved, ArePieces(moved), NEW boundary \in SUBSET Vertices,
           0 \in UNION moved => 0 \in boundary,
           NEW s \in Searches, HalfAgain(s, moved, boundary), s.left # {}
    PROVE  TurnOf(s, KeptIn(moved)) \in Searches /\ HalfAgain(TurnOf(s, KeptIn(moved)), moved, boundary)
  <1> DEFINE v == Min(s.left)
             P == PieceFrom(v, KeptIn(moved), s.mark)
             t == TurnOf(s, KeptIn(moved))
             found == s.found
  <1>0. /\ found \in SUBSET SUBSET Vertices /\ s.left \in SUBSET Vertices /\ s.mark \in SUBSET Vertices
        /\ s.mark = {0} \cup UNION found
        /\ boundary \subseteq s.left \cup UNION found
        /\ s.left \cap UNION found = {} /\ s.left \subseteq boundary
        /\ \A Q \in found : Q \in moved \/ \E u \in Vertices \ UNION moved : Q = {u}
    BY DEF Searches, HalfAgain
  <1>1. v \in s.left /\ v \in Vertices /\ (0 \in s.left => v = 0)
    <2>1. s.left \in SUBSET Nat
      BY <1>0, MapFacts
    <2>2. v \in s.left /\ \A x \in s.left : v <= x
      BY <2>1, MinIsLeast
    <2>3. v \in Nat /\ v \in Vertices
      BY <1>0, <2>1, <2>2
    <2> HIDE DEF v
    <2> QED  BY <2>2, <2>3
  <1>2. t = [left |-> s.left \ P, mark |-> s.mark \cup P, found |-> found \cup {P}]
    BY DEF TurnOf
  <1> HIDE DEF v, found, t
  <1>3. P \in SUBSET Vertices /\ v \in P /\ (P \in moved \/ \E u \in Vertices \ UNION moved : P = {u})
    <2>1. ASSUME NEW C \in moved, v \in C
          PROVE  P = C
      <3>1. \A Q \in found : Q \cap C = {}
        <4> SUFFICES ASSUME NEW Q \in found, Q \cap C # {}
                     PROVE  FALSE
          OBVIOUS
        <4>1. Q = C
          <5>1. CASE Q \in moved
            BY <4>1, <5>1 DEF ArePieces
          <5>2. CASE \E u \in Vertices \ UNION moved : Q = {u}
            BY <5>2
          <5> QED  BY <1>0, <5>1, <5>2
        <4> QED  BY <1>0, <1>1, <2>1, <4>1
      <3>2. C \cap s.mark \subseteq {0}
        BY <1>0, <3>1
      <3>3. v = 0 \/ 0 \notin C
        <4> SUFFICES ASSUME 0 \in C, 0 \notin s.left
                     PROVE  FALSE
          BY <1>1
        <4>1. 0 \in UNION found
          BY <1>0
        <4> QED  BY <3>1, <4>1
      <3> QED  BY <2>1, <3>2, <3>3, PieceAgain
    <2>2. CASE v \notin UNION moved
      <3>1. P = {v}
        BY <1>1, <2>2, PieceAlone
      <3> HIDE DEF P
      <3> QED  BY <1>1, <2>2, <3>1
    <2>3. CASE v \in UNION moved
      <3>1. PICK C \in moved : v \in C
        BY <2>3
      <3>2. P = C
        BY <2>1, <3>1
      <3> HIDE DEF P
      <3> QED  BY <3>1, <3>2 DEF ArePieces
    <2> QED  BY <2>2, <2>3
  <1> HIDE DEF P
  <1>4. UNION (found \cup {P}) = P \cup UNION found
    OBVIOUS
  <1>5. t \in Searches
    <2>1. /\ s.left \ P \in SUBSET Vertices /\ s.mark \cup P \in SUBSET Vertices
          /\ found \cup {P} \in SUBSET SUBSET Vertices
      BY <1>0, <1>3
    <2> QED  BY <1>2, <2>1 DEF Searches
  <1>6. t.left = s.left \ P /\ t.mark = s.mark \cup P /\ t.found = found \cup {P}
    BY <1>2
  <1>7. \A Q \in found \cup {P} : Q \in moved \/ \E u \in Vertices \ UNION moved : Q = {u}
    BY <1>0, <1>3
  <1>8. HalfAgain(t, moved, boundary)
    BY <1>0, <1>4, <1>6, <1>7 DEF HalfAgain
  <1> QED  BY <1>5, <1>8 DEF t

\* Pieces that are at the border are found again, and the one with precinct 0 if 0 is.
THEOREM FoundAgain ==
    ASSUME NEW moved, ArePieces(moved), NEW boundary \in SUBSET Vertices,
           0 \in UNION moved => 0 \in boundary,
           \A C \in moved : C \cap boundary # {}
    PROVE  moved \subseteq bsearch_boundary(KeptIn(moved), boundary)
  <1> DEFINE Half == {s \in Searches : HalfAgain(s, moved, boundary)}
             a == [left |-> boundary, mark |-> {0}, found |-> {}]
  <1>1. a \in Half
    <2>1. 0 \in Vertices
      BY MapFacts
    <2>2. a \in Searches
      BY <2>1 DEF Searches
    <2>3. HalfAgain(a, moved, boundary)
      BY DEF HalfAgain
    <2> QED  BY <2>2, <2>3
  <1>2. \A s \in Half : s.left # {} => TurnOf(s, KeptIn(moved)) \in Half
    BY TurnAgain
  <1>3. Half \in SUBSET Searches /\ KeptIn(moved) \in SUBSET Edges
    BY DEF KeptIn
  <1>4. PICK s \in Half : s.left = {} /\ s.found = bsearch_boundary(KeptIn(moved), boundary)
    <2> HIDE DEF Half
    <2> QED  BY <1>1, <1>2, <1>3, SearchEnds
  <1>5. /\ boundary \subseteq UNION s.found
        /\ \A P \in s.found : P \in moved \/ \E v \in Vertices \ UNION moved : P = {v}
    BY <1>4 DEF HalfAgain
  <1>6. ASSUME NEW C \in moved
        PROVE  C \in s.found
    <2>1. PICK x \in C : x \in boundary
      BY <1>6
    <2>2. PICK P \in s.found : x \in P
      BY <1>5, <2>1
    <2>3. CASE P \in moved
      BY <2>1, <2>2, <2>3 DEF ArePieces
    <2>4. CASE \E v \in Vertices \ UNION moved : P = {v}
      BY <2>1, <2>2, <2>4
    <2> QED  BY <1>5, <2>3, <2>4
  <1> QED  BY <1>4, <1>6

---------------------------------------------------------------------------
\* The test counts as many components as there are districts.
LEMMA ConnectedPassesTest ==
    ASSUME NEW plan, Whole(plan, ndists), AllConnected(plan, ndists)
    PROVE  countpartitions(plan) = ndists
  <1>1. /\ Image(plan) = 0 .. ndists - 1 /\ IsFiniteSet(Image(plan)) /\ Cardinality(Image(plan)) = ndists
    BY MapFacts, WholeImage
  <1>2. \A d \in Image(plan) : Connected(Region(plan, d), Edges)
    BY <1>1 DEF AllConnected
  <1> QED  BY <1>1, <1>2, ConnectedCount

\* A piece of a connected district, short of all of it, is next to the rest.
LEMMA BesideTheRest ==
    ASSUME NEW C, NEW R \in SUBSET Vertices, C # {}, C \subseteq R, C # R, Connected(R, Edges)
    PROVE  \E u \in C : \E w \in R \ C : {u, w} \in Edges
  <1>1. ~ Closed(C, R, Edges)
    BY MapFacts, ConnectedIsClosed
  <1>2. PICK e \in Inside(R, Edges) : e \cap C # {} /\ ~(e \subseteq C)
    BY <1>1 DEF Closed
  <1>3. e \in Edges /\ e \subseteq R
    BY <1>2 DEF Inside
  <1>4. PICK a, b \in Vertices : e = {a, b}
    BY <1>3, EdgeEnds
  <1>5. {b, a} = {a, b}
    OBVIOUS
  <1> QED  BY <1>2, <1>3, <1>4, <1>5

\* A piece is next to a district.
BesideDistrict(plan, C, i) == \E u \in C : \E w \in Vertices \ C : {u, w} \in Edges /\ plan[w] = i

\* A move that passed every test passes them on the way back.
LEMMA MovePassesBack ==
    ASSUME NEW before, NEW C, NEW i, NEW d, Fine(before), MadeIn(before, C, i, d),
           Fine(Swapped(before, C, d)), NEW later, Neighbors(C) \cap later = {}
    PROVE  /\ Swappable(Swapped(before, C, d), later, C)
           /\ i \in ParityDistricts(Swapped(before, C, d), DistrictPops(Swapped(before, C, d)), C)
           /\ BesideDistrict(before, C, i)
  <1> DEFINE after == Swapped(before, C, d)
  <1>1. /\ before \in [Vertices -> 0 .. ndists - 1] /\ ndists \in Nat
        /\ C # {} /\ C \in SUBSET Vertices
        /\ i \in 0 .. ndists - 1 /\ d \in 0 .. ndists - 1 /\ i # d
        /\ \A v \in C : before[v] = i
        /\ C \subseteq Region(before, i) /\ C # Region(before, i)
        /\ ~ Splits(before, C) /\ d \in CandidateDistricts(before, C)
    BY MapFacts DEF Fine, Whole, MadeIn, Region
  <1>2. Min(C) \in C
    BY <1>1, MapFacts, MinIsLeast
  <1>3. /\ after \in [Vertices -> 0 .. ndists - 1]
        /\ \A v \in Vertices : after[v] = IF v \in C THEN d ELSE before[v]
    BY <1>1 DEF Swapped
  <1>4. DistrictOf(before, C) = i /\ DistrictOf(after, C) = d
    <2>1. before[Min(C)] = i /\ after[Min(C)] = d
      BY <1>1, <1>2, <1>3
    <2> HIDE DEF after
    <2> QED  BY <2>1 DEF DistrictOf
  <1>5. Region(after, d) = Region(before, d) \cup C
    BY <1>1, <1>3 DEF Region
  <1>6. ~ elim_check(after, C)
    <2>1. PICK x \in Region(before, d) : TRUE
      BY <1>1 DEF Fine, Whole
    <2>2. x \notin C
      BY <1>1, <2>1 DEF Region
    <2> HIDE DEF after
    <2>3. C \in SUBSET Region(after, d) /\ C # Region(after, d) /\ IsFiniteSet(Region(after, d))
      BY <1>5, <2>1, <2>2, MapFacts DEF Region
    <2>4. Cardinality(C) # Cardinality(Region(after, d))
      BY <2>3, FS_Subset
    <2> QED  BY <1>4, <2>4 DEF elim_check
  <1>7. \A e : Swapped(after, C, e) = Swapped(before, C, e)
    BY <1>1, <1>3 DEF Swapped
  <1>8. Swapped(before, C, i) = before
    BY <1>1 DEF Swapped
  <1>9. countpartitions(before) = ndists
    BY ConnectedPassesTest DEF Fine
  <1> HIDE DEF after
  <1>10. \A e \in CandidateDistricts(after, C) : countpartitions(Swapped(after, C, e)) = ndists
    <2> TAKE e \in CandidateDistricts(after, C)
    <2>1. PICK w \in Neighbors(C) : e = after[w] /\ e # d
      BY <1>4 DEF CandidateDistricts
    <2>2. w \in Vertices
      BY DEF Neighbors
    <2>3. before[w] = e
      BY <1>3, <2>1, <2>2
    <2>4. CASE e = i
      BY <1>7, <1>8, <1>9, <2>4
    <2>5. CASE e # i
      <3>1. e \in CandidateDistricts(before, C)
        BY <1>4, <2>3, <2>5 DEF CandidateDistricts
      <3>2. countpartitions(Swapped(before, C, e)) = ndists
        BY <1>1, <3>1 DEF Splits
      <3> QED  BY <1>7, <3>2
    <2> QED  BY <2>4, <2>5
  <1>11. Swappable(after, later, C)
    BY <1>6, <1>10 DEF Swappable, Splits, adjacency_check
  <1>12. PICK u \in C : \E w \in Region(before, i) \ C : {u, w} \in Edges
    <2>1. Connected(Region(before, i), Edges) /\ Region(before, i) \in SUBSET Vertices
      BY <1>1 DEF Fine, AllConnected, Region
    <2> QED  BY <1>1, <2>1, BesideTheRest
  <1>13. PICK w \in Region(before, i) \ C : {u, w} \in Edges
    BY <1>12
  <1>14. w \in Vertices \ C /\ before[w] = i /\ after[w] = i
    BY <1>3, <1>13 DEF Region
  <1>15. i \in CandidateDistricts(after, C)
    <2>1. w \in Neighbors(C)
      BY <1>13, <1>14 DEF Neighbors
    <2> QED  BY <1>1, <1>4, <1>14, <2>1 DEF CandidateDistricts
  <1>16. InBounds(update_distpop(DistrictPops(after), C, d, i), PopBounds)
    <2>1. C \in SUBSET Region(after, d)
      BY <1>5
    <2>2. DistrictPops(Swapped(after, C, i)) = update_distpop(DistrictPops(after), C, d, i)
      BY <1>1, <1>3, <2>1, SwappedPops
    <2>3. InBounds(DistrictPops(before), PopBounds)
      BY DEF Fine
    <2> QED  BY <1>7, <1>8, <2>2, <2>3
  <1>17. i \in ParityDistricts(after, DistrictPops(after), C)
    BY <1>4, <1>15, <1>16 DEF ParityDistricts
  <1>18. BesideDistrict(before, C, i)
    BY <1>13, <1>14 DEF BesideDistrict
  <1> QED  BY <1>11, <1>17, <1>18 DEF after

---------------------------------------------------------------------------
\* Moves stay apart when there are fewer.
LEMMA FewerApart ==
    ASSUME NEW moves, NEW N \in Nat, Apart(moves, N), NEW n \in 0 .. N
    PROVE  Apart(moves, n)
  <1>1. \A m \in 1 .. n : m \in 1 .. N
    OBVIOUS
  <1> QED  BY <1>1 DEF Apart

\* A piece comes from the district it was in before any move.
LEMMA PieceFromPlan ==
    ASSUME NEW plan, NEW moves, NEW N \in Nat, Apart(moves, N), NEW m \in 1 .. N,
           MoveMade(plan, moves, m)
    PROVE  \A v \in moves[m].piece : v \in Vertices /\ plan[v] = moves[m].curr_cd
  <1>1. m \in Nat \ {0} /\ m \in 0 .. N
    OBVIOUS
  <1>2. Apart(moves, m)
    BY <1>1, FewerApart
  <1>3. moves[m].piece \in SUBSET Vertices /\ \A v \in moves[m].piece : After(plan, moves, m - 1)[v] = moves[m].curr_cd
    BY DEF MoveMade, MadeIn
  <1>4. \A v \in Vertices : v \in moves[m].piece => After(plan, moves, m - 1)[v] = plan[v]
    BY <1>1, <1>2, AfterNext
  <1> QED  BY <1>3, <1>4

\* Undoing the last moves gives the plan they were made in.
LEMMA UndoneIs ==
    ASSUME NEW plan, NEW moves, Len(moves) \in Nat, Apart(moves, Len(moves)),
           \A m \in 1 .. Len(moves) : MoveMade(plan, moves, m), NEW n \in 1 .. Len(moves) + 1
    PROVE  Undone(After(plan, moves, Len(moves)), moves, n) = After(plan, moves, n - 1)
  <1> DEFINE N == Len(moves)
             new == After(plan, moves, N)
             A(v) == {m \in n .. N : v \in moves[m].piece}
  <1>1. N \in Nat /\ n - 1 \in 0 .. N /\ Apart(moves, n - 1) /\ N \in 0 .. N
    BY FewerApart
  <1>2. Undone(new, moves, n) = [v \in Vertices |-> IF A(v) = {} THEN new[v] ELSE moves[Min(A(v))].curr_cd]
    BY DEF Undone
  <1> HIDE DEF N, new
  <1>3. ASSUME NEW v \in Vertices
        PROVE  (IF A(v) = {} THEN new[v] ELSE moves[Min(A(v))].curr_cd) = After(plan, moves, n - 1)[v]
    <2>1. ASSUME NEW m \in 1 .. n - 1, v \in moves[m].piece
          PROVE  A(v) = {} /\ new[v] = After(plan, moves, n - 1)[v]
      <3>1. m \in 1 .. N /\ \A o \in n .. N : o \in 1 .. N /\ o # m
        BY <1>1
      <3>2. A(v) = {}
        BY <2>1, <3>1 DEF Apart, N
      <3>3. new[v] = moves[m].prop_cd
        BY <1>1, <2>1, <3>1, AfterIs DEF N, new
      <3>4. After(plan, moves, n - 1)[v] = moves[m].prop_cd
        BY <1>1, <2>1, AfterIs
      <3> QED  BY <3>2, <3>3, <3>4
    <2>2. ASSUME NEW m \in n .. N, v \in moves[m].piece
          PROVE  A(v) # {} /\ moves[Min(A(v))].curr_cd = After(plan, moves, n - 1)[v]
      <3>1. m \in 1 .. N /\ \A o \in 1 .. N : o # m => v \notin moves[o].piece
        BY <1>1, <2>2 DEF Apart, N
      <3>2. A(v) = {m}
        <4>1. \A o \in n .. N : o \in 1 .. N
          BY <1>1
        <4> QED  BY <2>2, <3>1, <4>1
      <3>3. {m} \in SUBSET Nat /\ {m} # {}
        BY <1>1
      <3>4. Min({m}) = m
        BY <3>3, MinIsLeast
      <3>5. plan[v] = moves[m].curr_cd
        BY <1>1, <2>2, <3>1, PieceFromPlan DEF N
      <3>6. \A o \in 1 .. n - 1 : v \notin moves[o].piece
        <4>1. \A o \in 1 .. n - 1 : o \in 1 .. N /\ o # m
          BY <1>1
        <4> QED  BY <3>1, <4>1
      <3>7. After(plan, moves, n - 1)[v] = plan[v]
        BY <1>1, <3>6, AfterIs
      <3> HIDE DEF A
      <3> QED  BY <3>2, <3>4, <3>5, <3>7
    <2>3. CASE \A m \in 1 .. N : v \notin moves[m].piece
      <3>1. A(v) = {}
        <4>1. \A o \in n .. N : o \in 1 .. N
          BY <1>1
        <4> QED  BY <2>3, <4>1
      <3>2. new[v] = plan[v]
        BY <1>1, <2>3, AfterIs DEF N, new
      <3>3. \A m \in 1 .. n - 1 : v \notin moves[m].piece
        BY <1>1, <2>3
      <3>4. After(plan, moves, n - 1)[v] = plan[v]
        BY <1>1, <3>3, AfterIs
      <3> QED  BY <3>1, <3>2, <3>4
    <2>4. \A m \in 1 .. N : m \in 1 .. n - 1 \/ m \in n .. N
      BY <1>1
    <2> HIDE DEF A
    <2> QED  BY <2>1, <2>2, <2>3, <2>4
  <1>4. After(plan, moves, n - 1) = [v \in Vertices |-> After(plan, moves, n - 1)[v]]
    BY DEF After
  <1> HIDE DEF A
  <1>5. Undone(new, moves, n) = After(plan, moves, n - 1)
    BY <1>2, <1>3, <1>4, Zenon
  <1> QED  BY <1>5 DEF new, N

\* Each move passes the tests on the way back.
LEMMA UndoPasses ==
    ASSUME NEW plan, NEW moves, Len(moves) \in Nat, Fine(plan), Apart(moves, Len(moves)),
           \A m \in 1 .. Len(moves) : MoveMade(plan, moves, m), NEW n \in 1 .. Len(moves)
    PROVE  /\ Swappable(After(plan, moves, n), UNION {moves[m].piece : m \in n + 1 .. Len(moves)}, moves[n].piece)
           /\ moves[n].curr_cd \in
                 ParityDistricts(After(plan, moves, n), DistrictPops(After(plan, moves, n)), moves[n].piece)
           /\ BesideDistrict(After(plan, moves, n - 1), moves[n].piece, moves[n].curr_cd)
  <1> DEFINE before == After(plan, moves, n - 1)
             later == UNION {moves[m].piece : m \in n + 1 .. Len(moves)}
             C == moves[n].piece
             d == moves[n].prop_cd
             i == moves[n].curr_cd
  <1>1. /\ n \in Nat \ {0} /\ n \in 0 .. Len(moves) /\ n - 1 \in Nat
        /\ n - 1 = 0 \/ n - 1 \in 1 .. Len(moves)
        /\ \A m \in n + 1 .. Len(moves) : m \in 1 .. Len(moves) /\ m # n
    OBVIOUS
  <1>2. Apart(moves, n)
    BY <1>1, FewerApart
  <1>3. After(plan, moves, n) = Swapped(before, C, d)
    BY <1>1, <1>2, AfterNext
  <1>4. MadeIn(before, C, i, d) /\ Fine(After(plan, moves, n))
    BY DEF MoveMade
  <1>5. Fine(before)
    <2>1. CASE n - 1 = 0
      <3>1. plan \in [Vertices -> 0 .. ndists - 1]
        BY DEF Fine, Whole
      <3>2. After(plan, moves, 0) = plan
        BY <3>1, AfterNone
      <3>3. before = plan
        BY <2>1, <3>2
      <3> HIDE DEF before
      <3> QED  BY <3>3
    <2>2. CASE n - 1 \in 1 .. Len(moves)
      <3>1. MoveMade(plan, moves, n - 1)
        BY <2>2
      <3> QED  BY <3>1 DEF MoveMade
    <2> QED  BY <1>1, <2>1, <2>2
  <1>6. Neighbors(C) \cap later = {}
    <2>1. \A m \in n + 1 .. Len(moves) : Neighbors(C) \cap moves[m].piece = {}
      BY <1>1 DEF Apart
    <2> QED  BY <2>1
  <1> HIDE DEF before, later, C, d, i
  <1>7. Fine(Swapped(before, C, d))
    BY <1>3, <1>4
  <1>8. /\ Swappable(Swapped(before, C, d), later, C)
        /\ i \in ParityDistricts(Swapped(before, C, d), DistrictPops(Swapped(before, C, d)), C)
        /\ BesideDistrict(before, C, i)
    BY <1>4, <1>5, <1>6, <1>7, MovePassesBack
  <1>9. /\ Swappable(After(plan, moves, n), later, C)
        /\ i \in ParityDistricts(After(plan, moves, n), DistrictPops(After(plan, moves, n)), C)
        /\ BesideDistrict(before, C, i)
    BY <1>3, <1>8
  <1> QED  BY <1>9 DEF before, later, C, d, i

\* A cut can be drawn that gives back every piece, unless precinct 0 hides.
LEMMA PiecesDrawnBack ==
    ASSUME NEW plan, NEW moves, Len(moves) \in Nat, Fine(plan), Apart(moves, Len(moves)),
           \A m \in 1 .. Len(moves) : MoveMade(plan, moves, m),
           NEW new, new = After(plan, moves, Len(moves)),
           NEW moved, moved = {moves[m].piece : m \in 1 .. Len(moves)},
           0 \in UNION moved => 0 \in findBoundary(new)
    PROVE  /\ KeptIn(moved) \in SUBSET genAlConn(new)
           /\ moved \subseteq bsearch_boundary(KeptIn(moved), findBoundary(new))
  <1> DEFINE N == Len(moves)
  <1>1. N \in Nat /\ N = Len(moves) /\ Apart(moves, N)
    OBVIOUS
  <1>2. \A m \in 1 .. N : MoveMade(plan, moves, m)
    OBVIOUS
  <1> HIDE DEF N
  <1>3. ASSUME NEW m \in 1 .. N
        PROVE  /\ moves[m].piece \in SUBSET Vertices /\ Connected(moves[m].piece, Edges)
               /\ moves[m].curr_cd # moves[m].prop_cd
               /\ \A v \in moves[m].piece : new[v] = moves[m].prop_cd
    <2>1. /\ moves[m].piece \in SUBSET Vertices /\ Connected(moves[m].piece, Edges)
          /\ moves[m].curr_cd # moves[m].prop_cd
      BY <1>2, <1>3 DEF MoveMade, MadeIn
    <2>2. \A v \in Vertices : v \in moves[m].piece => new[v] = moves[m].prop_cd
      BY <1>1, AfterIs
    <2> QED  BY <2>1, <2>2
  <1>4. ArePieces(moved)
    <2>1. \A C \in moved : \E m \in 1 .. N : C = moves[m].piece
      BY <1>1
    <2>2. \A C \in moved : C \in SUBSET Vertices /\ Connected(C, Edges)
      BY <1>3, <2>1
    <2>3. \A C, D \in moved : C # D => C \cap D = {}
      BY <1>1, <2>1 DEF Apart
    <2> QED  BY <2>2, <2>3 DEF ArePieces
  <1>5. KeptIn(moved) \in SUBSET genAlConn(new)
    <2> SUFFICES ASSUME NEW e \in KeptIn(moved)
                 PROVE  e \in genAlConn(new)
      OBVIOUS
    <2>1. PICK m \in 1 .. N : e \subseteq moves[m].piece
      BY <1>1 DEF KeptIn
    <2>2. e \in Edges /\ \A a, b \in e : new[a] = new[b]
      BY <1>3, <2>1 DEF KeptIn
    <2> QED  BY <2>2, KeptEdges
  <1>6. ASSUME NEW C \in moved
        PROVE  C \cap findBoundary(new) # {}
    <2>1. PICK m \in 1 .. N : C = moves[m].piece
      BY <1>1
    <2>2. PICK u \in C : \E w \in Vertices \ C :
              {u, w} \in Edges /\ After(plan, moves, m - 1)[w] = moves[m].curr_cd
      <3>1. BesideDistrict(After(plan, moves, m - 1), moves[m].piece, moves[m].curr_cd)
        BY <1>1, <1>2, UndoPasses
      <3> QED  BY <2>1, <3>1 DEF BesideDistrict
    <2>3. PICK w \in Vertices \ C : {u, w} \in Edges /\ After(plan, moves, m - 1)[w] = moves[m].curr_cd
      BY <2>2
    <2>4. w \in Neighbors(C)
      BY <2>3 DEF Neighbors
    <2>5. \A o \in 1 .. N : w \notin moves[o].piece
      <3>1. \A o \in 1 .. N : o # m => Neighbors(moves[m].piece) \cap moves[o].piece = {}
        BY <1>1 DEF Apart
      <3> QED  BY <2>1, <2>3, <2>4, <3>1
    <2>6. new[w] = plan[w]
      BY <1>1, <2>5, AfterIs
    <2>7. After(plan, moves, m - 1)[w] = plan[w]
      <3>1. m - 1 \in 0 .. N /\ m - 1 \in Nat /\ \A o \in 1 .. m - 1 : o \in 1 .. N
        BY <1>1
      <3>2. Apart(moves, m - 1) /\ \A o \in 1 .. m - 1 : w \notin moves[o].piece
        BY <1>1, <2>5, <3>1, FewerApart
      <3> QED  BY <3>1, <3>2, AfterIs
    <2>8. new[u] # new[w]
      BY <1>3, <2>1, <2>3, <2>6, <2>7
    <2>9. Crosses(new, {u, w})
      BY <2>3, <2>8, CrossingEnds
    <2>10. u \in findBoundary(new)
      <3> DEFINE e == {u, w}
      <3>1. e \in {f \in Edges : Crosses(new, f)} /\ u \in e
        BY <2>3, <2>9
      <3> HIDE DEF e
      <3>2. u \in UNION {f \in Edges : Crosses(new, f)}
        BY <3>1
      <3> QED  BY <3>2 DEF findBoundary
    <2> QED  BY <2>2, <2>10
  <1>7. findBoundary(new) \in SUBSET Vertices
    BY BorderPrecincts
  <1> QED  BY <1>4, <1>5, <1>6, <1>7, FoundAgain

\* All of it: a move whose tests were passed one by one can be undone.
LEMMA MovesUndone ==
    ASSUME NEW plan, NEW moves \in Seq(Moves), Fine(plan), Apart(moves, Len(moves)),
           \A m \in 1 .. Len(moves) : MoveMade(plan, moves, m),
           NEW new, new = After(plan, moves, Len(moves)), ~ HidesPrecinct0(new, moves)
    PROVE  CanUndo(new, moves)
  <1> DEFINE moved == {moves[m].piece : m \in 1 .. Len(moves)}
             kept == KeptIn(moved)
  <1>1. Len(moves) \in Nat /\ DOMAIN moves = 1 .. Len(moves)
    OBVIOUS
  <1>2. 0 \in UNION moved => 0 \in findBoundary(new)
    BY <1>1 DEF HidesPrecinct0
  <1>3. kept \in SUBSET genAlConn(new) /\ moved \subseteq bsearch_boundary(kept, findBoundary(new))
    <2>1. moved = {moves[m].piece : m \in 1 .. Len(moves)}
      OBVIOUS
    <2> HIDE DEF moved
    <2> QED  BY <1>1, <1>2, <2>1, PiecesDrawnBack
  <1> HIDE DEF kept
  <1>4. \E K \in SUBSET genAlConn(new) : moved \subseteq bsearch_boundary(K, findBoundary(new))
    BY <1>3
  <1>5. ASSUME NEW n \in 1 .. Len(moves)
        PROVE  /\ Swappable(Undone(new, moves, n + 1),
                            UNION {moves[m].piece : m \in n + 1 .. Len(moves)}, moves[n].piece)
               /\ moves[n].curr_cd \in
                     ParityDistricts(Undone(new, moves, n + 1), DistrictPops(Undone(new, moves, n + 1)),
                                     moves[n].piece)
    <2>1. n + 1 \in 1 .. Len(moves) + 1 /\ (n + 1) - 1 = n
      BY <1>1
    <2>2. Undone(new, moves, n + 1) = After(plan, moves, (n + 1) - 1)
      BY <1>1, <2>1, UndoneIs
    <2>3. Undone(new, moves, n + 1) = After(plan, moves, n)
      BY <2>1, <2>2
    <2>4. /\ Swappable(After(plan, moves, n), UNION {moves[m].piece : m \in n + 1 .. Len(moves)}, moves[n].piece)
          /\ moves[n].curr_cd \in
                ParityDistricts(After(plan, moves, n), DistrictPops(After(plan, moves, n)), moves[n].piece)
      BY <1>1, UndoPasses
    <2> QED  BY <2>3, <2>4
  <1> QED  BY <1>1, <1>4, <1>5 DEF CanUndo

\* MovesCanBeTakenBack: an accepted move that started in bounds can be drawn
\* backwards, piece by piece, and pass every test, unless precinct 0 hides.
THEOREM MovesTakenBack == Spec => MovesCanBeTakenBack
  <1>1. Init => FInv /\ MovesInv
    BY InitFInv, InitMovesInv
  <1>2. FInv /\ MovesInv /\ [Next]_vars => FInv' /\ MovesInv'
    BY NextFInv, NextMovesInv
  <1>3. ASSUME FInv, MovesInv, [Next]_vars
        PROVE  [cdvec' # cdvec /\ stage = "decide" /\ InBounds(district_pops, PopBounds) =>
                   HidesPrecinct0(cdvec', swaps) \/ CanUndo(cdvec', swaps)]_vars
    <2> SUFFICES ASSUME cdvec' # cdvec, stage = "decide", InBounds(district_pops, PopBounds),
                        ~ HidesPrecinct0(cdvec', swaps)
                 PROVE  CanUndo(cdvec', swaps)
      OBVIOUS
    <2>1. cdvec' = cds_prop
      <3>1. Next
        BY <1>3 DEF vars, chain
      <3>2. Grow => FALSE
        BY DEF Grow, chain
      <3>3. Start \/ CutEdges \/ make_swaps => FALSE
        BY DEF Start, Grown, CutEdges, make_swaps
      <3> QED  BY <3>1, <3>2, <3>3 DEF Next, mh_decision, chain
    <2>2. /\ swaps \in Seq(Moves) /\ cds_prop = After(cdvec, swaps, Len(swaps)) /\ Apart(swaps, Len(swaps))
          /\ \A n \in 1 .. Len(swaps) : MoveMade(cdvec, swaps, n)
      BY <1>3 DEF MovesInv
    <2>3. Fine(cdvec)
      <3>1. PlanKept(cdvec, district_pops)
        BY <1>3 DEF FInv, ChainInv
      <3>2. DistrictPops(cdvec) = district_pops
        BY <3>1 DEF PlanKept, DistrictPops
      <3> QED  BY <3>1, <3>2 DEF Fine, PlanKept
    <2>4. ~ HidesPrecinct0(cds_prop, swaps)
      BY <2>1
    <2>5. CanUndo(cds_prop, swaps)
      BY <2>2, <2>3, <2>4, MovesUndone
    <2> QED  BY <2>1, <2>5
  <1> QED  BY <1>1, <1>2, <1>3, PTL DEF Spec, MovesCanBeTakenBack
=============================================================================
