------------------------- MODULE FiniteStructures -------------------------
(***************************************************************************)
(* What the proofs of this project know of finite sets beyond the library: *)
(* induction over their elements, the totals MapThenSumSet computes, what  *)
(* a recursive function ends with, and how many elements of a set have     *)
(* each value of a function; and what they know of finite graphs: the      *)
(* component of a vertex is the least set that holds it and that no edge   *)
(* leaves, and a tree can be cut at any of its edges, or take the place of *)
(* the edges of a larger tree, or be joined to another; and what hangs     *)
(* below its edges, seen from a root.  Where vertices carry two labels,    *)
(* counting pieces tells whether one tree has every label of both in one   *)
(* piece.                                                                  *)
(*                                                                         *)
(* The induction theorems of the library take an operator as a parameter.  *)
(* Here a set takes its place, the set of what the induction is to show,   *)
(* and induction over it comes from the library's well-founded orders:     *)
(* strict inclusion of subsets of a finite set is one.                     *)
(***************************************************************************)
EXTENDS FiniteSetsExt, GraphPieces, FiniteSetTheorems, WellFoundedInduction, TLAPS

\* Any numbers have a least one: the strict subset order on the numbers below is
\* well founded.
THEOREM LeastElement ==
    ASSUME NEW S \in SUBSET Nat, S # {}
    PROVE  \E m \in S : \A n \in S : m <= n
  <1> DEFINE upTo(n) == 1 .. n
             R == StrictSubsetOrdering(Nat)
             T == {upTo(n) : n \in S}
  <1>1. IsWellFoundedOn(R, FiniteSubsetsOf(Nat))
    BY FS_StrictSubsetOrderingWellFounded
  <1>2. \A n \in S : upTo(n) \in FiniteSubsetsOf(Nat)
    <2> TAKE n \in S
    <2>1. IsFiniteSet(1 .. n)
      BY FS_Interval
    <2> QED  BY <2>1 DEF FiniteSubsetsOf
  <1>3. T \subseteq FiniteSubsetsOf(Nat) /\ T # {}
    BY <1>2
  <1> HIDE DEF T, R
  <1>4. PICK x \in T : \A y \in T : ~(<<y, x>> \in R)
    BY <1>1, <1>3, WFMin
  <1>5. PICK m \in S : x = upTo(m)
    BY <1>4 DEF T
  <1>6. ASSUME NEW n \in S, n < m
        PROVE  FALSE
    <2>1. upTo(n) \subseteq upTo(m)
      BY <1>6
    <2>2. m \in upTo(m) /\ m \notin upTo(n)
      BY <1>6
    <2>3. <<upTo(n), upTo(m)>> \in R
      <3>1. upTo(n) \in SUBSET Nat /\ upTo(m) \in SUBSET Nat
        OBVIOUS
      <3> QED  BY <2>1, <2>2, <3>1 DEF R, StrictSubsetOrdering
    <2>4. upTo(n) \in T
      BY DEF T
    <2> QED  BY <2>3, <2>4, <1>4, <1>5
  <1> QED  BY <1>6

\* Induction, over a set that holds 0 and with each number the next.
THEOREM SetInduction ==
    ASSUME NEW S, 0 \in S, \A n \in Nat : n \in S => n + 1 \in S
    PROVE  Nat \subseteq S
  <1> SUFFICES ASSUME Nat \ S # {} PROVE FALSE
    OBVIOUS
  <1>1. PICK m \in Nat \ S : \A n \in Nat \ S : m <= n
    BY LeastElement
  <1> QED  BY <1>1, m - 1 \in Nat, m-1 \in S
  
\* Induction over the subsets of a finite set, one element at a time.
LEMMA SubsetInduction ==
    ASSUME NEW U, IsFiniteSet(U), NEW G,
           {} \in G,
           \A T \in SUBSET U : \A x \in U \ T : T \in G => T \cup {x} \in G
    PROVE  \A T \in SUBSET U : T \in G
  <1> DEFINE S == {n \in Nat : \A T \in SUBSET U : Cardinality(T) = n => T \in G}
  <1>0. \A T \in SUBSET U : IsFiniteSet(T) /\ Cardinality(T) \in Nat
    BY FS_Subset, FS_CardinalityType
  <1>1. 0 \in S
    BY <1>0, FS_EmptySet
  <1>2. ASSUME NEW n \in Nat, n \in S
        PROVE  n + 1 \in S
    <2> SUFFICES ASSUME NEW T \in SUBSET U, Cardinality(T) = n + 1
                 PROVE  T \in G
      OBVIOUS
    <2>1. PICK x \in T : TRUE
      BY <1>0, FS_EmptySet
    <2>2. Cardinality(T \ {x}) = n
      <3>1. IsFiniteSet(T)
        BY <1>0
      <3> HIDE DEF S
      <3>2. Cardinality(T \ {x}) = Cardinality(T) - 1
        BY <3>1, FS_RemoveElement
      <3> QED  BY <3>2
    <2>3. T \ {x} \in G
      BY <1>2, <2>2
    <2>4. x \in U \ (T \ {x}) /\ T = (T \ {x}) \cup {x}
      BY <2>1
    <2> QED  BY <2>3, <2>4
  <1>3. Nat \subseteq S
    <2> HIDE DEF S
    <2> QED  BY <1>1, <1>2, SetInduction
  <1> QED  BY <1>0, <1>3

Total(f, S) == MapThenSumSet(LAMBDA x : f[x], S)

\* it adds up f over the subsets of S, the way MapThenSumSet does.
AddsUp(it, f, S) ==
    it = [s \in SUBSET S |->
             IF s = {} THEN 0
             ELSE f[CHOOSE x \in s : TRUE] + it[s \ {CHOOSE x \in s : TRUE}]]

\* The fold of the library is the recursive function it is made of.
LEMMA TotalUnfolded ==
    ASSUME NEW f, NEW S
    PROVE  Total(f, S) = (CHOOSE it : AddsUp(it, f, S))[S]
  BY DEF Total, AddsUp, MapThenSumSet, MapThenFoldSet


Pick(s) == CHOOSE x \in s : TRUE

\* A set that is not empty has something to pick.
LEMMA PickIsIn == \A s : s # {} => Pick(s) \in s
  BY DEF Pick

\* Such a function exists over the subsets of a finite set.
LEMMA SumsExist ==
    ASSUME NEW S, IsFiniteSet(S), NEW f, \A x \in S : f[x] \in Int
    PROVE  \E it \in [SUBSET S -> Int] : AddsUp(it, f, S)
  <1> DEFINE upTo(n) == {s \in SUBSET S : Cardinality(s) <= n}
             Rec(it, n) == \A s \in upTo(n) : it[s] = IF s = {} THEN 0 ELSE f[Pick(s)] + it[s \ {Pick(s)}]
             N == {n \in Nat : \E it \in [SUBSET S -> Int] : Rec(it, n)}
  <1>0. \A s \in SUBSET S : IsFiniteSet(s) /\ Cardinality(s) \in Nat
    BY FS_Subset, FS_CardinalityType
  <1>p. ASSUME NEW s \in SUBSET S, s # {}
        PROVE  /\ Pick(s) \in S /\ s \ {Pick(s)} \in SUBSET S
               /\ Cardinality(s \ {Pick(s)}) = Cardinality(s) - 1
    <2>1. IsFiniteSet(s) /\ Pick(s) \in s
      BY <1>0, <1>p, PickIsIn
    <2>2. Cardinality(s \ {Pick(s)}) = Cardinality(s) - 1
      BY <2>1, FS_RemoveElement
    <2> QED  BY <2>1, <2>2
  <1>1. 0 \in N
    <2> DEFINE it == [s \in SUBSET S |-> 0]
    <2>1. upTo(0) = {{}}
      BY <1>0, FS_EmptySet
    <2>2. it \in [SUBSET S -> Int] /\ Rec(it, 0)
      BY <2>1
    <2> QED  BY <2>2
  <1>2. ASSUME NEW n \in Nat, n \in N
        PROVE  n + 1 \in N
    <2>1. PICK it \in [SUBSET S -> Int] : Rec(it, n)
      BY <1>2
    <2> DEFINE next == [s \in SUBSET S |-> IF s = {} THEN 0 ELSE f[Pick(s)] + it[s \ {Pick(s)}]]
    <2>2. next \in [SUBSET S -> Int]
      <3> SUFFICES ASSUME NEW s \in SUBSET S, s # {}
                   PROVE  f[Pick(s)] + it[s \ {Pick(s)}] \in Int
        OBVIOUS
      <3>1. Pick(s) \in S /\ s \ {Pick(s)} \in SUBSET S
        BY <1>p
      <3>2. it[s \ {Pick(s)}] \in Int
        BY <3>1
      <3> QED  BY <3>1, <3>2
    <2>3. ASSUME NEW s \in upTo(n)
          PROVE  next[s] = it[s]
      BY <2>1
    <2>4. ASSUME NEW s \in upTo(n + 1)
          PROVE  next[s] = IF s = {} THEN 0 ELSE f[Pick(s)] + next[s \ {Pick(s)}]
      <3>1. CASE s = {}
        BY <3>1
      <3>2. CASE s # {}
        <4>1. s \ {Pick(s)} \in upTo(n)
          BY <3>2, <1>p, <1>0
        <4>2. next[s \ {Pick(s)}] = it[s \ {Pick(s)}]
          BY <4>1, <2>3
        <4> QED  BY <3>2, <4>2
      <3> QED  BY <3>1, <3>2
    <2>5. Rec(next, n + 1)
      BY <2>4
    <2> HIDE DEF next, Rec
    <2> QED  BY <2>2, <2>5
  <1>3. Nat \subseteq N
    <2> HIDE DEF N
    <2> QED  BY <1>1, <1>2, SetInduction
  <1>4. Cardinality(S) \in N
    BY <1>0, <1>3
  <1>5. PICK it \in [SUBSET S -> Int] : Rec(it, Cardinality(S))
    BY <1>4
  <1>6. upTo(Cardinality(S)) = SUBSET S
    BY FS_Subset
  <1>7. \A s \in SUBSET S : it[s] = IF s = {} THEN 0 ELSE f[Pick(s)] + it[s \ {Pick(s)}]
    BY <1>5, <1>6
  <1>8. AddsUp(it, f, S)
    BY <1>7 DEF AddsUp, Pick
  <1> QED  BY <1>8

\* Any two agree, also over different sets: the order of picks does not matter.
LEMMA SumsAgree ==
    ASSUME NEW S, NEW T, IsFiniteSet(S), IsFiniteSet(T), NEW f, \A x \in S \cup T : f[x] \in Int,
           NEW it, AddsUp(it, f, S), NEW jt, AddsUp(jt, f, T)
    PROVE  \A s \in SUBSET (S \cap T) : it[s] = jt[s]
  <1> DEFINE N == {n \in Nat : \A s \in SUBSET (S \cap T) : Cardinality(s) = n => it[s] = jt[s]}
  <1>0. \A s \in SUBSET (S \cap T) : IsFiniteSet(s) /\ Cardinality(s) \in Nat
    BY FS_Subset, FS_CardinalityType
  <1>r. \A s \in SUBSET (S \cap T) :
            /\ it[s] = IF s = {} THEN 0 ELSE f[Pick(s)] + it[s \ {Pick(s)}]
            /\ jt[s] = IF s = {} THEN 0 ELSE f[Pick(s)] + jt[s \ {Pick(s)}]
    BY DEF AddsUp, Pick
  <1>1. 0 \in N
    <2> SUFFICES ASSUME NEW s \in SUBSET (S \cap T), Cardinality(s) = 0
                 PROVE  it[s] = jt[s]
      OBVIOUS
    <2>1. s = {}
      BY <1>0, FS_EmptySet
    <2> QED  BY <2>1, <1>r
  <1>2. ASSUME NEW n \in Nat, n \in N
        PROVE  n + 1 \in N
    <2> SUFFICES ASSUME NEW s \in SUBSET (S \cap T), Cardinality(s) = n + 1
                 PROVE  it[s] = jt[s]
      OBVIOUS
    <2>1. s # {} /\ IsFiniteSet(s)
      BY <1>0, FS_EmptySet
    <2>2. Pick(s) \in s
      BY <2>1, PickIsIn
    <2>3. Cardinality(s \ {Pick(s)}) = n
      <3> HIDE DEF N
      <3>1. Cardinality(s \ {Pick(s)}) = Cardinality(s) - 1
        BY <2>1, <2>2, FS_RemoveElement
      <3> QED  BY <3>1
    <2>4. it[s \ {Pick(s)}] = jt[s \ {Pick(s)}]
      BY <1>2, <2>3
    <2> QED  BY <2>1, <2>4, <1>r
  <1>3. Nat \subseteq N
    <2> HIDE DEF N
    <2> QED  BY <1>1, <1>2, SetInduction
  <1> QED  BY <1>0, <1>3

\* A function that adds up f tells the total.
LEMMA TotalIs ==
    ASSUME NEW S, IsFiniteSet(S), NEW f, \A x \in S : f[x] \in Int,
           NEW U, IsFiniteSet(U), S \subseteq U, \A x \in U : f[x] \in Int, 
           NEW it, AddsUp(it, f, U)
    PROVE  Total(f, S) = it[S]
  <1>1. AddsUp(CHOOSE jt : AddsUp(jt, f, S), f, S)
    BY SumsExist
  <1> DEFINE jt == CHOOSE kt : AddsUp(kt, f, S)
  <1>2. AddsUp(jt, f, S)
    BY <1>1
  <1> HIDE DEF jt
  <1>3. \A s \in SUBSET (S \cap U) : jt[s] = it[s]
    BY <1>2, SumsAgree
  <1>4. jt[S] = it[S]
    BY <1>3
  <1> QED  BY <1>4, TotalUnfolded DEF jt

\* Nothing adds up to 0.
THEOREM TotalOfNone == \A f : Total(f, {}) = 0
  <1> TAKE f
  <1>1. IsFiniteSet({})
    BY FS_EmptySet
  <1>2. PICK it \in [SUBSET {} -> Int] : AddsUp(it, f, {})
    BY <1>1, SumsExist
  <1>3. Total(f, {}) = it[{}]
    BY <1>1, <1>2, TotalIs
  <1> QED  BY <1>2, <1>3 DEF AddsUp


\* One element more.
THEOREM TotalAdd ==
    ASSUME NEW S, IsFiniteSet(S), NEW f, \A y \in S : f[y] \in Int, NEW x, x \notin S, f[x] \in Int
    PROVE  Total(f, S \cup {x}) = Total(f, S) + f[x]
  <1> DEFINE U == S \cup {x}
             N == {n \in Nat : \A s \in SUBSET U : Cardinality(s) = n =>
                       \A y \in s : Total(f, s) = Total(f, s \ {y}) + f[y]}
  <1>1. IsFiniteSet(U) /\ \A y \in U : f[y] \in Int
    BY FS_AddElement
  <1> HIDE DEF U
  <1>2. PICK it \in [SUBSET U -> Int] : AddsUp(it, f, U)
    BY <1>1, SumsExist
  <1>3. \A s \in SUBSET U : IsFiniteSet(s) /\ Cardinality(s) \in Nat
    BY <1>1, FS_Subset, FS_CardinalityType
  <1>4. \A s \in SUBSET U : Total(f, s) = it[s]
    BY <1>1, <1>2, <1>3, TotalIs
  <1>5. \A s \in SUBSET U : s # {} => it[s] = f[Pick(s)] + it[s \ {Pick(s)}]
    BY <1>2 DEF AddsUp, Pick
  <1>r. ASSUME NEW n \in Nat, NEW s \in SUBSET U, NEW y \in s, Cardinality(s) = n + 1
        PROVE  Cardinality(s \ {y}) = n /\ s \ {y} \in SUBSET U
    <2>1. IsFiniteSet(s)
      BY <1>3
    <2>2. Cardinality(s \ {y}) = Cardinality(s) - 1
      BY <2>1, FS_RemoveElement
    <2> QED  BY <2>2, <1>r
  <1>6. 0 \in N
    BY <1>3, FS_EmptySet
  <1>7. ASSUME NEW n \in Nat, n \in N
        PROVE  n + 1 \in N
    <2> SUFFICES ASSUME NEW s \in SUBSET U, Cardinality(s) = n + 1, NEW y \in s
                 PROVE  it[s] = it[s \ {y}] + f[y]
      BY <1>4
    <2> DEFINE z == Pick(s)
    <2>1. z \in s
      BY PickIsIn
    <2>2. it[s] = f[z] + it[s \ {z}]
      BY <1>5
    <2> HIDE DEF z
    <2>3. /\ s \ {y} \in SUBSET U /\ s \ {z} \in SUBSET U /\ s \ {y, z} \in SUBSET U
          /\ f[y] \in Int /\ f[z] \in Int
      BY <1>1, <2>1
    <2>4. CASE y = z
      BY <2>2, <2>3, <2>4
    <2>5. CASE y # z
      <3>1. Cardinality(s \ {y}) = n /\ Cardinality(s \ {z}) = n
        BY <1>r, <2>1
      <3>2. z \in s \ {y} /\ y \in s \ {z} /\ (s \ {y}) \ {z} = s \ {y, z} /\ (s \ {z}) \ {y} = s \ {y, z}
        BY <2>1, <2>5
      <3>3. Total(f, s \ {y}) = Total(f, s \ {y, z}) + f[z]
        BY <1>7, <2>3, <3>1, <3>2
      <3>4. Total(f, s \ {z}) = Total(f, s \ {y, z}) + f[y]
        BY <1>7, <2>3, <3>1, <3>2
      <3> QED  BY <3>3, <3>4, <1>4, <2>2, <2>3
    <2> QED  BY <2>4, <2>5
  <1>8. Nat \subseteq N
    <2> HIDE DEF N
    <2> QED  BY <1>6, <1>7, SetInduction
  <1>9. U \in SUBSET U /\ x \in U /\ U \ {x} = S /\ Cardinality(U) \in N
    BY <1>3, <1>8 DEF U
  <1> QED  BY <1>9 DEF U

\* Integers add up to an integer.
THEOREM TotalType ==
    ASSUME NEW S, IsFiniteSet(S), NEW f, \A y \in S : f[y] \in Int
    PROVE  Total(f, S) \in Int
  <1>1. PICK it \in [SUBSET S -> Int] : AddsUp(it, f, S)
    BY SumsExist
  <1>2. Total(f, S) = it[S]
    BY <1>1, TotalIs
  <1> QED  BY <1>2

\* The union of two sets that share nothing.
THEOREM TotalOfUnion ==
    ASSUME NEW S, NEW T, IsFiniteSet(S), IsFiniteSet(T), S \cap T = {},
           NEW f, \A y \in S \cup T : f[y] \in Int
    PROVE  Total(f, S \cup T) = Total(f, S) + Total(f, T)
  <1> DEFINE G == {V \in SUBSET T : Total(f, S \cup V) = Total(f, S) + Total(f, V)}
  <1>1. {} \in G
    <2>1. S \cup {} = S /\ Total(f, S) \in Int
      BY TotalType
    <2> QED  BY <2>1, TotalOfNone
  <1>2. ASSUME NEW V \in SUBSET T, NEW x \in T \ V, V \in G
        PROVE  V \cup {x} \in G
    <2>1. IsFiniteSet(V) /\ IsFiniteSet(S \cup V)
      BY FS_Subset, FS_Union
    <2>2. Total(f, V \cup {x}) = Total(f, V) + f[x]
      BY <2>1, TotalAdd
    <2>3. Total(f, (S \cup V) \cup {x}) = Total(f, S \cup V) + f[x]
      BY <2>1, TotalAdd
    <2>4. Total(f, S) \in Int /\ Total(f, V) \in Int /\ f[x] \in Int
      BY <2>1, TotalType
    <2>5. S \cup (V \cup {x}) = (S \cup V) \cup {x}
      OBVIOUS
    <2>6. Total(f, S \cup V) = Total(f, S) + Total(f, V)
      BY <1>2
    <2>7. Total(f, S \cup (V \cup {x})) = Total(f, S) + Total(f, V \cup {x})
      <3> HIDE DEF G
      <3>1. Total(f, S \cup (V \cup {x})) = Total(f, (S \cup V) \cup {x})
        BY <2>5, Zenon
      <3>2. Total(f, (S \cup V) \cup {x}) = Total(f, S) + (Total(f, V) + f[x])
        BY <2>3, <2>4, <2>6
      <3> QED  BY <3>1, <3>2, <2>2, Zenon
    <2> QED  BY <2>7
  <1> HIDE DEF G
  <1>3. T \in G
    BY <1>1, <1>2, SubsetInduction
  <1> QED  BY <1>3 DEF G

\* Taking one element away.
THEOREM TotalRemove ==
    ASSUME NEW S, IsFiniteSet(S), NEW f, \A y \in S : f[y] \in Int, NEW x \in S
    PROVE  Total(f, S \ {x}) = Total(f, S) - f[x]
  <1>1. IsFiniteSet(S \ {x}) /\ x \notin S \ {x} /\ (S \ {x}) \cup {x} = S /\ f[x] \in Int
    BY FS_Subset
  <1>2. Total(f, S \ {x}) \in Int
    BY <1>1, TotalType
  <1>3. Total(f, (S \ {x}) \cup {x}) = Total(f, S \ {x}) + f[x]
    BY <1>1, TotalAdd
  <1>4. Total(f, S) = Total(f, S \ {x}) + f[x]
    BY <1>1, <1>3, Zenon
  <1> QED  BY <1>1, <1>2, <1>4

\* Only the values on the set count.
THEOREM TotalSame ==
    ASSUME NEW S, IsFiniteSet(S), NEW f, NEW g, \A y \in S : f[y] \in Int /\ g[y] = f[y]
    PROVE  Total(g, S) = Total(f, S)
  <1> DEFINE G == {V \in SUBSET S : Total(g, V) = Total(f, V)}
  <1>1. {} \in G
    BY TotalOfNone
  <1>2. ASSUME NEW V \in SUBSET S, NEW x \in S \ V, V \in G
        PROVE  V \cup {x} \in G
    <2>1. IsFiniteSet(V)
      BY FS_Subset
    <2>2. Total(f, V \cup {x}) = Total(f, V) + f[x] /\ Total(g, V \cup {x}) = Total(g, V) + g[x]
      BY <2>1, TotalAdd
    <2> QED  BY <1>2, <2>2
  <1> HIDE DEF G
  <1>3. S \in G
    BY <1>1, <1>2, SubsetInduction
  <1> QED  BY <1>3 DEF G

\* Two values exchanged for others.
THEOREM TotalOfChange ==
    ASSUME NEW S, IsFiniteSet(S), NEW f, NEW g, \A y \in S : f[y] \in Int /\ g[y] \in Int,
           NEW a \in S, NEW b \in S, a # b, \A y \in S \ {a, b} : g[y] = f[y]
    PROVE  Total(g, S) = Total(f, S) - f[a] - f[b] + g[a] + g[b]
  <1> DEFINE R == S \ {a, b}
  <1>1. IsFiniteSet(S \ {a}) /\ IsFiniteSet(R) /\ (S \ {a}) \ {b} = R
    BY FS_Subset
  <1>2. /\ Total(f, S \ {a}) = Total(f, S) - f[a]
        /\ Total(g, S \ {a}) = Total(g, S) - g[a]
    BY TotalRemove
  <1>3. /\ Total(f, (S \ {a}) \ {b}) = Total(f, S \ {a}) - f[b]
        /\ Total(g, (S \ {a}) \ {b}) = Total(g, S \ {a}) - g[b]
    BY <1>1, TotalRemove
  <1>4. Total(g, R) = Total(f, R)
    BY <1>1, TotalSame
  <1>5. Total(g, (S \ {a}) \ {b}) = Total(f, (S \ {a}) \ {b})
    BY <1>1, <1>4, Zenon
  <1>6. Total(f, S) \in Int /\ Total(g, S) \in Int /\ f[a] \in Int /\ f[b] \in Int /\ g[a] \in Int /\ g[b] \in Int
    BY TotalType
  <1> QED  BY <1>2, <1>3, <1>5, <1>6

\* The total does not ask for the names of the elements.
THEOREM TotalOfImage ==
    ASSUME NEW S, IsFiniteSet(S), NEW h, \A x, y \in S : h[x] = h[y] => x = y,
           NEW f, NEW g, \A x \in S : g[x] = f[h[x]] /\ g[x] \in Int
    PROVE  Total(g, S) = Total(f, {h[x] : x \in S})
  <1> DEFINE image(V) == {h[x] : x \in V}
             G == {V \in SUBSET S : Total(g, V) = Total(f, image(V))}
  <1>1. {} \in G
    <2>1. image({}) = {}
      OBVIOUS
    <2>2. Total(g, {}) = 0 /\ Total(f, {}) = 0
      BY TotalOfNone
    <2> HIDE DEF image
    <2>3. Total(f, image({})) = 0
      BY <2>1, <2>2, Zenon
    <2> QED  BY <2>2, <2>3
  <1>2. ASSUME NEW V \in SUBSET S, NEW x \in S \ V, V \in G
        PROVE  V \cup {x} \in G
    <2>1. IsFiniteSet(V)
      BY FS_Subset
    <2>2. IsFiniteSet(image(V))
      <3>1. [y \in V |-> h[y]] \in Surjection(V, image(V))
        BY DEF Surjection
      <3> HIDE DEF image
      <3> QED  BY <2>1, <3>1, FS_Surjection
    <2>3. h[x] \notin image(V) /\ image(V \cup {x}) = image(V) \cup {h[x]}
      OBVIOUS
    <2>4. \A y \in image(V) : f[y] \in Int
      OBVIOUS
    <2>5. f[h[x]] \in Int /\ g[x] = f[h[x]]
      OBVIOUS
    <2>6. Total(g, V) = Total(f, image(V))
      BY <1>2
    <2> HIDE DEF image, G
    <2>7. Total(f, image(V) \cup {h[x]}) = Total(f, image(V)) + f[h[x]]
      BY <2>2, <2>3, <2>4, <2>5, TotalAdd
    <2>8. Total(g, V \cup {x}) = Total(g, V) + g[x]
      BY <2>1, TotalAdd
    <2>9. Total(g, V \cup {x}) = Total(f, image(V \cup {x}))
      BY <2>3, <2>5, <2>6, <2>7, <2>8, Zenon
    <2> QED  BY <2>9 DEF G
  <1> HIDE DEF G
  <1>3. S \in G
    BY <1>1, <1>2, SubsetInduction
  <1> QED  BY <1>3 DEF G

\* Positive values total at least their number, and exactly that if all are one.
THEOREM TotalOfPositives ==
    ASSUME NEW S, IsFiniteSet(S), NEW f, \A y \in S : f[y] \in Nat \ {0}
    PROVE  /\ Total(f, S) >= Cardinality(S)
           /\ Total(f, S) = Cardinality(S) => \A y \in S : f[y] = 1
  <1> DEFINE G == {V \in SUBSET S : /\ Total(f, V) >= Cardinality(V)
                                    /\ Total(f, V) = Cardinality(V) => \A y \in V : f[y] = 1}
  <1>1. {} \in G
    BY TotalOfNone, FS_EmptySet
  <1>2. ASSUME NEW V \in SUBSET S, NEW x \in S \ V, V \in G
        PROVE  V \cup {x} \in G
    <2>1. IsFiniteSet(V)
      BY FS_Subset
    <2>2. Total(f, V \cup {x}) = Total(f, V) + f[x]
      BY <2>1, TotalAdd
    <2>3. Cardinality(V \cup {x}) = Cardinality(V) + 1 /\ Cardinality(V) \in Nat
      BY <2>1, FS_AddElement, FS_CardinalityType
    <2>4. Total(f, V) \in Int /\ f[x] \in Nat \ {0}
      BY <2>1, TotalType
    <2>5. Total(f, V) >= Cardinality(V) /\ (Total(f, V) = Cardinality(V) => \A y \in V : f[y] = 1)
      BY <1>2
    <2>6. Total(f, V \cup {x}) >= Cardinality(V \cup {x})
      BY <2>2, <2>3, <2>4, <2>5
    <2>7. Total(f, V \cup {x}) = Cardinality(V \cup {x}) => f[x] = 1 /\ Total(f, V) = Cardinality(V)
      BY <2>2, <2>3, <2>4, <2>5
    <2>8. Total(f, V \cup {x}) = Cardinality(V \cup {x}) => \A y \in V \cup {x} : f[y] = 1
      BY <2>5, <2>7
    <2> QED  BY <2>6, <2>8
  <1> HIDE DEF G
  <1>3. S \in G
    BY <1>1, <1>2, SubsetInduction
  <1> QED  BY <1>3 DEF G

\* A sum of numbers that are at most one is at most their number.
THEOREM TotalOfFew ==
    ASSUME NEW S, IsFiniteSet(S), NEW f, \A y \in S : f[y] \in Int /\ f[y] <= 1
    PROVE  Total(f, S) <= Cardinality(S)
  <1> DEFINE G == {V \in SUBSET S : Total(f, V) <= Cardinality(V)}
  <1>1. {} \in G
    BY TotalOfNone, FS_EmptySet
  <1>2. ASSUME NEW T \in SUBSET S, NEW x \in S \ T, T \in G
        PROVE  T \cup {x} \in G
    <2>1. IsFiniteSet(T) /\ T \cup {x} \in SUBSET S
      BY FS_Subset
    <2>2. Total(f, T \cup {x}) = Total(f, T) + f[x] /\ Total(f, T) \in Int
      BY <2>1, TotalAdd, TotalType
    <2>3. Cardinality(T \cup {x}) = Cardinality(T) + 1 /\ Cardinality(T) \in Nat
      BY <2>1, FS_AddElement, FS_CardinalityType
    <2> QED  BY <1>2, <2>1, <2>2, <2>3
  <1> HIDE DEF G
  <1>3. \A T \in SUBSET S : T \in G
    BY <1>1, <1>2, SubsetInduction
  <1> QED  BY <1>3 DEF G

\* The gaps between marks total the way from the first to the last.
THEOREM TotalOfGaps ==
    ASSUME NEW n \in Nat, NEW m, \A r \in 0 .. n : m[r] \in Int,
           NEW f, \A r \in 0 .. n - 1 : f[r] = m[r + 1] - m[r]
    PROVE  Total(f, 0 .. n - 1) = m[n] - m[0]
  <1> DEFINE N == {k \in Nat : k <= n => Total(f, 0 .. k - 1) = m[k] - m[0]}
  <1>1. 0 \in N
    <2>1. 0 .. 0 - 1 = {} /\ m[0] \in Int
      OBVIOUS
    <2>2. Total(f, 0 .. 0 - 1) = 0
      BY <2>1, TotalOfNone, Zenon
    <2> QED  BY <2>1, <2>2
  <1>2. ASSUME NEW k \in Nat, k \in N
        PROVE  k + 1 \in N
    <2> SUFFICES ASSUME k + 1 <= n
                 PROVE  Total(f, 0 .. (k + 1) - 1) = m[k + 1] - m[0]
      OBVIOUS
    <2>1. Total(f, 0 .. k - 1) = m[k] - m[0]
      BY <1>2
    <2>2. 0 .. (k + 1) - 1 = (0 .. k - 1) \cup {k} /\ k \notin 0 .. k - 1
      OBVIOUS
    <2>3. /\ k \in 0 .. n - 1 /\ f[k] = m[k + 1] - m[k]
          /\ m[0] \in Int /\ m[k] \in Int /\ m[k + 1] \in Int
      OBVIOUS
    <2>4. IsFiniteSet(0 .. k - 1)
      BY FS_Interval
    <2>5. \A r \in 0 .. k - 1 : f[r] \in Int
      <3> TAKE r \in 0 .. k - 1
      <3>1. r \in 0 .. n - 1 /\ r \in 0 .. n /\ r + 1 \in 0 .. n
        OBVIOUS
      <3> QED  BY <3>1
    <2>6. Total(f, (0 .. k - 1) \cup {k}) = Total(f, 0 .. k - 1) + f[k]
      <3> DEFINE D == 0 .. k - 1
      <3>1. f[k] \in Int /\ k \notin D /\ IsFiniteSet(D) /\ \A r \in D : f[r] \in Int
        BY <2>3, <2>4, <2>5
      <3> HIDE DEF D
      <3>2. Total(f, D \cup {k}) = Total(f, D) + f[k]
        BY <3>1, TotalAdd
      <3> QED  BY <3>2 DEF D
    <2>7. Total(f, 0 .. (k + 1) - 1) = Total(f, 0 .. k - 1) + f[k]
      BY <2>2, <2>6, Zenon
    <2> QED  BY <2>1, <2>3, <2>7
  <1>3. n \in N
    <2> HIDE DEF N
    <2> QED  BY <1>1, <1>2, SetInduction
  <1> QED  BY <1>3

\* f starts with a and goes on with h, as a recursive function does.
IsIteration(f, N, a, h) ==
    f = [n \in 0 .. N |-> IF n = 0 THEN a ELSE h[n][f[n - 1]]]

\* Such a function exists: a recursive definition of this form defines what it says.
THEOREM IterationExists ==
    ASSUME NEW D, NEW N \in Nat, NEW a \in D, NEW h \in [1 .. N -> [D -> D]]
    PROVE  \E f \in [0 .. N -> D] : IsIteration(f, N, a, h)
  <1> DEFINE Iterates(f, m) == f[0] = a /\ \A n \in 1 .. m : f[n] = h[n][f[n - 1]]
             S == {m \in Nat : m <= N => \E f \in [0 .. N -> D] : Iterates(f, m)}
  <1>1. 0 \in S
    <2>1. [n \in 0 .. N |-> a] \in [0 .. N -> D] /\ Iterates([n \in 0 .. N |-> a], 0)
      OBVIOUS
    <2> QED  BY <2>1
  <1>2. ASSUME NEW m \in Nat, m \in S
        PROVE  m + 1 \in S
    <2> SUFFICES ASSUME m + 1 <= N
                 PROVE  \E f \in [0 .. N -> D] : Iterates(f, m + 1)
      OBVIOUS
    <2>1. PICK f \in [0 .. N -> D] : Iterates(f, m)
      BY <1>2
    <2> DEFINE next == [f EXCEPT ![m + 1] = h[m + 1][f[m]]]
    <2>2. f[m] \in D /\ h[m + 1] \in [D -> D]
      OBVIOUS
    <2>3. next \in [0 .. N -> D] /\ next[m + 1] = h[m + 1][f[m]] /\ \A n \in 0 .. m : next[n] = f[n]
      BY <2>2
    <2> HIDE DEF next
    <2>4. \A n \in 1 .. m : f[n] = h[n][f[n - 1]] /\ n - 1 \in 0 .. m
      BY <2>1
    <2>5. \A n \in 1 .. m : next[n] = h[n][next[n - 1]]
      BY <2>3, <2>4
    <2>6. next[m + 1] = h[m + 1][next[(m + 1) - 1]]
      BY <2>3
    <2>7. next[0] = a
      BY <2>1, <2>3
    <2>8. Iterates(next, m + 1)
      BY <2>5, <2>6, <2>7
    <2> QED  BY <2>3, <2>8
  <1>3. Nat \subseteq S
    <2> HIDE DEF S
    <2> QED  BY <1>1, <1>2, SetInduction
  <1>4. PICK f \in [0 .. N -> D] : Iterates(f, N)
    BY <1>3
  <1>5. f = [n \in 0 .. N |-> IF n = 0 THEN a ELSE h[n][f[n - 1]]]
    BY <1>4
  <1> QED  BY <1>5 DEF IsIteration

\* Whatever satisfies the recursion stays in its range.
THEOREM IterationType ==
    ASSUME NEW D, NEW N \in Nat, NEW a \in D, NEW h \in [1 .. N -> [D -> D]],
           NEW f, IsIteration(f, N, a, h)
    PROVE  f \in [0 .. N -> D]
  <1> DEFINE S == {n \in Nat : n <= N => f[n] \in D}
  <1>0. f = [n \in 0 .. N |-> IF n = 0 THEN a ELSE h[n][f[n - 1]]]
    BY DEF IsIteration
  <1>1. 0 \in S
    BY <1>0
  <1>2. ASSUME NEW n \in Nat, n \in S
        PROVE  n + 1 \in S
    <2> SUFFICES ASSUME n + 1 <= N
                 PROVE  f[n + 1] \in D
      OBVIOUS
    <2>1. n + 1 \in 1 .. N /\ f[n] \in D /\ (n + 1) - 1 = n
      BY <1>2
    <2>2. f[n + 1] = h[n + 1][f[n]]
      BY <1>0, <2>1
    <2>3. h[n + 1] \in [D -> D]
      BY <2>1
    <2> QED  BY <2>1, <2>2, <2>3
  <1>3. Nat \subseteq S
    <2> HIDE DEF S
    <2> QED  BY <1>1, <1>2, SetInduction
  <1>4. \A n \in 0 .. N : f[n] \in D
    BY <1>3
  <1> QED  BY <1>0, <1>4

\* F adds to the subsets of U.
IsGrowth(F, U) == F \in [SUBSET U -> SUBSET U] /\ \A X \in SUBSET U : X \subseteq F[X]

\* f holds what N applications of F to a give, one by one, as long as they are in D.
Repeats(f, a, F, N, D) ==
    f[0] = a /\ \A n \in 1 .. N : f[n - 1] \in D => f[n] = F[f[n - 1]]

\* Applications of a function on D stay in D.
THEOREM RepeatsStay ==
    ASSUME NEW D, NEW N \in Nat, NEW a \in D, NEW F \in [D -> D], NEW f, Repeats(f, a, F, N, D)
    PROVE  \A n \in 0 .. N : f[n] \in D
  <1> DEFINE S == {n \in Nat : n <= N => f[n] \in D}
  <1>1. 0 \in S
    BY DEF Repeats
  <1>2. ASSUME NEW n \in Nat, n \in S
        PROVE  n + 1 \in S
    <2> SUFFICES ASSUME n + 1 <= N
                 PROVE  f[n + 1] \in D
      OBVIOUS
    <2>1. n + 1 \in 1 .. N /\ (n + 1) - 1 = n /\ f[n] \in D
      BY <1>2
    <2>2. f[n + 1] = F[f[n]]
      BY <2>1 DEF Repeats
    <2> QED  BY <2>1, <2>2
  <1>3. Nat \subseteq S
    <2> HIDE DEF S
    <2> QED  BY <1>1, <1>2, SetInduction
  <1> QED  BY <1>3

\* X is a fixpoint of F above a, and within every set above a that F does not leave.
IsLeastFixpoint(X, a, F, U) ==
    /\ X \in SUBSET U /\ a \subseteq X /\ F[X] = X
    /\ \A D \in SUBSET U : a \subseteq D /\ (\A Y \in SUBSET D : F[Y] \subseteq D) => X \subseteq D

\* A set that only grows within a finite one has stopped growing after as many
\* steps as that has elements, and is within everything the steps do not leave.
LEMMA GrowthEnds ==
    ASSUME NEW U, IsFiniteSet(U), NEW a \in SUBSET U, NEW F, IsGrowth(F, U),
           NEW f, Repeats(f, a, F, Cardinality(U), SUBSET U)
    PROVE  IsLeastFixpoint(f[Cardinality(U)], a, F, U)
  <1> DEFINE N == Cardinality(U)
  <1>a. /\ F \in [SUBSET U -> SUBSET U] /\ \A X \in SUBSET U : X \subseteq F[X]
        /\ f[0] = a /\ \A n \in 1 .. N : f[n - 1] \in SUBSET U => f[n] = F[f[n - 1]]
    BY DEF IsGrowth, Repeats
  <1>0. N \in Nat /\ \A X \in SUBSET U : IsFiniteSet(X) /\ Cardinality(X) \in Nat
    BY FS_CardinalityType, FS_Subset
  <1>b. N = Cardinality(U)
    OBVIOUS
  <1> HIDE DEF N
  <1> DEFINE S == {n \in Nat : n <= N =>
                     /\ f[n] \in SUBSET U /\ a \subseteq f[n]
                     /\ Cardinality(f[n]) >= n \/ F[f[n]] = f[n]
                     /\ \A D \in SUBSET U : a \subseteq D /\ (\A X \in SUBSET D : F[X] \subseteq D) =>
                           f[n] \subseteq D}
  <1>1. 0 \in S
    BY <1>a, <1>0
  <1>2. ASSUME NEW n \in Nat, n \in S
        PROVE  n + 1 \in S
    <2> SUFFICES ASSUME n + 1 <= N
                 PROVE  /\ f[n + 1] \in SUBSET U /\ a \subseteq f[n + 1]
                        /\ Cardinality(f[n + 1]) >= n + 1 \/ F[f[n + 1]] = f[n + 1]
                        /\ \A D \in SUBSET U : a \subseteq D /\ (\A X \in SUBSET D : F[X] \subseteq D) =>
                              f[n + 1] \subseteq D
      OBVIOUS
    <2>1. /\ f[n] \in SUBSET U /\ a \subseteq f[n]
          /\ Cardinality(f[n]) >= n \/ F[f[n]] = f[n]
          /\ \A D \in SUBSET U : a \subseteq D /\ (\A X \in SUBSET D : F[X] \subseteq D) =>
                           f[n] \subseteq D
      BY <1>a, <1>0, <1>2
    <2>2. f[n + 1] = F[f[n]]
      <3>1. n + 1 \in 1 .. N /\ (n + 1) - 1 = n
        BY <1>0
      <3> QED  BY <1>a, <2>1, <3>1
    <2>3. f[n] \subseteq f[n + 1] /\ f[n + 1] \in SUBSET U
      BY <1>a, <2>1, <2>2
    <2>4. Cardinality(f[n + 1]) >= n + 1 \/ F[f[n + 1]] = f[n + 1]
      <3>1. CASE f[n + 1] = f[n]
        BY <2>2, <3>1
      <3>2. CASE f[n + 1] # f[n]
        <4> DEFINE old == f[n]
                   new == f[n + 1]
        <4>1. IsFiniteSet(new) /\ old \in SUBSET new /\ old # new /\ Cardinality(new) \in Nat
          BY <1>0, <2>3, <3>2
        <4>2. Cardinality(old) >= n /\ Cardinality(old) \in Nat
          BY <1>0, <2>1, <2>2, <3>2
        <4> HIDE DEF old, new
        <4>3. Cardinality(old) <= Cardinality(new) /\ Cardinality(old) # Cardinality(new)
          BY <4>1, FS_Subset
        <4>4. Cardinality(new) >= n + 1
          BY <4>1, <4>2, <4>3
        <4> QED  BY <4>4 DEF new
      <3> QED  BY <3>1, <3>2
    <2> QED  BY <1>a, <2>1, <2>2, <2>3, <2>4
  <1>3. N \in S
    <2> HIDE DEF S
    <2> QED  BY <1>0, <1>1, <1>2, SetInduction
  <1>4. Cardinality(f[N]) >= N => f[N] = U
    <2>1. f[N] \in SUBSET U
      BY <1>0, <1>3
    <2>2. Cardinality(f[N]) <= Cardinality(U) /\ (Cardinality(U) = Cardinality(f[N]) => U = f[N])
      BY <2>1, FS_Subset
    <2>3. Cardinality(f[N]) \in Nat
      BY <1>0, <2>1
    <2> QED  BY <1>0, <1>b, <2>2, <2>3
  <1>5. F[U] = U
    <2>1. F[U] \in SUBSET U /\ U \subseteq F[U]
      BY <1>a
    <2> QED  BY <2>1
  <1> QED  BY <1>0, <1>b, <1>3, <1>4, <1>5 DEF IsLeastFixpoint

---------------------------------------------------------------------------
\* How many of the first n numbers are below the rth.
RankOf(order, n, r) == Cardinality({q \in 0 .. n - 1 : order[q] < order[r]})

\* Ranking numbers that differ is a permutation: every index is the rank of one.
THEOREM RanksPermute ==
    ASSUME NEW n \in Nat, NEW order \in [0 .. n - 1 -> Int],
           \A r, q \in 0 .. n - 1 : order[r] = order[q] => r = q
    PROVE  /\ \A r \in 0 .. n - 1 : RankOf(order, n, r) \in 0 .. n - 1
           /\ \A r, q \in 0 .. n - 1 : RankOf(order, n, r) = RankOf(order, n, q) => r = q
           /\ \A i \in 0 .. n - 1 : \E r \in 0 .. n - 1 : RankOf(order, n, r) = i
  <1> DEFINE S == 0 .. n - 1
             rank == [r \in 0 .. n - 1 |-> RankOf(order, n, r)]
             below(r) == {q \in S : order[q] < order[r]}
  <1>1. IsFiniteSet(S) /\ Cardinality(S) = n
    <2>1. n - 1 \in Int /\ 0 \in Int
      OBVIOUS
    <2> QED  BY <2>1, FS_Interval
  <1>2. /\ \A r \in S : order[r] \in Int
        /\ \A r, q \in S : order[r] = order[q] => r = q
        /\ \A r \in S : rank[r] = Cardinality(below(r))
    BY DEF RankOf
  <1>3. DOMAIN rank = S /\ rank = [r \in S |-> rank[r]] /\ \A k \in Nat : k <= n - 1 => k \in S
    OBVIOUS
  <1>0. \A r \in S : rank[r] = RankOf(order, n, r)
    OBVIOUS
  <1> HIDE DEF S, rank
  <1>4. ASSUME NEW r \in S
        PROVE  rank[r] \in S
    <2>1. IsFiniteSet(S \ {r}) /\ Cardinality(S \ {r}) = n - 1
      BY <1>1, <1>4, FS_RemoveElement
    <2>2. below(r) \in SUBSET (S \ {r})
      BY <1>2
    <2> HIDE DEF below
    <2>3. IsFiniteSet(below(r)) /\ Cardinality(below(r)) <= n - 1
      BY <2>1, <2>2, FS_Subset
    <2>4. Cardinality(below(r)) \in Nat
      BY <2>3, FS_CardinalityType
    <2> QED  BY <1>2, <1>3, <2>3, <2>4
  <1>5. ASSUME NEW r \in S, NEW q \in S, order[r] < order[q]
        PROVE  rank[r] # rank[q]
    <2>1. below(r) \in SUBSET below(q) /\ r \in below(q) /\ r \notin below(r) /\ below(q) \in SUBSET S
      BY <1>2, <1>5
    <2> HIDE DEF below
    <2>2. IsFiniteSet(below(q)) /\ below(r) # below(q)
      BY <1>1, <2>1, FS_Subset
    <2>3. Cardinality(below(r)) # Cardinality(below(q))
      BY <2>1, <2>2, FS_Subset
    <2> QED  BY <1>2, <2>3
  <1>6. \A r, q \in S : rank[r] = rank[q] => r = q
    <2> SUFFICES ASSUME NEW r \in S, NEW q \in S, r # q
                 PROVE  rank[r] # rank[q]
      OBVIOUS
    <2>1. order[r] < order[q] \/ order[q] < order[r]
      BY <1>2
    <2>2. CASE order[r] < order[q]
      BY <1>5, <2>2
    <2>3. CASE order[q] < order[r]
      BY <1>5, <2>3
    <2> QED  BY <2>1, <2>2, <2>3
  <1>7. rank \in [S -> S]
    BY <1>3, <1>4
  <1>8. rank \in Injection(S, S)
    <2>1. DOMAIN rank = S
      BY <1>7
    <2>2. IsInjective(rank)
      BY <1>6, <2>1 DEF IsInjective
    <2> QED  BY <1>7, <2>2 DEF Injection
  <1>9. rank \in Surjection(S, S)
    BY <1>1, <1>8, FS_Injection
  <1>10. \A i \in S : \E r \in S : rank[r] = i
    BY <1>9 DEF Surjection
  <1>11. /\ \A r \in S : RankOf(order, n, r) \in S
         /\ \A r, q \in S : RankOf(order, n, r) = RankOf(order, n, q) => r = q
         /\ \A i \in S : \E r \in S : RankOf(order, n, r) = i
    BY <1>0, <1>6, <1>7, <1>10
  <1> QED  BY <1>11 DEF S

---------------------------------------------------------------------------
\* How many elements of S have each of the values V under f.
Tally(f, S, V) == [v \in V |-> Cardinality({x \in S : f[x] = v})]

OneMore(t, v) == [t EXCEPT ![v] = @ + 1]
OneLess(t, v) == [t EXCEPT ![v] = @ - 1]

\* Tallies are numbers.
THEOREM TallyType ==
    ASSUME NEW S, IsFiniteSet(S), NEW f, NEW V
    PROVE  Tally(f, S, V) \in [V -> Nat]
  <1>1. \A v \in V : {x \in S : f[x] = v} \in SUBSET S
    OBVIOUS
  <1>2. \A v \in V : Cardinality({x \in S : f[x] = v}) \in Nat
    BY <1>1, FS_Subset, FS_CardinalityType
  <1> QED  BY <1>2 DEF Tally

\* Only the values on the set count.
THEOREM TallySame ==
    ASSUME NEW S, NEW f, NEW g, \A x \in S : g[x] = f[x], NEW V
    PROVE  Tally(g, S, V) = Tally(f, S, V)
  <1>1. \A v \in V : {x \in S : f[x] = v} = {x \in S : g[x] = v}
    OBVIOUS
  <1> QED  BY <1>1 DEF Tally

\* One element more is one more of its value.
THEOREM TallyAdd ==
    ASSUME NEW S, IsFiniteSet(S), NEW f, NEW V, NEW x, x \notin S, f[x] \in V
    PROVE  Tally(f, S \cup {x}, V) = OneMore(Tally(f, S, V), f[x])
  <1> DEFINE has(v) == {y \in S : f[y] = v}
             all(v) == {y \in S \cup {x} : f[y] = v}
  <1>1. \A v : IsFiniteSet(has(v)) /\ x \notin has(v)
    <2> TAKE v
    <2>1. has(v) \in SUBSET S
      OBVIOUS
    <2> HIDE DEF has
    <2>2. IsFiniteSet(has(v))
      BY <2>1, FS_Subset
    <2> QED  BY <2>1, <2>2
  <1>2. \A v : v # f[x] => all(v) = has(v)
    OBVIOUS
  <1>3. all(f[x]) = has(f[x]) \cup {x}
    OBVIOUS
  <1>4. Tally(f, S, V) = [v \in V |-> Cardinality(has(v))] /\ Tally(f, S \cup {x}, V) = [v \in V |-> Cardinality(all(v))]
    BY DEF Tally
  <1> HIDE DEF has, all
  <1>5. Cardinality(all(f[x])) = Cardinality(has(f[x])) + 1
    <2>1. Cardinality(has(f[x]) \cup {x}) = Cardinality(has(f[x])) + 1
      BY <1>1, FS_AddElement
    <2> QED  BY <1>3, <2>1, Zenon
  <1>6. \A v \in V : Cardinality(all(v)) = IF v = f[x] THEN Cardinality(has(v)) + 1 ELSE Cardinality(has(v))
    <2> TAKE v \in V
    <2>1. CASE v = f[x]
      BY <1>5, <2>1, Zenon
    <2>2. CASE v # f[x]
      <3>1. all(v) = has(v)
        BY <1>2, <2>2
      <3> QED  BY <2>2, <3>1, Zenon
    <2> QED  BY <2>1, <2>2
  <1> QED  BY <1>4, <1>6 DEF OneMore

\* One element less is one less of its value.
THEOREM TallyRemove ==
    ASSUME NEW S, IsFiniteSet(S), NEW f, NEW V, NEW x \in S, f[x] \in V
    PROVE  /\ Tally(f, S \ {x}, V) = OneLess(Tally(f, S, V), f[x])
           /\ Tally(f, S, V)[f[x]] > 0
  <1> DEFINE R == S \ {x}
  <1>1. IsFiniteSet(R) /\ x \notin R /\ R \cup {x} = S
    BY FS_Subset
  <1> HIDE DEF R
  <1>2. Tally(f, R, V) \in [V -> Nat]
    BY <1>1, TallyType
  <1>3. Tally(f, R \cup {x}, V) = OneMore(Tally(f, R, V), f[x])
    BY <1>1, TallyAdd
  <1>4. Tally(f, S, V) = OneMore(Tally(f, R, V), f[x])
    BY <1>1, <1>3, Zenon
  <1> DEFINE t == Tally(f, R, V)
             u == Tally(f, S, V)
  <1>5. t \in [V -> Nat] /\ u = [t EXCEPT ![f[x]] = @ + 1]
    BY <1>2, <1>4 DEF OneMore
  <1> HIDE DEF t, u
  <1>6. u[f[x]] = t[f[x]] + 1 /\ t = [u EXCEPT ![f[x]] = @ - 1]
    <2>1. u[f[x]] = t[f[x]] + 1 /\ t[f[x]] \in Nat /\ u \in [V -> Nat]
      BY <1>5
    <2>2. \A v \in V : t[v] = IF v = f[x] THEN u[f[x]] - 1 ELSE u[v]
      BY <1>5, <2>1
    <2> QED  BY <1>5, <2>1, <2>2
  <1>7. u[f[x]] > 0
    BY <1>5, <1>6
  <1> QED  BY <1>6, <1>7 DEF t, u, R, OneLess

\* The tally does not ask for the names of the elements.
THEOREM TallyOfPermutation ==
    ASSUME NEW S, IsFiniteSet(S), NEW h, \A x \in S : h[x] \in S, \A x, y \in S : h[x] = h[y] => x = y,
           \A y \in S : \E x \in S : h[x] = y,
           NEW f, NEW g, \A x \in S : g[x] = f[h[x]], NEW V
    PROVE  Tally(g, S, V) = Tally(f, S, V)
  <1> DEFINE a(v) == {x \in S : g[x] = v}
             b(v) == {x \in S : f[x] = v}
  <1>1. ASSUME NEW v \in V
        PROVE  Cardinality(a(v)) = Cardinality(b(v))
    <2> DEFINE k == [x \in a(v) |-> h[x]]
    <2>1. IsFiniteSet(a(v))
      <3>1. a(v) \in SUBSET S
        OBVIOUS
      <3> HIDE DEF a
      <3> QED  BY <3>1, FS_Subset
    <2>2. k \in Bijection(a(v), b(v))
      <3>1. k \in [a(v) -> b(v)]
        OBVIOUS
      <3>2. \A x, y \in a(v) : k[x] = k[y] => x = y
        OBVIOUS
      <3>3. \A y \in b(v) : \E x \in a(v) : k[x] = y
        <4> TAKE y \in b(v)
        <4>1. PICK x \in S : h[x] = y
          OBVIOUS
        <4>2. x \in a(v)
          BY <4>1
        <4> WITNESS x \in a(v)
        <4> QED  BY <4>1, <4>2
      <3> HIDE DEF a, b, k
      <3> QED  BY <3>1, <3>2, <3>3 DEF Bijection, Injection, Surjection, IsInjective
    <2> HIDE DEF a, b, k
    <2>3. ExistsBijection(a(v), b(v))
      BY <2>2 DEF ExistsBijection
    <2> QED  BY <2>1, <2>3, FS_Bijection
  <1>2. Tally(g, S, V) = [v \in V |-> Cardinality(a(v))] /\ Tally(f, S, V) = [v \in V |-> Cardinality(b(v))]
    BY DEF Tally
  <1> HIDE DEF a, b
  <1> QED  BY <1>1, <1>2

\* Weights summed value by value are the weights summed element by element.
LEMMA TallyTotal ==
    ASSUME NEW S, IsFiniteSet(S), NEW V, IsFiniteSet(V), NEW f, \A x \in S : f[x] \in V,
           NEW w, \A v \in V : w[v] \in Int
    PROVE  Total([v \in V |-> Tally(f, S, V)[v] * w[v]], V) = Total([x \in S |-> w[f[x]]], S)
  <1> DEFINE worth == [x \in S |-> w[f[x]]]
             weighed(T) == [v \in V |-> Tally(f, T, V)[v] * w[v]]
             G == {T \in SUBSET S : Total(weighed(T), V) = Total(worth, T)}
  <1>1. \A T \in SUBSET S : IsFiniteSet(T) /\ Tally(f, T, V) \in [V -> Nat]
    BY FS_Subset, TallyType
  <1>2. ASSUME NEW t \in [V -> Nat], NEW v \in V
        PROVE  t[v] * w[v] \in Int
    BY <1>2
  <1>3. \A T \in SUBSET S : \A v \in V : weighed(T)[v] \in Int /\ weighed(T)[v] = Tally(f, T, V)[v] * w[v]
    BY <1>1, <1>2
  <1>4. \A x \in S : worth[x] \in Int /\ worth[x] = w[f[x]]
    OBVIOUS
  <1>5. {} \in G
    <2>1. \A v \in V : weighed({})[v] = 0
      <3> TAKE v \in V
      <3>1. {x \in {} : f[x] = v} = {}
        OBVIOUS
      <3>2. Tally(f, {}, V)[v] = 0
        BY <3>1, FS_EmptySet DEF Tally
      <3>3. w[v] \in Int
        OBVIOUS
      <3> QED  BY <3>2, <3>3
    <2> DEFINE none == weighed({})
    <2>2. \A v \in V : none[v] = 0
      BY <2>1
    <2> HIDE DEF none
    <2>3. Total(none, V) = 0
      <3> DEFINE H == {T \in SUBSET V : Total(none, T) = 0}
      <3>1. {} \in H
        BY TotalOfNone
      <3>2. ASSUME NEW T \in SUBSET V, NEW x \in V \ T, T \in H
            PROVE  T \cup {x} \in H
        <4>1. IsFiniteSet(T) /\ none[x] = 0 /\ \A y \in T : none[y] \in Int
          BY <2>2, FS_Subset
        <4>2. Total(none, T \cup {x}) = Total(none, T) + none[x]
          BY <4>1, TotalAdd
        <4> QED  BY <3>2, <4>1, <4>2
      <3> HIDE DEF H
      <3>3. V \in H
        BY <3>1, <3>2, SubsetInduction
      <3> QED  BY <3>3 DEF H
    <2>4. Total(worth, {}) = 0
      BY TotalOfNone
    <2> QED  BY <2>3, <2>4 DEF none
  <1> HIDE DEF worth
  <1>6. ASSUME NEW T \in SUBSET S, NEW x \in S \ T, T \in G
        PROVE  T \cup {x} \in G
    <2> DEFINE a == weighed(T)
               b == weighed(T \cup {x})
               c == f[x]
    <2>1. c \in V /\ IsFiniteSet(T) /\ Tally(f, T, V) \in [V -> Nat] /\ T \cup {x} \in SUBSET S
          /\ IsFiniteSet(V \ {c}) /\ w[c] \in Int
      BY <1>1, FS_Subset
    <2>2. Tally(f, T \cup {x}, V) = OneMore(Tally(f, T, V), c)
      <3>1. x \notin T /\ f[x] \in V /\ IsFiniteSet(T)
        BY <2>1
      <3> HIDE DEF a, b, G
      <3> QED  BY <3>1, TallyAdd DEF c
    <2>3. /\ \A v \in V : a[v] \in Int /\ b[v] \in Int
          /\ \A v \in V \ {c} : b[v] = a[v]
          /\ b[c] = a[c] + w[c]
      <3> DEFINE t == Tally(f, T, V)
                 u == Tally(f, T \cup {x}, V)
      <3>1. /\ \A v \in V : a[v] = t[v] * w[v] /\ b[v] = u[v] * w[v] /\ a[v] \in Int /\ b[v] \in Int
        BY <1>3, <2>1
      <3>2. t \in [V -> Nat] /\ u = [t EXCEPT ![c] = @ + 1]
        BY <2>1, <2>2 DEF OneMore
      <3> HIDE DEF t, u, a, b, c
      <3>3. (\A v \in V \ {c} : u[v] = t[v]) /\ u[c] = t[c] + 1 /\ t[c] \in Nat
        BY <2>1, <3>2
      <3>4. (t[c] + 1) * w[c] = t[c] * w[c] + w[c]
        BY <2>1, <3>3
      <3>5. b[c] = a[c] + w[c]
        BY <2>1, <3>1, <3>3, <3>4
      <3> QED  BY <3>1, <3>3, <3>5
    <2>4. Total(a, V) = Total(worth, T)
      BY <1>6
    <2> HIDE DEF a, b, c, weighed
    <2>5. Total(a, V \ {c}) = Total(a, V) - a[c] /\ Total(b, V \ {c}) = Total(b, V) - b[c]
      BY <2>1, <2>3, TotalRemove
    <2>6. Total(b, V \ {c}) = Total(a, V \ {c})
      BY <2>1, <2>3, TotalSame
    <2>7. Total(a, V) \in Int /\ Total(b, V) \in Int
      BY <2>3, TotalType
    <2>8. Total(b, V) = Total(a, V) + w[c]
      BY <2>1, <2>3, <2>5, <2>6, <2>7
    <2>9. Total(worth, T \cup {x}) = Total(worth, T) + w[c]
      <3>1. worth[x] = w[c] /\ worth[x] \in Int /\ \A y \in T : worth[y] \in Int
        BY <1>4 DEF c
      <3> QED  BY <2>1, <3>1, TotalAdd
    <2> QED  BY <2>1, <2>4, <2>8, <2>9 DEF b
  <1> HIDE DEF G
  <1>7. S \in G
    BY <1>5, <1>6, SubsetInduction
  <1> QED  BY <1>7 DEF G, worth

\* One element becomes two.
THEOREM TallyOfCut ==
    ASSUME NEW S, IsFiniteSet(S), NEW f, NEW g, NEW V, NEW a \in S, NEW b, b \notin S,
           \A x \in S \ {a} : g[x] = f[x], f[a] \in V, g[a] \in V, g[b] \in V
    PROVE  /\ Tally(f, S, V)[f[a]] > 0
           /\ Tally(g, S \cup {b}, V) =
                 OneMore(OneMore(OneLess(Tally(f, S, V), f[a]), g[a]), g[b])
  <1> DEFINE R == S \ {a}
  <1>1. IsFiniteSet(R) /\ a \notin R /\ R \cup {a} = S
    BY FS_Subset
  <1>2. Tally(f, R, V) = OneLess(Tally(f, S, V), f[a]) /\ Tally(f, S, V)[f[a]] > 0
    BY TallyRemove
  <1>3. Tally(g, R, V) = Tally(f, R, V)
    BY TallySame
  <1> HIDE DEF R
  <1>4. Tally(g, R \cup {a}, V) = OneMore(Tally(g, R, V), g[a])
    BY <1>1, TallyAdd
  <1>5. Tally(g, S \cup {b}, V) = OneMore(Tally(g, S, V), g[b])
    BY TallyAdd
  <1> QED  BY <1>1, <1>2, <1>3, <1>4, <1>5, Zenon

\* Two elements less.
THEOREM TallyRemoveTwo ==
    ASSUME NEW S, IsFiniteSet(S), NEW f, NEW V, NEW a \in S, NEW b \in S, a # b, f[a] \in V, f[b] \in V
    PROVE  /\ Tally(f, S, V)[f[a]] > 0
           /\ Tally(f, S, V)[f[b]] > 0
           /\ f[a] = f[b] => Tally(f, S, V)[f[b]] > 1
           /\ Tally(f, S \ {a, b}, V) = OneLess(OneLess(Tally(f, S, V), f[a]), f[b])
  <1>1. Tally(f, S \ {a}, V) = OneLess(Tally(f, S, V), f[a]) /\ Tally(f, S, V)[f[a]] > 0
    BY TallyRemove
  <1> DEFINE R == S \ {a}
  <1>2. IsFiniteSet(R) /\ b \in R /\ R \ {b} = S \ {a, b}
    BY FS_Subset
  <1>3. Tally(f, R, V) = OneLess(Tally(f, S, V), f[a])
    BY <1>1
  <1> HIDE DEF R
  <1>4. Tally(f, R \ {b}, V) = OneLess(Tally(f, R, V), f[b]) /\ Tally(f, R, V)[f[b]] > 0
    BY <1>2, TallyRemove
  <1>5. Tally(f, S \ {a, b}, V) = OneLess(OneLess(Tally(f, S, V), f[a]), f[b])
    BY <1>2, <1>3, <1>4, Zenon
  <1> DEFINE t == Tally(f, S, V)
             u == Tally(f, R, V)
  <1>6. t \in [V -> Nat] /\ u = [t EXCEPT ![f[a]] = @ - 1] /\ u[f[b]] > 0
    BY <1>3, <1>4, TallyType DEF OneLess
  <1> HIDE DEF t, u
  <1>7. t[f[b]] > 0 /\ (f[a] = f[b] => t[f[b]] > 1)
    BY <1>6
  <1> QED  BY <1>1, <1>5, <1>7 DEF t

\* Two elements get other values.
THEOREM TallyOfTrade ==
    ASSUME NEW S, IsFiniteSet(S), NEW f, NEW g, NEW V, NEW a \in S, NEW b \in S, a # b,
           \A x \in S \ {a, b} : g[x] = f[x], f[a] \in V, f[b] \in V, g[a] \in V, g[b] \in V
    PROVE  Tally(g, S, V) = OneMore(OneMore(OneLess(OneLess(Tally(f, S, V), f[a]), f[b]), g[a]), g[b])
  <1> DEFINE R == S \ {b}
             Q == S \ {a, b}
  <1>1. IsFiniteSet(R) /\ b \notin R /\ R \cup {b} = S
    BY FS_Subset
  <1>2. IsFiniteSet(Q) /\ a \notin Q /\ Q \cup {a} = R
    BY FS_Subset
  <1>3. Tally(f, Q, V) = OneLess(OneLess(Tally(f, S, V), f[a]), f[b])
    BY TallyRemoveTwo
  <1>4. Tally(g, Q, V) = Tally(f, Q, V)
    BY TallySame
  <1> HIDE DEF Q, R
  <1>5. Tally(g, Q \cup {a}, V) = OneMore(Tally(g, Q, V), g[a])
    BY <1>2, TallyAdd
  <1>6. Tally(g, R \cup {b}, V) = OneMore(Tally(g, R, V), g[b])
    BY <1>1, TallyAdd
  <1> QED  BY <1>1, <1>2, <1>3, <1>4, <1>5, <1>6, Zenon

-----------------------------------------------------------------------------
(* The pieces of a graph. *)

\* No edge within S leaves D.
Closed(D, S, E) == D \subseteq S /\ \A e \in Inside(S, E) : e \cap D # {} => e \subseteq D

\* One round of the search.
Reach(X, S, E) == X \cup UNION {e \in Inside(S, E) : e \cap X # {}}

\* A round of the search adds to what it has, within the set searched.
LEMMA ReachStaysInside ==
    ASSUME NEW S, NEW E, NEW X \in SUBSET S
    PROVE  Reach(X, S, E) \in SUBSET S /\ X \subseteq Reach(X, S, E)
  BY DEF Reach, Inside

\* The component of a vertex, by what makes it so.
THEOREM ComponentIsLeast ==
    ASSUME NEW S, IsFiniteSet(S), NEW E, NEW v \in S
    PROVE  /\ v \in Component(v, S, E) /\ Closed(Component(v, S, E), S, E)
           /\ \A D : v \in D /\ Closed(D, S, E) => Component(v, S, E) \subseteq D
  <1> DEFINE N == Cardinality(S)
             F == [X \in SUBSET S |-> Reach(X, S, E)]
             h == [n \in 1 .. N |-> F]
             Search(f) == f = [k \in 0 .. N |->
                                 IF k = 0 THEN {v}
                                 ELSE f[k - 1] \cup UNION {e \in Inside(S, E) : e \cap f[k - 1] # {}}]
             found == CHOOSE f : Search(f)
  <1>0. N \in Nat
    BY FS_CardinalityType
  <1>1. F \in [SUBSET S -> SUBSET S] /\ \A X \in SUBSET S : X \subseteq F[X]
    BY ReachStaysInside
  <1>2. {v} \in SUBSET S /\ h \in [1 .. N -> [SUBSET S -> SUBSET S]]
    BY <1>1
  <1>3. \E f : Search(f)
    <2>1. PICK f \in [0 .. N -> SUBSET S] : IsIteration(f, N, {v}, h)
      <3> HIDE DEF N, h
      <3> QED  BY <1>0, <1>2, IterationExists
    <2>2. \A k \in 1 .. N : h[k][f[k - 1]] = Reach(f[k - 1], S, E)
      <3> TAKE k \in 1 .. N
      <3>1. k - 1 \in 0 .. N
        BY <1>0
      <3>2. f[k - 1] \in SUBSET S
        BY <2>1, <3>1
      <3> QED  BY <3>2
    <2>3. \A k \in 0 .. N : k # 0 => k \in 1 .. N
      BY <1>0
    <2> HIDE DEF h, N
    <2>4. Search(f)
      BY <2>1, <2>2, <2>3 DEF IsIteration, Reach
    <2> QED  BY <2>4
  <1>4. Component(v, S, E) = found[N]
    BY DEF Component
  <1>5. Search(found)
    <2> HIDE DEF Search
    <2> QED  BY <1>3
  <1> HIDE DEF found
  <1>6. found[0] = {v}
    BY <1>0, <1>5
  <1>7. \A k \in 1 .. N : found[k - 1] \in SUBSET S => found[k] = F[found[k - 1]]
    <2> TAKE k \in 1 .. N
    <2>1. k \in 0 .. N /\ k # 0
      BY <1>0
    <2>2. found[k] = Reach(found[k - 1], S, E)
      BY <1>5, <2>1 DEF Reach
    <2> QED  BY <2>2
  <1> DEFINE C == found[N]
  <1>8. /\ C \in SUBSET S /\ {v} \subseteq C /\ F[C] = C
        /\ \A D \in SUBSET S : {v} \subseteq D /\ (\A X \in SUBSET D : F[X] \subseteq D) => C \subseteq D
    <2>1. IsGrowth(F, S)
      BY <1>1 DEF IsGrowth
    <2>2. Repeats(found, {v}, F, Cardinality(S), SUBSET S)
      BY <1>6, <1>7 DEF Repeats
    <2>3. {v} \in SUBSET S
      BY <1>2
    <2> HIDE DEF F
    <2>4. IsLeastFixpoint(found[Cardinality(S)], {v}, F, S)
      BY <2>1, <2>2, <2>3, GrowthEnds
    <2> QED  BY <2>4 DEF IsLeastFixpoint
  <1> HIDE DEF C
  <1>9. Closed(C, S, E)
    BY <1>8 DEF Closed, Reach
  <1>10. ASSUME NEW D, v \in D, Closed(D, S, E)
         PROVE  C \subseteq D
    <2>1. D \in SUBSET S
      BY <1>10 DEF Closed
    <2>2. \A X \in SUBSET D : F[X] \subseteq D
      BY <1>10, <2>1 DEF Closed, Reach
    <2> QED  BY <1>8, <1>10, <2>1, <2>2
  <1> QED  BY <1>4, <1>8, <1>9, <1>10 DEF C

\* What is left of a closed set without a closed set is closed.
LEMMA ClosedWithout ==
    ASSUME NEW S, NEW E, NEW C, NEW D, Closed(C, S, E), Closed(D, S, E)
    PROVE  Closed(C \ D, S, E)
  BY DEF Closed

\* Every vertex of a component has the same component.
THEOREM SameComponent ==
    ASSUME NEW S, IsFiniteSet(S), NEW E, NEW v \in S, NEW u \in Component(v, S, E)
    PROVE  u \in S /\ Component(u, S, E) = Component(v, S, E)
  <1> DEFINE C == Component(v, S, E)
             B == Component(u, S, E)
  <1>1. v \in C /\ Closed(C, S, E) /\ \A D : v \in D /\ Closed(D, S, E) => C \subseteq D
    BY ComponentIsLeast
  <1>2. u \in C /\ u \in S
    BY <1>1 DEF Closed
  <1>3. u \in B /\ Closed(B, S, E) /\ \A D : u \in D /\ Closed(D, S, E) => B \subseteq D
    BY <1>2, ComponentIsLeast
  <1> HIDE DEF B, C
  <1>4. B \subseteq C
    BY <1>1, <1>2, <1>3
  <1>5. v \in B
    <2> SUFFICES ASSUME v \notin B
                 PROVE  FALSE
      OBVIOUS
    <2>1. Closed(C \ B, S, E)
      BY <1>1, <1>3, ClosedWithout
    <2>2. C \subseteq C \ B
      BY <1>1, <2>1
    <2> QED  BY <1>2, <1>3, <2>2
  <1>6. C \subseteq B
    BY <1>1, <1>3, <1>5
  <1> QED  BY <1>2, <1>4, <1>6 DEF B, C

\* A set is connected when its non-empty closed parts are all of it.
THEOREM ConnectedIsClosed ==
    ASSUME NEW S, IsFiniteSet(S), NEW E
    PROVE  Connected(S, E) <=> \A D : D # {} /\ Closed(D, S, E) => D = S
  <1>1. \A v \in S : /\ v \in Component(v, S, E) /\ Closed(Component(v, S, E), S, E)
                     /\ \A D : v \in D /\ Closed(D, S, E) => Component(v, S, E) \subseteq D
    BY ComponentIsLeast
  <1>2. IsFiniteSet(Components(S, E))
    <2>1. [v \in S |-> Component(v, S, E)] \in Surjection(S, Components(S, E))
      BY DEF Surjection, Components
    <2> QED  BY <2>1, FS_Surjection
  <1>3. ASSUME Connected(S, E), NEW D, D # {}, Closed(D, S, E)
        PROVE  D = S
    <2>1. PICK u \in D : TRUE
      BY <1>3
    <2>2. u \in S /\ D \subseteq S
      BY <1>3 DEF Closed
    <2>3. \A v \in S : Component(v, S, E) = Component(u, S, E)
      <3> TAKE v \in S
      <3> DEFINE Q == Components(S, E)
                 a == Component(v, S, E)
                 b == Component(u, S, E)
      <3>1. IsFiniteSet(Q) /\ Cardinality(Q) <= 1 /\ a \in Q /\ b \in Q
        BY <1>2, <1>3, <2>2 DEF Connected, Components
      <3> HIDE DEF Q, a, b
      <3>2. a = b
        <4>1. Cardinality(Q) \in Nat /\ Q # {}
          BY <3>1, FS_CardinalityType
        <4>2. Cardinality(Q) = 1
          BY <3>1, <4>1, FS_EmptySet
        <4> QED  BY <3>1, <4>2, FS_Singleton
      <3> QED  BY <3>2 DEF a, b
    <2>4. Component(u, S, E) \subseteq D
      BY <1>1, <1>3, <2>1, <2>2
    <2>5. \A v \in S : v \in D
      BY <1>1, <2>3, <2>4
    <2> QED  BY <2>2, <2>5
  <1>4. ASSUME \A D : D # {} /\ Closed(D, S, E) => D = S
        PROVE  Connected(S, E)
    <2>1. \A v \in S : Component(v, S, E) = S
      BY <1>1, <1>4
    <2>2. Components(S, E) \in SUBSET {S}
      BY <2>1 DEF Components
    <2>3. IsFiniteSet({S}) /\ Cardinality({S}) = 1
      BY FS_Singleton
    <2>4. Cardinality(Components(S, E)) <= 1
      BY <2>2, <2>3, FS_Subset
    <2> QED  BY <2>4 DEF Connected
  <1> QED  BY <1>3, <1>4

\* Two connected sets with an edge between them are connected.
THEOREM ConnectedUnion ==
    ASSUME NEW A, IsFiniteSet(A), NEW B, IsFiniteSet(B), NEW E, Connected(A, E), Connected(B, E),
           NEW a \in A, NEW b \in B, {a, b} \in E
    PROVE  Connected(A \cup B, E)
  <1> SUFFICES ASSUME NEW D, D # {}, Closed(D, A \cup B, E)
               PROVE  D = A \cup B
    <2>1. IsFiniteSet(A \cup B)
      BY FS_Union
    <2> QED  BY <2>1, ConnectedIsClosed
  <1>1. D \subseteq A \cup B /\ Closed(D \cap A, A, E) /\ Closed(D \cap B, B, E)
    BY DEF Closed, Inside
  <1>2. (D \cap A # {} => D \cap A = A) /\ (D \cap B # {} => D \cap B = B)
    BY <1>1, ConnectedIsClosed
  <1>3. a \in D <=> b \in D
    <2>1. {a, b} \in Inside(A \cup B, E)
      BY DEF Inside
    <2> QED  BY <2>1 DEF Closed
  <1> QED  BY <1>1, <1>2, <1>3

\* One vertex is connected.
THEOREM ConnectedSingle ==
    ASSUME NEW v, NEW E
    PROVE  Connected({v}, E)
  <1>1. IsFiniteSet({v})
    BY FS_Singleton
  <1>2. \A D : D # {} /\ Closed(D, {v}, E) => D = {v}
    BY DEF Closed
  <1> QED  BY <1>1, <1>2, ConnectedIsClosed

-----------------------------------------------------------------------------
(* Trees, cut and put together. *)

\* Edges have two ends.
Links(E) == \A e \in E : \E a, b : a # b /\ e = {a, b}

\* Edges that join all of S and are as few as can be.
IsTree(S, T) ==
    /\ IsFiniteSet(S) /\ S # {} /\ IsFiniteSet(T) /\ Links(T)
    /\ \A e \in T : e \subseteq S
    /\ Connected(S, T)
    /\ Cardinality(T) = Cardinality(S) - 1

\* The parts of a set without overlap add up.
LEMMA PartsAddUp ==
    ASSUME NEW A, NEW B, IsFiniteSet(A), IsFiniteSet(B), A \cap B = {}
    PROVE  /\ IsFiniteSet(A \cup B) /\ Cardinality(A) \in Nat /\ Cardinality(B) \in Nat
           /\ Cardinality(A \cup B) = Cardinality(A) + Cardinality(B)
  <1>1. Cardinality(A \cup B) = Cardinality(A) + Cardinality(B) - Cardinality(A \cap B)
    BY FS_Union
  <1>2. IsFiniteSet(A \cup B) /\ Cardinality(A) \in Nat /\ Cardinality(B) \in Nat /\ Cardinality({}) = 0
    BY FS_Union, FS_CardinalityType, FS_EmptySet
  <1>3. Cardinality(A \cap B) = 0
    BY <1>2
  <1> QED  BY <1>1, <1>2, <1>3

\* To join n vertices takes n - 1 edges.
THEOREM EdgesToConnect ==
    ASSUME NEW S, IsFiniteSet(S), S # {}, NEW E, IsFiniteSet(E), Links(E), Connected(S, E)
    PROVE  Cardinality(Inside(S, E)) >= Cardinality(S) - 1
  <1> DEFINE n(D) == Cardinality(D)
             Joined == {D \in SUBSET S : D # {} /\ n(Inside(D, E)) >= n(D) - 1}
             Sizes == {k \in Nat : \E D \in Joined : n(D) = n(S) - k}
  <1>1. \A D \in SUBSET S : IsFiniteSet(D) /\ n(D) \in Nat /\ n(D) <= n(S) /\ IsFiniteSet(Inside(D, E))
                            /\ n(Inside(D, E)) \in Nat
    <2> TAKE D \in SUBSET S
    <2>1. IsFiniteSet(D) /\ n(D) <= n(S)
      BY FS_Subset
    <2>2. Inside(D, E) \in SUBSET E
      BY DEF Inside
    <2>3. IsFiniteSet(Inside(D, E))
      BY <2>2, FS_Subset
    <2> QED  BY <2>1, <2>3, FS_CardinalityType
  <1>2. Sizes # {}
    <2>1. PICK v \in S : TRUE
      OBVIOUS
    <2>2. n({v}) = 1
      BY FS_Singleton
    <2>3. {v} \in Joined
      <3>1. {v} \in SUBSET S
        OBVIOUS
      <3> HIDE DEF n
      <3> QED  BY <1>1, <2>2, <3>1
    <2>4. n(S) - 1 \in Nat /\ n({v}) = n(S) - (n(S) - 1)
      <3>1. S \in SUBSET S /\ {v} \in SUBSET S
        OBVIOUS
      <3> HIDE DEF n
      <3> QED  BY <1>1, <2>2, <3>1
    <2> HIDE DEF n, Joined
    <2> QED  BY <2>3, <2>4
  <1>3. PICK m \in Sizes : \A k \in Sizes : m <= k
    BY <1>2, LeastElement
  <1>4. PICK D \in Joined : n(D) = n(S) - m
    BY <1>3
  <1>5. CASE D = S
    BY <1>4, <1>5
  <1>6. CASE D # S
    <2>1. D \in SUBSET S /\ D # {}
      BY <1>4
    <2>2. ~Closed(D, S, E)
      BY <1>6, <2>1, ConnectedIsClosed
    <2>3. PICK e \in Inside(S, E) : e \cap D # {} /\ ~(e \subseteq D)
      BY <2>1, <2>2 DEF Closed
    <2>4. PICK a, b : a # b /\ e = {a, b}
      BY DEF Links, Inside
    <2>5. PICK x \in S : x \notin D /\ e \subseteq D \cup {x} /\ x \in e
      BY <2>1, <2>3, <2>4 DEF Inside
    <2> DEFINE B == D \cup {x}
    <2>6. B \in SUBSET S /\ n(B) = n(D) + 1
      BY <1>1, <2>1, <2>5, FS_AddElement
    <2>7. Inside(D, E) \cup {e} \in SUBSET Inside(B, E) /\ e \notin Inside(D, E)
      BY <2>3, <2>5 DEF Inside
    <2>8. n(Inside(B, E)) >= n(Inside(D, E)) + 1
      <3>1. n(Inside(D, E) \cup {e}) = n(Inside(D, E)) + 1
        BY <1>1, <2>1, <2>7, FS_AddElement
      <3>2. n(Inside(D, E) \cup {e}) <= n(Inside(B, E))
        BY <1>1, <2>6, <2>7, FS_Subset
      <3> HIDE DEF n
      <3> QED  BY <1>1, <2>1, <2>6, <3>1, <3>2
    <2>9. B \in Joined
      <3>1. n(Inside(D, E)) >= n(D) - 1
        BY <1>4
      <3> HIDE DEF n
      <3>2. n(Inside(B, E)) >= n(B) - 1
        BY <1>1, <2>1, <2>6, <2>8, <3>1
      <3> QED  BY <2>6, <3>2
    <2>10. m - 1 \in Sizes
      <3>0. S \in SUBSET S
        OBVIOUS
      <3> HIDE DEF n, Joined, B
      <3>1. n(B) = n(S) - (m - 1) /\ m - 1 \in Nat
        BY <1>1, <1>4, <2>1, <2>6, <3>0
      <3> QED  BY <2>9, <3>1
    <2> QED  BY <1>3, <2>10
  <1> QED  BY <1>5, <1>6

\* What the search finds is connected.
LEMMA ComponentConnected ==
    ASSUME NEW S, IsFiniteSet(S), NEW E, NEW v \in S
    PROVE  Component(v, S, E) \subseteq S /\ Connected(Component(v, S, E), E)
  <1> DEFINE C == Component(v, S, E)
  <1>1. v \in C /\ Closed(C, S, E) /\ \A D : v \in D /\ Closed(D, S, E) => C \subseteq D
    BY ComponentIsLeast
  <1>2. IsFiniteSet(C) /\ C \subseteq S
    BY <1>1, FS_Subset DEF Closed
  <1> HIDE DEF C
  <1>3. ASSUME NEW D, D # {}, Closed(D, C, E)
        PROVE  D = C
    <2>1. Closed(D, S, E) /\ D \subseteq C
      BY <1>1, <1>3 DEF Closed, Inside
    <2>2. Closed(C \ D, S, E)
      BY <1>1, <2>1, ClosedWithout
    <2> QED  BY <1>1, <1>3, <2>1, <2>2
  <1>4. Connected(C, E)
    BY <1>2, <1>3, ConnectedIsClosed
  <1> QED  BY <1>2, <1>4 DEF C

\* Connected sets stay so when edges inside a set are exchanged, if what is in
\* that set stays connected.
THEOREM ConnectedExchange ==
    ASSUME NEW X, IsFiniteSet(X), NEW E, NEW F, NEW R, Connected(X, E), Connected(X \cap R, F),
           \A e \in E : e \subseteq R \/ e \in F
    PROVE  Connected(X, F)
  <1> SUFFICES ASSUME NEW D, D # {}, Closed(D, X, F)
               PROVE  D = X
    BY ConnectedIsClosed
  <1>1. IsFiniteSet(X \cap R)
    BY FS_Subset
  <1>2. Closed(D \cap R, X \cap R, F)
    BY DEF Closed, Inside
  <1>3. D \cap R # {} => D \cap R = X \cap R
    BY <1>1, <1>2, ConnectedIsClosed
  <1>4. Closed(D, X, E)
    <2> SUFFICES ASSUME NEW e \in Inside(X, E), e \cap D # {}
                 PROVE  e \subseteq D
      BY DEF Closed
    <2>1. CASE e \in F
      BY <2>1 DEF Closed, Inside
    <2>2. CASE e \subseteq R
      BY <1>3, <2>2 DEF Inside
    <2> QED  BY <2>1, <2>2 DEF Inside
  <1> QED  BY <1>4, ConnectedIsClosed

\* More edges connect no less.
LEMMA ConnectedMore ==
    ASSUME NEW S, IsFiniteSet(S), NEW E, NEW F, Connected(S, E), Inside(S, E) \subseteq F
    PROVE  Connected(S, F)
  <1> SUFFICES ASSUME NEW D, D # {}, Closed(D, S, F)
               PROVE  D = S
    BY ConnectedIsClosed
  <1>1. Closed(D, S, E)
    BY DEF Closed, Inside
  <1> QED  BY <1>1, ConnectedIsClosed

\* The two sides of an edge e of a tree, x and y its ends.
Sides(S, T, e, x, y, A, B) ==
    /\ e = {x, y} /\ x \in A /\ y \in B
    /\ A \cup B = S /\ A \cap B = {}
    /\ \A f \in T \ {e} : f \subseteq A \/ f \subseteq B

\* The side of x.
SideOf(S, T, x, y) == Component(x, S, T \ {{x, y}})

\* The edge joins a tree on A and a tree on B.
CutInTwo(S, T, x, y, A, B) ==
    /\ A = SideOf(S, T, x, y) /\ B = SideOf(S, T, y, x) /\ B = S \ A /\ A = S \ B
    /\ Sides(S, T, {x, y}, x, y, A, B)
    /\ IsTree(A, Inside(A, T)) /\ IsTree(B, Inside(B, T))
    /\ T \ {{x, y}} = Inside(A, T) \cup Inside(B, T)

\* Without one of its edges a tree is two trees, the component of either end
\* and the rest.
THEOREM TreeCut ==
    ASSUME NEW S, NEW T, IsTree(S, T), NEW x, NEW y, {x, y} \in T, x # y
    PROVE  CutInTwo(S, T, x, y, SideOf(S, T, x, y), SideOf(S, T, y, x))
  <1> DEFINE e == {x, y}
             U == T \ {e}
             A == SideOf(S, T, x, y)
             C == Component(y, S, U)
             B == S \ A
             n(D) == Cardinality(D)
  <1>0. /\ IsFiniteSet(S) /\ S # {} /\ IsFiniteSet(T) /\ Links(T) /\ Connected(S, T)
        /\ \A f \in T : f \subseteq S
        /\ n(T) = n(S) - 1
    BY DEF IsTree
  <1>1. x \in S /\ y \in S
    BY <1>0
  <1>2. /\ x \in A /\ Closed(A, S, U) /\ A \subseteq S /\ Connected(A, U)
        /\ y \in C /\ Closed(C, S, U) /\ C \subseteq S /\ Connected(C, U)
    <2>1. A = Component(x, S, U)
      BY DEF SideOf
    <2> HIDE DEF U
    <2> QED  BY <1>0, <1>1, <2>1, ComponentIsLeast, ComponentConnected
  <1>3. IsFiniteSet(U) /\ n(U) = n(S) - 2 /\ Links(U)
    <2>1. IsFiniteSet(U) /\ n(U) = n(T) - 1
      BY <1>0, FS_RemoveElement
    <2>2. n(S) \in Nat
      BY <1>0, FS_CardinalityType
    <2>3. Links(U)
      BY <1>0 DEF Links
    <2> HIDE DEF U, n
    <2> QED  BY <1>0, <2>1, <2>2, <2>3
  <1>4. ~Connected(S, U)
    <2>1. Inside(S, U) = U
      BY <1>0 DEF Inside
    <2>2. n(S) \in Nat
      BY <1>0, FS_CardinalityType
    <2>3. ~(n(U) >= n(S) - 1)
      BY <1>3, <2>2
    <2> HIDE DEF U, n
    <2> QED  BY <1>0, <1>3, <2>1, <2>3, EdgesToConnect DEF n
  <1> HIDE DEF A, C
  <1>5. y \notin A
    <2> SUFFICES ASSUME y \in A
                 PROVE  FALSE
      OBVIOUS
    <2>1. Closed(A, S, T)
      BY <1>2 DEF Closed, Inside
    <2>2. A = S
      BY <1>0, <1>2, <2>1, ConnectedIsClosed
    <2> QED  BY <1>2, <1>4, <2>2
  <1>6. A \cap C = {}
    <2> SUFFICES ASSUME NEW v, v \in A, v \in C
                 PROVE  FALSE
      OBVIOUS
    <2>1. A = Component(x, S, U)
      BY DEF SideOf, A
    <2> HIDE DEF U
    <2>2. Component(v, S, U) = A /\ Component(v, S, U) = C
      BY <1>0, <1>1, <2>1, SameComponent DEF C
    <2> QED  BY <1>2, <1>5, <2>2
  <1>7. A \cup C = S
    <2>1. Closed(A \cup C, S, T)
      BY <1>2 DEF Closed, Inside
    <2> QED  BY <1>0, <1>2, <2>1, ConnectedIsClosed
  <1>8. B = C
    BY <1>2, <1>6, <1>7
  <1>9. \A f \in U : f \subseteq A \/ f \subseteq B
    <2> TAKE f \in U
    <2>1. f \in Inside(S, U) /\ f # {} /\ f \subseteq S
      BY <1>0 DEF Inside, Links
    <2>2. f \cap A # {} \/ f \cap C # {}
      BY <1>7, <2>1
    <2>3. f \subseteq A \/ f \subseteq C
      BY <1>2, <2>1, <2>2 DEF Closed
    <2> QED  BY <1>8, <2>3
  <1>10. Inside(A, T) = Inside(A, U) /\ Inside(B, T) = Inside(B, U)
    BY <1>2, <1>5 DEF Inside
  <1>11. U = Inside(A, T) \cup Inside(B, T) /\ Inside(A, T) \cap Inside(B, T) = {}
    <2>1. \A f \in T : f # {}
      BY <1>0 DEF Links
    <2> QED  BY <1>2, <1>5, <1>9, <2>1 DEF Inside
  <1>12. /\ IsFiniteSet(A) /\ IsFiniteSet(B) /\ n(A) \in Nat /\ n(B) \in Nat /\ n(S) = n(A) + n(B)
    <2>1. IsFiniteSet(A) /\ IsFiniteSet(B)
      BY <1>0, <1>2, FS_Subset
    <2>2. S = A \cup B /\ A \cap B = {}
      BY <1>2
    <2> HIDE DEF B
    <2> QED  BY <2>1, <2>2, PartsAddUp
  <1> DEFINE P == Inside(A, T)
             Q == Inside(B, T)
  <1>13. IsFiniteSet(P) /\ IsFiniteSet(Q) /\ n(P) \in Nat /\ n(Q) \in Nat /\ n(U) = n(P) + n(Q)
    <2>1. P \in SUBSET T /\ Q \in SUBSET T /\ U = P \cup Q /\ P \cap Q = {}
      BY <1>11 DEF Inside
    <2>2. IsFiniteSet(P) /\ IsFiniteSet(Q)
      BY <1>0, <2>1, FS_Subset
    <2> HIDE DEF P, Q, U
    <2> QED  BY <2>1, <2>2, PartsAddUp
  <1>14. n(P) >= n(A) - 1 /\ n(Q) >= n(B) - 1
    <2> HIDE DEF U
    <2>1. n(Inside(A, U)) >= n(A) - 1
      BY <1>2, <1>3, <1>12, EdgesToConnect
    <2>2. n(Inside(B, U)) >= n(B) - 1
      BY <1>2, <1>3, <1>8, <1>12, EdgesToConnect
    <2> QED  BY <1>10, <2>1, <2>2
  <1>15. n(P) = n(A) - 1 /\ n(Q) = n(B) - 1
    <2> HIDE DEF n, P, Q, U, B
    <2> QED  BY <1>3, <1>12, <1>13, <1>14
  <1>16. Connected(A, P) /\ Connected(B, Q)
    <2>1. Connected(A, U) /\ Connected(B, U)
      BY <1>2, <1>8
    <2>2. Inside(A, U) \subseteq P /\ Inside(B, U) \subseteq Q
      BY <1>10
    <2> HIDE DEF P, Q, U, B
    <2> QED  BY <1>12, <2>1, <2>2, ConnectedMore
  <1>17. IsTree(A, P) /\ IsTree(B, Q)
    <2>1. A # {} /\ B # {} /\ (\A f \in P : f \subseteq A) /\ (\A f \in Q : f \subseteq B)
      BY <1>1, <1>2, <1>5 DEF Inside
    <2>2. Links(P) /\ Links(Q)
      BY <1>0 DEF Links, Inside
    <2> HIDE DEF P, Q, B
    <2> QED  BY <1>12, <1>13, <1>15, <1>16, <2>1, <2>2 DEF IsTree
  <1>18. Sides(S, T, e, x, y, A, B)
    BY <1>1, <1>2, <1>5, <1>9 DEF Sides
  <1>19. SideOf(S, T, y, x) = C
    <2>1. {y, x} = e
      OBVIOUS
    <2> QED  BY <2>1 DEF SideOf, C
  <1>20. CutInTwo(S, T, x, y, A, C)
    <2>1. C = S \ A /\ A = S \ C
      BY <1>2, <1>8
    <2>2. T \ {{x, y}} = Inside(A, T) \cup Inside(C, T)
      BY <1>8, <1>11
    <2>3. IsTree(A, Inside(A, T)) /\ IsTree(C, Inside(C, T)) /\ Sides(S, T, {x, y}, x, y, A, C)
      BY <1>8, <1>17, <1>18
    <2> QED  BY <1>19, <2>1, <2>2, <2>3 DEF CutInTwo, A
  <1> QED  BY <1>19, <1>20 DEF A

\* A part of the tree in one piece is cut in one piece on either side.
LEMMA SideOfPart ==
    ASSUME NEW S, NEW T, NEW e, NEW x, NEW y, NEW A, NEW B, Sides(S, T, e, x, y, A, B),
           NEW P \in SUBSET S, IsFiniteSet(P), Connected(P, T)
    PROVE  Connected(P \cap A, T \ {e})
  <1>1. IsFiniteSet(P \cap A)
    BY FS_Subset
  <1> SUFFICES ASSUME NEW D, D # {}, Closed(D, P \cap A, T \ {e})
               PROVE  D = P \cap A
    BY <1>1, ConnectedIsClosed
  <1>2. D \subseteq P \cap A
    BY DEF Closed
  <1>3. CASE x \notin D
    <2>1. Closed(D, P, T)
      BY <1>2, <1>3 DEF Closed, Inside, Sides
    <2> QED  BY <1>2, <2>1, ConnectedIsClosed
  <1>4. CASE x \in D
    <2> DEFINE G == D \cup (P \cap B)
    <2>1. Closed(G, P, T)
      <3> SUFFICES ASSUME NEW f \in Inside(P, T), f \cap G # {}
                   PROVE  f \subseteq G
        BY <1>2 DEF Closed
      <3>1. CASE f = e
        BY <1>4, <3>1 DEF Sides, Inside
      <3>2. CASE f # e
        BY <1>2, <3>2 DEF Sides, Inside, Closed
      <3> QED  BY <3>1, <3>2
    <2>2. G = P
      BY <1>4, <2>1, ConnectedIsClosed
    <2> QED  BY <1>2, <2>2 DEF Sides
  <1> QED  BY <1>3, <1>4

\* The least of a set of numbers.
LEMMA LeastIs ==
    ASSUME NEW S \in SUBSET Nat, S # {}
    PROVE  Min(S) \in S /\ \A x \in S : Min(S) <= x
  BY LeastElement DEF Min

\* Edges with two ends in a finite set.
LEMMA EdgesHaveEnds ==
    ASSUME NEW V, IsFiniteSet(V), NEW E, \A e \in E : e \subseteq V /\ Cardinality(e) = 2
    PROVE  IsFiniteSet(E) /\ \A e \in E : \E u, v \in V : u # v /\ e = {u, v}
  <1>1. IsFiniteSet(E)
    <2>1. IsFiniteSet(SUBSET V) /\ E \in SUBSET (SUBSET V)
      BY FS_SUBSET
    <2> QED  BY <2>1, FS_Subset
  <1>2. ASSUME NEW e \in E
        PROVE  \E u, v \in V : u # v /\ e = {u, v}
    <2>1. e \subseteq V /\ IsFiniteSet(e) /\ Cardinality(e) = 2
      BY FS_Subset
    <2>2. e # {}
      BY <2>1, FS_EmptySet
    <2>3. PICK u \in e : TRUE
      BY <2>2
    <2>4. IsFiniteSet(e \ {u}) /\ Cardinality(e \ {u}) = 1
      BY <2>1, FS_RemoveElement
    <2>5. PICK v : e \ {u} = {v}
      BY <2>4, FS_Singleton
    <2> QED  BY <2>1, <2>3, <2>5
  <1> QED  BY <1>1, <1>2

\* The smallest sets of edges that join S are its trees.
LEMMA FewestToConnect ==
    ASSUME NEW S, IsFiniteSet(S), S # {}, NEW E, IsFiniteSet(E), Links(E), NEW T
    PROVE  T \in kSubset(Cardinality(S) - 1, Inside(S, E)) /\ Connected(S, T) <=> T \in SUBSET E /\ IsTree(S, T)
  <1>1. ASSUME T \in kSubset(Cardinality(S) - 1, Inside(S, E)), Connected(S, T)
        PROVE  T \in SUBSET E /\ IsTree(S, T)
    <2>1. T \in SUBSET Inside(S, E) /\ Cardinality(T) = Cardinality(S) - 1 /\ Connected(S, T)
      BY <1>1 DEF kSubset
    <2>2. T \in SUBSET E /\ \A e \in T : e \subseteq S
      BY <2>1 DEF Inside
    <2>3. IsFiniteSet(T) /\ Links(T)
      BY <2>2, FS_Subset DEF Links
    <2> QED  BY <2>1, <2>2, <2>3 DEF IsTree
  <1>2. ASSUME T \in SUBSET E, IsTree(S, T)
        PROVE  T \in kSubset(Cardinality(S) - 1, Inside(S, E)) /\ Connected(S, T)
    BY <1>2 DEF kSubset, IsTree, Inside
  <1> QED  BY <1>1, <1>2

\* A tree that is in one piece within every county.
IsHierarchicalTree(county, S, T) ==
    IsTree(S, T) /\ \A v \in S : Connected(CountyPart(county, S, county[v]), T)

\* A hierarchical tree cut at one of its edges leaves a hierarchical tree on
\* either side.
THEOREM HierarchicalTreeCut ==
    ASSUME NEW county, NEW S, NEW T, IsHierarchicalTree(county, S, T), NEW x, NEW y, {x, y} \in T, x # y
    PROVE  /\ CutInTwo(S, T, x, y, SideOf(S, T, x, y), SideOf(S, T, y, x))
           /\ \A A \in {SideOf(S, T, x, y), SideOf(S, T, y, x)} :
                 A # {} /\ A \in SUBSET S /\ IsHierarchicalTree(county, A, Inside(A, T))
  <1> DEFINE A == SideOf(S, T, x, y)
             B == SideOf(S, T, y, x)
  <1>2. IsTree(S, T) /\ IsFiniteSet(S) /\ \A v \in S : Connected(CountyPart(county, S, county[v]), T)
    BY DEF IsHierarchicalTree, IsTree
  <1>3. CutInTwo(S, T, x, y, A, B)
    BY <1>2, TreeCut
  <1>30. Sides(S, T, {x, y}, x, y, A, B) /\ IsTree(A, Inside(A, T)) /\ IsTree(B, Inside(B, T))
    BY <1>3 DEF CutInTwo
  <1> HIDE DEF A, B
  <1>4. Sides(S, T, {x, y}, y, x, B, A) /\ A \subseteq S /\ B \subseteq S /\ A # {} /\ B # {}
    BY <1>30 DEF Sides
  <1>5. ASSUME NEW D \in SUBSET S, NEW a, NEW b, NEW D2, Sides(S, T, {x, y}, a, b, D, D2), NEW v \in D,
               IsTree(D, Inside(D, T))
        PROVE  Connected(CountyPart(county, D, county[v]), Inside(D, T))
    <2> DEFINE P == CountyPart(county, S, county[v])
    <2>1. P \in SUBSET S /\ Connected(P, T) /\ IsFiniteSet(P) /\ P \cap D = CountyPart(county, D, county[v])
      <3>1. P \in SUBSET S
        BY DEF CountyPart
      <3> QED  BY <1>2, <1>5, <3>1, FS_Subset DEF CountyPart
    <2> HIDE DEF P
    <2>2. Connected(P \cap D, T \ {{x, y}})
      BY <1>5, <2>1, SideOfPart
    <2>3. Inside(P \cap D, T \ {{x, y}}) \subseteq Inside(D, T)
      BY DEF Inside
    <2>4. IsFiniteSet(P \cap D)
      BY <2>1, FS_Subset
    <2>5. Connected(P \cap D, Inside(D, T))
      BY <2>2, <2>3, <2>4, ConnectedMore
    <2> QED  BY <2>1, <2>5
  <1>6. IsHierarchicalTree(county, A, Inside(A, T))
    <2>1. \A v \in A : Connected(CountyPart(county, A, county[v]), Inside(A, T))
      BY <1>30, <1>4, <1>5
    <2> QED  BY <1>30, <2>1 DEF IsHierarchicalTree
  <1>7. IsHierarchicalTree(county, B, Inside(B, T))
    <2>1. \A v \in B : Connected(CountyPart(county, B, county[v]), Inside(B, T))
      BY <1>30, <1>4, <1>5
    <2> QED  BY <1>30, <2>1 DEF IsHierarchicalTree
  <1> QED  BY <1>3, <1>4, <1>6, <1>7 DEF A, B

\* Nothing is connected.
LEMMA NothingConnected == \A E : Connected({}, E)
  <1> TAKE E
  <1>1. IsFiniteSet({})
    BY FS_EmptySet
  <1>2. \A D : D # {} /\ Closed(D, {}, E) => D = {}
    BY DEF Closed
  <1> QED  BY <1>1, <1>2, ConnectedIsClosed

\* K is what stays of the edges G on X when those that join S are taken away.
StaysAround(X, G, S, K) ==
    S \in SUBSET X /\ K \in SUBSET G /\ (\A e \in G \ K : e \subseteq S) /\ Connected(S, G \ K)

\* A tree on S takes the place of the edges of a larger tree that join S: the
\* whole is a tree again, and no edge that is kept lies in S.
THEOREM TreeExchange ==
    ASSUME NEW X, NEW G, IsTree(X, G), NEW S, NEW T, IsTree(S, T), NEW K, StaysAround(X, G, S, K)
    PROVE  IsTree(X, K \cup T) /\ \A e \in K : ~(e \subseteq S)
  <1> DEFINE M == G \ K
             H == K \cup T
             n(D) == Cardinality(D)
  <1> S \in SUBSET X /\ K \in SUBSET G /\ (\A e \in G \ K : e \subseteq S) /\ Connected(S, G \ K)
    BY DEF StaysAround
  <1>1. /\ IsFiniteSet(X) /\ X # {} /\ IsFiniteSet(G) /\ Links(G) /\ (\A e \in G : e \subseteq X)
        /\ Connected(X, G) /\ n(G) = n(X) - 1
    BY DEF IsTree
  <1>2. /\ IsFiniteSet(S) /\ S # {} /\ IsFiniteSet(T) /\ Links(T) /\ (\A e \in T : e \subseteq S)
        /\ Connected(S, T) /\ n(T) = n(S) - 1
    BY DEF IsTree
  <1>3. IsFiniteSet(M) /\ IsFiniteSet(K) /\ Links(M)
    BY <1>1, FS_Subset DEF Links
  <1>4. n(G) = n(K) + n(M) /\ n(K) \in Nat /\ n(M) \in Nat
    <2>1. K \cup M = G /\ K \cap M = {}
      OBVIOUS
    <2> HIDE DEF M, n
    <2> QED  BY <1>3, <2>1, PartsAddUp DEF n
  <1>5. n(X) \in Nat /\ n(S) \in Nat /\ n(T) \in Nat
    BY <1>1, <1>2, FS_CardinalityType
  <1>6. n(M) >= n(S) - 1
    <2>1. Inside(S, M) = M
      BY DEF Inside
    <2>2. Connected(S, M)
      OBVIOUS
    <2> HIDE DEF M
    <2> QED  BY <1>2, <1>3, <2>1, <2>2, EdgesToConnect
  <1>7. Connected(X, H)
    <2>1. X \cap S = S
      OBVIOUS
    <2>2. Connected(S, H)
      <3>1. Inside(S, T) \subseteq H
        BY DEF Inside
      <3> HIDE DEF H
      <3> QED  BY <1>2, <3>1, ConnectedMore
    <2>3. \A e \in G : e \subseteq S \/ e \in H
      OBVIOUS
    <2> HIDE DEF H
    <2> QED  BY <1>1, <2>1, <2>2, <2>3, ConnectedExchange
  <1>8. IsFiniteSet(H) /\ Links(H) /\ \A e \in H : e \subseteq X
    <2>1. IsFiniteSet(H)
      BY <1>2, <1>3, FS_Union
    <2> QED  BY <1>1, <1>2, <2>1 DEF Links
  <1>9. n(H) <= n(K) + n(T)
    <2>1. n(H) = n(K) + n(T) - n(K \cap T)
      BY <1>2, <1>3, FS_Union
    <2>2. n(K \cap T) \in Nat
      BY <1>3, FS_Subset, FS_CardinalityType
    <2> HIDE DEF n
    <2> QED  BY <1>4, <1>5, <2>1, <2>2
  <1>10. n(H) >= n(X) - 1
    <2>1. Inside(X, H) = H
      BY <1>8 DEF Inside
    <2> HIDE DEF H
    <2> QED  BY <1>1, <1>7, <1>8, <2>1, EdgesToConnect
  <1>11. n(H) = n(X) - 1
    <2>1. n(H) \in Nat
      BY <1>8, FS_CardinalityType
    <2> HIDE DEF n, H, M
    <2> QED  BY <1>1, <1>2, <1>4, <1>5, <1>6, <1>9, <1>10, <2>1
  <1>12. IsTree(X, H)
    BY <1>1, <1>7, <1>8, <1>11 DEF IsTree
  <1>13. ASSUME NEW g \in K, g \subseteq S
         PROVE  FALSE
    <2> DEFINE F == G \ {g}
    <2>1. Connected(S, F)
      <3>1. Inside(S, M) \subseteq F
        BY <1>13 DEF Inside
      <3> HIDE DEF M, F
      <3>2. Connected(S, M)
        BY DEF M
      <3> QED  BY <1>2, <3>1, <3>2, ConnectedMore
    <2>2. X \cap S = S /\ \A e \in G : e \subseteq S \/ e \in F
      BY <1>13
    <2>3. Connected(X, F)
      <3> HIDE DEF F
      <3> QED  BY <1>1, <2>1, <2>2, ConnectedExchange
    <2>4. IsFiniteSet(F) /\ n(F) = n(G) - 1
      BY <1>1, <1>13, FS_RemoveElement
    <2>5. Links(F) /\ Inside(X, F) = F
      BY <1>1 DEF Links, Inside
    <2>6. n(F) >= n(X) - 1
      <3> HIDE DEF F
      <3> QED  BY <1>1, <2>3, <2>4, <2>5, EdgesToConnect
    <2> HIDE DEF n, F
    <2> QED  BY <1>1, <1>5, <2>4, <2>6
  <1> QED  BY <1>12, <1>13

\* The same for hierarchical trees.
THEOREM HierarchicalTreeExchange ==
    ASSUME NEW county, NEW X, NEW G, IsHierarchicalTree(county, X, G),
           NEW S, NEW T, IsHierarchicalTree(county, S, T), NEW K, StaysAround(X, G, S, K)
    PROVE  IsHierarchicalTree(county, X, K \cup T) /\ \A e \in K : ~(e \subseteq S)
  <1> DEFINE H == K \cup T
  <1> S \in SUBSET X /\ K \in SUBSET G /\ \A e \in G \ K : e \subseteq S
    BY DEF StaysAround
  <1>2. IsTree(X, G) /\ IsFiniteSet(X) /\ \A v \in X : Connected(CountyPart(county, X, county[v]), G)
    BY DEF IsHierarchicalTree, IsTree
  <1>3. IsTree(S, T) /\ \A v \in S : Connected(CountyPart(county, S, county[v]), T)
    BY DEF IsHierarchicalTree
  <1>4. IsTree(X, H) /\ \A e \in K : ~(e \subseteq S)
    BY <1>2, <1>3, TreeExchange
  <1>5. ASSUME NEW v \in X
        PROVE  Connected(CountyPart(county, X, county[v]), H)
    <2> DEFINE P == CountyPart(county, X, county[v])
               Q == CountyPart(county, S, county[v])
    <2>1. P \cap S = Q /\ IsFiniteSet(P) /\ IsFiniteSet(Q)
      <3>1. P \cap S = Q /\ P \in SUBSET X /\ Q \in SUBSET X
        BY DEF CountyPart
      <3> HIDE DEF P, Q
      <3> QED  BY <1>2, <3>1, FS_Subset
    <2>2. Connected(Q, T)
      <3>1. CASE Q = {}
        BY <3>1, NothingConnected
      <3>2. CASE Q # {}
        <4>1. PICK u \in S : county[u] = county[v]
          BY <3>2 DEF CountyPart
        <4> QED  BY <1>3, <4>1
      <3> QED  BY <3>1, <3>2
    <2>3. Connected(Q, H)
      <3>1. Inside(Q, T) \subseteq H
        BY DEF Inside
      <3> HIDE DEF H, Q
      <3> QED  BY <2>1, <2>2, <3>1, ConnectedMore
    <2>4. \A e \in G : e \subseteq S \/ e \in H
      OBVIOUS
    <2>5. Connected(P, G) /\ IsFiniteSet(P)
      BY <1>2, <2>1
    <2> HIDE DEF H, P, Q
    <2>6. Connected(P \cap S, H)
      BY <2>1, <2>3
    <2>7. Connected(P, H)
      BY <2>4, <2>5, <2>6, ConnectedExchange
    <2> QED  BY <2>7 DEF P
  <1> QED  BY <1>4, <1>5 DEF IsHierarchicalTree

----------------------------------------------------------------------------
(***************************************************************************)
(* The vertices of a tree that carry two labels, such as a county and a    *)
(* region, each label in one piece along the tree: how many pieces they    *)
(* make together.                                                          *)
(***************************************************************************)


\* Induction over a connected set: what holds of every single vertex, and
\* still holds when an edge leads to one more, holds of the set.
THEOREM GrowConnected ==
    ASSUME NEW S, IsFiniteSet(S), S # {}, NEW E, Links(E), Connected(S, E), NEW G \in SUBSET (SUBSET S),
           \A v \in S : {v} \in G,
           \A D \in G : \A u \in D : \A v \in S \ D : {u, v} \in E => D \cup {v} \in G
    PROVE  S \in G
  <1> DEFINE n(D) == Cardinality(D)
             Lacking == {k \in Nat : \E D \in G : D # {} /\ n(D) = n(S) - k}
  <1>1. \A D \in SUBSET S : IsFiniteSet(D) /\ n(D) \in Nat /\ n(D) <= n(S)
    <2> TAKE D \in SUBSET S
    <2>1. IsFiniteSet(D) /\ n(D) <= n(S)
      BY FS_Subset
    <2> QED  BY <2>1, FS_CardinalityType
  <1>2. Lacking # {}
    <2>1. PICK v \in S : {v} \in G
      OBVIOUS
    <2>2. n({v}) \in Nat /\ n(S) \in Nat /\ n({v}) <= n(S)
      BY <1>1
    <2>3. n(S) - n({v}) \in Nat /\ n({v}) = n(S) - (n(S) - n({v}))
      BY <2>2
    <2> HIDE DEF n
    <2> QED  BY <2>1, <2>3
  <1>3. PICK m \in Lacking : \A k \in Lacking : m <= k
    BY <1>2, LeastElement
  <1>4. PICK D \in G : D # {} /\ n(D) = n(S) - m
    BY <1>3
  <1>5. CASE D = S
    BY <1>4, <1>5
  <1>6. CASE D # S
    <2>1. D \in SUBSET S /\ D # {}
      BY <1>4
    <2>2. ~Closed(D, S, E)
      BY <1>6, <2>1, ConnectedIsClosed
    <2>3. PICK e \in Inside(S, E) : e \cap D # {} /\ ~(e \subseteq D)
      BY <2>1, <2>2 DEF Closed
    <2>4. PICK a, b : a # b /\ e = {a, b}
      BY DEF Links, Inside
    <2>5. PICK u \in D, v \in S \ D : {u, v} \in E
      <3>1. (a \in D /\ b \in S \ D) \/ (b \in D /\ a \in S \ D)
        BY <2>1, <2>3, <2>4 DEF Inside
      <3>2. {a, b} \in E /\ {b, a} = {a, b}
        BY <2>4 DEF Inside
      <3> QED  BY <3>1, <3>2
    <2> DEFINE B == D \cup {v}
    <2>6. B \in G
      BY <2>5
    <2>7. n(B) = n(D) + 1
      BY <1>1, <2>1, <2>5, FS_AddElement
    <2>8. m - 1 \in Lacking
      <3>0. S \in SUBSET S /\ B \in SUBSET S /\ B # {}
        BY <2>1, <2>5
      <3> HIDE DEF n, B
      <3>1. n(B) = n(S) - (m - 1) /\ m - 1 \in Nat
        BY <1>1, <1>4, <2>1, <2>7, <3>0
      <3> QED  BY <2>6, <3>0, <3>1
    <2> QED  BY <1>3, <2>8
  <1> QED  BY <1>5, <1>6

\* A part in one piece that holds only one end of an edge of the tree lies on
\* the side of that end.
LEMMA PartOnOneSide ==
    ASSUME NEW S, NEW T, NEW e, NEW x, NEW y, NEW A, NEW B, Sides(S, T, e, x, y, A, B),
           NEW P \in SUBSET S, IsFiniteSet(P), Connected(P, T), x \in P, y \notin P
    PROVE  P \subseteq A
  <1>1. Closed(P \cap A, P, T)
    <2> SUFFICES ASSUME NEW f \in Inside(P, T), f \cap (P \cap A) # {}
                 PROVE  f \subseteq P \cap A
      BY DEF Closed
    <2>1. f # e /\ f \in T /\ f \subseteq P
      BY DEF Inside, Sides
    <2>2. f \subseteq A \/ f \subseteq B
      BY <2>1 DEF Sides
    <2> QED  BY <2>1, <2>2 DEF Sides
  <1>2. P \cap A # {}
    BY DEF Sides
  <1> QED  BY <1>1, <1>2, ConnectedIsClosed

\* Two parts of a tree in one piece each, joined by an edge that neither
\* holds, do not meet.
LEMMA JoinedPartsAreApart ==
    ASSUME NEW V, NEW T, IsTree(V, T), NEW x, NEW y, {x, y} \in T, x # y,
           NEW P \in SUBSET V, Connected(P, T), x \in P, y \notin P,
           NEW Q \in SUBSET V, Connected(Q, T), y \in Q, x \notin Q
    PROVE  P \cap Q = {}
  <1> DEFINE A == SideOf(V, T, x, y)
             B == SideOf(V, T, y, x)
  <1>1. Sides(V, T, {x, y}, x, y, A, B)
    BY TreeCut DEF CutInTwo
  <1>2. IsFiniteSet(P) /\ IsFiniteSet(Q)
    BY FS_Subset DEF IsTree
  <1> HIDE DEF A, B
  <1>3. P \subseteq A
    BY <1>1, <1>2, PartOnOneSide
  <1>4. Sides(V, T, {x, y}, y, x, B, A)
    BY <1>1 DEF Sides
  <1>5. Q \subseteq B
    BY <1>2, <1>4, PartOnOneSide
  <1> QED  BY <1>1, <1>3, <1>5 DEF Sides

\* The labels that D has, and the pairs of labels.
LabelsOf(k, D) == {k[v] : v \in D}
LabelPairs(k, l, D) == {<<k[v], l[v]>> : v \in D}

\* The vertices with each label are in one piece.
InPieces(k, V, T) == \A v \in V : Connected({w \in V : k[w] = k[v]}, T)

\* One more vertex of a tree, with a label of its neighbour: if the pair of its
\* labels is new so is its other label.
LEMMA NewPairNewLabel ==
    ASSUME NEW V, NEW T, IsTree(V, T), NEW k, NEW l, InPieces(l, V, T),
           NEW D \in SUBSET V, Connected(D, T), NEW u \in D, NEW v \in V \ D, {u, v} \in T, k[u] = k[v]
    PROVE  /\ LabelsOf(k, D \cup {v}) = LabelsOf(k, D)
           /\ l[v] \in LabelsOf(l, D) => LabelPairs(k, l, D \cup {v}) = LabelPairs(k, l, D)
  <1>1. LabelsOf(k, D \cup {v}) = LabelsOf(k, D)
    BY DEF LabelsOf
  <1>2. ASSUME l[v] \in LabelsOf(l, D)
        PROVE  l[u] = l[v]
    <2> SUFFICES ASSUME l[u] # l[v]
                 PROVE  FALSE
      OBVIOUS
    <2> DEFINE Q == {w \in V : l[w] = l[v]}
    <2>1. Connected(Q, T) /\ Q \in SUBSET V /\ v \in Q /\ u \notin Q
      BY DEF InPieces
    <2>2. PICK w \in D : l[w] = l[v]
      BY <1>2 DEF LabelsOf
    <2>3. w \in D \cap Q
      BY <2>2
    <2> HIDE DEF Q
    <2>4. D \cap Q = {}
      BY <2>1, JoinedPartsAreApart
    <2> QED  BY <2>3, <2>4
  <1>3. ASSUME l[u] = l[v]
        PROVE  LabelPairs(k, l, D \cup {v}) = LabelPairs(k, l, D)
    BY <1>3 DEF LabelPairs
  <1> QED  BY <1>1, <1>2, <1>3

\* The pairs the other way round.
LEMMA SwappedPairs ==
    ASSUME NEW k, NEW l, NEW X
    PROVE  LabelPairs(k, l, X) = {<<q[2], q[1]>> : q \in LabelPairs(l, k, X)}
  <1>1. \A v \in X : <<l[v], k[v]>> \in LabelPairs(l, k, X)
    BY DEF LabelPairs
  <1>2. \A v \in X : <<k[v], l[v]>> = <<(<<l[v], k[v]>>)[2], (<<l[v], k[v]>>)[1]>>
    OBVIOUS
  <1>3. LabelPairs(k, l, X) \subseteq {<<q[2], q[1]>> : q \in LabelPairs(l, k, X)}
    <2> SUFFICES ASSUME NEW v \in X
                 PROVE  <<k[v], l[v]>> \in {<<q[2], q[1]>> : q \in LabelPairs(l, k, X)}
      BY DEF LabelPairs
    <2> QED  BY <1>1, <1>2
  <1>4. \A q \in LabelPairs(l, k, X) : <<q[2], q[1]>> \in LabelPairs(k, l, X)
    BY DEF LabelPairs
  <1> QED  BY <1>3, <1>4

\* A set of labels of finitely many vertices is finite, and grows by one
\* label at most.
LEMMA LabelsGrow ==
    ASSUME NEW D, IsFiniteSet(D), NEW k, NEW l, NEW v
    PROVE  /\ IsFiniteSet(LabelsOf(k, D)) /\ IsFiniteSet(LabelPairs(k, l, D))
           /\ Cardinality(LabelsOf(k, D)) \in Nat /\ Cardinality(LabelPairs(k, l, D)) \in Nat
           /\ k[v] \notin LabelsOf(k, D) =>
                 Cardinality(LabelsOf(k, D \cup {v})) = Cardinality(LabelsOf(k, D)) + 1
           /\ Cardinality(LabelPairs(k, l, D \cup {v})) <= Cardinality(LabelPairs(k, l, D)) + 1
  <1> DEFINE L == LabelsOf(k, D)
             P == LabelPairs(k, l, D)
  <1>1. IsFiniteSet(L)
    <2>1. [w \in D |-> k[w]] \in Surjection(D, L)
      BY DEF Surjection, LabelsOf
    <2> QED  BY <2>1, FS_Surjection
  <1>2. IsFiniteSet(P)
    <2>1. [w \in D |-> <<k[w], l[w]>>] \in Surjection(D, P)
      BY DEF Surjection, LabelPairs
    <2> QED  BY <2>1, FS_Surjection
  <1>3. LabelsOf(k, D \cup {v}) = L \cup {k[v]}
    BY DEF LabelsOf
  <1>4. LabelPairs(k, l, D \cup {v}) = P \cup {<<k[v], l[v]>>}
    BY DEF LabelPairs
  <1> HIDE DEF L, P
  <1>5. Cardinality(L) \in Nat /\ Cardinality(P) \in Nat
    BY <1>1, <1>2, FS_CardinalityType
  <1>6. k[v] \notin L => Cardinality(L \cup {k[v]}) = Cardinality(L) + 1
    BY <1>1, FS_AddElement
  <1>7. Cardinality(P \cup {<<k[v], l[v]>>}) <= Cardinality(P) + 1
    <2> DEFINE x == <<k[v], l[v]>>
    <2> HIDE DEF x
    <2>1. x \in P => P \cup {x} = P
      OBVIOUS
    <2>2. x \notin P => Cardinality(P \cup {x}) = Cardinality(P) + 1
      BY <1>2, FS_AddElement
    <2>3. Cardinality(P \cup {x}) <= Cardinality(P) + 1
      BY <1>5, <2>1, <2>2
    <2> QED  BY <2>3 DEF x
  <1> QED  BY <1>1, <1>2, <1>3, <1>4, <1>5, <1>6, <1>7 DEF L, P

\* The classes that two labels make of a tree are as good as a tree on the
\* labels: along edges that keep one label or the other, there are fewer pairs
\* of labels than labels.
LEMMA FewerPairsThanLabels ==
    ASSUME NEW V, NEW T, IsTree(V, T), NEW k, NEW l, InPieces(k, V, T), InPieces(l, V, T),
           NEW S \in SUBSET V, S # {}, NEW E \in SUBSET T, Connected(S, E),
           \A u, v \in S : {u, v} \in E => k[u] = k[v] \/ l[u] = l[v]
    PROVE  Cardinality(LabelPairs(k, l, S)) < Cardinality(LabelsOf(k, S)) + Cardinality(LabelsOf(l, S))
  <1> DEFINE few(D) == Cardinality(LabelPairs(k, l, D)) < Cardinality(LabelsOf(k, D)) + Cardinality(LabelsOf(l, D))
             G == {D \in SUBSET S : D # {} /\ Connected(D, T) /\ few(D)}
  <1>1. IsFiniteSet(S) /\ \A D \in SUBSET S : IsFiniteSet(D)
    BY FS_Subset DEF IsTree
  <1>2. Links(E)
    BY DEF Links, IsTree
  <1>3. ASSUME NEW v \in S
        PROVE  {v} \in G
    <2>1. /\ LabelsOf(k, {v}) = {k[v]} /\ LabelsOf(l, {v}) = {l[v]}
          /\ LabelPairs(k, l, {v}) = {<<k[v], l[v]>>}
      BY DEF LabelsOf, LabelPairs
    <2>2. /\ Cardinality(LabelsOf(k, {v})) = 1 /\ Cardinality(LabelsOf(l, {v})) = 1
          /\ Cardinality(LabelPairs(k, l, {v})) = 1
      BY <2>1, FS_Singleton
    <2>3. Connected({v}, T)
      BY ConnectedSingle
    <2> QED  BY <2>2, <2>3
  <1>4. ASSUME NEW D \in G, NEW u \in D, NEW v \in S \ D, {u, v} \in E
        PROVE  D \cup {v} \in G
    <2> DEFINE B == D \cup {v}
    <2>1. D \in SUBSET V /\ D \in SUBSET S /\ D # {} /\ Connected(D, T) /\ few(D) /\ IsFiniteSet(D) /\ {u, v} \in T
      BY <1>1, <1>4
    <2>5. v \in V \ D
      OBVIOUS
    <2>2. Connected(B, T)
      <3>1. IsFiniteSet({v}) /\ Connected({v}, T) /\ v \in {v}
        BY FS_Singleton, ConnectedSingle
      <3> QED  BY <2>1, <3>1, ConnectedUnion
    <2>3. few(B)
      <3> DEFINE p(C) == Cardinality(LabelPairs(k, l, C))
                 a(C) == Cardinality(LabelsOf(k, C))
                 b(C) == Cardinality(LabelsOf(l, C))
      <3>1. /\ p(D) \in Nat /\ a(D) \in Nat /\ b(D) \in Nat /\ p(D) < a(D) + b(D)
            /\ p(B) <= p(D) + 1
            /\ k[v] \notin LabelsOf(k, D) => a(B) = a(D) + 1
            /\ l[v] \notin LabelsOf(l, D) => b(B) = b(D) + 1
        BY <2>1, LabelsGrow
      <3>10. p(B) \in Nat
        <4>1. IsFiniteSet(B)
          BY <2>1, FS_AddElement
        <4> HIDE DEF B
        <4> QED  BY <4>1, LabelsGrow
      <3>2. k[v] \in LabelsOf(k, D) => LabelsOf(k, B) = LabelsOf(k, D)
        BY DEF LabelsOf
      <3>3. l[v] \in LabelsOf(l, D) => LabelsOf(l, B) = LabelsOf(l, D)
        BY DEF LabelsOf
      <3>4. CASE k[u] = k[v]
        <4> HIDE DEF few, G
        <4>1. /\ LabelsOf(k, B) = LabelsOf(k, D)
              /\ l[v] \in LabelsOf(l, D) => LabelPairs(k, l, B) = LabelPairs(k, l, D)
          BY <2>1, <2>5, <3>4, NewPairNewLabel
        <4>2. a(B) = a(D) /\ (l[v] \in LabelsOf(l, D) => p(B) = p(D) /\ b(B) = b(D))
          BY <3>3, <4>1
        <4> HIDE DEF p, a, b, B
        <4>3. p(B) < a(B) + b(B)
          BY <3>1, <3>10, <4>2
        <4> QED  BY <4>3 DEF p, a, b, few
      <3>5. CASE l[u] = l[v]
        <4> HIDE DEF few, G
        <4>1. /\ LabelsOf(l, B) = LabelsOf(l, D)
              /\ k[v] \in LabelsOf(k, D) => LabelPairs(l, k, B) = LabelPairs(l, k, D)
          BY <2>1, <2>5, <3>5, NewPairNewLabel
        <4>2. k[v] \in LabelsOf(k, D) => LabelPairs(k, l, B) = LabelPairs(k, l, D)
          <5> HIDE DEF B, p, a, b
          <5>2. LabelPairs(k, l, B) = {<<q[2], q[1]>> : q \in LabelPairs(l, k, B)}
            BY SwappedPairs
          <5>3. LabelPairs(k, l, D) = {<<q[2], q[1]>> : q \in LabelPairs(l, k, D)}
            BY SwappedPairs
          <5> QED  BY <4>1, <5>2, <5>3
        <4>3. b(B) = b(D) /\ (k[v] \in LabelsOf(k, D) => p(B) = p(D) /\ a(B) = a(D))
          BY <3>2, <4>1, <4>2
        <4> HIDE DEF p, a, b, B
        <4>4. p(B) < a(B) + b(B)
          BY <3>1, <3>10, <4>3
        <4> QED  BY <4>4 DEF p, a, b, few
      <3>6. k[u] = k[v] \/ l[u] = l[v]
        BY <1>4, <2>1
      <3> QED  BY <3>4, <3>5, <3>6
    <2>4. B \in SUBSET S /\ B # {}
      BY <2>1
    <2> QED  BY <2>2, <2>3, <2>4
  <1>5. S \in G
    <2>1. G \in SUBSET (SUBSET S)
      OBVIOUS
    <2> HIDE DEF G
    <2> QED  BY <1>1, <1>2, <1>3, <1>4, <2>1, GrowConnected
  <1> QED  BY <1>5

\* The edges whose ends have one label.
Keeping(k, E) == {e \in E : \A u, v \in e : k[u] = k[v]}

\* A tree along which the vertices with each of two labels, and with each pair
\* of them, are in one piece.
TwoLabels(V, T, E, k, l) ==
    /\ IsTree(V, T) /\ T \subseteq E /\ \A e \in E : e \subseteq V
    /\ InPieces(k, V, T) /\ InPieces(l, V, T)
    /\ \A v \in V : Connected({w \in V : k[w] = k[v] /\ l[w] = l[v]}, T)

\* A set that no edge with one label leaves has every vertex of a label or none.
LEMMA LabelsStayTogether ==
    ASSUME NEW V, IsFiniteSet(V), NEW T, NEW E, T \subseteq E, NEW k, InPieces(k, V, T),
           NEW H, Keeping(k, E) \subseteq H, NEW D, Closed(D, V, H), NEW a \in D, NEW b \in V, k[a] = k[b]
    PROVE  b \in D
  <1> DEFINE Q == {w \in V : k[w] = k[a]}
  <1>1. a \in V /\ D \subseteq V
    BY DEF Closed
  <1>2. Connected(Q, T) /\ Q \subseteq V /\ a \in Q /\ b \in Q /\ \A u, v \in Q : k[u] = k[v]
    BY <1>1 DEF InPieces
  <1>3. IsFiniteSet(Q)
    BY <1>2, FS_Subset
  <1> HIDE DEF Q
  <1>4. Closed(D \cap Q, Q, T)
    <2> SUFFICES ASSUME NEW f \in Inside(Q, T), f \cap (D \cap Q) # {}
                 PROVE  f \subseteq D \cap Q
      BY DEF Closed
    <2>1. f \in T /\ f \subseteq Q
      BY DEF Inside
    <2>2. f \in Inside(V, H)
      BY <1>2, <2>1 DEF Inside, Keeping
    <2> QED  BY <2>1, <2>2 DEF Closed
  <1>5. D \cap Q = Q
    BY <1>2, <1>3, <1>4, ConnectedIsClosed
  <1> QED  BY <1>2, <1>5

\* What is connected along edges that keep one label or the other is so along
\* those of the tree.
LEMMA ConnectedAlongTree ==
    ASSUME NEW V, NEW T, NEW E, NEW k, NEW l, TwoLabels(V, T, E, k, l),
           NEW S, Closed(S, V, Keeping(k, E) \cup Keeping(l, E)), Connected(S, Keeping(k, E) \cup Keeping(l, E))
    PROVE  Connected(S, Keeping(k, T) \cup Keeping(l, T))
  <1> DEFINE H == Keeping(k, E) \cup Keeping(l, E)
             U == Keeping(k, T) \cup Keeping(l, T)
  <1>1. IsFiniteSet(V) /\ S \subseteq V /\ T \subseteq E
    BY DEF TwoLabels, IsTree, Closed
  <1>2. IsFiniteSet(S)
    BY <1>1, FS_Subset
  <1> SUFFICES ASSUME NEW D, D # {}, Closed(D, S, U)
               PROVE  D = S
    BY <1>2, ConnectedIsClosed
  <1>3. D \subseteq S
    BY DEF Closed
  <1>4. Closed(D, V, U)
    <2> SUFFICES ASSUME NEW f \in Inside(V, U), f \cap D # {}
                 PROVE  f \subseteq D
      BY <1>1, <1>3 DEF Closed
    <2>1. f \in Inside(V, H)
      BY <1>1 DEF Inside, Keeping
    <2>2. f \subseteq S
      BY <1>3, <2>1 DEF Closed
    <2> QED  BY <2>2 DEF Inside, Closed
  <1>5. Closed(D, S, H)
    <2> SUFFICES ASSUME NEW f \in Inside(S, H), NEW a \in f, a \in D, NEW b \in f
                 PROVE  b \in D
      BY <1>3 DEF Closed
    <2>1. k[a] = k[b] \/ l[a] = l[b]
      BY DEF Inside, Keeping
    <2>2. b \in V /\ Keeping(k, T) \subseteq U /\ Keeping(l, T) \subseteq U /\ T \subseteq T
      BY <1>1 DEF Inside
    <2>3. InPieces(k, V, T) /\ InPieces(l, V, T)
      BY DEF TwoLabels
    <2> HIDE DEF U, H
    <2>4. k[a] = k[b] => b \in D
      BY <1>1, <1>4, <2>2, <2>3, LabelsStayTogether
    <2>5. l[a] = l[b] => b \in D
      BY <1>1, <1>4, <2>2, <2>3, LabelsStayTogether
    <2> QED  BY <2>1, <2>4, <2>5
  <1> QED  BY <1>2, <1>5, ConnectedIsClosed

\* Vertices with both labels the same are in one piece along the edges that
\* keep both.
LEMMA FewPieces ==
    ASSUME NEW V, NEW T, NEW E, NEW k, NEW l, TwoLabels(V, T, E, k, l),
           NEW S, Closed(S, V, Keeping(k, E) \cup Keeping(l, E))
    PROVE  Cardinality(Components(S, Keeping(k, E) \cap Keeping(l, E))) <= Cardinality(LabelPairs(k, l, S))
  <1> DEFINE H == Keeping(k, E) \cap Keeping(l, E)
             P == LabelPairs(k, l, S)
             at(q) == CHOOSE v \in S : <<k[v], l[v]>> = q
             h == [q \in P |-> Component(at(q), S, H)]
  <1>1. IsFiniteSet(V) /\ S \subseteq V /\ T \subseteq E /\ InPieces(k, V, T)
    BY DEF TwoLabels, IsTree, Closed
  <1>2. IsFiniteSet(S)
    BY <1>1, FS_Subset
  <1>3. \A q \in P : at(q) \in S /\ <<k[at(q)], l[at(q)]>> = q
    <2> SUFFICES ASSUME NEW q \in P
                 PROVE  \E v \in S : <<k[v], l[v]>> = q
      OBVIOUS
    <2> QED  BY DEF LabelPairs
  <1>4. ASSUME NEW a \in S, NEW b \in S, k[a] = k[b], l[a] = l[b]
        PROVE  Component(b, S, H) = Component(a, S, H)
    <2> DEFINE Q == {w \in V : k[w] = k[a] /\ l[w] = l[a]}
               C == Component(a, S, H)
    <2>1. Connected(Q, T) /\ a \in Q /\ b \in Q /\ Q \subseteq V
      BY <1>1, <1>4 DEF TwoLabels
    <2>2. Q \subseteq S
      <3> SUFFICES ASSUME NEW w \in Q
                   PROVE  w \in S
        OBVIOUS
      <3>1. Keeping(k, E) \subseteq Keeping(k, E) \cup Keeping(l, E) /\ w \in V /\ k[a] = k[w]
        OBVIOUS
      <3> QED  BY <1>1, <3>1, LabelsStayTogether
    <2>3. a \in C /\ Closed(C, S, H)
      BY <1>2, ComponentIsLeast
    <2>4. Closed(C \cap Q, Q, T)
      <3> SUFFICES ASSUME NEW f \in Inside(Q, T), f \cap (C \cap Q) # {}
                   PROVE  f \subseteq C \cap Q
        BY DEF Closed
      <3>1. f \in Inside(S, H)
        BY <1>1, <2>2 DEF Inside, Keeping
      <3> QED  BY <2>3, <3>1 DEF Closed, Inside
    <2>5. IsFiniteSet(Q)
      BY <1>1, <2>1, FS_Subset
    <2> HIDE DEF Q, C, H
    <2>6. C \cap Q = Q
      BY <2>1, <2>3, <2>4, <2>5, ConnectedIsClosed
    <2>7. b \in C
      BY <2>1, <2>6
    <2> QED  BY <1>2, <2>7, SameComponent DEF C
  <1>5. h \in Surjection(P, Components(S, H))
    <2>1. \A q \in P : h[q] \in Components(S, H)
      <3> HIDE DEF at, H, P
      <3> QED  BY <1>3 DEF Components
    <2>2. ASSUME NEW C \in Components(S, H)
          PROVE  \E q \in P : h[q] = C
      <3>1. PICK w \in S : C = Component(w, S, H)
        BY DEF Components
      <3> DEFINE q == <<k[w], l[w]>>
      <3>2. q \in P
        BY DEF LabelPairs
      <3>3. at(q) \in S /\ k[at(q)] = k[w] /\ l[at(q)] = l[w]
        BY <1>3, <3>2
      <3> HIDE DEF at, H, P
      <3>4. Component(at(q), S, H) = Component(w, S, H)
        BY <1>4, <3>3
      <3> QED  BY <3>1, <3>2, <3>4
    <2> HIDE DEF h, H, P
    <2>3. h \in [P -> Components(S, H)]
      BY <2>1 DEF h
    <2> QED  BY <2>2, <2>3 DEF Surjection
  <1>6. IsFiniteSet(P)
    BY <1>2, LabelsGrow
  <1> HIDE DEF h, P, H
  <1>7. Cardinality(Components(S, H)) <= Cardinality(P)
    BY <1>5, <1>6, FS_Surjection
  <1> QED  BY <1>7 DEF H, P

\* Every piece along edges that keep a label has one label, so there are as
\* many pieces as labels at least.
LEMMA ManyPieces ==
    ASSUME NEW S, IsFiniteSet(S), NEW E, NEW k
    PROVE  /\ IsFiniteSet(Components(S, Keeping(k, E)))
           /\ Cardinality(LabelsOf(k, S)) <= Cardinality(Components(S, Keeping(k, E)))
  <1> DEFINE H == Keeping(k, E)
             Cs == Components(S, H)
             h == [C \in Cs |-> k[CHOOSE x \in C : TRUE]]
  <1>1. ASSUME NEW v \in S
        PROVE  v \in Component(v, S, H) /\ \A x \in Component(v, S, H) : x \in S /\ k[x] = k[v]
    <2> DEFINE D == {x \in S : k[x] = k[v]}
    <2>1. /\ v \in Component(v, S, H)
          /\ v \in D /\ Closed(D, S, H) => Component(v, S, H) \subseteq D
      BY ComponentIsLeast
    <2>2. Closed(D, S, H)
      BY DEF Closed, Inside, Keeping
    <2> QED  BY <2>1, <2>2
  <1>2. IsFiniteSet(Cs)
    <2>1. [v \in S |-> Component(v, S, H)] \in Surjection(S, Cs)
      BY DEF Surjection, Components
    <2> QED  BY <2>1, FS_Surjection
  <1>3. \A v \in S : Component(v, S, H) \in Cs /\ h[Component(v, S, H)] = k[v]
    <2> TAKE v \in S
    <2> DEFINE C == Component(v, S, H)
    <2>1. C \in Cs
      BY DEF Components
    <2>2. h[C] = k[CHOOSE x \in C : TRUE]
      BY <2>1
    <2>3. v \in C /\ \A x \in C : k[x] = k[v]
      BY <1>1
    <2> HIDE DEF C, h, Cs
    <2>4. (CHOOSE x \in C : TRUE) \in C
      BY <2>3
    <2> QED  BY <2>1, <2>2, <2>3, <2>4 DEF C
  <1>4. h \in Surjection(Cs, LabelsOf(k, S))
    <2>1. \A C \in Cs : \E v \in S : C = Component(v, S, H)
      BY DEF Components
    <2> HIDE DEF Cs, H
    <2>2. \A C \in Cs : h[C] \in LabelsOf(k, S)
      <3> TAKE C \in Cs
      <3>1. PICK v \in S : C = Component(v, S, H)
        BY <2>1
      <3>2. h[C] = k[v]
        BY <1>3, <3>1
      <3> QED  BY <3>2 DEF LabelsOf
    <2>3. \A y \in LabelsOf(k, S) : \E C \in Cs : h[C] = y
      <3> TAKE y \in LabelsOf(k, S)
      <3>1. PICK v \in S : k[v] = y
        BY DEF LabelsOf
      <3> HIDE DEF h
      <3> QED  BY <1>3, <3>1
    <2>4. h \in [Cs -> LabelsOf(k, S)]
      BY <2>2
    <2> HIDE DEF h
    <2> QED  BY <2>3, <2>4 DEF Surjection
  <1> HIDE DEF h, Cs
  <1>5. Cardinality(LabelsOf(k, S)) <= Cardinality(Cs)
    BY <1>2, <1>4, FS_Surjection
  <1> QED  BY <1>2, <1>5 DEF Cs

\* The pieces that edges keeping one label or the other make of the vertices.
Grouped(V, E, k, l) == Components(V, Keeping(k, E) \cup Keeping(l, E))

IsGroup(S, V, T, E, k, l) ==
    /\ S \subseteq V /\ S # {} /\ Closed(S, V, Keeping(k, E) \cup Keeping(l, E))
    /\ Connected(S, Keeping(k, T) \cup Keeping(l, T))
    /\ \A v \in S : S = Component(v, V, Keeping(k, E) \cup Keeping(l, E))

\* The groups cover the vertices, are closed, and are connected along the tree.
LEMMA GroupsAre ==
    ASSUME NEW V, NEW T, NEW E, NEW k, NEW l, TwoLabels(V, T, E, k, l)
    PROVE  /\ IsFiniteSet(Grouped(V, E, k, l)) /\ UNION Grouped(V, E, k, l) = V /\ Grouped(V, E, k, l) # {}
           /\ \A S \in Grouped(V, E, k, l) : IsGroup(S, V, T, E, k, l)
  <1> DEFINE H == Keeping(k, E) \cup Keeping(l, E)
             Gs == Components(V, H)
  <1>1. IsFiniteSet(V) /\ V # {}
    BY DEF TwoLabels, IsTree
  <1>2. IsFiniteSet(Gs)
    <2>1. [v \in V |-> Component(v, V, H)] \in Surjection(V, Gs)
      BY DEF Surjection, Components
    <2> QED  BY <1>1, <2>1, FS_Surjection
  <1>3. \A v \in V : v \in Component(v, V, H) /\ Component(v, V, H) \in Gs /\ Closed(Component(v, V, H), V, H)
    BY <1>1, ComponentIsLeast DEF Components
  <1>4. ASSUME NEW S \in Gs
        PROVE  /\ S \subseteq V /\ S # {} /\ Closed(S, V, H)
               /\ Connected(S, Keeping(k, T) \cup Keeping(l, T))
               /\ \A v \in S : S = Component(v, V, H)
    <2>1. PICK x \in V : S = Component(x, V, H)
      BY DEF Components
    <2>2. S \subseteq V /\ S # {} /\ Closed(S, V, H)
      BY <1>3, <2>1 DEF Closed
    <2>3. Connected(S, H)
      BY <1>1, <2>1, ComponentConnected
    <2>4. Connected(S, Keeping(k, T) \cup Keeping(l, T))
      BY <2>2, <2>3, ConnectedAlongTree
    <2>5. \A v \in S : S = Component(v, V, H)
      BY <1>1, <2>1, SameComponent
    <2> QED  BY <2>2, <2>4, <2>5
  <1>5. UNION Gs = V /\ Gs # {}
    BY <1>1, <1>3, <1>4
  <1>6. \A S \in Gs : IsGroup(S, V, T, E, k, l)
    BY <1>4 DEF IsGroup
  <1> HIDE DEF Gs
  <1>7. Gs = Grouped(V, E, k, l)
    BY DEF Grouped, Gs
  <1> QED  BY <1>2, <1>5, <1>6, <1>7

\* Two groups have no label in common.
LEMMA GroupsShareNoLabel ==
    ASSUME NEW V, NEW T, NEW E, NEW k, NEW l, TwoLabels(V, T, E, k, l),
           NEW R \in Grouped(V, E, k, l), NEW S \in Grouped(V, E, k, l), R # S
    PROVE  LabelsOf(k, R) \cap LabelsOf(k, S) = {} /\ LabelsOf(l, R) \cap LabelsOf(l, S) = {}
  <1> DEFINE H == Keeping(k, E) \cup Keeping(l, E)
  <1>1. IsFiniteSet(V) /\ T \subseteq E /\ InPieces(k, V, T) /\ InPieces(l, V, T)
        /\ Keeping(k, E) \subseteq H /\ Keeping(l, E) \subseteq H
    BY DEF TwoLabels, IsTree
  <1>0. IsGroup(R, V, T, E, k, l) /\ IsGroup(S, V, T, E, k, l)
    BY GroupsAre
  <1>2. R \subseteq V /\ S \subseteq V /\ Closed(R, V, H) /\ Closed(S, V, H)
    BY <1>0 DEF IsGroup
  <1>3. \A v : ~(v \in R /\ v \in S)
    <2>1. ASSUME NEW v, v \in R, v \in S
          PROVE  FALSE
      <3>1. R = Component(v, V, H)
        BY <1>0, <2>1 DEF IsGroup
      <3>2. S = Component(v, V, H)
        BY <1>0, <2>1 DEF IsGroup
      <3> QED  BY <3>1, <3>2
    <2> QED  BY <2>1
  <1> HIDE DEF H
  <1>4. ASSUME NEW a \in R, NEW b \in S, k[a] = k[b]
        PROVE  FALSE
    <2>1. a \in S
      BY <1>1, <1>2, <1>4, LabelsStayTogether
    <2> QED  BY <1>3, <2>1
  <1>5. ASSUME NEW a \in R, NEW b \in S, l[a] = l[b]
        PROVE  FALSE
    <2>1. a \in S
      BY <1>1, <1>2, <1>5, LabelsStayTogether
    <2> QED  BY <1>3, <2>1
  <1> QED  BY <1>4, <1>5 DEF LabelsOf

\* How many pieces a group falls into.
PiecesIn(S, E, k, l) == Cardinality(Components(S, Keeping(k, E) \cap Keeping(l, E)))

\* A group falls into fewer pieces than it has labels, and into fewer pieces
\* more than there are pieces of one label than it has of the other.
THEOREM GroupIsNotSplitTooOften ==
    ASSUME NEW V, NEW T, NEW E, NEW k, NEW l, TwoLabels(V, T, E, k, l), NEW S \in Grouped(V, E, k, l)
    PROVE  /\ PiecesIn(S, E, k, l) \in Nat
           /\ Cardinality(Components(S, Keeping(k, E))) \in Nat /\ Cardinality(LabelsOf(l, S)) \in Nat
           /\ PiecesIn(S, E, k, l) < Cardinality(LabelsOf(k, S)) + Cardinality(LabelsOf(l, S))
           /\ PiecesIn(S, E, k, l) - Cardinality(Components(S, Keeping(k, E))) < Cardinality(LabelsOf(l, S))
  <1> DEFINE H == Keeping(k, E) \cap Keeping(l, E)
             U == Keeping(k, T) \cup Keeping(l, T)
             p == PiecesIn(S, E, k, l)
             q == Cardinality(LabelPairs(k, l, S))
             a == Cardinality(LabelsOf(k, S))
             b == Cardinality(LabelsOf(l, S))
             c == Cardinality(Components(S, Keeping(k, E)))
  <1>1. S \in SUBSET V /\ S # {} /\ Closed(S, V, Keeping(k, E) \cup Keeping(l, E)) /\ Connected(S, U)
    <2>1. IsGroup(S, V, T, E, k, l)
      BY GroupsAre
    <2> QED  BY <2>1 DEF IsGroup
  <1>2. IsFiniteSet(S) /\ IsTree(V, T) /\ InPieces(k, V, T) /\ InPieces(l, V, T) /\ U \in SUBSET T
    BY <1>1, FS_Subset DEF TwoLabels, IsTree, Keeping
  <1>3. \A u, v \in S : {u, v} \in U => k[u] = k[v] \/ l[u] = l[v]
    BY DEF Keeping
  <1>4. q < a + b
    <2> HIDE DEF U
    <2> QED  BY <1>1, <1>2, <1>3, FewerPairsThanLabels
  <1>5. p <= q
    BY <1>1, FewPieces DEF PiecesIn
  <1>6. a <= c /\ c \in Nat
    BY <1>2, ManyPieces, FS_CardinalityType
  <1>7. q \in Nat /\ a \in Nat /\ b \in Nat
    BY <1>2, LabelsGrow
  <1>8. p \in Nat
    <2>1. [v \in S |-> Component(v, S, H)] \in Surjection(S, Components(S, H))
      BY DEF Surjection, Components
    <2>2. IsFiniteSet(Components(S, H))
      BY <1>2, <2>1, FS_Surjection
    <2> QED  BY <2>2, FS_CardinalityType DEF PiecesIn
  <1> HIDE DEF p, q, a, b, c
  <1>9. p < a + b /\ p - c < b
    BY <1>4, <1>5, <1>6, <1>7, <1>8
  <1> QED  BY <1>6, <1>7, <1>8, <1>9 DEF p, a, b, c

\* Labels of a union are the labels of the parts.
LEMMA LabelsOfUnion ==
    ASSUME NEW k, NEW A, NEW B
    PROVE  LabelsOf(k, A \cup B) = LabelsOf(k, A) \cup LabelsOf(k, B)
  BY DEF LabelsOf

\* The groups together fall into fewer pieces, the first of each group left
\* out, than the vertices have labels.
THEOREM GroupsAreNotSplitTooOften ==
    ASSUME NEW V, NEW T, NEW E, NEW k, NEW l, TwoLabels(V, T, E, k, l),
           NEW f, \A S \in Grouped(V, E, k, l) : f[S] = PiecesIn(S, E, k, l) - 1
    PROVE  /\ Total(f, Grouped(V, E, k, l)) \in Int
           /\ Total(f, Grouped(V, E, k, l)) < Cardinality(LabelsOf(k, V)) + Cardinality(LabelsOf(l, V))
  <1> DEFINE Gs == Grouped(V, E, k, l)
             a(D) == Cardinality(LabelsOf(k, D))
             b(D) == Cardinality(LabelsOf(l, D))
             G == {Q \in SUBSET Gs : Total(f, Q) + Cardinality(Q) <= a(UNION Q) + b(UNION Q)}
  <1>1. IsFiniteSet(V) /\ IsFiniteSet(Gs) /\ UNION Gs = V /\ Gs # {}
    BY GroupsAre DEF TwoLabels, IsTree
  <1>2. \A S \in Gs : /\ PiecesIn(S, E, k, l) \in Nat /\ f[S] = PiecesIn(S, E, k, l) - 1
                      /\ PiecesIn(S, E, k, l) < a(S) + b(S)
    BY GroupIsNotSplitTooOften
  <1>3. \A D \in SUBSET V : /\ IsFiniteSet(LabelsOf(k, D)) /\ IsFiniteSet(LabelsOf(l, D))
                            /\ a(D) \in Nat /\ b(D) \in Nat
    <2> TAKE D \in SUBSET V
    <2>1. IsFiniteSet(D)
      BY <1>1, FS_Subset
    <2>2. [v \in D |-> k[v]] \in Surjection(D, LabelsOf(k, D)) /\ [v \in D |-> l[v]] \in Surjection(D, LabelsOf(l, D))
      BY DEF Surjection, LabelsOf
    <2>3. IsFiniteSet(LabelsOf(k, D)) /\ IsFiniteSet(LabelsOf(l, D))
      BY <2>1, <2>2, FS_Surjection
    <2> QED  BY <2>3, FS_CardinalityType
  <1>4. \A R, S \in Gs : R # S => LabelsOf(k, R) \cap LabelsOf(k, S) = {} /\ LabelsOf(l, R) \cap LabelsOf(l, S) = {}
    BY GroupsShareNoLabel
  <1>5. \A S \in Gs : f[S] \in Int
    BY <1>2
  <1>6. \A Q \in SUBSET Gs : /\ IsFiniteSet(Q) /\ Cardinality(Q) \in Nat /\ Total(f, Q) \in Int
                             /\ UNION Q \in SUBSET V
    <2> TAKE Q \in SUBSET Gs
    <2>1. IsFiniteSet(Q) /\ UNION Q \in SUBSET V
      BY <1>1, FS_Subset
    <2>2. \A S \in Q : f[S] \in Int
      BY <1>5
    <2> QED  BY <2>1, <2>2, FS_CardinalityType, TotalType
  <1> HIDE DEF Gs
  <1>7. {} \in G
    <2>1. LabelsOf(k, UNION {}) = {} /\ LabelsOf(l, UNION {}) = {}
      BY DEF LabelsOf
    <2>2. Total(f, {}) = 0 /\ Cardinality({}) = 0
      BY TotalOfNone, FS_EmptySet
    <2> QED  BY <2>1, <2>2
  <1>8. ASSUME NEW Q \in SUBSET Gs, NEW S \in Gs \ Q, Q \in G
        PROVE  Q \cup {S} \in G
    <2> DEFINE D == UNION Q
    <2>1. UNION (Q \cup {S}) = D \cup S /\ D \in SUBSET V /\ S \in SUBSET V /\ Q \cup {S} \in SUBSET Gs
      BY <1>1
    <2>2. Total(f, Q \cup {S}) = Total(f, Q) + f[S] /\ Cardinality(Q \cup {S}) = Cardinality(Q) + 1
      BY <1>5, <1>6, TotalAdd, FS_AddElement
    <2>3. LabelsOf(k, D) \cap LabelsOf(k, S) = {}
      <3> SUFFICES ASSUME NEW R \in Q, NEW v \in R, NEW w \in S, k[v] = k[w]
                   PROVE  FALSE
        BY DEF LabelsOf
      <3> QED  BY <1>4 DEF LabelsOf
    <2>4. LabelsOf(l, D) \cap LabelsOf(l, S) = {}
      <3> SUFFICES ASSUME NEW R \in Q, NEW v \in R, NEW w \in S, l[v] = l[w]
                   PROVE  FALSE
        BY DEF LabelsOf
      <3> QED  BY <1>4 DEF LabelsOf
    <2>5. a(D \cup S) = a(D) + a(S)
      BY <1>3, <2>1, <2>3, LabelsOfUnion, PartsAddUp
    <2>6. b(D \cup S) = b(D) + b(S)
      BY <1>3, <2>1, <2>4, LabelsOfUnion, PartsAddUp
    <2>7. Total(f, Q) + Cardinality(Q) <= a(D) + b(D)
      BY <1>8
    <2>8. a(D) \in Nat /\ b(D) \in Nat /\ a(S) \in Nat /\ b(S) \in Nat
          /\ Total(f, Q) \in Int /\ Cardinality(Q) \in Nat
      BY <1>3, <1>6, <2>1
    <2>9. PiecesIn(S, E, k, l) \in Nat /\ f[S] = PiecesIn(S, E, k, l) - 1 /\ PiecesIn(S, E, k, l) < a(S) + b(S)
      BY <1>2
    <2> HIDE DEF D, a, b
    <2>10. Total(f, Q \cup {S}) + Cardinality(Q \cup {S}) <= a(D \cup S) + b(D \cup S)
      BY <2>2, <2>5, <2>6, <2>7, <2>8, <2>9
    <2> QED  BY <2>1, <2>10
  <1>9. Gs \in G
    <2> HIDE DEF G
    <2> QED  BY <1>1, <1>7, <1>8, SubsetInduction
  <1>10. Cardinality(Gs) \in Nat /\ Cardinality(Gs) # 0
    BY <1>1, <1>6, FS_EmptySet
  <1>11. Total(f, Gs) \in Int /\ Total(f, Gs) + Cardinality(Gs) <= a(V) + b(V) /\ a(V) \in Nat /\ b(V) \in Nat
    BY <1>1, <1>3, <1>6, <1>9
  <1> HIDE DEF a, b
  <1>12. Total(f, Gs) < a(V) + b(V)
    BY <1>10, <1>11
  <1> QED  BY <1>11, <1>12 DEF Gs, a, b

\* The same sets are closed along the one set of edges as along the other.
SameClosed(S, E, F) == \A D : Closed(D, S, E) <=> Closed(D, S, F)

\* Closed along all edges is closed along the ones and along the others.
LEMMA ClosedBoth ==
    ASSUME NEW S, NEW E, NEW F, NEW D
    PROVE  Closed(D, S, E \cup F) <=> (Closed(D, S, E) /\ Closed(D, S, F))
  BY DEF Closed, Inside

\* What is closed says what the pieces are.
LEMMA SamePieces ==
    ASSUME NEW S, IsFiniteSet(S), NEW E, NEW F, SameClosed(S, E, F)
    PROVE  /\ \A v \in S : Component(v, S, E) = Component(v, S, F)
           /\ Components(S, E) = Components(S, F)
  <1>1. ASSUME NEW v \in S
        PROVE  Component(v, S, E) = Component(v, S, F)
    <2>1. /\ v \in Component(v, S, E) /\ Closed(Component(v, S, E), S, E)
          /\ \A D : v \in D /\ Closed(D, S, E) => Component(v, S, E) \subseteq D
      BY ComponentIsLeast
    <2>2. /\ v \in Component(v, S, F) /\ Closed(Component(v, S, F), S, F)
          /\ \A D : v \in D /\ Closed(D, S, F) => Component(v, S, F) \subseteq D
      BY ComponentIsLeast
    <2> QED  BY <2>1, <2>2 DEF SameClosed
  <1> QED  BY <1>1 DEF Components

\* An edge that does not leave a piece, or that leaves the set, changes nothing.
LEMMA EdgeInPiece ==
    ASSUME NEW S, IsFiniteSet(S), NEW E, NEW x, NEW y,
           x \in S /\ y \in S => y \in Component(x, S, E)
    PROVE  SameClosed(S, E \cup {{x, y}}, E)
  <1>1. ASSUME NEW D, Closed(D, S, E)
        PROVE  Closed(D, S, {{x, y}})
    <2>1. D \subseteq S
      BY <1>1 DEF Closed
    <2>2. ASSUME {x, y} \subseteq S, {x, y} \cap D # {}
          PROVE  {x, y} \subseteq D
      <3>1. x \in S /\ y \in S /\ y \in Component(x, S, E)
        BY <2>2
      <3>2. Component(x, S, E) = Component(y, S, E) /\ x \in Component(x, S, E)
        BY <3>1, SameComponent, ComponentIsLeast
      <3>3. \A v \in D : Component(v, S, E) \subseteq D
        BY <1>1, <2>1, ComponentIsLeast
      <3>4. x \in D \/ y \in D
        BY <2>2
      <3> QED  BY <3>1, <3>2, <3>3, <3>4
    <2> QED  BY <2>1, <2>2 DEF Closed, Inside
  <1> QED  BY <1>1, ClosedBoth DEF SameClosed

\* There are finitely many pieces.
LEMMA PieceCount ==
    ASSUME NEW S, IsFiniteSet(S), NEW E
    PROVE  /\ IsFiniteSet(Components(S, E)) /\ Cardinality(Components(S, E)) \in Nat
           /\ Cardinality(Components(S, E)) <= Cardinality(S)
  <1>1. [v \in S |-> Component(v, S, E)] \in Surjection(S, Components(S, E))
    BY DEF Surjection, Components
  <1>2. IsFiniteSet(Components(S, E)) /\ Cardinality(Components(S, E)) <= Cardinality(S)
    BY <1>1, FS_Surjection
  <1> QED  BY <1>2, FS_CardinalityType

\* Without edges every vertex is a piece.
LEMMA SinglePieces ==
    ASSUME NEW S, IsFiniteSet(S), NEW E, \A e \in E : ~(e \subseteq S)
    PROVE  /\ \A v \in S : Component(v, S, E) = {v}
           /\ Cardinality(Components(S, E)) = Cardinality(S)
  <1>1. ASSUME NEW v \in S
        PROVE  Component(v, S, E) = {v}
    <2>1. Closed({v}, S, E)
      BY DEF Closed, Inside
    <2> QED  BY <2>1, ComponentIsLeast
  <1> DEFINE f == [v \in S |-> Component(v, S, E)]
  <1>2. f \in Bijection(S, Components(S, E))
    <2>1. f \in [S -> Components(S, E)] /\ \A u, v \in S : f[u] = f[v] => u = v
      BY <1>1 DEF Components
    <2>2. \A t \in Components(S, E) : \E v \in S : f[v] = t
      BY DEF Components
    <2> HIDE DEF f
    <2> QED  BY <2>1, <2>2 DEF Bijection, Injection, IsInjective, Surjection
  <1>3. Cardinality(Components(S, E)) = Cardinality(S)
    <2> HIDE DEF f
    <2> QED  BY <1>2, FS_Bijection DEF ExistsBijection
  <1> QED  BY <1>1, <1>3

\* An edge from one piece to another makes one of the two.
LEMMA OneFewerPiece ==
    ASSUME NEW S, IsFiniteSet(S), NEW E, NEW x \in S, NEW y \in S, y \notin Component(x, S, E)
    PROVE  Cardinality(Components(S, E)) = Cardinality(Components(S, E \cup {{x, y}})) + 1
  <1> DEFINE C(v) == Component(v, S, E)
             H == E \cup {{x, y}}
             N(v) == Component(v, S, H)
             Z == C(x) \cup C(y)
  <1>1. \A v \in S : /\ v \in C(v) /\ Closed(C(v), S, E)
                     /\ \A D : v \in D /\ Closed(D, S, E) => C(v) \subseteq D
    BY ComponentIsLeast
  <1>2. \A v \in S : /\ v \in N(v) /\ Closed(N(v), S, H)
                     /\ \A D : v \in D /\ Closed(D, S, H) => N(v) \subseteq D
    BY ComponentIsLeast
  <1>3. \A v \in S : \A u \in C(v) : u \in S /\ C(u) = C(v)
    BY SameComponent
  <1>4. \A D : Closed(D, S, H) <=> (Closed(D, S, E) /\ (x \in D <=> y \in D))
    <2> TAKE D
    <2>1. Inside(S, {{x, y}}) = {{x, y}}
      BY DEF Inside
    <2>2. Closed(D, S, {{x, y}}) <=> (D \subseteq S /\ (x \in D <=> y \in D))
      BY <2>1 DEF Closed
    <2>3. Closed(D, S, E) => D \subseteq S
      BY DEF Closed
    <2> QED  BY <2>2, <2>3, ClosedBoth
  <1> HIDE DEF C, H, N
  <1>5. ASSUME NEW v \in S, v \notin Z
        PROVE  N(v) = C(v)
    <2>1. x \notin C(v) /\ y \notin C(v)
      BY <1>1, <1>3, <1>5
    <2>2. N(v) \subseteq C(v)
      BY <1>1, <1>2, <1>4, <2>1
    <2>3. C(v) \subseteq N(v)
      BY <1>1, <1>2, <1>4
    <2> QED  BY <2>2, <2>3
  <1>6. ASSUME NEW v \in Z
        PROVE  v \in S /\ N(v) = Z
    <2>1. v \in S
      BY <1>3, <1>6
    <2>2. Closed(Z, S, E)
      BY <1>1 DEF Closed
    <2>3. N(v) \subseteq Z
      BY <1>1, <1>2, <1>4, <2>1, <2>2
    <2>4. C(v) \subseteq N(v) /\ (C(v) = C(x) \/ C(v) = C(y))
      BY <1>1, <1>2, <1>3, <1>4, <2>1
    <2>5. x \in N(v) /\ y \in N(v)
      BY <1>1, <1>2, <1>4, <2>1, <2>4
    <2>6. C(x) \subseteq N(v) /\ C(y) \subseteq N(v)
      BY <1>1, <1>2, <1>4, <2>1, <2>5
    <2> QED  BY <2>1, <2>3, <2>6
  <1> DEFINE P == {C(v) : v \in S}
             Q == {N(v) : v \in S}
             rest == P \ {C(x), C(y)}
  <1>7. C(x) # C(y) /\ C(x) \in P /\ C(y) \in P
    BY <1>1 DEF C
  <1>8. Q = rest \cup {Z}
    <2>1. \A v \in S : v \in Z <=> (C(v) = C(x) \/ C(v) = C(y))
      BY <1>1, <1>3
    <2>2. Q \subseteq rest \cup {Z}
      BY <1>5, <1>6, <2>1
    <2>3. rest \subseteq Q
      BY <1>5, <2>1
    <2>4. Z \in Q
      BY <1>1, <1>6
    <2> QED  BY <2>2, <2>3, <2>4
  <1>9. Z \notin rest
    <2>1. \A v \in S : C(v) = Z => C(v) = C(x)
      BY <1>1, <1>3
    <2> QED  BY <2>1
  <1>10. IsFiniteSet(P) /\ P = Components(S, E) /\ Q = Components(S, H)
    <2>1. P = Components(S, E) /\ Q = Components(S, H)
      BY DEF C, N, Components
    <2> QED  BY <2>1, PieceCount
  <1> HIDE DEF P, Q, Z
  <1>11. Cardinality(P \ {C(x)}) = Cardinality(P) - 1 /\ IsFiniteSet(P \ {C(x)})
    BY <1>7, <1>10, FS_RemoveElement
  <1>12. Cardinality(rest) = Cardinality(P) - 2 /\ IsFiniteSet(rest)
    <2>1. rest = (P \ {C(x)}) \ {C(y)} /\ C(y) \in P \ {C(x)}
      BY <1>7
    <2>2. Cardinality((P \ {C(x)}) \ {C(y)}) = Cardinality(P \ {C(x)}) - 1 /\ IsFiniteSet((P \ {C(x)}) \ {C(y)})
      BY <1>11, <2>1, FS_RemoveElement
    <2>3. Cardinality(P) \in Nat
      BY <1>10, FS_CardinalityType
    <2> QED  BY <1>11, <2>1, <2>2, <2>3
  <1> HIDE DEF rest
  <1>13. Cardinality(Q) = Cardinality(rest) + 1
    BY <1>8, <1>9, <1>12, FS_AddElement
  <1>14. Cardinality(P) \in Nat
    BY <1>10, FS_CardinalityType
  <1>15. Cardinality(P) = Cardinality(Q) + 1
    BY <1>12, <1>13, <1>14
  <1> QED  BY <1>10, <1>15 DEF H

\* Some of the edges, one for each piece fewer, join the pieces just as all do.
THEOREM JoinPieces ==
    ASSUME NEW S, IsFiniteSet(S), NEW F, NEW E, IsFiniteSet(E), Links(E)
    PROVE  \E X \in SUBSET E :
              /\ SameClosed(S, F \cup X, F \cup E)
              /\ IsFiniteSet(X) /\ Cardinality(X) \in Nat
              /\ Cardinality(X) <= Cardinality(Components(S, F)) - Cardinality(Components(S, F \cup E))
  <1> DEFINE Joins(X, T) == /\ SameClosed(S, F \cup X, F \cup T)
                            /\ IsFiniteSet(X) /\ Cardinality(X) \in Nat
                            /\ Cardinality(X) <= Cardinality(Components(S, F)) - Cardinality(Components(S, F \cup T))
             G == {T \in SUBSET E : \E X \in SUBSET T : Joins(X, T)}
  <1>0. \A H : Cardinality(Components(S, H)) \in Nat
    BY PieceCount
  <1>1. {} \in G
    <2>1. SameClosed(S, F \cup {}, F \cup {}) /\ F \cup {} = F
      BY DEF SameClosed
    <2>2. Joins({}, {})
      <3>1. IsFiniteSet({}) /\ Cardinality({}) = 0
        BY FS_EmptySet
      <3>2. Cardinality(Components(S, F)) \in Nat
        BY <1>0
      <3>3. F \cup {} = F
        OBVIOUS
      <3>4. Cardinality(Components(S, F)) - Cardinality(Components(S, F \cup {})) = 0
        BY <3>2, <3>3
      <3> QED  BY <2>1, <3>1, <3>4
    <2> HIDE DEF Joins
    <2> QED  BY <2>2
  <1>2. ASSUME NEW T \in SUBSET E, NEW e \in E \ T, T \in G
        PROVE  T \cup {e} \in G
    <2>1. PICK X \in SUBSET T : Joins(X, T)
      <3> HIDE DEF Joins
      <3> QED  BY <1>2
    <2>2. PICK x, y : e = {x, y}
      BY DEF Links
    <2> DEFINE H == F \cup T
    <2>3. F \cup (T \cup {e}) = H \cup {{x, y}}
      BY <2>2
    <2>4. \A D : Closed(D, S, F \cup X) <=> Closed(D, S, H)
      BY <2>1 DEF SameClosed
    <2>5. CASE x \in S /\ y \in S => y \in Component(x, S, H)
      <3> HIDE DEF H
      <3>1. SameClosed(S, H \cup {{x, y}}, H)
        BY <2>5, EdgeInPiece
      <3>2. Components(S, H \cup {{x, y}}) = Components(S, H)
        BY <3>1, SamePieces
      <3>3. Joins(X, T \cup {e})
        <4>1. SameClosed(S, F \cup X, F \cup (T \cup {e}))
          BY <2>3, <2>4, <3>1 DEF SameClosed
        <4>2. Components(S, F \cup (T \cup {e})) = Components(S, F \cup T)
          BY <2>3, <3>2 DEF H
        <4> QED  BY <2>1, <4>1, <4>2
      <3> HIDE DEF Joins
      <3> QED  BY <3>3
    <2>6. CASE ~(x \in S /\ y \in S => y \in Component(x, S, H))
      <3> DEFINE Y == X \cup {e}
      <3>1. Cardinality(Components(S, H)) = Cardinality(Components(S, H \cup {{x, y}})) + 1
        <4> HIDE DEF H
        <4> QED  BY <2>6, OneFewerPiece
      <3>2. SameClosed(S, F \cup Y, F \cup (T \cup {e}))
        <4>1. F \cup Y = (F \cup X) \cup {e} /\ F \cup (T \cup {e}) = H \cup {e}
          OBVIOUS
        <4> HIDE DEF H, Y
        <4> QED  BY <2>4, <4>1, ClosedBoth DEF SameClosed
      <3>3. IsFiniteSet(Y) /\ Cardinality(Y) = Cardinality(X) + 1
        BY <1>2, <2>1, FS_AddElement
      <3>4. Joins(Y, T \cup {e})
        <4> DEFINE a == Cardinality(Components(S, F))
                   b == Cardinality(Components(S, F \cup T))
                   c == Cardinality(Components(S, F \cup (T \cup {e})))
                   s == Cardinality(X)
        <4>1. a \in Nat /\ b \in Nat /\ c \in Nat /\ b = c + 1
          BY <1>0, <2>3, <3>1
        <4>2. s \in Nat /\ s <= a - b
          BY <2>1
        <4> HIDE DEF a, b, c, s
        <4>3. s + 1 \in Nat /\ s + 1 <= a - c
          BY <4>1, <4>2
        <4>4. Cardinality(Y) = s + 1
          BY <3>3 DEF s
        <4> HIDE DEF Y
        <4>5. Cardinality(Y) \in Nat /\ Cardinality(Y) <= a - c
          BY <4>3, <4>4
        <4> QED  BY <3>2, <3>3, <4>5 DEF a, c
      <3>5. Y \in SUBSET (T \cup {e})
        OBVIOUS
      <3> HIDE DEF Joins, Y
      <3> QED  BY <1>2, <3>4, <3>5
    <2> QED  BY <2>5, <2>6
  <1>3. E \in G
    <2> HIDE DEF G
    <2> QED  BY <1>1, <1>2, SubsetInduction
  <1>4. PICK X \in SUBSET E : Joins(X, E)
    <2> HIDE DEF Joins
    <2> QED  BY <1>3
  <1> QED  BY <1>4

\* Every edge joins two pieces at most.
THEOREM EdgesJoinPieces ==
    ASSUME NEW S, IsFiniteSet(S), NEW F, NEW E, IsFiniteSet(E), Links(E)
    PROVE  Cardinality(Components(S, F)) <= Cardinality(Components(S, F \cup E)) + Cardinality(E)
  <1> DEFINE p(H) == Cardinality(Components(S, H))
             G == {T \in SUBSET E : p(F) <= p(F \cup T) + Cardinality(T)}
  <1>0. \A H : p(H) \in Nat
    BY PieceCount
  <1> HIDE DEF p
  <1>1. {} \in G
    <2>1. F \cup {} = F /\ Cardinality({}) = 0
      BY FS_EmptySet
    <2> QED  BY <1>0, <2>1
  <1>2. ASSUME NEW T \in SUBSET E, NEW e \in E \ T, T \in G
        PROVE  T \cup {e} \in G
    <2>1. PICK x, y : e = {x, y}
      BY DEF Links
    <2> DEFINE H == F \cup T
    <2>2. F \cup (T \cup {e}) = H \cup {{x, y}}
      BY <2>1
    <2>3. p(H) <= p(H \cup {{x, y}}) + 1
      <3>1. CASE x \in S /\ y \in S => y \in Component(x, S, H)
        <4> HIDE DEF H
        <4>1. Components(S, H \cup {{x, y}}) = Components(S, H)
          BY <3>1, EdgeInPiece, SamePieces
        <4>2. p(H \cup {{x, y}}) = p(H) /\ p(H) \in Nat
          BY <1>0, <4>1 DEF p
        <4> QED  BY <4>2
      <3>2. CASE ~(x \in S /\ y \in S => y \in Component(x, S, H))
        <4> HIDE DEF H
        <4>1. p(H) = p(H \cup {{x, y}}) + 1
          BY <3>2, OneFewerPiece DEF p
        <4> QED  BY <1>0, <4>1
      <3> QED  BY <3>1, <3>2
    <2>4. p(F) <= p(H) + Cardinality(T)
      BY <1>2
    <2>5. Cardinality(T) \in Nat /\ Cardinality(T \cup {e}) = Cardinality(T) + 1
      <3>1. IsFiniteSet(T)
        BY FS_Subset
      <3> QED  BY <1>2, <3>1, FS_AddElement, FS_CardinalityType
    <2>6. p(F) <= p(H \cup {{x, y}}) + Cardinality(T \cup {e})
      <3>1. p(F) \in Nat /\ p(H) \in Nat /\ p(H \cup {{x, y}}) \in Nat
        BY <1>0
      <3> QED  BY <2>3, <2>4, <2>5, <3>1
    <2> QED  BY <2>2, <2>6
  <1>3. E \in G
    <2> HIDE DEF G
    <2> QED  BY <1>1, <1>2, SubsetInduction
  <1> QED  BY <1>3 DEF p

\* A part that no edge leaves has pieces of its own.
LEMMA PieceOfPart ==
    ASSUME NEW V, IsFiniteSet(V), NEW E, NEW A, Closed(A, V, E), NEW v \in A
    PROVE  Component(v, V, E) = Component(v, A, E)
  <1>1. A \subseteq V /\ IsFiniteSet(A) /\ \A e \in Inside(V, E) : e \cap A # {} => e \subseteq A
    BY FS_Subset DEF Closed
  <1>2. /\ v \in Component(v, V, E) /\ Closed(Component(v, V, E), V, E)
        /\ \A D : v \in D /\ Closed(D, V, E) => Component(v, V, E) \subseteq D
    BY <1>1, ComponentIsLeast
  <1>3. /\ v \in Component(v, A, E) /\ Closed(Component(v, A, E), A, E)
        /\ \A D : v \in D /\ Closed(D, A, E) => Component(v, A, E) \subseteq D
    BY <1>1, ComponentIsLeast
  <1>4. Component(v, V, E) \subseteq A
    BY <1>2
  <1>5. Closed(Component(v, V, E), A, E)
    BY <1>1, <1>2, <1>4 DEF Closed, Inside
  <1>6. Closed(Component(v, A, E), V, E)
    <2>1. Component(v, A, E) \subseteq V /\ Component(v, A, E) \subseteq A
      BY <1>1, <1>3 DEF Closed
    <2>2. ASSUME NEW e \in Inside(V, E), e \cap Component(v, A, E) # {}
          PROVE  e \subseteq Component(v, A, E)
      <3>1. e \subseteq A
        BY <1>1, <2>1, <2>2
      <3>2. e \in Inside(A, E)
        BY <3>1 DEF Inside
      <3> QED  BY <1>3, <2>2, <3>2 DEF Closed
    <2> QED  BY <2>1, <2>2 DEF Closed
  <1> QED  BY <1>2, <1>3, <1>5, <1>6

\* The pieces of two parts that no edge leaves.
LEMMA PiecesAddUp ==
    ASSUME NEW A, NEW B, IsFiniteSet(A), IsFiniteSet(B), A \cap B = {}, NEW E,
           Closed(A, A \cup B, E), Closed(B, A \cup B, E)
    PROVE  Cardinality(Components(A \cup B, E)) = Cardinality(Components(A, E)) + Cardinality(Components(B, E))
  <1> DEFINE V == A \cup B
  <1>1. IsFiniteSet(V)
    BY PartsAddUp
  <1>2. /\ \A v \in A : Component(v, V, E) = Component(v, A, E)
        /\ \A v \in B : Component(v, V, E) = Component(v, B, E)
    <2> HIDE DEF V
    <2>1. V = A \cup B
      BY DEF V
    <2> QED  BY <1>1, <2>1, PieceOfPart
  <1>3. Components(V, E) = Components(A, E) \cup Components(B, E)
    BY <1>2 DEF Components
  <1>4. Components(A, E) \cap Components(B, E) = {}
    <2>1. ASSUME NEW a \in A, NEW b \in B
          PROVE  Component(a, A, E) # Component(b, B, E)
      <3>1. a \in Component(a, A, E) /\ Component(b, B, E) \subseteq B
        BY ComponentIsLeast, ComponentConnected
      <3> QED  BY <3>1
    <2> QED  BY <2>1 DEF Components
  <1>5. IsFiniteSet(Components(A, E)) /\ IsFiniteSet(Components(B, E))
    BY PieceCount
  <1>6. Cardinality(Components(A, E) \cup Components(B, E))
           = Cardinality(Components(A, E)) + Cardinality(Components(B, E))
    BY <1>4, <1>5, PartsAddUp
  <1> QED  BY <1>3, <1>6

\* In a part of a tree there are as many pieces as vertices, less one for every edge.
THEOREM PiecesInTree ==
    ASSUME NEW V, NEW T, IsTree(V, T), NEW S \in SUBSET V, NEW F \in SUBSET Inside(S, T)
    PROVE  /\ IsFiniteSet(F) /\ Cardinality(F) \in Nat /\ Cardinality(S) \in Nat
           /\ Cardinality(Components(S, F)) + Cardinality(F) = Cardinality(S)
  <1> DEFINE p(X, H) == Cardinality(Components(X, H))
             R == V \ S
  <1>1. /\ IsFiniteSet(V) /\ V # {} /\ IsFiniteSet(T) /\ Links(T) /\ Connected(V, T)
        /\ Cardinality(T) = Cardinality(V) - 1
    BY DEF IsTree
  <1>2. F \subseteq T /\ \A e \in F : e \subseteq S
    BY DEF Inside
  <1>3. IsFiniteSet(F) /\ IsFiniteSet(T \ F) /\ Links(F) /\ Links(T \ F) /\ IsFiniteSet(S) /\ IsFiniteSet(R)
    BY <1>1, <1>2, FS_Subset DEF Links
  <1>4. /\ Cardinality(T) = Cardinality(F) + Cardinality(T \ F) /\ Cardinality(V) = Cardinality(S) + Cardinality(R)
        /\ Cardinality(F) \in Nat /\ Cardinality(T \ F) \in Nat /\ Cardinality(S) \in Nat /\ Cardinality(R) \in Nat
    <2>1. F \cup (T \ F) = T /\ S \cup R = V /\ F \cap (T \ F) = {} /\ S \cap R = {}
      BY <1>2
    <2> HIDE DEF R
    <2>2. Cardinality(F \cup (T \ F)) = Cardinality(F) + Cardinality(T \ F)
      BY <1>3, <2>1, PartsAddUp
    <2>3. Cardinality(S \cup R) = Cardinality(S) + Cardinality(R)
      BY <1>3, <2>1, PartsAddUp
    <2>4. Cardinality(F \cup (T \ F)) = Cardinality(T) /\ Cardinality(S \cup R) = Cardinality(V)
      BY <2>1
    <2> QED  BY <1>3, <2>2, <2>3, <2>4, FS_CardinalityType
  <1>5. p(V, {}) = Cardinality(V) /\ p(R, F) = Cardinality(R)
    <2>1. \A e \in F : ~(e \subseteq R)
      BY <1>2, <1>3 DEF Links
    <2> HIDE DEF R
    <2> QED  BY <1>1, <1>3, <2>1, SinglePieces
  <1>6. p(V, {}) <= p(V, F) + Cardinality(F)
    <2>1. p(V, {}) <= p(V, {} \cup F) + Cardinality(F)
      BY <1>1, <1>3, EdgesJoinPieces
    <2>2. {} \cup F = F
      OBVIOUS
    <2> QED  BY <2>1, <2>2
  <1>7. p(V, F) <= p(V, T) + Cardinality(T \ F)
    <2>1. p(V, F) <= p(V, F \cup (T \ F)) + Cardinality(T \ F)
      BY <1>1, <1>3, EdgesJoinPieces
    <2>2. F \cup (T \ F) = T
      BY <1>2
    <2> QED  BY <2>1, <2>2
  <1>8. p(V, T) <= 1 /\ p(V, T) \in Nat /\ p(V, F) \in Nat /\ p(S, F) \in Nat
    BY <1>1, <1>3, PieceCount DEF Connected
  <1>9. p(V, F) = p(S, F) + p(R, F)
    <2>1. Closed(S, S \cup R, F) /\ Closed(R, S \cup R, F) /\ S \cap R = {}
      BY <1>2 DEF Closed, Inside
    <2>2. S \cup R = V
      OBVIOUS
    <2> HIDE DEF R
    <2>3. p(S \cup R, F) = p(S, F) + p(R, F)
      BY <1>3, <2>1, PiecesAddUp
    <2> QED  BY <2>2, <2>3
  <1> HIDE DEF p, R
  <1>10. p(S, F) + Cardinality(F) = Cardinality(S)
    BY <1>1, <1>4, <1>5, <1>6, <1>7, <1>8, <1>9
  <1> QED  BY <1>3, <1>4, <1>10 DEF p

\* A connected part of a tree is a tree.
LEMMA PartOfTree ==
    ASSUME NEW V, NEW T, IsTree(V, T), NEW S \in SUBSET V, S # {}, Connected(S, T)
    PROVE  IsTree(S, Inside(S, T))
  <1> DEFINE I == Inside(S, T)
  <1>1. IsFiniteSet(I) /\ Cardinality(I) \in Nat /\ Cardinality(S) \in Nat
        /\ Cardinality(Components(S, I)) + Cardinality(I) = Cardinality(S)
    BY PiecesInTree
  <1>2. IsFiniteSet(S) /\ Links(I) /\ \A e \in I : e \subseteq S
    BY FS_Subset DEF IsTree, Links, Inside
  <1> HIDE DEF I
  <1>3. Connected(S, I)
    <2>1. Inside(S, T) \subseteq I
      BY DEF I
    <2> QED  BY <1>2, <2>1, ConnectedMore
  <1>4. Cardinality(Components(S, I)) = 1
    <2>1. IsFiniteSet(Components(S, I)) /\ Cardinality(Components(S, I)) \in Nat
      BY <1>2, PieceCount
    <2>2. Components(S, I) # {}
      BY DEF Components
    <2>3. Cardinality(Components(S, I)) # 0
      BY <2>1, <2>2, FS_EmptySet
    <2> QED  BY <1>3, <2>1, <2>3 DEF Connected
  <1>5. Cardinality(I) = Cardinality(S) - 1
    BY <1>1, <1>4
  <1>6. IsTree(S, I)
    BY <1>1, <1>2, <1>3, <1>5 DEF IsTree
  <1> QED  BY <1>6 DEF I

\* Connected sets that meet are connected together.
LEMMA MeetingParts ==
    ASSUME NEW P, NEW Q, IsFiniteSet(P), IsFiniteSet(Q), NEW E, Connected(P, E), Connected(Q, E), P \cap Q # {}
    PROVE  Connected(P \cup Q, E)
  <1>1. IsFiniteSet(P \cup Q)
    BY FS_Union
  <1>2. ASSUME NEW D, D # {}, Closed(D, P \cup Q, E)
        PROVE  D = P \cup Q
    <2>1. Closed(D \cap P, P, E) /\ Closed(D \cap Q, Q, E) /\ D \subseteq P \cup Q
      BY <1>2 DEF Closed, Inside
    <2>2. (D \cap P # {} => D \cap P = P) /\ (D \cap Q # {} => D \cap Q = Q)
      BY <2>1, ConnectedIsClosed
    <2> QED  BY <1>2, <2>1, <2>2
  <1> QED  BY <1>1, <1>2, ConnectedIsClosed

\* In a tree, what two connected sets have in common is connected.
THEOREM CommonPart ==
    ASSUME NEW V, NEW T, IsTree(V, T), NEW P \in SUBSET V, NEW Q \in SUBSET V, Connected(P, T), Connected(Q, T)
    PROVE  Connected(P \cap Q, T)
  <1>1. CASE P \cap Q = {}
    BY <1>1, NothingConnected
  <1>2. CASE P \cap Q # {}
    <2> DEFINE M == P \cap Q
               U == P \cup Q
               i(S) == Inside(S, T)
               n(S) == Cardinality(S)
    <2>1. IsFiniteSet(P) /\ IsFiniteSet(Q) /\ IsFiniteSet(M)
      BY FS_Subset DEF IsTree
    <2>2. P # {} /\ Q # {} /\ U # {} /\ U \in SUBSET V /\ M \in SUBSET V
      BY <1>2
    <2>3. Connected(U, T)
      BY <1>2, <2>1, MeetingParts
    <2> HIDE DEF M, U
    <2>4. IsTree(P, i(P)) /\ IsTree(Q, i(Q)) /\ IsTree(U, i(U))
      BY <2>2, <2>3, PartOfTree
    <2> HIDE DEF i
    <2>5. n(i(P)) = n(P) - 1 /\ n(i(Q)) = n(Q) - 1 /\ n(i(U)) = n(U) - 1
          /\ IsFiniteSet(i(P)) /\ IsFiniteSet(i(Q)) /\ IsFiniteSet(i(U))
      BY <2>4 DEF IsTree
    <2>6. n(U) = n(P) + n(Q) - n(M)
      BY <2>1, FS_Union DEF U, M
    <2>7. n(i(P) \cup i(Q)) = n(i(P)) + n(i(Q)) - n(i(M)) /\ n(i(P) \cup i(Q)) <= n(i(U))
      <3>1. i(P) \cap i(Q) = i(M) /\ i(P) \cup i(Q) \subseteq i(U)
        BY DEF i, M, U, Inside
      <3>2. n(i(P) \cup i(Q)) = n(i(P)) + n(i(Q)) - n(i(P) \cap i(Q))
        BY <2>5, FS_Union
      <3> QED  BY <2>5, <3>1, <3>2, FS_Subset
    <2>8. n(i(M)) \in Nat /\ n(M) \in Nat /\ Cardinality(Components(M, i(M))) + n(i(M)) = n(M)
      BY <2>2, PiecesInTree DEF i
    <2>9. n(P) \in Nat /\ n(Q) \in Nat /\ n(U) \in Nat
      <3>1. IsFiniteSet(U)
        BY <2>1, FS_Union DEF U
      <3> QED  BY <2>1, <3>1, FS_CardinalityType
    <2>10. Cardinality(Components(M, i(M))) \in Nat
      BY <2>1, PieceCount
    <2>11. Cardinality(Components(M, i(M))) <= 1
      <3> DEFINE c == Cardinality(Components(M, i(M)))
      <3>1. c \in Nat /\ c + n(i(M)) = n(M)
        BY <2>8, <2>10
      <3> HIDE DEF c, n
      <3>2. c <= 1
        BY <2>5, <2>6, <2>7, <2>8, <2>9, <3>1
      <3> QED  BY <3>2 DEF c
    <2>12. Connected(M, i(M))
      BY <2>11 DEF Connected
    <2>13. Connected(M, T)
      <3>1. Inside(M, i(M)) \subseteq T
        BY DEF i, Inside
      <3> QED  BY <2>1, <2>12, <3>1, ConnectedMore
    <2> QED  BY <2>13 DEF M
  <1> QED  BY <1>1, <1>2

\* What edges inside the groups do to the groups one by one, they do to the whole.
LEMMA GroupSums ==
    ASSUME NEW V, IsFiniteSet(V), NEW H, NEW B \in SUBSET H, NEW K \in SUBSET H, NEW L \in SUBSET H,
           \A S \in Components(V, H) :
              Cardinality(Components(S, B)) < Cardinality(Components(S, K)) + Cardinality(Components(S, L))
    PROVE  Cardinality(Components(V, B)) + Cardinality(Components(V, H))
              <= Cardinality(Components(V, K)) + Cardinality(Components(V, L))
  <1> DEFINE p(S, F) == Cardinality(Components(S, F))
             Gs == Components(V, H)
             Good == {D \in SUBSET Gs : p(UNION D, B) + Cardinality(D) <= p(UNION D, K) + p(UNION D, L)}
  <1>1. IsFiniteSet(Gs) /\ UNION Gs = V
    <2>1. \A v \in V : v \in Component(v, V, H) /\ Component(v, V, H) \subseteq V
      BY ComponentIsLeast, ComponentConnected
    <2> QED  BY <2>1, PieceCount DEF Components
  <1>2. \A S \in Gs : /\ S \subseteq V /\ IsFiniteSet(S) /\ \A e \in Inside(V, H) : e \cap S # {} => e \subseteq S
                      /\ p(S, B) < p(S, K) + p(S, L)
    <2>1. \A S \in Gs : \E v \in V : S = Component(v, V, H)
      BY DEF Components
    <2>2. \A v \in V : Closed(Component(v, V, H), V, H)
      BY ComponentIsLeast
    <2> HIDE DEF Gs
    <2>3. \A S \in Gs : S \subseteq V /\ \A e \in Inside(V, H) : e \cap S # {} => e \subseteq S
      BY <2>1, <2>2 DEF Closed
    <2> QED  BY <2>3, FS_Subset DEF Gs
  <1>3. \A R, S \in Gs : R # S => R \cap S = {}
    <2> SUFFICES ASSUME NEW R \in Gs, NEW S \in Gs, NEW v \in R \cap S
                 PROVE  R = S
      OBVIOUS
    <2>1. PICK x, y \in V : R = Component(x, V, H) /\ S = Component(y, V, H)
      BY DEF Components
    <2> QED  BY <2>1, SameComponent
  <1>4. {} \in Good
    <2>1. UNION {} = {} /\ Cardinality({}) = 0 /\ \A F : Components({}, F) = {}
      BY FS_EmptySet DEF Components
    <2>2. p({}, B) = 0 /\ p({}, K) = 0 /\ p({}, L) = 0
      BY <2>1
    <2>3. p(UNION {}, B) + Cardinality({}) <= p(UNION {}, K) + p(UNION {}, L)
      BY <2>1, <2>2
    <2> QED  BY <2>3
  <1> HIDE DEF Gs
  <1>5. ASSUME NEW D \in SUBSET Gs, NEW S \in Gs \ D, D \in Good
        PROVE  D \cup {S} \in Good
    <2> DEFINE U == UNION D
    <2>1. IsFiniteSet(U) /\ IsFiniteSet(S) /\ U \cap S = {} /\ U \subseteq V /\ UNION (D \cup {S}) = U \cup S
      <3>1. U \subseteq V
        BY <1>1
      <3> QED  BY <1>2, <1>3, <3>1, FS_Subset
    <2>2. ASSUME NEW F \in SUBSET H
          PROVE  /\ p(U \cup S, F) = p(U, F) + p(S, F)
                 /\ p(U, F) \in Nat /\ p(S, F) \in Nat
      <3>1. \A e \in Inside(U \cup S, F) : e \in Inside(V, H)
        BY <1>2, <2>1 DEF Inside
      <3>2. Closed(S, U \cup S, F)
        BY <1>2, <3>1 DEF Closed
      <3>3. Closed(U, U \cup S, F)
        <4>1. ASSUME NEW e \in Inside(U \cup S, F), e \cap U # {}
              PROVE  e \subseteq U
          <5>1. PICK R \in D : e \cap R # {}
            BY <4>1
          <5>2. e \subseteq R
            BY <1>2, <3>1, <4>1, <5>1
          <5> QED  BY <5>2
        <4> QED  BY <4>1 DEF Closed
      <3> HIDE DEF U
      <3>4. p(U \cup S, F) = p(U, F) + p(S, F)
        BY <2>1, <3>2, <3>3, PiecesAddUp
      <3> QED  BY <2>1, <3>4, PieceCount
    <2>3. Cardinality(D \cup {S}) = Cardinality(D) + 1 /\ Cardinality(D) \in Nat
      <3>1. IsFiniteSet(D)
        BY <1>1, FS_Subset
      <3> QED  BY <3>1, FS_AddElement, FS_CardinalityType
    <2>4. p(U, B) + Cardinality(D) <= p(U, K) + p(U, L)
      BY <1>5
    <2>5. p(S, B) < p(S, K) + p(S, L)
      BY <1>2
    <2>6. p(U \cup S, B) = p(U, B) + p(S, B) /\ p(U \cup S, K) = p(U, K) + p(S, K) /\ p(U \cup S, L) = p(U, L) + p(S, L)
          /\ p(U, B) \in Nat /\ p(S, B) \in Nat /\ p(U, K) \in Nat /\ p(S, K) \in Nat /\ p(U, L) \in Nat /\ p(S, L) \in Nat
      <3> HIDE DEF U, p
      <3> QED  BY <2>2
    <2> HIDE DEF U, p
    <2>7. p(U \cup S, B) + Cardinality(D \cup {S}) <= p(U \cup S, K) + p(U \cup S, L)
      BY <2>3, <2>4, <2>5, <2>6
    <2> QED  BY <2>1, <2>7
  <1>6. Gs \in Good
    <2> HIDE DEF Good
    <2>1. \A D \in SUBSET Gs : \A S \in Gs \ D : D \in Good => D \cup {S} \in Good
      BY <1>5
    <2>2. \A D \in SUBSET Gs : D \in Good
      BY <1>1, <1>4, <2>1, SubsetInduction
    <2> QED  BY <2>2
  <1> QED  BY <1>1, <1>6 DEF Gs

\* Edges that reach as far as those that keep a label hold the label together.
LEMMA SpannedLabel ==
    ASSUME NEW V, IsFiniteSet(V), NEW E, NEW k, InPieces(k, V, E),
           NEW X \in SUBSET Keeping(k, E), SameClosed(V, X, Keeping(k, E)), NEW T, X \subseteq T
    PROVE  InPieces(k, V, T)
  <1> SUFFICES ASSUME NEW v \in V
               PROVE  Connected({w \in V : k[w] = k[v]}, T)
    BY DEF InPieces
  <1> DEFINE C == {w \in V : k[w] = k[v]}
  <1>1. IsFiniteSet(C) /\ Connected(C, E) /\ C \subseteq V
    BY FS_Subset DEF InPieces
  <1>2. ASSUME NEW D, D # {}, Closed(D, C, T)
        PROVE  D = C
    <2>1. D \subseteq C /\ D \subseteq V
      BY <1>2 DEF Closed
    <2>2. Closed(D, V, X)
      <3>1. ASSUME NEW e \in Inside(V, X), e \cap D # {}
            PROVE  e \subseteq D
        <4>1. e \subseteq V /\ e \in T /\ \A a, b \in e : k[a] = k[b]
          BY DEF Inside, Keeping
        <4>2. e \subseteq C
          BY <2>1, <3>1, <4>1
        <4> QED  BY <1>2, <3>1, <4>1, <4>2 DEF Closed, Inside
      <3> QED  BY <2>1, <3>1 DEF Closed
    <2>3. Closed(D, V, Keeping(k, E))
      BY <2>2 DEF SameClosed
    <2>4. Closed(D, C, E)
      <3>1. ASSUME NEW e \in Inside(C, E), e \cap D # {}
            PROVE  e \subseteq D
        <4>1. e \in Inside(V, Keeping(k, E))
          BY DEF Inside, Keeping
        <4> QED  BY <2>3, <3>1, <4>1 DEF Closed
      <3> QED  BY <2>1, <3>1 DEF Closed
    <2> HIDE DEF C
    <2> QED  BY <1>1, <1>2, <2>4, ConnectedIsClosed
  <1> HIDE DEF C
  <1>3. Connected(C, T)
    BY <1>1, <1>2, ConnectedIsClosed
  <1> QED  BY <1>3 DEF C

\* A connected set that is not empty is one piece.
LEMMA OnePiece ==
    ASSUME NEW S, IsFiniteSet(S), S # {}, NEW E, Connected(S, E)
    PROVE  Cardinality(Components(S, E)) = 1
  <1>1. IsFiniteSet(Components(S, E)) /\ Cardinality(Components(S, E)) \in Nat
    BY PieceCount
  <1>2. Components(S, E) # {}
    BY DEF Components
  <1>3. Cardinality(Components(S, E)) # 0
    BY <1>1, <1>2, FS_EmptySet
  <1> QED  BY <1>1, <1>3 DEF Connected

\* Two sets together have no more elements than the one and the other.
LEMMA AtMostBoth ==
    ASSUME NEW A, NEW B, IsFiniteSet(A), IsFiniteSet(B)
    PROVE  IsFiniteSet(A \cup B) /\ Cardinality(A \cup B) \in Nat
           /\ Cardinality(A \cup B) <= Cardinality(A) + Cardinality(B)
  <1>1. IsFiniteSet(A \cup B) /\ Cardinality(A \cup B) = Cardinality(A) + Cardinality(B) - Cardinality(A \cap B)
    BY FS_Union
  <1>2. Cardinality(A) \in Nat /\ Cardinality(B) \in Nat /\ Cardinality(A \cap B) \in Nat
        /\ Cardinality(A \cup B) \in Nat
    <2>1. IsFiniteSet(A \cap B)
      BY FS_Intersection
    <2> QED  BY <1>1, <2>1, FS_CardinalityType
  <1> QED  BY <1>1, <1>2

\* The pieces of the parts that share both labels and of the groups are no more
\* than those of the one label and of the other.
Balanced(V, E, k, l) ==
    Cardinality(Components(V, Keeping(k, E) \cap Keeping(l, E)))
      + Cardinality(Components(V, Keeping(k, E) \cup Keeping(l, E)))
        <= Cardinality(Components(V, Keeping(k, E))) + Cardinality(Components(V, Keeping(l, E)))

\* Then both labels are in pieces along one tree: joining the parts to labels
\* and the groups to the whole takes no more edges than a tree has.
THEOREM BalancedGivesATree ==
    ASSUME NEW V, IsFiniteSet(V), V # {}, NEW E, IsFiniteSet(E), Links(E), \A e \in E : e \subseteq V,
           Connected(V, E), NEW k, NEW l, InPieces(k, V, E), InPieces(l, V, E), Balanced(V, E, k, l)
    PROVE  \E T \in SUBSET E : IsTree(V, T) /\ InPieces(k, V, T) /\ InPieces(l, V, T)
  <1> DEFINE K == Keeping(k, E)
             L == Keeping(l, E)
             B == K \cap L
             H == K \cup L
             p(F) == Cardinality(Components(V, F))
  <1>1. /\ IsFiniteSet(K) /\ IsFiniteSet(L) /\ IsFiniteSet(B) /\ Links(K) /\ Links(L) /\ Links(B)
        /\ K \subseteq E /\ L \subseteq E /\ B \subseteq E
    <2>1. K \subseteq E /\ L \subseteq E /\ B \subseteq E
      BY DEF Keeping
    <2> HIDE DEF K, L, B
    <2> QED  BY <2>1, FS_Subset DEF Links
  <1>2. p(B) + p(H) <= p(K) + p(L)
    BY DEF Balanced
  <1> HIDE DEF K, L, p
  <1>3. PICK F0 \in SUBSET B : /\ \A D : Closed(D, V, F0) <=> Closed(D, V, B)
                              /\ IsFiniteSet(F0) /\ Cardinality(F0) \in Nat
                              /\ Cardinality(F0) <= Cardinality(V) - p(B)
    <2>1. {} \cup B = B /\ \A X : {} \cup X = X
      OBVIOUS
    <2>2. Cardinality(Components(V, {})) = Cardinality(V)
      BY SinglePieces
    <2> HIDE DEF B
    <2>3. PICK X \in SUBSET B : /\ SameClosed(V, {} \cup X, {} \cup B)
                                /\ IsFiniteSet(X) /\ Cardinality(X) \in Nat
                                /\ Cardinality(X) <= Cardinality(Components(V, {})) - Cardinality(Components(V, {} \cup B))
      BY <1>1, JoinPieces
    <2>4. \A D : Closed(D, V, X) <=> Closed(D, V, B)
      BY <2>1, <2>3 DEF SameClosed
    <2>5. Cardinality(X) <= Cardinality(V) - p(B)
      BY <2>1, <2>2, <2>3 DEF p
    <2> QED  BY <2>3, <2>4, <2>5
  <1>4. ASSUME NEW F, NEW M, F \subseteq M, IsFiniteSet(M), Links(M)
        PROVE  \E X \in SUBSET M : /\ \A D : (Closed(D, V, F) /\ Closed(D, V, X)) <=> Closed(D, V, M)
                                   /\ IsFiniteSet(X) /\ Cardinality(X) \in Nat
                                   /\ Cardinality(X) <= p(F) - p(M)
    <2>1. F \cup M = M
      BY <1>4
    <2>2. PICK X \in SUBSET M : /\ SameClosed(V, F \cup X, F \cup M)
                                /\ IsFiniteSet(X) /\ Cardinality(X) \in Nat
                                /\ Cardinality(X) <= Cardinality(Components(V, F)) - Cardinality(Components(V, F \cup M))
      BY <1>4, JoinPieces
    <2>3. \A D : (Closed(D, V, F) /\ Closed(D, V, X)) <=> Closed(D, V, M)
      BY <2>1, <2>2, ClosedBoth DEF SameClosed
    <2>4. Cardinality(X) <= p(F) - p(M)
      BY <2>1, <2>2 DEF p
    <2> QED  BY <2>2, <2>3, <2>4
  <1>5. PICK X1 \in SUBSET K : /\ \A D : (Closed(D, V, B) /\ Closed(D, V, X1)) <=> Closed(D, V, K)
                              /\ IsFiniteSet(X1) /\ Cardinality(X1) \in Nat
                              /\ Cardinality(X1) <= p(B) - p(K)
    BY <1>1, <1>4
  <1>6. PICK X2 \in SUBSET L : /\ \A D : (Closed(D, V, B) /\ Closed(D, V, X2)) <=> Closed(D, V, L)
                              /\ IsFiniteSet(X2) /\ Cardinality(X2) \in Nat
                              /\ Cardinality(X2) <= p(B) - p(L)
    BY <1>1, <1>4
  <1>7. PICK X3 \in SUBSET E : /\ \A D : (Closed(D, V, H) /\ Closed(D, V, X3)) <=> Closed(D, V, E)
                              /\ IsFiniteSet(X3) /\ Cardinality(X3) \in Nat
                              /\ Cardinality(X3) <= p(H) - p(E)
    BY <1>1, <1>4
  <1> DEFINE Y1 == F0 \cup X1
             Y2 == F0 \cup X2
             T == (Y1 \cup X2) \cup X3
  <1>8. /\ \A D : Closed(D, V, Y1) <=> Closed(D, V, K)
        /\ \A D : Closed(D, V, Y2) <=> Closed(D, V, L)
        /\ \A D : Closed(D, V, T) <=> Closed(D, V, E)
    <2>1. \A D : Closed(D, V, Y1) <=> (Closed(D, V, F0) /\ Closed(D, V, X1))
      BY ClosedBoth
    <2>2. \A D : Closed(D, V, Y2) <=> (Closed(D, V, F0) /\ Closed(D, V, X2))
      BY ClosedBoth
    <2>3. \A D : Closed(D, V, T) <=> (Closed(D, V, Y1) /\ Closed(D, V, X2) /\ Closed(D, V, X3))
      <3> DEFINE Y3 == Y1 \cup X2
      <3>1. \A D : Closed(D, V, T) <=> (Closed(D, V, Y3) /\ Closed(D, V, X3))
        BY ClosedBoth
      <3>2. \A D : Closed(D, V, Y3) <=> (Closed(D, V, Y1) /\ Closed(D, V, X2))
        <4> HIDE DEF Y1
        <4> QED  BY ClosedBoth
      <3> HIDE DEF Y1, Y3, T
      <3> QED  BY <3>1, <3>2
    <2>4. \A D : Closed(D, V, H) <=> (Closed(D, V, K) /\ Closed(D, V, L))
      BY ClosedBoth
    <2> HIDE DEF Y1, Y2, T, H, B
    <2> QED  BY <2>1, <2>2, <2>3, <2>4, <1>3, <1>5, <1>6, <1>7
  <1>9. Y1 \subseteq K /\ Y2 \subseteq L /\ T \subseteq E /\ Y1 \subseteq T /\ Y2 \subseteq T
    BY <1>1, <1>3
  <1>10. IsFiniteSet(T) /\ Cardinality(T) \in Nat
         /\ Cardinality(T) <= Cardinality(F0) + Cardinality(X1) + Cardinality(X2) + Cardinality(X3)
    <2>1. IsFiniteSet(Y1) /\ Cardinality(Y1) \in Nat /\ Cardinality(Y1) <= Cardinality(F0) + Cardinality(X1)
      BY <1>3, <1>5, AtMostBoth
    <2> DEFINE Y3 == Y1 \cup X2
    <2>2. IsFiniteSet(Y3) /\ Cardinality(Y3) \in Nat /\ Cardinality(Y3) <= Cardinality(Y1) + Cardinality(X2)
      <3> HIDE DEF Y1
      <3> QED  BY <1>6, <2>1, AtMostBoth
    <2>3. IsFiniteSet(T) /\ Cardinality(T) \in Nat /\ Cardinality(T) <= Cardinality(Y3) + Cardinality(X3)
      <3> HIDE DEF Y3
      <3>1. IsFiniteSet(Y3 \cup X3) /\ Cardinality(Y3 \cup X3) \in Nat /\ Cardinality(Y3 \cup X3) <= Cardinality(Y3) + Cardinality(X3)
        BY <1>7, <2>2, AtMostBoth
      <3> QED  BY <3>1 DEF Y3
    <2> HIDE DEF Y1, Y3, T
    <2> QED  BY <2>1, <2>2, <2>3, <1>3, <1>5, <1>6, <1>7
  <1> HIDE DEF T, Y1, Y2, H, B
  <1>11. Connected(V, T)
    <2>1. \A D : D # {} /\ Closed(D, V, E) => D = V
      BY ConnectedIsClosed
    <2>2. \A D : D # {} /\ Closed(D, V, T) => D = V
      BY <1>8, <2>1
    <2> QED  BY <2>2, ConnectedIsClosed
  <1>12. Links(T) /\ \A e \in T : e \subseteq V
    BY <1>9 DEF Links
  <1>13. Cardinality(T) = Cardinality(V) - 1
    <2>1. Cardinality(T) >= Cardinality(V) - 1
      <3>1. Inside(V, T) = T
        BY <1>12 DEF Inside
      <3>2. Cardinality(Inside(V, T)) >= Cardinality(V) - 1
        BY <1>10, <1>11, <1>12, EdgesToConnect
      <3> QED  BY <3>1, <3>2
    <2>2. p(E) = 1
      BY OnePiece DEF p
    <2>3. p(B) \in Nat /\ p(K) \in Nat /\ p(L) \in Nat /\ p(H) \in Nat /\ Cardinality(V) \in Nat
      BY PieceCount, FS_CardinalityType DEF p
    <2>4. /\ Cardinality(F0) \in Nat /\ Cardinality(F0) <= Cardinality(V) - p(B)
          /\ Cardinality(X1) \in Nat /\ Cardinality(X1) <= p(B) - p(K)
          /\ Cardinality(X2) \in Nat /\ Cardinality(X2) <= p(B) - p(L)
          /\ Cardinality(X3) \in Nat /\ Cardinality(X3) <= p(H) - p(E)
      BY <1>3, <1>5, <1>6, <1>7
    <2> DEFINE c(S) == Cardinality(S)
    <2>5. c(T) <= c(F0) + c(X1) + c(X2) + c(X3) /\ c(T) \in Nat /\ c(T) >= c(V) - 1
      BY <1>10, <2>1
    <2> HIDE DEF c
    <2>6. c(V) \in Nat /\ c(F0) \in Nat /\ c(X1) \in Nat /\ c(X2) \in Nat /\ c(X3) \in Nat
          /\ c(F0) <= c(V) - p(B) /\ c(X1) <= p(B) - p(K) /\ c(X2) <= p(B) - p(L) /\ c(X3) <= p(H) - 1
      BY <2>2, <2>3, <2>4 DEF c
    <2>7. c(F0) + c(X1) <= c(V) - p(K) /\ c(X2) + c(X3) <= p(B) - p(L) + p(H) - 1
      BY <2>3, <2>6
    <2>8. c(T) <= c(V) - p(K) + p(B) - p(L) + p(H) - 1
      BY <2>3, <2>5, <2>6, <2>7
    <2>9. c(T) <= c(V) - 1
      BY <1>2, <2>3, <2>5, <2>6, <2>8
    <2>10. c(T) = c(V) - 1
      BY <2>5, <2>6, <2>9
    <2> QED  BY <2>10 DEF c
  <1>14. IsTree(V, T)
    BY <1>10, <1>11, <1>12, <1>13 DEF IsTree
  <1>15. InPieces(k, V, T)
    <2>1. Y1 \in SUBSET Keeping(k, E) /\ SameClosed(V, Y1, Keeping(k, E)) /\ Y1 \subseteq T
      BY <1>8, <1>9 DEF SameClosed, K
    <2> QED  BY <2>1, SpannedLabel
  <1>16. InPieces(l, V, T)
    <2>1. Y2 \in SUBSET Keeping(l, E) /\ SameClosed(V, Y2, Keeping(l, E)) /\ Y2 \subseteq T
      BY <1>8, <1>9 DEF SameClosed, L
    <2> QED  BY <2>1, SpannedLabel
  <1> QED  BY <1>9, <1>14, <1>15, <1>16

\* A label is in as many pieces as it has values exactly if every value is in one.
LEMMA PiecesPerLabel ==
    ASSUME NEW V, IsFiniteSet(V), NEW T, NEW k
    PROVE  /\ IsFiniteSet(LabelsOf(k, V)) /\ Cardinality(LabelsOf(k, V)) \in Nat
           /\ Cardinality(LabelsOf(k, V)) <= Cardinality(Components(V, Keeping(k, T)))
           /\ Cardinality(Components(V, Keeping(k, T))) = Cardinality(LabelsOf(k, V)) <=> InPieces(k, V, T)
  <1> DEFINE F == Keeping(k, T)
             C(v) == Component(v, V, F)
             R(v) == {w \in V : k[w] = k[v]}
             Cs == {C(v) : v \in V}
             f == [S \in Cs |-> k[CHOOSE w \in S : TRUE]]
  <1>1. \A v \in V : v \in C(v) /\ C(v) \subseteq V /\ C(v) \subseteq R(v)
    <2> TAKE v \in V
    <2>1. v \in C(v) /\ \A D : v \in D /\ Closed(D, V, F) => C(v) \subseteq D
      BY ComponentIsLeast
    <2>2. Closed(R(v), V, F)
      BY DEF Closed, Inside, Keeping
    <2> HIDE DEF C, F
    <2> QED  BY <2>1, <2>2
  <1>2. \A v \in V : \A u \in C(v) : C(u) = C(v)
    BY SameComponent
  <1>3. \A v \in V : IsFiniteSet(R(v)) /\ IsFiniteSet(C(v)) /\ Closed(C(v), V, F) /\ Connected(C(v), F)
    <2>1. \A v \in V : Closed(C(v), V, F) /\ Connected(C(v), F)
      BY ComponentIsLeast, ComponentConnected
    <2>2. \A v \in V : R(v) \subseteq V
      OBVIOUS
    <2> HIDE DEF R, C
    <2> QED  BY <1>1, <2>1, <2>2, FS_Subset
  <1>4. \A v \in V : C(v) \in Cs /\ f[C(v)] = k[v]
    <2> HIDE DEF C
    <2> TAKE v \in V
    <2>1. (CHOOSE w \in C(v) : TRUE) \in C(v)
      BY <1>1
    <2> QED  BY <1>1, <2>1
  <1>5. f \in Surjection(Cs, LabelsOf(k, V))
    <2>1. DOMAIN f = Cs /\ f = [S \in Cs |-> f[S]]
      OBVIOUS
    <2>2. \A S \in Cs : \E v \in V : S = C(v)
      OBVIOUS
    <2> HIDE DEF f, C, Cs
    <2>3. \A S \in Cs : f[S] \in LabelsOf(k, V)
      BY <1>4, <2>2 DEF LabelsOf
    <2>4. f \in [Cs -> LabelsOf(k, V)]
      BY <2>1, <2>3
    <2>5. \A x \in LabelsOf(k, V) : \E S \in Cs : f[S] = x
      BY <1>4 DEF LabelsOf
    <2> QED  BY <2>4, <2>5 DEF Surjection
  <1>6. Cs = Components(V, F) /\ IsFiniteSet(Cs) /\ Cardinality(Cs) \in Nat
    <2>1. Cs = Components(V, F)
      BY DEF Components
    <2> QED  BY <2>1, PieceCount
  <1>7. f \in Injection(Cs, LabelsOf(k, V)) <=> \A u, v \in V : k[u] = k[v] => C(u) = C(v)
    <2>1. \A S \in Cs : \E v \in V : S = C(v)
      OBVIOUS
    <2> HIDE DEF f, C, Cs
    <2>2. f \in [Cs -> LabelsOf(k, V)]
      BY <1>5 DEF Surjection
    <2>3. f \in Injection(Cs, LabelsOf(k, V)) <=> \A a, b \in Cs : f[a] = f[b] => a = b
      BY <2>2 DEF Injection, IsInjective
    <2> QED  BY <1>4, <2>1, <2>3
  <1>8. (\A u, v \in V : k[u] = k[v] => C(u) = C(v)) <=> InPieces(k, V, T)
    <2>1. ASSUME \A u, v \in V : k[u] = k[v] => C(u) = C(v), NEW v \in V
          PROVE  Connected(R(v), T)
      <3>1. R(v) = C(v)
        <4>1. \A w \in R(v) : C(w) = C(v)
          BY <2>1
        <4> HIDE DEF C
        <4> QED  BY <1>1, <4>1
      <3>2. IsFiniteSet(C(v)) /\ Connected(C(v), F) /\ Inside(C(v), F) \subseteq T
        <4>1. \A S : Inside(S, F) \subseteq T
          BY DEF Inside, Keeping
        <4> HIDE DEF C, F
        <4> QED  BY <1>3, <4>1
      <3> HIDE DEF C, F
      <3>3. Connected(C(v), T)
        BY <3>2, ConnectedMore
      <3> QED  BY <3>1, <3>3
    <2>2. ASSUME InPieces(k, V, T), NEW u \in V, NEW v \in V, k[u] = k[v]
          PROVE  C(u) = C(v)
      <3>1. R(u) = R(v)
        BY <2>2
      <3>2. \A x \in V : C(x) = R(x)
        <4> TAKE x \in V
        <4>1. C(x) \subseteq R(x) /\ x \in C(x) /\ Closed(C(x), V, F)
          BY <1>1, <1>3
        <4>2. Closed(C(x), R(x), T)
          <5> HIDE DEF C
          <5>1. ASSUME NEW e \in Inside(R(x), T), e \cap C(x) # {}
                PROVE  e \subseteq C(x)
            <6>1. e \in Inside(V, F)
              BY DEF Inside, Keeping
            <6> QED  BY <4>1, <5>1, <6>1 DEF Closed
          <5> QED  BY <4>1, <5>1 DEF Closed
        <4>3. Connected(R(x), T) /\ IsFiniteSet(R(x))
          BY <1>3, <2>2 DEF InPieces
        <4> HIDE DEF C, R
        <4> QED  BY <4>1, <4>2, <4>3, ConnectedIsClosed
      <3> HIDE DEF C, R
      <3> QED  BY <3>1, <3>2
    <2> HIDE DEF C
    <2> QED  BY <2>1, <2>2 DEF InPieces
  <1> HIDE DEF f, C, Cs
  <1>9. /\ IsFiniteSet(LabelsOf(k, V)) /\ Cardinality(LabelsOf(k, V)) <= Cardinality(Cs)
        /\ Cardinality(LabelsOf(k, V)) = Cardinality(Cs) <=> f \in Injection(Cs, LabelsOf(k, V))
    BY <1>5, <1>6, FS_Surjection
  <1>10. Cardinality(LabelsOf(k, V)) \in Nat
    BY <1>9, FS_CardinalityType
  <1> QED  BY <1>6, <1>7, <1>8, <1>9, <1>10

\* A tree is in pieces of a label exactly if it leaves them as seldom as it can.
THEOREM SeldomLeft ==
    ASSUME NEW V, NEW T, IsTree(V, T), NEW k
    PROVE  InPieces(k, V, T) <=> Cardinality(T \ Keeping(k, T)) = Cardinality(LabelsOf(k, V)) - 1
  <1> DEFINE F == Keeping(k, T)
             c == Cardinality(Components(V, F))
             n == Cardinality(LabelsOf(k, V))
  <1>1. IsFiniteSet(V) /\ IsFiniteSet(T) /\ Cardinality(T) = Cardinality(V) - 1 /\ F \in SUBSET Inside(V, T) /\ F \subseteq T
        /\ Cardinality(V) \in Nat
    <2>1. F \in SUBSET Inside(V, T) /\ F \subseteq T
      BY DEF IsTree, Keeping, Inside
    <2> QED  BY <2>1, FS_CardinalityType DEF IsTree
  <1>2. c = n <=> InPieces(k, V, T)
    BY <1>1, PiecesPerLabel
  <1> HIDE DEF F
  <1>3. c + Cardinality(F) = Cardinality(V) /\ Cardinality(F) \in Nat /\ IsFiniteSet(F)
    BY <1>1, PiecesInTree
  <1>4. Cardinality(T \ F) = Cardinality(T) - Cardinality(F)
    <2>1. T \cap F = F
      BY <1>1
    <2>2. Cardinality(T \ F) = Cardinality(T) - Cardinality(T \cap F)
      BY <1>1, FS_Difference
    <2> QED  BY <2>1, <2>2
  <1>5. c \in Nat /\ n \in Nat
    BY <1>1, PiecesPerLabel, PieceCount
  <1> HIDE DEF c, n
  <1>6. Cardinality(T \ F) = n - 1 <=> c = n
    BY <1>1, <1>3, <1>4, <1>5
  <1> QED  BY <1>2, <1>6 DEF F, n

\* A tree that both labels are in pieces of has both labels.
LEMMA TreeHasTwoLabels ==
    ASSUME NEW V, NEW T, IsTree(V, T), NEW E, T \subseteq E, \A e \in E : e \subseteq V,
           NEW k, NEW l, InPieces(k, V, T), InPieces(l, V, T)
    PROVE  TwoLabels(V, T, E, k, l)
  <1>1. ASSUME NEW v \in V
        PROVE  Connected({w \in V : k[w] = k[v] /\ l[w] = l[v]}, T)
    <2> DEFINE P == {w \in V : k[w] = k[v]}
               Q == {w \in V : l[w] = l[v]}
    <2>1. Connected(P, T) /\ Connected(Q, T) /\ P \in SUBSET V /\ Q \in SUBSET V
      BY DEF InPieces
    <2>2. P \cap Q = {w \in V : k[w] = k[v] /\ l[w] = l[v]}
      OBVIOUS
    <2> HIDE DEF P, Q
    <2>3. Connected(P \cap Q, T)
      BY <2>1, CommonPart
    <2> QED  BY <2>2, <2>3
  <1> QED  BY <1>1 DEF TwoLabels

\* With more edges there are no more pieces.
LEMMA MoreEdgesFewerPieces ==
    ASSUME NEW S, IsFiniteSet(S), NEW E, IsFiniteSet(E), Links(E), NEW F, F \subseteq E
    PROVE  /\ Cardinality(Components(S, E)) \in Nat /\ Cardinality(Components(S, F)) \in Nat
           /\ Cardinality(Components(S, E)) <= Cardinality(Components(S, F))
  <1>1. F \cup E = E
    OBVIOUS
  <1>2. PICK X \in SUBSET E :
           /\ SameClosed(S, F \cup X, F \cup E)
           /\ IsFiniteSet(X) /\ Cardinality(X) \in Nat
           /\ Cardinality(X) <= Cardinality(Components(S, F)) - Cardinality(Components(S, F \cup E))
    BY JoinPieces
  <1>3. Cardinality(Components(S, E)) \in Nat /\ Cardinality(Components(S, F)) \in Nat
    BY PieceCount
  <1> DEFINE x == Cardinality(X)
             e == Cardinality(Components(S, E))
             f == Cardinality(Components(S, F))
  <1>4. x \in Nat /\ x <= f - e /\ e \in Nat /\ f \in Nat
    BY <1>1, <1>2, <1>3
  <1> HIDE DEF x, e, f
  <1>5. e <= f
    BY <1>4
  <1> QED  BY <1>3, <1>5 DEF e, f

\* An edge between pieces makes more edges leave fewer pieces.
LEMMA EdgeFewerPieces ==
    ASSUME NEW S, IsFiniteSet(S), NEW E, IsFiniteSet(E), Links(E), NEW F, F \subseteq E,
           NEW x \in S, NEW y \in S, {x, y} \in E, y \notin Component(x, S, F)
    PROVE  Cardinality(Components(S, E)) < Cardinality(Components(S, F))
  <1> DEFINE G == F \cup {{x, y}}
             p(H) == Cardinality(Components(S, H))
  <1>1. p(F) = p(G) + 1
    BY OneFewerPiece
  <1>2. G \subseteq E
    OBVIOUS
  <1> HIDE DEF G
  <1>3. p(E) <= p(G) /\ p(E) \in Nat /\ p(G) \in Nat
    BY <1>2, MoreEdgesFewerPieces
  <1> HIDE DEF p
  <1>4. p(E) < p(F)
    BY <1>1, <1>3
  <1> QED  BY <1>4 DEF p

\* No two sets of edges have less than what they share and what they are together.
THEOREM NoLessThanBalanced ==
    ASSUME NEW V, IsFiniteSet(V), NEW K, IsFiniteSet(K), Links(K), NEW L, IsFiniteSet(L), Links(L)
    PROVE  Cardinality(Components(V, K)) + Cardinality(Components(V, L))
              <= Cardinality(Components(V, K \cap L)) + Cardinality(Components(V, K \cup L))
  <1> DEFINE B == K \cap L
             H == K \cup L
             p(F) == Cardinality(Components(V, F))
  <1>1. B \cup K = K
    OBVIOUS
  <1>2. PICK X \in SUBSET K : /\ SameClosed(V, B \cup X, B \cup K) /\ IsFiniteSet(X) /\ Cardinality(X) \in Nat
                              /\ Cardinality(X) <= p(B) - p(B \cup K)
    <2> HIDE DEF B
    <2> QED  BY JoinPieces
  <1>3. SameClosed(V, L \cup X, H)
    <2> SUFFICES ASSUME NEW D
                 PROVE  Closed(D, V, L \cup X) <=> Closed(D, V, H)
      BY DEF SameClosed
    <2>1. Closed(D, V, L \cup X) <=> (Closed(D, V, L) /\ Closed(D, V, X))
      BY ClosedBoth
    <2>2. Closed(D, V, H) <=> (Closed(D, V, K) /\ Closed(D, V, L))
      BY ClosedBoth
    <2>3. Closed(D, V, L) => Closed(D, V, B)
      BY DEF Closed, Inside
    <2>4. (Closed(D, V, B) /\ Closed(D, V, X)) <=> Closed(D, V, K)
      <3>1. Closed(D, V, B \cup X) <=> Closed(D, V, K)
        BY <1>1, <1>2 DEF SameClosed
      <3> HIDE DEF B
      <3> QED  BY <3>1, ClosedBoth
    <2> HIDE DEF B, H
    <2> QED  BY <2>1, <2>2, <2>3, <2>4
  <1>4. p(L \cup X) = p(H)
    <2> HIDE DEF H
    <2> QED  BY <1>3, SamePieces
  <1>5. p(L) <= p(L \cup X) + Cardinality(X)
    <2>1. Links(X)
      BY DEF Links
    <2> QED  BY <1>2, <2>1, EdgesJoinPieces
  <1>6. p(K) \in Nat /\ p(L) \in Nat /\ p(B) \in Nat /\ p(H) \in Nat
    BY PieceCount
  <1>7. Cardinality(X) \in Nat /\ Cardinality(X) <= p(B) - p(K)
    BY <1>1, <1>2
  <1> HIDE DEF p, B, H
  <1>8. p(K) + p(L) <= p(B) + p(H)
    BY <1>4, <1>5, <1>6, <1>7
  <1> QED  BY <1>8 DEF p, B, H

\* On a tree two values of one label do not share two values of the other.
LEMMA ShareOneLabel ==
    ASSUME NEW V, NEW T, IsTree(V, T), NEW k, NEW l, InPieces(k, V, T), InPieces(l, V, T),
           NEW a \in V, NEW b \in V, NEW c \in V, NEW d \in V,
           k[a] = k[b], k[c] = k[d], l[a] = l[c], l[b] = l[d]
    PROVE  k[a] = k[c] \/ l[a] = l[b]
  <1> SUFFICES ASSUME k[a] # k[c], l[a] # l[b]
               PROVE  FALSE
    OBVIOUS
  <1> DEFINE K1 == {w \in V : k[w] = k[a]}
             K2 == {w \in V : k[w] = k[c]}
             L1 == {w \in V : l[w] = l[a]}
             L2 == {w \in V : l[w] = l[b]}
             X == L1 \cup K1
             Y == L2 \cup K2
             M == X \cap Y
             D == L1 \cap K2
  <1>1. IsFiniteSet(V) /\ Links(T)
    BY DEF IsTree
  <1>2. /\ Connected(K1, T) /\ Connected(K2, T) /\ Connected(L1, T) /\ Connected(L2, T)
        /\ K1 \in SUBSET V /\ K2 \in SUBSET V /\ L1 \in SUBSET V /\ L2 \in SUBSET V
        /\ IsFiniteSet(K1) /\ IsFiniteSet(K2) /\ IsFiniteSet(L1) /\ IsFiniteSet(L2)
    <2>1. K1 \in SUBSET V /\ K2 \in SUBSET V /\ L1 \in SUBSET V /\ L2 \in SUBSET V
      OBVIOUS
    <2>2. Connected(K1, T) /\ Connected(K2, T) /\ Connected(L1, T) /\ Connected(L2, T)
      BY DEF InPieces
    <2> HIDE DEF K1, K2, L1, L2
    <2> QED  BY <1>1, <2>1, <2>2, FS_Subset
  <1>3. /\ a \in L1 /\ a \in K1 /\ b \in L2 /\ b \in K1 /\ c \in L1 /\ c \in K2 /\ d \in L2 /\ d \in K2
        /\ K1 \cap K2 = {} /\ L1 \cap L2 = {}
    OBVIOUS
  <1> HIDE DEF K1, K2, L1, L2
  <1>4. Connected(X, T) /\ Connected(Y, T) /\ X \in SUBSET V /\ Y \in SUBSET V
    BY <1>2, <1>3, MeetingParts
  <1>5. Connected(M, T) /\ IsFiniteSet(M)
    <2> HIDE DEF X, Y
    <2>1. Connected(X \cap Y, T)
      BY <1>4, CommonPart
    <2> QED  BY <1>1, <1>4, <2>1, FS_Subset
  <1>6. M = D \cup (L2 \cap K1)
    BY <1>3
  <1>7. c \in D /\ b \in M /\ b \notin D /\ D \subseteq M
    BY <1>3
  <1>8. ~Closed(D, M, T)
    <2> HIDE DEF D, M
    <2> QED  BY <1>5, <1>7, ConnectedIsClosed
  <1>9. PICK e \in T : e \subseteq M /\ e \cap D # {} /\ ~(e \subseteq D)
    <2> HIDE DEF D, M
    <2> QED  BY <1>7, <1>8 DEF Closed, Inside
  <1>10. PICK u, v : e = {u, v} /\ u # v /\ u \in D /\ v \notin D /\ u \in M /\ v \in M
    <2>1. PICK x, y : x # y /\ e = {x, y}
      BY <1>1 DEF Links
    <2> HIDE DEF D, M
    <2> QED  BY <1>9, <2>1
  <1>11. u \in L1 /\ u \in K2 /\ v \in L2 /\ v \in K1 /\ {u, v} \in T
    BY <1>6, <1>10
  <1>12. v \notin L1 /\ u \notin K1
    BY <1>3, <1>11
  <1>13. L1 \cap K1 = {}
    BY <1>2, <1>10, <1>11, <1>12, JoinedPartsAreApart
  <1> QED  BY <1>3, <1>13

-----------------------------------------------------------------------------
(* Trees hung from a root. *)

\* In the tree T on S, hung from root, v hangs from p.
Hangs(S, T, root, v, p) == {v, p} \in T /\ v # p /\ root \in SideOf(S, T, p, v)

\* What hangs from a vertex is on one side of any other edge there.
LEMMA NestedSides ==
    ASSUME NEW S, NEW T, IsTree(S, T), NEW v, NEW p, NEW q, {v, p} \in T, {v, q} \in T, v # p, v # q, p # q
    PROVE  SideOf(S, T, q, v) \subseteq SideOf(S, T, v, p) \ {v}
  <1> DEFINE A == SideOf(S, T, v, p)
             B == SideOf(S, T, p, v)
             P == SideOf(S, T, q, v)
             Q == SideOf(S, T, v, q)
  <1>1. CutInTwo(S, T, v, p, A, B) /\ CutInTwo(S, T, v, q, Q, P)
    BY TreeCut
  <1>2. /\ v \in A /\ p \in B /\ A \cup B = S /\ A \cap B = {}
        /\ \A f \in T \ {{v, p}} : f \subseteq A \/ f \subseteq B
        /\ v \in Q /\ q \in P /\ P \cup Q = S /\ P \cap Q = {}
        /\ \A f \in T \ {{v, q}} : f \subseteq P \/ f \subseteq Q
        /\ IsTree(P, Inside(P, T))
    BY <1>1 DEF CutInTwo, Sides
  <1> HIDE DEF A, B, P, Q
  <1>3. {v, p} # {v, q}
    OBVIOUS
  <1>4. q \in A /\ v \notin P
    BY <1>2, <1>3
  <1>5. Closed(P \cap A, P, Inside(P, T))
    <2>1. ASSUME NEW f \in Inside(P, Inside(P, T)), f \cap (P \cap A) # {}
          PROVE  f \subseteq P \cap A
      <3>1. f \in T /\ f \subseteq P /\ f # {v, p}
        BY <1>4, <2>1 DEF Inside
      <3>2. f \subseteq A \/ f \subseteq B
        BY <1>2, <3>1
      <3> QED  BY <1>2, <2>1, <3>1, <3>2
    <2> QED  BY <2>1 DEF Closed
  <1>6. q \in P \cap A /\ IsFiniteSet(P) /\ Connected(P, Inside(P, T))
    BY <1>2, <1>4 DEF IsTree
  <1>7. P \cap A = P
    <2>1. P \cap A # {}
      BY <1>6
    <2> QED  BY <1>5, <1>6, <2>1, ConnectedIsClosed
  <1>8. P \subseteq A \ {v}
    BY <1>4, <1>7
  <1> QED  BY <1>8 DEF P, A

\* An edge hangs one way round, and nothing hangs the root.
LEMMA HangsOneWay ==
    ASSUME NEW S, NEW T, IsTree(S, T), NEW root \in S, NEW v, NEW p, {v, p} \in T, v # p
    PROVE  /\ Hangs(S, T, root, v, p) <=> ~Hangs(S, T, root, p, v)
           /\ Hangs(S, T, root, v, p) => v # root /\ root \notin SideOf(S, T, v, p)
           /\ v \in S /\ p \in S /\ v \in SideOf(S, T, v, p) /\ p \notin SideOf(S, T, v, p)
           /\ SideOf(S, T, v, p) \in SUBSET S /\ SideOf(S, T, p, v) = S \ SideOf(S, T, v, p)
  <1> DEFINE A == SideOf(S, T, v, p)
             B == SideOf(S, T, p, v)
  <1>1. CutInTwo(S, T, v, p, A, B)
    BY TreeCut
  <1>2. v \in A /\ p \in B /\ A \cup B = S /\ A \cap B = {} /\ B = S \ A
    BY <1>1 DEF CutInTwo, Sides
  <1>3. {p, v} = {v, p}
    OBVIOUS
  <1>4. /\ Hangs(S, T, root, v, p) <=> root \in B
        /\ Hangs(S, T, root, p, v) <=> root \in A
    BY <1>3 DEF Hangs
  <1> HIDE DEF A, B
  <1>5. /\ Hangs(S, T, root, v, p) <=> ~Hangs(S, T, root, p, v)
        /\ Hangs(S, T, root, v, p) => v # root /\ root \notin A
        /\ v \in S /\ p \in S /\ v \in A /\ p \notin A /\ A \in SUBSET S /\ B = S \ A
    BY <1>2, <1>4
  <1> QED  BY <1>5 DEF A, B

\* A vertex hangs from one vertex.
LEMMA OneAbove ==
    ASSUME NEW S, NEW T, IsTree(S, T), NEW root \in S, NEW v, NEW p, NEW q,
           Hangs(S, T, root, v, p), Hangs(S, T, root, v, q)
    PROVE  p = q
  <1> SUFFICES ASSUME p # q
               PROVE  FALSE
    OBVIOUS
  <1>1. {v, p} \in T /\ {v, q} \in T /\ v # p /\ v # q /\ root \in SideOf(S, T, q, v)
    BY DEF Hangs
  <1>2. root \in SideOf(S, T, v, p)
    BY <1>1, NestedSides
  <1> QED  BY <1>1, <1>2, HangsOneWay

\* The other neighbours of a vertex hang from it.
LEMMA OthersHang ==
    ASSUME NEW S, NEW T, IsTree(S, T), NEW root \in S, NEW v, NEW p, NEW c,
           Hangs(S, T, root, v, p), {v, c} \in T, v # c, c # p
    PROVE  Hangs(S, T, root, c, v)
  <1>1. {c, v} = {v, c}
    OBVIOUS
  <1>2. ~Hangs(S, T, root, v, c)
    BY OneAbove
  <1> QED  BY <1>1, <1>2, HangsOneWay

\* The vertices next to v.
NextTo(T, S, v) == {u \in S : {v, u} \in T /\ u # v}

\* What is below an edge is its lower end and what hangs from that.
LEMMA SideIs ==
    ASSUME NEW S, NEW T, IsTree(S, T), NEW v, NEW p, {v, p} \in T, v # p
    PROVE  /\ SideOf(S, T, v, p) = {v} \cup UNION {SideOf(S, T, c, v) : c \in NextTo(T, S, v) \ {p}}
           /\ \A c \in NextTo(T, S, v) \ {p} : v \notin SideOf(S, T, c, v)
           /\ \A c, d \in NextTo(T, S, v) \ {p} : c # d => SideOf(S, T, c, v) \cap SideOf(S, T, d, v) = {}
  <1> DEFINE C == NextTo(T, S, v) \ {p}
             A == SideOf(S, T, v, p)
             D == {v} \cup UNION {SideOf(S, T, c, v) : c \in C}
  <1>1. \A c \in C : {v, c} \in T /\ v # c /\ c # p /\ c \in S
    BY DEF NextTo
  <1> HIDE DEF C
  <1>2. ASSUME NEW c \in C
        PROVE  /\ SideOf(S, T, c, v) \subseteq A \ {v} /\ CutInTwo(S, T, c, v, SideOf(S, T, c, v), SideOf(S, T, v, c))
               /\ c \in SideOf(S, T, c, v)
    <2>1. {v, c} \in T /\ v # c /\ c # p /\ {c, v} \in T
      <3>1. {v, c} = {c, v}
        OBVIOUS
      <3> QED  BY <1>1, <3>1
    <2>2. CutInTwo(S, T, c, v, SideOf(S, T, c, v), SideOf(S, T, v, c))
      BY <2>1, TreeCut
    <2> QED  BY <2>1, <2>2, NestedSides DEF CutInTwo, Sides
  <1>3. IsFiniteSet(S) /\ v \in S /\ Links(T) /\ \A e \in T : e \subseteq S
    BY DEF IsTree
  <1>4. v \in A /\ A \subseteq S /\ A = Component(v, S, T \ {{v, p}})
        /\ \A X : v \in X /\ Closed(X, S, T \ {{v, p}}) => A \subseteq X
    <2> DEFINE E == T \ {{v, p}}
               K == Component(v, S, E)
    <2>1. A = K
      BY DEF SideOf
    <2> HIDE DEF A, E
    <2>2. v \in K /\ Closed(K, S, E) /\ \A X : v \in X /\ Closed(X, S, E) => K \subseteq X
      BY <1>3, ComponentIsLeast
    <2>3. K \subseteq S
      BY <2>2 DEF Closed
    <2> QED  BY <2>1, <2>2, <2>3 DEF E
  <1> HIDE DEF A
  <1>5. D \subseteq A
    BY <1>2, <1>4
  <1>6. Closed(D, S, T \ {{v, p}})
    <2>1. D \subseteq S
      BY <1>4, <1>5
    <2>2. ASSUME NEW f \in Inside(S, T \ {{v, p}}), f \cap D # {}
          PROVE  f \subseteq D
      <3>1. f \in T /\ f # {v, p} /\ f \subseteq S
        BY <2>2 DEF Inside
      <3>2. PICK a, b : a # b /\ f = {a, b}
        BY <1>3, <3>1 DEF Links
      <3>3. CASE v \in f
        <4>1. PICK c : f = {v, c} /\ c # v
          BY <3>2, <3>3
        <4>2. c \in C
          BY <3>1, <4>1 DEF C, NextTo
        <4>3. c \in SideOf(S, T, c, v)
          BY <1>2, <4>2
        <4> QED  BY <4>1, <4>2, <4>3
      <3>4. CASE v \notin f
        <4>1. PICK c \in C : f \cap SideOf(S, T, c, v) # {}
          BY <2>2, <3>4
        <4>2. f \in T \ {{c, v}}
          BY <3>1, <3>4
        <4>3. f \subseteq SideOf(S, T, c, v)
          BY <1>2, <4>1, <4>2 DEF CutInTwo, Sides
        <4> QED  BY <4>3
      <3> QED  BY <3>3, <3>4
    <2> HIDE DEF D
    <2> QED  BY <2>1, <2>2 DEF Closed
  <1>7. A \subseteq D
    <2>1. v \in D
      OBVIOUS
    <2> HIDE DEF D
    <2> QED  BY <1>4, <1>6, <2>1
  <1>8. ASSUME NEW c \in C, NEW d \in C, c # d
        PROVE  SideOf(S, T, c, v) \cap SideOf(S, T, d, v) = {}
    <2>1. {v, c} \in T /\ {v, d} \in T /\ v # c /\ v # d
      BY <1>1
    <2>2. SideOf(S, T, c, v) \subseteq SideOf(S, T, v, d)
      BY <1>8, <2>1, NestedSides
    <2>3. SideOf(S, T, v, d) \cap SideOf(S, T, d, v) = {}
      BY <1>2 DEF CutInTwo, Sides
    <2> QED  BY <2>2, <2>3
  <1>9. A = D
    BY <1>5, <1>7
  <1>10. \A c \in C : v \notin SideOf(S, T, c, v)
    BY <1>2
  <1> QED  BY <1>8, <1>9, <1>10 DEF A, C

\* What parts without overlap add up to.
THEOREM TotalOfFamily ==
    ASSUME NEW C, IsFiniteSet(C), NEW A, \A c \in C : IsFiniteSet(A[c]),
           \A c, d \in C : c # d => A[c] \cap A[d] = {},
           NEW f, \A c \in C : \A y \in A[c] : f[y] \in Int,
           NEW g, \A c \in C : g[c] = Total(f, A[c]),
           NEW U, U = UNION {A[c] : c \in C}
    PROVE  IsFiniteSet(U) /\ (\A y \in U : f[y] \in Int) /\ Total(f, U) = Total(g, C)
  <1> DEFINE All(D) == UNION {A[c] : c \in D}
             Good == {D \in SUBSET C : IsFiniteSet(All(D)) /\ Total(f, All(D)) = Total(g, D)}
  <1>1. {} \in Good
    <2>1. All({}) = {}
      OBVIOUS
    <2>2. Total(f, {}) = 0 /\ Total(g, {}) = 0 /\ IsFiniteSet({})
      BY TotalOfNone, FS_EmptySet
    <2> QED  BY <2>1, <2>2
  <1>2. ASSUME NEW D \in SUBSET C, NEW x \in C \ D, D \in Good
        PROVE  D \cup {x} \in Good
    <2>1. All(D \cup {x}) = All(D) \cup A[x] /\ All(D) \cap A[x] = {}
      OBVIOUS
    <2>2. IsFiniteSet(All(D)) /\ Total(f, All(D)) = Total(g, D) /\ IsFiniteSet(A[x])
      BY <1>2
    <2>3. \A y \in All(D) \cup A[x] : f[y] \in Int
      OBVIOUS
    <2>4. IsFiniteSet(D) /\ \A c \in C : g[c] \in Int
      <3>1. ASSUME NEW c \in C
            PROVE  g[c] \in Int
        <4>1. Total(f, A[c]) \in Int
          BY TotalType
        <4> QED  BY <4>1
      <3> QED  BY <3>1, FS_Subset
    <2> DEFINE W == All(D)
               V == A[x]
    <2> HIDE DEF All
    <2>5. Total(f, W \cup V) = Total(f, W) + Total(f, V) /\ IsFiniteSet(W \cup V)
      <3>1. W \cap V = {} /\ IsFiniteSet(W) /\ IsFiniteSet(V) /\ \A y \in W \cup V : f[y] \in Int
        BY <2>1, <2>2, <2>3
      <3> HIDE DEF W, V
      <3>2. IsFiniteSet(W \cup V)
        BY <3>1, FS_Union
      <3>3. Total(f, W \cup V) = Total(f, W) + Total(f, V)
        BY <3>1, TotalOfUnion
      <3> QED  BY <3>2, <3>3
    <2>6. Total(g, D \cup {x}) = Total(g, D) + g[x]
      BY <2>4, TotalAdd
    <2>7. g[x] = Total(f, V)
      OBVIOUS
    <2>8. Total(f, All(D \cup {x})) = Total(g, D \cup {x}) /\ IsFiniteSet(All(D \cup {x}))
      <3>1. All(D \cup {x}) = W \cup V
        BY <2>1
      <3> HIDE DEF V
      <3> QED  BY <2>2, <2>5, <2>6, <2>7, <3>1
    <2> QED  BY <2>8
  <1>3. C \in Good
    <2> HIDE DEF Good
    <2> QED  BY <1>1, <1>2, SubsetInduction
  <1> QED  BY <1>3

\* The weight below an edge is that of its lower end and of what hangs from it.
THEOREM WeightBelow ==
    ASSUME NEW S, NEW T, IsTree(S, T), NEW v, NEW p, {v, p} \in T, v # p, NEW w, \A y \in S : w[y] \in Int,
           NEW C, C = NextTo(T, S, v) \ {p}, NEW below, \A c \in C : below[c] = Total(w, SideOf(S, T, c, v))
    PROVE  Total(w, SideOf(S, T, v, p)) = w[v] + Total(below, C)
  <1> DEFINE A == [c \in C |-> SideOf(S, T, c, v)]
             R == UNION {A[c] : c \in C}
  <1>1. IsFiniteSet(S) /\ v \in S /\ C \in SUBSET S /\ IsFiniteSet(C) /\ \A c \in C : {c, v} \in T /\ c # v
    <2>1. \A c : {c, v} = {v, c}
      OBVIOUS
    <2>2. IsFiniteSet(S) /\ v \in S /\ C \in SUBSET S /\ \A c \in C : {c, v} \in T /\ c # v
      BY <2>1 DEF IsTree, NextTo
    <2> QED  BY <2>2, FS_Subset
  <1>2. /\ SideOf(S, T, v, p) = {v} \cup UNION {SideOf(S, T, c, v) : c \in C}
        /\ \A c \in C : v \notin SideOf(S, T, c, v)
        /\ \A c, d \in C : c # d => SideOf(S, T, c, v) \cap SideOf(S, T, d, v) = {}
    BY SideIs
  <1>3. \A c \in C : below[c] = Total(w, SideOf(S, T, c, v))
    OBVIOUS
  <1>4. \A c \in C : A[c] = SideOf(S, T, c, v) /\ A[c] \in SUBSET S /\ IsFiniteSet(A[c])
    <2> TAKE c \in C
    <2>1. A[c] = SideOf(S, T, c, v)
      OBVIOUS
    <2>2. \E b : CutInTwo(S, T, c, v, SideOf(S, T, c, v), b)
      BY <1>1, TreeCut
    <2>3. SideOf(S, T, c, v) \in SUBSET S
      BY <2>2 DEF CutInTwo, Sides
    <2> QED  BY <1>1, <2>1, <2>3, FS_Subset
  <1>5. R = UNION {SideOf(S, T, c, v) : c \in C} /\ v \notin R
    BY <1>2, <1>4
  <1> HIDE DEF A
  <1>6. IsFiniteSet(R) /\ (\A y \in R : w[y] \in Int) /\ Total(w, R) = Total(below, C)
    <2>1. \A c, d \in C : c # d => A[c] \cap A[d] = {}
      BY <1>2, <1>4
    <2>2. \A c \in C : \A y \in A[c] : w[y] \in Int
      BY <1>4
    <2>3. \A c \in C : below[c] = Total(w, A[c])
      BY <1>3, <1>4
    <2>4. \A c \in C : IsFiniteSet(A[c])
      BY <1>4
    <2>5. IsFiniteSet(C)
      BY <1>1
    <2>6. R = UNION {A[c] : c \in C}
      OBVIOUS
    <2> HIDE DEF R
    <2> QED  BY <2>1, <2>2, <2>3, <2>4, <2>5, <2>6, TotalOfFamily
  <1>7. SideOf(S, T, v, p) = R \cup {v}
    BY <1>2, <1>5
  <1> HIDE DEF R
  <1>8. Total(w, R \cup {v}) = Total(w, R) + w[v] /\ w[v] \in Int /\ Total(w, R) \in Int
    <2>1. w[v] \in Int /\ IsFiniteSet(R) /\ \A y \in R : w[y] \in Int
      BY <1>1, <1>6
    <2>2. Total(w, R) \in Int
      BY <2>1, TotalType
    <2>3. Total(w, R \cup {v}) = Total(w, R) + w[v]
      BY <1>5, <2>1, TotalAdd
    <2> QED  BY <2>1, <2>2, <2>3
  <1> QED  BY <1>6, <1>7, <1>8

\* Two trees joined by an edge between a and b.
JoinedBy(S, G, A, P, B, Q, a, b) ==
    /\ IsTree(A, P) /\ IsTree(B, Q) /\ A \cap B = {} /\ a \in A /\ b \in B
    /\ S = A \cup B /\ G = P \cup Q \cup {{a, b}}

\* The three kinds of edges do not mix.
EdgesApart(G, A, P, B, Q, a, b) ==
    /\ P \subseteq G /\ Q \subseteq G /\ {a, b} \in G /\ a # b
    /\ \A f \in P : f \subseteq A /\ f # {} /\ f # {a, b}
    /\ \A f \in Q : f \subseteq B /\ f # {} /\ f # {a, b} /\ f \notin P

\* Either tree is the first.
LEMMA JoinedEitherWay ==
    ASSUME NEW S, NEW G, NEW A, NEW P, NEW B, NEW Q, NEW a, NEW b, JoinedBy(S, G, A, P, B, Q, a, b)
    PROVE  JoinedBy(S, G, B, Q, A, P, b, a)
  <1>1. {a, b} = {b, a}
    OBVIOUS
  <1> QED  BY <1>1 DEF JoinedBy

\* No edge of one tree is one of the other, nor joins them.
LEMMA JoinedEdges ==
    ASSUME NEW S, NEW G, NEW A, NEW P, NEW B, NEW Q, NEW a, NEW b, JoinedBy(S, G, A, P, B, Q, a, b)
    PROVE  EdgesApart(G, A, P, B, Q, a, b)
  <1>1. /\ IsTree(A, P) /\ IsTree(B, Q) /\ A \cap B = {} /\ a \in A /\ b \in B
        /\ G = P \cup Q \cup {{a, b}}
    BY DEF JoinedBy
  <1>2. (\A f \in P : f \subseteq A) /\ (\A f \in Q : f \subseteq B) /\ Links(P) /\ Links(Q)
    BY <1>1 DEF IsTree
  <1>3. (\A f \in P : f # {}) /\ (\A f \in Q : f # {})
    BY <1>2 DEF Links
  <1> QED  BY <1>1, <1>2, <1>3 DEF EdgesApart

\* Two trees joined are a tree.
LEMMA JoinedIsTree ==
    ASSUME NEW S, NEW G, NEW A, NEW P, NEW B, NEW Q, NEW a, NEW b, JoinedBy(S, G, A, P, B, Q, a, b)
    PROVE  IsTree(S, G)
  <1> DEFINE e == {a, b}
             R == P \cup Q
  <1>1. /\ IsTree(A, P) /\ IsTree(B, Q) /\ A \cap B = {} /\ a \in A /\ b \in B /\ a # b
        /\ S = A \cup B /\ G = R \cup {e} /\ e \in G /\ P \subseteq G /\ Q \subseteq G
    BY DEF JoinedBy
  <1>01. /\ P \subseteq G /\ Q \subseteq G /\ {a, b} \in G /\ a # b
        /\ (\A f \in P : f \subseteq A /\ f # {} /\ f # {a, b})
        /\ \A f \in Q : f \subseteq B /\ f # {} /\ f # {a, b} /\ f \notin P
    <2>1. EdgesApart(G, A, P, B, Q, a, b)
      BY JoinedEdges
    <2> QED  BY <2>1 DEF EdgesApart
  <1>2. P \cap Q = {} /\ e \notin R
    BY <1>01
  <1>3. IsFiniteSet(A) /\ IsFiniteSet(B) /\ IsFiniteSet(P) /\ IsFiniteSet(Q)
        /\ Cardinality(P) = Cardinality(A) - 1 /\ Cardinality(Q) = Cardinality(B) - 1
        /\ Connected(A, P) /\ Connected(B, Q) /\ Links(P) /\ Links(Q)
        /\ (\A f \in P : f \subseteq A) /\ (\A f \in Q : f \subseteq B)
    BY <1>1 DEF IsTree
  <1> HIDE DEF e
  <1>4. IsFiniteSet(S) /\ Cardinality(S) = Cardinality(A) + Cardinality(B)
        /\ Cardinality(A) \in Nat /\ Cardinality(B) \in Nat
    BY <1>1, <1>3, PartsAddUp
  <1>5. IsFiniteSet(R) /\ Cardinality(R) = Cardinality(P) + Cardinality(Q)
    BY <1>2, <1>3, PartsAddUp
  <1>6. IsFiniteSet(G) /\ Cardinality(G) = Cardinality(R) + 1
    <2> HIDE DEF R
    <2> QED  BY <1>1, <1>2, <1>5, FS_AddElement
  <1>7. Connected(S, G)
    <2>1. Connected(A, G) /\ Connected(B, G)
      <3>1. Inside(A, P) \subseteq G /\ Inside(B, Q) \subseteq G
        BY <1>1 DEF Inside
      <3> QED  BY <1>3, <3>1, ConnectedMore
    <2>2. Connected(A \cup B, G)
      BY <1>1, <1>3, <2>1, ConnectedUnion DEF e
    <2> QED  BY <1>1, <2>2
  <1>8. Links(G) /\ \A f \in G : f \subseteq S
    <2>1. \A f \in G : f \in P \/ f \in Q \/ f = {a, b}
      BY <1>1 DEF e
    <2>2. Links(G)
      <3> SUFFICES ASSUME NEW f \in G
                   PROVE  \E c, d : c # d /\ f = {c, d}
        BY DEF Links
      <3>1. CASE f \in P
        BY <1>3, <3>1 DEF Links
      <3>2. CASE f \in Q
        BY <1>3, <3>2 DEF Links
      <3>3. CASE f = {a, b}
        BY <1>1, <3>3
      <3> QED  BY <2>1, <3>1, <3>2, <3>3
    <2>3. \A f \in G : f \subseteq S
      BY <1>1, <1>3, <2>1
    <2> QED  BY <2>2, <2>3
  <1>9. S # {} /\ Cardinality(G) = Cardinality(S) - 1
    <2> HIDE DEF R
    <2>1. Cardinality(G) = Cardinality(S) - 1
      BY <1>3, <1>4, <1>5, <1>6
    <2> QED  BY <1>1, <2>1
  <1> QED  BY <1>4, <1>6, <1>7, <1>8, <1>9 DEF IsTree

\* What hangs in one of the trees from the joint hangs in the joined tree from
\* the joint and from anything beyond it, with the same below it.
LEMMA JoinedSides ==
    ASSUME NEW S, NEW G, NEW A, NEW P, NEW B, NEW Q, NEW a, NEW b, JoinedBy(S, G, A, P, B, Q, a, b),
           NEW x, NEW y, Hangs(A, P, a, x, y)
    PROVE  /\ SideOf(S, G, x, y) = SideOf(A, P, x, y)
           /\ Hangs(S, G, a, x, y) /\ \A w \in B : Hangs(S, G, w, x, y)
  <1> DEFINE X == SideOf(A, P, x, y)
             E == G \ {{x, y}}
             D == P \ {{x, y}}
             C == SideOf(S, G, x, y)
  <1>1. IsTree(A, P) /\ A \cap B = {} /\ a \in A /\ b \in B /\ S = A \cup B /\ G = P \cup Q \cup {{a, b}}
        /\ IsFiniteSet(A) /\ IsFiniteSet(S) /\ IsTree(S, G)
    <2>1. IsTree(S, G)
      BY JoinedIsTree
    <2>2. IsTree(A, P) /\ A \cap B = {} /\ a \in A /\ b \in B /\ S = A \cup B /\ G = P \cup Q \cup {{a, b}}
      BY DEF JoinedBy
    <2> QED  BY <2>1, <2>2 DEF IsTree
  <1>01. /\ P \subseteq G /\ Q \subseteq G /\ {a, b} \in G /\ a # b
        /\ (\A f \in P : f \subseteq A /\ f # {} /\ f # {a, b})
        /\ \A f \in Q : f \subseteq B /\ f # {} /\ f # {a, b} /\ f \notin P
    <2>1. EdgesApart(G, A, P, B, Q, a, b)
      BY JoinedEdges
    <2> QED  BY <2>1 DEF EdgesApart
  <1>2. {x, y} \in P /\ x # y /\ {x, y} \in G
    BY <1>1 DEF Hangs
  <1>3. a \notin X /\ x \in X /\ X \in SUBSET A /\ x \in A
    BY <1>1, <1>2, HangsOneWay
  <1>4. CutInTwo(A, P, x, y, X, SideOf(A, P, y, x))
    BY <1>1, <1>2, TreeCut
  <1>5. \A f \in D : f \subseteq X \/ f \cap X = {}
    <2>1. Sides(A, P, {x, y}, x, y, X, SideOf(A, P, y, x))
      BY <1>4 DEF CutInTwo
    <2> HIDE DEF X
    <2> QED  BY <2>1 DEF Sides
  <1>6. /\ x \in X /\ Closed(X, A, D) /\ \A Z : x \in Z /\ Closed(Z, A, D) => X \subseteq Z
    BY <1>1, <1>3, ComponentIsLeast DEF SideOf
  <1>7. /\ x \in C /\ Closed(C, S, E) /\ \A Z : x \in Z /\ Closed(Z, S, E) => C \subseteq Z
    <2> HIDE DEF E
    <2>1. C = Component(x, S, E) /\ x \in S /\ IsFiniteSet(S)
      BY <1>1, <1>3 DEF SideOf, E
    <2> HIDE DEF C
    <2> QED  BY <2>1, ComponentIsLeast
  <1> HIDE DEF X, C
  <1>8. C \subseteq X
    <2>1. Closed(X, S, E)
      <3>1. ASSUME NEW f \in E, f \cap X # {}
            PROVE  f \subseteq X
        <4>1. f \in P
          BY <1>01, <1>1, <1>3, <3>1
        <4> QED  BY <1>5, <3>1, <4>1
      <3> QED  BY <1>1, <1>3, <3>1 DEF Closed, Inside
    <2> QED  BY <1>3, <1>7, <2>1
  <1>9. X \subseteq C
    <2>1. Closed(C, A, D)
      <3>1. C \subseteq A
        BY <1>3, <1>8
      <3>2. ASSUME NEW f \in D, f \subseteq A, f \cap C # {}
            PROVE  f \subseteq C
        <4>1. f \in Inside(S, E)
          BY <1>1, <3>2 DEF Inside
        <4> QED  BY <1>7, <3>2, <4>1 DEF Closed
      <3> QED  BY <3>1, <3>2 DEF Closed, Inside
    <2> QED  BY <1>6, <1>7, <2>1
  <1>10. C = X
    BY <1>8, <1>9
  <1>11. SideOf(S, G, y, x) = S \ C
    BY <1>1, <1>2, <1>3, HangsOneWay DEF C
  <1>12. \A w \in B \cup {a} : Hangs(S, G, w, x, y)
    BY <1>1, <1>2, <1>3, <1>10, <1>11 DEF Hangs
  <1> QED  BY <1>10, <1>12 DEF C, X

\* Below the joint is the other tree.
LEMMA JointSide ==
    ASSUME NEW S, NEW G, NEW A, NEW P, NEW B, NEW Q, NEW a, NEW b, JoinedBy(S, G, A, P, B, Q, a, b)
    PROVE  SideOf(S, G, b, a) = B /\ Hangs(S, G, a, b, a)
  <1> DEFINE E == G \ {{b, a}}
             C == SideOf(S, G, b, a)
  <1>1. IsTree(B, Q) /\ A \cap B = {} /\ a \in A /\ b \in B /\ S = A \cup B /\ G = P \cup Q \cup {{a, b}}
        /\ IsFiniteSet(B) /\ IsFiniteSet(S) /\ IsTree(S, G) /\ {b, a} = {a, b} /\ Connected(B, Q)
        /\ a # b
    <2>1. {b, a} = {a, b}
      OBVIOUS
    <2>2. IsTree(S, G)
      BY JoinedIsTree
    <2>3. IsTree(B, Q) /\ A \cap B = {} /\ a \in A /\ b \in B /\ S = A \cup B /\ G = P \cup Q \cup {{a, b}}
      BY DEF JoinedBy
    <2> QED  BY <2>1, <2>2, <2>3 DEF IsTree
  <1>01. /\ P \subseteq G /\ Q \subseteq G /\ {a, b} \in G /\ a # b
        /\ (\A f \in P : f \subseteq A /\ f # {} /\ f # {a, b})
        /\ \A f \in Q : f \subseteq B /\ f # {} /\ f # {a, b} /\ f \notin P
    <2>1. EdgesApart(G, A, P, B, Q, a, b)
      BY JoinedEdges
    <2> QED  BY <2>1 DEF EdgesApart
  <1>2. /\ b \in C /\ Closed(C, S, E) /\ \A Z : b \in Z /\ Closed(Z, S, E) => C \subseteq Z
    <2> HIDE DEF E
    <2>1. C = Component(b, S, E) /\ b \in S /\ IsFiniteSet(S)
      BY <1>1 DEF SideOf, E
    <2> HIDE DEF C
    <2> QED  BY <2>1, ComponentIsLeast
  <1>3. \A f \in E : f \in P \/ f \in Q
    BY <1>1
  <1> HIDE DEF C, E
  <1>4. C \subseteq B
    <2>1. Closed(B, S, E)
      <3>1. ASSUME NEW f \in E, f \cap B # {}
            PROVE  f \subseteq B
        BY <1>01, <1>1, <1>3, <3>1
      <3> QED  BY <1>1, <3>1 DEF Closed, Inside
    <2> QED  BY <1>1, <1>2, <2>1
  <1>5. Closed(C, B, Q)
    <2>1. ASSUME NEW f \in Q, f \subseteq B, f \cap C # {}
          PROVE  f \subseteq C
      <3>1. f \in Inside(S, E)
        BY <1>01, <1>1, <2>1 DEF Inside, E
      <3> QED  BY <1>2, <2>1, <3>1 DEF Closed
    <2> QED  BY <1>4, <2>1 DEF Closed, Inside
  <1>6. C = B
    BY <1>1, <1>2, <1>5, ConnectedIsClosed
  <1>7. SideOf(S, G, a, b) = S \ B
    <2>1. {b, a} \in G
      BY <1>1
    <2> QED  BY <1>1, <1>6, <2>1, HangsOneWay DEF C
  <1>8. Hangs(S, G, a, b, a)
    BY <1>1, <1>7 DEF Hangs
  <1> QED  BY <1>6, <1>8 DEF C

\* What hangs in the joined tree hangs in one of the two or at the joint.
LEMMA JoinedHangs ==
    ASSUME NEW S, NEW G, NEW A, NEW P, NEW B, NEW Q, NEW a, NEW b, JoinedBy(S, G, A, P, B, Q, a, b),
           NEW x, NEW y, Hangs(S, G, a, x, y)
    PROVE  \/ Hangs(A, P, a, x, y)
           \/ Hangs(B, Q, b, x, y)
           \/ x = b /\ y = a
  <1>1. IsTree(A, P) /\ IsTree(B, Q) /\ IsTree(S, G) /\ a \in A /\ b \in B /\ a \in S
        /\ G = P \cup Q \cup {{a, b}} /\ JoinedBy(S, G, B, Q, A, P, b, a)
    <2>1. IsTree(S, G) /\ JoinedBy(S, G, B, Q, A, P, b, a)
      BY JoinedIsTree, JoinedEitherWay
    <2>2. IsTree(A, P) /\ IsTree(B, Q) /\ a \in A /\ b \in B /\ a \in S /\ G = P \cup Q \cup {{a, b}}
      BY DEF JoinedBy
    <2> QED  BY <2>1, <2>2
  <1>2. {x, y} \in G /\ x # y /\ ~Hangs(S, G, a, y, x) /\ {y, x} = {x, y}
    <2>1. {x, y} \in G /\ x # y /\ {y, x} = {x, y}
      BY DEF Hangs
    <2>2. Hangs(S, G, a, x, y) <=> ~Hangs(S, G, a, y, x)
      <3>1. IsTree(S, G) /\ a \in S
        BY <1>1
      <3>2. {x, y} \in G /\ x # y
        BY <2>1
      <3> QED  BY <3>1, <3>2, HangsOneWay
    <2>3. Hangs(S, G, a, x, y)
      OBVIOUS
    <2> QED  BY <2>1, <2>2, <2>3
  <1>3. CASE {x, y} \in P
    <2>1. ~Hangs(A, P, a, y, x)
      BY <1>2, JoinedSides
    <2> QED  BY <1>1, <1>2, <1>3, <2>1, HangsOneWay
  <1>4. CASE {x, y} \in Q
    <2>1. ~Hangs(B, Q, b, y, x)
      BY <1>1, <1>2, JoinedSides
    <2> QED  BY <1>1, <1>2, <1>4, <2>1, HangsOneWay
  <1>5. CASE {x, y} = {a, b}
    <2>1. Hangs(S, G, a, b, a)
      BY JointSide
    <2>2. x = a /\ y = b => FALSE
      BY <1>2, <2>1
    <2> QED  BY <1>5, <2>2
  <1> QED  BY <1>1, <1>2, <1>3, <1>4, <1>5

\* Two values.
THEOREM TotalOfTwo ==
    ASSUME NEW f, NEW a, NEW b, a # b, f[a] \in Int, f[b] \in Int
    PROVE  Total(f, {a, b}) = f[a] + f[b]
  <1> DEFINE none == {}
             one == none \cup {a}
             two == one \cup {b}
  <1>1. IsFiniteSet(none) /\ (\A y \in none : f[y] \in Int) /\ a \notin none /\ Total(f, none) = 0
    BY FS_EmptySet, TotalOfNone
  <1> HIDE DEF none
  <1>2. Total(f, one) = Total(f, none) + f[a]
    BY <1>1, TotalAdd
  <1>3. IsFiniteSet(one) /\ (\A y \in one : f[y] \in Int) /\ b \notin one
    BY <1>1, FS_Singleton, FS_AddElement DEF none
  <1> HIDE DEF one
  <1>4. Total(f, two) = Total(f, one) + f[b]
    BY <1>3, TotalAdd
  <1>5. two = {a, b}
    BY DEF none, one
  <1> HIDE DEF two
  <1>6. Total(f, two) = f[a] + f[b]
    BY <1>1, <1>2, <1>4
  <1> QED  BY <1>5, <1>6

\* Totals add up value by value.
THEOREM TotalOfSums ==
    ASSUME NEW S, IsFiniteSet(S), NEW f, NEW g, NEW h,
           \A y \in S : f[y] \in Int /\ g[y] \in Int /\ h[y] = f[y] + g[y]
    PROVE  Total(h, S) = Total(f, S) + Total(g, S)
  <1> DEFINE Good == {T \in SUBSET S : Total(h, T) = Total(f, T) + Total(g, T)}
  <1>1. {} \in Good
    BY TotalOfNone
  <1>2. ASSUME NEW T \in SUBSET S, NEW x \in S \ T, T \in Good
        PROVE  T \cup {x} \in Good
    <2>1. IsFiniteSet(T) /\ \A y \in T : f[y] \in Int /\ g[y] \in Int /\ h[y] \in Int
      BY FS_Subset
    <2>2. f[x] \in Int /\ g[x] \in Int /\ h[x] \in Int /\ h[x] = f[x] + g[x] /\ x \notin T
      OBVIOUS
    <2>3. Total(f, T \cup {x}) = Total(f, T) + f[x]
      BY <2>1, <2>2, TotalAdd
    <2>4. Total(g, T \cup {x}) = Total(g, T) + g[x]
      BY <2>1, <2>2, TotalAdd
    <2>5. Total(h, T \cup {x}) = Total(h, T) + h[x]
      BY <2>1, <2>2, TotalAdd
    <2>6. Total(f, T) \in Int /\ Total(g, T) \in Int
      BY <2>1, TotalType
    <2>7. Total(h, T) = Total(f, T) + Total(g, T)
      BY <1>2
    <2>8. Total(h, T \cup {x}) = Total(f, T \cup {x}) + Total(g, T \cup {x})
      BY <2>2, <2>3, <2>4, <2>5, <2>6, <2>7
    <2> QED  BY <2>8
  <1> HIDE DEF Good
  <1>3. S \in Good
    BY <1>1, <1>2, SubsetInduction
  <1> QED  BY <1>3 DEF Good

\* The vertex below each edge of a hung tree.
IsBelow(S, T, root, h) ==
    \A e \in T : \E p : e = {h[e], p} /\ Hangs(S, T, root, h[e], p)

\* Every edge hangs a vertex.
LEMMA EdgesHang ==
    ASSUME NEW S, NEW T, IsTree(S, T), NEW root \in S
    PROVE  \E h : IsBelow(S, T, root, h)
  <1> DEFINE h == [e \in T |-> CHOOSE v : \E p : e = {v, p} /\ Hangs(S, T, root, v, p)]
  <1>1. ASSUME NEW e \in T
        PROVE  \E v : \E p : e = {v, p} /\ Hangs(S, T, root, v, p)
    <2>1. PICK v, p : v # p /\ e = {v, p}
      BY DEF IsTree, Links
    <2>2. {v, p} \in T /\ {p, v} = {v, p}
      BY <2>1
    <2>3. Hangs(S, T, root, v, p) <=> ~Hangs(S, T, root, p, v)
      BY <2>1, <2>2, HangsOneWay
    <2> QED  BY <2>1, <2>2, <2>3
  <1>2. \A e \in T : \E p : e = {h[e], p} /\ Hangs(S, T, root, h[e], p)
    <2> TAKE e \in T
    <2>1. h[e] = CHOOSE v : \E p : e = {v, p} /\ Hangs(S, T, root, v, p)
      OBVIOUS
    <2> HIDE DEF h
    <2> QED  BY <1>1, <2>1
  <1> HIDE DEF h
  <1> QED  BY <1>2 DEF IsBelow

\* Every vertex but the root is below one edge, and no two edges have one below.
LEMMA BelowAll ==
    ASSUME NEW S, NEW T, IsTree(S, T), NEW root \in S, NEW h, IsBelow(S, T, root, h)
    PROVE  /\ \A e, f \in T : h[e] = h[f] => e = f
           /\ {h[e] : e \in T} = S \ {root}
  <1> DEFINE I == {h[e] : e \in T}
             R == S \ {root}
             k == [e \in T |-> h[e]]
  <1>1. ASSUME NEW e \in T, NEW f \in T, h[e] = h[f]
        PROVE  e = f
    <2>1. PICK p : e = {h[e], p} /\ Hangs(S, T, root, h[e], p)
      BY DEF IsBelow
    <2>2. PICK q : f = {h[f], q} /\ Hangs(S, T, root, h[f], q)
      BY DEF IsBelow
    <2>3. Hangs(S, T, root, h[e], q)
      BY <1>1, <2>2
    <2>4. p = q
      BY <2>1, <2>3, OneAbove
    <2> QED  BY <1>1, <2>1, <2>2, <2>4
  <1>2. I \in SUBSET R
    <2> SUFFICES ASSUME NEW e \in T
                 PROVE  h[e] \in R
      OBVIOUS
    <2>1. PICK p : Hangs(S, T, root, h[e], p)
      BY DEF IsBelow
    <2> DEFINE v == h[e]
    <2>2. Hangs(S, T, root, v, p) /\ {v, p} \in T /\ v # p
      BY <2>1 DEF Hangs
    <2> HIDE DEF v
    <2>3. v # root /\ v \in S
      BY <2>2, HangsOneWay
    <2> QED  BY <2>3 DEF v
  <1>3. IsFiniteSet(S) /\ IsFiniteSet(T) /\ Cardinality(T) = Cardinality(S) - 1
    BY DEF IsTree
  <1>4. Cardinality(I) = Cardinality(T)
    <2>1. k \in [T -> I]
      OBVIOUS
    <2>2. \A e, f \in T : k[e] = k[f] => e = f
      BY <1>1
    <2>3. \A y \in I : \E e \in T : k[e] = y
      OBVIOUS
    <2> HIDE DEF I, k
    <2>4. k \in Bijection(T, I)
      BY <2>1, <2>2, <2>3 DEF Bijection, Injection, Surjection, IsInjective
    <2>5. ExistsBijection(T, I)
      BY <2>4 DEF ExistsBijection
    <2> QED  BY <1>3, <2>5, FS_Bijection
  <1>5. IsFiniteSet(R) /\ Cardinality(R) = Cardinality(S) - 1
    BY <1>3, FS_RemoveElement
  <1> HIDE DEF I, R
  <1>6. I = R
    BY <1>2, <1>3, <1>4, <1>5, FS_Subset
  <1> QED  BY <1>1, <1>6 DEF I, R

\* Every vertex but the root hangs from another.
LEMMA SomethingAbove ==
    ASSUME NEW S, NEW T, IsTree(S, T), NEW root \in S, NEW v \in S, v # root
    PROVE  \E p : Hangs(S, T, root, v, p)
  <1>1. PICK h : IsBelow(S, T, root, h)
    BY EdgesHang
  <1>2. {h[e] : e \in T} = S \ {root}
    BY <1>1, BelowAll
  <1>3. PICK e \in T : v = h[e]
    BY <1>2
  <1> QED  BY <1>1, <1>3 DEF IsBelow

\* f weighs a vertex as g weighs the edge it hangs from.
WeighedAlike(S, T, root, f, g) ==
    \A v, p : Hangs(S, T, root, v, p) => f[v] \in Int /\ g[{v, p}] = f[v]

\* A total over the edges is one over the vertices below them.
THEOREM TotalOfEdges ==
    ASSUME NEW S, NEW T, IsTree(S, T), NEW root \in S, NEW f, NEW g, WeighedAlike(S, T, root, f, g)
    PROVE  Total(g, T) = Total(f, S \ {root})
  <1>1. PICK h : IsBelow(S, T, root, h)
    BY EdgesHang
  <1>2. (\A x, y \in T : h[x] = h[y] => x = y) /\ {h[e] : e \in T} = S \ {root}
    BY <1>1, BelowAll
  <1>3. \A e \in T : g[e] = f[h[e]] /\ g[e] \in Int
    BY <1>1 DEF IsBelow, WeighedAlike
  <1>4. IsFiniteSet(T)
    BY DEF IsTree
  <1>5. Total(g, T) = Total(f, {h[e] : e \in T})
    BY <1>2, <1>3, <1>4, TotalOfImage
  <1> QED  BY <1>2, <1>5

\* What hangs from a vertex is not the root, and the rest is on the other side.
LEMMA HangsBelow ==
    ASSUME NEW S, NEW T, IsTree(S, T), NEW root \in S, NEW v, NEW p, Hangs(S, T, root, v, p)
    PROVE  v # root /\ v \in S /\ p \in S /\ SideOf(S, T, p, v) = S \ SideOf(S, T, v, p)
  <1>1. {v, p} \in T /\ v # p
    BY DEF Hangs
  <1>2. Hangs(S, T, root, v, p) => v # root
    BY <1>1, HangsOneWay
  <1>3. v \in S /\ p \in S
    BY <1>1 DEF IsTree
  <1> DEFINE X == SideOf(S, T, v, p)
             Y == SideOf(S, T, p, v)
  <1>4. Y = S \ X
    BY <1>1, HangsOneWay
  <1> HIDE DEF X, Y
  <1> QED  BY <1>2, <1>3, <1>4 DEF X, Y

\* Without a vertex, what is below it is what the root no longer reaches.
LEMMA CutOffBelow ==
    ASSUME NEW S, NEW T, NEW F, IsTree(S, T), Inside(S, F) \subseteq T, T \subseteq F, NEW root \in S,
           NEW v, NEW p, Hangs(S, T, root, v, p)
    PROVE  S \ Component(root, S \ {v}, F) = SideOf(S, T, v, p)
  <1> DEFINE X == SideOf(S, T, v, p)
             Y == SideOf(S, T, p, v)
             D == S \ {v}
             C == Component(root, D, F)
  <1>1. {v, p} \in T /\ v # p
    BY DEF Hangs
  <1>2. v # root /\ root \notin X /\ v \in S /\ v \in X /\ X \in SUBSET S /\ Y = S \ X
    BY <1>1, HangsOneWay
  <1>3. Sides(S, T, {v, p}, v, p, X, Y) /\ IsTree(Y, Inside(Y, T))
    <2>1. CutInTwo(S, T, v, p, X, Y)
      BY <1>1, TreeCut
    <2> HIDE DEF X, Y
    <2> QED  BY <2>1 DEF CutInTwo
  <1>4. \A f \in T \ {{v, p}} : f \subseteq X \/ f \subseteq Y
    <2> HIDE DEF X, Y
    <2> QED  BY <1>3 DEF Sides
  <1>5. IsFiniteSet(S) /\ IsFiniteSet(D) /\ IsFiniteSet(Y) /\ root \in D /\ root \in Y
        /\ Connected(Y, Inside(Y, T))
    <2>1. IsFiniteSet(S)
      BY DEF IsTree
    <2>2. Connected(Y, Inside(Y, T)) /\ IsFiniteSet(Y)
      BY <1>3 DEF IsTree
    <2> QED  BY <1>2, <2>1, <2>2, FS_Subset
  <1> HIDE DEF X, Y, D
  <1>6. /\ root \in C /\ Closed(C, D, F) /\ \A Z : root \in Z /\ Closed(Z, D, F) => C \subseteq Z
    BY <1>5, ComponentIsLeast
  <1> HIDE DEF C
  <1>7. C \subseteq Y
    <2>1. Y \subseteq D
      BY <1>2 DEF D
    <2>2. ASSUME NEW f \in Inside(D, F), f \cap Y # {}
          PROVE  f \subseteq Y
      <3>1. f \in T /\ v \notin f
        BY DEF Inside, D
      <3> QED  BY <1>2, <1>4, <2>2, <3>1
    <2>3. Closed(Y, D, F)
      BY <2>1, <2>2 DEF Closed
    <2> QED  BY <1>5, <1>6, <2>3
  <1>8. Closed(C, Y, Inside(Y, T))
    <2>1. ASSUME NEW f \in Inside(Y, T), f \cap C # {}
          PROVE  f \subseteq C
      <3>1. f \in Inside(D, F)
        BY <1>2 DEF Inside, D
      <3> QED  BY <1>6, <2>1, <3>1 DEF Closed
    <2> QED  BY <1>7, <2>1 DEF Closed, Inside
  <1>9. C = Y
    BY <1>5, <1>6, <1>8, ConnectedIsClosed
  <1> QED  BY <1>2, <1>9 DEF C, D, X
=============================================================================
