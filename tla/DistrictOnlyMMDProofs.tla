----------------------- MODULE DistrictOnlyMMDProofs -----------------------
(***************************************************************************)
(* Proofs about DistrictOnlyMMD, for every number of districts, every seat *)
(* count and every range of district sizes the constructors accept.        *)
(***************************************************************************)
EXTENDS DistrictOnlyMMD, FiniteStructures

-----------------------------------------------------------------------------
(* The arithmetic of sums of district sizes.  *)

\* The constants as the proofs use them.
LEMMA ConstantFacts ==
    /\ ndists \in Nat /\ ndists >= 2 /\ total_seats \in Nat
    /\ smallest_district_size \in Nat /\ largest_district_size \in Nat
    /\ smallest_district_size >= 1
    /\ smallest_district_size <= largest_district_size
    /\ largest_district_size < total_seats
    /\ \A s \in Int : is_district(s) <=> /\ smallest_district_size <= s
                                         /\ s <= largest_district_size
  <1>1. ndists \in Nat /\ ndists >= 2 /\ total_seats \in Nat
    BY SeatAssumption
  <1>2. /\ smallest_district_size \in Nat /\ largest_district_size \in Nat
        /\ smallest_district_size >= 1
        /\ largest_district_size < total_seats
        /\ ndists * smallest_district_size <= total_seats
        /\ total_seats <= ndists * largest_district_size
    BY MMDAssumption
  <1>3. smallest_district_size <= largest_district_size
    <2> SUFFICES ASSUME largest_district_size < smallest_district_size
                 PROVE  FALSE
      BY <1>2
    <2>1. ndists * largest_district_size < ndists * smallest_district_size
      BY <1>1, <1>2, SMT
    <2> QED  BY <1>1, <1>2, <2>1, SMT
  <1>4. \A s \in Int : is_district(s) <=> /\ smallest_district_size <= s
                                          /\ s <= largest_district_size
    BY MMDAssumption DEF is_district
  <1> QED  BY <1>1, <1>2, <1>3, <1>4

\* One district more, or one less.
LEMMA AddDistrict ==
    ASSUME NEW s \in Int, NEW d \in Int, NEW m \in Int, is_sum_of(s, m), is_district(d)
    PROVE  is_sum_of(s + d, m + 1)
  <1>1. /\ (m + 1) * smallest_district_size = m * smallest_district_size + smallest_district_size
        /\ (m + 1) * largest_district_size = m * largest_district_size + largest_district_size
        /\ m * smallest_district_size \in Int /\ m * largest_district_size \in Int
    BY ConstantFacts, SMT
  <1> QED  BY <1>1, ConstantFacts, SMT DEF is_sum_of

\* A sum of one district is a district.
LEMMA SumOfOne ==
    ASSUME NEW s \in Int
    PROVE  is_sum_of(s, 1) <=> is_district(s)
  BY ConstantFacts, SMT DEF is_sum_of

\* A sum of m districts has at least a seat for each of them.
LEMMA SumIsPositive ==
    ASSUME NEW s \in Int, NEW m \in Nat, is_sum_of(s, m)
    PROVE  s >= m
  <1>1. m * smallest_district_size >= m /\ m * smallest_district_size \in Int
    BY ConstantFacts, SMT
  <1> QED  BY <1>1, SMT DEF is_sum_of

\* Without a district size that is a sum of others, a sum of two districts or
\* more is no district.
LEMMA SumIsNoDistrict ==
    ASSUME NEW s \in Int, NEW m \in Int, m >= 2, is_sum_of(s, m), ~plan_context_needed
    PROVE  ~is_district(s)
  <1>1. m * smallest_district_size >= 2 * smallest_district_size
        /\ m * smallest_district_size \in Int
    BY ConstantFacts, SMT
  <1> QED  BY <1>1, ConstantFacts, SMT DEF is_sum_of, plan_context_needed

\* A remainder that can hold two districts or more has one to split off.
LEMMA RemainderHasACut ==
    ASSUME NEW s \in Int, NEW k \in Int, 1 <= k, k < ndists, PossibleRemainder(s, k)
    PROVE  SplitOff(s, k) # {}
  <1> DEFINE lo == smallest_district_size
             hi == largest_district_size
             m == ndists - k
             d == IF s - m * hi <= lo THEN lo ELSE s - m * hi
  <1>1. /\ m \in Int /\ m >= 1 /\ ndists - k + 1 = m + 1
        /\ lo \in Int /\ hi \in Int /\ 1 <= lo /\ lo <= hi
    BY ConstantFacts
  <1>2. /\ m * lo \in Int /\ m * hi \in Int
        /\ (m + 1) * lo = m * lo + lo /\ (m + 1) * hi = m * hi + hi
        /\ m * lo <= m * hi /\ 1 <= m * lo
    BY <1>1, SMT
  <1>3. m * lo + lo <= s /\ s <= m * hi + hi
    BY <1>1, <1>2 DEF PossibleRemainder, is_sum_of
  <1>4. d \in Int /\ lo <= d /\ d <= hi /\ m * lo <= s - d /\ s - d <= m * hi /\ d < s
    <2> HIDE DEF lo, hi, m
    <2> QED  BY <1>1, <1>2, <1>3, SMT
  <1>5. d \in district_seat_sizes
    BY <1>1, <1>4, MMDAssumption
  <1>6. is_sum_of(s - d, ndists - k)
    BY <1>4 DEF is_sum_of
  <1>7. d \in SplitOff(s, k)
    BY <1>4, <1>5, <1>6 DEF SplitOff
  <1> QED  BY <1>7

\* Splitting a district off a possible remainder leaves a possible remainder
\* of the next round, in the list of cuts of the round.
LEMMA SplitOffLeavesRemainder ==
    ASSUME NEW s \in Int, NEW k \in Int, PossibleRemainder(s, k), NEW d \in SplitOff(s, k)
    PROVE  /\ d \in Int /\ is_district(d) /\ 1 <= d /\ d < s
           /\ PossibleRemainder(s - d, k + 1)
  <1>1. d \in Int /\ is_district(d) /\ 1 <= d /\ d < s /\ is_sum_of(s - d, ndists - k)
    BY MMDAssumption, ConstantFacts DEF SplitOff, is_district
  <1>2. is_sum_of((total_seats - s) + d, (k - 1) + 1)
    BY <1>1, AddDistrict, ConstantFacts DEF PossibleRemainder
  <1>3. (total_seats - s) + d = total_seats - (s - d) /\ (k - 1) + 1 = (k + 1) - 1
        /\ ndists - (k + 1) + 1 = ndists - k
    BY <1>1, ConstantFacts
  <1> QED  BY <1>1, <1>2, <1>3 DEF PossibleRemainder

\* A possible remainder is a size the tables have a row for.
LEMMA RemainderIsASize ==
    ASSUME NEW s \in Int, NEW k \in Int, 1 <= k, k <= ndists, PossibleRemainder(s, k)
    PROVE  s \in Sizes
  <1>1. ndists - k + 1 \in Nat /\ k - 1 \in Nat /\ total_seats - s \in Int /\ ndists - k + 1 >= 1
    BY ConstantFacts
  <1>2. s >= ndists - k + 1 /\ total_seats - s >= k - 1
    BY <1>1, SumIsPositive DEF PossibleRemainder
  <1> QED  BY <1>1, <1>2, ConstantFacts DEF Sizes

-----------------------------------------------------------------------------
(* The tables and the context.  *)

\* The tables list sizes only.
LEMMA TableTypes ==
    ASSUME NEW k \in Int
    PROVE  /\ \A s \in Sizes : TableCuts(s, k) \in SUBSET Sizes
           /\ TableSplits(k) \in SUBSET Sizes
           /\ TableMerges(k) \in SUBSET (Sizes \X Sizes)
  <1>1. ASSUME NEW s \in Sizes, NEW d \in SplitOff(s, k)
        PROVE  MinOf(d, s - d) \in Sizes
    <2>1. d \in Int /\ 1 <= d /\ d < s /\ s \in Int /\ s <= total_seats
      BY MMDAssumption, ConstantFacts DEF SplitOff, Sizes
    <2> QED  BY <2>1, ConstantFacts DEF MinOf, Sizes
  <1> QED  BY <1>1 DEF TableCuts, TableSplits, TableMerges

\* The two pieces of a cut the tables allow: a district, and what can be the
\* remainder of one region more.
LEMMA CutPieces ==
    ASSUME NEW s \in Sizes, NEW k \in Int, 1 <= k, k < ndists,
           PossibleRemainder(s, k), NEW smaller \in TableCuts(s, k)
    PROVE  /\ smaller \in Sizes /\ s - smaller \in Sizes
           /\ \/ is_district(smaller) /\ PossibleRemainder(s - smaller, k + 1)
              \/ is_district(s - smaller) /\ PossibleRemainder(smaller, k + 1)
  <1>1. PICK d \in SplitOff(s, k) : smaller = MinOf(d, s - d)
    BY DEF TableCuts
  <1>2. s \in Int /\ 1 <= s /\ s <= total_seats /\ total_seats \in Int
    BY ConstantFacts DEF Sizes
  <1>3. d \in Int /\ is_district(d) /\ 1 <= d /\ d < s /\ PossibleRemainder(s - d, k + 1)
    BY <1>2, SplitOffLeavesRemainder
  <1>4. CASE smaller = d
    BY <1>2, <1>3, <1>4 DEF Sizes
  <1>5. CASE smaller = s - d
    <2>1. s - smaller = d
      BY <1>2, <1>3, <1>5
    <2> QED  BY <1>2, <1>3, <1>5, <2>1 DEF Sizes
  <1> QED  BY <1>1, <1>4, <1>5 DEF MinOf

\* A pair the tables would merge adds up to a possible remainder of the split
\* before.
LEMMA MergedSize ==
    ASSUME NEW k \in Int, 1 <= k, k < ndists, NEW s1 \in Sizes, NEW s2 \in Sizes,
           <<s1, s2>> \in TableMerges(k)
    PROVE  s1 + s2 \in Sizes /\ PossibleRemainder(s1 + s2, k)
  <1>1. PossibleRemainder(s1 + s2, k)
    BY DEF TableMerges
  <1>2. s1 + s2 \in Int
    BY DEF Sizes
  <1> QED  BY <1>1, <1>2, RemainderIsASize, ConstantFacts

\* The context names a region that is no district, if it names any.
LEMMA ContextFacts ==
    ASSUME NEW sizes, NEW k \in Nat
    PROVE  LET ctx == ContextOf(sizes, k)
           IN  /\ ctx \in NonDistricts(sizes, k) \cup {-1}
               /\ ctx = -1 => ~plan_context_needed \/ NonDistricts(sizes, k) = {}
               /\ ~plan_context_needed => ctx = -1
  <1>1. 0 .. k - 1 \subseteq Int /\ -1 \notin NonDistricts(sizes, k)
    BY DEF NonDistricts
  <1> QED  BY <1>1 DEF ContextOf

\* If r can be the remainder, the context can only name r, and does when it has to.
LEMMA ContextIsRemainder ==
    ASSUME num_regions \in Nat, NEW r \in Regions, IsRemainder(r)
    PROVE  LET ctx == ContextOf(region_sizes, num_regions)
           IN  /\ ctx \in Int
               /\ ctx >= 0 => ctx = r /\ ~is_district(region_sizes[r])
               /\ (plan_context_needed /\ ~is_district(region_sizes[r])) => ctx = r
  <1> DEFINE ctx == ContextOf(region_sizes, num_regions)
  <1>1. NonDistricts(region_sizes, num_regions) \subseteq {r}
    BY DEF IsRemainder, NonDistricts, Regions
  <1>2. ~is_district(region_sizes[r]) => r \in NonDistricts(region_sizes, num_regions)
    BY DEF NonDistricts, Regions
  <1>3. /\ ctx \in NonDistricts(region_sizes, num_regions) \cup {-1}
        /\ ctx = -1 => ~plan_context_needed \/ NonDistricts(region_sizes, num_regions) = {}
    BY ContextFacts
  <1>4. r \in Int /\ r >= 0
    BY DEF Regions
  <1>5. ctx \in NonDistricts(region_sizes, num_regions) => ~is_district(region_sizes[r])
    BY <1>1 DEF NonDistricts
  <1> HIDE DEF ctx
  <1>6. ctx = -1 \/ ctx = r
    BY <1>1, <1>3
  <1>7. ctx \in Int /\ (ctx >= 0 => ctx = r)
    BY <1>4, <1>6
  <1>8. ctx >= 0 => ~is_district(region_sizes[r])
    BY <1>3, <1>5, <1>4, <1>6
  <1>9. (plan_context_needed /\ ~is_district(region_sizes[r])) => ctx = r
    BY <1>2, <1>3, <1>6
  <1> QED  BY <1>7, <1>8, <1>9 DEF ctx

\* Whatever the tables would split, in the context of the plan, is a remainder.
LEMMA SplittableIsRemainder ==
    ASSUME num_regions \in 1 .. ndists - 1, SeatsInv, TablesAreFor(num_regions),
           NEW r0 \in Regions, IsRemainder(r0),
           NEW r \in choose_multidistrict_to_split
    PROVE  r \in Regions /\ IsRemainder(r)
  <1> DEFINE ctx == ContextOf(region_sizes, num_regions)
  <1>1. r \in Regions /\ region_sizes[r] \in TableSplits(num_regions) /\ (ctx >= 0 => r = ctx)
    BY DEF choose_multidistrict_to_split, region_is_splittable, TablesAreFor
  <1>2. PossibleRemainder(region_sizes[r], num_regions)
    BY <1>1 DEF TableSplits
  <1>3. CASE r = r0
    BY <1>1, <1>3
  <1>4. CASE r # r0
    <2>1. is_district(region_sizes[r])
      BY <1>1, <1>4 DEF IsRemainder
    <2>2. ctx \in Int /\ (ctx >= 0 => ctx = r0)
          /\ ((plan_context_needed /\ ~is_district(region_sizes[r0])) => ctx = r0)
      BY ContextIsRemainder, ConstantFacts
    <2>3. plan_context_needed
      <3>1. num_regions \in Int /\ ndists - num_regions + 1 \in Int /\ ndists - num_regions + 1 >= 2
        BY ConstantFacts
      <3>2. is_sum_of(region_sizes[r], ndists - num_regions + 1) /\ region_sizes[r] \in Int
        BY <1>1, <1>2 DEF PossibleRemainder, SeatsInv, Sizes
      <3> QED  BY <2>1, <3>1, <3>2, SumIsNoDistrict
    <2>4. is_district(region_sizes[r0])
      <3> SUFFICES ASSUME ~is_district(region_sizes[r0]) PROVE FALSE
        OBVIOUS
      <3>1. ctx = r0 /\ r0 >= 0
        BY <2>2, <2>3 DEF Regions
      <3> QED  BY <1>1, <1>4, <3>1
    <2> QED  BY <1>1, <1>2, <2>4 DEF IsRemainder
  <1> QED  BY <1>3, <1>4

-----------------------------------------------------------------------------
(* What a cut does to a plan.  *)

\* The two pieces get the seats they were cut to and stamps newer than every
\* other; nothing else of the plan changes.
LEMMA CutKeepsShape ==
    ASSUME BaseTypeOK, SeatsInv, StampsTellAge,
           NEW r1 \in Ids, NEW r2 \in Ids, r1 # r2, NEW smaller \in Sizes, NEW larger \in Sizes,
           update_region_info_from_cut(r1, r2, smaller, larger),
           Regions' = Regions \cup {r1, r2}
    PROVE  /\ region_sizes' \in [Ids -> 0 .. total_seats]
           /\ region_added_order' \in [Ids -> Int]
           /\ region_order_max' \in Nat
           /\ region_sizes'[r1] = smaller /\ region_sizes'[r2] = larger
           /\ \A q \in Regions \ {r1, r2} : region_sizes'[q] = region_sizes[q]
           /\ SeatsInv' /\ StampsTellAge'
  <1>1. Regions \subseteq Ids /\ Ids \subseteq Int
    BY ConstantFacts DEF BaseTypeOK, Regions, Ids
  <1>2. region_sizes' = [region_sizes EXCEPT ![r1] = smaller, ![r2] = larger]
    BY DEF update_region_info_from_cut
  <1>3. smaller \in 0 .. total_seats /\ larger \in 0 .. total_seats
    BY ConstantFacts DEF Sizes
  <1>4. /\ region_sizes' \in [Ids -> 0 .. total_seats]
        /\ region_sizes'[r1] = smaller /\ region_sizes'[r2] = larger
        /\ \A q \in Ids \ {r1, r2} : region_sizes'[q] = region_sizes[q]
    BY <1>2, <1>3 DEF BaseTypeOK
  <1>5. SeatsInv'
    BY <1>1, <1>4 DEF SeatsInv, Sizes
  <1>6. /\ region_added_order' = [region_added_order EXCEPT ![r1] = region_order_max + 1,
                                                            ![r2] = region_order_max + 2]
        /\ region_order_max' = region_order_max + 2
        /\ region_order_max \in Nat /\ region_added_order \in [Ids -> Int]
    BY DEF update_region_info_from_cut, BaseTypeOK
  <1>7. /\ region_added_order' \in [Ids -> Int] /\ region_order_max' \in Nat
        /\ region_added_order'[r1] = region_order_max + 1
        /\ region_added_order'[r2] = region_order_max + 2
        /\ \A q \in Ids \ {r1, r2} : region_added_order'[q] = region_added_order[q]
    BY <1>6
  <1>8. StampsTellAge'
    <2>1. \A q \in Regions : region_added_order[q] \in Int /\ region_added_order[q] <= region_order_max
      BY <1>1, <1>6 DEF StampsTellAge
    <2>2. \A q \in Regions' : region_added_order'[q] <= region_order_max'
      BY <1>1, <1>6, <1>7, <2>1
    <2>3. \A q, p \in Regions' : q # p => region_added_order'[q] # region_added_order'[p]
      <3> SUFFICES ASSUME NEW q \in Regions', NEW p \in Regions', q # p
                   PROVE  region_added_order'[q] # region_added_order'[p]
        OBVIOUS
      <3>1. CASE q \in {r1, r2} /\ p \in {r1, r2}
        BY <1>6, <1>7, <3>1
      <3>2. CASE q \in {r1, r2} /\ p \notin {r1, r2}
        BY <1>1, <1>6, <1>7, <2>1, <3>2
      <3>3. CASE q \notin {r1, r2} /\ p \in {r1, r2}
        BY <1>1, <1>6, <1>7, <2>1, <3>3
      <3>4. CASE q \notin {r1, r2} /\ p \notin {r1, r2}
        BY <1>1, <1>7, <3>4 DEF StampsTellAge
      <3> QED  BY <3>1, <3>2, <3>3, <3>4
    <2> QED  BY <2>2, <2>3 DEF StampsTellAge
  <1> QED  BY <1>1, <1>4, <1>5, <1>7, <1>8

\* A cut into a district and a possible remainder, in a plan whose other
\* regions are districts, leaves a plan with a remainder.
LEMMA CutLeavesRemainder ==
    ASSUME NEW r1, NEW r2, r1 # r2, Regions' = Regions \cup {r1, r2},
           \A q \in Regions \ {r1, r2} : is_district(region_sizes[q])
                                         /\ region_sizes'[q] = region_sizes[q],
           \/ is_district(region_sizes'[r1]) /\ PossibleRemainder(region_sizes'[r2], num_regions')
           \/ is_district(region_sizes'[r2]) /\ PossibleRemainder(region_sizes'[r1], num_regions')
    PROVE  \E r \in Regions' : IsRemainder(r)'
  <1>1. CASE is_district(region_sizes'[r1]) /\ PossibleRemainder(region_sizes'[r2], num_regions')
    <2>1. IsRemainder(r2)'
      BY <1>1 DEF IsRemainder
    <2> QED  BY <2>1
  <1>2. CASE is_district(region_sizes'[r2]) /\ PossibleRemainder(region_sizes'[r1], num_regions')
    <2>1. IsRemainder(r1)'
      BY <1>2 DEF IsRemainder
    <2> QED  BY <2>1
  <1> QED  BY <1>1, <1>2

-----------------------------------------------------------------------------
(* The inductive invariant, one lemma for each action that does more than *)
(* move the round along.  *)

\* A run starts with the whole map as the remainder, or with a plan to check.
LEMMA InitEstablishes ==
    ASSUME Init
    PROVE  IInv
  <1>1. CASE InitFromBlank
    <2>1. num_regions = 1 /\ Regions = {0} /\ 0 \in Ids
      BY <1>1, ConstantFacts DEF InitFromBlank, BlankPlan, Regions, Ids
    <2>2. TypeOK
      <3>1. /\ region_sizes \in [Ids -> 0 .. total_seats]
            /\ region_added_order \in [Ids -> Int]
            /\ region_order_max \in Nat
        BY <1>1, ConstantFacts DEF InitFromBlank, BlankPlan
      <3>2. /\ smaller_cut_sizes \in [Sizes -> SUBSET Sizes]
            /\ valid_region_sizes_to_split \subseteq Sizes
            /\ valid_merge_pair_sizes \subseteq Sizes \X Sizes
            /\ round = "begin"
        BY <1>1 DEF InitFromBlank
      <3>3. smc_rounds = 0 /\ ms_rounds = 0 /\ num_regions \in 1 .. ndists
        BY <2>1, ConstantFacts DEF Init
      <3>4. BaseTypeOK
        BY <3>1, <3>2, <3>3, ConstantFacts DEF BaseTypeOK
      <3>6. current_ctx \in Ids \cup {-1} /\ checked \in 0 .. ndists /\ seat_sum \in Nat
        BY ConstantFacts DEF Init
      <3>7. mergesplit_district_pairs \in BOOLEAN
        BY Zenon DEF Init
      <3> QED  BY <3>4, <3>6, <3>7, Zenon DEF TypeOK
    <2>3. region_sizes[0] = total_seats /\ total_seats \in Sizes
      BY <1>1, <2>1, ConstantFacts DEF InitFromBlank, BlankPlan, Sizes
    <2>4. IsRemainder(0)
      <3>1. is_sum_of(total_seats, ndists)
        BY MMDAssumption DEF is_sum_of
      <3>2. is_sum_of(0, 0)
        BY ConstantFacts DEF is_sum_of
      <3>3. ndists - 1 + 1 = ndists /\ total_seats - total_seats = 0
        BY ConstantFacts
      <3> QED  BY <2>1, <2>3, <3>1, <3>2, <3>3 DEF IsRemainder, PossibleRemainder
    <2>5. SeatsInv /\ RemainderInv
      BY <2>1, <2>3, <2>4 DEF SeatsInv, RemainderInv
    <2>6. round = "begin" /\ smc_rounds = 0
      BY <1>1 DEF Init, InitFromBlank
    <2>7. CheckInv /\ TablesInv /\ RoundInv
      BY <2>1, <2>6, ConstantFacts DEF CheckInv, TablesInv, RoundInv
    <2>8. StampsTellAge
      BY <1>1, <2>1, ConstantFacts DEF InitFromBlank, BlankPlan, StampsTellAge
    <2> QED  BY <2>2, <2>5, <2>7, <2>8 DEF IInv
  <1>2. CASE InitFromPartial
    <2>1. PICK k \in 2 .. ndists - 1 :
            /\ \E sizes \in [0 .. k - 1 -> Sizes] :
                  PartialPlan(k, [r \in Ids |-> IF r < k THEN sizes[r] ELSE 0])
            /\ smaller_cut_sizes = BuiltCutSizes(k)
            /\ valid_region_sizes_to_split = TableSplits(k - 1)
            /\ valid_merge_pair_sizes = TableMerges(k - 1)
            /\ round = "check"
      BY <1>2, Zenon DEF InitFromPartial
    <2>2. PICK sizes \in [0 .. k - 1 -> Sizes] :
            PartialPlan(k, [r \in Ids |-> IF r < k THEN sizes[r] ELSE 0])
      BY <2>1
    <2>3. num_regions = k /\ k \in Int /\ 2 <= k /\ k < ndists /\ Regions = 0 .. k - 1
      BY <2>2, ConstantFacts DEF PartialPlan, Regions
    <2>4. \A r \in Regions : region_sizes[r] = sizes[r] /\ region_sizes[r] \in Sizes
      BY <2>2, <2>3, ConstantFacts DEF PartialPlan, Ids
    <2>5. region_sizes \in [Ids -> 0 .. total_seats]
      BY <2>2, <2>3, ConstantFacts DEF PartialPlan, Ids, Sizes
    <2>6. TypeOK
      <3>1. smaller_cut_sizes \in [Sizes -> SUBSET Sizes]
        BY <2>1, <2>3, TableTypes DEF BuiltCutSizes
      <3>2. /\ valid_region_sizes_to_split \subseteq Sizes
            /\ valid_merge_pair_sizes \subseteq Sizes \X Sizes
        BY <2>1, <2>3, TableTypes
      <3>3. region_added_order \in [Ids -> Int] /\ region_order_max \in Nat
        BY <2>2, <2>3, ConstantFacts DEF PartialPlan, Ids
      <3>4. smc_rounds = 0 /\ ms_rounds = 0 /\ num_regions \in 1 .. ndists /\ round = "check"
        BY <2>1, <2>3, ConstantFacts DEF Init
      <3>5. BaseTypeOK
        BY <2>5, <3>1, <3>2, <3>3, <3>4, ConstantFacts DEF BaseTypeOK
      <3>6. current_ctx \in Ids \cup {-1} /\ checked \in 0 .. ndists /\ seat_sum \in Nat
        BY ConstantFacts DEF Init
      <3>7. mergesplit_district_pairs \in BOOLEAN
        BY Zenon DEF Init
      <3> QED  BY <3>5, <3>6, <3>7, Zenon DEF TypeOK
    <2>7. SeatsInv /\ RemainderInv
      BY <2>1, <2>4 DEF SeatsInv, RemainderInv, Started
    <2>8. CheckInv
      <3>1. checked = 0 /\ seat_sum = 0
        BY DEF Init
      <3>2. is_sum_of(0, 0)
        BY ConstantFacts DEF is_sum_of
      <3> QED  BY <2>3, <3>1, <3>2 DEF CheckInv, SeenAddsUp
    <2>9. TablesInv
      BY <2>1, <2>3 DEF TablesInv, TablesAreFor, BuiltCutSizes
    <2>10. RoundInv
      BY <2>1, <2>3 DEF RoundInv, Init
    <2>11. StampsTellAge
      BY <2>2, <2>3, ConstantFacts DEF PartialPlan, StampsTellAge, Ids
    <2> QED  BY <2>6, <2>7, <2>8, <2>9, <2>10, <2>11 DEF IInv
  <1> QED  BY <1>1, <1>2 DEF Init

\* The loop of check_initial_plan adds one region to what it has seen.
LEMMA CheckRegionPreserves ==
    ASSUME IInv, CheckRegion
    PROVE  IInv'
  <1> USE DEF IInv
  <1> DEFINE i == checked
             size == region_sizes[i]
  <1>1. /\ round = "check" /\ i < num_regions /\ checked' = i + 1
        /\ seat_sum' = seat_sum + size
        /\ UNCHANGED <<planVars, tableVars, roundVars, mmdVars>>
    BY DEF CheckRegion
  <1>2. UNCHANGED <<num_regions, region_sizes, region_added_order, region_order_max,
                    smaller_cut_sizes, valid_region_sizes_to_split, valid_merge_pair_sizes,
                    round, smc_rounds, ms_rounds, mergesplit_district_pairs, current_ctx>>
    BY <1>1 DEF planVars, tableVars, roundVars, mmdVars
  <1>3. /\ num_regions \in Int /\ 1 <= num_regions /\ num_regions <= ndists
        /\ i \in Nat /\ seat_sum \in Nat /\ i \in Regions /\ size \in Sizes
        /\ Regions' = Regions
    BY <1>1, <1>2, ConstantFacts DEF TypeOK, BaseTypeOK, Regions, SeatsInv
  <1>4. TypeOK'
    <2>1. BaseTypeOK'
      BY <1>2 DEF TypeOK, BaseTypeOK
    <2>2. checked' \in 0 .. ndists /\ seat_sum' \in Nat
      BY <1>1, <1>3, ConstantFacts DEF Sizes
    <2> QED  BY <1>2, <2>1, <2>2, Zenon DEF TypeOK
  <1>5. SeatsInv' /\ RemainderInv' /\ StampsTellAge'
    BY <1>1, <1>2, <1>3 DEF SeatsInv, RemainderInv, Started, StampsTellAge
  <1>6. TablesInv' /\ RoundInv'
    BY <1>1, <1>2 DEF TablesInv, TablesAreFor, RoundInv
  <1>7. CheckInv'
    <2>0. \A r \in Regions : r \in Int /\ region_sizes[r] \in Int
      BY DEF Regions, SeatsInv, Sizes
    <2> SUFFICES ASSUME NEW r \in Regions,
                        \A q \in Regions \ {r} : q < i + 1 => is_district(region_sizes[q])
                 PROVE  /\ r < i + 1 => is_sum_of(seat_sum + size - region_sizes[r], i + 1 - 1)
                        /\ r >= i + 1 => is_sum_of(seat_sum + size, i + 1)
      <3> size \in Int
        BY <1>3 DEF Sizes
      <3> QED  BY <1>1, <1>2, <1>3, <2>0 DEF CheckInv, SeenAddsUp
    <2>1. r \in Int /\ region_sizes[r] \in Int /\ size \in Int
      BY <1>3, <2>0 DEF Sizes
    <2>2. /\ r < i => is_sum_of(seat_sum - region_sizes[r], i - 1)
          /\ r >= i => is_sum_of(seat_sum, i)
      <3>1. \A q \in Regions \ {r} : q < i => is_district(region_sizes[q])
        BY <1>3 DEF Regions
      <3> QED  BY <1>1, <3>1 DEF CheckInv, SeenAddsUp
    <2>3. CASE r = i
      <3>1. seat_sum + size - region_sizes[r] = seat_sum /\ i + 1 - 1 = i /\ ~(r >= i + 1)
        BY <1>3, <2>1, <2>3
      <3>2. is_sum_of(seat_sum, i)
        BY <1>3, <2>2, <2>3
      <3>3. is_sum_of(seat_sum + size - region_sizes[r], i + 1 - 1)
        BY <1>3, <2>1, <3>1, <3>2
      <3> QED  BY <1>3, <2>1, <2>3, <3>3
    <2>4. CASE r < i
      <3>1. is_district(size)
        BY <1>3, <2>4
      <3>2. is_sum_of((seat_sum - region_sizes[r]) + size, (i - 1) + 1)
        BY <1>3, <2>1, <2>2, <2>4, <3>1, AddDistrict
      <3>3. (seat_sum - region_sizes[r]) + size = seat_sum + size - region_sizes[r]
            /\ (i - 1) + 1 = i + 1 - 1 /\ r < i + 1
        BY <1>3, <2>1, <2>4
      <3> QED  BY <1>3, <2>1, <3>2, <3>3
    <2>5. CASE i < r
      <3>1. is_district(size)
        BY <1>3, <2>5
      <3>2. is_sum_of(seat_sum + size, i + 1)
        BY <1>3, <2>1, <2>2, <2>5, <3>1, AddDistrict
      <3> QED  BY <1>3, <2>1, <2>5, <3>2
    <2> QED  BY <1>3, <2>1, <2>3, <2>4, <2>5
  <1> QED  BY <1>4, <1>5, <1>6, <1>7

\* The regions are a finite set, of num_regions elements.
LEMMA RegionsAreFinite ==
    ASSUME num_regions \in 1 .. ndists
    PROVE  IsFiniteSet(Regions) /\ Cardinality(Regions) = num_regions
  <1>1. num_regions \in Int /\ num_regions - 1 \in Int /\ ~(0 > num_regions - 1)
    BY SeatAssumption
  <1> QED  BY <1>1, FS_Interval DEF Regions

\* Relabelling by age is a permutation of the regions: OldId undoes AgeRank.
LEMMA OldIdIsAPermutation ==
    ASSUME num_regions \in 1 .. ndists, region_added_order \in [Ids -> Int], StampsTellAge
    PROVE  /\ \A i \in Regions : OldId(i) \in Regions /\ AgeRank(OldId(i)) = i
           /\ \A r \in Regions : AgeRank(r) \in Regions /\ OldId(AgeRank(r)) = r
  <1> DEFINE order == [r \in 0 .. num_regions - 1 |-> region_added_order[r]]
  <1>1. num_regions \in Nat /\ order \in [0 .. num_regions - 1 -> Int]
    BY SeatAssumption DEF Ids
  <1>2. \A r, q \in 0 .. num_regions - 1 : order[r] = order[q] => r = q
    BY DEF StampsTellAge, Regions
  <1>3. \A r \in 0 .. num_regions - 1 : RankOf(order, num_regions, r) = AgeRank(r)
    BY DEF AgeRank, Regions, RankOf
  <1> HIDE DEF order
  <1>4. /\ \A r \in 0 .. num_regions - 1 : AgeRank(r) \in 0 .. num_regions - 1
        /\ \A r, q \in 0 .. num_regions - 1 : AgeRank(r) = AgeRank(q) => r = q
        /\ \A i \in 0 .. num_regions - 1 : \E r \in 0 .. num_regions - 1 : AgeRank(r) = i
    <2> DEFINE n == num_regions
    <2>1. n \in Nat /\ order \in [0 .. n - 1 -> Int] /\ \A r, q \in 0 .. n - 1 : order[r] = order[q] => r = q
      BY <1>1, <1>2
    <2> HIDE DEF n
    <2>2. \A r \in 0 .. n - 1 : RankOf(order, n, r) \in 0 .. n - 1
      BY <2>1, RanksPermute
    <2>3. \A r, q \in 0 .. n - 1 : RankOf(order, n, r) = RankOf(order, n, q) => r = q
      BY <2>1, RanksPermute
    <2>4. \A i \in 0 .. n - 1 : \E r \in 0 .. n - 1 : RankOf(order, n, r) = i
      BY <2>1, RanksPermute
    <2> QED  BY <1>3, <2>2, <2>3, <2>4 DEF n
  <1>5. \A i \in Regions : OldId(i) = CHOOSE r \in Regions : AgeRank(r) = i
    BY <1>1 DEF OldId, Regions
  <1>6. /\ \A r \in Regions : AgeRank(r) \in Regions
        /\ \A r, q \in Regions : AgeRank(r) = AgeRank(q) => r = q
        /\ \A i \in Regions : \E r \in Regions : AgeRank(r) = i
    BY <1>4 DEF Regions
  <1> QED  BY <1>5, <1>6

\* A plan that passes the checks has a remainder.
LEMMA VerdictFindsRemainder ==
    ASSUME IInv, round = "check", checked = num_regions, CanBeCompleted
    PROVE  \E r \in Regions : IsRemainder(r)
  <1> DEFINE non_district == NonDistricts(region_sizes, num_regions)
  <1>1. /\ num_regions \in Int /\ 1 <= num_regions /\ num_regions <= ndists
        /\ \A r \in Regions : region_sizes[r] \in Int /\ r \in Int /\ r < num_regions
        /\ non_district \subseteq Regions /\ IsFiniteSet(non_district)
    <2>1. num_regions \in 1 .. ndists
      BY DEF IInv, TypeOK, BaseTypeOK
    <2>2. non_district \subseteq Regions
      BY DEF NonDistricts, Regions
    <2>3. IsFiniteSet(non_district)
      BY <2>1, <2>2, RegionsAreFinite, FS_Subset
    <2> QED  BY <2>1, <2>2, <2>3, ConstantFacts DEF IInv, SeatsInv, Sizes, Regions
  <1>2. PICK r \in IF non_district # {} THEN non_district ELSE Regions :
               is_sum_of(region_sizes[r], ndists - num_regions + 1)
    BY DEF CanBeCompleted
  <1>3. r \in Regions
    BY <1>1, <1>2
  <1>4. \A q \in Regions \ {r} : is_district(region_sizes[q])
    <2> SUFFICES ASSUME NEW q \in Regions \ {r}, ~is_district(region_sizes[q])
                 PROVE  FALSE
      OBVIOUS
    <2>1. q \in non_district
      BY DEF NonDistricts, Regions
    <2>2. {q, r} \in SUBSET non_district
      BY <1>2, <2>1
    <2>3. Cardinality({q, r}) = 2
      <3>1. IsFiniteSet({r}) /\ Cardinality({r}) = 1
        BY FS_Singleton
      <3>2. Cardinality({r} \cup {q}) = Cardinality({r}) + 1
        BY <3>1, FS_AddElement
      <3> QED  BY <3>1, <3>2
    <2>4. Cardinality(non_district) <= 1
      BY DEF CanBeCompleted
    <2>5. Cardinality({q, r}) <= Cardinality(non_district) /\ Cardinality(non_district) \in Nat
      BY <1>1, <2>2, FS_Subset, FS_CardinalityType
    <2> QED  BY <2>3, <2>4, <2>5
  <1>5. is_sum_of(seat_sum - region_sizes[r], num_regions - 1)
    BY <1>1, <1>3, <1>4 DEF IInv, CheckInv, SeenAddsUp
  <1>6. seat_sum = total_seats
    BY DEF CanBeCompleted
  <1> QED  BY <1>2, <1>3, <1>4, <1>5, <1>6 DEF IsRemainder, PossibleRemainder

\* The verdict lets exactly the plans with a remainder into the loop.
LEMMA CheckVerdictPreserves ==
    ASSUME IInv, CheckVerdict
    PROVE  IInv'
  <1> USE DEF IInv
  <1>1. /\ round = "check" /\ checked = num_regions
        /\ round' = IF CanBeCompleted THEN "begin" ELSE "rejected"
        /\ UNCHANGED <<planVars, tableVars, smc_rounds, ms_rounds, mmdVars, checkVars>>
    BY DEF CheckVerdict
  <1>2. UNCHANGED <<num_regions, region_sizes, region_added_order, region_order_max,
                    smaller_cut_sizes, valid_region_sizes_to_split, valid_merge_pair_sizes,
                    smc_rounds, ms_rounds, mergesplit_district_pairs, current_ctx,
                    checked, seat_sum>>
    BY <1>1 DEF planVars, tableVars, mmdVars, checkVars
  <1>3. TypeOK'
    <2>1. BaseTypeOK'
      BY <1>1, <1>2 DEF TypeOK, BaseTypeOK
    <2> QED  BY <1>2, <2>1, Zenon DEF TypeOK
  <1>4. SeatsInv' /\ StampsTellAge' /\ Regions' = Regions
    BY <1>2 DEF SeatsInv, StampsTellAge, Regions
  <1>5. RemainderInv'
    <2>1. CASE CanBeCompleted
      BY <1>1, <1>2, <1>4, <2>1, VerdictFindsRemainder DEF RemainderInv, IsRemainder
    <2>2. CASE ~CanBeCompleted
      BY <1>1, <2>2 DEF RemainderInv, Started
    <2> QED  BY <2>1, <2>2
  <1>6. CheckInv' /\ TablesInv' /\ RoundInv'
    BY <1>1, <1>2 DEF CheckInv, TablesInv, TablesAreFor, RoundInv
  <1> QED  BY <1>3, <1>4, <1>5, <1>6

\* An SMC round begins with the tables of the plan's number of regions.
LEMMA SetPotentialPreserves ==
    ASSUME IInv, set_potential_cut_sizes_for_each_valid_size
    PROVE  IInv'
  <1> USE DEF IInv
  <1> DEFINE k == num_regions
  <1>1. /\ round = "begin" /\ k < ndists /\ round' = "smc"
        /\ smaller_cut_sizes' = [s \in Sizes |-> IF PossibleRemainder(s, k)
                                                 THEN TableCuts(s, k)
                                                 ELSE smaller_cut_sizes[s]]
        /\ valid_region_sizes_to_split' = TableSplits(k)
        /\ valid_merge_pair_sizes' = TableMerges(k)
    BY DEF set_potential_cut_sizes_for_each_valid_size, MayBeginSMC
  <1>2. /\ UNCHANGED <<num_regions, region_sizes, region_added_order, region_order_max,
                       smc_rounds, ms_rounds, current_ctx, checked, seat_sum>>
        /\ mergesplit_district_pairs' \in BOOLEAN
    BY Zenon DEF set_potential_cut_sizes_for_each_valid_size, planVars, checkVars
  <1>3. k \in Int
    BY ConstantFacts DEF TypeOK, BaseTypeOK
  <1>4. BaseTypeOK'
    <2>1. smaller_cut_sizes' \in [Sizes -> SUBSET Sizes]
      BY <1>1, <1>3, TableTypes DEF TypeOK, BaseTypeOK
    <2>2. /\ valid_region_sizes_to_split' \subseteq Sizes
          /\ valid_merge_pair_sizes' \subseteq Sizes \X Sizes
      BY <1>1, <1>3, TableTypes
    <2> QED  BY <1>1, <1>2, <2>1, <2>2 DEF TypeOK, BaseTypeOK
  <1>5. TypeOK'
    BY <1>2, <1>4, Zenon DEF TypeOK
  <1>6. SeatsInv' /\ StampsTellAge' /\ RemainderInv' /\ CheckInv'
    BY <1>1, <1>2
       DEF SeatsInv, StampsTellAge, Regions, RemainderInv, Started, IsRemainder, CheckInv
  <1>7. TablesInv' /\ RoundInv'
    BY <1>1, <1>2 DEF TablesInv, TablesAreFor, RoundInv
  <1> QED  BY <1>5, <1>6, <1>7

\* A split takes the remainder apart into a district and a smaller remainder.
LEMMA SplitPreserves ==
    ASSUME IInv, Split
    PROVE  IInv'
  <1> USE DEF IInv
  <1> DEFINE k == num_regions
  <1>1. PICK r \in choose_multidistrict_to_split :
          \E smaller \in smaller_cut_sizes[region_sizes[r]] : SplitRegion(r, smaller)
    BY DEF Split
  <1>2. PICK smaller \in smaller_cut_sizes[region_sizes[r]] : SplitRegion(r, smaller)
    BY <1>1
  <1> DEFINE larger == region_sizes[r] - smaller
  <1>3. /\ round = "smc" /\ round' = "weigh" /\ num_regions' = k + 1
        /\ update_region_info_from_cut(r, k, smaller, larger)
        /\ smc_rounds' = smc_rounds /\ ms_rounds' = ms_rounds
    BY <1>2 DEF SplitRegion
  <1>4. UNCHANGED <<smaller_cut_sizes, valid_region_sizes_to_split, valid_merge_pair_sizes,
                    mergesplit_district_pairs, current_ctx, checked, seat_sum>>
    BY DEF Split, tableVars, mmdVars, checkVars
  <1>5. k \in Int /\ 1 <= k /\ k < ndists /\ TablesAreFor(k) /\ BaseTypeOK /\ Started
    BY <1>3, ConstantFacts DEF TypeOK, BaseTypeOK, RoundInv, TablesInv, Started
  <1>6. PICK r0 \in Regions : IsRemainder(r0)
    BY <1>5 DEF RemainderInv
  <1>7. r \in Regions /\ IsRemainder(r)
    BY <1>1, <1>5, <1>6, SplittableIsRemainder, ConstantFacts
  <1>8. PossibleRemainder(region_sizes[r], k) /\ region_sizes[r] \in Sizes
    BY <1>7 DEF IsRemainder, SeatsInv
  <1>9. smaller \in TableCuts(region_sizes[r], k)
    BY <1>2, <1>5, <1>8 DEF TablesAreFor
  <1>10. /\ smaller \in Sizes /\ larger \in Sizes
         /\ \/ is_district(smaller) /\ PossibleRemainder(larger, k + 1)
            \/ is_district(larger) /\ PossibleRemainder(smaller, k + 1)
    BY <1>5, <1>8, <1>9, CutPieces
  <1>11. r \in Ids /\ k \in Ids /\ r # k /\ Regions' = Regions \cup {r, k}
    BY <1>3, <1>5, <1>7, ConstantFacts DEF Regions, Ids
  <1> HIDE DEF larger
  <1>12. /\ region_sizes' \in [Ids -> 0 .. total_seats]
         /\ region_added_order' \in [Ids -> Int]
         /\ region_order_max' \in Nat
         /\ region_sizes'[r] = smaller /\ region_sizes'[k] = larger
         /\ \A q \in Regions \ {r, k} : region_sizes'[q] = region_sizes[q]
         /\ SeatsInv' /\ StampsTellAge'
    BY <1>3, <1>5, <1>10, <1>11, CutKeepsShape
  <1>13. TypeOK'
    <2>1. num_regions' \in 1 .. ndists
      BY <1>3, <1>5, ConstantFacts
    <2>2. BaseTypeOK'
      BY <1>3, <1>4, <1>5, <1>12, <2>1 DEF BaseTypeOK
    <2> QED  BY <1>4, <2>2, Zenon DEF TypeOK
  <1>14. RemainderInv'
    <2>1. \A q \in Regions \ {r, k} : is_district(region_sizes[q])
      BY <1>7 DEF IsRemainder
    <2>2. \/ is_district(region_sizes'[r]) /\ PossibleRemainder(region_sizes'[k], num_regions')
          \/ is_district(region_sizes'[k]) /\ PossibleRemainder(region_sizes'[r], num_regions')
      BY <1>3, <1>10, <1>12
    <2> QED  BY <1>11, <1>12, <2>1, <2>2, CutLeavesRemainder DEF RemainderInv
  <1>15. CheckInv'
    BY <1>3 DEF CheckInv
  <1>16. TablesInv'
    <2>1. num_regions' - 1 = k
      BY <1>3, <1>5
    <2> QED  BY <1>3, <1>4, <1>5, <2>1 DEF TablesInv, TablesAreFor
  <1>17. RoundInv'
    <2>1. smc_rounds \in Int /\ smc_rounds < k
      BY DEF TypeOK, BaseTypeOK, RoundInv
    <2> QED  BY <1>3, <1>5, <2>1 DEF RoundInv
  <1> QED  BY <1>12, <1>13, <1>14, <1>15, <1>16, <1>17

\* Two districts merged while a remainder exists elsewhere come apart as two
\* districts, and the remainder is still there.
LEMMA DistrictPairCut ==
    ASSUME IInv, round = "ms", NEW r1 \in Regions, NEW r2 \in Regions,
           is_district_pair_merge(current_ctx, r1, r2),
           NEW smaller \in district_pair_smaller_cut_sizes(region_sizes[r1] + region_sizes[r2]),
           NEW r \in Regions, IsRemainder(r)
    PROVE  /\ is_district(smaller)
           /\ is_district((region_sizes[r1] + region_sizes[r2]) - smaller)
           /\ smaller \in Sizes /\ (region_sizes[r1] + region_sizes[r2]) - smaller \in Sizes
           /\ r # r1 /\ r # r2
  <1> DEFINE merged == region_sizes[r1] + region_sizes[r2]
  <1>1. merged \in Int /\ region_sizes[r] \in Int /\ num_regions \in Nat
    BY ConstantFacts DEF IInv, SeatsInv, Sizes, TypeOK, BaseTypeOK
  <1>2. PICK d \in district_seat_sizes : /\ merged - d \in district_seat_sizes
                                         /\ smaller = MinOf(d, merged - d)
    BY DEF district_pair_smaller_cut_sizes
  <1>3. /\ d \in Sizes /\ merged - d \in Sizes /\ d \in Int
        /\ is_district(d) /\ is_district(merged - d)
    BY <1>2, MMDAssumption, ConstantFacts DEF Sizes, is_district
  <1>4. smaller = d \/ smaller = merged - d
    BY <1>2 DEF MinOf
  <1>5. merged - (merged - d) = d
    BY <1>1, <1>3
  <1>6. /\ is_district(smaller) /\ is_district(merged - smaller)
        /\ smaller \in Sizes /\ merged - smaller \in Sizes
    <2> HIDE DEF merged
    <2> QED  BY <1>3, <1>4, <1>5
  <1>7. is_district(region_sizes[r1]) /\ is_district(region_sizes[r2])
    BY DEF is_district_pair_merge
  <1>8. ~is_district(region_sizes[r])
    <2>1. CASE plan_context_needed
      <3>1. current_ctx >= 0 /\ current_ctx = ContextOf(region_sizes, num_regions)
        BY <2>1 DEF is_district_pair_merge, IInv, RoundInv
      <3> QED  BY <1>1, <3>1, ContextIsRemainder
    <2>2. CASE ~plan_context_needed
      <3>1. num_regions < ndists
        BY <2>2 DEF is_district_pair_merge
      <3>2. ndists - num_regions + 1 \in Int /\ ndists - num_regions + 1 >= 2
        BY <1>1, <3>1, ConstantFacts
      <3>3. is_sum_of(region_sizes[r], ndists - num_regions + 1)
        BY DEF IsRemainder, PossibleRemainder
      <3> QED  BY <1>1, <2>2, <3>2, <3>3, SumIsNoDistrict
    <2> QED  BY <2>1, <2>2
  <1>9. r # r1 /\ r # r2
    BY <1>7, <1>8
  <1> QED  BY <1>6, <1>9

\* Any other pair the round may merge holds the remainder, or every region is
\* a district: the regions outside the pair are districts.
LEMMA TablePairHoldsRemainder ==
    ASSUME IInv, round = "ms", NEW r1 \in Regions, NEW r2 \in Regions,
           is_valid_merge_pair(current_ctx, r1, r2),
           ~is_district_pair_merge(current_ctx, r1, r2),
           NEW r \in Regions, IsRemainder(r)
    PROVE  \A q \in Regions \ {r1, r2} : is_district(region_sizes[q])
  <1>1. CASE r = r1 \/ r = r2
    BY <1>1 DEF IsRemainder
  <1>2. CASE r # r1 /\ r # r2
    <2>1. is_district(region_sizes[r1]) /\ is_district(region_sizes[r2])
      BY <1>2 DEF IsRemainder
    <2>2. num_regions \in Nat /\ num_regions <= ndists /\ region_sizes[r] \in Int /\ r \in Nat
      BY ConstantFacts DEF IInv, TypeOK, BaseTypeOK, SeatsInv, Sizes, Regions
    <2>3. is_district(region_sizes[r])
      <3>1. CASE plan_context_needed
        <4>1. current_ctx = ContextOf(region_sizes, num_regions)
          BY DEF IInv, RoundInv
        <4>2. ~is_district(region_sizes[r]) => current_ctx = r
          BY <2>2, <3>1, <4>1, ContextIsRemainder
        <4>3. current_ctx < 0 \/ r1 = current_ctx \/ r2 = current_ctx
          BY DEF is_valid_merge_pair
        <4> QED  BY <1>2, <2>2, <4>2, <4>3
      <3>2. CASE ~plan_context_needed
        <4>1. mergesplit_district_pairs
          BY Zenon DEF IInv, RoundInv
        <4>2. ~(num_regions < ndists)
          BY <2>1, <3>2, <4>1 DEF is_district_pair_merge
        <4>3. ndists - num_regions + 1 = 1
          BY <2>2, <4>2, ConstantFacts
        <4> QED  BY <2>2, <4>3, SumOfOne DEF IsRemainder, PossibleRemainder
      <3> QED  BY <3>1, <3>2
    <2> QED  BY <2>3 DEF IsRemainder
  <1> QED  BY <1>1, <1>2

\* An accepted proposal keeps a remainder, the pair's or another.
LEMMA MergeSplitPreserves ==
    ASSUME IInv, MergeSplit
    PROVE  IInv'
  <1> USE DEF IInv
  <1> DEFINE k == num_regions
  <1>1. PICK r1 \in Regions, r2 \in Regions :
          /\ r1 < r2
          /\ is_valid_merge_pair(current_ctx, r1, r2)
          /\ \E smaller \in merged_region_cut_sizes(current_ctx, r1, r2) :
                ResplitPair(r1, r2, smaller)
    BY DEF MergeSplit
  <1>2. PICK smaller \in merged_region_cut_sizes(current_ctx, r1, r2) :
          ResplitPair(r1, r2, smaller)
    BY <1>1
  <1> DEFINE merged == region_sizes[r1] + region_sizes[r2]
             larger == merged - smaller
  <1>3. /\ round = "ms"
        /\ update_region_info_from_cut(r1, r2, smaller, larger)
        /\ UNCHANGED <<num_regions, round, smc_rounds, ms_rounds>>
    BY <1>2, Zenon DEF ResplitPair
  <1>4. /\ UNCHANGED <<smaller_cut_sizes, valid_region_sizes_to_split, valid_merge_pair_sizes,
                       mergesplit_district_pairs, checked, seat_sum>>
        /\ current_ctx' = ContextOf(region_sizes', num_regions)
    BY DEF MergeSplit, tableVars, checkVars
  <1>5. /\ k \in Nat /\ 2 <= k /\ k <= ndists /\ TablesAreFor(k - 1)
        /\ BaseTypeOK /\ Started
    BY <1>3, ConstantFacts DEF TypeOK, BaseTypeOK, RoundInv, TablesInv, Started
  <1>6. PICK r \in Regions : IsRemainder(r)
    BY <1>5 DEF RemainderInv
  <1>7. /\ r1 \in Ids /\ r2 \in Ids /\ r1 # r2 /\ Regions' = Regions
        /\ Regions' = Regions \cup {r1, r2}
    BY <1>1, <1>3, <1>5, ConstantFacts DEF Regions, Ids
  <1>8. /\ smaller \in Sizes /\ larger \in Sizes
        /\ \/ /\ \A q \in Regions \ {r1, r2} : is_district(region_sizes[q])
              /\ \/ is_district(smaller) /\ PossibleRemainder(larger, k)
                 \/ is_district(larger) /\ PossibleRemainder(smaller, k)
           \/ /\ r # r1 /\ r # r2
              /\ is_district(smaller) /\ is_district(larger)
    <2>1. CASE is_district_pair_merge(current_ctx, r1, r2)
      <3>1. smaller \in district_pair_smaller_cut_sizes(merged)
        BY <1>2, <2>1 DEF merged_region_cut_sizes
      <3>2. /\ is_district(smaller) /\ is_district(larger)
            /\ smaller \in Sizes /\ larger \in Sizes
            /\ r # r1 /\ r # r2
        BY <1>3, <1>6, <2>1, <3>1, DistrictPairCut, Zenon
      <3> QED  BY <3>2, Zenon
    <2>2. CASE ~is_district_pair_merge(current_ctx, r1, r2)
      <3>1. smaller \in smaller_cut_sizes[merged]
        BY <1>2, <2>2 DEF merged_region_cut_sizes
      <3>2. /\ region_sizes[r1] \in Sizes /\ region_sizes[r2] \in Sizes
            /\ <<region_sizes[r1], region_sizes[r2]>> \in TableMerges(k - 1)
        BY <1>1, <1>5, <2>2 DEF is_valid_merge_pair, TablesAreFor, SeatsInv
      <3>3. k - 1 \in Int /\ 1 <= k - 1 /\ k - 1 < ndists /\ (k - 1) + 1 = k
        BY <1>5, ConstantFacts
      <3>4. merged \in Sizes /\ PossibleRemainder(merged, k - 1)
        BY <3>2, <3>3, MergedSize
      <3>5. smaller \in TableCuts(merged, k - 1)
        BY <1>5, <3>1, <3>4 DEF TablesAreFor
      <3>6. /\ smaller \in Sizes /\ larger \in Sizes
            /\ \/ is_district(smaller) /\ PossibleRemainder(larger, k)
               \/ is_district(larger) /\ PossibleRemainder(smaller, k)
        <4> HIDE DEF merged
        <4>1. /\ smaller \in Sizes /\ merged - smaller \in Sizes
              /\ \/ is_district(smaller) /\ PossibleRemainder(merged - smaller, (k - 1) + 1)
                 \/ is_district(merged - smaller) /\ PossibleRemainder(smaller, (k - 1) + 1)
          BY <3>3, <3>4, <3>5, CutPieces
        <4> QED  BY <3>3, <4>1
      <3>7. \A q \in Regions \ {r1, r2} : is_district(region_sizes[q])
        BY <1>1, <1>3, <1>6, <2>2, TablePairHoldsRemainder
      <3> QED  BY <3>6, <3>7
    <2> QED  BY <2>1, <2>2
  <1> HIDE DEF larger, merged
  <1>9. /\ region_sizes' \in [Ids -> 0 .. total_seats]
        /\ region_added_order' \in [Ids -> Int]
        /\ region_order_max' \in Nat
        /\ region_sizes'[r1] = smaller /\ region_sizes'[r2] = larger
        /\ \A q \in Regions \ {r1, r2} : region_sizes'[q] = region_sizes[q]
        /\ SeatsInv' /\ StampsTellAge'
    BY <1>3, <1>5, <1>7, <1>8, CutKeepsShape
  <1>10. TypeOK'
    <2>1. BaseTypeOK'
      BY <1>3, <1>4, <1>5, <1>9 DEF BaseTypeOK
    <2>2. current_ctx' \in Ids \cup {-1}
      <3>1. current_ctx' \in NonDistricts(region_sizes', k) \cup {-1}
        BY <1>4, <1>5, ContextFacts
      <3>2. NonDistricts(region_sizes', k) \subseteq Ids
        BY <1>5, ConstantFacts DEF NonDistricts, Ids
      <3> QED  BY <3>1, <3>2
    <2> QED  BY <1>4, <2>1, <2>2, Zenon DEF TypeOK
  <1>11. RemainderInv'
    <2>1. CASE /\ \A q \in Regions \ {r1, r2} : is_district(region_sizes[q])
               /\ \/ is_district(smaller) /\ PossibleRemainder(larger, k)
                  \/ is_district(larger) /\ PossibleRemainder(smaller, k)
      <3>1. \/ is_district(region_sizes'[r1]) /\ PossibleRemainder(region_sizes'[r2], num_regions')
            \/ is_district(region_sizes'[r2]) /\ PossibleRemainder(region_sizes'[r1], num_regions')
        BY <1>3, <1>9, <2>1
      <3> QED  BY <1>7, <1>9, <2>1, <3>1, CutLeavesRemainder DEF RemainderInv
    <2>2. CASE r # r1 /\ r # r2 /\ is_district(smaller) /\ is_district(larger)
      <3>1. IsRemainder(r)'
        BY <1>3, <1>6, <1>7, <1>9, <2>2 DEF IsRemainder
      <3> QED  BY <1>6, <1>7, <3>1 DEF RemainderInv
    <2> QED  BY <1>8, <2>1, <2>2
  <1>12. CheckInv' /\ TablesInv'
    BY <1>3, <1>4, <1>5 DEF CheckInv, TablesInv, TablesAreFor
  <1>13. RoundInv'
    BY <1>3, <1>4, <1>5 DEF RoundInv
  <1> QED  BY <1>9, <1>10, <1>11, <1>12, <1>13

\* The steps that only move the round along: the plan, its stamps and the
\* tables stay.
LEMMA RoundMovesOn ==
    ASSUME IInv, Started, Started', UNCHANGED <<planVars, tableVars>>,
           UNCHANGED <<checked, seat_sum>>,
           round # "smc", round' # "smc", TypeOK', RoundInv'
    PROVE  IInv'
  <1> USE DEF IInv
  <1>1. UNCHANGED <<num_regions, region_sizes, region_added_order, region_order_max,
                    smaller_cut_sizes, valid_region_sizes_to_split, valid_merge_pair_sizes>>
    BY DEF planVars, tableVars
  <1>2. SeatsInv' /\ StampsTellAge'
    BY <1>1 DEF SeatsInv, StampsTellAge, Regions
  <1>3. RemainderInv'
    BY <1>1 DEF RemainderInv, Regions, IsRemainder
  <1>4. CheckInv'
    BY DEF CheckInv, Started
  <1>5. TablesInv'
    BY <1>1 DEF TablesInv, TablesAreFor
  <1> QED  BY <1>2, <1>3, <1>4, <1>5

\* The steps that compute weights or update the tables keep the invariant.
LEMMA WeighPreserves ==
    ASSUME IInv, Weigh
    PROVE  IInv'
  <1> USE DEF IInv
  <1>1. /\ round = "weigh" /\ round' = "end" /\ smc_rounds' = smc_rounds + 1
        /\ UNCHANGED <<planVars, tableVars>> /\ ms_rounds' = ms_rounds
        /\ UNCHANGED <<mergesplit_district_pairs, current_ctx, checked, seat_sum>>
    BY DEF Weigh, ComputeWeights, mmdVars, checkVars
  <1>2. /\ num_regions' = num_regions /\ num_regions \in 1 .. ndists /\ smc_rounds \in Nat
        /\ smc_rounds + 1 < num_regions
    BY <1>1, ConstantFacts DEF planVars, TypeOK, BaseTypeOK, RoundInv
  <1>3. TypeOK'
    <2>1. BaseTypeOK'
      BY <1>1, <1>2, ConstantFacts DEF TypeOK, BaseTypeOK, planVars, tableVars
    <2> QED  BY <1>1, <2>1, Zenon DEF TypeOK
  <1>4. RoundInv'
    BY <1>1, <1>2 DEF RoundInv
  <1> QED  BY <1>1, <1>3, <1>4, RoundMovesOn DEF Started

\* The tables of a merge-split round are of the same plan.
LEMMA UpdateForMergeSplitPreserves ==
    ASSUME IInv, update_cut_sizes_for_mergesplit_step
    PROVE  IInv'
  <1> USE DEF IInv
  <1>1. /\ round = "begin" /\ smc_rounds > 0 /\ round' = "ms"
        /\ current_ctx' = ContextOf(region_sizes, num_regions)
        /\ UNCHANGED <<planVars, tableVars>> /\ smc_rounds' = smc_rounds /\ ms_rounds' = 1
        /\ UNCHANGED <<checked, seat_sum>>
    BY DEF update_cut_sizes_for_mergesplit_step, MayBeginMergeSplit, checkVars
  <1>2. mergesplit_district_pairs' /\ mergesplit_district_pairs' \in BOOLEAN
    BY Zenon DEF update_cut_sizes_for_mergesplit_step
  <1>3. /\ num_regions' = num_regions /\ region_sizes' = region_sizes
        /\ num_regions \in Nat /\ num_regions >= 2 /\ num_regions <= ndists
    <2>1. smc_rounds < num_regions /\ smc_rounds \in Nat /\ num_regions \in 1 .. ndists
      BY ConstantFacts DEF TypeOK, BaseTypeOK, RoundInv
    <2> QED  BY <1>1, <2>1, ConstantFacts DEF planVars
  <1>4. TypeOK'
    <2>1. BaseTypeOK'
      BY <1>1 DEF TypeOK, BaseTypeOK, planVars, tableVars
    <2>2. current_ctx' \in Ids \cup {-1}
      <3>1. current_ctx' \in NonDistricts(region_sizes, num_regions) \cup {-1}
        BY <1>1, <1>3, ContextFacts
      <3>2. NonDistricts(region_sizes, num_regions) \subseteq Ids
        BY <1>3, ConstantFacts DEF NonDistricts, Ids
      <3> QED  BY <3>1, <3>2
    <2> QED  BY <1>1, <1>2, <2>1, <2>2, Zenon DEF TypeOK
  <1>5. RoundInv'
    <2>1. smc_rounds < num_regions
      BY DEF RoundInv
    <2>2. /\ round' = "ms" => /\ num_regions' >= 2
                              /\ mergesplit_district_pairs'
                              /\ current_ctx' = ContextOf(region_sizes', num_regions')
      BY <1>1, <1>2, <1>3
    <2>3. round' # "smc" /\ round' # "weigh" /\ smc_rounds' < num_regions'
      BY <1>1, <1>3, <2>1
    <2> QED  BY <2>2, <2>3, Zenon DEF RoundInv
  <1> QED  BY <1>1, <1>4, <1>5, RoundMovesOn DEF Started

\* A merge-split round ends with the tables of the splits.
LEMMA EndOfMergeSplitPreserves ==
    ASSUME IInv, EndOfMergeSplit
    PROVE  IInv'
  <1> USE DEF IInv
  <1>1. /\ round = "ms" /\ round' = "end"
        /\ UNCHANGED <<planVars, tableVars, smc_rounds, ms_rounds>>
        /\ UNCHANGED <<mergesplit_district_pairs, current_ctx, checked, seat_sum>>
    BY DEF EndOfMergeSplit, EndMergeSplit, mmdVars, checkVars
  <1>2. TypeOK'
    <2>1. BaseTypeOK'
      BY <1>1 DEF TypeOK, BaseTypeOK, planVars, tableVars
    <2> QED  BY <1>1, <2>1, Zenon DEF TypeOK
  <1>3. RoundInv'
    BY <1>1 DEF RoundInv, planVars
  <1> QED  BY <1>1, <1>2, <1>3, RoundMovesOn DEF Started

\* Relabelling moves the remainder to the id of its age, and every other
\* region with it.
LEMMA ReorderKeepsPlan ==
    ASSUME IInv, reorder_plan_by_oldest_split
    PROVE  /\ region_sizes' \in [Ids -> 0 .. total_seats]
           /\ region_added_order' \in [Ids -> Int]
           /\ region_order_max' \in Nat
           /\ num_regions' = num_regions
           /\ SeatsInv' /\ StampsTellAge'
           /\ (\E r \in Regions : IsRemainder(r)) => \E r \in Regions : IsRemainder(r)'
  <1> USE DEF IInv
  <1>1. /\ region_sizes' = [i \in Ids |-> region_sizes[OldId(i)]]
        /\ region_added_order' = [i \in Ids |-> IF i < num_regions THEN i + 1
                                                ELSE region_added_order[i]]
        /\ region_order_max' = num_regions + 6
        /\ num_regions' = num_regions
    BY DEF reorder_plan_by_oldest_split
  <1>2. /\ num_regions \in 1 .. ndists /\ region_sizes \in [Ids -> 0 .. total_seats]
        /\ region_added_order \in [Ids -> Int]
    BY DEF TypeOK, BaseTypeOK
  <1>3. Regions \subseteq Ids /\ Regions' = Regions
    BY <1>1, <1>2, ConstantFacts DEF Regions, Ids
  <1>4. /\ \A i \in Regions : OldId(i) \in Regions /\ AgeRank(OldId(i)) = i
        /\ \A r \in Regions : AgeRank(r) \in Regions /\ OldId(AgeRank(r)) = r
    BY <1>2, OldIdIsAPermutation
  <1>5. \A i \in Ids : OldId(i) \in Ids
    <2>1. \A i \in Ids : i \in Regions \/ OldId(i) = i
      BY <1>2, ConstantFacts DEF OldId, Regions, Ids
    <2> QED  BY <1>3, <1>4, <2>1
  <1>6. region_sizes' \in [Ids -> 0 .. total_seats]
    BY <1>1, <1>2, <1>5
  <1>7. \A i \in Regions : region_sizes'[i] = region_sizes[OldId(i)]
    BY <1>1, <1>3
  <1>8. region_added_order' \in [Ids -> Int] /\ region_order_max' \in Nat
    <2>1. \A i \in Ids : i + 1 \in Int /\ region_added_order[i] \in Int
      BY <1>2 DEF Ids
    <2> QED  BY <1>1, <1>2, <2>1
  <1>9. SeatsInv'
    BY <1>3, <1>4, <1>7 DEF SeatsInv, Sizes
  <1>10. StampsTellAge'
    <2>1. \A i \in Regions : region_added_order'[i] = i + 1 /\ i \in Int /\ i < num_regions
      BY <1>1, <1>2, <1>3 DEF Regions
    <2> QED  BY <1>1, <1>2, <1>3, <2>1 DEF StampsTellAge
  <1>11. ASSUME NEW r \in Regions, IsRemainder(r)
         PROVE  \E i \in Regions : IsRemainder(i)'
    <2>1. PICK i \in Regions : i = AgeRank(r)
      BY <1>4
    <2>2. region_sizes'[i] = region_sizes[r]
      BY <1>4, <1>7, <2>1
    <2>3. \A q \in Regions \ {i} : is_district(region_sizes'[q])
      <3> SUFFICES ASSUME NEW q \in Regions \ {i}
                   PROVE  is_district(region_sizes'[q])
        OBVIOUS
      <3>1. OldId(q) \in Regions \ {r}
        BY <1>4, <2>1
      <3> QED  BY <1>7, <1>11, <3>1 DEF IsRemainder
    <2>4. IsRemainder(i)'
      BY <1>1, <1>3, <1>11, <2>2, <2>3 DEF IsRemainder
    <2> QED  BY <2>4
  <1> QED  BY <1>1, <1>6, <1>8, <1>9, <1>10, <1>11

\* An iteration, or a run, may end by relabelling the plan.
LEMMA ReorderingStepPreserves ==
    ASSUME IInv, Started, Started', round # "smc", round' \notin {"smc", "ms", "weigh"},
           reorder_plan_by_oldest_split \/ UNCHANGED planVars,
           UNCHANGED <<tableVars, smc_rounds, ms_rounds, mmdVars, checkVars>>, BaseTypeOK' => TypeOK',
           round' \in {"begin", "done"}
    PROVE  IInv'
  <1> USE DEF IInv
  <1>1. UNCHANGED <<smaller_cut_sizes, valid_region_sizes_to_split, valid_merge_pair_sizes,
                    smc_rounds, ms_rounds>>
    BY DEF tableVars
  <1>2. /\ region_sizes' \in [Ids -> 0 .. total_seats]
        /\ region_added_order' \in [Ids -> Int]
        /\ region_order_max' \in Nat
        /\ num_regions' = num_regions
        /\ SeatsInv' /\ StampsTellAge'
        /\ (\E r \in Regions : IsRemainder(r)) => \E r \in Regions : IsRemainder(r)'
    <2>1. CASE reorder_plan_by_oldest_split
      BY <2>1, ReorderKeepsPlan
    <2>2. CASE UNCHANGED planVars
      <3>1. UNCHANGED <<num_regions, region_sizes, region_added_order, region_order_max>>
        BY <2>2 DEF planVars
      <3>2. SeatsInv' /\ StampsTellAge'
        BY <3>1 DEF SeatsInv, StampsTellAge, Regions
      <3>3. (\E r \in Regions : IsRemainder(r)) => \E r \in Regions : IsRemainder(r)'
        BY <3>1 DEF IsRemainder, Regions
      <3> QED  BY <3>1, <3>2, <3>3 DEF TypeOK, BaseTypeOK
    <2> QED  BY <2>1, <2>2
  <1>3. BaseTypeOK'
    BY <1>1, <1>2 DEF TypeOK, BaseTypeOK
  <1>4. Regions' = Regions
    BY <1>2 DEF Regions
  <1>5. RemainderInv'
    BY <1>2, <1>4 DEF RemainderInv
  <1>6. CheckInv' /\ TablesInv' /\ RoundInv'
    BY <1>1, <1>2 DEF CheckInv, TablesInv, TablesAreFor, RoundInv, Started
  <1> QED  BY <1>2, <1>3, <1>5, <1>6

\* A step that ends leaves sizes and tables alone.
LEMMA EndOfStepPreserves ==
    ASSUME IInv, EndOfStep
    PROVE  IInv'
  <1>1. /\ round = "end" /\ round' = "begin"
        /\ reorder_plan_by_oldest_split \/ UNCHANGED planVars
        /\ UNCHANGED <<tableVars, smc_rounds, ms_rounds, mmdVars, checkVars>>
    BY DEF EndOfStep, EndStep
  <1>2. BaseTypeOK' => TypeOK'
    BY <1>1, Zenon DEF IInv, TypeOK, mmdVars, checkVars
  <1> QED  BY <1>1, <1>2, ReorderingStepPreserves DEF Started

\* So does the end of the run.
LEMMA EndOfRunPreserves ==
    ASSUME IInv, EndOfRun
    PROVE  IInv'
  <1>1. /\ round = "begin" /\ round' = "done"
        /\ reorder_plan_by_oldest_split \/ UNCHANGED planVars
        /\ UNCHANGED <<tableVars, smc_rounds, ms_rounds, mmdVars, checkVars>>
    BY DEF EndOfRun, Finish
  <1>2. BaseTypeOK' => TypeOK'
    BY <1>1, Zenon DEF IInv, TypeOK, mmdVars, checkVars
  <1> QED  BY <1>1, <1>2, ReorderingStepPreserves DEF Started

\* A run that continues from a saved plan starts with the tables of the plan's
\* last split, and with nothing checked yet.
LEMMA ContinuePreserves ==
    ASSUME IInv, ContinueWithPlan
    PROVE  IInv'
  <1> USE DEF IInv
  <1> DEFINE k == num_regions
  <1>1. /\ round = "done" /\ k < ndists
        /\ region_added_order' = [r \in Ids |-> IF r < k THEN r + 1 ELSE -1]
        /\ region_order_max' = k + 2
        /\ smc_rounds' = 0 /\ ms_rounds' = 0
        /\ UNCHANGED <<num_regions, region_sizes>>
    BY DEF ContinueWithPlan, ContinueRun
  <1>2. /\ smaller_cut_sizes' = BuiltCutSizes(k)
        /\ valid_region_sizes_to_split' = TableSplits(k - 1)
        /\ valid_merge_pair_sizes' = TableMerges(k - 1)
        /\ current_ctx' = -1 /\ checked' = 0 /\ seat_sum' = 0
    BY DEF ContinueWithPlan
  <1>3. mergesplit_district_pairs' \in BOOLEAN
    BY Zenon DEF ContinueWithPlan
  <1>4. round' \in {"check", "begin"}
    BY DEF ContinueWithPlan
  <1>5. k \in Nat /\ 1 <= k /\ k \in 1 .. ndists /\ Regions' = Regions
    BY <1>1, ConstantFacts DEF TypeOK, BaseTypeOK, Regions
  <1>6. TypeOK'
    <2>1. /\ smaller_cut_sizes' \in [Sizes -> SUBSET Sizes]
          /\ valid_region_sizes_to_split' \subseteq Sizes
          /\ valid_merge_pair_sizes' \subseteq Sizes \X Sizes
      BY <1>2, <1>5, TableTypes DEF BuiltCutSizes
    <2>2. region_added_order' \in [Ids -> Int] /\ region_order_max' \in Nat
      BY <1>1, <1>5 DEF Ids
    <2>3. BaseTypeOK'
      BY <1>1, <1>4, <1>5, <2>1, <2>2, ConstantFacts DEF TypeOK, BaseTypeOK
    <2>4. checked' \in 0 .. ndists /\ seat_sum' \in Nat
      BY <1>2, ConstantFacts
    <2> QED  BY <1>2, <1>3, <2>3, <2>4, Zenon DEF TypeOK
  <1>7. SeatsInv'
    BY <1>1, <1>5 DEF SeatsInv
  <1>8. StampsTellAge'
    <2>1. \A r \in Regions : region_added_order'[r] = r + 1 /\ r \in Int /\ r < k
      BY <1>1, <1>5, ConstantFacts DEF Regions, Ids
    <2>2. \A r, q \in Regions : r # q => region_added_order'[r] # region_added_order'[q]
      BY <2>1
    <2>3. \A r \in Regions : region_added_order'[r] <= region_order_max'
      BY <1>1, <1>5, <2>1
    <2> QED  BY <1>5, <2>2, <2>3 DEF StampsTellAge
  <1>9. RemainderInv'
    <2>1. PICK r \in Regions : IsRemainder(r)
      BY <1>1 DEF RemainderInv, Started
    <2>2. IsRemainder(r)'
      BY <1>1, <1>5, <2>1 DEF IsRemainder
    <2> QED  BY <1>5, <2>2 DEF RemainderInv
  <1>10. CheckInv'
    <2>1. is_sum_of(0, 0)
      BY ConstantFacts DEF is_sum_of
    <2>2. \A r \in Regions : ~(r < 0)
      BY DEF Regions
    <2> QED  BY <1>1, <1>2, <1>5, <2>1, <2>2 DEF CheckInv, SeenAddsUp
  <1>11. TablesInv'
    BY <1>1, <1>2, <1>4 DEF TablesInv, TablesAreFor, BuiltCutSizes
  <1>12. RoundInv'
    BY <1>1, <1>4, <1>5 DEF RoundInv
  <1> QED  BY <1>6, <1>7, <1>8, <1>9, <1>10, <1>11, <1>12

\* A step that changes nothing.
LEMMA StutterPreserves ==
    ASSUME IInv, UNCHANGED vars
    PROVE  IInv'
  <1> USE DEF IInv, vars, planVars, tableVars, roundVars, mmdVars, checkVars
  <1>1. TypeOK'
    <2>1. BaseTypeOK'
      BY DEF TypeOK, BaseTypeOK
    <2> QED  BY <2>1, Zenon DEF TypeOK
  <1>2. SeatsInv' /\ StampsTellAge'
    BY DEF SeatsInv, StampsTellAge, Regions
  <1>3. RemainderInv'
    BY DEF RemainderInv, Started, Regions, IsRemainder
  <1>4. CheckInv'
    BY DEF CheckInv, SeenAddsUp, Regions
  <1>5. TablesInv' /\ RoundInv'
    BY DEF TablesInv, TablesAreFor, RoundInv
  <1> QED  BY <1>1, <1>2, <1>3, <1>4, <1>5

\* Every step preserves the invariant: one case for each action.
LEMMA StepPreserves ==
    ASSUME IInv, [Next]_vars
    PROVE  IInv'
  <1>1. CASE CheckRegion
    BY <1>1, CheckRegionPreserves
  <1>2. CASE CheckVerdict
    BY <1>2, CheckVerdictPreserves
  <1>3. CASE set_potential_cut_sizes_for_each_valid_size
    BY <1>3, SetPotentialPreserves
  <1>4. CASE Split
    BY <1>4, SplitPreserves
  <1>5. CASE Weigh
    BY <1>5, WeighPreserves
  <1>6. CASE update_cut_sizes_for_mergesplit_step
    BY <1>6, UpdateForMergeSplitPreserves
  <1>7. CASE MergeSplit
    BY <1>7, MergeSplitPreserves
  <1>8. CASE EndOfMergeSplit
    BY <1>8, EndOfMergeSplitPreserves
  <1>9. CASE EndOfStep
    BY <1>9, EndOfStepPreserves
  <1>10. CASE EndOfRun
    BY <1>10, EndOfRunPreserves
  <1>11. CASE ContinueWithPlan
    BY <1>11, ContinuePreserves
  <1>12. CASE Stopped
    BY <1>12, StutterPreserves DEF Stopped
  <1>13. CASE UNCHANGED vars
    BY <1>13, StutterPreserves
  <1> QED  BY <1>1, <1>2, <1>3, <1>4, <1>5, <1>6, <1>7, <1>8, <1>9, <1>10, <1>11, <1>12, <1>13
           DEF Next

-----------------------------------------------------------------------------
(* The theorems.  *)

\* The schedule, its tables and its context always agree with the plan: while
\* a run goes on some region can be the remainder, the others are districts,
\* and the tables in use are those of the plan's number of regions.
THEOREM Invariance == Spec => []IInv
  <1>1. Init => IInv
    BY InitEstablishes
  <1>2. IInv /\ [Next]_vars => IInv'
    BY StepPreserves
  <1> QED  BY <1>1, <1>2, PTL DEF Spec

\* Every variable keeps its type.
THEOREM TypeCorrectness == Spec => []TypeOK
  <1>1. IInv => TypeOK
    BY DEF IInv
  <1> QED  BY <1>1, Invariance, PTL

\* A finished plan holds no region that is not an allowed district size,
\* whichever splits, proposals, relabellings and restarts led to it (the check
\* at the end of run_redist_smc "only catches bugs").
THEOREM FinishedPlansAreDistricts == Spec => []FinishedPlanAllDistricts
  <1>1. IInv => FinishedPlanAllDistricts
    <2> SUFFICES ASSUME IInv, Started, num_regions = ndists, NEW q \in Regions
                 PROVE  is_district(region_sizes[q])
      BY DEF FinishedPlanAllDistricts
    <2>1. PICK r \in Regions : IsRemainder(r)
      BY DEF IInv, RemainderInv
    <2>2. ndists - num_regions + 1 = 1 /\ region_sizes[r] \in Int
      BY ConstantFacts DEF IInv, SeatsInv, Sizes
    <2>3. is_district(region_sizes[r])
      BY <2>1, <2>2, SumOfOne DEF IsRemainder, PossibleRemainder
    <2> QED  BY <2>1, <2>3 DEF IsRemainder
  <1> QED  BY <1>1, Invariance, PTL

\* fill_context never finds a second region that is not a district.
THEOREM RemainderIsUnambiguous == Spec => []AtMostOneNonDistrict
  <1>1. IInv => AtMostOneNonDistrict
    <2> SUFFICES ASSUME IInv, Started
                 PROVE  Cardinality(NonDistricts(region_sizes, num_regions)) <= 1
      BY DEF AtMostOneNonDistrict
    <2>1. PICK r \in Regions : IsRemainder(r)
      BY DEF IInv, RemainderInv
    <2>2. NonDistricts(region_sizes, num_regions) \in SUBSET {r}
      BY <2>1 DEF IsRemainder, NonDistricts, Regions
    <2>3. IsFiniteSet({r}) /\ Cardinality({r}) = 1
      BY FS_Singleton
    <2>4. Cardinality(NonDistricts(region_sizes, num_regions)) <= Cardinality({r})
      BY <2>2, <2>3, FS_Subset
    <2> QED  BY <2>3, <2>4
  <1> QED  BY <1>1, Invariance, PTL

\* Neither the schedule nor choose_multidistrict_to_split ever has to give up:
\* there is a possible remainder size, a region to split, and a cut to try.
THEOREM NoDeadEnds == Spec => []AlwaysARegionToSplit
  <1>1. IInv => AlwaysARegionToSplit
    <2> SUFFICES ASSUME IInv
                 PROVE  AlwaysARegionToSplit
      OBVIOUS
    <2>1. ASSUME MayBeginSMC
          PROVE  \E s \in Sizes : PossibleRemainder(s, num_regions)
      <3>1. PICK r \in Regions : IsRemainder(r)
        BY <2>1 DEF IInv, RemainderInv, Started, MayBeginSMC
      <3> QED  BY <3>1 DEF IInv, SeatsInv, IsRemainder
    <2>2. ASSUME round = "smc"
          PROVE  /\ choose_multidistrict_to_split # {}
                 /\ \A r \in choose_multidistrict_to_split :
                        smaller_cut_sizes[region_sizes[r]] # {}
      <3> DEFINE k == num_regions
      <3>1. /\ k \in Int /\ 1 <= k /\ k < ndists /\ k \in 1 .. ndists - 1
            /\ TablesAreFor(k) /\ SeatsInv
        BY <2>2, ConstantFacts DEF IInv, TypeOK, BaseTypeOK, RoundInv, TablesInv
      <3>2. PICK r0 \in Regions : IsRemainder(r0)
        BY <2>2 DEF IInv, RemainderInv, Started
      <3>3. ASSUME NEW r \in Regions, IsRemainder(r)
            PROVE  /\ SplitOff(region_sizes[r], k) # {}
                   /\ region_sizes[r] \in valid_region_sizes_to_split
                   /\ smaller_cut_sizes[region_sizes[r]] # {}
        <4>1. region_sizes[r] \in Sizes /\ region_sizes[r] \in Int
              /\ PossibleRemainder(region_sizes[r], k)
          BY <3>1, <3>3 DEF SeatsInv, IsRemainder, Sizes
        <4>2. SplitOff(region_sizes[r], k) # {}
          BY <3>1, <4>1, RemainderHasACut
        <4>3. TableCuts(region_sizes[r], k) # {}
          BY <4>2 DEF TableCuts
        <4> QED  BY <3>1, <4>1, <4>2, <4>3 DEF TablesAreFor, TableSplits
      <3>4. r0 \in choose_multidistrict_to_split
        <4>1. ContextOf(region_sizes, k) >= 0 => r0 = ContextOf(region_sizes, k)
          BY <3>1, <3>2, ContextIsRemainder
        <4> QED  BY <3>2, <3>3, <4>1 DEF choose_multidistrict_to_split, region_is_splittable
      <3>5. \A r \in choose_multidistrict_to_split : r \in Regions /\ IsRemainder(r)
        BY <3>1, <3>2, SplittableIsRemainder
      <3> QED  BY <3>3, <3>4, <3>5
    <2> QED  BY <2>1, <2>2 DEF AlwaysARegionToSplit
  <1> QED  BY <1>1, Invariance, PTL

-----------------------------------------------------------------------------
(* The moves: what the weights of a round count, and that an accepted        *)
(* proposal can be proposed back.                                            *)

\* The smaller of two pieces is that of the same two the other way round.
LEMMA MinOfEitherWay ==
    ASSUME NEW a \in Int, NEW b \in Int
    PROVE  /\ MinOf(a, b) = MinOf(b, a) /\ MinOf(a, b) \in {a, b}
           /\ (a + b) - a = b /\ (a + b) - b = a
  BY SMT DEF MinOf

\* The tables merge what they would cut, and the pieces are a cut of the sum.
LEMMA TablePairIsACut ==
    ASSUME NEW k \in Int, 1 <= k, k < ndists, NEW s1 \in Sizes, NEW s2 \in Sizes,
           <<s1, s2>> \in TableMerges(k)
    PROVE  /\ s1 + s2 \in TableSplits(k)
           /\ MinOf(s1, s2) \in TableCuts(s1 + s2, k)
  <1>1. s1 + s2 \in Sizes /\ PossibleRemainder(s1 + s2, k)
    BY MergedSize
  <1>2. s1 \in SplitOff(s1 + s2, k) \/ s2 \in SplitOff(s1 + s2, k)
    BY DEF TableMerges
  <1>3. /\ MinOf(s1, s2) = MinOf(s2, s1)
        /\ (s1 + s2) - s1 = s2 /\ (s1 + s2) - s2 = s1
    BY MinOfEitherWay DEF Sizes
  <1>4. MinOf(s1, s2) \in TableCuts(s1 + s2, k)
    BY <1>2, <1>3 DEF TableCuts
  <1> QED  BY <1>1, <1>2, <1>4 DEF TableSplits

\* And the other way round: the pieces of a cut are a pair to merge.
LEMMA CutIsATablePair ==
    ASSUME NEW k \in Int, 1 <= k, k < ndists, NEW s \in Sizes, PossibleRemainder(s, k),
           NEW smaller \in TableCuts(s, k)
    PROVE  /\ smaller \in Sizes /\ s - smaller \in Sizes
           /\ smaller + (s - smaller) = s
           /\ <<smaller, s - smaller>> \in TableMerges(k)
  <1>1. smaller \in Sizes /\ s - smaller \in Sizes
    BY CutPieces
  <1>2. smaller + (s - smaller) = s /\ s \in Int
    BY <1>1 DEF Sizes
  <1>3. PICK d \in SplitOff(s, k) : smaller = MinOf(d, s - d)
    BY DEF TableCuts
  <1>4. d \in Int
    BY <1>2, <1>3, SplitOffLeavesRemainder
  <1>5. smaller = d \/ s - smaller = d
    BY <1>2, <1>3, <1>4, SMT DEF MinOf
  <1> QED  BY <1>1, <1>2, <1>3, <1>5 DEF TableMerges

-----------------------------------------------------------------------------
(* The weights. *)

\* Pairs of districts are only merged in merge-split rounds.
DistrictPairsOff == round \in {"smc", "weigh"} => ~mergesplit_district_pairs

\* The rule that lets pairs of districts merge is off whenever weights are computed.
THEOREM WeightsMergeNoDistrictPairs == Spec => []DistrictPairsOff
  <1>1. Init => DistrictPairsOff
    BY DEF Init, InitFromBlank, InitFromPartial, DistrictPairsOff
  <1>2. DistrictPairsOff /\ [Next]_vars => DistrictPairsOff'
    <2> SUFFICES ASSUME DistrictPairsOff, [Next]_vars
                 PROVE  DistrictPairsOff'
      OBVIOUS
    <2> USE DEF DistrictPairsOff
    <2>1. CASE CheckRegion \/ CheckVerdict
      BY <2>1 DEF CheckRegion, CheckVerdict, roundVars
    <2>2. CASE set_potential_cut_sizes_for_each_valid_size
      BY <2>2, Zenon DEF set_potential_cut_sizes_for_each_valid_size
    <2>3. CASE Split
      <3>1. round = "smc" /\ mergesplit_district_pairs' = mergesplit_district_pairs
        BY <2>3 DEF Split, SplitRegion, mmdVars
      <3> QED  BY <3>1, Zenon
    <2>4. CASE Weigh \/ update_cut_sizes_for_mergesplit_step \/ EndOfMergeSplit
      BY <2>4 DEF Weigh, ComputeWeights, update_cut_sizes_for_mergesplit_step,
                  EndOfMergeSplit, EndMergeSplit
    <2>5. CASE MergeSplit
      BY <2>5 DEF MergeSplit, ResplitPair
    <2>6. CASE EndOfStep \/ EndOfRun \/ ContinueWithPlan
      BY <2>6 DEF EndOfStep, EndStep, EndOfRun, Finish, ContinueWithPlan
    <2>7. CASE Stopped \/ UNCHANGED vars
      BY <2>7 DEF Stopped, vars, roundVars, mmdVars
    <2> QED  BY <2>1, <2>2, <2>3, <2>4, <2>5, <2>6, <2>7 DEF Next
  <1> QED  BY <1>1, <1>2, PTL DEF Spec

\* Outside a pair that the weights may merge all regions are districts, if a
\* context is needed to tell.
LEMMA RestAreDistricts ==
    ASSUME IInv, Started, NEW r1 \in Regions, NEW r2 \in Regions, plan_context_needed,
           LET ctx == ContextOf(region_sizes, num_regions)
           IN  ctx < 0 \/ r1 = ctx \/ r2 = ctx
    PROVE  \A q \in Regions \ {r1, r2} : is_district(region_sizes[q])
  <1> DEFINE ctx == ContextOf(region_sizes, num_regions)
  <1>1. PICK r \in Regions : IsRemainder(r)
    BY DEF IInv, RemainderInv
  <1>2. num_regions \in Nat /\ r \in Int /\ r >= 0
    BY ConstantFacts DEF IInv, TypeOK, BaseTypeOK, Regions
  <1>3. ctx \in Int /\ (~is_district(region_sizes[r]) => ctx = r)
    BY <1>1, <1>2, ContextIsRemainder
  <1>4. ctx < 0 \/ r1 = ctx \/ r2 = ctx
    OBVIOUS
  <1> HIDE DEF ctx
  <1>5. r \in {r1, r2} \/ is_district(region_sizes[r])
    BY <1>2, <1>3, <1>4
  <1> QED  BY <1>1, <1>5 DEF IsRemainder

\* The merged plan: ids as they were, but for the merged region under r1 and
\* the last region under r2.
LEMMA MergedPlanSizes ==
    ASSUME BaseTypeOK, NEW r1 \in Regions, NEW r2 \in Regions, r1 < r2
    PROVE  LET last   == num_regions - 1
               merged == MergedSizes(r1, r2)
           IN  /\ last \in Regions /\ r1 \in 0 .. last - 1
               /\ merged[r1] = region_sizes[r1] + region_sizes[r2]
               /\ r2 # last => r2 \in 0 .. last - 1 /\ merged[r2] = region_sizes[last]
               /\ \A r \in (0 .. last - 1) \ {r1, r2} :
                     r \in Regions /\ r # last /\ merged[r] = region_sizes[r]
               /\ \A q \in Regions \ {r1, r2, last} : q \in 0 .. last - 1
  <1>1. /\ num_regions \in Nat /\ 1 <= num_regions /\ num_regions <= ndists
        /\ r1 \in Ids /\ r2 \in Ids /\ r1 # r2 /\ Regions \subseteq Ids
        /\ region_sizes \in [Ids -> 0 .. total_seats]
    BY ConstantFacts DEF BaseTypeOK, Regions, Ids
  <1>2. \A q \in 0 .. (num_regions - 1) - 1 : q \in Regions /\ q # num_regions - 1
    BY <1>1 DEF Regions
  <1>3. \A q \in Regions \ {num_regions - 1} : q \in 0 .. (num_regions - 1) - 1
    BY <1>1 DEF Regions
  <1>4. num_regions - 1 \in Regions /\ r1 # num_regions - 1
    BY <1>1 DEF Regions
  <1> QED  BY <1>1, <1>2, <1>3, <1>4 DEF MergedSizes

\* What the plan and the tables are while weights are computed.
LEMMA WeighingFacts ==
    ASSUME IInv, round = "weigh"
    PROVE  /\ num_regions \in Nat /\ 2 <= num_regions /\ num_regions <= ndists
           /\ TablesAreFor(num_regions - 1) /\ BaseTypeOK /\ Started
           /\ \A r \in Regions : region_sizes[r] \in Sizes /\ region_sizes[r] \in Int
  BY ConstantFacts DEF IInv, TypeOK, BaseTypeOK, RoundInv, TablesInv, Started, SeatsInv, Sizes

\* The weights only merge pairs that the tables list, and that the context allows.
LEMMA MergedAsTabled ==
    ASSUME IInv, DistrictPairsOff, round = "weigh", NEW r1 \in Regions, NEW r2 \in Regions
    PROVE  LET ctx == ContextOf(region_sizes, num_regions)
           IN  is_valid_merge_pair(ctx, r1, r2) <=>
                  /\ <<region_sizes[r1], region_sizes[r2]>> \in TableMerges(num_regions - 1)
                  /\ ctx < 0 \/ r1 = ctx \/ r2 = ctx
  <1>1. ~is_district_pair_merge(ContextOf(region_sizes, num_regions), r1, r2)
    BY Zenon DEF DistrictPairsOff, is_district_pair_merge
  <1> QED  BY <1>1, WeighingFacts DEF is_valid_merge_pair, TablesAreFor

\* Outside a pair that the weights merge all regions are districts, so that in
\* the merged plan only the merged region may be none.
LEMMA MergedPairIsTheRest ==
    ASSUME IInv, DistrictPairsOff, round = "weigh", NEW r1 \in Regions, NEW r2 \in Regions, r1 < r2,
           is_valid_merge_pair(ContextOf(region_sizes, num_regions), r1, r2)
    PROVE  NonDistricts(MergedSizes(r1, r2), num_regions - 1) \subseteq {r1}
  <1> DEFINE last == num_regions - 1
             merged == MergedSizes(r1, r2)
             s1 == region_sizes[r1]
             s2 == region_sizes[r2]
  <1>1. /\ num_regions \in Nat /\ 2 <= num_regions /\ num_regions <= ndists
        /\ Started /\ BaseTypeOK
        /\ \A r \in Regions : region_sizes[r] \in Sizes /\ region_sizes[r] \in Int
    BY WeighingFacts
  <1>2. /\ <<s1, s2>> \in TableMerges(last)
        /\ LET ctx == ContextOf(region_sizes, num_regions)
           IN  ctx < 0 \/ r1 = ctx \/ r2 = ctx
    BY MergedAsTabled
  <1>3. \A q \in Regions \ {r1, r2} : is_district(region_sizes[q])
    <2>1. CASE plan_context_needed
      BY <1>1, <1>2, <2>1, RestAreDistricts
    <2>2. CASE ~plan_context_needed
      <3>1. PICK r \in Regions : IsRemainder(r)
        BY <1>1 DEF IInv, RemainderInv
      <3>2. CASE r = r1 \/ r = r2
        BY <3>1, <3>2 DEF IsRemainder
      <3>3. CASE r # r1 /\ r # r2
        <4>1. is_district(s1) /\ is_district(s2) /\ PossibleRemainder(region_sizes[r], num_regions)
          BY <3>1, <3>3 DEF IsRemainder
        <4>2. is_sum_of(s1, ndists - last) \/ is_sum_of(s2, ndists - last)
          <5>1. s1 \in Int /\ s2 \in Int
            BY <1>1
          <5>2. (s1 + s2) - s1 = s2 /\ (s1 + s2) - s2 = s1
            BY <5>1
          <5>3. s1 \in SplitOff(s1 + s2, last) \/ s2 \in SplitOff(s1 + s2, last)
            BY <1>2 DEF TableMerges
          <5> HIDE DEF s1, s2, last
          <5> QED  BY <5>2, <5>3 DEF SplitOff
        <4>3. ndists - last \in Int /\ ~(ndists - last >= 2)
          <5>1. ndists - last \in Int /\ s1 \in Int /\ s2 \in Int
            BY <1>1, ConstantFacts
          <5> HIDE DEF s1, s2, last
          <5> QED  BY <2>2, <4>1, <4>2, <5>1, SumIsNoDistrict
        <4>4. ndists - num_regions + 1 = 1
          BY <1>1, <4>3, ConstantFacts
        <4>5. is_district(region_sizes[r])
          BY <1>1, <4>1, <4>4, SumOfOne DEF PossibleRemainder
        <4> QED  BY <3>1, <4>5 DEF IsRemainder
      <3> QED  BY <3>2, <3>3
    <2> QED  BY <2>1, <2>2
  <1>4. /\ last \in Regions /\ r1 # r2
        /\ r2 # last => merged[r2] = region_sizes[last]
        /\ \A r \in (0 .. last - 1) \ {r1, r2} : r \in Regions /\ merged[r] = region_sizes[r]
        /\ \A r \in 0 .. last - 1 : r # last
        /\ r1 # last
    BY <1>1, MergedPlanSizes DEF Regions
  <1> HIDE DEF last, merged
  <1> SUFFICES ASSUME NEW r \in 0 .. last - 1, r # r1
               PROVE  is_district(merged[r])
    BY DEF NonDistricts, last, merged
  <1>5. CASE r = r2
    BY <1>3, <1>4, <1>5
  <1>6. CASE r # r2
    BY <1>3, <1>4, <1>6
  <1> QED  BY <1>5, <1>6

\* A pair that the weights merge could have been split from the region it merges to.
LEMMA MergedPairsAreAncestors ==
    ASSUME IInv, DistrictPairsOff, round = "weigh", NEW r1 \in Regions, NEW r2 \in Regions, r1 < r2,
           is_valid_merge_pair(ContextOf(region_sizes, num_regions), r1, r2)
    PROVE  SplitCouldMake(r1, r2)
  <1> DEFINE last == num_regions - 1
             merged == MergedSizes(r1, r2)
             s1 == region_sizes[r1]
             s2 == region_sizes[r2]
             ctx == ContextOf(merged, last)
  <1>1. /\ num_regions \in Nat /\ last \in Int /\ last \in Nat /\ 1 <= last /\ last < ndists
        /\ TablesAreFor(last) /\ BaseTypeOK
        /\ s1 \in Sizes /\ s2 \in Sizes
    BY WeighingFacts, ConstantFacts
  <1>2. <<s1, s2>> \in TableMerges(last)
    BY MergedAsTabled
  <1>3. /\ s1 + s2 \in TableSplits(last)
        /\ MinOf(s1, s2) \in TableCuts(s1 + s2, last)
    <2> HIDE DEF s1, s2, last
    <2> QED  BY <1>1, <1>2, TablePairIsACut
  <1>4. merged[r1] = s1 + s2 /\ r1 \in 0 .. num_regions - 2
    <2>1. last - 1 = num_regions - 2
      BY <1>1
    <2> QED  BY <1>1, <2>1, MergedPlanSizes
  <1>5. NonDistricts(merged, last) \subseteq {r1}
    BY MergedPairIsTheRest
  <1>6. merged[r1] \in valid_region_sizes_to_split /\ MinOf(s1, s2) \in smaller_cut_sizes[merged[r1]]
    <2>1. s1 + s2 \in Sizes /\ PossibleRemainder(s1 + s2, last)
      BY <1>3 DEF TableSplits
    <2> QED  BY <1>1, <1>3, <1>4, <2>1 DEF TablesAreFor
  <1>7. Cardinality(NonDistricts(merged, last)) <= 1
    <2>1. NonDistricts(merged, last) \in SUBSET {r1} /\ IsFiniteSet({r1}) /\ Cardinality({r1}) = 1
      BY <1>5, FS_Singleton
    <2>2. Cardinality(NonDistricts(merged, last)) <= Cardinality({r1})
      BY <2>1, FS_Subset
    <2> QED  BY <2>1, <2>2
  <1>8. ctx >= 0 => r1 = ctx
    <2>1. ctx \in NonDistricts(merged, last) \cup {-1}
      <3> HIDE DEF merged, last
      <3> QED  BY <1>1, ContextFacts
    <2> HIDE DEF ctx
    <2> QED  BY <1>5, <2>1
  <1> HIDE DEF ctx, merged
  <1>9. r1 \in PickableIfMerged(r1, r2)
    BY <1>4, <1>6, <1>8 DEF PickableIfMerged, ctx, merged
  <1> QED  BY <1>6, <1>7, <1>9 DEF SplitCouldMake, merged

\* And a pair that could have been split from the region it merges to is one that
\* the weights merge.
LEMMA AncestorsAreMergedPairs ==
    ASSUME IInv, DistrictPairsOff, round = "weigh", NEW r1 \in Regions, NEW r2 \in Regions, r1 < r2,
           SplitCouldMake(r1, r2)
    PROVE  is_valid_merge_pair(ContextOf(region_sizes, num_regions), r1, r2)
  <1> DEFINE last == num_regions - 1
             merged == MergedSizes(r1, r2)
             s1 == region_sizes[r1]
             s2 == region_sizes[r2]
             now == ContextOf(region_sizes, num_regions)
             ctx == ContextOf(merged, last)
             others == NonDistricts(merged, last)
  <1>1. /\ num_regions \in Nat /\ last \in Int /\ last \in Nat /\ 1 <= last /\ last < ndists
        /\ TablesAreFor(last) /\ BaseTypeOK
        /\ s1 \in Sizes /\ s2 \in Sizes /\ s1 \in Int /\ s2 \in Int
    BY WeighingFacts, ConstantFacts
  <1>2. /\ last \in Regions /\ r1 \in 0 .. last - 1
        /\ merged[r1] = s1 + s2
        /\ r2 # last => r2 \in 0 .. last - 1 /\ merged[r2] = region_sizes[last]
        /\ \A r \in (0 .. last - 1) \ {r1, r2} : merged[r] = region_sizes[r]
        /\ \A q \in Regions \ {r1, r2, last} : q \in 0 .. last - 1
    BY <1>1, MergedPlanSizes
  <1>3. /\ Cardinality(others) <= 1
        /\ merged[r1] \in valid_region_sizes_to_split
        /\ ctx >= 0 => r1 = ctx
        /\ MinOf(s1, s2) \in smaller_cut_sizes[merged[r1]]
    BY DEF SplitCouldMake, PickableIfMerged
  <1>4. <<s1, s2>> \in TableMerges(last)
    <2> HIDE DEF s1, s2, last, merged
    <2>1. /\ s1 + s2 \in Sizes /\ PossibleRemainder(s1 + s2, last)
          /\ MinOf(s1, s2) \in TableCuts(s1 + s2, last)
      BY <1>1, <1>2, <1>3 DEF TablesAreFor, TableSplits
    <2>2. PICK d \in SplitOff(s1 + s2, last) : MinOf(s1, s2) = MinOf(d, (s1 + s2) - d)
      BY <2>1 DEF TableCuts
    <2>3. d \in Int
      BY <1>1, <2>1, SplitOffLeavesRemainder
    <2>4. d = s1 \/ d = s2
      BY <1>1, <2>2, <2>3, SMT DEF MinOf
    <2> QED  BY <1>1, <2>1, <2>2, <2>4 DEF TableMerges
  <1>5. now < 0 \/ r1 = now \/ r2 = now
    <2>1. now \in NonDistricts(region_sizes, num_regions) \cup {-1} /\ (~plan_context_needed => now = -1)
      BY <1>1, ContextFacts
    <2>2. ctx \in others \cup {-1} /\ (ctx = -1 => ~plan_context_needed \/ others = {})
      <3> HIDE DEF merged, last
      <3> QED  BY <1>1, ContextFacts
    <2>3. r1 # last /\ r1 # r2 /\ \A r \in 0 .. last - 1 : r >= 0
      BY <1>1, <1>2 DEF Regions
    <2>4. now = -1 \/ (now \in Regions /\ ~is_district(region_sizes[now]) /\ plan_context_needed)
      BY <2>1 DEF NonDistricts, Regions
    <2> HIDE DEF now, ctx, merged, last
    <2>5. ASSUME now # -1, now # r1, now # r2
          PROVE  FALSE
      <3> DEFINE y == IF now = last THEN r2 ELSE now
      <3>1. now \in Regions /\ ~is_district(region_sizes[now]) /\ plan_context_needed
        BY <2>4, <2>5
      <3>2. y \in 0 .. last - 1 /\ merged[y] = region_sizes[now] /\ y # r1
        <4>1. CASE now = last
          BY <1>2, <2>3, <2>5, <4>1
        <4>2. CASE now # last
          BY <1>2, <2>5, <3>1, <4>2
        <4> QED  BY <4>1, <4>2
      <3> HIDE DEF y
      <3>3. y \in others
        BY <3>1, <3>2 DEF NonDistricts
      <3>4. ctx \in others
        BY <2>2, <3>1, <3>3
      <3>5. ctx = r1
        BY <1>3, <2>3, <3>4 DEF NonDistricts
      <3>6. IsFiniteSet(others) /\ {y, r1} \in SUBSET others /\ IsFiniteSet({y, r1})
        <4>1. IsFiniteSet(0 .. last - 1)
          <5>1. 0 \in Int /\ last - 1 \in Int
            BY <1>1
          <5> QED  BY <5>1, FS_Interval
        <4>2. others \subseteq 0 .. last - 1
          BY DEF NonDistricts
        <4> HIDE DEF others
        <4>3. IsFiniteSet(others)
          BY <4>1, <4>2, FS_Subset
        <4>4. {y, r1} \subseteq others
          BY <3>3, <3>4, <3>5
        <4> QED  BY <4>3, <4>4, FS_Subset
      <3> HIDE DEF others
      <3>7. Cardinality({y, r1}) = 2
        <4>1. IsFiniteSet({y}) /\ Cardinality({y}) = 1
          BY FS_Singleton
        <4>2. Cardinality({y} \cup {r1}) = Cardinality({y}) + 1
          BY <3>2, <4>1, FS_AddElement
        <4>3. {y} \cup {r1} = {y, r1}
          OBVIOUS
        <4> QED  BY <4>1, <4>2, <4>3
      <3>8. Cardinality({y, r1}) <= Cardinality(others) /\ Cardinality(others) \in Nat
        BY <3>6, FS_Subset, FS_CardinalityType
      <3> QED  BY <1>3, <3>7, <3>8
    <2> QED  BY <2>5
  <1> QED  BY <1>4, <1>5, MergedAsTabled

\* A pair of regions that the weights count as a rival could have been picked: the
\* plan without it, as the code merges it, has sizes that the schedule allows.
LEMMA RivalsArePickable ==
    ASSUME IInv, DistrictPairsOff, round = "weigh", NEW r1 \in Regions, NEW r2 \in Regions, r1 < r2,
           is_valid_merge_pair(ContextOf(region_sizes, num_regions), r1, r2)
    PROVE  PickableIfMerged(r1, r2) = {r1} \cup {MergedId(r2, q) : q \in merged_region_rivals(r1, r2)}
  <1> DEFINE last     == num_regions - 1
             m        == region_sizes[r1] + region_sizes[r2]
             moved(q) == IF q = last THEN r2 ELSE q
             merged   == MergedSizes(r1, r2)
             ctx      == ContextOf(merged, last)
             pickable == {r \in 0 .. last - 1 :
                             /\ merged[r] \in valid_region_sizes_to_split
                             /\ ctx >= 0 => r = ctx}
             rivals   == {q \in Regions \ {r1, r2} : region_sizes[q] \in valid_region_sizes_to_split}
  <1>1. num_regions \in Nat /\ last - 1 = num_regions - 2 /\ last \in Nat /\ BaseTypeOK
    BY WeighingFacts
  <1>2. PickableIfMerged(r1, r2) = pickable /\ \A q : MergedId(r2, q) = moved(q)
    BY <1>1 DEF PickableIfMerged, MergedId
  <1>3. m \in valid_region_sizes_to_split
    <2>1. MergedSizes(r1, r2)[r1] \in valid_region_sizes_to_split
      BY MergedPairsAreAncestors DEF SplitCouldMake, PickableIfMerged
    <2> QED  BY <1>1, <2>1, MergedPlanSizes
  <1>5. /\ last \in Regions /\ r1 \in 0 .. last - 1
        /\ merged[r1] = m
        /\ r2 # last => r2 \in 0 .. last - 1 /\ merged[r2] = region_sizes[last]
        /\ \A r \in (0 .. last - 1) \ {r1, r2} : r \in Regions /\ r # last /\ merged[r] = region_sizes[r]
        /\ \A q \in Regions \ {r1, r2, last} : q \in 0 .. last - 1
    BY <1>1, MergedPlanSizes
  <1>6. /\ ctx \in NonDistricts(merged, last) \cup {-1}
        /\ ctx = -1 => ~plan_context_needed \/ NonDistricts(merged, last) = {}
        /\ ~plan_context_needed => ctx = -1
    <2> HIDE DEF last, merged
    <2> QED  BY <1>1, ContextFacts
  <1>7. NonDistricts(merged, last) \subseteq {r1}
    BY MergedPairIsTheRest
  <1> HIDE DEF ctx, merged, m
  <1>8. CASE plan_context_needed /\ ~is_district(m)
    <2>1. r1 \in NonDistricts(merged, last)
      BY <1>5, <1>8 DEF NonDistricts
    <2>2. ctx = r1
      BY <1>6, <1>7, <1>8, <2>1
    <2>3. pickable = {r1}
      BY <1>3, <1>5, <2>2
    <2>4. merged_region_rivals(r1, r2) = {}
      BY <1>8 DEF merged_region_rivals, m
    <2> QED  BY <1>2, <2>3, <2>4
  <1>9. CASE ~plan_context_needed \/ is_district(m)
    <2>1. ctx = -1
      BY <1>5, <1>6, <1>7, <1>9 DEF NonDistricts
    <2>2. merged_region_rivals(r1, r2) = rivals
      BY <1>9 DEF merged_region_rivals, m
    <2>3. pickable = {r \in 0 .. last - 1 : merged[r] \in valid_region_sizes_to_split}
      BY <2>1
    <2>4. ASSUME NEW r \in pickable
          PROVE  r \in {r1} \cup {moved(q) : q \in rivals}
      <3>1. CASE r = r2
        <4>1. r2 # last /\ last # r1 /\ last \in rivals
          BY <1>1, <1>5, <2>3, <3>1
        <4> QED  BY <3>1, <4>1
      <3>2. CASE r # r1 /\ r # r2
        <4>1. r \in rivals /\ r # last
          BY <1>5, <2>3, <3>2
        <4> QED  BY <4>1
      <3> QED  BY <3>1, <3>2
    <2>5. r1 \in pickable
      BY <1>3, <1>5, <2>3
    <2>6. ASSUME NEW q \in rivals
          PROVE  moved(q) \in pickable
      <3>1. CASE q = last
        <4>1. r2 # last
          BY <3>1
        <4> QED  BY <1>5, <2>3, <3>1, <4>1
      <3>2. CASE q # last
        <4>1. q \in 0 .. last - 1 /\ merged[q] = region_sizes[q]
          BY <1>5, <3>2
        <4> QED  BY <2>3, <3>2, <4>1
      <3> QED  BY <3>1, <3>2
    <2>7. pickable = {r1} \cup {moved(q) : q \in rivals}
      BY <2>4, <2>5, <2>6
    <2> HIDE DEF pickable, moved, rivals
    <2> QED  BY <1>2, <2>2, <2>7
  <1> QED  BY <1>8, <1>9

\* Two regions that are newer than any other.
AreNewest(r1, r2) ==
    /\ r1 < r2
    /\ \A r \in Regions \ {r1, r2} : /\ region_added_order[r] < region_added_order[r1]
                                    /\ region_added_order[r] < region_added_order[r2]

\* There is only one such pair.
LEMMA NewestAreThePair ==
    ASSUME BaseTypeOK, NEW r1 \in Regions, NEW r2 \in Regions, AreNewest(r1, r2)
    PROVE  get_most_recently_split_regions = <<r1, r2>>
  <1> DEFINE IsThePair(pair) ==
                 /\ pair[1] < pair[2]
                 /\ \A r \in Regions \ {pair[1], pair[2]} :
                       /\ region_added_order[r] < region_added_order[pair[1]]
                       /\ region_added_order[r] < region_added_order[pair[2]]
             made == CHOOSE pair \in Regions \X Regions : IsThePair(pair)
  <1>1. \A r \in Regions : r \in Int /\ region_added_order[r] \in Int
    BY ConstantFacts DEF BaseTypeOK, Regions, Ids
  <1>2. <<r1, r2>> \in Regions \X Regions /\ IsThePair(<<r1, r2>>)
    BY DEF AreNewest
  <1>3. made \in Regions \X Regions /\ IsThePair(made)
    BY <1>2
  <1>4. get_most_recently_split_regions = made
    BY DEF get_most_recently_split_regions
  <1> HIDE DEF made
  <1>5. PICK a \in Regions, b \in Regions : made = <<a, b>>
    BY <1>3
  <1>6. a < b /\ \A r \in Regions \ {a, b} : /\ region_added_order[r] < region_added_order[a]
                                             /\ region_added_order[r] < region_added_order[b]
    BY <1>3, <1>5
  <1> HIDE DEF IsThePair
  <1>7. a \in {r1, r2} /\ b \in {r1, r2}
    BY <1>1, <1>6 DEF AreNewest
  <1>8. a = r1 /\ b = r2
    BY <1>1, <1>6, <1>7 DEF AreNewest
  <1> QED  BY <1>4, <1>5, <1>8

\* The two are what the tables list as a pair, and what the context tells apart
\* from the rest.
MakesAPair(r1, r2) ==
    /\ AreNewest(r1, r2)
    /\ <<region_sizes[r1], region_sizes[r2]>> \in TableMerges(num_regions - 1)
    /\ NonDistricts(region_sizes, num_regions) \subseteq {r1, r2}

\* While weights are computed, the two newest regions are those of the split.
JustSplit == round = "weigh" => \E r1, r2 \in Regions : MakesAPair(r1, r2)

\* A split leaves a pair that the tables would merge back.
LEMMA SplitLeavesAPair ==
    ASSUME IInv, Split
    PROVE  \E r1, r2 \in Regions' : MakesAPair(r1, r2)'
  <1>0. PICK k : k = num_regions
    OBVIOUS
  <1>1. PICK r \in choose_multidistrict_to_split :
          \E smaller \in smaller_cut_sizes[region_sizes[r]] : SplitRegion(r, smaller)
    BY DEF Split
  <1>2. PICK smaller \in smaller_cut_sizes[region_sizes[r]] : SplitRegion(r, smaller)
    BY <1>1
  <1> DEFINE larger == region_sizes[r] - smaller
  <1>3. /\ round = "smc" /\ num_regions' = k + 1
        /\ region_sizes' = [region_sizes EXCEPT ![r] = smaller, ![k] = larger]
        /\ region_added_order' = [region_added_order EXCEPT ![r] = region_order_max + 1,
                                                            ![k] = region_order_max + 2]
    BY <1>0, <1>2 DEF SplitRegion, update_region_info_from_cut
  <1>4. /\ k \in Int /\ 1 <= k /\ k < ndists /\ TablesAreFor(k) /\ BaseTypeOK /\ Started
        /\ SeatsInv /\ StampsTellAge /\ k \in 1 .. ndists - 1
    BY <1>0, <1>3, ConstantFacts DEF IInv, TypeOK, BaseTypeOK, RoundInv, TablesInv, Started
  <1>5. PICK r0 \in Regions : IsRemainder(r0)
    BY <1>4 DEF IInv, RemainderInv
  <1>6. r \in Regions /\ IsRemainder(r)
    BY <1>0, <1>1, <1>4, <1>5, SplittableIsRemainder
  <1>7. PossibleRemainder(region_sizes[r], k) /\ region_sizes[r] \in Sizes
    BY <1>0, <1>4, <1>6 DEF IsRemainder, SeatsInv
  <1>8. <<smaller, larger>> \in TableMerges(k)
    <2>1. smaller \in TableCuts(region_sizes[r], k)
      BY <1>2, <1>4, <1>7 DEF TablesAreFor
    <2> QED  BY <1>4, <1>7, <2>1, CutIsATablePair
  <1>9. /\ r \in Ids /\ k \in Ids /\ r # k /\ r < k /\ r \in Int
        /\ Regions' = Regions \cup {k} /\ Regions' \subseteq Ids
    BY <1>0, <1>3, <1>4, <1>6, ConstantFacts DEF Regions, Ids
  <1> HIDE DEF larger
  <1>10. /\ region_sizes'[r] = smaller /\ region_sizes'[k] = larger
         /\ \A q \in Regions' \ {r, k} : region_sizes'[q] = region_sizes[q]
    BY <1>3, <1>4, <1>9 DEF BaseTypeOK
  <1>11. /\ region_order_max \in Int
         /\ region_added_order'[r] = region_order_max + 1
         /\ region_added_order'[k] = region_order_max + 2
         /\ \A q \in Regions' \ {r, k} : /\ region_added_order'[q] = region_added_order[q]
                                         /\ region_added_order[q] \in Int
                                         /\ region_added_order[q] <= region_order_max
    BY <1>3, <1>4, <1>9 DEF BaseTypeOK, StampsTellAge
  <1>12. AreNewest(r, k)'
    <2>1. \A q \in Regions' \ {r, k} : /\ region_added_order'[q] < region_added_order'[r]
                                       /\ region_added_order'[q] < region_added_order'[k]
      BY <1>11
    <2> QED  BY <1>9, <2>1 DEF AreNewest
  <1>13. (<<region_sizes[r], region_sizes[k]>> \in TableMerges(num_regions - 1))'
    <2>1. num_regions' - 1 = k
      BY <1>3, <1>4
    <2> QED  BY <1>8, <1>10, <2>1 DEF TableMerges, SplitOff, PossibleRemainder, is_sum_of, Sizes
  <1>14. (NonDistricts(region_sizes, num_regions) \subseteq {r, k})'
    <2>1. \A q \in Regions' \ {r, k} : is_district(region_sizes'[q])
      BY <1>6, <1>9, <1>10 DEF IsRemainder
    <2> QED  BY <2>1 DEF NonDistricts, Regions, is_district
  <1>15. MakesAPair(r, k)'
    BY <1>12, <1>13, <1>14, Zenon DEF MakesAPair
  <1>16. r \in Regions' /\ k \in Regions'
    BY <1>6, <1>9
  <1> QED  BY <1>15, <1>16, Zenon

\* Nothing is moved between the split and the weights.
LEMMA NextKeepsThePair ==
    ASSUME IInv, JustSplit, [Next]_vars
    PROVE  JustSplit'
  <1> SUFFICES ASSUME round' = "weigh"
               PROVE  \E r1, r2 \in Regions' : MakesAPair(r1, r2)'
    BY DEF JustSplit
  <1>1. CASE Split
    BY <1>1, SplitLeavesAPair
  <1>2. CASE UNCHANGED vars
    BY <1>2 DEF JustSplit, MakesAPair, AreNewest, Regions, NonDistricts, is_district, TableMerges,
                SplitOff, PossibleRemainder, is_sum_of, Sizes, vars, planVars, roundVars
  <1>3. ASSUME Next, ~Split
        PROVE  UNCHANGED vars
    BY <1>3 DEF Next, Stopped, CheckRegion, CheckVerdict, set_potential_cut_sizes_for_each_valid_size,
       Weigh, ComputeWeights, update_cut_sizes_for_mergesplit_step, MergeSplit, ResplitPair,
       EndOfMergeSplit, EndMergeSplit, EndOfStep, EndStep, EndOfRun, Finish, ContinueWithPlan, roundVars
  <1> QED
    BY <1>1, <1>2, <1>3

\* The weights sum over exactly the plans that this one may have been split from,
\* the one it was split from among them, and weigh the merged region against
\* exactly those that could have been picked instead, with a remainder that is told by its
\* size or by its context.
THEOREM AncestorsAreSummed == Spec => []WeightsSumOverAncestors
  <1>1. Init => JustSplit
    BY DEF Init, InitFromBlank, InitFromPartial, JustSplit
  <1>2. IInv /\ JustSplit /\ [Next]_vars => JustSplit'
    BY NextKeepsThePair
  <1>3. IInv /\ DistrictPairsOff /\ JustSplit => WeightsSumOverAncestors
    <2> SUFFICES ASSUME IInv, DistrictPairsOff, JustSplit, round = "weigh"
                 PROVE  WeightsSumOverAncestors
      BY DEF WeightsSumOverAncestors
    <2> DEFINE now == ContextOf(region_sizes, num_regions)
    <2>1. PICK r1 \in Regions, r2 \in Regions : MakesAPair(r1, r2)
      BY DEF JustSplit
    <2>2. get_most_recently_split_regions = <<r1, r2>>
      BY <2>1, WeighingFacts, NewestAreThePair DEF MakesAPair
    <2>3. now < 0 \/ r1 = now \/ r2 = now
      <3>1. now \in NonDistricts(region_sizes, num_regions) \cup {-1}
        BY WeighingFacts, ContextFacts
      <3> HIDE DEF now
      <3> QED  BY <2>1, <3>1 DEF MakesAPair
    <2>4. is_valid_merge_pair(now, r1, r2)
      BY <2>1, <2>3, MergedAsTabled DEF MakesAPair
    <2> HIDE DEF now
    <2>5. \A a, b \in Regions : a < b =>
             /\ is_valid_merge_pair(now, a, b) <=> SplitCouldMake(a, b)
             /\ is_valid_merge_pair(now, a, b) =>
                   PickableIfMerged(a, b) = {a} \cup {MergedId(b, q) : q \in merged_region_rivals(a, b)}
      <3> TAKE a, b \in Regions
      <3> HAVE a < b
      <3>1. is_valid_merge_pair(now, a, b) => SplitCouldMake(a, b)
        BY MergedPairsAreAncestors DEF now
      <3>2. SplitCouldMake(a, b) => is_valid_merge_pair(now, a, b)
        BY AncestorsAreMergedPairs DEF now
      <3>3. is_valid_merge_pair(now, a, b) =>
               PickableIfMerged(a, b) = {a} \cup {MergedId(b, q) : q \in merged_region_rivals(a, b)}
        BY RivalsArePickable DEF now
      <3> QED  BY <3>1, <3>2, <3>3
    <2> QED  BY <2>2, <2>4, <2>5 DEF WeightsSumOverAncestors, now
  <1> QED  BY <1>1, <1>2, <1>3, Invariance, WeightsMergeNoDistrictPairs, PTL DEF Spec

-----------------------------------------------------------------------------
(* The way back. *)

\* What an accepted proposal changes of the plan, and what it does not.
LEMMA ProposalKeepsTheRest ==
    ASSUME IInv, MergeSplit, NEW r1 \in Regions, NEW r2 \in Regions, r1 < r2,
           NEW smaller \in Int, ResplitPair(r1, r2, smaller)
    PROVE  /\ round = "ms" /\ num_regions' = num_regions /\ Regions' = Regions
           /\ num_regions \in Nat /\ 2 <= num_regions /\ num_regions <= ndists
           /\ TablesAreFor(num_regions - 1)
           /\ current_ctx = ContextOf(region_sizes, num_regions)
           /\ current_ctx' = ContextOf(region_sizes', num_regions)
           /\ UNCHANGED <<smaller_cut_sizes, valid_merge_pair_sizes>>
           /\ region_sizes[r1] \in Sizes /\ region_sizes[r2] \in Sizes
           /\ region_sizes'[r1] = smaller
           /\ region_sizes'[r2] = (region_sizes[r1] + region_sizes[r2]) - smaller
           /\ region_sizes'[r1] + region_sizes'[r2] = region_sizes[r1] + region_sizes[r2]
           /\ \A q \in Regions \ {r1, r2} : region_sizes'[q] = region_sizes[q]
  <1>1. /\ round = "ms" /\ num_regions' = num_regions
        /\ region_sizes' = [region_sizes EXCEPT ![r1] = smaller,
                               ![r2] = (region_sizes[r1] + region_sizes[r2]) - smaller]
    BY DEF ResplitPair, update_region_info_from_cut
  <1>2. /\ num_regions \in Nat /\ 2 <= num_regions /\ num_regions <= ndists
        /\ TablesAreFor(num_regions - 1)
        /\ current_ctx = ContextOf(region_sizes, num_regions)
        /\ region_sizes \in [Ids -> 0 .. total_seats]
    BY <1>1, ConstantFacts DEF IInv, TypeOK, BaseTypeOK, RoundInv, TablesInv
  <1>3. /\ current_ctx' = ContextOf(region_sizes', num_regions)
        /\ UNCHANGED <<smaller_cut_sizes, valid_merge_pair_sizes>>
    BY DEF MergeSplit, tableVars
  <1>4. Regions' = Regions /\ Regions \subseteq Ids /\ r1 # r2
    BY <1>1, <1>2, ConstantFacts DEF Regions, Ids
  <1>5. region_sizes[r1] \in Sizes /\ region_sizes[r2] \in Sizes
    BY DEF IInv, SeatsInv
  <1>6. /\ region_sizes'[r1] = smaller
        /\ region_sizes'[r2] = (region_sizes[r1] + region_sizes[r2]) - smaller
        /\ \A q \in Regions \ {r1, r2} : region_sizes'[q] = region_sizes[q]
    BY <1>1, <1>2, <1>4
  <1>7. region_sizes'[r1] + region_sizes'[r2] = region_sizes[r1] + region_sizes[r2]
    BY <1>5, <1>6 DEF Sizes
  <1> QED  BY <1>1, <1>2, <1>3, <1>4, <1>5, <1>6, <1>7

\* Two districts recut into two districts: they still are a pair of districts
\* in a plan with a remainder elsewhere.
LEMMA DistrictPairBack ==
    ASSUME IInv, MergeSplit, NEW r1 \in Regions, NEW r2 \in Regions, r1 < r2,
           is_district_pair_merge(current_ctx, r1, r2),
           NEW smaller \in merged_region_cut_sizes(current_ctx, r1, r2),
           ResplitPair(r1, r2, smaller)
    PROVE  /\ is_district_pair_merge(current_ctx, r1, r2)'
           /\ MinOf(region_sizes[r1], region_sizes[r2])
                 \in district_pair_smaller_cut_sizes(region_sizes[r1] + region_sizes[r2])
  <1> DEFINE k == num_regions
  <1>1. smaller \in district_pair_smaller_cut_sizes(region_sizes[r1] + region_sizes[r2])
    BY DEF merged_region_cut_sizes
  <1>2. PICK r \in Regions : IsRemainder(r)
    BY DEF ResplitPair, IInv, RemainderInv, Started
  <1>3. /\ is_district(smaller) /\ smaller \in Sizes
        /\ is_district((region_sizes[r1] + region_sizes[r2]) - smaller)
    <2>1. round = "ms"
      BY DEF ResplitPair
    <2> QED  BY <1>1, <1>2, <2>1, DistrictPairCut
  <1>4. /\ num_regions' = num_regions /\ Regions' = Regions /\ k \in Nat
        /\ current_ctx = ContextOf(region_sizes, k)
        /\ current_ctx' = ContextOf(region_sizes', k)
        /\ region_sizes[r1] \in Int /\ region_sizes[r2] \in Int
        /\ region_sizes'[r1] = smaller
        /\ region_sizes'[r2] = (region_sizes[r1] + region_sizes[r2]) - smaller
        /\ \A q \in Regions \ {r1, r2} : region_sizes'[q] = region_sizes[q]
    BY <1>3, ProposalKeepsTheRest DEF Sizes
  <1>5. is_district(region_sizes[r1]) /\ is_district(region_sizes[r2])
    BY DEF is_district_pair_merge
  <1>6. ASSUME plan_context_needed
        PROVE  current_ctx' >= 0
    <2>1. current_ctx >= 0
      BY <1>6 DEF is_district_pair_merge
    <2>2. current_ctx \in NonDistricts(region_sizes, k)
      BY <1>4, <2>1, ContextFacts
    <2>3. current_ctx \in NonDistricts(region_sizes', k)
      BY <1>4, <1>5, <2>2 DEF NonDistricts, Regions
    <2>4. current_ctx' \in NonDistricts(region_sizes', k)
      BY <1>4, <1>6, <2>3, ContextFacts
    <2> QED  BY <1>4, <2>4 DEF NonDistricts
  <1>7. is_district_pair_merge(current_ctx, r1, r2)'
    <2>1. mergesplit_district_pairs'
      BY Zenon DEF MergeSplit, is_district_pair_merge
    <2>2. is_district(region_sizes'[r1]) /\ is_district(region_sizes'[r2])
      BY <1>3, <1>4
    <2>3. ~plan_context_needed => num_regions' < ndists
      BY <1>4 DEF is_district_pair_merge
    <2> QED  BY <1>6, <2>1, <2>2, <2>3, Zenon DEF is_district_pair_merge
  <1>8. MinOf(region_sizes[r1], region_sizes[r2])
           \in district_pair_smaller_cut_sizes(region_sizes[r1] + region_sizes[r2])
    <2>1. (region_sizes[r1] + region_sizes[r2]) - region_sizes[r1] = region_sizes[r2]
      BY <1>4
    <2> QED  BY <1>5, <2>1 DEF district_pair_smaller_cut_sizes, is_district
  <1> QED  BY <1>7, <1>8

\* A pair of the tables: the cut is a pair of the tables too, holds whatever is
\* no district, and is no pair of districts that would be cut by another table.
LEMMA TablePairBack ==
    ASSUME IInv, IInv', MergeSplit, NEW r1 \in Regions, NEW r2 \in Regions, r1 < r2,
           is_valid_merge_pair(current_ctx, r1, r2),
           ~is_district_pair_merge(current_ctx, r1, r2),
           NEW smaller \in merged_region_cut_sizes(current_ctx, r1, r2),
           ResplitPair(r1, r2, smaller)
    PROVE  /\ is_valid_merge_pair(current_ctx, r1, r2)'
           /\ ~is_district_pair_merge(current_ctx, r1, r2)'
           /\ MinOf(region_sizes[r1], region_sizes[r2])
                 \in smaller_cut_sizes'[region_sizes'[r1] + region_sizes'[r2]]
  <1> DEFINE k == num_regions
             m == region_sizes[r1] + region_sizes[r2]
  <1>1. smaller \in smaller_cut_sizes[m]
    BY DEF merged_region_cut_sizes
  <1>2. /\ k \in Nat /\ 2 <= k /\ k <= ndists /\ TablesAreFor(k - 1)
        /\ region_sizes[r1] \in Sizes /\ region_sizes[r2] \in Sizes /\ round = "ms"
    BY ConstantFacts DEF IInv, TypeOK, BaseTypeOK, RoundInv, TablesInv, SeatsInv, ResplitPair
  <1>3. <<region_sizes[r1], region_sizes[r2]>> \in TableMerges(k - 1)
    BY <1>2 DEF is_valid_merge_pair, TablesAreFor
  <1>4. /\ m \in Sizes /\ PossibleRemainder(m, k - 1)
        /\ MinOf(region_sizes[r1], region_sizes[r2]) \in TableCuts(m, k - 1)
    BY <1>2, <1>3, MergedSize, TablePairIsACut, ConstantFacts
  <1>5. smaller_cut_sizes[m] = TableCuts(m, k - 1)
    BY <1>2, <1>4 DEF TablesAreFor
  <1> HIDE DEF m
  <1>6. smaller \in Sizes /\ <<smaller, m - smaller>> \in TableMerges(k - 1)
    BY <1>1, <1>2, <1>4, <1>5, CutIsATablePair, ConstantFacts
  <1>7. /\ num_regions' = num_regions /\ Regions' = Regions
        /\ current_ctx' = ContextOf(region_sizes', k)
        /\ UNCHANGED <<smaller_cut_sizes, valid_merge_pair_sizes>>
        /\ region_sizes'[r1] = smaller /\ region_sizes'[r2] = m - smaller
        /\ region_sizes'[r1] + region_sizes'[r2] = m
        /\ \A q \in Regions \ {r1, r2} : region_sizes'[q] = region_sizes[q]
    BY <1>6, ProposalKeepsTheRest DEF m, Sizes
  <1>8. \A q \in Regions \ {r1, r2} : is_district(region_sizes'[q])
    <2>1. PICK r \in Regions : IsRemainder(r)
      BY <1>2 DEF IInv, RemainderInv, Started
    <2> QED  BY <1>2, <1>7, <2>1, TablePairHoldsRemainder
  <1>9. current_ctx' \in {r1, r2, -1}
           /\ (current_ctx' # -1 => ~is_district(region_sizes'[current_ctx']))
    <2>1. NonDistricts(region_sizes', k) \subseteq {r1, r2}
      BY <1>8 DEF NonDistricts, Regions
    <2>2. current_ctx' \in NonDistricts(region_sizes', k) \cup {-1}
      BY <1>2, <1>7, ContextFacts
    <2> QED  BY <2>1, <2>2 DEF NonDistricts
  <1>10. is_valid_merge_pair(current_ctx, r1, r2)'
    <2>1. <<region_sizes'[r1], region_sizes'[r2]>> \in valid_merge_pair_sizes'
      BY <1>2, <1>6, <1>7 DEF TablesAreFor
    <2>2. current_ctx' < 0 \/ r1 = current_ctx' \/ r2 = current_ctx'
      BY <1>9
    <2> QED  BY <2>1, <2>2 DEF is_valid_merge_pair
  <1>11. ~is_district_pair_merge(current_ctx, r1, r2)'
    <2> SUFFICES ASSUME is_district_pair_merge(current_ctx, r1, r2)'
                 PROVE  FALSE
      OBVIOUS
    <2>1. /\ is_district(region_sizes'[r1]) /\ is_district(region_sizes'[r2])
          /\ IF plan_context_needed THEN current_ctx' >= 0 ELSE num_regions' < ndists
      BY DEF is_district_pair_merge
    <2>2. ~plan_context_needed /\ k < ndists
      BY <1>7, <1>9, <2>1
    <2>3. round' = "ms"
      BY <1>2 DEF ResplitPair
    <2>4. PICK r \in Regions : IsRemainder(r)'
      BY <1>7, <2>3 DEF IInv, RemainderInv, Started
    <2>5. /\ region_sizes'[r] \in Int /\ is_sum_of(region_sizes'[r], ndists - k + 1)
          /\ ndists - k + 1 \in Int /\ ndists - k + 1 >= 2
      BY <1>2, <1>7, <2>2, <2>4, ConstantFacts
         DEF IInv, SeatsInv, Sizes, IsRemainder, PossibleRemainder
    <2>6. ~is_district(region_sizes'[r])
      BY <2>2, <2>5, SumIsNoDistrict
    <2> QED  BY <1>8, <2>1, <2>4, <2>6
  <1> QED  BY <1>4, <1>5, <1>7, <1>10, <1>11 DEF m

\* Only the pair of a proposal has stamps beyond the last stamp before it.
LEMMA NewStampsAreThePair ==
    ASSUME IInv, NEW r1 \in Regions, NEW r2 \in Regions, r1 < r2,
           NEW smaller, ResplitPair(r1, r2, smaller),
           NEW q \in Regions, region_added_order'[q] > region_order_max
    PROVE  q \in {r1, r2}
  <1>1. /\ region_added_order' = [region_added_order EXCEPT ![r1] = region_order_max + 1,
                                                            ![r2] = region_order_max + 2]
        /\ region_added_order \in [Ids -> Int] /\ region_order_max \in Nat
        /\ region_added_order[q] <= region_order_max /\ q \in Ids
    BY ConstantFacts DEF ResplitPair, update_region_info_from_cut, IInv, TypeOK, BaseTypeOK,
                         StampsTellAge, Regions, Ids
  <1> QED  BY <1>1

\* The move back of an accepted proposal is one the sampler can propose: the
\* same two ids are a pair to merge (attempt_mergesplit_step throws otherwise),
\* and the cut it takes back is among their cuts.
THEOREM ProposalsHaveAWayBack == Spec => MergeSplitIsReversible
  <1> DEFINE Back(r1, r2) == /\ is_valid_merge_pair(current_ctx, r1, r2)'
                             /\ MinOf(region_sizes[r1], region_sizes[r2])
                                   \in merged_region_cut_sizes(current_ctx, r1, r2)'
  <1>1. ASSUME IInv, IInv', [Next]_vars, NEW p \in Regions, NEW q \in Regions,
               round = "ms", p < q, region_added_order'[p] > region_order_max,
               region_added_order'[q] > region_order_max
        PROVE  Back(p, q)
    <2>1. CASE MergeSplit
      <3>1. PICK r1 \in Regions, r2 \in Regions :
              /\ r1 < r2
              /\ is_valid_merge_pair(current_ctx, r1, r2)
              /\ \E smaller \in merged_region_cut_sizes(current_ctx, r1, r2) :
                    ResplitPair(r1, r2, smaller)
        BY <2>1 DEF MergeSplit
      <3>2. PICK smaller \in merged_region_cut_sizes(current_ctx, r1, r2) :
              ResplitPair(r1, r2, smaller)
        BY <3>1
      <3>3. p = r1 /\ q = r2
        <4>1. p \in {r1, r2} /\ q \in {r1, r2} /\ p \in Int /\ q \in Int /\ r1 \in Int /\ r2 \in Int
          BY <1>1, <3>1, <3>2, NewStampsAreThePair DEF Regions
        <4> QED  BY <1>1, <3>1, <4>1
      <3>4. CASE is_district_pair_merge(current_ctx, r1, r2)
        <4>1. /\ is_district_pair_merge(current_ctx, r1, r2)'
              /\ MinOf(region_sizes[r1], region_sizes[r2])
                    \in district_pair_smaller_cut_sizes(region_sizes[r1] + region_sizes[r2])
          BY <1>1, <2>1, <3>1, <3>2, <3>4, DistrictPairBack
        <4>2. smaller \in Int
          <5>1. smaller \in district_pair_smaller_cut_sizes(region_sizes[r1] + region_sizes[r2])
            BY <3>2, <3>4 DEF merged_region_cut_sizes
          <5>2. PICK r \in Regions : IsRemainder(r)
            BY <1>1 DEF IInv, RemainderInv, Started
          <5> QED  BY <1>1, <3>4, <5>1, <5>2, DistrictPairCut DEF Sizes
        <4>3. region_sizes'[r1] + region_sizes'[r2] = region_sizes[r1] + region_sizes[r2]
          BY <1>1, <2>1, <3>1, <3>2, <4>2, ProposalKeepsTheRest
        <4> QED  BY <3>3, <4>1, <4>3 DEF is_valid_merge_pair, merged_region_cut_sizes
      <3>5. CASE ~is_district_pair_merge(current_ctx, r1, r2)
        <4>1. /\ is_valid_merge_pair(current_ctx, r1, r2)'
              /\ ~is_district_pair_merge(current_ctx, r1, r2)'
              /\ MinOf(region_sizes[r1], region_sizes[r2])
                    \in smaller_cut_sizes'[region_sizes'[r1] + region_sizes'[r2]]
          BY <1>1, <2>1, <3>1, <3>2, <3>5, TablePairBack
        <4> QED  BY <3>3, <4>1 DEF merged_region_cut_sizes
      <3> QED  BY <3>4, <3>5
    <2>2. CASE region_added_order' = region_added_order
      <3>1. p \in Ids /\ region_added_order[p] \in Int /\ region_order_max \in Int
        <4>1. /\ num_regions \in 1 .. ndists /\ region_order_max \in Nat
              /\ region_added_order \in [Ids -> Int]
          BY <1>1 DEF IInv, TypeOK, BaseTypeOK
        <4>2. p \in Ids
          BY <1>1, <4>1, ConstantFacts DEF Regions, Ids
        <4> QED  BY <4>1, <4>2
      <3>2. region_added_order[p] <= region_order_max
        BY <1>1 DEF IInv, StampsTellAge
      <3> QED  BY <1>1, <2>2, <3>1, <3>2
    <2>3. CASE EndOfMergeSplit \/ UNCHANGED vars
      BY <2>2, <2>3 DEF EndOfMergeSplit, EndMergeSplit, vars, planVars
    <2>4. MergeSplit \/ EndOfMergeSplit \/ UNCHANGED vars
      BY <1>1 DEF Next, CheckRegion, CheckVerdict, set_potential_cut_sizes_for_each_valid_size,
                  MayBeginSMC, Split, SplitRegion, Weigh, ComputeWeights,
                  update_cut_sizes_for_mergesplit_step, MayBeginMergeSplit,
                  EndOfStep, EndStep, EndOfRun, Finish, ContinueWithPlan, ContinueRun, Stopped
    <2> QED  BY <2>1, <2>3, <2>4
  <1>2. IInv /\ IInv' /\ [Next]_vars =>
           \A r1, r2 \in Regions :
              (round = "ms" /\ r1 < r2 /\ region_added_order'[r1] > region_order_max
                                       /\ region_added_order'[r2] > region_order_max)
                 => Back(r1, r2)
    BY <1>1
  <1> QED  BY <1>2, Invariance, PTL DEF Spec, MergeSplitIsReversible
-----------------------------------------------------------------------------
(* The schedule implements SeatAllocation. *)

\* Division rounds down: b goes into a at least q times if q times b is no more than a.
LEMMA DivisionRoundsDown ==
    ASSUME NEW a \in Nat, NEW b \in Nat \ {0}, NEW q \in Nat
    PROVE  /\ a \div b \in Nat
           /\ q * b <= a => q <= a \div b
           /\ a < (q + 1) * b => a \div b <= q
  <1> DEFINE d == a \div b
  <1>1. d \in Nat /\ d * b <= a /\ a < (d + 1) * b
    BY SMT
  <1> HIDE DEF d
  <1>2. ASSUME NEW x \in Nat, NEW y \in Nat, x * b < y * b
        PROVE  x < y
    <2> SUFFICES ASSUME y <= x
                 PROVE  y * b <= x * b
      BY <1>2, SMT
    <2> QED  BY SMT
  <1>3. q * b <= a => q < d + 1
    <2> SUFFICES ASSUME q * b <= a
                 PROVE  q < d + 1
      OBVIOUS
    <2>1. q * b \in Int /\ (d + 1) * b \in Int
      BY <1>1, SMT
    <2>2. q * b < (d + 1) * b
      BY <1>1, <2>1
    <2> QED  BY <1>1, <1>2, <2>2
  <1>4. a < (q + 1) * b => d < q + 1
    <2> SUFFICES ASSUME a < (q + 1) * b
                 PROVE  d < q + 1
      OBVIOUS
    <2>1. d * b \in Int /\ (q + 1) * b \in Int
      BY <1>1, SMT
    <2>2. d * b < (q + 1) * b
      BY <1>1, <2>1
    <2> QED  BY <1>1, <1>2, <2>2
  <1> QED  BY <1>1, <1>3, <1>4 DEF d

\* A sum of m districts can be made m districts, and perhaps fewer or more.
LEMMA DistrictsOfASum ==
    ASSUME NEW s \in Nat, NEW m \in Nat, is_sum_of(s, m)
    PROVE  /\ Promise!FewestDistricts(s) \in Nat /\ Promise!MostDistricts(s) \in Nat
           /\ Promise!FewestDistricts(s) <= m /\ m <= Promise!MostDistricts(s)
  <1> DEFINE small == smallest_district_size
             large == largest_district_size
  <1>1. small \in Nat \ {0} /\ large \in Nat \ {0}
    BY ConstantFacts
  <1>2. m * small <= s /\ s <= m * large
    BY DEF is_sum_of
  <1>3. /\ s + large - 1 \in Nat
        /\ m * large \in Int /\ (m + 1) * large = m * large + large
    BY <1>1, SMT
  <1>4. s + large - 1 < (m + 1) * large
    BY <1>1, <1>2, <1>3
  <1> HIDE DEF small, large
  <1>5. (s + large - 1) \div large \in Nat /\ (s + large - 1) \div large <= m
    BY <1>1, <1>3, <1>4, DivisionRoundsDown
  <1>6. s \div small \in Nat /\ m <= s \div small
    BY <1>1, <1>2, DivisionRoundsDown
  <1> QED  BY <1>5, <1>6 DEF Promise!FewestDistricts, Promise!MostDistricts, small, large

\* The seats of a plan in use are those of the map; what check_initial_plan has
\* added up so far are the seats of the regions it has seen.
SeatsAddUp ==
    /\ Started => Total(region_sizes, Regions) = total_seats
    /\ round = "check" => seat_sum = Total(region_sizes, 0 .. checked - 1)

\* What SeatAllocation sees is a tally.
LEMMA SizesTallied == RegionsOfSize = Tally(region_sizes, Regions, Sizes)
  BY DEF RegionsOfSize, Tally

\* The regions are finitely many, and their sizes numbers.
LEMMA RegionFacts ==
    ASSUME IInv
    PROVE  /\ IsFiniteSet(Regions) /\ IsFiniteSet(Sizes) /\ Cardinality(Regions) = num_regions
           /\ num_regions \in Nat /\ 1 <= num_regions /\ num_regions <= ndists
           /\ Regions \subseteq Ids
           /\ \A r \in Regions : region_sizes[r] \in Sizes /\ region_sizes[r] \in Int
           /\ Sizes \subseteq Nat \ {0}
  <1>1. num_regions \in 1 .. ndists
    BY DEF IInv, TypeOK, BaseTypeOK
  <1>2. IsFiniteSet(Regions) /\ Cardinality(Regions) = num_regions
    BY <1>1, RegionsAreFinite
  <1>3. IsFiniteSet(Sizes)
    <2>1. 1 \in Int /\ total_seats \in Int
      BY ConstantFacts
    <2> QED  BY <2>1, FS_Interval DEF Sizes
  <1>4. Sizes \subseteq Nat \ {0} /\ Regions \subseteq Ids
    BY <1>1, ConstantFacts DEF Sizes, Regions, Ids
  <1>5. \A r \in Regions : region_sizes[r] \in Sizes /\ region_sizes[r] \in Int
    <2>1. \A r \in Regions : region_sizes[r] \in Sizes
      BY Zenon DEF IInv, SeatsInv
    <2>2. Sizes \subseteq Int
      BY <1>4
    <2> QED  BY <2>1, <2>2
  <1> QED  BY <1>1, <1>2, <1>3, <1>4, <1>5, ConstantFacts

\* What SeatAllocation adds up size by size is what the regions add up to.
LEMMA SumOverRegions ==
    ASSUME IInv, NEW w, \A s \in Sizes : w[s] \in Int
    PROVE  Promise!OverRegions(w) = Total([r \in Regions |-> w[region_sizes[r]]], Regions)
  <1> DEFINE bag == RegionsOfSize
             f == [s \in Sizes |-> bag[s] * w[s]]
             each == [r \in Regions |-> w[region_sizes[r]]]
  <1>1. Promise!OverRegions(w) = Total(f, Sizes)
    BY DEF Promise!OverRegions, Promise!Total, Promise!Sizes, Total, Sizes, MapThenSumSet, MapThenFoldSet,
           Promise!MapThenSumSet, Promise!MapThenFoldSet
  <1>2. f = [v \in Sizes |-> Tally(region_sizes, Regions, Sizes)[v] * w[v]]
    BY SizesTallied
  <1> HIDE DEF f
  <1>3. Total([v \in Sizes |-> Tally(region_sizes, Regions, Sizes)[v] * w[v]], Sizes) = Total(each, Regions)
    BY RegionFacts, TallyTotal
  <1> QED  BY <1>1, <1>2, <1>3, Zenon

\* The remainder can be made the districts still to come, and every other region one, so a
\* plan with a remainder can be made ndists districts.
LEMMA RemainderCompletable ==
    ASSUME IInv, Started, SeatsAddUp
    PROVE  Promise!Completable
  <1>1. PICK r \in Regions : IsRemainder(r)
    BY DEF IInv, RemainderInv
  <1> DEFINE m == ndists - num_regions + 1
             few == [s \in Sizes |-> Promise!FewestDistricts(s)]
             most == [s \in Sizes |-> Promise!MostDistricts(s)]
             same == [s \in Sizes |-> s]
             fewOf == [q \in Regions |-> few[region_sizes[q]]]
             mostOf == [q \in Regions |-> most[region_sizes[q]]]
             sameOf == [q \in Regions |-> same[region_sizes[q]]]
             rest == Regions \ {r}
  <1>2. m \in Nat /\ num_regions \in Nat /\ IsFiniteSet(Regions)
    BY RegionFacts, ConstantFacts
  <1>3. is_sum_of(region_sizes[r], m) /\ \A q \in rest : is_sum_of(region_sizes[q], 1)
    <2>1. \A q \in rest : is_district(region_sizes[q]) /\ region_sizes[q] \in Int
      BY <1>1, RegionFacts DEF IsRemainder
    <2> QED  BY <1>1, <2>1, SumOfOne DEF IsRemainder, PossibleRemainder
  <1>4. /\ few[region_sizes[r]] \in Nat /\ few[region_sizes[r]] <= m
        /\ most[region_sizes[r]] \in Nat /\ m <= most[region_sizes[r]]
    BY <1>2, <1>3, RegionFacts, DistrictsOfASum
  <1>5. \A q \in rest : /\ few[region_sizes[q]] \in Nat /\ few[region_sizes[q]] <= 1
                        /\ most[region_sizes[q]] \in Nat /\ 1 <= most[region_sizes[q]]
    <2>1. 1 \in Nat
      OBVIOUS
    <2> QED  BY <1>3, <2>1, RegionFacts, DistrictsOfASum
  <1>6. /\ IsFiniteSet(rest) /\ Cardinality(rest) = num_regions - 1
    BY RegionFacts, FS_Subset, FS_RemoveElement
  <1>7. \A s \in Sizes : few[s] \in Int /\ most[s] \in Int /\ same[s] \in Int
    <2> SUFFICES ASSUME NEW s \in Sizes
                 PROVE  few[s] \in Int /\ most[s] \in Int /\ same[s] \in Int
      OBVIOUS
    <2>1. s \in Nat /\ s + largest_district_size - 1 \in Nat
          /\ largest_district_size \in Nat \ {0} /\ smallest_district_size \in Nat \ {0}
      BY RegionFacts, ConstantFacts
    <2>2. (s + largest_district_size - 1) \div largest_district_size \in Nat /\ s \div smallest_district_size \in Nat
      BY <2>1, DivisionRoundsDown
    <2> QED  BY <2>1, <2>2 DEF Promise!FewestDistricts, Promise!MostDistricts
  <1>8. /\ \A q \in Regions : fewOf[q] \in Int /\ mostOf[q] \in Int /\ sameOf[q] = region_sizes[q]
        /\ fewOf[r] <= m /\ m <= mostOf[r]
        /\ \A q \in rest : fewOf[q] <= 1 /\ mostOf[q] \in Nat \ {0}
    <2>1. \A q \in Regions : region_sizes[q] \in Sizes
      BY RegionFacts
    <2>2. \A q \in rest : mostOf[q] \in Nat /\ 1 <= mostOf[q] /\ fewOf[q] <= 1
      BY <1>5
    <2>3. \A q \in Regions : fewOf[q] \in Int /\ mostOf[q] \in Int /\ sameOf[q] = region_sizes[q]
      BY <1>7, <2>1
    <2> QED  BY <1>4, <2>2, <2>3
  <1>9. \A s \in Sizes : RegionsOfSize[s] > 0 => Promise!FewestDistricts(s) <= Promise!MostDistricts(s)
    <2> SUFFICES ASSUME NEW s \in Sizes, RegionsOfSize[s] > 0
                 PROVE  Promise!FewestDistricts(s) <= Promise!MostDistricts(s)
      OBVIOUS
    <2>1. PICK q \in Regions : region_sizes[q] = s
      <3>1. Cardinality({q \in Regions : region_sizes[q] = s}) > 0
        BY DEF RegionsOfSize
      <3>2. {q \in Regions : region_sizes[q] = s} # {}
        BY <3>1, FS_EmptySet
      <3> QED  BY <3>2
    <2>2. few[s] \in Nat /\ most[s] \in Nat /\ few[s] <= most[s]
      BY <1>2, <1>4, <1>5, <2>1
    <2> QED  BY <2>2
  <1> HIDE DEF few, most, same, m
  <1>10. Promise!OverRegions(few) = Total(fewOf, Regions) /\ Promise!OverRegions(most) = Total(mostOf, Regions)
         /\ Promise!OverRegions(same) = Total(sameOf, Regions)
    BY <1>7, SumOverRegions
  <1> HIDE DEF fewOf, mostOf, sameOf, rest
  <1>11. Total(sameOf, Regions) = total_seats
    <2>1. Total(sameOf, Regions) = Total(region_sizes, Regions)
      BY <1>8, RegionFacts, TotalSame
    <2> QED  BY <2>1 DEF SeatsAddUp
  <1>12. rest = Regions \ {r} /\ \A q \in rest : fewOf[q] \in Int /\ mostOf[q] \in Int
    BY <1>8 DEF rest
  <1>13. Total(fewOf, Regions) <= ndists
    <2>1. Total(fewOf, Regions \ {r}) = Total(fewOf, Regions) - fewOf[r] /\ Total(fewOf, Regions) \in Int
      BY <1>2, <1>8, TotalRemove, TotalType
    <2>2. Total(fewOf, rest) <= Cardinality(rest) /\ Total(fewOf, rest) \in Int
      BY <1>6, <1>8, <1>12, TotalOfFew, TotalType
    <2>3. m = ndists - num_regions + 1
      BY DEF m
    <2> QED  BY <1>2, <1>6, <1>8, <1>12, <2>1, <2>2, <2>3, ConstantFacts
  <1>14. ndists <= Total(mostOf, Regions)
    <2>1. Total(mostOf, Regions \ {r}) = Total(mostOf, Regions) - mostOf[r] /\ Total(mostOf, Regions) \in Int
      BY <1>2, <1>8, TotalRemove, TotalType
    <2>2. Total(mostOf, rest) >= Cardinality(rest) /\ Total(mostOf, rest) \in Int
      BY <1>6, <1>8, <1>12, TotalOfPositives, TotalType
    <2>3. m = ndists - num_regions + 1
      BY DEF m
    <2> QED  BY <1>2, <1>6, <1>8, <1>12, <2>1, <2>2, <2>3, ConstantFacts
  <1>15. Promise!Completable <=>
           /\ Promise!OverRegions(same) = total_seats
           /\ \A s \in Sizes : RegionsOfSize[s] > 0 => Promise!FewestDistricts(s) <= Promise!MostDistricts(s)
           /\ Promise!OverRegions(few) <= ndists
           /\ ndists <= Promise!OverRegions(most)
    <2>1. Sizes = Promise!Sizes
      BY DEF Sizes, Promise!Sizes
    <2> QED  BY <2>1 DEF Promise!Completable, few, most, same
  <1> QED  BY <1>9, <1>10, <1>11, <1>13, <1>14, <1>15

\* The next plan has the regions and sizes of the invariant, too.
LEMMA RegionFactsNext ==
    IInv' => /\ \A r \in Regions' : region_sizes'[r] \in Sizes /\ region_sizes'[r] \in Int
             /\ Regions' \subseteq Ids
             /\ IsFiniteSet(Regions')
             /\ num_regions' \in Nat /\ 1 <= num_regions' /\ num_regions' <= ndists
  <1>1. IInv => /\ \A r \in Regions : region_sizes[r] \in Sizes /\ region_sizes[r] \in Int
                /\ Regions \subseteq Ids
                /\ IsFiniteSet(Regions)
                /\ num_regions \in Nat /\ 1 <= num_regions /\ num_regions <= ndists
    BY RegionFacts
  <1>2. (IInv => /\ \A r \in Regions : region_sizes[r] \in Sizes /\ region_sizes[r] \in Int
                 /\ Regions \subseteq Ids
                 /\ IsFiniteSet(Regions)
                 /\ num_regions \in Nat /\ 1 <= num_regions /\ num_regions <= ndists)'
    BY <1>1, PTL
  <1> QED  BY <1>2 DEF Sizes, Ids

\* A split gives the new region some of the seats of another.
LEMMA SplitIsACut ==
    ASSUME IInv, Split
    PROVE  \E r \in Regions :
              /\ num_regions \notin Regions /\ Regions' = Regions \cup {num_regions}
              /\ region_sizes'[r] + region_sizes'[num_regions] = region_sizes[r]
              /\ \A q \in Regions \ {r} : region_sizes'[q] = region_sizes[q]
  <1>1. PICK r \in Regions : \E smaller \in smaller_cut_sizes[region_sizes[r]] : SplitRegion(r, smaller)
    BY DEF Split, choose_multidistrict_to_split
  <1>2. PICK smaller \in smaller_cut_sizes[region_sizes[r]] : SplitRegion(r, smaller)
    BY <1>1
  <1> DEFINE larger == region_sizes[r] - smaller
             k == num_regions
  <1>3. /\ round = "smc" /\ k' = k + 1
        /\ region_sizes' = [region_sizes EXCEPT ![r] = smaller, ![k] = larger]
    BY <1>2 DEF SplitRegion, update_region_info_from_cut
  <1>4. /\ k < ndists /\ region_sizes \in [Ids -> 0 .. total_seats]
        /\ k \in Nat /\ 1 <= k /\ Regions \subseteq Ids /\ region_sizes[r] \in Int
    BY <1>3, RegionFacts DEF IInv, RoundInv, TypeOK, BaseTypeOK
  <1>5. /\ k \notin Regions /\ Regions' = Regions \cup {k} /\ r \in Ids /\ k \in Ids /\ r # k
    BY <1>3, <1>4, ConstantFacts DEF Regions, Ids
  <1>6. region_sizes'[r] = smaller /\ region_sizes'[k] = larger
        /\ \A q \in Regions \ {r} : region_sizes'[q] = region_sizes[q]
    <2> HIDE DEF larger, k
    <2> QED  BY <1>3, <1>4, <1>5
  <1>7. smaller \in Int
    <2>1. region_sizes'[r] \in Int
      BY <1>5, SplitPreserves, RegionFactsNext
    <2> QED  BY <1>6, <2>1
  <1>8. region_sizes'[r] + region_sizes'[num_regions] = region_sizes[r]
    <2>1. smaller + larger = region_sizes[r]
      BY <1>4, <1>7
    <2> QED  BY <1>6, <2>1
  <1> HIDE DEF larger
  <1> QED  BY <1>5, <1>6, <1>8

\* A merge-split move trades seats between two regions.
LEMMA MergeSplitIsATrade ==
    ASSUME IInv, MergeSplit
    PROVE  \E r1, r2 \in Regions :
              /\ r1 # r2 /\ Regions' = Regions
              /\ region_sizes'[r1] + region_sizes'[r2] = region_sizes[r1] + region_sizes[r2]
              /\ \A q \in Regions \ {r1, r2} : region_sizes'[q] = region_sizes[q]
  <1>1. PICK r1 \in Regions, r2 \in Regions :
          /\ r1 < r2
          /\ \E smaller \in merged_region_cut_sizes(current_ctx, r1, r2) : ResplitPair(r1, r2, smaller)
    BY DEF MergeSplit
  <1>2. PICK smaller \in merged_region_cut_sizes(current_ctx, r1, r2) : ResplitPair(r1, r2, smaller)
    BY <1>1
  <1> DEFINE larger == (region_sizes[r1] + region_sizes[r2]) - smaller
  <1>3. /\ num_regions' = num_regions
        /\ region_sizes' = [region_sizes EXCEPT ![r1] = smaller, ![r2] = larger]
    BY <1>2 DEF ResplitPair, update_region_info_from_cut
  <1>4. /\ region_sizes \in [Ids -> 0 .. total_seats]
        /\ Regions \subseteq Ids /\ region_sizes[r1] \in Int /\ region_sizes[r2] \in Int
    BY RegionFacts DEF IInv, TypeOK, BaseTypeOK
  <1>5. Regions' = Regions /\ r1 # r2 /\ r1 \in Ids /\ r2 \in Ids
    BY <1>1, <1>3, <1>4, ConstantFacts DEF Regions
  <1>6. region_sizes'[r1] = smaller /\ region_sizes'[r2] = larger
        /\ \A q \in Regions \ {r1, r2} : region_sizes'[q] = region_sizes[q]
    <2> HIDE DEF larger
    <2> QED  BY <1>3, <1>4, <1>5
  <1>7. smaller \in Int
    <2>1. region_sizes'[r1] \in Int
      BY <1>5, MergeSplitPreserves, RegionFactsNext
    <2> QED  BY <1>6, <2>1
  <1> QED  BY <1>4, <1>5, <1>6, <1>7

\* Cuts and trades keep the sum of the seats.
LEMMA CutsKeepSeats ==
    ASSUME IInv, IInv', Started, SeatsAddUp, round' # "check",
           Split \/ MergeSplit
    PROVE  SeatsAddUp'
  <1>1. /\ IsFiniteSet(Regions) /\ \A q \in Regions : region_sizes[q] \in Int
        /\ \A q \in Regions' : region_sizes'[q] \in Int
        /\ num_regions \in Nat
    BY RegionFacts, RegionFactsNext
  <1>2. Total(region_sizes, Regions) = total_seats
    BY DEF SeatsAddUp
  <1>3. ASSUME Split
        PROVE  Total(region_sizes', Regions') = total_seats
    <2> DEFINE k == num_regions
               g == region_sizes'
               f == region_sizes
    <2>1. PICK r \in Regions :
              /\ k \notin Regions /\ Regions' = Regions \cup {k}
              /\ g[r] + g[k] = f[r]
              /\ \A q \in Regions \ {r} : g[q] = f[q]
      BY <1>3, SplitIsACut
    <2>2. /\ IsFiniteSet(Regions \ {r}) /\ r \notin Regions \ {r} /\ k \notin (Regions \ {r}) \cup {r}
          /\ IsFiniteSet((Regions \ {r}) \cup {r})
          /\ \A q \in (Regions \ {r}) \cup {r} : g[q] \in Int
          /\ g[k] \in Int /\ (Regions \ {r}) \cup {r} = Regions
      <3>1. (Regions \ {r}) \cup {r} = Regions
        OBVIOUS
      <3>2. IsFiniteSet(Regions \ {r})
        BY <1>1, FS_Subset
      <3>3. \A q \in Regions : g[q] \in Int
        BY <1>1, <2>1
      <3>4. g[k] \in Int
        BY <1>1, <2>1
      <3> QED  BY <1>1, <2>1, <3>1, <3>2, <3>3, <3>4
    <2> HIDE DEF g, f, k
    <2>3. Total(g, Regions \cup {k}) = Total(g, Regions) + g[k]
      <3>1. /\ IsFiniteSet(Regions) /\ k \notin Regions /\ g[k] \in Int
            /\ \A q \in Regions : g[q] \in Int
        BY <1>1, <2>1, <2>2
      <3> QED  BY <3>1, TotalAdd
    <2>4. Total(g, (Regions \ {r}) \cup {r}) = Total(g, Regions \ {r}) + g[r]
      BY <2>2, TotalAdd
    <2>5. \A q \in Regions : f[q] \in Int
      BY <1>1 DEF f
    <2>6. Total(g, Regions \ {r}) = Total(f, Regions \ {r})
      BY <2>1, <2>2, <2>5, TotalSame
    <2>7. Total(f, Regions \ {r}) = Total(f, Regions) - f[r] /\ Total(f, Regions) \in Int
      BY <1>1, <2>5, TotalRemove, TotalType
    <2>8. Total(g, Regions \cup {k}) = Total(f, Regions)
      <3>1. g[r] \in Int /\ g[k] \in Int /\ f[r] \in Int /\ g[r] + g[k] = f[r]
        BY <2>1, <2>2, <2>5
      <3>2. Total(g, Regions) = Total(f, Regions) - f[r] + g[r]
        BY <2>2, <2>4, <2>6, <2>7
      <3> QED  BY <2>3, <2>7, <3>1, <3>2
    <2> QED  BY <1>2, <2>1, <2>8 DEF f, g
  <1>4. ASSUME MergeSplit
        PROVE  Total(region_sizes', Regions') = total_seats
    <2> DEFINE g == region_sizes'
               f == region_sizes
    <2>1. PICK r1 \in Regions, r2 \in Regions :
              /\ r1 # r2 /\ Regions' = Regions
              /\ g[r1] + g[r2] = f[r1] + f[r2]
              /\ \A q \in Regions \ {r1, r2} : g[q] = f[q]
      BY <1>4, MergeSplitIsATrade
    <2>2. \A q \in Regions : g[q] \in Int /\ f[q] \in Int
      BY <1>1, <2>1
    <2> HIDE DEF g, f
    <2>3. Total(g, Regions) = Total(f, Regions) - f[r1] - f[r2] + g[r1] + g[r2] /\ Total(f, Regions) \in Int
      BY <1>1, <2>1, <2>2, TotalOfChange, TotalType
    <2>4. Total(g, Regions) = Total(f, Regions)
      <3>1. g[r1] \in Int /\ g[r2] \in Int /\ f[r1] \in Int /\ f[r2] \in Int
        BY <2>2
      <3>2. g[r1] + g[r2] = f[r1] + f[r2]
        BY <2>1
      <3> QED  BY <2>3, <3>1, <3>2
    <2> QED  BY <1>2, <2>1, <2>4 DEF f, g
  <1> QED  BY <1>3, <1>4 DEF SeatsAddUp

\* Relabelling keeps the sum, and gives no region another size.
LEMMA ReorderKeepsSizes ==
    ASSUME IInv, reorder_plan_by_oldest_split
    PROVE  /\ RegionsOfSize' = RegionsOfSize
           /\ Total(region_sizes', Regions') = Total(region_sizes, Regions)
  <1>1. /\ num_regions \in 1 .. ndists /\ Regions' = Regions
        /\ region_sizes' = [i \in Ids |-> region_sizes[OldId(i)]]
        /\ region_added_order \in [Ids -> Int] /\ StampsTellAge
    BY DEF IInv, TypeOK, BaseTypeOK, reorder_plan_by_oldest_split, Regions
  <1>2. /\ \A i \in Regions : OldId(i) \in Regions /\ AgeRank(OldId(i)) = i
        /\ \A r \in Regions : AgeRank(r) \in Regions /\ OldId(AgeRank(r)) = r
    BY <1>1, OldIdIsAPermutation
  <1>3. /\ IsFiniteSet(Regions) /\ Regions \subseteq Ids
        /\ \A r \in Regions : region_sizes[r] \in Int
    BY RegionFacts
  <1> DEFINE h == [i \in Regions |-> OldId(i)]
             g == region_sizes'
  <1>4. (\A i \in Regions : g[i] = region_sizes[h[i]]) /\ \A i \in Regions : g[i] \in Int
    BY <1>1, <1>2, <1>3
  <1>5. /\ \A x \in Regions : h[x] \in Regions
        /\ \A x, y \in Regions : h[x] = h[y] => x = y
        /\ \A y \in Regions : \E x \in Regions : h[x] = y
        /\ {h[x] : x \in Regions} = Regions
    <2>1. /\ \A x \in Regions : h[x] \in Regions
          /\ \A x, y \in Regions : h[x] = h[y] => x = y
          /\ \A y \in Regions : \E x \in Regions : h[x] = y
      BY <1>2
    <2> QED  BY <2>1
  <1> HIDE DEF h, g
  <1>6. Tally(g, Regions, Sizes) = Tally(region_sizes, Regions, Sizes)
    <2>1. \A i \in Regions : g[i] = region_sizes[h[i]]
      BY <1>4
    <2>2. /\ \A x \in Regions : h[x] \in Regions
          /\ \A x, y \in Regions : h[x] = h[y] => x = y
          /\ \A y \in Regions : \E x \in Regions : h[x] = y
      BY <1>5
    <2> QED  BY <1>3, <2>1, <2>2, TallyOfPermutation
  <1>7. Total(g, Regions) = Total(region_sizes, {h[x] : x \in Regions})
    <2>1. \A x \in Regions : g[x] = region_sizes[h[x]] /\ g[x] \in Int
      BY <1>4
    <2>2. IsFiniteSet(Regions) /\ \A x, y \in Regions : h[x] = h[y] => x = y
      BY <1>3, <1>5
    <2> QED  BY <2>1, <2>2, TotalOfImage
  <1> QED  BY <1>1, <1>5, <1>6, <1>7, SizesTallied DEF RegionsOfSize, Tally, Sizes, g

\* The map is one region with all the seats; a plan to check has no seats counted yet.
LEMMA InitAddsUp ==
    ASSUME Init
    PROVE  SeatsAddUp
  <1>1. CASE InitFromBlank
    <2>1. /\ num_regions = 1 /\ Regions = {0} /\ region_sizes[0] = total_seats /\ round = "begin"
      BY <1>1, ConstantFacts DEF InitFromBlank, BlankPlan, Regions, Ids
    <2>2. Total(region_sizes, {} \cup {0}) = Total(region_sizes, {}) + region_sizes[0]
      <3>1. IsFiniteSet({}) /\ region_sizes[0] \in Int
        BY <2>1, ConstantFacts, FS_EmptySet
      <3> QED  BY <3>1, TotalAdd
    <2>3. {} \cup {0} = {0} /\ Total(region_sizes, {}) = 0
      BY TotalOfNone
    <2> QED  BY <2>1, <2>2, <2>3, ConstantFacts DEF SeatsAddUp
  <1>2. CASE InitFromPartial
    <2>1. round = "check" /\ checked = 0 /\ seat_sum = 0
      BY <1>2 DEF Init, InitFromPartial
    <2>2. 0 .. checked - 1 = {}
      BY <2>1
    <2> QED  BY <2>1, <2>2, TotalOfNone DEF SeatsAddUp, Started
  <1> QED  BY <1>1, <1>2 DEF Init

\* Every step keeps the sum.
LEMMA StepAddsUp ==
    ASSUME IInv, SeatsAddUp, [Next]_vars
    PROVE  SeatsAddUp'
  <1>1. ASSUME UNCHANGED <<num_regions, region_sizes>>, Started, Started'
        PROVE  SeatsAddUp'
    BY <1>1 DEF SeatsAddUp, Started, Regions
  <1>2. IInv'
    BY StepPreserves
  <1>3. CASE CheckRegion
    <2>1. /\ round = "check" /\ round' = "check" /\ checked' = checked + 1 /\ checked < num_regions
          /\ seat_sum' = seat_sum + region_sizes[checked] /\ region_sizes' = region_sizes
          /\ ~Started'
      BY <1>3 DEF CheckRegion, roundVars, planVars, Started
    <2>2. checked \in Nat /\ checked \in Regions /\ seat_sum = Total(region_sizes, 0 .. checked - 1)
      BY <2>1, RegionFacts, ConstantFacts DEF IInv, TypeOK, SeatsAddUp, Regions
    <2> DEFINE n == checked
    <2>3. /\ 0 .. n - 1 \subseteq Regions /\ IsFiniteSet(0 .. n - 1) /\ n \notin 0 .. n - 1
          /\ (0 .. n - 1) \cup {n} = 0 .. (n + 1) - 1
      <3>1. 0 .. n - 1 \subseteq Regions /\ n \notin 0 .. n - 1 /\ (0 .. n - 1) \cup {n} = 0 .. (n + 1) - 1
        BY <2>2, RegionFacts DEF Regions
      <3> QED  BY <3>1, RegionFacts, FS_Subset
    <2>4. \A y \in 0 .. n - 1 : region_sizes[y] \in Int
      BY <2>3, RegionFacts
    <2>5. region_sizes[n] \in Int
      BY <2>2, RegionFacts
    <2> HIDE DEF n
    <2>6. Total(region_sizes, (0 .. n - 1) \cup {n}) = Total(region_sizes, 0 .. n - 1) + region_sizes[n]
      BY <2>3, <2>4, <2>5, TotalAdd
    <2> QED  BY <2>1, <2>2, <2>3, <2>6 DEF SeatsAddUp, n
  <1>4. CASE CheckVerdict
    <2>1. /\ round = "check" /\ checked = num_regions /\ UNCHANGED <<num_regions, region_sizes>>
          /\ round' = IF CanBeCompleted THEN "begin" ELSE "rejected"
      BY <1>4 DEF CheckVerdict, planVars
    <2>2. Regions' = Regions /\ Regions = 0 .. checked - 1
      BY <2>1 DEF Regions
    <2>3. CanBeCompleted => seat_sum = total_seats
      BY DEF CanBeCompleted
    <2> QED  BY <2>1, <2>2, <2>3 DEF SeatsAddUp, Started
  <1>5. CASE set_potential_cut_sizes_for_each_valid_size
    BY <1>1, <1>5 DEF set_potential_cut_sizes_for_each_valid_size, MayBeginSMC, planVars, Started
  <1>6. CASE Split
    <2>1. Started /\ round' # "check"
      BY <1>6 DEF Split, SplitRegion, Started
    <2> QED  BY <1>2, <1>6, <2>1, CutsKeepSeats
  <1>7. CASE Weigh
    BY <1>1, <1>7 DEF Weigh, ComputeWeights, planVars, Started
  <1>8. CASE update_cut_sizes_for_mergesplit_step
    BY <1>1, <1>8 DEF update_cut_sizes_for_mergesplit_step, MayBeginMergeSplit, planVars, Started
  <1>9. CASE MergeSplit
    <2>1. Started /\ round' # "check"
      BY <1>9, Zenon DEF MergeSplit, ResplitPair, Started
    <2> QED  BY <1>2, <1>9, <2>1, CutsKeepSeats
  <1>10. CASE EndOfMergeSplit
    BY <1>1, <1>10 DEF EndOfMergeSplit, EndMergeSplit, planVars, Started
  <1>11. CASE EndOfStep \/ EndOfRun
    <2>1. Started /\ Started' /\ (reorder_plan_by_oldest_split \/ UNCHANGED planVars)
      BY <1>11 DEF EndOfStep, EndStep, EndOfRun, Finish, Started
    <2>2. CASE reorder_plan_by_oldest_split
      BY <2>1, <2>2, ReorderKeepsSizes DEF SeatsAddUp, Started
    <2>3. CASE UNCHANGED planVars
      BY <1>1, <2>1, <2>3 DEF planVars
    <2> QED  BY <2>1, <2>2, <2>3
  <1>12. CASE ContinueWithPlan
    <2>1. /\ round = "done" /\ UNCHANGED <<num_regions, region_sizes>> /\ checked' = 0 /\ seat_sum' = 0
      BY <1>12 DEF ContinueWithPlan, ContinueRun
    <2>2. 0 .. checked' - 1 = {}
      BY <2>1
    <2> QED  BY <2>1, <2>2, TotalOfNone DEF SeatsAddUp, Started, Regions
  <1>13. CASE Stopped \/ UNCHANGED vars
    BY <1>13 DEF Stopped, vars, planVars, roundVars, checkVars, SeatsAddUp, Started, Regions
  <1> QED  BY <1>3, <1>4, <1>5, <1>6, <1>7, <1>8, <1>9, <1>10, <1>11, <1>12, <1>13 DEF Next

\* The same of the next plan.
LEMMA RemainderCompletableNext == IInv' /\ Started' /\ SeatsAddUp' => Promise!Completable'
  <1>1. IInv /\ Started /\ SeatsAddUp => Promise!Completable
    BY RemainderCompletable
  <1> QED  BY <1>1, PTL

\* A split divides a region.
LEMMA SplitDivides ==
    ASSUME IInv, SeatsAddUp, Split
    PROVE  Promise!Divide
  <1> DEFINE g == region_sizes'
             k == num_regions
  <1>1. PICK r \in Regions :
              /\ k \notin Regions /\ Regions' = Regions \cup {k}
              /\ g[r] + g[k] = region_sizes[r]
              /\ \A q \in Regions \ {r} : g[q] = region_sizes[q]
    BY SplitIsACut
  <1>2. IInv' /\ SeatsAddUp' /\ Started'
    BY SplitPreserves, StepAddsUp DEF Next, Split, SplitRegion, Started
  <1>3. /\ IsFiniteSet(Regions) /\ region_sizes[r] \in Sizes /\ g[r] \in Sizes /\ g[k] \in Sizes
        /\ Sizes \subseteq Nat \ {0}
    BY <1>1, <1>2, RegionFacts, RegionFactsNext
  <1> DEFINE size == region_sizes[r]
             part == g[r]
  <1>4. size - part = g[k] /\ part \in 1 .. size - 1
    <2>1. /\ size \in Int /\ part \in Int /\ g[k] \in Int
          /\ 1 <= part /\ 1 <= g[k]
      <3>1. \A z \in Sizes : z \in Int /\ 1 <= z
        BY ConstantFacts DEF Sizes
      <3> QED  BY <1>3, <3>1
    <2>2. part + g[k] = size
      BY <1>1
    <2> HIDE DEF g, k, size, part
    <2> QED  BY <2>1, <2>2
  <1>5. RegionsOfSize = Tally(region_sizes, Regions, Sizes) /\ RegionsOfSize' = Tally(g, Regions \cup {k}, Sizes)
    BY <1>1, SizesTallied DEF RegionsOfSize, Tally, Sizes
  <1>6. Promise!Completable'
    BY <1>2, RemainderCompletableNext
  <1>7. /\ RegionsOfSize[size] > 0
        /\ RegionsOfSize' = OneMore(OneMore(OneLess(RegionsOfSize, size), part), size - part)
    <2> DEFINE f == region_sizes
    <2>1. \A q \in Regions \ {r} : g[q] = f[q]
      BY <1>1
    <2>2. f[r] \in Sizes /\ g[r] \in Sizes /\ g[k] \in Sizes
      BY <1>3
    <2> HIDE DEF f, g, k
    <2>3. /\ Tally(f, Regions, Sizes)[f[r]] > 0
          /\ Tally(g, Regions \cup {k}, Sizes) =
                OneMore(OneMore(OneLess(Tally(f, Regions, Sizes), f[r]), g[r]), g[k])
      BY <1>1, <1>3, <2>1, <2>2, TallyOfCut
    <2> QED  BY <1>4, <1>5, <2>3 DEF f
  <1>8. size \in Promise!Sizes
    BY <1>3 DEF Sizes, Promise!Sizes
  <1> HIDE DEF size, part
  <1> QED  BY <1>4, <1>6, <1>7, <1>8 DEF Promise!Divide, Promise!Add, Promise!Remove, OneMore, OneLess

\* A merge-split move recombines two regions.
LEMMA MergeSplitRecombines ==
    ASSUME IInv, SeatsAddUp, MergeSplit
    PROVE  Promise!Recombine
  <1> DEFINE g == region_sizes'
             f == region_sizes
  <1>1. PICK r1 \in Regions, r2 \in Regions :
              /\ r1 # r2 /\ Regions' = Regions
              /\ g[r1] + g[r2] = f[r1] + f[r2]
              /\ \A q \in Regions \ {r1, r2} : g[q] = f[q]
    BY MergeSplitIsATrade
  <1>2. IInv' /\ SeatsAddUp' /\ Started'
    <2>1. Started'
      BY Zenon DEF MergeSplit, ResplitPair, Started
    <2> QED  BY <2>1, MergeSplitPreserves, StepAddsUp DEF Next
  <1>3. /\ IsFiniteSet(Regions) /\ f[r1] \in Sizes /\ f[r2] \in Sizes /\ g[r1] \in Sizes /\ g[r2] \in Sizes
        /\ Sizes \subseteq Nat \ {0}
    BY <1>1, <1>2, RegionFacts, RegionFactsNext
  <1> DEFINE s == f[r1]
             t == f[r2]
             part == g[r1]
  <1>4. s + t - part = g[r2] /\ part \in 1 .. s + t - 1
    <2>1. /\ s \in Int /\ t \in Int /\ part \in Int /\ g[r2] \in Int
          /\ 1 <= part /\ 1 <= g[r2]
      <3>1. \A z \in Sizes : z \in Int /\ 1 <= z
        BY ConstantFacts DEF Sizes
      <3> QED  BY <1>3, <3>1
    <2>2. part + g[r2] = s + t
      BY <1>1
    <2> HIDE DEF g, s, t, part
    <2> QED  BY <2>1, <2>2
  <1>5. RegionsOfSize = Tally(f, Regions, Sizes) /\ RegionsOfSize' = Tally(g, Regions, Sizes)
    BY <1>1, SizesTallied DEF RegionsOfSize, Tally, Sizes
  <1>6. Promise!Completable'
    BY <1>2, RemainderCompletableNext
  <1>7. /\ RegionsOfSize[s] > 0 /\ RegionsOfSize[t] > IF s = t THEN 1 ELSE 0
        /\ RegionsOfSize' = OneMore(OneMore(OneLess(OneLess(RegionsOfSize, s), t), part), s + t - part)
    <2> HIDE DEF g, f
    <2>1. /\ Tally(f, Regions, Sizes)[f[r1]] > 0
          /\ Tally(f, Regions, Sizes)[f[r2]] > 0
          /\ f[r1] = f[r2] => Tally(f, Regions, Sizes)[f[r2]] > 1
      BY <1>1, <1>3, TallyRemoveTwo
    <2>2. Tally(g, Regions, Sizes) =
                OneMore(OneMore(OneLess(OneLess(Tally(f, Regions, Sizes), f[r1]), f[r2]), g[r1]), g[r2])
      BY <1>1, <1>3, TallyOfTrade, SMTT(30)
    <2> QED  BY <1>4, <1>5, <2>1, <2>2
  <1>8. /\ s \in Promise!Sizes /\ t \in Promise!Sizes /\ part \in Promise!Sizes
        /\ s + t - part \in Promise!Sizes
    BY <1>3, <1>4 DEF Sizes, Promise!Sizes
  <1> HIDE DEF s, t, part
  <1> QED  BY <1>4, <1>6, <1>7, <1>8 DEF Promise!Recombine, Promise!Add, Promise!Remove, OneMore, OneLess

\* A step is a step of SeatAllocation, or leaves what it sees alone.
LEMMA NextAllocates ==
    ASSUME IInv, SeatsAddUp, [Next]_vars
    PROVE  [Promise!Divide \/ Promise!Recombine]_RegionsOfSize
  <1>1. ASSUME UNCHANGED <<num_regions, region_sizes>>
        PROVE  RegionsOfSize' = RegionsOfSize
    BY <1>1 DEF RegionsOfSize, Regions, Sizes
  <1>2. CASE Split
    BY <1>2, SplitDivides
  <1>3. CASE MergeSplit
    BY <1>3, MergeSplitRecombines
  <1>4. CASE EndOfStep \/ EndOfRun
    <2>1. reorder_plan_by_oldest_split \/ UNCHANGED planVars
      BY <1>4 DEF EndOfStep, EndStep, EndOfRun, Finish
    <2> QED  BY <1>1, <2>1, ReorderKeepsSizes DEF planVars
  <1>5. CASE CheckRegion \/ CheckVerdict \/ set_potential_cut_sizes_for_each_valid_size
    BY <1>1, <1>5 DEF CheckRegion, CheckVerdict, set_potential_cut_sizes_for_each_valid_size, planVars
  <1>6. CASE Weigh \/ update_cut_sizes_for_mergesplit_step \/ EndOfMergeSplit
    BY <1>1, <1>6 DEF Weigh, ComputeWeights, update_cut_sizes_for_mergesplit_step, EndOfMergeSplit, EndMergeSplit, planVars
  <1>7. CASE ContinueWithPlan
    BY <1>1, <1>7 DEF ContinueWithPlan, ContinueRun
  <1>8. CASE Stopped \/ UNCHANGED vars
    BY <1>1, <1>8 DEF Stopped, vars, planVars
  <1> QED  BY <1>2, <1>3, <1>4, <1>5, <1>6, <1>7, <1>8 DEF Next

\* The multi member schedule implements SeatAllocation, for every number of districts,
\* every number of seats and every range of district sizes: from the blank map, or from
\* any partial plan that passes the checks, seats are only ever divided or traded
\* between regions, and no plan on the way has regions that cannot become the
\* districts that are to be made.
THEOREM PlansStayCompletable == Spec => KeepsPlanCompletable
  <1>1. Init => IInv /\ SeatsAddUp
    BY InitEstablishes, InitAddsUp
  <1>2. IInv /\ SeatsAddUp /\ [Next]_vars => (IInv /\ SeatsAddUp)'
    BY StepPreserves, StepAddsUp
  <1>3. IInv /\ SeatsAddUp => (Started => Promise!Completable)
    BY RemainderCompletable
  <1>4. IInv /\ SeatsAddUp /\ [Next]_vars => [Promise!Divide \/ Promise!Recombine]_RegionsOfSize
    BY NextAllocates
  <1> QED  BY <1>1, <1>2, <1>3, <1>4, PTL DEF Spec, KeepsPlanCompletable

=============================================================================
