------------------------- MODULE SingleMemberProofs -------------------------
(***************************************************************************)
(* Proofs about the schedules of single member districts, for every number *)
(* of districts.  First the any region schedule with its compactness cache *)
(* (WeightCache): a cached weight is current as long as no diagnostics     *)
(* relabel the plan between rounds, the weights know every rival of the    *)
(* pair that was split, and the lineage implements SeatAllocation, with    *)
(* diagnostics or without.  Then the district only schedule over the same  *)
(* plan (DistrictOnlySMD, named SMD here): as long as no diagnostics       *)
(* relabel the plan, the remainder is told by its id, and that lineage     *)
(* implements SeatAllocation too.                                          *)
(***************************************************************************)
EXTENDS WeightCache, FiniteStructures

SMD == INSTANCE DistrictOnlySMD

\* Stamps and cached stamps are integers, and the last stamp given out is the
\* newest that a region or an entry of the cache can have.
StampsAreGivenOut ==
    /\ num_regions \in 1 .. ndists
    /\ region_order_max \in Int
    /\ region_added_order \in [Ids -> Int]
    /\ cached_order \in [Ids -> Int]
    /\ \A r \in Ids : /\ region_added_order[r] <= region_order_max
                      /\ cached_order[r] <= region_order_max

\* An entry with the region's stamp is current, in any round.
FreshIsCurrent ==
    /\ made \in [Ids -> Int] /\ made_max \in Int
    /\ cached_value \in [Ids -> Int]
    /\ \A r \in Regions : Fresh(r) => cached_value[r] = made[r]

\* The relabelling on the way out ends all that.
IInv == round # "done" => /\ StampsAreGivenOut
                          /\ FreshIsCurrent
                          /\ round = "smc" => num_regions < ndists

\* The constants as the proofs use them.
LEMMA ConstantFacts ==
    ndists \in Nat /\ ndists >= 2 /\ total_seats = ndists
  BY SeatAssumption, SMDAssumption

\* The stamps of a cut: two new ones, the rest as they were.
LEMMA CutGivesNewStamps ==
    ASSUME StampsAreGivenOut, NEW r1 \in Ids, NEW r2 \in Ids, r1 # r2,
           NEW smaller, NEW larger, update_region_info_from_cut(r1, r2, smaller, larger)
    PROVE  /\ region_order_max' \in Int /\ region_order_max' = region_order_max + 2
           /\ region_added_order' \in [Ids -> Int]
           /\ region_added_order'[r1] = region_order_max + 1
           /\ region_added_order'[r2] = region_order_max + 2
           /\ \A r \in Ids \ {r1, r2} : region_added_order'[r] = region_added_order[r]
           /\ \A r \in Ids : region_added_order'[r] <= region_order_max'
  BY DEF StampsAreGivenOut, update_region_info_from_cut

\* The pieces of a cut are new geometries.
LEMMA CutNamesNewGeometries ==
    ASSUME FreshIsCurrent, NEW r1 \in Ids, NEW r2 \in Ids, r1 # r2, NameNewGeometry(r1, r2)
    PROVE  /\ made' \in [Ids -> Int] /\ made_max' \in Int
           /\ made'[r1] \in Int /\ made'[r2] \in Int
           /\ \A r \in Ids \ {r1, r2} : made'[r] = made[r]
  BY DEF FreshIsCurrent, NameNewGeometry

\* A split takes its two stamps from beyond every stamp of the cache: the
\* entries its halves inherit are stale.
LEMMA SplitPreserves ==
    ASSUME IInv, CachedSplit
    PROVE  IInv'
  <1>1. PICK r0 \in Regions : SplitAt(r0) /\ NameNewGeometry(r0, num_regions)
                                          /\ UNCHANGED cacheVars
    BY DEF CachedSplit
  <1>2. PICK smaller : SplitRegion(r0, smaller)
    BY <1>1 DEF SplitAt
  <1>3. /\ StampsAreGivenOut /\ FreshIsCurrent /\ num_regions < ndists
        /\ num_regions' = num_regions + 1 /\ round' = "weigh"
        /\ \E larger : update_region_info_from_cut(r0, num_regions, smaller, larger)
    BY <1>2 DEF IInv, SplitRegion
  <1>4. /\ num_regions \in Nat /\ num_regions' \in 1 .. ndists
        /\ r0 \in Ids /\ num_regions \in Ids /\ r0 # num_regions
        /\ Regions' = Regions \cup {num_regions} /\ Regions \subseteq Ids
    BY <1>3, ConstantFacts DEF StampsAreGivenOut, Regions, Ids
  <1>5. /\ region_order_max' \in Int /\ region_order_max' = region_order_max + 2
        /\ region_added_order' \in [Ids -> Int]
        /\ region_added_order'[r0] = region_order_max + 1
        /\ region_added_order'[num_regions] = region_order_max + 2
        /\ \A r \in Ids \ {r0, num_regions} : region_added_order'[r] = region_added_order[r]
        /\ \A r \in Ids : region_added_order'[r] <= region_order_max'
    BY <1>3, <1>4, CutGivesNewStamps
  <1>6. cached_order' = cached_order /\ cached_value' = cached_value
    BY <1>1 DEF cacheVars
  <1>7. StampsAreGivenOut'
    BY <1>3, <1>4, <1>5, <1>6 DEF StampsAreGivenOut
  <1>8. FreshIsCurrent'
    <2>1. /\ made' \in [Ids -> Int] /\ made_max' \in Int
          /\ \A r \in Ids \ {r0, num_regions} : made'[r] = made[r]
      BY <1>1, <1>3, <1>4, CutNamesNewGeometries
    <2>2. \A r \in {r0, num_regions} : region_added_order'[r] # cached_order'[r]
      BY <1>3, <1>4, <1>5, <1>6 DEF StampsAreGivenOut
    <2>3. \A r \in Regions' : Fresh(r)' => cached_value'[r] = made'[r]
      BY <1>3, <1>4, <1>5, <1>6, <2>1, <2>2 DEF FreshIsCurrent, Fresh
    <2> QED  BY <1>3, <1>6, <2>1, <2>3 DEF FreshIsCurrent
  <1> QED  BY <1>3, <1>7, <1>8 DEF IInv

\* Fetching fills stale entries with the region's own stamp and value.
LEMMA FetchPreserves ==
    ASSUME StampsAreGivenOut, FreshIsCurrent, NEW fetched \in SUBSET Regions,
           compute_or_fetch(fetched), UNCHANGED <<planVars, madeVars>>
    PROVE  StampsAreGivenOut' /\ FreshIsCurrent'
  <1> DEFINE stale == {r \in fetched : ~Fresh(r)}
  <1>1. Regions \subseteq Ids
    BY ConstantFacts DEF StampsAreGivenOut, Regions, Ids
  <1>2. /\ UNCHANGED <<num_regions, region_added_order, region_order_max, made, made_max>>
        /\ Regions' = Regions
    BY DEF planVars, madeVars, Regions
  <1>3. /\ cached_order' = [r \in Ids |-> IF r \in stale THEN region_added_order[r] ELSE cached_order[r]]
        /\ cached_value' = [r \in Ids |-> IF r \in stale THEN made[r] ELSE cached_value[r]]
    BY DEF compute_or_fetch
  <1> HIDE DEF stale
  <1>4. StampsAreGivenOut'
    BY <1>1, <1>2, <1>3 DEF StampsAreGivenOut
  <1>5. FreshIsCurrent'
    BY <1>1, <1>2, <1>3 DEF FreshIsCurrent, Fresh
  <1> QED  BY <1>4, <1>5

\* The weights of a round only fetch.
LEMMA WeighPreserves ==
    ASSUME IInv, CachedComputeWeights
    PROVE  IInv'
  <1>1. round = "weigh" /\ round' = "end" /\ UNCHANGED <<planVars, madeVars>>
    BY DEF CachedComputeWeights, ComputeWeights
  <1>2. PICK fetched \in SUBSET Regions : compute_or_fetch(fetched)
    BY DEF CachedComputeWeights
  <1>3. StampsAreGivenOut' /\ FreshIsCurrent'
    BY <1>1, <1>2, FetchPreserves DEF IInv
  <1> QED  BY <1>1, <1>3 DEF IInv

\* So does a proposal that is not accepted.
LEMMA RejectedProposalPreserves ==
    ASSUME IInv, RejectedProposal
    PROVE  IInv'
  <1>1. round = "ms" /\ round' = "ms" /\ UNCHANGED <<planVars, madeVars>>
    BY DEF RejectedProposal, vars, roundVars
  <1>2. PICK r1 \in Regions, r2 \in Regions : compute_or_fetch({r1, r2})
    BY DEF RejectedProposal
  <1>3. {r1, r2} \in SUBSET Regions
    BY <1>2
  <1>4. StampsAreGivenOut' /\ FreshIsCurrent'
    BY <1>1, <1>2, <1>3, FetchPreserves DEF IInv
  <1> QED  BY <1>1, <1>4 DEF IInv

\* An accepted proposal rewrites stamp, geometry and entry of both its regions.
LEMMA AcceptedProposalPreserves ==
    ASSUME IInv, AcceptedProposal
    PROVE  IInv'
  <1>1. PICK r1 \in Regions, r2 \in Regions :
          /\ ResplitAt(r1, r2)
          /\ NameNewGeometry(r1, r2)
          /\ cached_order' = [cached_order EXCEPT ![r1] = region_added_order'[r1],
                                                  ![r2] = region_added_order'[r2]]
          /\ cached_value' = [cached_value EXCEPT ![r1] = made'[r1], ![r2] = made'[r2]]
    BY DEF AcceptedProposal
  <1>2. PICK smaller : ResplitPair(r1, r2, smaller)
    BY <1>1 DEF ResplitAt
  <1>3. /\ StampsAreGivenOut /\ FreshIsCurrent /\ num_regions' = num_regions /\ round' = "ms"
        /\ \E larger : update_region_info_from_cut(r1, r2, smaller, larger)
    BY <1>2 DEF IInv, ResplitPair
  <1>4. /\ r1 \in Ids /\ r2 \in Ids /\ r1 # r2 /\ Regions' = Regions /\ Regions \subseteq Ids
        /\ num_regions \in 1 .. ndists
    BY <1>1, <1>3, ConstantFacts DEF StampsAreGivenOut, Regions, Ids, ResplitAt
  <1>5. /\ region_order_max' \in Int /\ region_order_max' = region_order_max + 2
        /\ region_added_order' \in [Ids -> Int]
        /\ region_added_order'[r1] \in Int /\ region_added_order'[r2] \in Int
        /\ \A r \in Ids \ {r1, r2} : region_added_order'[r] = region_added_order[r]
        /\ \A r \in Ids : region_added_order'[r] <= region_order_max'
    BY <1>3, <1>4, CutGivesNewStamps
  <1>6. /\ made' \in [Ids -> Int] /\ made_max' \in Int
        /\ made'[r1] \in Int /\ made'[r2] \in Int
        /\ \A r \in Ids \ {r1, r2} : made'[r] = made[r]
    BY <1>1, <1>3, <1>4, CutNamesNewGeometries
  <1>7. /\ cached_order' \in [Ids -> Int] /\ cached_value' \in [Ids -> Int]
        /\ \A r \in {r1, r2} : cached_order'[r] = region_added_order'[r] /\ cached_value'[r] = made'[r]
        /\ \A r \in Ids \ {r1, r2} : cached_order'[r] = cached_order[r] /\ cached_value'[r] = cached_value[r]
    BY <1>1, <1>3, <1>4, <1>5, <1>6 DEF StampsAreGivenOut, FreshIsCurrent
  <1>8. StampsAreGivenOut'
    BY <1>3, <1>4, <1>5, <1>7 DEF StampsAreGivenOut
  <1>9. FreshIsCurrent'
    BY <1>3, <1>4, <1>5, <1>6, <1>7 DEF FreshIsCurrent, Fresh
  <1> QED  BY <1>3, <1>8, <1>9 DEF IInv

\* The other steps leave plan, geometries and cache alone, or end the run.
LEMMA StepPreserves ==
    ASSUME IInv, [CacheNext]_allVars, diagnostic_mode = FALSE
    PROVE  IInv'
  <1>1. ASSUME UNCHANGED <<planVars, cacheVars, madeVars>>,
               round' # "done" => round # "done",
               round' = "smc" => num_regions < ndists
        PROVE  IInv'
    BY <1>1 DEF IInv, StampsAreGivenOut, FreshIsCurrent, Fresh, Regions, planVars,
                cacheVars, madeVars
  <1>2. CASE set_potential_cut_sizes_for_each_valid_size /\ UNCHANGED <<cacheVars, madeVars>>
    BY <1>1, <1>2 DEF set_potential_cut_sizes_for_each_valid_size, MayBeginSMC
  <1>3. CASE CachedSplit
    BY <1>3, SplitPreserves
  <1>4. CASE CachedComputeWeights
    BY <1>4, WeighPreserves
  <1>5. CASE update_cut_sizes_for_mergesplit_step /\ UNCHANGED <<cacheVars, madeVars>>
    BY <1>1, <1>5 DEF update_cut_sizes_for_mergesplit_step, MayBeginMergeSplit
  <1>6. CASE AcceptedProposal
    BY <1>6, AcceptedProposalPreserves
  <1>7. CASE RejectedProposal
    BY <1>7, RejectedProposalPreserves
  <1>8. CASE EndMergeSplit /\ UNCHANGED <<cacheVars, madeVars>>
    BY <1>1, <1>8 DEF EndMergeSplit
  <1>9. CASE CachedEndOfStep
    BY <1>1, <1>9 DEF CachedEndOfStep, EndOfStep, EndStep, madeVars
  <1>10. CASE CachedEndOfRun
    BY <1>10 DEF CachedEndOfRun, EndOfRun, Finish, IInv
  <1>11. CASE (Stopped /\ UNCHANGED <<cacheVars, madeVars>>) \/ UNCHANGED allVars
    BY <1>1, <1>11 DEF Stopped, IInv, allVars, vars, roundVars
  <1> QED  BY <1>2, <1>3, <1>4, <1>5, <1>6, <1>7, <1>8, <1>9, <1>10, <1>11 DEF CacheNext

\* The cache starts with a stamp no region has.
LEMMA InitEstablishes ==
    ASSUME CacheInit
    PROVE  IInv
  <1>1. /\ num_regions \in 1 .. ndists /\ region_order_max \in Int
        /\ region_added_order \in [Ids -> Int]
        /\ \A r \in Ids : /\ region_added_order[r] <= region_order_max
                          /\ region_added_order[r] # -2
        /\ -2 <= region_order_max /\ round = "begin"
    BY ConstantFacts DEF CacheInit, Init, BlankPlan, PartialPlan, Ids
  <1>2. /\ cached_order = [r \in Ids |-> -2] /\ cached_value = [r \in Ids |-> 0]
        /\ made \in [Ids -> Int] /\ made_max \in Int
    BY <1>1 DEF CacheInit, Ids
  <1>3. StampsAreGivenOut
    BY <1>1, <1>2 DEF StampsAreGivenOut
  <1>4. Regions \subseteq Ids
    BY <1>1, ConstantFacts DEF Regions, Ids
  <1>5. FreshIsCurrent
    BY <1>1, <1>2, <1>4 DEF FreshIsCurrent, Fresh
  <1> QED  BY <1>1, <1>3, <1>5 DEF IInv

\* An entry with the region's stamp holds the compactness of its present
\* geometry, for every number of districts and every sequence of splits,
\* proposals and fetches, in runs that do not relabel plans between rounds
\* (the run weight_cache_diagnostics shows what relabelling does).
THEOREM FreshEntriesAreCurrent ==
    ASSUME diagnostic_mode = FALSE
    PROVE  CacheSpec => []FreshMeansUnchanged
  <1>1. CacheInit => IInv
    BY InitEstablishes
  <1>2. IInv /\ [CacheNext]_allVars => IInv'
    BY StepPreserves
  <1>3. IInv => FreshMeansUnchanged
    BY DEF IInv, FreshIsCurrent, FreshMeansUnchanged
  <1> QED  BY <1>1, <1>2, <1>3, PTL DEF CacheSpec

-----------------------------------------------------------------------------
(* The seats of the regions, and what the tables say of them. *)

SeatsAddUp ==
    /\ num_regions \in 1 .. ndists
    /\ region_sizes \in [Ids -> Nat]
    /\ \A r \in Regions : region_sizes[r] >= 1
    /\ Total(region_sizes, Regions) = ndists

\* The tables are those of some biggest size; while a split is made, or its
\* weights are computed, it is the biggest there was room for.
TablesOfTheRound ==
    /\ smaller_cut_sizes = AnyCuts
    /\ \E biggest \in 1 .. ndists :
          /\ valid_region_sizes_to_split = 2 .. biggest
          /\ valid_merge_pair_sizes = MergePairs(biggest)
          /\ round = "smc" => biggest = BiggestSize(num_regions)
          /\ round = "weigh" => biggest = BiggestSize(num_regions - 1) /\ num_regions >= 2

AgesTold ==
    /\ region_added_order \in [Ids -> Int] /\ region_order_max \in Int
    /\ StampsTellAge

SeatsInv ==
    round # "done" => /\ SeatsAddUp /\ TablesOfTheRound /\ AgesTold
                      /\ round = "smc" => num_regions < ndists

\* The regions are a finite set, of num_regions elements.
LEMMA RegionsAreFinite ==
    ASSUME num_regions \in 1 .. ndists
    PROVE  IsFiniteSet(Regions) /\ Cardinality(Regions) = num_regions
  <1>1. num_regions \in Int /\ num_regions - 1 \in Int /\ ~(0 > num_regions - 1)
    BY SeatAssumption
  <1> QED  BY <1>1, FS_Interval DEF Regions

\* Relabelling by age is a permutation of the regions: OldId undoes AgeRank.
LEMMA OldIdIsAPermutation ==
    ASSUME num_regions \in 1 .. ndists, region_added_order \in [Ids -> Int], StampsTellAge
    PROVE  /\ \A i \in Regions : OldId(i) \in Regions /\ AgeRank(OldId(i)) = i
           /\ \A r \in Regions : AgeRank(r) \in Regions /\ OldId(AgeRank(r)) = r
  <1> DEFINE order == [r \in 0 .. num_regions - 1 |-> region_added_order[r]]
  <1>1. num_regions \in Nat /\ order \in [0 .. num_regions - 1 -> Int]
    BY SeatAssumption DEF Ids
  <1>2. \A r, q \in 0 .. num_regions - 1 : order[r] = order[q] => r = q
    BY DEF StampsTellAge, Regions
  <1>3. \A r \in 0 .. num_regions - 1 : RankOf(order, num_regions, r) = AgeRank(r)
    BY DEF AgeRank, Regions, RankOf
  <1> HIDE DEF order
  <1>4. /\ \A r \in 0 .. num_regions - 1 : AgeRank(r) \in 0 .. num_regions - 1
        /\ \A r, q \in 0 .. num_regions - 1 : AgeRank(r) = AgeRank(q) => r = q
        /\ \A i \in 0 .. num_regions - 1 : \E r \in 0 .. num_regions - 1 : AgeRank(r) = i
    <2> DEFINE n == num_regions
    <2>1. n \in Nat /\ order \in [0 .. n - 1 -> Int] /\ \A r, q \in 0 .. n - 1 : order[r] = order[q] => r = q
      BY <1>1, <1>2
    <2> HIDE DEF n
    <2>2. \A r \in 0 .. n - 1 : RankOf(order, n, r) \in 0 .. n - 1
      BY <2>1, RanksPermute
    <2>3. \A r, q \in 0 .. n - 1 : RankOf(order, n, r) = RankOf(order, n, q) => r = q
      BY <2>1, RanksPermute
    <2>4. \A i \in 0 .. n - 1 : \E r \in 0 .. n - 1 : RankOf(order, n, r) = i
      BY <2>1, RanksPermute
    <2> QED  BY <1>3, <2>2, <2>3, <2>4 DEF n
  <1>5. \A i \in Regions : OldId(i) = CHOOSE r \in Regions : AgeRank(r) = i
    BY <1>1 DEF OldId, Regions
  <1>6. /\ \A r \in Regions : AgeRank(r) \in Regions
        /\ \A r, q \in Regions : AgeRank(r) = AgeRank(q) => r = q
        /\ \A i \in Regions : \E r \in Regions : AgeRank(r) = i
    BY <1>4 DEF Regions
  <1> QED  BY <1>5, <1>6

\* The regions are finitely many ids, with a seat each at least.
LEMMA RegionFacts ==
    ASSUME SeatsAddUp
    PROVE  /\ IsFiniteSet(Regions) /\ Regions \subseteq Ids /\ Cardinality(Regions) = num_regions
           /\ \A r \in Regions : region_sizes[r] \in Nat \ {0}
  <1>1. num_regions \in 1 .. ndists /\ Regions \subseteq Ids
    BY ConstantFacts DEF SeatsAddUp, Regions, Ids
  <1> QED  BY <1>1, RegionsAreFinite DEF SeatsAddUp

\* Two sizes that are exchanged for others of the same sum.
LEMMA SeatsOfACut ==
    ASSUME NEW S \in SUBSET Ids, IsFiniteSet(S), NEW f \in [Ids -> Nat], NEW g \in [Ids -> Nat],
           NEW a \in S, NEW b \in S, a # b, \A y \in Ids \ {a, b} : g[y] = f[y],
           g[a] + g[b] = f[a] + f[b]
    PROVE  Total(g, S) = Total(f, S)
  <1>1. \A y \in S : f[y] \in Int /\ g[y] \in Int
    OBVIOUS
  <1>2. Total(f, S) \in Int
    BY <1>1, TotalType
  <1>3. Total(g, S) = Total(f, S) - f[a] - f[b] + g[a] + g[b]
    BY <1>1, TotalOfChange
  <1>4. f[a] \in Int /\ f[b] \in Int /\ g[a] \in Int /\ g[b] \in Int
    BY <1>1
  <1> QED  BY <1>2, <1>3, <1>4

\* A new stamp for each of the two regions of a cut.
LEMMA AgesAfterACut ==
    ASSUME AgesTold, NEW r1 \in Ids, NEW r2 \in Ids, r1 # r2, Regions' \subseteq Ids,
           Regions' \subseteq Regions \cup {r1, r2},
           NEW smaller, NEW larger, update_region_info_from_cut(r1, r2, smaller, larger)
    PROVE  AgesTold'
  <1>1. /\ region_order_max' = region_order_max + 2 /\ region_order_max' \in Int
        /\ region_added_order' \in [Ids -> Int]
        /\ region_added_order'[r1] = region_order_max + 1
        /\ region_added_order'[r2] = region_order_max + 2
        /\ \A r \in Ids \ {r1, r2} : region_added_order'[r] = region_added_order[r]
    BY DEF AgesTold, update_region_info_from_cut
  <1>2. \A r \in Regions' \ {r1, r2} :
           /\ r \in Regions /\ region_added_order'[r] = region_added_order[r]
           /\ region_added_order[r] \in Int /\ region_added_order[r] <= region_order_max
    BY <1>1 DEF AgesTold, StampsTellAge
  <1>3. region_order_max \in Int
    BY DEF AgesTold
  <1>4. \A r, q \in Regions' : r # q => region_added_order'[r] # region_added_order'[q]
    <2> SUFFICES ASSUME NEW r \in Regions', NEW q \in Regions', r # q
                 PROVE  region_added_order'[r] # region_added_order'[q]
      OBVIOUS
    <2>1. CASE r \in {r1, r2} /\ q \in {r1, r2}
      BY <1>1, <1>3, <2>1
    <2>2. CASE r \in {r1, r2} /\ q \notin {r1, r2}
      BY <1>1, <1>2, <1>3, <2>2
    <2>3. CASE r \notin {r1, r2} /\ q \in {r1, r2}
      BY <1>1, <1>2, <1>3, <2>3
    <2>4. CASE r \notin {r1, r2} /\ q \notin {r1, r2}
      BY <1>2, <2>4 DEF AgesTold, StampsTellAge
    <2> QED  BY <2>1, <2>2, <2>3, <2>4
  <1>5. \A r \in Regions' : region_added_order'[r] <= region_order_max'
    BY <1>1, <1>2, <1>3
  <1> QED  BY <1>1, <1>4, <1>5 DEF AgesTold, StampsTellAge

\* Half of a size, at most, is cut off.
LEMMA AnyCutsAre ==
    ASSUME smaller_cut_sizes = AnyCuts, NEW size \in 1 .. ndists, NEW smaller \in smaller_cut_sizes[size]
    PROVE  smaller \in Nat \ {0} /\ size - smaller \in Nat \ {0}
  <1>1. size \in Sizes
    BY ConstantFacts DEF Sizes
  <1>2. smaller \in 1 .. (size \div 2)
    BY <1>1 DEF AnyCuts
  <1>3. size \in Nat /\ size \div 2 \in Int /\ 2 * (size \div 2) <= size
    BY ConstantFacts
  <1> QED  BY <1>2, <1>3

\* A split hands out the seats of the region it cuts.
LEMMA SplitKeepsSeats ==
    ASSUME SeatsInv, Split
    PROVE  SeatsInv'
  <1>0. PICK r \in Regions : SplitAt(r)
    BY DEF Split
  <1>1. PICK smaller \in smaller_cut_sizes[region_sizes[r]] :
           SplitRegion(r, smaller) /\ region_is_splittable(r) /\ UNCHANGED tableVars
    BY <1>0 DEF SplitAt, choose_multidistrict_to_split
  <1> DEFINE size == region_sizes[r]
             k == num_regions
  <1>2. /\ round = "smc" /\ round' = "weigh" /\ k' = k + 1 /\ k < ndists
        /\ update_region_info_from_cut(r, k, smaller, size - smaller)
        /\ SeatsAddUp /\ TablesOfTheRound /\ AgesTold
    BY <1>1 DEF SplitRegion, SeatsInv
  <1>3. /\ k \in Nat \ {0} /\ k \in Ids /\ r \in Ids /\ r # k /\ k' \in 1 .. ndists
        /\ Regions' = Regions \cup {k} /\ k \notin Regions /\ Regions' \subseteq Ids
    BY <1>1, <1>2, ConstantFacts DEF SeatsAddUp, Regions, Ids
  <1>4. PICK biggest \in 1 .. ndists :
           /\ valid_region_sizes_to_split = 2 .. biggest
           /\ valid_merge_pair_sizes = MergePairs(biggest)
           /\ biggest = BiggestSize(k)
    BY <1>2 DEF TablesOfTheRound
  <1>5. size \in 1 .. ndists
    BY <1>1, <1>4, ConstantFacts DEF region_is_splittable
  <1>6. smaller \in Nat \ {0} /\ size - smaller \in Nat \ {0}
    BY <1>1, <1>2, <1>5, AnyCutsAre DEF TablesOfTheRound
  <1>7. /\ region_sizes \in [Ids -> Nat] /\ region_sizes' \in [Ids -> Nat]
        /\ region_sizes'[r] = smaller /\ region_sizes'[k] = size - smaller
        /\ \A q \in Ids \ {r, k} : region_sizes'[q] = region_sizes[q]
    BY <1>2, <1>3, <1>6 DEF SeatsAddUp, update_region_info_from_cut
  <1>8. Total(region_sizes', Regions') = ndists
    <2> DEFINE f == [region_sizes EXCEPT ![k] = 0]
    <2>1. f \in [Ids -> Nat] /\ f[k] = 0 /\ \A q \in Ids \ {k} : f[q] = region_sizes[q]
      BY <1>3, <1>7
    <2> HIDE DEF f
    <2>2. IsFiniteSet(Regions) /\ Regions \subseteq Ids /\ IsFiniteSet(Regions')
      BY <1>2, <1>3, RegionFacts, FS_AddElement
    <2>3. Total(f, Regions) = Total(region_sizes, Regions)
      <3>1. \A y \in Regions : region_sizes[y] \in Int /\ f[y] = region_sizes[y]
        BY <1>3, <1>7, <2>1, <2>2
      <3> QED  BY <2>2, <3>1, TotalSame
    <2>4. Total(f, Regions \cup {k}) = Total(f, Regions) + f[k]
      <3>1. f[k] \in Int /\ \A y \in Regions : f[y] \in Int
        BY <2>1, <2>2
      <3> QED  BY <1>3, <2>2, <3>1, TotalAdd
    <2>5. Total(f, Regions') = ndists
      BY <1>2, <1>3, <2>1, <2>3, <2>4, ConstantFacts DEF SeatsAddUp
    <2>6. Total(region_sizes', Regions') = Total(f, Regions')
      <3>1. r \in Regions' /\ k \in Regions' /\ f[r] = size /\ \A y \in Ids \ {r, k} : region_sizes'[y] = f[y]
        BY <1>1, <1>3, <1>7, <2>1
      <3>2. region_sizes'[r] + region_sizes'[k] = f[r] + f[k]
        BY <1>5, <1>6, <1>7, <2>1, <3>1
      <3>3. /\ Regions' \in SUBSET Ids /\ region_sizes' \in [Ids -> Nat] /\ f \in [Ids -> Nat]
            /\ r # k /\ r \in Regions' /\ k \in Regions' /\ IsFiniteSet(Regions')
            /\ \A y \in Ids \ {r, k} : region_sizes'[y] = f[y]
        BY <1>3, <1>7, <2>1, <2>2, <3>1
      <3> HIDE DEF k, size
      <3> QED  BY <3>2, <3>3, SeatsOfACut
    <2> QED  BY <2>5, <2>6
  <1>9. SeatsAddUp'
    <2>1. \A q \in Regions' : region_sizes'[q] >= 1
      <3> TAKE q \in Regions'
      <3>1. CASE q \in {r, k}
        BY <1>6, <1>7, <3>1
      <3>2. CASE q \notin {r, k}
        BY <1>2, <1>3, <1>7, <3>2 DEF SeatsAddUp
      <3> QED  BY <3>1, <3>2
    <2> QED  BY <1>3, <1>7, <1>8, <2>1 DEF SeatsAddUp
  <1>10. TablesOfTheRound'
    <2>1. biggest = BiggestSize(k' - 1) /\ k' >= 2
      BY <1>2, <1>3, <1>4
    <2> QED  BY <1>1, <1>2, <1>4, <2>1 DEF TablesOfTheRound, tableVars
  <1>11. AgesTold'
    BY <1>2, <1>3, AgesAfterACut
  <1> QED  BY <1>2, <1>9, <1>10, <1>11 DEF SeatsInv

\* A merge-split move hands out the seats of the two regions it merged.
LEMMA MergeSplitKeepsSeats ==
    ASSUME SeatsInv, MergeSplit
    PROVE  SeatsInv'
  <1>1. PICK r1 \in Regions, r2 \in Regions : ResplitAt(r1, r2)
    BY DEF MergeSplit
  <1> DEFINE size == region_sizes[r1] + region_sizes[r2]
  <1>2. PICK smaller \in smaller_cut_sizes[size] : ResplitPair(r1, r2, smaller)
    BY <1>1 DEF ResplitAt, merged_region_cut_sizes
  <1>3. /\ round = "ms" /\ round' = "ms" /\ num_regions' = num_regions /\ r1 < r2
        /\ is_valid_merge_pair(r1, r2) /\ UNCHANGED tableVars
        /\ update_region_info_from_cut(r1, r2, smaller, size - smaller)
        /\ SeatsAddUp /\ TablesOfTheRound /\ AgesTold
    BY <1>1, <1>2 DEF ResplitAt, ResplitPair, SeatsInv
  <1>4. /\ Regions' = Regions /\ Regions \subseteq Ids /\ IsFiniteSet(Regions)
        /\ r1 \in Ids /\ r2 \in Ids /\ r1 # r2
        /\ region_sizes[r1] \in Nat \ {0} /\ region_sizes[r2] \in Nat \ {0}
    <2>1. Regions' = Regions
      BY <1>3 DEF Regions
    <2>2. r1 # r2
      BY <1>3, ConstantFacts DEF SeatsAddUp, Regions
    <2> QED  BY <1>3, <2>1, <2>2, RegionFacts
  <1>5. size \in 1 .. ndists
    <2>1. PICK biggest \in 1 .. ndists : valid_merge_pair_sizes = MergePairs(biggest)
      BY <1>3 DEF TablesOfTheRound
    <2>2. size <= biggest
      BY <1>3, <2>1 DEF is_valid_merge_pair, MergePairs
    <2> QED  BY <1>4, <2>2, ConstantFacts
  <1>6. smaller \in Nat \ {0} /\ size - smaller \in Nat \ {0}
    BY <1>2, <1>3, <1>5, AnyCutsAre DEF TablesOfTheRound
  <1>7. /\ region_sizes \in [Ids -> Nat] /\ region_sizes' \in [Ids -> Nat]
        /\ region_sizes'[r1] = smaller /\ region_sizes'[r2] = size - smaller
        /\ \A q \in Ids \ {r1, r2} : region_sizes'[q] = region_sizes[q]
    BY <1>3, <1>4, <1>6 DEF SeatsAddUp, update_region_info_from_cut
  <1>8. Total(region_sizes', Regions) = Total(region_sizes, Regions)
    <2>1. region_sizes'[r1] + region_sizes'[r2] = region_sizes[r1] + region_sizes[r2]
      BY <1>4, <1>6, <1>7
    <2> QED  BY <1>4, <1>7, <2>1, SeatsOfACut
  <1>9. SeatsAddUp'
    <2>1. \A q \in Regions' : region_sizes'[q] >= 1
      BY <1>3, <1>4, <1>6, <1>7 DEF SeatsAddUp
    <2> QED  BY <1>3, <1>4, <1>7, <1>8, <2>1 DEF SeatsAddUp
  <1>10. TablesOfTheRound'
    BY <1>3 DEF TablesOfTheRound, tableVars
  <1>11. AgesTold'
    BY <1>3, <1>4, AgesAfterACut
  <1> QED  BY <1>3, <1>9, <1>10, <1>11 DEF SeatsInv

\* Relabelling permutes the sizes and numbers the stamps from one.
LEMMA ReorderKeepsSeats ==
    ASSUME SeatsAddUp, AgesTold, reorder_plan_by_oldest_split
    PROVE  SeatsAddUp' /\ AgesTold'
  <1>1. /\ num_regions \in 1 .. ndists /\ num_regions' = num_regions /\ Regions' = Regions
        /\ region_sizes' = [i \in Ids |-> region_sizes[OldId(i)]]
        /\ region_added_order' = [i \in Ids |-> IF i < num_regions THEN i + 1
                                                ELSE region_added_order[i]]
        /\ region_order_max' = num_regions + 6
    BY DEF SeatsAddUp, reorder_plan_by_oldest_split, Regions
  <1>2. /\ \A i \in Regions : OldId(i) \in Regions /\ AgeRank(OldId(i)) = i
        /\ \A r \in Regions : AgeRank(r) \in Regions /\ OldId(AgeRank(r)) = r
    BY <1>1, OldIdIsAPermutation DEF AgesTold
  <1>3. IsFiniteSet(Regions) /\ Regions \subseteq Ids /\ \A r \in Regions : region_sizes[r] \in Nat \ {0}
    BY RegionFacts
  <1>4. region_sizes' \in [Ids -> Nat]
    <2>1. \A i \in Ids : OldId(i) \in Ids
      <3> TAKE i \in Ids
      <3>1. i \in Regions \/ OldId(i) = i
        BY <1>1, ConstantFacts DEF OldId, Ids, Regions
      <3> QED  BY <1>2, <1>3, <3>1
    <2> QED  BY <1>1, <2>1 DEF SeatsAddUp
  <1>5. \A i \in Regions : region_sizes'[i] = region_sizes[OldId(i)]
    BY <1>1, <1>3
  <1>6. Total(region_sizes', Regions) = Total(region_sizes, Regions)
    <2> DEFINE h == [i \in Regions |-> OldId(i)]
    <2>1. \A x, y \in Regions : h[x] = h[y] => x = y
      BY <1>2
    <2>2. {h[x] : x \in Regions} = Regions
      BY <1>2
    <2>3. \A x \in Regions : region_sizes'[x] = region_sizes[h[x]] /\ region_sizes'[x] \in Int
      BY <1>2, <1>3, <1>5
    <2> HIDE DEF h
    <2>4. Total(region_sizes', Regions) = Total(region_sizes, {h[x] : x \in Regions})
      BY <1>3, <2>1, <2>3, TotalOfImage
    <2> QED  BY <2>2, <2>4, Zenon
  <1>7. SeatsAddUp'
    BY <1>1, <1>2, <1>3, <1>4, <1>5, <1>6 DEF SeatsAddUp
  <1>8. AgesTold'
    <2>1. \A r \in Regions : r \in Int /\ 0 <= r /\ r < num_regions /\ region_added_order'[r] = r + 1
      BY <1>1, <1>3, ConstantFacts DEF Regions
    <2>2. num_regions \in Int /\ region_order_max' \in Int
      BY <1>1
    <2>3. region_added_order' \in [Ids -> Int]
      BY <1>1, ConstantFacts DEF AgesTold, Ids
    <2>4. \A r \in Regions : region_added_order'[r] <= region_order_max'
      BY <1>1, <2>1, <2>2
    <2>5. \A r, q \in Regions : r # q => region_added_order'[r] # region_added_order'[q]
      BY <2>1
    <2> QED  BY <1>1, <2>2, <2>3, <2>4, <2>5 DEF AgesTold, StampsTellAge
  <1> QED  BY <1>7, <1>8

\* The blank plan has all the seats in one region.
LEMMA InitHasSeats ==
    ASSUME Init
    PROVE  SeatsInv
  <1>0. round = "begin" /\ smaller_cut_sizes = AnyCuts
    BY DEF Init
  <1>1. CASE BlankPlan /\ valid_region_sizes_to_split = {} /\ valid_merge_pair_sizes = {}
    <2>1. num_regions = 1 /\ Regions = {0} /\ region_sizes \in [Ids -> Nat] /\ region_sizes[0] = ndists
      BY <1>1, ConstantFacts DEF BlankPlan, Regions, Ids
    <2>2. Total(region_sizes, Regions) = ndists
      <3>1. IsFiniteSet({}) /\ 0 \notin {} /\ \A y \in {} : region_sizes[y] \in Int
        BY FS_EmptySet
      <3>2. region_sizes[0] \in Int
        BY <2>1, ConstantFacts
      <3>3. Total(region_sizes, {} \cup {0}) = Total(region_sizes, {}) + region_sizes[0]
        BY <3>1, <3>2, TotalAdd
      <3>4. {} \cup {0} = Regions
        BY <2>1
      <3>5. Total(region_sizes, Regions) = 0 + region_sizes[0]
        BY <3>3, <3>4, TotalOfNone, Zenon
      <3> QED  BY <2>1, <3>2, <3>5
    <2>3. SeatsAddUp
      BY <2>1, <2>2, ConstantFacts DEF SeatsAddUp
    <2>4. TablesOfTheRound
      <3>1. 2 .. 1 = {} /\ MergePairs(1) = {} /\ 1 \in 1 .. ndists
        BY ConstantFacts DEF MergePairs
      <3> QED  BY <1>0, <1>1, <3>1 DEF TablesOfTheRound
    <2>5. AgesTold
      BY <1>1, <2>1, ConstantFacts DEF AgesTold, StampsTellAge, BlankPlan, Ids
    <2> QED  BY <1>0, <2>3, <2>4, <2>5 DEF SeatsInv
  <1>2. ASSUME NEW k \in 2 .. ndists - 1, NEW sizes \in Compositions(k), PartialPlan(k, sizes),
               valid_region_sizes_to_split = 2 .. BiggestSize(k - 1),
               valid_merge_pair_sizes = MergePairs(BiggestSize(k - 1))
        PROVE  SeatsInv
    <2>1. PICK m \in [0 .. k -> 0 .. total_seats] :
             /\ m[0] = 0 /\ m[k] = total_seats
             /\ \A r \in 0 .. k - 1 : m[r] < m[r + 1]
             /\ sizes = [r \in Ids |-> IF r < k THEN m[r + 1] - m[r] ELSE 0]
      BY <1>2 DEF Compositions
    <2>2. /\ num_regions = k /\ Regions = 0 .. k - 1 /\ region_sizes = sizes /\ k \in Nat /\ k <= ndists
          /\ Regions \subseteq Ids
      BY <1>2, ConstantFacts DEF PartialPlan, Regions, Ids
    <2>3. \A r \in 0 .. k - 1 : r \in Ids /\ r < k /\ r \in 0 .. k /\ r + 1 \in 0 .. k
      BY ConstantFacts DEF Ids
    <2>4. \A r \in 0 .. k - 1 : sizes[r] = m[r + 1] - m[r] /\ sizes[r] \in Nat \ {0}
      <3> TAKE r \in 0 .. k - 1
      <3>1. m[r] \in Nat /\ m[r + 1] \in Nat /\ m[r] < m[r + 1]
        BY <2>1, <2>3, ConstantFacts
      <3>2. sizes[r] = m[r + 1] - m[r]
        BY <2>1, <2>3
      <3> QED  BY <3>1, <3>2
    <2>5. sizes \in [Ids -> Nat]
      <3>1. \A r \in Ids : r \in 0 .. k - 1 \/ ~(r < k)
        BY ConstantFacts DEF Ids
      <3>2. DOMAIN sizes = Ids /\ \A r \in Ids : ~(r < k) => sizes[r] = 0
        BY <2>1
      <3>3. ASSUME NEW r \in Ids
            PROVE  sizes[r] \in Nat
        <4>1. CASE r \in 0 .. k - 1
          <5>1. sizes[r] \in Nat \ {0}
            BY <2>4, <4>1
          <5> QED  BY <5>1
        <4>2. CASE ~(r < k)
          BY <3>2, <4>2
        <4> QED  BY <3>1, <4>1, <4>2
      <3> QED  BY <2>1, <3>3
    <2>6. Total(sizes, 0 .. k - 1) = m[k] - m[0]
      <3>1. \A r \in 0 .. k : m[r] \in Int
        BY <2>1, ConstantFacts
      <3>2. \A r \in 0 .. k - 1 : sizes[r] = m[r + 1] - m[r]
        BY <2>4
      <3>3. k \in Nat
        BY <2>2
      <3> QED  BY <3>1, <3>2, <3>3, TotalOfGaps
    <2>7. SeatsAddUp
      <3>1. \A r \in Regions : region_sizes[r] >= 1
        BY <2>2, <2>4
      <3>2. Total(region_sizes, Regions) = ndists
        BY <2>1, <2>2, <2>6, ConstantFacts
      <3> QED  BY <2>2, <2>5, <3>1, <3>2 DEF SeatsAddUp
    <2>8. TablesOfTheRound
      <3>1. BiggestSize(k - 1) \in 1 .. ndists
        BY ConstantFacts DEF BiggestSize
      <3> QED  BY <1>0, <1>2, <3>1 DEF TablesOfTheRound
    <2>9. AgesTold
      <3>1. /\ region_added_order = [r \in Ids |-> IF r < k THEN r + 1 ELSE -1]
            /\ region_order_max = k + 2
        BY <1>2 DEF PartialPlan
      <3>2. \A r \in Ids : r \in Int
        BY ConstantFacts DEF Ids
      <3>3. region_added_order \in [Ids -> Int] /\ region_order_max \in Int
        BY <2>2, <3>1, <3>2
      <3>4. \A r \in Regions : region_added_order[r] = r + 1 /\ r \in Int /\ r < k
        BY <2>2, <2>3, <3>1, <3>2
      <3>5. StampsTellAge
        BY <2>2, <3>1, <3>4 DEF StampsTellAge
      <3> QED  BY <3>3, <3>5 DEF AgesTold
    <2> QED  BY <1>0, <2>7, <2>8, <2>9 DEF SeatsInv
  <1> QED  BY <1>1, <1>2 DEF Init

\* Steps that leave the plan alone.
LEMMA PlanStaysSeatsStay ==
    ASSUME SeatsInv, UNCHANGED <<planVars, tableVars>>, round # "done",
           round' \notin {"smc", "weigh"} \/ round' = round
    PROVE  SeatsInv'
  <1>1. SeatsAddUp' /\ AgesTold'
    BY DEF SeatsInv, SeatsAddUp, AgesTold, StampsTellAge, Regions, planVars
  <1>2. TablesOfTheRound'
    BY DEF SeatsInv, TablesOfTheRound, planVars, tableVars
  <1>3. round' = "smc" => num_regions' < ndists
    BY DEF SeatsInv, planVars
  <1> QED  BY <1>1, <1>2, <1>3 DEF SeatsInv

\* Every step keeps the seats, the tables and the ages.
LEMMA NextKeepsSeats ==
    ASSUME SeatsInv, [Next]_vars
    PROVE  SeatsInv'
  <1>1. CASE set_potential_cut_sizes_for_each_valid_size
    <2>1. /\ round = "begin" /\ num_regions < ndists /\ round' = "smc"
          /\ valid_region_sizes_to_split' = 2 .. BiggestSize(num_regions)
          /\ valid_merge_pair_sizes' = MergePairs(BiggestSize(num_regions))
          /\ UNCHANGED <<smaller_cut_sizes, planVars>>
      BY <1>1 DEF set_potential_cut_sizes_for_each_valid_size, MayBeginSMC
    <2>2. SeatsAddUp' /\ AgesTold' /\ num_regions' = num_regions
      BY <2>1 DEF SeatsInv, SeatsAddUp, AgesTold, StampsTellAge, Regions, planVars
    <2>3. BiggestSize(num_regions) \in 1 .. ndists
      BY <2>1, ConstantFacts DEF BiggestSize, SeatsInv, SeatsAddUp
    <2>4. TablesOfTheRound'
      BY <2>1, <2>2, <2>3 DEF SeatsInv, TablesOfTheRound
    <2> QED  BY <2>1, <2>2, <2>4 DEF SeatsInv
  <1>2. CASE Split
    BY <1>2, SplitKeepsSeats
  <1>3. CASE ComputeWeights
    BY <1>3, PlanStaysSeatsStay DEF ComputeWeights
  <1>4. CASE update_cut_sizes_for_mergesplit_step
    BY <1>4, PlanStaysSeatsStay DEF update_cut_sizes_for_mergesplit_step, MayBeginMergeSplit
  <1>5. CASE MergeSplit
    BY <1>5, MergeSplitKeepsSeats
  <1>6. CASE EndMergeSplit
    BY <1>6, PlanStaysSeatsStay DEF EndMergeSplit
  <1>7. CASE EndOfStep
    <2>1. round = "end" /\ round' = "begin" /\ UNCHANGED tableVars
      BY <1>7 DEF EndOfStep, EndStep
    <2>2. CASE diagnostic_mode
      <3>1. SeatsAddUp' /\ AgesTold'
        BY <1>7, <2>1, <2>2, ReorderKeepsSeats DEF EndOfStep, EndStep, SeatsInv
      <3>2. TablesOfTheRound'
        BY <2>1 DEF SeatsInv, TablesOfTheRound, tableVars
      <3> QED  BY <2>1, <3>1, <3>2 DEF SeatsInv
    <2>3. CASE ~diagnostic_mode
      BY <1>7, <2>1, <2>3, PlanStaysSeatsStay DEF EndOfStep, EndStep
    <2> QED  BY <2>2, <2>3
  <1>8. CASE EndOfRun
    BY <1>8 DEF EndOfRun, Finish, SeatsInv
  <1>9. CASE Stopped \/ UNCHANGED vars
    <2>1. CASE round = "done"
      BY <1>9, <2>1 DEF Stopped, vars, roundVars, SeatsInv
    <2>2. CASE round # "done"
      BY <1>9, <2>2, PlanStaysSeatsStay DEF Stopped, vars, roundVars
    <2> QED  BY <2>1, <2>2
  <1> QED  BY <1>1, <1>2, <1>3, <1>4, <1>5, <1>6, <1>7, <1>8, <1>9 DEF Next

\* The steps of the cache are steps of the plan or leave it alone.
LEMMA CacheStepsAreSteps ==
    ASSUME [CacheNext]_allVars
    PROVE  [Next]_vars
  <1>1. CachedSplit => Split
    BY DEF CachedSplit, Split
  <1>2. AcceptedProposal => MergeSplit
    BY DEF AcceptedProposal, MergeSplit
  <1> QED  BY <1>1, <1>2 DEF CacheNext, Next, allVars, CachedComputeWeights, RejectedProposal,
               CachedEndOfStep, CachedEndOfRun

\* Two regions that are newer than any other.
AreNewest(r1, r2) ==
    /\ r1 < r2
    /\ \A r \in Regions \ {r1, r2} : /\ region_added_order[r] < region_added_order[r1]
                                    /\ region_added_order[r] < region_added_order[r2]

\* There is only one such pair.
LEMMA NewestAreThePair ==
    ASSUME Regions \subseteq Ids, region_added_order \in [Ids -> Int],
           NEW r1 \in Regions, NEW r2 \in Regions, AreNewest(r1, r2)
    PROVE  get_most_recently_split_regions = <<r1, r2>>
  <1> DEFINE IsThePair(pair) ==
                 /\ pair[1] < pair[2]
                 /\ \A r \in Regions \ {pair[1], pair[2]} :
                       /\ region_added_order[r] < region_added_order[pair[1]]
                       /\ region_added_order[r] < region_added_order[pair[2]]
             newest == CHOOSE pair \in Regions \X Regions : IsThePair(pair)
  <1>1. \A r \in Regions : r \in Int /\ region_added_order[r] \in Int
    BY ConstantFacts DEF Ids
  <1>2. <<r1, r2>> \in Regions \X Regions /\ IsThePair(<<r1, r2>>)
    BY DEF AreNewest
  <1>3. newest \in Regions \X Regions /\ IsThePair(newest)
    BY <1>2
  <1>4. get_most_recently_split_regions = newest
    BY DEF get_most_recently_split_regions
  <1> HIDE DEF newest
  <1>5. PICK a \in Regions, b \in Regions : newest = <<a, b>>
    BY <1>3
  <1>6. a < b /\ \A r \in Regions \ {a, b} : /\ region_added_order[r] < region_added_order[a]
                                             /\ region_added_order[r] < region_added_order[b]
    BY <1>3, <1>5
  <1> HIDE DEF IsThePair
  <1>7. a \in {r1, r2} /\ b \in {r1, r2}
    BY <1>1, <1>6 DEF AreNewest
  <1>8. a = r1 /\ b = r2
    BY <1>1, <1>6, <1>7 DEF AreNewest
  <1> QED  BY <1>4, <1>5, <1>8

\* While weights are computed, two regions are the newest: those of the split.
JustSplit == round = "weigh" => \E r1, r2 \in Regions : AreNewest(r1, r2)

\* A split leaves two newest regions, and nothing is moved before they are weighed.
LEMMA NextKeepsNewest ==
    ASSUME SeatsInv, JustSplit, [Next]_vars
    PROVE  JustSplit'
  <1> SUFFICES ASSUME round' = "weigh"
               PROVE  \E r1, r2 \in Regions' : AreNewest(r1, r2)'
    BY DEF JustSplit
  <1>1. CASE Split
    <2>1. PICK r \in Regions : SplitAt(r)
      BY <1>1 DEF Split
    <2>2. PICK smaller : SplitRegion(r, smaller)
      BY <2>1 DEF SplitAt
    <2> DEFINE k == num_regions
    <2>3. /\ round = "smc" /\ num_regions' = k + 1 /\ k < ndists /\ SeatsAddUp /\ AgesTold
          /\ update_region_info_from_cut(r, k, smaller, region_sizes[r] - smaller)
      BY <2>2 DEF SplitRegion, SeatsInv
    <2>4. /\ k \in Nat /\ r \in Ids /\ k \in Ids /\ r # k /\ r < k
          /\ Regions' = Regions \cup {k} /\ Regions \subseteq Ids
      BY <2>3, ConstantFacts DEF SeatsAddUp, Regions, Ids
    <2>5. /\ region_order_max \in Int
          /\ region_added_order'[r] = region_order_max + 1
          /\ region_added_order'[k] = region_order_max + 2
          /\ \A q \in Ids \ {r, k} : region_added_order'[q] = region_added_order[q]
      BY <2>3, <2>4 DEF AgesTold, update_region_info_from_cut
    <2>6. \A q \in Regions' \ {r, k} : /\ region_added_order'[q] < region_added_order'[r]
                                       /\ region_added_order'[q] < region_added_order'[k]
      <3> TAKE q \in Regions' \ {r, k}
      <3>1. /\ region_added_order'[q] = region_added_order[q] /\ region_added_order[q] \in Int
            /\ region_added_order[q] <= region_order_max
        BY <2>3, <2>4, <2>5 DEF AgesTold, StampsTellAge
      <3> QED  BY <2>5, <3>1
    <2> QED  BY <2>4, <2>6 DEF AreNewest
  <1>2. CASE UNCHANGED vars
    BY <1>2 DEF JustSplit, AreNewest, Regions, vars, planVars, roundVars
  <1> QED
    BY <1>1, <1>2 DEF Next, Stopped, set_potential_cut_sizes_for_each_valid_size, ComputeWeights,
       update_cut_sizes_for_mergesplit_step, MergeSplit, ResplitAt, ResplitPair, EndMergeSplit,
       EndOfStep, EndStep, EndOfRun, Finish

\* No two regions have more seats than the others leave them, at least one each.
LEMMA PairsFit ==
    ASSUME SeatsAddUp, NEW r1 \in Regions, NEW r2 \in Regions, r1 # r2
    PROVE  region_sizes[r1] + region_sizes[r2] <= BiggestSize(num_regions - 1)
  <1> DEFINE A == Regions \ {r1}
             B == A \ {r2}
  <1>1. /\ IsFiniteSet(Regions) /\ Cardinality(Regions) = num_regions /\ num_regions \in Int
        /\ \A r \in Regions : region_sizes[r] \in Nat \ {0}
    BY RegionFacts, ConstantFacts DEF SeatsAddUp
  <1>2. IsFiniteSet(A) /\ Cardinality(A) = num_regions - 1 /\ r2 \in A
    BY <1>1, FS_RemoveElement
  <1>3. IsFiniteSet(B) /\ Cardinality(B) = num_regions - 2
    <2>1. IsFiniteSet(B) /\ Cardinality(B) = Cardinality(A) - 1
      BY <1>2, FS_RemoveElement
    <2> QED  BY <1>1, <1>2, <2>1
  <1>4. Total(region_sizes, A) = ndists - region_sizes[r1]
    <2>1. Total(region_sizes, A) = Total(region_sizes, Regions) - region_sizes[r1]
      BY <1>1, TotalRemove
    <2> QED  BY <2>1 DEF SeatsAddUp
  <1>5. Total(region_sizes, B) = Total(region_sizes, A) - region_sizes[r2]
    <2>1. \A y \in A : region_sizes[y] \in Int
      BY <1>1
    <2> QED  BY <1>2, <2>1, TotalRemove
  <1>6. Total(region_sizes, B) >= Cardinality(B)
    <2>1. \A y \in B : region_sizes[y] \in Nat \ {0}
      BY <1>1
    <2> HIDE DEF B
    <2> QED  BY <1>3, <2>1, TotalOfPositives
  <1> HIDE DEF A, B
  <1> QED  BY <1>1, <1>3, <1>4, <1>5, <1>6, ConstantFacts DEF BiggestSize

\* The plan with two regions merged.
LEMMA MergedPlanSizes ==
    ASSUME SeatsAddUp, NEW r1 \in Regions, NEW r2 \in Regions, r1 < r2
    PROVE  LET last   == num_regions - 1
               merged == MergedSizes(r1, r2)
           IN  /\ last \in Regions /\ r1 \in 0 .. num_regions - 2
               /\ merged[r1] = region_sizes[r1] + region_sizes[r2]
               /\ r2 # last => r2 \in 0 .. num_regions - 2 /\ merged[r2] = region_sizes[last]
               /\ \A r \in (0 .. num_regions - 2) \ {r1, r2} :
                     r \in Regions /\ r # last /\ merged[r] = region_sizes[r]
               /\ \A q \in Regions \ {r1, r2, last} : q \in 0 .. num_regions - 2
  <1>1. /\ num_regions \in Nat /\ 1 <= num_regions /\ num_regions <= ndists
        /\ r1 \in Ids /\ r2 \in Ids /\ r1 # r2 /\ Regions \subseteq Ids
        /\ region_sizes \in [Ids -> Nat]
    BY ConstantFacts DEF SeatsAddUp, Regions, Ids
  <1>2. \A q \in 0 .. num_regions - 2 : q \in Regions /\ q # num_regions - 1
    BY <1>1 DEF Regions
  <1>3. \A q \in Regions \ {num_regions - 1} : q \in 0 .. num_regions - 2
    BY <1>1 DEF Regions
  <1>4. num_regions - 1 \in Regions /\ r1 # num_regions - 1
    BY <1>1 DEF Regions
  <1> QED  BY <1>1, <1>2, <1>3, <1>4 DEF MergedSizes

\* Of any two regions: they may be merged, the split could have made them, and
\* the merged region's rivals are the others that could have been picked.
LEMMA PairsAreAncestors ==
    ASSUME SeatsInv, round = "weigh", NEW r1 \in Regions, NEW r2 \in Regions, r1 < r2
    PROVE  /\ is_valid_merge_pair(r1, r2)
           /\ SplitCouldMake(r1, r2)
           /\ PickableIfMerged(r1, r2) =
                 {r1} \cup {MergedId(r2, q) : q \in merged_region_rivals(r1, r2)}
  <1> DEFINE last   == num_regions - 1
             merged == MergedSizes(r1, r2)
             rivals == {q \in Regions \ {r1, r2} : region_sizes[q] \in valid_region_sizes_to_split}
  <1>1. PICK biggest \in 1 .. ndists :
           /\ valid_region_sizes_to_split = 2 .. biggest
           /\ valid_merge_pair_sizes = MergePairs(biggest)
           /\ biggest = BiggestSize(num_regions - 1)
    BY DEF SeatsInv, TablesOfTheRound
  <1>2. /\ SeatsAddUp /\ smaller_cut_sizes = AnyCuts /\ num_regions \in Int
        /\ \A r \in Regions : r \in Int /\ region_sizes[r] \in Nat \ {0}
    BY RegionFacts, ConstantFacts DEF SeatsInv, TablesOfTheRound, SeatsAddUp, Regions
  <1>3. region_sizes[r1] + region_sizes[r2] <= biggest /\ r1 # r2
    BY <1>1, <1>2, PairsFit
  <1>4. is_valid_merge_pair(r1, r2)
    BY <1>1, <1>2, <1>3 DEF is_valid_merge_pair, MergePairs
  <1>5. /\ last \in Regions /\ r1 \in 0 .. num_regions - 2
        /\ merged[r1] = region_sizes[r1] + region_sizes[r2]
        /\ r2 # last => r2 \in 0 .. num_regions - 2 /\ merged[r2] = region_sizes[last]
        /\ \A r \in (0 .. num_regions - 2) \ {r1, r2} :
              r \in Regions /\ r # last /\ merged[r] = region_sizes[r]
        /\ \A q \in Regions \ {r1, r2, last} : q \in 0 .. num_regions - 2
    BY <1>2, MergedPlanSizes
  <1>6. r1 # last /\ PickableIfMerged(r1, r2) =
           {r \in 0 .. num_regions - 2 : merged[r] \in valid_region_sizes_to_split}
    BY <1>2, <1>5 DEF PickableIfMerged
  <1> HIDE DEF merged
  <1>7. merged[r1] \in valid_region_sizes_to_split
    BY <1>1, <1>2, <1>3, <1>5
  <1>8. SplitCouldMake(r1, r2)
    <2> DEFINE smaller == IF region_sizes[r1] <= region_sizes[r2] THEN region_sizes[r1]
                          ELSE region_sizes[r2]
    <2>1. merged[r1] \in Sizes /\ merged[r1] \in Int
      BY <1>1, <1>2, <1>3, <1>5, ConstantFacts DEF Sizes
    <2>2. smaller_cut_sizes[merged[r1]] = 1 .. (merged[r1] \div 2)
      BY <1>2, <2>1 DEF AnyCuts
    <2>3. smaller \in Nat \ {0} /\ 2 * smaller <= merged[r1]
      BY <1>2, <1>5
    <2> HIDE DEF smaller
    <2>4. smaller \in 1 .. (merged[r1] \div 2)
      BY <2>1, <2>3
    <2> QED  BY <1>5, <1>6, <1>7, <2>2, <2>4 DEF SplitCouldMake, merged, smaller
  <1>9. merged_region_rivals(r1, r2) = rivals
    <2>1. CASE num_regions = ndists
      <3>1. biggest = 2
        BY <1>1, <2>1, ConstantFacts DEF BiggestSize
      <3>2. \A r \in Regions : region_sizes[r] = 1
        <4>1. /\ IsFiniteSet(Regions) /\ Cardinality(Regions) = num_regions
              /\ Total(region_sizes, Regions) = Cardinality(Regions)
          BY <1>2, <2>1, RegionFacts DEF SeatsAddUp
        <4> QED  BY <1>2, <4>1, TotalOfPositives
      <3> QED  BY <1>1, <2>1, <3>1, <3>2 DEF merged_region_rivals
    <2>2. CASE num_regions # ndists
      BY <2>2 DEF merged_region_rivals, region_is_splittable
    <2> QED  BY <2>1, <2>2
  <1>10. ASSUME NEW r \in PickableIfMerged(r1, r2)
         PROVE  r \in {r1} \cup {MergedId(r2, q) : q \in rivals}
    <2>1. CASE r = r2 /\ r2 # last
      BY <1>5, <1>6, <2>1 DEF MergedId
    <2>2. CASE r # r1 /\ r # r2
      BY <1>5, <1>6, <2>2 DEF MergedId
    <2>3. r \in Regions /\ r # last
      BY <1>2, <1>6 DEF Regions
    <2> QED  BY <2>1, <2>2, <2>3
  <1>11. ASSUME NEW q \in rivals
         PROVE  MergedId(r2, q) \in PickableIfMerged(r1, r2)
    <2>1. CASE q = last
      BY <1>5, <1>6, <2>1 DEF MergedId
    <2>2. CASE q # last
      BY <1>5, <1>6, <2>2 DEF MergedId
    <2> QED  BY <2>1, <2>2
  <1>12. r1 \in PickableIfMerged(r1, r2)
    BY <1>5, <1>6, <1>7
  <1> QED  BY <1>4, <1>8, <1>9, <1>10, <1>11, <1>12

\* The weights sum over exactly the plans that this one may have been split from,
\* the one it was split from among them, and weigh the merged region against
\* exactly those that could have been picked instead: also in the last round, where
\* the code does not look for rivals, and for plans relabelled between rounds.
THEOREM AncestorsAreSummed == CacheSpec => []WeightsSumOverAncestors
  <1>1. CacheInit => SeatsInv /\ JustSplit
    BY InitHasSeats DEF CacheInit, Init, JustSplit
  <1>2. (SeatsInv /\ JustSplit) /\ [CacheNext]_allVars => (SeatsInv /\ JustSplit)'
    BY NextKeepsSeats, NextKeepsNewest, CacheStepsAreSteps
  <1>3. SeatsInv /\ JustSplit => WeightsSumOverAncestors
    <2> SUFFICES ASSUME SeatsInv, JustSplit, round = "weigh"
                 PROVE  WeightsSumOverAncestors
      BY DEF WeightsSumOverAncestors
    <2>1. PICK r1 \in Regions, r2 \in Regions : AreNewest(r1, r2)
      BY DEF JustSplit
    <2>2. get_most_recently_split_regions = <<r1, r2>> /\ r1 < r2
      <3>1. Regions \subseteq Ids /\ region_added_order \in [Ids -> Int]
        BY RegionFacts DEF SeatsInv, AgesTold
      <3>2. r1 < r2
        BY <2>1 DEF AreNewest
      <3> QED  BY <2>1, <3>1, <3>2, NewestAreThePair
    <2>3. is_valid_merge_pair(r1, r2)
      BY <2>2, PairsAreAncestors
    <2>4. \A a, b \in Regions : a < b =>
             /\ is_valid_merge_pair(a, b)
             /\ SplitCouldMake(a, b)
             /\ PickableIfMerged(a, b) = {a} \cup {MergedId(b, q) : q \in merged_region_rivals(a, b)}
      BY PairsAreAncestors
    <2> QED  BY <2>2, <2>3, <2>4 DEF WeightsSumOverAncestors
  <1> QED  BY <1>1, <1>2, <1>3, PTL DEF CacheSpec

-----------------------------------------------------------------------------
(* The any region schedule implements SeatAllocation. *)

\* What SeatAllocation sees is a tally.
LEMMA SizesTallied == RegionsOfSize = Tally(region_sizes, Regions, Sizes)
  BY DEF RegionsOfSize, Tally

\* No region has more seats than there are.
LEMMA SizesWithin ==
    ASSUME SeatsAddUp
    PROVE  \A r \in Regions : region_sizes[r] \in Sizes
  <1> SUFFICES ASSUME NEW r \in Regions
               PROVE  region_sizes[r] \in Sizes
    OBVIOUS
  <1>1. /\ IsFiniteSet(Regions) /\ IsFiniteSet(Regions \ {r})
        /\ \A q \in Regions : region_sizes[q] \in Nat \ {0}
    BY RegionFacts, FS_Subset
  <1>2. Total(region_sizes, Regions \ {r}) = Total(region_sizes, Regions) - region_sizes[r]
    BY <1>1, TotalRemove
  <1>3. Total(region_sizes, Regions \ {r}) >= Cardinality(Regions \ {r})
    BY <1>1, TotalOfPositives
  <1>4. Cardinality(Regions \ {r}) \in Nat
    BY <1>1, FS_CardinalityType
  <1> QED  BY <1>1, <1>2, <1>3, <1>4, ConstantFacts DEF SeatsAddUp, Sizes

\* What SeatAllocation adds up size by size is what the regions add up to.
LEMMA SumOverRegions ==
    ASSUME SeatsAddUp, NEW w, \A s \in Sizes : w[s] = s
    PROVE  Promise!OverRegions(w) = ndists
  <1>1. /\ IsFiniteSet(Regions) /\ IsFiniteSet(Sizes)
        /\ \A r \in Regions : region_sizes[r] \in Sizes
    <2>1. total_seats \in Int /\ 1 \in Int
      BY ConstantFacts
    <2>2. IsFiniteSet(Sizes)
      BY <2>1, FS_Interval DEF Sizes
    <2> QED  BY <2>2, RegionFacts, SizesWithin
  <1>2. \A s \in Sizes : w[s] \in Int
    BY ConstantFacts DEF Sizes
  <1> DEFINE bag == RegionsOfSize
             f == [s \in Sizes |-> bag[s] * w[s]]
             each == [r \in Regions |-> w[region_sizes[r]]]
  <1>3. Promise!OverRegions(w) = Total(f, Sizes)
    BY DEF Promise!OverRegions, Promise!Total, Promise!Sizes, Total, Sizes, MapThenSumSet, MapThenFoldSet,
           Promise!MapThenSumSet, Promise!MapThenFoldSet
  <1>4. f = [v \in Sizes |-> Tally(region_sizes, Regions, Sizes)[v] * w[v]]
    BY SizesTallied
  <1> HIDE DEF f
  <1>5. Total([v \in Sizes |-> Tally(region_sizes, Regions, Sizes)[v] * w[v]], Sizes) = Total(each, Regions)
    BY <1>1, <1>2, TallyTotal
  <1>6. Total(each, Regions) = Total(region_sizes, Regions)
    <2>1. \A r \in Regions : region_sizes[r] \in Int /\ each[r] = region_sizes[r]
      BY <1>1, ConstantFacts DEF Sizes
    <2> HIDE DEF each
    <2> QED  BY <1>1, <2>1, TotalSame
  <1> QED  BY <1>3, <1>4, <1>5, <1>6, Zenon DEF SeatsAddUp

\* With districts of one seat a plan can be completed if its seats are those of the map.
LEMMA SeatsCompletable ==
    ASSUME SeatsAddUp
    PROVE  Promise!Completable
  <1>1. \A s \in Sizes : s \in Int /\ Promise!FewestDistricts(s) = s /\ Promise!MostDistricts(s) = s
    BY ConstantFacts DEF Promise!FewestDistricts, Promise!MostDistricts, Sizes
  <1> DEFINE few == [s \in Sizes |-> Promise!FewestDistricts(s)]
             most == [s \in Sizes |-> Promise!MostDistricts(s)]
             same == [s \in Sizes |-> s]
  <1>2. (\A s \in Sizes : few[s] = s) /\ (\A s \in Sizes : most[s] = s) /\ (\A s \in Sizes : same[s] = s)
    BY <1>1
  <1>3. Sizes = Promise!Sizes
    BY DEF Sizes, Promise!Sizes
  <1>4. Promise!Completable <=>
          /\ Promise!OverRegions(same) = total_seats
          /\ \A s \in Sizes : RegionsOfSize[s] > 0 => Promise!FewestDistricts(s) <= Promise!MostDistricts(s)
          /\ Promise!OverRegions(few) <= ndists
          /\ ndists <= Promise!OverRegions(most)
    BY <1>3 DEF Promise!Completable
  <1> HIDE DEF few, most, same
  <1>5. Promise!OverRegions(same) = ndists /\ Promise!OverRegions(few) = ndists /\ Promise!OverRegions(most) = ndists
    BY <1>2, SumOverRegions
  <1> QED  BY <1>1, <1>4, <1>5, ConstantFacts

\* The same of the next plan.
LEMMA SeatsCompletableNext == SeatsAddUp' => Promise!Completable'
  <1>1. SeatsAddUp => Promise!Completable
    BY SeatsCompletable
  <1> QED  BY <1>1, PTL

\* A split divides one region.
LEMMA SplitDivides ==
    ASSUME SeatsInv, Split
    PROVE  Promise!Divide
  <1>0. PICK r \in Regions : SplitAt(r)
    BY DEF Split
  <1>1. PICK smaller \in smaller_cut_sizes[region_sizes[r]] : SplitRegion(r, smaller)
    BY <1>0 DEF SplitAt
  <1> DEFINE size == region_sizes[r]
             k == num_regions
  <1>2. /\ k' = k + 1 /\ update_region_info_from_cut(r, k, smaller, size - smaller)
        /\ SeatsAddUp /\ TablesOfTheRound /\ round = "smc"
    BY <1>1 DEF SplitRegion, SeatsInv
  <1>3. /\ IsFiniteSet(Regions) /\ k \notin Regions /\ Regions' = Regions \cup {k}
        /\ r \in Ids /\ k \in Ids /\ r # k /\ Regions \subseteq Ids
    BY <1>2, RegionFacts, ConstantFacts DEF SeatsInv, SeatsAddUp, Regions, Ids
  <1>4. size \in Sizes /\ size \in 1 .. ndists
    BY <1>2, SizesWithin, ConstantFacts DEF Sizes
  <1>5. smaller \in Nat \ {0} /\ size - smaller \in Nat \ {0}
    BY <1>1, <1>2, <1>4, AnyCutsAre DEF TablesOfTheRound
  <1>6. /\ region_sizes'[r] = smaller /\ region_sizes'[k] = size - smaller
        /\ \A q \in Regions \ {r} : region_sizes'[q] = region_sizes[q]
    BY <1>2, <1>3 DEF SeatsAddUp, update_region_info_from_cut
  <1>7. smaller \in Sizes /\ size - smaller \in Sizes /\ smaller \in 1 .. size - 1
    BY <1>4, <1>5, ConstantFacts DEF Sizes
  <1> DEFINE tally == Tally(region_sizes, Regions, Sizes)
             tallied == Tally(region_sizes', Regions \cup {k}, Sizes)
  <1>8. tally[size] > 0 /\ tallied = OneMore(OneMore(OneLess(tally, size), smaller), size - smaller)
    <2> DEFINE g == region_sizes'
    <2>1. \A q \in Regions \ {r} : g[q] = region_sizes[q]
      BY <1>6
    <2>2. g[r] = smaller /\ g[k] = size - smaller
      BY <1>6
    <2>3. g[r] \in Sizes /\ g[k] \in Sizes /\ region_sizes[r] \in Sizes
      BY <1>4, <1>7, <2>2
    <2> HIDE DEF g
    <2>4. /\ Tally(region_sizes, Regions, Sizes)[region_sizes[r]] > 0
          /\ Tally(g, Regions \cup {k}, Sizes) =
                OneMore(OneMore(OneLess(Tally(region_sizes, Regions, Sizes), region_sizes[r]), g[r]), g[k])
      BY <1>3, <2>1, <2>3, TallyOfCut
    <2> QED  BY <2>2, <2>4 DEF g
  <1>9. RegionsOfSize = tally /\ RegionsOfSize' = tallied
    BY <1>3, SizesTallied DEF RegionsOfSize, Tally, Sizes
  <1>10. Promise!Completable'
    <2>1. SeatsAddUp'
      BY SplitKeepsSeats, <1>1 DEF SeatsInv, SplitRegion
    <2> QED  BY <2>1, SeatsCompletableNext
  <1> HIDE DEF size, tally, tallied
  <1>11. RegionsOfSize[size] > 0
    BY <1>8, <1>9
  <1>12. RegionsOfSize' = OneMore(OneMore(OneLess(RegionsOfSize, size), smaller), size - smaller)
    BY <1>8, <1>9
  <1>13. size \in Promise!Sizes
    BY <1>4 DEF Sizes, Promise!Sizes
  <1> QED  BY <1>7, <1>10, <1>11, <1>12, <1>13 DEF Promise!Divide, Promise!Add, Promise!Remove, OneMore, OneLess

\* A merge-split move trades seats between two regions.
LEMMA MergeSplitRecombines ==
    ASSUME SeatsInv, MergeSplit
    PROVE  Promise!Recombine
  <1>1. PICK r1 \in Regions, r2 \in Regions : ResplitAt(r1, r2)
    BY DEF MergeSplit
  <1> DEFINE size == region_sizes[r1] + region_sizes[r2]
  <1>2. PICK smaller \in smaller_cut_sizes[size] : ResplitPair(r1, r2, smaller)
    BY <1>1 DEF ResplitAt, merged_region_cut_sizes
  <1>3. /\ num_regions' = num_regions /\ r1 < r2 /\ round = "ms" /\ round' = "ms"
        /\ is_valid_merge_pair(r1, r2)
        /\ update_region_info_from_cut(r1, r2, smaller, size - smaller)
        /\ SeatsAddUp /\ TablesOfTheRound
    BY <1>1, <1>2 DEF ResplitAt, ResplitPair, SeatsInv
  <1>4. /\ Regions' = Regions /\ Regions \subseteq Ids /\ IsFiniteSet(Regions)
        /\ r1 \in Ids /\ r2 \in Ids /\ r1 # r2
        /\ region_sizes[r1] \in Nat \ {0} /\ region_sizes[r2] \in Nat \ {0}
    <2>1. Regions' = Regions
      BY <1>3 DEF Regions
    <2>2. r1 # r2
      BY <1>3, ConstantFacts DEF SeatsAddUp, Regions
    <2> QED  BY <1>3, <2>1, <2>2, RegionFacts
  <1>5. region_sizes[r1] \in Sizes /\ region_sizes[r2] \in Sizes /\ size \in 1 .. ndists
    <2>1. PICK biggest \in 1 .. ndists : valid_merge_pair_sizes = MergePairs(biggest)
      BY <1>3 DEF TablesOfTheRound
    <2>2. size <= biggest
      BY <1>3, <2>1 DEF is_valid_merge_pair, MergePairs
    <2> QED  BY <1>3, <1>4, <2>2, SizesWithin, ConstantFacts
  <1>6. smaller \in Nat \ {0} /\ size - smaller \in Nat \ {0}
    BY <1>2, <1>3, <1>5, AnyCutsAre DEF TablesOfTheRound
  <1>7. /\ region_sizes'[r1] = smaller /\ region_sizes'[r2] = size - smaller
        /\ \A q \in Regions \ {r1, r2} : region_sizes'[q] = region_sizes[q]
    BY <1>3, <1>4 DEF SeatsAddUp, update_region_info_from_cut
  <1>8. smaller \in Sizes /\ size - smaller \in Sizes /\ smaller \in 1 .. size - 1
    BY <1>5, <1>6, ConstantFacts DEF Sizes
  <1> DEFINE tally == Tally(region_sizes, Regions, Sizes)
             tallied == Tally(region_sizes', Regions, Sizes)
             s == region_sizes[r1]
             t == region_sizes[r2]
  <1>9. /\ tally[s] > 0 /\ tally[t] > IF s = t THEN 1 ELSE 0
        /\ tallied = OneMore(OneMore(OneLess(OneLess(tally, s), t), smaller), size - smaller)
    <2> DEFINE g == region_sizes'
    <2>1. \A q \in Regions \ {r1, r2} : g[q] = region_sizes[q]
      BY <1>7
    <2>2. g[r1] = smaller /\ g[r2] = size - smaller
      BY <1>7
    <2>3. g[r1] \in Sizes /\ g[r2] \in Sizes /\ region_sizes[r1] \in Sizes /\ region_sizes[r2] \in Sizes
      BY <1>5, <1>8, <2>2
    <2> HIDE DEF g
    <2>4. /\ Tally(region_sizes, Regions, Sizes)[region_sizes[r1]] > 0
          /\ Tally(region_sizes, Regions, Sizes)[region_sizes[r2]] > 0
          /\ region_sizes[r1] = region_sizes[r2] => Tally(region_sizes, Regions, Sizes)[region_sizes[r2]] > 1
          /\ Tally(g, Regions, Sizes) =
                OneMore(OneMore(OneLess(OneLess(Tally(region_sizes, Regions, Sizes), region_sizes[r1]),
                                        region_sizes[r2]), g[r1]), g[r2])
      <3>1. IsFiniteSet(Regions) /\ r1 \in Regions /\ r2 \in Regions /\ r1 # r2
        BY <1>4
      <3>2. /\ Tally(region_sizes, Regions, Sizes)[region_sizes[r2]] > 0
            /\ region_sizes[r1] = region_sizes[r2] => Tally(region_sizes, Regions, Sizes)[region_sizes[r2]] > 1
        BY <2>3, <3>1, TallyRemoveTwo
      <3>3. Tally(region_sizes, Regions, Sizes)[region_sizes[r1]] > 0
        BY <2>3, <3>1, TallyRemoveTwo
      <3>4. Tally(g, Regions, Sizes) =
                OneMore(OneMore(OneLess(OneLess(Tally(region_sizes, Regions, Sizes), region_sizes[r1]),
                                        region_sizes[r2]), g[r1]), g[r2])
        BY <2>1, <2>3, <3>1, TallyOfTrade, SMTT(30)
      <3> QED  BY <3>2, <3>3, <3>4, Zenon
    <2> QED  BY <2>2, <2>4 DEF g
  <1>10. RegionsOfSize = tally /\ RegionsOfSize' = tallied
    BY <1>4, SizesTallied DEF RegionsOfSize, Tally, Sizes
  <1>11. Promise!Completable'
    <2>1. SeatsAddUp'
      BY <1>3, MergeSplitKeepsSeats DEF SeatsInv
    <2> QED  BY <2>1, SeatsCompletableNext
  <1>12. /\ s \in Promise!Sizes /\ t \in Promise!Sizes /\ smaller \in Promise!Sizes
         /\ s + t - smaller \in Promise!Sizes /\ smaller \in 1 .. s + t - 1 /\ size - smaller = s + t - smaller
    BY <1>5, <1>8 DEF Sizes, Promise!Sizes
  <1> HIDE DEF size, tally, tallied, s, t
  <1>13. RegionsOfSize[s] > 0 /\ RegionsOfSize[t] > IF s = t THEN 1 ELSE 0
    BY <1>9, <1>10
  <1>14. RegionsOfSize' = OneMore(OneMore(OneLess(OneLess(RegionsOfSize, s), t), smaller), s + t - smaller)
    BY <1>9, <1>10, <1>12
  <1> QED  BY <1>11, <1>12, <1>13, <1>14 DEF Promise!Recombine, Promise!Add, Promise!Remove, OneMore, OneLess

\* Relabelling gives no region another size.
LEMMA ReorderKeepsSizes ==
    ASSUME SeatsAddUp, AgesTold, reorder_plan_by_oldest_split
    PROVE  RegionsOfSize' = RegionsOfSize
  <1>1. /\ num_regions \in 1 .. ndists /\ Regions' = Regions
        /\ region_sizes' = [i \in Ids |-> region_sizes[OldId(i)]]
    BY DEF SeatsAddUp, reorder_plan_by_oldest_split, Regions
  <1>2. /\ \A i \in Regions : OldId(i) \in Regions /\ AgeRank(OldId(i)) = i
        /\ \A r \in Regions : AgeRank(r) \in Regions /\ OldId(AgeRank(r)) = r
    BY <1>1, OldIdIsAPermutation DEF AgesTold
  <1>3. IsFiniteSet(Regions) /\ Regions \subseteq Ids
    BY RegionFacts
  <1> DEFINE h == [i \in Regions |-> OldId(i)]
             g == region_sizes'
  <1>4. \A i \in Regions : g[i] = region_sizes[h[i]]
    BY <1>1, <1>3
  <1>5. /\ \A x \in Regions : h[x] \in Regions
        /\ \A x, y \in Regions : h[x] = h[y] => x = y
        /\ \A y \in Regions : \E x \in Regions : h[x] = y
    BY <1>2
  <1> HIDE DEF h, g
  <1>6. Tally(g, Regions, Sizes) = Tally(region_sizes, Regions, Sizes)
    BY <1>3, <1>4, <1>5, TallyOfPermutation
  <1> QED  BY <1>1, <1>6, SizesTallied DEF RegionsOfSize, Tally, Sizes, g

\* A step is a step of SeatAllocation, or leaves what it sees alone.
LEMMA NextAllocates ==
    ASSUME SeatsInv, [Next]_vars
    PROVE  [Promise!Divide \/ Promise!Recombine]_RegionsOfSize
  <1>1. ASSUME UNCHANGED planVars
        PROVE  RegionsOfSize' = RegionsOfSize
    BY <1>1 DEF planVars, RegionsOfSize, Regions, Sizes
  <1>2. CASE Split
    BY <1>2, SplitDivides
  <1>3. CASE MergeSplit
    BY <1>3, MergeSplitRecombines
  <1>4. CASE EndOfStep \/ EndOfRun
    <2>1. reorder_plan_by_oldest_split \/ UNCHANGED planVars
      BY <1>4 DEF EndOfStep, EndStep, EndOfRun, Finish
    <2>2. SeatsAddUp /\ AgesTold
      BY <1>4 DEF EndOfStep, EndStep, EndOfRun, Finish, SeatsInv
    <2> QED  BY <1>1, <2>1, <2>2, ReorderKeepsSizes
  <1>5. CASE set_potential_cut_sizes_for_each_valid_size \/ update_cut_sizes_for_mergesplit_step
    BY <1>1, <1>5 DEF set_potential_cut_sizes_for_each_valid_size, update_cut_sizes_for_mergesplit_step, planVars
  <1>6. CASE ComputeWeights \/ EndMergeSplit \/ Stopped \/ UNCHANGED vars
    BY <1>1, <1>6 DEF ComputeWeights, EndMergeSplit, Stopped, vars, planVars
  <1> QED  BY <1>2, <1>3, <1>4, <1>5, <1>6 DEF Next

\* The any region schedule only ever divides the seats of the map among the regions, one
\* split or one trade of two regions at a time, whatever it relabels between, and no
\* plan on the way has regions that cannot become the districts that are to be made.
THEOREM PlansStayCompletable == CacheSpec => KeepsPlanCompletable
  <1>1. CacheInit => SeatsInv /\ Promise!Init
    <2>1. CacheInit => SeatsInv /\ SeatsAddUp
      BY InitHasSeats DEF CacheInit, Init, SeatsInv
    <2> QED  BY <2>1, SeatsCompletable DEF Promise!Init
  <1>2. SeatsInv /\ [CacheNext]_allVars => SeatsInv'
    BY NextKeepsSeats, CacheStepsAreSteps
  <1>3. SeatsInv /\ [CacheNext]_allVars => [Promise!Divide \/ Promise!Recombine]_RegionsOfSize
    BY NextAllocates, CacheStepsAreSteps
  <1> QED  BY <1>1, <1>2, <1>3, PTL DEF CacheSpec, KeepsPlanCompletable, Promise!Spec

-----------------------------------------------------------------------------
(* The district only schedule. *)

\* The plan is what the rounds take it for: one-seat districts under the
\* lower ids, and all the seats that are left under the last.
PlanOfOneRemainder ==
    /\ num_regions \in 1 .. ndists
    /\ region_sizes \in [SMD!Ids -> 0 .. total_seats]
    /\ region_sizes[SMD!RemainderId] = ndists - num_regions + 1
    /\ \A r \in 0 .. num_regions - 2 : region_sizes[r] = 1

RemainderInv == PlanOfOneRemainder /\ smaller_cut_sizes = SMD!OneSeatCuts

\* The constants as the proofs use them.
LEMMA DistrictFacts ==
    ndists \in Nat /\ ndists >= 2 /\ total_seats = ndists /\ SMD!Ids \subseteq Nat
  BY SeatAssumption, SMDAssumption DEF SMD!Ids

\* A region that the table of cuts has an entry for is cut into one seat and the rest.
LEMMA OneSeatIsCutOff ==
    ASSUME smaller_cut_sizes = SMD!OneSeatCuts, NEW size \in SMD!Sizes,
           NEW smaller \in smaller_cut_sizes[size]
    PROVE  smaller = 1 /\ size >= 2
  BY DEF SMD!OneSeatCuts, SMD!Sizes

\* Splitting the last id leaves a district there and the remainder under the next id.
LEMMA DistrictSplitPreserves ==
    ASSUME RemainderInv, SMD!Split
    PROVE  RemainderInv'
  <1> DEFINE last == num_regions - 1
             size == ndists - num_regions + 1
  <1>1. /\ num_regions \in Nat /\ 1 <= num_regions /\ num_regions <= ndists
        /\ region_sizes \in [SMD!Ids -> 0 .. total_seats]
        /\ region_sizes[last] = size /\ size \in SMD!Sizes
        /\ \A r \in 0 .. num_regions - 2 : region_sizes[r] = 1
    BY DistrictFacts DEF RemainderInv, PlanOfOneRemainder, SMD!RemainderId, SMD!Sizes
  <1>2. PICK smaller \in smaller_cut_sizes[region_sizes[last]] : SMD!SplitRegion(last, smaller)
    BY DEF SMD!Split, SMD!RemainderId
  <1>3. smaller = 1 /\ size >= 2
    BY <1>1, <1>2, OneSeatIsCutOff DEF RemainderInv
  <1>4. /\ num_regions' = num_regions + 1 /\ num_regions < ndists
        /\ region_sizes' = [region_sizes EXCEPT ![last] = 1, ![num_regions] = size - 1]
    BY <1>1, <1>2, <1>3, DistrictFacts DEF SMD!SplitRegion, SMD!update_region_info_from_cut
  <1>5. last \in SMD!Ids /\ num_regions \in SMD!Ids /\ last # num_regions
    BY <1>1, <1>4, DistrictFacts DEF SMD!Ids
  <1>6. /\ region_sizes' \in [SMD!Ids -> 0 .. total_seats]
        /\ region_sizes'[num_regions] = size - 1
        /\ region_sizes'[last] = 1
        /\ \A r \in SMD!Ids \ {last, num_regions} : region_sizes'[r] = region_sizes[r]
    <2>1. 1 \in 0 .. total_seats /\ size - 1 \in 0 .. total_seats
      BY <1>1, <1>3, DistrictFacts
    <2> HIDE DEF last, size
    <2> QED  BY <1>1, <1>4, <1>5, <2>1
  <1>7. \A r \in 0 .. num_regions' - 2 : region_sizes'[r] = 1
    <2> SUFFICES ASSUME NEW r \in 0 .. num_regions' - 2
                 PROVE  region_sizes'[r] = 1
      OBVIOUS
    <2>1. r = last \/ (r \in 0 .. num_regions - 2 /\ r \in SMD!Ids \ {last, num_regions})
      BY <1>1, <1>4, DistrictFacts DEF SMD!Ids
    <2> QED  BY <1>1, <1>6, <2>1
  <1>8. num_regions' \in 1 .. ndists /\ num_regions' - 1 = num_regions
        /\ size - 1 = ndists - num_regions' + 1
    BY <1>1, <1>4, DistrictFacts
  <1>9. PlanOfOneRemainder'
    BY <1>6, <1>7, <1>8 DEF PlanOfOneRemainder, SMD!RemainderId
  <1>10. smaller_cut_sizes' = smaller_cut_sizes
    BY DEF SMD!Split, SMD!tableVars
  <1> QED  BY <1>9, <1>10 DEF RemainderInv, SMD!OneSeatCuts, SMD!Sizes

\* Of two merged regions the one with the lower id is a district, and a district
\* is what it becomes again: a proposal changes stamps and geometry, no sizes.
LEMMA DistrictMergeSplitKeepsSizes ==
    ASSUME RemainderInv, SMD!MergeSplit
    PROVE  UNCHANGED <<num_regions, region_sizes>>
  <1>1. /\ num_regions \in Nat /\ 1 <= num_regions /\ num_regions <= ndists
        /\ region_sizes \in [SMD!Ids -> 0 .. total_seats]
        /\ region_sizes[num_regions - 1] = ndists - num_regions + 1
        /\ \A r \in 0 .. num_regions - 2 : region_sizes[r] = 1
    BY DistrictFacts DEF RemainderInv, PlanOfOneRemainder, SMD!RemainderId
  <1>2. PICK r1 \in SMD!Regions, r2 \in SMD!Regions :
          /\ r1 < r2
          /\ \E smaller \in SMD!merged_region_cut_sizes(r1, r2) : SMD!ResplitPair(r1, r2, smaller)
    BY DEF SMD!MergeSplit
  <1>3. PICK smaller \in SMD!merged_region_cut_sizes(r1, r2) : SMD!ResplitPair(r1, r2, smaller)
    BY <1>2
  <1>4. r1 \in 0 .. num_regions - 2 /\ r1 \in SMD!Ids /\ r2 \in SMD!Ids
    BY <1>1, <1>2, DistrictFacts DEF SMD!Regions, SMD!Ids
  <1>5. region_sizes[r1] = 1 /\ region_sizes[r2] \in 1 .. ndists - 1
    <2>1. r2 = num_regions - 1 \/ r2 \in 0 .. num_regions - 2
      BY <1>1, <1>2 DEF SMD!Regions
    <2>2. num_regions >= 2
      BY <1>1, <1>4
    <2> QED  BY <1>1, <1>4, <2>1, <2>2, DistrictFacts
  <1>6. 1 + region_sizes[r2] \in SMD!Sizes
    BY <1>5, DistrictFacts DEF SMD!Sizes
  <1>7. smaller = 1
    BY <1>3, <1>5, <1>6, OneSeatIsCutOff DEF RemainderInv, SMD!merged_region_cut_sizes
  <1>8. /\ region_sizes' = [region_sizes EXCEPT ![r1] = 1, ![r2] = (1 + region_sizes[r2]) - 1]
        /\ num_regions' = num_regions
    BY <1>3, <1>5, <1>7 DEF SMD!ResplitPair, SMD!update_region_info_from_cut
  <1>9. region_sizes' = region_sizes
    <2>1. (1 + region_sizes[r2]) - 1 = region_sizes[r2]
      BY <1>5
    <2> QED  BY <1>1, <1>4, <1>5, <1>8, <2>1
  <1> QED  BY <1>8, <1>9

\* So a proposal keeps the invariant.
LEMMA DistrictMergeSplitPreserves ==
    ASSUME RemainderInv, SMD!MergeSplit
    PROVE  RemainderInv'
  BY DistrictMergeSplitKeepsSizes DEF SMD!MergeSplit, SMD!tableVars, RemainderInv, PlanOfOneRemainder, SMD!RemainderId, SMD!OneSeatCuts, SMD!Sizes

\* Every other step keeps the sizes, and sets the table of cuts to what it was.
LEMMA DistrictStepPreserves ==
    ASSUME RemainderInv, [SMD!Next]_SMD!vars, diagnostic_mode = FALSE
    PROVE  RemainderInv'
  <1>1. ASSUME UNCHANGED <<num_regions, region_sizes>>,
               smaller_cut_sizes' \in {smaller_cut_sizes, SMD!OneSeatCuts}
        PROVE  RemainderInv'
    BY <1>1 DEF RemainderInv, PlanOfOneRemainder, SMD!RemainderId, SMD!OneSeatCuts, SMD!Sizes
  <1>2. CASE SMD!set_potential_cut_sizes_for_each_valid_size
    BY <1>1, <1>2 DEF SMD!set_potential_cut_sizes_for_each_valid_size, SMD!RoundTables, SMD!planVars
  <1>3. CASE SMD!Split
    BY <1>3, DistrictSplitPreserves
  <1>4. CASE SMD!ComputeWeights
    BY <1>1, <1>4 DEF SMD!ComputeWeights, SMD!planVars, SMD!tableVars
  <1>5. CASE SMD!update_cut_sizes_for_mergesplit_step
    BY <1>1, <1>5 DEF SMD!update_cut_sizes_for_mergesplit_step, SMD!planVars, SMD!tableVars
  <1>6. CASE SMD!MergeSplit
    BY <1>6, DistrictMergeSplitPreserves
  <1>7. CASE SMD!EndMergeSplit
    BY <1>1, <1>7 DEF SMD!EndMergeSplit, SMD!planVars, SMD!tableVars
  <1>8. CASE SMD!EndOfStep
    BY <1>1, <1>8 DEF SMD!EndOfStep, SMD!EndStep, SMD!planVars, SMD!tableVars
  <1>9. CASE SMD!EndOfRun
    BY <1>1, <1>9 DEF SMD!EndOfRun, SMD!Finish, SMD!planVars, SMD!tableVars
  <1>10. CASE SMD!ContinueWithPlan
    BY <1>1, <1>10 DEF SMD!ContinueWithPlan, SMD!ContinueRun, SMD!RoundTables
  <1>11. CASE SMD!Stopped \/ UNCHANGED SMD!vars
    BY <1>1, <1>11 DEF SMD!Stopped, SMD!vars, SMD!planVars, SMD!tableVars
  <1> QED  BY <1>2, <1>3, <1>4, <1>5, <1>6, <1>7, <1>8, <1>9, <1>10, <1>11 DEF SMD!Next

\* The blank map is one region, the remainder.
LEMMA DistrictInitEstablishes ==
    ASSUME SMD!Init
    PROVE  RemainderInv
  BY DistrictFacts DEF SMD!Init, SMD!BlankPlan, RemainderInv, PlanOfOneRemainder, SMD!RemainderId, SMD!Ids

\* "The remainder region is always the highest id", for every number of
\* districts, splits and proposals, in runs that do not relabel plans between
\* rounds (TLC shows that relabelling after a merge-split round breaks it).
THEOREM LastIdIsTheRemainder ==
    ASSUME diagnostic_mode = FALSE
    PROVE  SMD!Spec => []RemainderIsLast
  <1>1. SMD!Init => RemainderInv
    BY DistrictInitEstablishes
  <1>2. RemainderInv /\ [SMD!Next]_SMD!vars => RemainderInv'
    BY DistrictStepPreserves
  <1>3. RemainderInv => RemainderIsLast
    <2> SUFFICES ASSUME RemainderInv, NEW r \in Regions \ {RemainderId}
                 PROVE  region_sizes[r] = 1
      BY DEF RemainderIsLast
    <2>1. r \in 0 .. num_regions - 2
      BY DistrictFacts DEF RemainderInv, PlanOfOneRemainder, Regions, RemainderId
    <2> QED  BY <2>1 DEF RemainderInv, PlanOfOneRemainder
  <1> QED  BY <1>1, <1>2, <1>3, PTL DEF SMD!Spec
-----------------------------------------------------------------------------
(* The district only schedule implements SeatAllocation. *)

\* What SeatAllocation sees is a tally.
LEMMA DistrictSizesTallied == SMD!RegionsOfSize = Tally(region_sizes, SMD!Regions, SMD!Sizes)
  BY DEF SMD!RegionsOfSize, Tally, SMD!Cardinality, Cardinality

\* The regions are finitely many, each of a size SeatAllocation knows.
LEMMA DistrictRegionFacts ==
    ASSUME PlanOfOneRemainder
    PROVE  /\ IsFiniteSet(SMD!Regions) /\ IsFiniteSet(SMD!Sizes) /\ SMD!Regions \subseteq SMD!Ids
           /\ num_regions \in Nat /\ 1 <= num_regions /\ num_regions <= ndists
           /\ \A r \in SMD!Regions : region_sizes[r] \in SMD!Sizes /\ region_sizes[r] \in Int
  <1>1. /\ num_regions \in Nat /\ 1 <= num_regions /\ num_regions <= ndists
        /\ region_sizes[num_regions - 1] = ndists - num_regions + 1
        /\ \A r \in 0 .. num_regions - 2 : region_sizes[r] = 1
    BY DistrictFacts DEF PlanOfOneRemainder, SMD!RemainderId
  <1>2. IsFiniteSet(0 .. num_regions - 1) /\ IsFiniteSet(1 .. total_seats)
    <2>1. num_regions - 1 \in Int /\ 0 \in Int /\ 1 \in Int /\ total_seats \in Int
      BY <1>1, DistrictFacts
    <2> QED  BY <2>1, FS_Interval
  <1>3. \A r \in SMD!Regions : r = num_regions - 1 \/ r \in 0 .. num_regions - 2
    BY <1>1 DEF SMD!Regions
  <1>4. \A r \in SMD!Regions : region_sizes[r] \in SMD!Sizes /\ region_sizes[r] \in Int
    BY <1>1, <1>3, DistrictFacts DEF SMD!Sizes
  <1>5. SMD!Regions \subseteq SMD!Ids
    BY <1>1, DistrictFacts DEF SMD!Regions, SMD!Ids
  <1> QED  BY <1>1, <1>2, <1>4, <1>5 DEF SMD!Regions, SMD!Sizes

\* The districts and the remainder have the seats of the map.
LEMMA DistrictSeatsAddUp ==
    ASSUME PlanOfOneRemainder
    PROVE  Total(region_sizes, SMD!Regions) = ndists
  <1> DEFINE last == num_regions - 1
  <1>1. /\ num_regions \in Nat /\ 1 <= num_regions /\ num_regions <= ndists
        /\ region_sizes[last] = ndists - num_regions + 1
        /\ \A r \in 0 .. last - 1 : region_sizes[r] = 1
    BY DistrictFacts DEF PlanOfOneRemainder, SMD!RemainderId
  <1>2. last \in Nat /\ SMD!Regions = (0 .. last - 1) \cup {last} /\ last \notin 0 .. last - 1
    BY <1>1 DEF SMD!Regions
  <1> DEFINE own == [r \in 0 .. last |-> r]
  <1>3. Total(region_sizes, 0 .. last - 1) = last
    <2>1. /\ \A r \in 0 .. last : own[r] \in Int
          /\ \A r \in 0 .. last - 1 : region_sizes[r] = own[r + 1] - own[r]
          /\ own[last] = last /\ own[0] = 0
      BY <1>1, <1>2
    <2> HIDE DEF own, last
    <2>2. Total(region_sizes, 0 .. last - 1) = own[last] - own[0]
      BY <1>2, <2>1, TotalOfGaps
    <2> QED  BY <1>2, <2>1, <2>2
  <1>4. IsFiniteSet(0 .. last - 1) /\ \A r \in 0 .. last - 1 : region_sizes[r] \in Int
    <2>1. 0 \in Int /\ last - 1 \in Int
      BY <1>2
    <2>2. IsFiniteSet(0 .. last - 1)
      BY <2>1, FS_Interval
    <2>3. \A r \in 0 .. last - 1 : region_sizes[r] \in Int
      BY <1>1
    <2> QED  BY <2>2, <2>3
  <1>5. region_sizes[last] \in Int
    BY <1>1, DistrictFacts
  <1>6. Total(region_sizes, (0 .. last - 1) \cup {last}) = Total(region_sizes, 0 .. last - 1) + region_sizes[last]
    <2> HIDE DEF last
    <2> QED  BY <1>2, <1>4, <1>5, TotalAdd
  <1> QED  BY <1>1, <1>2, <1>3, <1>6, DistrictFacts

\* What SeatAllocation adds up size by size is what the regions add up to.
LEMMA DistrictSumOverRegions ==
    ASSUME PlanOfOneRemainder, NEW w, \A s \in SMD!Sizes : w[s] = s
    PROVE  SMD!Promise!OverRegions(w) = ndists
  <1>1. \A s \in SMD!Sizes : w[s] \in Int
    BY DistrictFacts DEF SMD!Sizes
  <1> DEFINE bag == SMD!RegionsOfSize
             f == [s \in SMD!Sizes |-> bag[s] * w[s]]
             each == [r \in SMD!Regions |-> w[region_sizes[r]]]
  <1>2. SMD!Promise!OverRegions(w) = Total(f, SMD!Sizes)
    BY DEF SMD!Promise!OverRegions, SMD!Promise!Total, SMD!Promise!Sizes, Total, SMD!Sizes, MapThenSumSet, MapThenFoldSet,
           SMD!Promise!MapThenSumSet, SMD!Promise!MapThenFoldSet
  <1>3. f = [v \in SMD!Sizes |-> Tally(region_sizes, SMD!Regions, SMD!Sizes)[v] * w[v]]
    BY DistrictSizesTallied
  <1> HIDE DEF f
  <1>4. Total([v \in SMD!Sizes |-> Tally(region_sizes, SMD!Regions, SMD!Sizes)[v] * w[v]], SMD!Sizes) = Total(each, SMD!Regions)
    BY <1>1, DistrictRegionFacts, TallyTotal
  <1>5. Total(each, SMD!Regions) = Total(region_sizes, SMD!Regions)
    <2>1. \A r \in SMD!Regions : region_sizes[r] \in Int /\ each[r] = region_sizes[r]
      BY DistrictRegionFacts
    <2> HIDE DEF each
    <2> QED  BY <2>1, DistrictRegionFacts, TotalSame
  <1> QED  BY <1>2, <1>3, <1>4, <1>5, DistrictSeatsAddUp, Zenon

\* One remainder and districts make as many districts as there are seats.
LEMMA RemainderCompletable ==
    ASSUME PlanOfOneRemainder
    PROVE  SMD!Promise!Completable
  <1>1. \A s \in SMD!Sizes : s \in Int /\ SMD!Promise!FewestDistricts(s) = s /\ SMD!Promise!MostDistricts(s) = s
    BY DistrictFacts DEF SMD!Promise!FewestDistricts, SMD!Promise!MostDistricts, SMD!Sizes
  <1> DEFINE few == [s \in SMD!Sizes |-> SMD!Promise!FewestDistricts(s)]
             most == [s \in SMD!Sizes |-> SMD!Promise!MostDistricts(s)]
             same == [s \in SMD!Sizes |-> s]
  <1>2. (\A s \in SMD!Sizes : few[s] = s) /\ (\A s \in SMD!Sizes : most[s] = s) /\ (\A s \in SMD!Sizes : same[s] = s)
    BY <1>1
  <1>3. SMD!Promise!Completable <=>
          /\ SMD!Promise!OverRegions(same) = total_seats
          /\ \A s \in SMD!Sizes : SMD!RegionsOfSize[s] > 0 => SMD!Promise!FewestDistricts(s) <= SMD!Promise!MostDistricts(s)
          /\ SMD!Promise!OverRegions(few) <= ndists
          /\ ndists <= SMD!Promise!OverRegions(most)
    <2>1. SMD!Sizes = SMD!Promise!Sizes
      BY DEF SMD!Sizes, SMD!Promise!Sizes
    <2> QED  BY <2>1 DEF SMD!Promise!Completable
  <1> HIDE DEF few, most, same
  <1>4. SMD!Promise!OverRegions(same) = ndists /\ SMD!Promise!OverRegions(few) = ndists /\ SMD!Promise!OverRegions(most) = ndists
    BY <1>2, DistrictSumOverRegions
  <1> QED  BY <1>1, <1>3, <1>4, DistrictFacts

\* The same of the next plan.
LEMMA RemainderCompletableNext == PlanOfOneRemainder' => SMD!Promise!Completable'
  <1>1. PlanOfOneRemainder => SMD!Promise!Completable
    BY RemainderCompletable
  <1> QED  BY <1>1, PTL

\* A split divides the remainder.
LEMMA DistrictSplitDivides ==
    ASSUME RemainderInv, SMD!Split
    PROVE  SMD!Promise!Divide
  <1> DEFINE last == num_regions - 1
             size == region_sizes[last]
  <1>1. PICK smaller \in smaller_cut_sizes[size] : SMD!SplitRegion(last, smaller)
    BY DEF SMD!Split, SMD!RemainderId
  <1>2. /\ IsFiniteSet(SMD!Regions) /\ num_regions \in Nat /\ 1 <= num_regions /\ num_regions <= ndists
        /\ last \in SMD!Regions /\ num_regions \notin SMD!Regions /\ SMD!Regions' = SMD!Regions \cup {num_regions}
        /\ size \in SMD!Sizes /\ SMD!Regions \subseteq SMD!Ids
    BY <1>1, DistrictRegionFacts DEF RemainderInv, SMD!SplitRegion, SMD!Regions
  <1>3. smaller = 1 /\ size >= 2 /\ size \in 1 .. ndists
    BY <1>1, <1>2, OneSeatIsCutOff, DistrictFacts DEF RemainderInv, SMD!Sizes
  <1>4. num_regions < ndists /\ num_regions \in SMD!Ids
    <2>1. size = ndists - num_regions + 1
      BY DEF RemainderInv, PlanOfOneRemainder, SMD!RemainderId
    <2> QED  BY <1>2, <1>3, <2>1, DistrictFacts DEF SMD!Ids
  <1> DEFINE g == region_sizes'
  <1>5. /\ g[last] = 1 /\ g[num_regions] = size - 1
        /\ \A r \in SMD!Regions \ {last} : g[r] = region_sizes[r]
    <2>1. /\ region_sizes \in [SMD!Ids -> 0 .. total_seats]
          /\ g = [region_sizes EXCEPT ![last] = 1, ![num_regions] = size - 1]
      BY <1>1, <1>3 DEF RemainderInv, PlanOfOneRemainder, SMD!SplitRegion, SMD!update_region_info_from_cut
    <2>2. last \in SMD!Ids /\ last # num_regions
      BY <1>2
    <2> HIDE DEF g, last, size
    <2> QED  BY <1>2, <1>4, <2>1, <2>2
  <1>6. 1 \in SMD!Sizes /\ size - 1 \in SMD!Sizes /\ 1 \in 1 .. size - 1
    BY <1>3, DistrictFacts DEF SMD!Sizes
  <1>7. SMD!RegionsOfSize = Tally(region_sizes, SMD!Regions, SMD!Sizes) /\ SMD!RegionsOfSize' = Tally(g, SMD!Regions \cup {num_regions}, SMD!Sizes)
    BY <1>2, DistrictSizesTallied DEF SMD!RegionsOfSize, Tally, SMD!Sizes, SMD!Cardinality, Cardinality
  <1>8. SMD!Promise!Completable'
    <2>1. PlanOfOneRemainder'
      BY DistrictSplitPreserves DEF RemainderInv
    <2> QED  BY <2>1, RemainderCompletableNext
  <1>9. /\ SMD!RegionsOfSize[size] > 0
        /\ SMD!RegionsOfSize' = OneMore(OneMore(OneLess(SMD!RegionsOfSize, size), 1), size - 1)
    <2> DEFINE S == SMD!Regions
               sizes == SMD!Sizes
    <2>1. region_sizes[last] \in sizes /\ g[last] \in sizes /\ g[num_regions] \in sizes
      BY <1>2, <1>5, <1>6
    <2>2. /\ \A x \in S \ {last} : g[x] = region_sizes[x]
          /\ IsFiniteSet(S) /\ last \in S /\ num_regions \notin S
      BY <1>2, <1>5
    <2> HIDE DEF g, last, S, sizes
    <2>4. /\ Tally(region_sizes, S, sizes)[region_sizes[last]] > 0
          /\ Tally(g, S \cup {num_regions}, sizes) =
                OneMore(OneMore(OneLess(Tally(region_sizes, S, sizes), region_sizes[last]), g[last]), g[num_regions])
      BY <2>1, <2>2, TallyOfCut
    <2>3. /\ Tally(region_sizes, SMD!Regions, SMD!Sizes)[region_sizes[last]] > 0
          /\ Tally(g, SMD!Regions \cup {num_regions}, SMD!Sizes) =
                OneMore(OneMore(OneLess(Tally(region_sizes, SMD!Regions, SMD!Sizes), region_sizes[last]), g[last]), g[num_regions])
      BY <2>4 DEF S, sizes
    <2> QED  BY <1>5, <1>7, <2>3 DEF size
  <1>10. size \in SMD!Promise!Sizes
    BY <1>2 DEF SMD!Sizes, SMD!Promise!Sizes
  <1> HIDE DEF size
  <1> QED  BY <1>6, <1>8, <1>9, <1>10 DEF SMD!Promise!Divide, SMD!Promise!Add, SMD!Promise!Remove, OneMore, OneLess

\* Every other step leaves the sizes of the regions alone, a merge-split proposal too.
LEMMA DistrictOthersKeepSizes ==
    ASSUME RemainderInv, [SMD!Next]_SMD!vars, ~SMD!Split, diagnostic_mode = FALSE
    PROVE  SMD!RegionsOfSize' = SMD!RegionsOfSize
  <1>1. ASSUME UNCHANGED <<num_regions, region_sizes>>
        PROVE  SMD!RegionsOfSize' = SMD!RegionsOfSize
    BY <1>1 DEF SMD!RegionsOfSize, SMD!Regions, SMD!Sizes
  <1>2. CASE SMD!set_potential_cut_sizes_for_each_valid_size
    BY <1>1, <1>2 DEF SMD!set_potential_cut_sizes_for_each_valid_size, SMD!planVars
  <1>3. CASE SMD!ComputeWeights \/ SMD!EndMergeSplit
    BY <1>1, <1>3 DEF SMD!ComputeWeights, SMD!EndMergeSplit, SMD!planVars
  <1>4. CASE SMD!update_cut_sizes_for_mergesplit_step
    BY <1>1, <1>4 DEF SMD!update_cut_sizes_for_mergesplit_step, SMD!planVars
  <1>5. CASE SMD!MergeSplit
    BY <1>1, <1>5, DistrictMergeSplitKeepsSizes
  <1>6. CASE SMD!EndOfStep \/ SMD!EndOfRun
    BY <1>1, <1>6 DEF SMD!EndOfStep, SMD!EndStep, SMD!EndOfRun, SMD!Finish, SMD!planVars
  <1>7. CASE SMD!ContinueWithPlan
    BY <1>1, <1>7 DEF SMD!ContinueWithPlan, SMD!ContinueRun
  <1>8. CASE SMD!Stopped \/ UNCHANGED SMD!vars
    BY <1>1, <1>8 DEF SMD!Stopped, SMD!vars, SMD!planVars
  <1> QED  BY <1>2, <1>3, <1>4, <1>5, <1>6, <1>7, <1>8 DEF SMD!Next

\* The district only schedule implements SeatAllocation, for every number of districts:
\* what a run of it does to the sizes is to divide one region after another, and no plan
\* on the way has regions that cannot become the districts that are to be made.
THEOREM DistrictPlansStayCompletable ==
    ASSUME diagnostic_mode = FALSE
    PROVE  SMD!Spec => SMD!KeepsPlanCompletable
  <1>1. SMD!Init => RemainderInv /\ SMD!Promise!Init
    <2>1. RemainderInv => SMD!Promise!Init
      BY RemainderCompletable DEF RemainderInv, SMD!Promise!Init
    <2> QED  BY <2>1, DistrictInitEstablishes
  <1>2. RemainderInv /\ [SMD!Next]_SMD!vars => RemainderInv'
    BY DistrictStepPreserves
  <1>3. RemainderInv /\ [SMD!Next]_SMD!vars => [SMD!Promise!Divide \/ SMD!Promise!Recombine]_SMD!RegionsOfSize
    <2>1. RemainderInv /\ SMD!Split => SMD!Promise!Divide
      BY DistrictSplitDivides
    <2>2. RemainderInv /\ [SMD!Next]_SMD!vars /\ ~SMD!Split => SMD!RegionsOfSize' = SMD!RegionsOfSize
      BY DistrictOthersKeepSizes
    <2> QED  BY <2>1, <2>2
  <1> QED  BY <1>1, <1>2, <1>3, PTL DEF SMD!Spec, SMD!KeepsPlanCompletable, SMD!Promise!Spec
=============================================================================
