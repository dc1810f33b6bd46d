--------------------------- MODULE AnyRegionSMD ---------------------------
(***************************************************************************)
(* One lineage of redist_smc under AnyRegionSMDSplittingSchedule: single   *)
(* member districts, any region of two or more seats may be split anywhere.*)
(***************************************************************************)
EXTENDS SplittingSchedule

ASSUME SMDAssumption == total_seats = ndists /\ district_seat_sizes = {1}

vars == <<planVars, tableVars, roundVars>>

\* The constructor fixes the cut sizes once: every smaller half of a region.
AnyCuts == [s \in Sizes |-> 1 .. (s \div 2)]

\* No region can be bigger than what the other k - 1 districts leave over.
BiggestSize(k) == ndists - k + 1

\* A slip of the next definition: the biggest region cannot have been split.
MergePairsBelow(biggest) ==
    {pair \in (1 .. biggest - 1) \X (1 .. biggest - 1) : pair[1] + pair[2] < biggest}

MergePairs(biggest) ==
    {pair \in (1 .. biggest - 1) \X (1 .. biggest - 1) : pair[1] + pair[2] <= biggest}

set_potential_cut_sizes_for_each_valid_size ==
    /\ MayBeginSMC
    /\ valid_region_sizes_to_split' = 2 .. BiggestSize(num_regions)
    /\ valid_merge_pair_sizes' = MergePairs(BiggestSize(num_regions))
    /\ round' = "smc"
    /\ UNCHANGED <<smaller_cut_sizes, planVars, smc_rounds, ms_rounds>>

\* The tables of the last split already allow every move of a merge-split round.
update_cut_sizes_for_mergesplit_step ==
    /\ MayBeginMergeSplit
    /\ round' = "ms"
    /\ ms_rounds' = 1
    /\ UNCHANGED <<tableVars, planVars, smc_rounds>>

region_is_splittable(r) == region_sizes[r] \in valid_region_sizes_to_split

is_valid_merge_pair(region1_id, region2_id) ==
    <<region_sizes[region1_id], region_sizes[region2_id]>> \in valid_merge_pair_sizes

merged_region_cut_sizes(region1_id, region2_id) ==
    smaller_cut_sizes[region_sizes[region1_id] + region_sizes[region2_id]]

\* The regions log_merged_region_selection_prob weighs the merged region
\* against; in the last round the weights do not ask for it.
merged_region_rivals(region1_id, region2_id) ==
    IF num_regions = ndists THEN {}
    ELSE {q \in Regions \ {region1_id, region2_id} : region_is_splittable(q)}

\* choose_multidistrict_to_split throws when no region qualifies: then no step is left.
choose_multidistrict_to_split == {r \in Regions : region_is_splittable(r)}

SplitAt(r) ==
    /\ r \in choose_multidistrict_to_split
    /\ \E smaller \in smaller_cut_sizes[region_sizes[r]] : SplitRegion(r, smaller)
    /\ UNCHANGED tableVars

Split == \E r \in Regions : SplitAt(r)

ResplitAt(r1, r2) ==
    /\ r1 < r2
    /\ is_valid_merge_pair(r1, r2)
    /\ \E smaller \in merged_region_cut_sizes(r1, r2) : ResplitPair(r1, r2, smaller)
    /\ UNCHANGED tableVars

MergeSplit == \E r1, r2 \in Regions : ResplitAt(r1, r2)

EndOfStep == EndStep(diagnostic_mode)
EndOfRun  == Finish(~diagnostic_mode)

Stopped == round = "done" /\ UNCHANGED vars

\* A partial plan may hold any sizes that add up; seats of k regions are laid
\* out as the gaps between k - 1 marks.
Compositions(k) ==
    LET marks == {m \in [0 .. k -> 0 .. total_seats] :
                    /\ m[0] = 0 /\ m[k] = total_seats
                    /\ \A r \in 0 .. k - 1 : m[r] < m[r + 1]}
    IN  {[r \in Ids |-> IF r < k THEN m[r + 1] - m[r] ELSE 0] : m \in marks}

Init ==
    /\ \/ /\ BlankPlan
          /\ valid_region_sizes_to_split = {}
          /\ valid_merge_pair_sizes = {}
       \/ \E k \in 2 .. ndists - 1 : \E sizes \in Compositions(k) :
             /\ PartialPlan(k, sizes)
             /\ valid_region_sizes_to_split = 2 .. BiggestSize(k - 1)
             /\ valid_merge_pair_sizes = MergePairs(BiggestSize(k - 1))
    /\ smaller_cut_sizes = AnyCuts
    /\ round = "begin" /\ smc_rounds = 0 /\ ms_rounds = 0

Next ==
    \/ set_potential_cut_sizes_for_each_valid_size
    \/ Split
    \/ ComputeWeights
    \/ update_cut_sizes_for_mergesplit_step
    \/ MergeSplit
    \/ EndMergeSplit
    \/ EndOfStep
    \/ EndOfRun
    \/ Stopped

Spec == Init /\ [][Next]_vars

-----------------------------------------------------------------------------
\* The regions of the plan with r1 and r2 merged that the split could have picked.
PickableIfMerged(r1, r2) ==
    {r \in 0 .. num_regions - 2 : MergedSizes(r1, r2)[r] \in valid_region_sizes_to_split}

\* The round's split could have made r1 and r2 out of the region they merge to.
SplitCouldMake(r1, r2) ==
    LET merged_size == MergedSizes(r1, r2)[r1]
        smaller     == IF region_sizes[r1] <= region_sizes[r2] THEN region_sizes[r1] ELSE region_sizes[r2]
    IN  r1 \in PickableIfMerged(r1, r2) /\ smaller \in smaller_cut_sizes[merged_size]

\* The sum in an incremental weight is over the plans this one may have been
\* split from: the pair just split is one it merges ("no viable ancestors"
\* is thrown without any), it merges a pair exactly if the schedule could have
\* split the merged plan into this one, and it weighs the merged region against
\* exactly the others that could have been picked there.
WeightsSumOverAncestors ==
    round = "weigh" =>
        /\ LET made == get_most_recently_split_regions IN is_valid_merge_pair(made[1], made[2])
        /\ \A r1, r2 \in Regions : r1 < r2 =>
              /\ is_valid_merge_pair(r1, r2) <=> SplitCouldMake(r1, r2)
              /\ is_valid_merge_pair(r1, r2) =>
                    PickableIfMerged(r1, r2) =
                        {r1} \cup {MergedId(r2, q) : q \in merged_region_rivals(r1, r2)}

\* The plan as a bag of sizes, each district of one seat.
Promise == INSTANCE SeatAllocation WITH
               smallest_district_size <- 1,
               largest_district_size <- 1,
               regions_of_size <- RegionsOfSize

\* Every step of the any region schedule splits one region, trades seats
\* between two, or leaves the sizes alone up to the names of the regions, and never
\* leaves a plan that cannot be completed: the lineage implements SeatAllocation.
KeepsPlanCompletable == Promise!Spec
=============================================================================
