-------------------------- MODULE DistrictOnlySMD --------------------------
(***************************************************************************)
(* One lineage of redist_smc under DistrictOnlySplittingSchedule: single   *)
(* member districts, one district split off the remainder at each SMC      *)
(* round, merge-split rounds in between.                                   *)
(***************************************************************************)
EXTENDS SplittingSchedule

ASSUME SMDAssumption == total_seats = ndists /\ district_seat_sizes = {1}

vars == <<planVars, tableVars, roundVars>>

\* The constructor fixes the cut sizes once: one seat off any region of two or more.
OneSeatCuts == [s \in Sizes |-> IF s >= 2 THEN {1} ELSE {}]

\* The tables of an SMC round that starts from k regions: the remainder is
\* all but the k - 1 districts, and merging undoes exactly such a split.
RoundTables(k) ==
    LET remainder == ndists - k + 1
    IN  /\ valid_region_sizes_to_split' = {remainder}
        /\ valid_merge_pair_sizes' = {<<1, remainder - 1>>, <<remainder - 1, 1>>}
        /\ smaller_cut_sizes' = OneSeatCuts

set_potential_cut_sizes_for_each_valid_size ==
    /\ MayBeginSMC
    /\ RoundTables(num_regions)
    /\ round' = "smc"
    /\ UNCHANGED <<planVars, smc_rounds, ms_rounds>>

update_cut_sizes_for_mergesplit_step ==
    /\ MayBeginMergeSplit
    /\ round' = "ms"
    /\ ms_rounds' = 1
    /\ IF num_regions = 2
       THEN UNCHANGED tableVars
       ELSE /\ valid_merge_pair_sizes' = valid_merge_pair_sizes \cup {<<1, 1>>}
            /\ valid_region_sizes_to_split' = valid_region_sizes_to_split \cup {2}
            /\ UNCHANGED smaller_cut_sizes
    /\ UNCHANGED <<planVars, smc_rounds>>

is_valid_merge_pair(region1_id, region2_id) ==
    <<region_sizes[region1_id], region_sizes[region2_id]>> \in valid_merge_pair_sizes

merged_region_cut_sizes(region1_id, region2_id) ==
    smaller_cut_sizes[region_sizes[region1_id] + region_sizes[region2_id]]

Split ==
    /\ \E smaller \in smaller_cut_sizes[region_sizes[RemainderId]] :
          SplitRegion(RemainderId, smaller)
    /\ UNCHANGED tableVars

MergeSplit ==
    /\ \E r1, r2 \in Regions :
          /\ r1 < r2
          /\ is_valid_merge_pair(r1, r2)
          /\ \E smaller \in merged_region_cut_sizes(r1, r2) : ResplitPair(r1, r2, smaller)
    /\ UNCHANGED tableVars

\* Diagnostics relabel the plan only once a merge-split round has been run,
\* and the end of the run never does.
EndOfStep == EndStep(diagnostic_mode /\ ms_rounds > 0)
EndOfRun  == Finish(FALSE)

Stopped == round = "done" /\ UNCHANGED vars

ContinueWithPlan ==
    /\ ContinueRun
    /\ RoundTables(num_regions - 1)
    /\ round' = "begin"

\* The first run starts from the blank map; a partial plan comes from a run of
\* the same kind.
Init ==
    /\ BlankPlan
    /\ smaller_cut_sizes = OneSeatCuts
    /\ valid_region_sizes_to_split = {}
    /\ valid_merge_pair_sizes = {}
    /\ round = "begin" /\ smc_rounds = 0 /\ ms_rounds = 0

Next ==
    \/ set_potential_cut_sizes_for_each_valid_size
    \/ Split
    \/ ComputeWeights
    \/ update_cut_sizes_for_mergesplit_step
    \/ MergeSplit
    \/ EndMergeSplit
    \/ EndOfStep
    \/ EndOfRun
    \/ ContinueWithPlan
    \/ Stopped

Spec == Init /\ [][Next]_vars

-----------------------------------------------------------------------------
\* The plan as a bag of sizes, each district of one seat.
Promise == INSTANCE SeatAllocation WITH
               smallest_district_size <- 1,
               largest_district_size <- 1,
               regions_of_size <- RegionsOfSize

\* Every step of the district only schedule splits one region or leaves the
\* sizes alone, and never leaves a plan that cannot be completed: the lineage
\* implements SeatAllocation.
KeepsPlanCompletable == Promise!Spec
=============================================================================
