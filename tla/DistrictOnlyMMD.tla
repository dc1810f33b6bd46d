-------------------------- MODULE DistrictOnlyMMD --------------------------
(***************************************************************************)
(* One lineage of redist_smc under DistrictOnlyMMDSplittingSchedule: multi *)
(* member districts whose sizes are a range, one district split off at a   *)
(* time.  A district of one size may itself be a sum of smaller districts, *)
(* so which region is the remainder can depend on the rest of the plan.    *)
(***************************************************************************)
EXTENDS SplittingSchedule

CONSTANTS
    smallest_district_size,
    largest_district_size,
    supposedly_safe_input_checks \* perf_config: check the initial plans (off as shipped)

\* What the constructors of the schedule throw on, negated.
ASSUME MMDAssumption ==
    /\ smallest_district_size \in Nat \ {0}
    /\ largest_district_size \in Nat
    /\ district_seat_sizes = smallest_district_size .. largest_district_size
    /\ largest_district_size < total_seats
    /\ ndists * smallest_district_size <= total_seats
    /\ total_seats <= ndists * largest_district_size
    /\ supposedly_safe_input_checks \in BOOLEAN

VARIABLES
    mergesplit_district_pairs, \* two districts may be merged and resplit
    current_ctx,               \* non_district_region of the merge-split round's context, or -1
    checked,                   \* regions check_initial_plan has looked at
    seat_sum                   \* its running sum of their seats

mmdVars == <<mergesplit_district_pairs, current_ctx>>
checkVars == <<checked, seat_sum>>
vars == <<planVars, tableVars, roundVars, mmdVars, checkVars>>

\* num_districts districts can hold region_size seats.
is_sum_of(region_size, num_districts) ==
    /\ num_districts * smallest_district_size <= region_size
    /\ region_size <= num_districts * largest_district_size

MinOf(a, b) == IF a <= b THEN a ELSE b

\* Some district size is a sum of two others.
plan_context_needed == largest_district_size >= 2 * smallest_district_size

-----------------------------------------------------------------------------
(* The size tables. *)

\* With k regions, k - 1 of them districts, the remainder must hold the
\* other ndists - k + 1 districts and the districts the other seats.
PossibleRemainder(size, k) ==
    /\ is_sum_of(size, ndists - k + 1)
    /\ is_sum_of(total_seats - size, k - 1)

\* Slips of the next definition: any number of seats may go, what is left is
\* not looked at, or is asked to hold one district too many.
SplitOffAnySize(size, k) == {d \in Sizes : d < size /\ is_sum_of(size - d, ndists - k)}

SplitOffAnyDistrict(size, k) == {d \in district_seat_sizes : d < size}

SplitOffTooFew(size, k) ==
    {d \in district_seat_sizes : d < size /\ is_sum_of(size - d, ndists - k + 1)}

\* The districts that can be split off it.
SplitOff(size, k) ==
    {d \in district_seat_sizes : d < size /\ is_sum_of(size - d, ndists - k)}

TableCuts(size, k) == {MinOf(d, size - d) : d \in SplitOff(size, k)}

TableSplits(k) == {s \in Sizes : PossibleRemainder(s, k) /\ SplitOff(s, k) # {}}

\* A slip of the next definition: the district comes first in a pair.
DistrictComesFirst(k) ==
    {pair \in Sizes \X Sizes :
        /\ PossibleRemainder(pair[1] + pair[2], k)
        /\ pair[1] \in SplitOff(pair[1] + pair[2], k)}

TableMerges(k) ==
    {pair \in Sizes \X Sizes :
        /\ PossibleRemainder(pair[1] + pair[2], k)
        /\ \/ pair[1] \in SplitOff(pair[1] + pair[2], k)
           \/ pair[2] \in SplitOff(pair[1] + pair[2], k)}

\* Only the lists of possible remainders are rebuilt; others keep what an
\* earlier round left in them.  Throws when no remainder size is possible.
set_potential_cut_sizes_for_each_valid_size ==
    /\ MayBeginSMC
    /\ \E s \in Sizes : PossibleRemainder(s, num_regions)
    /\ smaller_cut_sizes' = [s \in Sizes |-> IF PossibleRemainder(s, num_regions)
                                             THEN TableCuts(s, num_regions)
                                             ELSE smaller_cut_sizes[s]]
    /\ valid_region_sizes_to_split' = TableSplits(num_regions)
    /\ valid_merge_pair_sizes' = TableMerges(num_regions)
    /\ mergesplit_district_pairs' = FALSE
    /\ round' = "smc"
    /\ UNCHANGED <<planVars, smc_rounds, ms_rounds, current_ctx, checkVars>>

-----------------------------------------------------------------------------
(* The plan level queries, given the context built for the plan. *)

NonDistricts(sizes, k) == {r \in 0 .. k - 1 : ~is_district(sizes[r])}

\* build_context: the one region that is not district sized, or -1.  (With
\* two of them fill_context throws; AtMostOneNonDistrict says it never does.)
ContextOf(sizes, k) ==
    IF plan_context_needed /\ NonDistricts(sizes, k) # {}
    THEN CHOOSE r \in NonDistricts(sizes, k) : TRUE
    ELSE -1

region_is_splittable(ctx, r) ==
    /\ region_sizes[r] \in valid_region_sizes_to_split
    /\ ctx >= 0 => r = ctx

is_district_pair_merge(ctx, region1_id, region2_id) ==
    /\ mergesplit_district_pairs
    /\ is_district(region_sizes[region1_id])
    /\ is_district(region_sizes[region2_id])
    /\ IF plan_context_needed THEN ctx >= 0 ELSE num_regions < ndists

\* The ways two merged districts can be cut back into two districts.
district_pair_smaller_cut_sizes(merged_size) ==
    {MinOf(d, merged_size - d) :
        d \in {e \in district_seat_sizes : merged_size - e \in district_seat_sizes}}

merged_region_cut_sizes(ctx, region1_id, region2_id) ==
    LET merged_size == region_sizes[region1_id] + region_sizes[region2_id]
    IN  IF is_district_pair_merge(ctx, region1_id, region2_id)
        THEN district_pair_smaller_cut_sizes(merged_size)
        ELSE smaller_cut_sizes[merged_size]

is_valid_merge_pair(ctx, region1_id, region2_id) ==
    \/ is_district_pair_merge(ctx, region1_id, region2_id)
    \/ /\ <<region_sizes[region1_id], region_sizes[region2_id]>> \in valid_merge_pair_sizes
       /\ ctx < 0 \/ region1_id = ctx \/ region2_id = ctx

\* The regions log_merged_region_selection_prob weighs the merged region
\* against: a merged region that is no district was the only one to pick.
merged_region_rivals(region1_id, region2_id) ==
    IF plan_context_needed /\ ~is_district(region_sizes[region1_id] + region_sizes[region2_id])
    THEN {}
    ELSE {q \in Regions \ {region1_id, region2_id} : region_sizes[q] \in valid_region_sizes_to_split}

choose_multidistrict_to_split ==
    {r \in Regions : region_is_splittable(ContextOf(region_sizes, num_regions), r)}

-----------------------------------------------------------------------------
(* check_initial_plan, one region per step: the loop sums the seats, then a *)
(* plan that cannot be completed one district at a time is refused.         *)

CheckRegion ==
    /\ round = "check"
    /\ checked < num_regions
    /\ checked' = checked + 1
    /\ seat_sum' = seat_sum + region_sizes[checked]
    /\ UNCHANGED <<planVars, tableVars, roundVars, mmdVars>>

\* What is left of the checks once every region has been looked at.
CanBeCompleted ==
    LET remainder_ndists == ndists - num_regions + 1
        non_district == NonDistricts(region_sizes, num_regions)
    IN  /\ seat_sum = total_seats
        /\ Cardinality(non_district) <= 1
        /\ \E r \in IF non_district # {} THEN non_district ELSE Regions :
              is_sum_of(region_sizes[r], remainder_ndists)

CheckVerdict ==
    /\ round = "check"
    /\ checked = num_regions
    /\ round' = IF CanBeCompleted THEN "begin" ELSE "rejected"
    /\ UNCHANGED <<planVars, tableVars, smc_rounds, ms_rounds, mmdVars, checkVars>>

-----------------------------------------------------------------------------
(* The rounds. *)

update_cut_sizes_for_mergesplit_step ==
    /\ MayBeginMergeSplit
    /\ mergesplit_district_pairs' = TRUE
    /\ current_ctx' = ContextOf(region_sizes, num_regions)
    /\ round' = "ms"
    /\ ms_rounds' = 1
    /\ UNCHANGED <<planVars, tableVars, smc_rounds, checkVars>>

\* The context is rebuilt for the parent of every attempt.
Split ==
    /\ \E r \in choose_multidistrict_to_split :
          \E smaller \in smaller_cut_sizes[region_sizes[r]] : SplitRegion(r, smaller)
    /\ UNCHANGED <<tableVars, mmdVars, checkVars>>

Weigh == ComputeWeights /\ UNCHANGED <<mmdVars, checkVars>>

\* A slip of the next definition: the old context stays in use.
MergeSplitWithStaleContext ==
    /\ \E r1, r2 \in Regions :
          /\ r1 < r2
          /\ is_valid_merge_pair(current_ctx, r1, r2)
          /\ \E smaller \in merged_region_cut_sizes(current_ctx, r1, r2) :
                ResplitPair(r1, r2, smaller)
    /\ UNCHANGED <<tableVars, mmdVars, checkVars>>

\* The context built for an accepted proposal replaces the current one.
MergeSplit ==
    /\ \E r1, r2 \in Regions :
          /\ r1 < r2
          /\ is_valid_merge_pair(current_ctx, r1, r2)
          /\ \E smaller \in merged_region_cut_sizes(current_ctx, r1, r2) :
                ResplitPair(r1, r2, smaller)
    /\ current_ctx' = ContextOf(region_sizes', num_regions)
    /\ UNCHANGED <<tableVars, mergesplit_district_pairs, checkVars>>

EndOfMergeSplit == EndMergeSplit /\ UNCHANGED <<mmdVars, checkVars>>

EndOfStep == EndStep(diagnostic_mode) /\ UNCHANGED <<mmdVars, checkVars>>

EndOfRun == Finish(~diagnostic_mode) /\ UNCHANGED <<mmdVars, checkVars>>

Stopped == round \in {"done", "rejected"} /\ UNCHANGED vars

\* The tables of a schedule object built to continue from k regions.
BuiltCutSizes(k) ==
    [s \in Sizes |-> IF PossibleRemainder(s, k - 1) THEN TableCuts(s, k - 1) ELSE {}]

ContinueWithPlan ==
    /\ ContinueRun
    /\ smaller_cut_sizes' = BuiltCutSizes(num_regions)
    /\ valid_region_sizes_to_split' = TableSplits(num_regions - 1)
    /\ valid_merge_pair_sizes' = TableMerges(num_regions - 1)
    /\ mergesplit_district_pairs' = FALSE /\ current_ctx' = -1
    /\ checked' = 0 /\ seat_sum' = 0
    /\ round' = IF supposedly_safe_input_checks THEN "check" ELSE "begin"

InitFromBlank ==
    /\ BlankPlan
    /\ smaller_cut_sizes = [s \in Sizes |-> {}]
    /\ valid_region_sizes_to_split = {}
    /\ valid_merge_pair_sizes = {}
    /\ round = "begin"

\* A partial plan of the caller's making, with any seats at all, is only
\* given to a build that checks it.
InitFromPartial ==
    /\ supposedly_safe_input_checks
    /\ \E k \in 2 .. ndists - 1 :
        /\ \E sizes \in [0 .. k - 1 -> Sizes] :
              PartialPlan(k, [r \in Ids |-> IF r < k THEN sizes[r] ELSE 0])
        /\ smaller_cut_sizes = BuiltCutSizes(k)
        /\ valid_region_sizes_to_split = TableSplits(k - 1)
        /\ valid_merge_pair_sizes = TableMerges(k - 1)
        /\ round = "check"

Init ==
    /\ InitFromBlank \/ InitFromPartial
    /\ smc_rounds = 0 /\ ms_rounds = 0
    /\ mergesplit_district_pairs = FALSE /\ current_ctx = -1
    /\ checked = 0 /\ seat_sum = 0

Next ==
    \/ CheckRegion
    \/ CheckVerdict
    \/ set_potential_cut_sizes_for_each_valid_size
    \/ Split
    \/ Weigh
    \/ update_cut_sizes_for_mergesplit_step
    \/ MergeSplit
    \/ EndOfMergeSplit
    \/ EndOfStep
    \/ EndOfRun
    \/ ContinueWithPlan
    \/ Stopped

Spec == Init /\ [][Next]_vars


-----------------------------------------------------------------------------
TypeOK ==
    /\ BaseTypeOK
    /\ mergesplit_district_pairs \in BOOLEAN
    /\ current_ctx \in Ids \cup {-1}
    /\ checked \in 0 .. ndists
    /\ seat_sum \in Nat

Started == round \notin {"check", "rejected"}

\* "Every region of a finished plan must be an allowed district size.  The
\* splitting schedule should guarantee this": no sequence of splits and
\* merge-split proposals ends with ndists regions one of which is no district.
FinishedPlanAllDistricts ==
    (Started /\ num_regions = ndists) => \A r \in Regions : is_district(region_sizes[r])

\* fill_context never throws: a plan never holds two regions that are not
\* districts, so the remainder can be told from the sizes.
AtMostOneNonDistrict ==
    Started => Cardinality(NonDistricts(region_sizes, num_regions)) <= 1

\* No lineage runs into a dead end: the schedule sees a possible remainder size
\* (it throws otherwise), choose_multidistrict_to_split has a candidate (it
\* throws otherwise), and every candidate has a cut to look for.
AlwaysARegionToSplit ==
    /\ MayBeginSMC => \E s \in Sizes : PossibleRemainder(s, num_regions)
    /\ round = "smc" =>
          /\ choose_multidistrict_to_split # {}
          /\ \A r \in choose_multidistrict_to_split : smaller_cut_sizes[region_sizes[r]] # {}

\* The regions of the plan with r1 and r2 merged that the schedule would let be
\* picked, in the context it has for that plan.
PickableIfMerged(r1, r2) ==
    LET merged == MergedSizes(r1, r2)
        ctx    == ContextOf(merged, num_regions - 1)
    IN  {r \in 0 .. num_regions - 2 :
            /\ merged[r] \in valid_region_sizes_to_split
            /\ ctx >= 0 => r = ctx}

\* The round's split could have made r1 and r2 out of the region they merge to,
\* of a plan in which the remainder can be told.
SplitCouldMake(r1, r2) ==
    LET merged == MergedSizes(r1, r2)
    IN  /\ Cardinality(NonDistricts(merged, num_regions - 1)) <= 1
        /\ r1 \in PickableIfMerged(r1, r2)
        /\ MinOf(region_sizes[r1], region_sizes[r2]) \in smaller_cut_sizes[merged[r1]]

\* The sum in an incremental weight is over the plans this one may have been
\* split from: the pair just split is one it merges ("no viable ancestors"
\* is thrown without any), it merges a pair exactly if the schedule could have
\* split the merged plan into this one, and it weighs the merged region against
\* exactly the others that could have been picked there.
WeightsSumOverAncestors ==
    round = "weigh" =>
        LET ctx  == ContextOf(region_sizes, num_regions)
            made == get_most_recently_split_regions
        IN  /\ is_valid_merge_pair(ctx, made[1], made[2])
            /\ \A r1, r2 \in Regions : r1 < r2 =>
                  /\ is_valid_merge_pair(ctx, r1, r2) <=> SplitCouldMake(r1, r2)
                  /\ is_valid_merge_pair(ctx, r1, r2) =>
                        PickableIfMerged(r1, r2) =
                            {r1} \cup {MergedId(r2, q) : q \in merged_region_rivals(r1, r2)}

\* The ratio of an accepted proposal is taken against the move back: given the
\* context of the proposal, the same two ids are a pair to merge (otherwise
\* attempt_mergesplit_step throws) and the old cut is one of their cuts.
MergeSplitIsReversible ==
    [][\A r1, r2 \in Regions :
          (round = "ms" /\ r1 < r2 /\ region_added_order'[r1] > region_order_max
                                   /\ region_added_order'[r2] > region_order_max)
             => /\ is_valid_merge_pair(current_ctx, r1, r2)'
                /\ MinOf(region_sizes[r1], region_sizes[r2])
                        \in merged_region_cut_sizes(current_ctx, r1, r2)']_vars

\* The plan as a bag of sizes, with the range of districts of the schedule.
Promise == INSTANCE SeatAllocation WITH regions_of_size <- RegionsOfSize

\* Once a plan has passed the checks its lineage implements SeatAllocation: it adds up to
\* the seats of the map and can be completed into ndists districts, and a step
\* splits one region, trades seats between two, or leaves the sizes alone up to
\* the names of the regions.
KeepsPlanCompletable ==
    /\ [](Started => Promise!Completable)
    /\ [][Promise!Divide \/ Promise!Recombine]_RegionsOfSize

-----------------------------------------------------------------------------
(* The inductive invariant behind the invariants above. *)

\* r can be the remainder: it holds the districts still to be made, the other
\* regions hold as many seats as their number of districts can, and each of
\* them is a district already.
IsRemainder(r) ==
    /\ PossibleRemainder(region_sizes[r], num_regions)
    /\ \A q \in Regions \ {r} : is_district(region_sizes[q])

\* What check_initial_plan knows half way: were r the remainder, the regions
\* seen so far except r would be districts, and their seats a sum of districts.
SeenAddsUp(r) ==
    (\A q \in Regions \ {r} : q < checked => is_district(region_sizes[q]))
        => /\ r < checked => is_sum_of(seat_sum - region_sizes[r], checked - 1)
           /\ r >= checked => is_sum_of(seat_sum, checked)

\* The tables are those of the round that starts, or started, from k regions.
TablesAreFor(k) ==
    /\ valid_region_sizes_to_split = TableSplits(k)
    /\ valid_merge_pair_sizes = TableMerges(k)
    /\ \A s \in Sizes : PossibleRemainder(s, k) => smaller_cut_sizes[s] = TableCuts(s, k)

SeatsInv     == \A r \in Regions : region_sizes[r] \in Sizes
RemainderInv == Started => \E r \in Regions : IsRemainder(r)
CheckInv     == round = "check" => checked <= num_regions /\ \A r \in Regions : SeenAddsUp(r)
TablesInv    == /\ round = "smc" => TablesAreFor(num_regions)
                /\ (round # "smc" /\ num_regions >= 2) => TablesAreFor(num_regions - 1)
RoundInv     == /\ round = "smc" => num_regions < ndists
                /\ smc_rounds < num_regions
                /\ round = "weigh" => smc_rounds + 1 < num_regions
                /\ round = "ms" => /\ num_regions >= 2
                                   /\ mergesplit_district_pairs
                                   /\ current_ctx = ContextOf(region_sizes, num_regions)

\* The conjunction that every step preserves: while the loop runs a remainder
\* exists and the tables in use are those of the plan's number of regions.
IInv == TypeOK /\ SeatsInv /\ RemainderInv /\ CheckInv /\ TablesInv /\ RoundInv /\ StampsTellAge
=============================================================================
