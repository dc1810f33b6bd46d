------------------------- MODULE SplittingSchedule -------------------------
(***************************************************************************)
(* What every splitting schedule shares: the region-level state of one     *)
(* plan (base_plan_type), the size tables of the schedule object           *)
(* (splitting_schedule_types) and the rounds of the main loop of           *)
(* run_redist_smc (smc.cpp) that drive them.                               *)
(*                                                                         *)
(* The state follows one lineage of an ensemble: the plan of a particle,   *)
(* which a split copies from the parent it was sampled from.  The geometry *)
(* of the map is abstracted to what the tables can see, the seats of each  *)
(* region: any two regions may turn out to be adjacent, any cut the tables *)
(* allow may be the one the drawn tree offers, and a tree without a usable *)
(* cut, or a rejected proposal, changes nothing.                           *)
(***************************************************************************)
EXTENDS Integers, FiniteSets

CONSTANTS
    ndists,              \* districts of a finished plan
    total_seats,         \* seats of the whole map
    district_seat_sizes, \* the sizes a district may have
    diagnostic_mode,     \* redist_smc(diagnostics = "all"): reorder after every step
    MaxOrder             \* bound of the models: merge-split may not push stamps beyond it

ASSUME SeatAssumption ==
    /\ ndists \in Nat \ {0, 1}
    /\ total_seats \in Nat
    /\ ndists <= total_seats
    /\ district_seat_sizes \subseteq 1..total_seats
    /\ diagnostic_mode \in BOOLEAN
    /\ MaxOrder \in Nat

VARIABLES
    num_regions,                 \* Plan::num_regions
    region_sizes,                \* Plan::region_sizes, seats by region id
    region_added_order,          \* Plan::region_added_order, a stamp by region id
    region_order_max,            \* Plan::region_order_max, the last stamp given out
    smaller_cut_sizes,           \* all_regions_smaller_cut_sizes_to_try, by size
    valid_region_sizes_to_split, \* the sizes that may be split
    valid_merge_pair_sizes,      \* the pairs of sizes that may be merged
    round,                       \* where the main loop is
    smc_rounds,                  \* SMC rounds finished by this run
    ms_rounds                    \* merge-split rounds begun, capped at 1

planVars  == <<num_regions, region_sizes, region_added_order, region_order_max>>
tableVars == <<smaller_cut_sizes, valid_region_sizes_to_split, valid_merge_pair_sizes>>
roundVars == <<round, smc_rounds, ms_rounds>>

Ids     == 0 .. ndists - 1
Regions == 0 .. num_regions - 1
Sizes   == 1 .. total_seats

\* What SeatAllocation sees of a plan.
RegionsOfSize == [s \in Sizes |-> Cardinality({r \in Regions : region_sizes[r] = s})]

is_district(size) == size \in district_seat_sizes

BaseTypeOK ==
    /\ num_regions \in 1 .. ndists
    /\ region_sizes \in [Ids -> 0 .. total_seats]
    /\ region_added_order \in [Ids -> Int]
    /\ region_order_max \in Nat
    /\ smaller_cut_sizes \in [Sizes -> SUBSET Sizes]
    /\ valid_region_sizes_to_split \subseteq Sizes
    /\ valid_merge_pair_sizes \subseteq Sizes \X Sizes
    /\ round \in {"check", "begin", "smc", "weigh", "ms", "end", "done", "rejected"}
    /\ smc_rounds \in 0 .. ndists - 1
    /\ ms_rounds \in 0 .. 1

-----------------------------------------------------------------------------
(* The plan. *)

\* The constructor for a blank map: one region with every seat.
BlankPlan ==
    /\ num_regions = 1
    /\ region_sizes = [r \in Ids |-> IF r = 0 THEN total_seats ELSE 0]
    /\ region_added_order = [r \in Ids |-> IF r = 0 THEN 1 ELSE -1]
    /\ region_order_max = total_seats + 1

\* The constructor for a partial plan a run may start from.
PartialPlan(k, sizes) ==
    /\ num_regions = k
    /\ region_sizes = sizes
    /\ region_added_order = [r \in Ids |-> IF r < k THEN r + 1 ELSE -1]
    /\ region_order_max = k + 2

\* Slips of the next definition: the larger half goes to the first id; only
\* the second region gets a new stamp.
LargerHalfFirst(region1_id, region2_id, smaller, larger) ==
    /\ region_sizes' = [region_sizes EXCEPT ![region1_id] = larger,
                                            ![region2_id] = smaller]
    /\ region_added_order' = [region_added_order EXCEPT
                                 ![region1_id] = region_order_max + 1,
                                 ![region2_id] = region_order_max + 2]
    /\ region_order_max' = region_order_max + 2

OneNewStamp(region1_id, region2_id, smaller, larger) ==
    /\ region_sizes' = [region_sizes EXCEPT ![region1_id] = smaller,
                                            ![region2_id] = larger]
    /\ region_added_order' = [region_added_order EXCEPT ![region2_id] = region_order_max + 2]
    /\ region_order_max' = region_order_max + 2

\* A cut of a region of the two halves' seats gives the smaller half to the
\* first id and the larger (ties too) to the second; both get fresh stamps.
update_region_info_from_cut(region1_id, region2_id, smaller, larger) ==
    /\ region_sizes' = [region_sizes EXCEPT ![region1_id] = smaller,
                                            ![region2_id] = larger]
    /\ region_added_order' = [region_added_order EXCEPT
                                 ![region1_id] = region_order_max + 1,
                                 ![region2_id] = region_order_max + 2]
    /\ region_order_max' = region_order_max + 2

\* The two regions with the newest stamps.
get_most_recently_split_regions ==
    CHOOSE pair \in Regions \X Regions :
        /\ pair[1] < pair[2]
        /\ \A r \in Regions \ {pair[1], pair[2]} :
              /\ region_added_order[r] < region_added_order[pair[1]]
              /\ region_added_order[r] < region_added_order[pair[2]]

\* The id a region gets when ids follow the age of the stamps.
AgeRank(r) == Cardinality({q \in Regions : region_added_order[q] < region_added_order[r]})

\* The region that moves to id i (indices[i] of the code); unused ids stay.
OldId(i) == IF i < num_regions THEN CHOOSE r \in Regions : AgeRank(r) = i ELSE i

reorder_plan_by_oldest_split ==
    /\ region_sizes' = [i \in Ids |-> region_sizes[OldId(i)]]
    /\ region_added_order' = [i \in Ids |-> IF i < num_regions THEN i + 1
                                            ELSE region_added_order[i]]
    /\ region_order_max' = num_regions + 6
    /\ UNCHANGED num_regions

-----------------------------------------------------------------------------
(* The rounds of the main loop.  A schedule module supplies the tables each *)
(* round sets and the queries its choices go through.                       *)

\* An SMC round may begin while there are districts left to split off.
MayBeginSMC == round = "begin" /\ num_regions < ndists

\* A merge-split round may only follow an SMC round of the same run.
MayBeginMergeSplit == round = "begin" /\ smc_rounds > 0

\* A slip of the next definition: the second half lands on an id in use.
SplitOntoUsedId(region_id, smaller) ==
    /\ round = "smc"
    /\ update_region_info_from_cut(region_id, num_regions - 1, smaller,
                                   region_sizes[region_id] - smaller)
    /\ num_regions' = num_regions + 1
    /\ round' = "weigh"
    /\ UNCHANGED <<smc_rounds, ms_rounds>>

\* One successful split: the new plan is a copy of its parent with region_id
\* cut in two, the second half under the next free id.
SplitRegion(region_id, smaller) ==
    /\ round = "smc"
    /\ update_region_info_from_cut(region_id, num_regions, smaller,
                                   region_sizes[region_id] - smaller)
    /\ num_regions' = num_regions + 1
    /\ round' = "weigh"
    /\ UNCHANGED <<smc_rounds, ms_rounds>>

\* The incremental weights only read the plan and the tables of the round.
ComputeWeights ==
    /\ round = "weigh"
    /\ round' = "end"
    /\ smc_rounds' = smc_rounds + 1
    /\ UNCHANGED <<planVars, tableVars, ms_rounds>>

\* An accepted proposal: two regions merged and cut again under the same ids.
ResplitPair(region1_id, region2_id, smaller) ==
    /\ round = "ms"
    /\ region_order_max + 2 <= MaxOrder
    /\ update_region_info_from_cut(region1_id, region2_id, smaller,
            (region_sizes[region1_id] + region_sizes[region2_id]) - smaller)
    /\ UNCHANGED <<num_regions, round, smc_rounds, ms_rounds>>

EndMergeSplit ==
    /\ round = "ms"
    /\ round' = "end"
    /\ UNCHANGED <<planVars, tableVars, smc_rounds, ms_rounds>>

\* The end of an iteration; reorders says whether the diagnostics of this
\* iteration relabel the plan by the age of its regions.
EndStep(reorders) ==
    /\ round = "end"
    /\ IF reorders THEN reorder_plan_by_oldest_split ELSE UNCHANGED planVars
    /\ round' = "begin"
    /\ UNCHANGED <<tableVars, smc_rounds, ms_rounds>>

\* The run ends after any number of rounds (n_steps may stop short of ndists);
\* reorders says whether the plan is relabelled on the way out.
Finish(reorders) ==
    /\ round = "begin"
    /\ smc_rounds > 0
    /\ IF reorders THEN reorder_plan_by_oldest_split ELSE UNCHANGED planVars
    /\ round' = "done"
    /\ UNCHANGED <<tableVars, smc_rounds, ms_rounds>>

\* A later run takes a saved partial plan as its init_particles: the sizes are
\* kept, the stamps are those of the partial plan constructor, and the schedule
\* is built again, with the tables of the split before.
ContinueRun ==
    /\ round = "done"
    /\ num_regions < ndists
    /\ region_added_order' = [r \in Ids |-> IF r < num_regions THEN r + 1 ELSE -1]
    /\ region_order_max' = num_regions + 2
    /\ smc_rounds' = 0 /\ ms_rounds' = 0
    /\ UNCHANGED <<num_regions, region_sizes>>

-----------------------------------------------------------------------------
(* Where run_smc_step looks for the remainder under the schedules that split *)
(* districts only.                                                           *)

\* It never asks which region may be split there: it takes the last id.
RemainderId == num_regions - 1

\* run_smc_step splits the region with the last id because "the remainder
\* region is always the highest id": every other region is a one-seat
\* district, through splits and merge-split proposals that rewrite both ids.
RemainderIsLast == \A r \in Regions \ {RemainderId} : region_sizes[r] = 1

-----------------------------------------------------------------------------
(* What the weights look back at: the plan with two regions merged, which may *)
(* have been split into this one.                                            *)

\* The sizes of that plan: the merged region is under r1, the last one under r2.
MergedSizes(r1, r2) ==
    [region_sizes EXCEPT ![r2] = region_sizes[num_regions - 1],
                         ![r1] = region_sizes[r1] + region_sizes[r2]]

\* The id that a region other than r1 and r2 has there.
MergedId(r2, q) == IF q = num_regions - 1 THEN r2 ELSE q

-----------------------------------------------------------------------------
(* The relabelling is only a permutation of the regions while this holds. *)

\* The stamps of the live regions tell their ages apart, and none is ahead of
\* the counter the next stamps come from.
StampsTellAge ==
    /\ \A r, q \in Regions : r # q => region_added_order[r] # region_added_order[q]
    /\ \A r \in Regions : region_added_order[r] <= region_order_max
=============================================================================
