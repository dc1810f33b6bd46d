# A TLA+ model of redist

redist samples redistricting plans. Its core is C++ (`src/src/`), driven from R
(`src/R/`): a sequential Monte Carlo sampler (`redist_smc`) whose particles are
partial plans split region by region, merge-split moves between the splits, a
standalone merge-split chain (`redist_mergesplit`), a CycleWalk chain on spanning
forests (`redist_cyclewalk`) and an older flip chain (`redist_flip`). This
directory holds TLA+ modules of the parts that keep state and take decisions,
the TLC configurations that check them, and TLAPS proofs about them.

## Inventory

| part | state | operations | what makes it correct |
|---|---|---|---|
| splitting schedules (`splitting_schedule_types`) | size tables of the current step; the context of a plan | tables per SMC round and merge-split round; which region may be split, which pair merged, with which cuts; check of an initial plan | every plan on the way can be completed; every move can be undone; the remainder can be told |
| plan (`base_plan_type`) | region ids, sizes, populations, age stamps, forest, linking edges | blank and partial construction, split, resplit, copy, relabel by age | sizes add up; stamps tell ages; relabelling is a permutation |
| weight cache (`weight_caching`) | a stamp and a value per region and particle | fetch, update on acceptance, copy with the particle | a fresh entry is the value of the present region |
| SMC driver (`smc.cpp`) | ensemble and its dummy, weights, parents, thread slots | SMC round on a thread pool, weights, merge-split round, final resampling | particles, weights, caches and parents stay aligned; a round ends or fails |
| merge-split (`merging.cpp`) | multigraph and context, current and proposed | propose, accept, reject | the ratio is taken against the move back |
| CycleWalk (`cw_*`, `lct_graph_plan_type`) | a spanning forest in link-cut trees, the partition, crossing edges | 1-tree and 2-tree (cycle) moves | trees span the districts; populations stay in bounds |
| tree sampling (`wilson`, `tree_op`, `tree_splitting`) | scratch of one thread | Wilson's algorithm, subtree sums, choice of a cut | a cut splits a region into two connected parts of allowed size |
| plan multigraph (`base_plan_type`) | hash of region pairs, component counts | build, filter pairs, merge | counts of county components after a merge |
| seed growth (`rsg`, `crsg`) | membership by precinct and by district, adjacency of districts | merge districts, move precincts until populations fit, retry once | the records agree; districts are in one piece |
| flip chain (`sw_mh_alg`, `sw_mh_helper`) | a partition and its populations | cut edges, swap pieces on the borders, accept or reject | districts stay connected and in bounds; a step can be taken back, at the inverse ratio |
| R drivers | plans, control lists | runs, chains, short bursts, continuation of saved runs | saved state is what the next run needs |

Parts interact through the plan and the schedule: the driver sets the tables of
a round, every thread asks the shared tables about its own plan (through a
context), splits a copy of a parent, and the weights, the cache and merge-split
read back the regions the last split or move made, by id and by age stamp.

What is hard here: properties of *sequences* of splits and merge-split moves
(a bad table entry surfaces rounds later), state derived from a plan and kept
beside it (contexts, caches, region ids with a meaning), the copying and
swapping of ensembles by a thread pool, and moves on dynamic trees.

## Modules

| module | models | role |
|---|---|---|
| `SplittingSchedule` | the region level state of a plan, its relabelling, the rounds of `run_redist_smc` | base of the three schedules |
| `DistrictOnlySMD` | `DistrictOnlySplittingSchedule` | single member districts, one split off at a time |
| `AnyRegionSMD` | `AnyRegionSMDSplittingSchedule` | single member districts, any region split anywhere |
| `DistrictOnlyMMD` | `DistrictOnlyMMDSplittingSchedule`, `ScheduleContext`, `check_initial_plan` | multi member districts |
| `SeatAllocation` | what every schedule promises | abstract specification |
| `WeightCache` | `WeightCache` and its uses, over `AnyRegionSMD` | composition |
| `SMCEnsemble` | `run_smc_step` on its pool and the loop of `run_redist_smc`, for a whole ensemble | component |
| `MCSMCEnsemble` | two calls of two runs each | TLC |
| `Forests` | rooted forests as parent functions | operators |
| `RootedForest` | what a link-cut tree promises | abstract specification |
| `LinkCutTree` | `cw_lct`, and the subtree sums of `cw_proposal` that read raw nodes | component |
| `MCLinkCutTree` | the refinement mapping to `RootedForest` | TLC |
| `CycleWalk` | `internal_forest_walk`, `cycle_walk`, `apply_update`, the plan of `lct_graph_plan_type` | component over `Forests` |
| `MCCycleWalk` | a map of six precincts | TLC |
| `GraphPieces` | components of a set of vertices, parts of counties | operators |
| `CountyMap` | a map: precincts, adjacencies, counties, trees | operators over `GraphPieces` |
| `SpanningTreeCounts` | Kirchhoff's determinants as `base_plan_type.cpp` sets them up | operators |
| `PlanMultigraph` | `PlanMultigraph`: pairs of regions, county components, tau | operators |
| `MergeSplitMoves` | `run_merge_split_steps`, `attempt_mergesplit_step` with both multigraphs | component over `PlanMultigraph` |
| `MCMergeSplitMoves` | six precincts in one to four counties | TLC |
| `TreeSplitting` | the searches for cuts of `tree_splitting.cpp` | operators |
| `LinkedPlan` | `LinkingEdgePlan`: vertices, forest, linking edges and what is cached on them | composition of the two above |
| `MCLinkedPlan` | six precincts, four seats | TLC |
| `TreeSampling` | `USTSampler` and both walks of `wilson.cpp` | component over `TreeSplitting` |
| `MCTreeSampling` | regions of a map of six precincts | TLC |
| `SeedGrowth` | `rsg`, `crsg` and the retry in R | component |
| `FlipChain` | `redist_flip`, `swMH`, `make_swaps`, from a plan `SeedGrowth` made | composition |
| `MCFlipChain` | six precincts, three districts | TLC |
| `FiniteStructures` | finite sets (induction, sums, tallies, growing sets) and finite graphs (components, trees, trees that hang from a root or are joined, trees with two labels) over `GraphPieces` | lemmas |
| `DistrictOnlyMMDProofs` | plans, tables, contexts, weights and proposals of `DistrictOnlyMMD` | proofs |
| `SMCEnsembleProofs` | slots, contexts, caches, log weights and ancestry of `SMCEnsemble` | proofs |
| `SingleMemberProofs` | `WeightCache`: the cache without relabelling, the plans the weights sum over; the remainder of `DistrictOnlySMD`; the refinement of `SeatAllocation` by both schedules | proofs |
| `FlipChainProofs` | `SeedGrowth` and `FlipChain` | proofs |
| `CycleWalkProofs` | a theory of rooted forests; trees, bounds, undo and the move back of `CycleWalk` | proofs |
| `MergeSplitMovesProofs` | the multigraph a run of `MergeSplitMoves` keeps, the plans it can be built for, the pairs that may merge, and the way back of a move | proofs |
| `LinkedPlanProofs` | the searches of `TreeSplitting` and its path weights; the linked tree of `LinkedPlan`, its seats, what is kept on its edges, and that no check throws; the tree `TreeSampling` draws | proofs |

A definition whose comment begins with "A slip of the next definition" is a
plausible bug in it; nothing uses it except the mutation tests listed in
`PROJECT.json`, which show that each property can be broken by the code.

### The schedules

The three schedule modules follow **one lineage** of an ensemble: the plan of a
particle, copied with every split from the parent it was drawn from. A state is
the plan at region level (`region_sizes`, `region_added_order`, ...), the tables
of the shared schedule object (`smaller_cut_sizes`, `valid_region_sizes_to_split`,
`valid_merge_pair_sizes`) and the place in the main loop (`round`):

    begin --set_potential_cut_sizes--> smc --Split--> weigh --Weigh--> end --EndOfStep--> begin
    begin --update_cut_sizes_for_mergesplit_step--> ms --MergeSplit*, EndOfMergeSplit--> end

`EndOfRun` relabels on the way out and `ContinueWithPlan` starts a run from the
plan it left, with fresh tables and stamps; `DistrictOnlyMMD` puts every such plan,
and any partial plan a user makes up, through `check_initial_plan` region by
region (`CheckRegion`, `CheckVerdict`). The geometry of the map is left open: any
two regions may be adjacent, and the drawn tree may offer any cut the tables allow.
A tree without a usable cut and a rejected proposal change nothing at this level.

`MaxOrder` is the one bound of these modules: merge-split may not push stamps
beyond it. `region_order_max` starts at `total_seats + 1` and a move takes two
stamps, so each value leaves room for every split and for an accepted merge-split
move after the last one; splits themselves are never cut short.

`SeatAllocation` states what a schedule promises without its tables: the plan is a
bag of sizes, only split or recombined, and always completable to exactly `ndists`
districts. `RegionsOfSize` maps `region_sizes` to that bag; `KeepsPlanCompletable` of each
schedule says that it implements `SeatAllocation` (under `DistrictOnlyMMD`, from the
moment a plan has passed the checks). TLC checks the multi member one, where it is the least obvious;
all three are proved.

The build flag `supposedly_safe_input_checks` (`src/src/redist_constants.h`)
is a constant of `DistrictOnlyMMD`. The shipped build has it FALSE and leaves it to
the caller that a partial plan can be completed (`src/R/redist_smc.R:71-75`); then the
model starts from the blank map and from plans of earlier runs only. With TRUE any
sizes at all may be passed in, and the check must tell them apart.

`WeightCache` runs along `AnyRegionSMD` with the cache row of the lineage. The
compactness of a region is a function of its geometry, so a history variable names
geometries and a cached value is the name of the geometry it was computed for.

### The ensemble

`SMCEnsemble` is the other view of the same loop: all particles, all threads, no
tables. A plan is its line of descent (the slot of each split), which is all that
can tell a plan from another here; a log weight is the list of increments in it,
each with the number of times `seq_alpha` has multiplied it by `1 - alpha`; a cache
row is the plan whose terms it holds. A row of another line counts as fresh,
because stamps are ages and ages agree between lines.

`StartRound` is the head of `run_smc_step`, `ExtraParticle` the try before the pool
starts, `Take`, `Draw`, `Split`, `HardConstraints` the steps of a thread (with
`Keep` and `Retry`), `EndRound` what follows `pool.wait`. `Reweigh` is the rest of a
splitting step in `run_redist_smc` (moving caches and weights to the children,
the early resampling); `MergeSplitRound`, `EndRun` and `Continue` the remainder
of the loop, the final resampling, and `redist_smc` with `init_particles` and
`keep_init_plan_info`. A thrown exception ends the run and drops the ensembles.

The slot of a thread is a `thread_local` that outlives rounds and calls while the
counter starts over, hence `thread_generation_counter`; the model keeps both and
lets one thread take any share of the particles.

### The dynamic trees and the chain on them

`LinkCutTree` has the node fields of the code (`parent`, splay children,
`path_parent`, `path_children`, the lazy `reversed` flag). Each public operation is
one action and runs to its end, as the chain is sequential. `RootedForest` is the
forest such a structure stands for. `CycleWalk` builds on the abstract forest, and
the refinement is what allows it to.

In `CycleWalk` a proposal is applied to the plan in place (`propose`), then kept
(`accept`) or undone edge by edge (`reject`), as the code does. The ratio and the
choice of edges are left open: whatever has positive probability may happen.
`get_link_path_ind` numbers a path from its last vertex, as in the code.

### The multigraph and merge-split moves

`PlanMultigraph` is the table of adjacent regions that the weights and the
merge-split ratio read. It is a pure function of the plan and the counties, so it is
a set of operators: a walk over the map that never leaves a region and a county at
once gives the components (`Explored`), the splits of each are counted while the
walk goes on (`HasTooManySplits`), pairs in a component without a shared county may
not merge, and more pairs go as the schedule, the constraints and the hierarchy
forbid them. The code keeps logarithms of determinants; the operators keep the
integers, as no property needs the logarithm. `MergeSplitMoves` starts from every
plan of connected regions that can be built and moves it by merge-split, with the
multigraphs of the plan and of the proposal exchanged on acceptance.

The specification of the multigraph is written over trees, not over counts: a plan
is hierarchical if some hierarchical tree of the map can be cut into it, and tau is
the number of linkings of its regions' trees that give a hierarchical tree.

### Plans with linking edges

`LinkedPlan` is one plan down to its vertices. `Split` is `run_smc_step` on it: any
hierarchical tree of a region, any valid cut, the smaller part (the lower one on a
tie) takes the old id, the forest is rewritten, the linking edges that touch the two
regions lose their probability and the cut edge becomes a linking edge. The weights
(`get_valid_adj_regions_and_eff_log_boundary_lens`) recompute what is not valid and
throw if a linking edge joins a pair the multigraph does not have.
`attempt_mergesplit_step` proposes on a linking edge and is accepted or not;
`Continue` is the constructor that takes saved trees and edges. A probability is
represented by its denominator, the number of valid cuts of the joined tree.
A hard constraint is the set `Barred` of precinct sets it forbids as a region.

`TreeSplitting` holds the two ways the code counts those cuts: the depth first
search with its marks and its scratch of populations, and the pass over all joints of
two trees (`compute_tree_path_weights_in_undirected_packed_tree`).

### Drawing a tree

`TreeSampling` is one call of `attempt_to_draw_tree_on_region` up to the forest of
the accepted split. A walk is a state: `StartCountyWalk` and `CountyWalk` wander over
the counties, `add_walk_from_admin` hits the tree and joins the loop erased chain.
`SkipUnsplittableTrees` fills counties that no valid cut can go through with any
tree; `StartVertexWalk`, `VertexWalk` and `add_walk_from` do the others. The cut is
chosen (`update_from_successful_split`) or not (`Reject`), and the skipped counties
are then drawn anew, one by one (`ClearCounty`, `StartFillingWalk`, `PackCounty`).
`assume_hierarchical` FALSE is the sampler for plans that need not respect counties:
it walks on pieces of counties (`build_fake_counties`) and keeps no forest. What
`ust`, `county_tree` and the roots hold at the start is what an earlier draw left
outside the region, since only what the region reaches is cleared.

### Seed growth and the flip chain

`SeedGrowth` has both growth programs over one state. `Merge` is the first phase,
`MoveAny` an iteration of `rsg`, `MoveFarthest` a try of `crsg`, which takes the pair of
neighbours that differ most, then the next (`TryNextPair`), and `GiveUp` the limit
of iterations with the one retry of `redist.rsg` and `redist.crsg`. Which neighbour
`crsg` merges and which candidate it tries first follow from distances; any choice
may be made. Membership by precinct, membership by district and, in `crsg`, the
adjacency of districts are kept apart as in the code.

`FlipChain` starts from the plan that was grown (`Start`, with the test of contiguity
in `redist_flip`). A step is `CutEdges`, which keeps any set of edges inside districts and
finds the pieces on the borders, as many `make_swaps` as were drawn, and
`mh_decision`; a draw that runs out of pieces starts over (`TryAgain`). The ratio
is kept as the exponent of `1 - eprob`.

Two things the code does that its comments do not say are part of the model. The search
for pieces marks a precinct by writing its number into a vector of zeros
(`src/src/sw_mh_helper.cpp:187-240`), so precinct 0 counts as reached from the start
and is left out of pieces it does not begin or touch; a step that moves it away from
every border may have no step back, and `MovesCanBeTakenBack` exempts exactly
that case. And `crsg` moves its last candidate if populations allow, contiguous or not
(`src/src/crsg.cpp:276-278`), so it can return a plan with a district in two parts;
`redist_flip` refuses such a plan, which is why `DistrictsStayConnected` holds.

## Runs

| run | instance | distinct states | what it shows |
|---|---|---|---|
| `district_only_smd` | 5 districts | 18267 | the last id is always the remainder |
| `any_region_smd` | 5 districts, every partial plan, with the cache | 28603 | the weights sum over exactly the plans one could have been split from, the one it was split from among them; a fresh entry holds the value of the present geometry |
| `district_only_mmd` | 4 districts of 2..4 seats, 11 seats, input checks on | 102319 | plans end as districts, the remainder can be told, nothing is stuck, the weights sum over exactly the plans one could have been split from, moves can be taken back; implements `SeatAllocation` |
| `smc_ensemble` | 2 particles, 2 threads, two calls of two runs | 213204 | slots are not shared, contexts are of the plan in hand, caches, weights and ancestry follow the plans, every run ends |
| `link_cut_tree` | 4 vertices, all sequences of operations | 596 | implements `RootedForest`; roots, paths and subtree sums are right under pending flags |
| `cycle_walk` | 6 precincts, 3 districts | 12742 | trees span districts, nothing throws, bounds hold and bookkeeping agrees, rejected moves are undone, the ratio is that of the move back |
| `merge_split_moves` | 6 precincts, 2 to 4 regions, several county layouts | 3064 | built exactly for hierarchical plans; tau, merged tau and tree counts are the numbers of trees; the kept pairs are the mergeable ones; the pair just split is kept |
| `linked_plan` | 6 precincts, 4 seats, splits and merge-splits | 14018 | forest and linking edges are one hierarchical tree; kept probabilities are current; nothing throws; both counts of cuts are right |
| `tree_sampling` | regions of 5 or 6 of 6 precincts, 3 layouts, with and without the hierarchy | 2173 | the tree is hierarchical; no skipped county holds a cut; the forest is that of the two parts; every draw ends |
| `flip_chain` | 6 precincts, 3 districts, both growth programs, up to 2 swaps a step | 192326 | districts stay connected; records follow the plan through merges, moves and swaps; the ratio is that of the two plans; steps can be taken back |
| `weight_cache_diagnostics` | 4 districts | | finding 1 |
| `linked_plan_barred` | as `linked_plan`, one set of precincts forbidden | | finding 2 |

Why the instances are large enough:

- *Schedules.* With four or five districts there are at least two splits with a
  merge-split round between them and one more split to be affected. Seats 2..4 is
  the smallest range where a district can also be two districts (4 = 2 + 2), which
  is what the context exists for.
- *Link-cut tree.* On four vertices splay trees reach depth four, so zig, zig-zig,
  zig-zag and changes of path inside one `expose` all happen. The invariants were
  also tried on five vertices (6018 states) and hold.
- *Cycle walk.* The map has triangles, so the forest walk rewires as well as
  re-roots, and unequal precincts, so that some cycles have no valid cut and some
  pairs of districts too few edges.
- *Ensemble.* With two particles and two threads a thread may take both particles,
  so its slot of an earlier round goes stale while the other's counter differs.
  One call has every flag on, one every flag off; one ends in merge-split (the
  resampling follows the last split) and one in a split (it comes at the end); the
  second run continues the plans of the first. `max_split_tries` is 2, so a try may
  fail, succeed after a failure, or exhaust the tries.

- *Multigraph.* On six precincts with one to four counties, plans of two to four
  regions have counties split once, twice and too often, components joined through a
  shared region, pairs adjacent only across a county line, and parallel edges between
  counties. A tie or a cycle of regions needs four regions, which the map has.
- *Linked plan.* With four seats there are three splits, so a linking edge survives a
  split of one of its regions and a move beside it. Populations are unequal and the
  bounds wide enough for edges with no, one and two valid cuts.
- *Tree sampling.* The layouts have a county in one piece, one that the region cuts in
  two, and one that no cut can go through; the region is the map or all but one
  precinct. `MaxTries` is 7 steps for 500 per county or precinct in the code: long
  enough to close loops and to run out. Populations and bounds count half persons
  (`Unit` is 2), so that the cast of the bound 4.5 to an integer cuts something off.
- *Flip chain.* A square, a triangle beside it and a tail, so that districts have
  precincts they cannot do without. The end of the tail is heavier, and of the two tolerances
  growth may be asked for one is wider than the bounds of the map, so that a chain may
  start out of bounds, and one narrower, so that growth may fail. `MaxIter` is 3 moves for
  5000: enough to succeed, to get stuck and to give up twice. `MaxSwaps` is 2, the
  smallest number where swaps of one step can meet; without the exemption for precinct
  0 TLC finds a step of this instance without a way back.

`CHECK_DEADLOCK` is left on where the code stops in an action of its own (`Stopped`,
`Ended`). It is off for `merge_split_moves` (a plan without a mergeable pair has no
move), `linked_plan` and `linked_plan_barred` (a thrown exception ends the run, and
bounds may leave a region without a cut), `tree_sampling` (a finished draw stops) and
`flip_chain` (growth fails, or its plan is refused).

### Fairness

`SMCEnsemble` and `TreeSampling` state fairness. In `SMCEnsemble` it is weak fairness of the driver, which is a
sequential function, and of each thread of the pool, which `pool.wait` joins. With
it `RunEnds` holds for `max_split_tries > 0`. That is what the property is worth:
the default of 0 (`src/R/redist_smc.R:1438`) sets no limit, and then nothing forces a
tree with a usable cut to be drawn. `Continue` has no fairness, since nobody has to
call `redist_smc` again. User interrupts are not modelled. `TreeSampling` is a sequential function, so its
`Next` is weakly fair as a whole; that every draw ends rests on the limit of tries
of a walk and on counters that go down, which is what `DrawEnds` checks. The chains of
`CycleWalk`, the schedules and `FlipChain` have no liveness property: a walk may reject for
ever, and the flip chain may draw for ever from a plan that no swap brings into bounds,
which nothing refuses.

### Findings

1. `weight_cache_diagnostics`: with `diagnostics = "all"`, plans are relabelled by
   age at the end of a step, which resets stamps without telling the cache
   (`src/src/smc.cpp:359`); a later stamp meets an old entry, against
   `src/src/weights.cpp:548-549`. The same relabelling can take the remainder away
   from the last id, which `run_smc_step` splits because it "is always the highest id"
   (`src/src/smc.cpp:786-787`); `DistrictOnlySMD` shows that with `diagnostic_mode` TRUE.
2. `linked_plan_barred`: a hard constraint that forbids the union of two linked
   regions takes their pair out of the multigraph, and the "sanity check that we never
   get invalid pair" (`src/src/linking_edge_plan_type.cpp:376`) throws and ends the run,
   where `src/R/redist_constr.R:319-322` says that such a plan is rejected when it is split.

## Proofs

All proofs are checked by TLAPS with Z3, Zenon and LS4, from the named assumptions
on the constants only.

**`DistrictOnlyMMDProofs`** (assumptions `SeatAssumption`, `MMDAssumption`): for
every number of districts, seats and range of sizes the constructor accepts.
`Invariance` proves `IInv`; from it follow `TypeCorrectness`,
`FinishedPlansAreDistricts`, `RemainderIsUnambiguous` and `NoDeadEnds`. None of these is inductive: that a finished plan has districts
only depends on what was left over rounds earlier. The strengthening says that some
region *can* be the remainder (it is a sum of exactly the districts still to come,
and all others are districts), that the tables are those of the plan's number of
regions, that a context is current, and that stamps tell ages apart. The check of
a partial plan sums seats in a loop; `SeenAddsUp` says what the loop knows half
way, so that the proof needs no induction over the sum. Relabelling is handled
by `OldIdIsAPermutation`, from `RanksPermute` of `FiniteStructures`.

`AncestorsAreSummed` and `ProposalsHaveAWayBack` stand on the same `IInv`. The lemmas `TablePairIsACut` and `CutIsATablePair` say that the tables of
pairs and of cuts are each other's inverse: a pair is merged only if its sum is cut back
into it, and the pieces of a cut are a pair to merge. With what the invariant says of the context, that it names one of the pair
or nobody, this gives `ProposalsHaveAWayBack`.

`AncestorsAreSummed` takes three steps. A pair that the weights merge leaves only districts
outside it, so the merged plan has at most the merged region for a remainder, and its context, built
anew from ids that the merge has moved, is that region or nobody (`MergedPairIsTheRest`, `RivalsArePickable`).
Conversely a pair that the round could have made is merged: were the present
context a third region, the merged plan would have it for a remainder and the merged region
could not have been picked (`AncestorsAreMergedPairs`). And the pair just split is one of them, which needs
the invariant `JustSplit`: from the split to the weights the two newest regions are a pair of the tables and hold whatever is
no district (`SplitLeavesAPair`). `WeightsMergeNoDistrictPairs` is the fact about the rounds that this needs.

`PlansStayCompletable` is the refinement of `SeatAllocation`. `IInv` bounds the seats but does
not add them up, so `SeatsAddUp` joins it: the seats of a plan in use are those of the
map, and the sum of the check is the seats seen so far. The plan as a bag of sizes is a *tally*
of its regions; a cut, a trade and a relabelling do to the tally what `Divide`,
`Recombine` and a stutter do (`TallyOfCut`, `TallyOfTrade`, `TallyOfPermutation`), and summing size
by size is summing over regions (`TallyTotal`). A plan is completable because the remainder, a sum of
the districts still to come, can be made that many and every other region one
(`DistrictsOfASum`).

**`SMCEnsembleProofs`** (assumption `SMCEnsembleAssumption`): for every number of
particles and threads and every sequence of steps and runs. `EnsembleInvariant`
proves an invariant with these parts: threads at work hold different particles
(`WorkInHand`); the threads that have a slot of this round are as many as the counter
says and have different slots below it (`SlotsHandedOut`), so that a thread
without one always finds one; a finished particle is the child of the parent stored
for it (`ChildrenOfTheirParents`); the number of the split is the number of splits
made (`SplitsCounted`), which says which column `EndRound` writes and `Reweigh`
reads; and the row of the parent goes with the plan between the swap of the
ensembles and the gathering (`CachesInStep`), the blank map needing empty rows as
its stored parents are not the parents drawn. From it follow `SlotsNeverShared`,
`ContextNeverStale` and `CachesNeverStray`. TLC checked the invariant on the
instance of `smc_ensemble` before it was proved, as it checked `IInv` on that of
`district_only_mmd`.

For `WeightsNeverStray` the invariant
`WInv` stands on `IInv` and says where a run is: every line has its start and a slot
for each split (`LinesCounted`); a finished run has all its steps behind it and is
resampled if asked to, and a run that resamples before its final merge-split rounds is
not at its last split before that (`RunInStep`), so that a run that can be continued
has as many columns of parents as splits and none of a resampling; and between the swap
of the ensembles and the gathering the weights of a plan lie with its parent
(`ParentWeights`). `TermsOfChild`, `TermsWithTheLast` and `DampedTerms` say what a
drawing, a split and a damping do to the increments of a line.

For `AncestryNeverLost` the invariant `AInv` adds to these that the columns of parents
lead back along the lines in every state between rounds, read from the slots the plans
were copied from if they were resampled (`LinesTold`), and that plans are resampled only
after the last split of a run (`ResampledAfterTheSplits`): a resampling before a split
would put the next column beside plans that have moved. What the recursive function of
the property reads off the matrix is told by `IterationExists` and `RepeatsStay`.

**`SingleMemberProofs`** (assumptions `SeatAssumption`, `SMDAssumption`) proves `FreshEntriesAreCurrent` from the invariant that no region
and no entry has a stamp beyond the counter: the two stamps of a cut are then newer than
anything cached. It assumes `diagnostic_mode = FALSE` too; the run
`weight_cache_diagnostics` shows what happens otherwise. `AncestorsAreSummed` of the any region
schedule holds for every partial plan, with or without diagnostics: any two regions may have been made by the round, also in
the last round, and the two newest are those of the split (`JustSplit`). Its invariant `SeatsInv`
says that the seats of the regions add up to `ndists` with one at least in each
(`SeatsAddUp`), that the tables are those of the round (`TablesOfTheRound`), and that stamps
tell ages, so that relabelling permutes the sizes (`AgesTold`). The sums are what make the
biggest size of a region, which the tables are built from, the biggest there can be. From
`SeatsInv` too comes `PlansStayCompletable`, that the lineage implements `SeatAllocation`.

The same module proves, of an instance `SMD` of `DistrictOnlySMD`, `LastIdIsTheRemainder`: lower ids are districts of
one seat and the last id holds all other seats. A merge-split move changes no sizes: the
lower of its two ids is always a district, and gets the smaller half. The theorem assumes
`diagnostic_mode = FALSE`, as relabelling by age would break it. `DistrictPlansStayCompletable` is the
refinement of `SeatAllocation`, from the same invariant.

**`FlipChainProofs`** (assumptions `MapAssumption`, `GrowthAssumption`,
`ChainAssumption`): for every connected map, its populations, the number of districts,
bounds and tolerances, and any number of swaps a step. `FlipInvariant` proves `FInv`; from
it follow `DistrictsNeverSplit`, `RecordsAlwaysFollow` and `RatioAlwaysTells`. While the
seed grows (`SeedInv`) the districts are numbered from 0 without a gap, the records kept
beside the membership agree with it, and districts are connected until `crsg` moves a
precinct. In the chain (`ChainInv`) the plan and the proposal have whole, connected
districts with the populations kept for them, the exponent is the number of edges inside districts
of the proposal less that of the plan, and the pieces not drawn yet are
disjoint and each within one district of the proposal. That last part carries the
proof: pieces are cut from the plan as it was, and a swap may draw one of them after others
have moved; as the pieces do not overlap, a swap leaves the district of the rest what it was, and
the test of contiguity is made on the proposal as it is by then. `PiecesFound` gets the pieces from
the search as coded, in which precinct 0 counts as reached from the start.
`CountTellsConnected` and `ConnectedCount` say why counting components is a test of
contiguity, and `NumberedByFirst` that the renumbering at the start is onto.

`MovesTakenBack` is the action property `MovesCanBeTakenBack`, from a second invariant,
`MovesInv`: the proposal is the plan after the swaps made (`After`), the pieces that moved
have nothing in common and are not beside each other (`Apart`), and every swap was
made in a valid plan in bounds, to another such, with its tests passed (`MadeIn`). From that each swap passes the
tests on the way back: the piece is beside the rest of its old district, since that
is connected (`BesideTheRest`); taking it back gives the plan before, and putting it in any other
district was tested on the way there (`MovePassesBack`). The cut that gives the pieces back keeps
every edge within one of them and no other (`FoundAgain`). The piece with precinct 0 is the
exception: the search joins 0 to a piece only from its own first precinct, hence
`HidesPrecinct0`.

**`CycleWalkProofs`** (assumption `WalkAssumption`): for every map, its populations and
bounds and any plan to start from. The assumption says what the code's callers ensure:
vertices are numbers and every edge is listed once, from its lower end; and every district has one seat,
as `src/R/redist_cyclewalk.R:358` passes it. `WalkInvariant` proves `WalkInv`; from it follow
`TreesSpanAlways`, `PopulationsAlwaysInBounds`, `RejectedIsUndone` and `MoveBackSeesTheSame`. The properties
are not inductive: what a rejected move restores depends on the forest there was before it, of which
only the edges are kept. `CanTakeBack` says that there is one: some forest spanned the old districts, and the
update in hand made the present forest of it. A theory of rooted forests comes first. A forest is rooted if
something falls on the way up (`Rooted`), which gives induction along paths (`ForestInduction`) and says what cutting,
linking and everting do to roots, descendants and edges (`CutFacts`, `LinkedFacts`, `EvertedFacts`).
The argument then follows the *arc* of a move, the vertices that hang between its two
cuts: the update trades exactly the arc between the trees (`UpdateMakes`); the sum of collapsed weights
that was tested against the bounds is the population of the arc (`ArcPopIsSum`), wherever the two
cuts lie on the two paths of the cycle; and the districts as read off the roots afterwards, with
the swap of roots that `swap_link11` decides, are the old ones with the arc traded (`UpdateTells`).
`UndoneFacts` is the undo: links are cut and cuts linked in an order in which nothing
throws, and the edges are those there were.

`MoveBackSeesTheSame` is `MoveBackSeesTheSameCuts`: the sum over cuts in the ratio, with the cut taken replaced by the
links, is the sum the move back would compute. The move back has other trees, other roots
and paths that start elsewhere, so its cuts are compared through what does not depend on them.
The trees of the two districts and the two links make a graph with one cycle. A pair of
edges is *fitting* if both lie on a cycle of that graph and it is exactly the edges around some part of the two
districts whose population, and that of the rest, fit the bounds (`IsFitting`). `CutsAre` proves that the
cuts a cycle offers are the fitting pairs except its own two links: the edges on the cycle are those at places of the
paths (`IsPlaceEdge`), what lies between two places is around them and nothing else (`IsArc`), and
two parts around the same edges are equal or complements (`SameRim`). A move
cuts two edges and adds the links, so the graph, the vertices and their population stay as they were (`SameGraph`,
`CutsStayKnown`); what changes is which pair is the links, and both pairs fit. The invariant therefore carries
`KnowsTheCuts`: the cuts kept in the proposal are the fitting pairs of the graph with the cut edges put back. TLC
checked it on the instance of the run `cycle_walk` first.

**`MergeSplitMovesProofs`** (assumptions `MapAssumption`, `MovesAssumption`): for every map, its counties and the
number of regions. The second assumption is what R ensures: it refuses a map that is not in one piece
(`src/R/redist_map.R:76`), and takes the pieces of a county that is not for counties
(`src/R/redist_alg_helpers.R:53-62`). `MultigraphIsOfThePlan` proves that the multigraph swapped in at each accepted
proposal is that of the plan the driver holds, and that the plan's regions stay connected
(`MovesInv`). `MovesKeepTheWayBack` is the action property `KeepsTheWayBack`. A proposal cuts a
hierarchical tree on the merged pair at one edge, so that edge is between the two regions
and the pair is hashed. It could only be taken out again as an invalid pair: if the two share no
county directly and yet both reach into one, say c. But both sides of the cut then have precincts of c, and
the tree is in one piece in c, so the edge cut lies in c and the pair shares it (`NoSharedCounty`).

`SplitsTellTheHierarchicalPlans` is `BuildsTheHierarchicalPlans`: the two early returns of
`build_plan_hierarchical_multigraph`, which compare running counts, answer whether some spanning tree of the map has every
county and every region in one piece, and so does `is_hierarchically_valid`. Write B for the edges inside a county
and a region, H for those inside a county or a region. If every component of H falls into few pieces
along B, the pieces of B and of H together are no more than the counties and regions (`FewSplitsFewPieces`,
`FewPiecesAreBalanced`). Then a tree is found (`BalancedGivesATree`): with as few edges as join what they join, trees on the
pieces of B grow to ones on counties, to ones on regions too, and to the whole map; these are
enough edges to connect the map, and counting says they are no more than a tree has. The other way round it is the count on
trees of `LinkedPlansAreMergeable` below.

`KeptPairsCanBeMerged` is `KeptPairsAreMergeable`, from the same counts. Of merging a pair: the merged plan is balanced
again unless the merge closes a cycle, when the walk reaches one region from the other although no edge between
the two stays in a county (`MergedBalance`), which is `merge_is_hier_valid`. Of the pairs merge-split keeps: a tree exists on the
union of two regions exactly if its part of every county is connected (`TreeOnPart`). In a plan whose multigraph was built two
regions share edges in at most one county (`ShareOneLabel`), so that the counties their other pairs share are those
both have precincts of, and the filter sees every one (`OverlapHas`): `shared_county`, which keeps one county
for a pair, loses nothing.

**`LinkedPlanProofs`** (assumptions `MapAssumption`, `PopAssumption`, `LinkedPlanAssumption`, `DrawsAssumption`): for every map,
its populations, bounds and counties. `CutsAreOfTheTree` says of the search as coded, with its stack, its scratch
arrays and its early exits, that what it answers with are edges of the tree it was given, with a number of
seats it was asked for: an invariant of the fold over the stack (`SearchStepIs`). `PlanStaysLinked` proves
`PlanInv`, which follows the trees (`LinkedInv`: every region has a hierarchical tree in the forest, linking
edges cross, and forest and links make one hierarchical tree of the map) and the seats (`SizesInv`: those of the
regions there are add up to those of the map). The steps rest on two facts about trees: one cut at an edge
is two, each hierarchical (`HierarchicalTreeCut`); and a hierarchical tree drawn on part of the map may
take the place of the edges that joined that part (`HierarchicalTreeExchange`), which is a split on a region and a
merge-split move on a pair with its linking edge. That `Partial` starts from such a plan needs
`LinkedPlanAssumption`, that a plan handed in is looked at on a map of one county: the linking edges are those of a
search tree on the regions (`HandedInIsLinked`). `LinkedTreeStaysHierarchical` follows.

`LinkedPlansAreMergeable` is `NeverThrows`, for runs without hard constraints (`Barred = {}`; with one the
run `linked_plan_barred` shows that a check throws). The multigraph of a plan of this space
can always be built: along the linked tree every county, every region and every part of a region in a county
is in one piece (`LinkedHasTwoLabels`), and then neither test of `HasTooManySplits` is met (`FewSplits`). The reason is
a count on trees (`FewerPairsThanLabels`): where both labels of the vertices of a tree are in one piece each,
there are fewer pairs of labels than labels, as every new pair on the way through the tree brings a new label.
`GroupIsNotSplitTooOften` and `GroupsAreNotSplitTooOften` say so for one county
component and for the sum over all. The pair of a linking edge may be merged, since one between two
regions of a component but in no county would close a cycle of the linked tree (`LinkInsideComponent`). And some pair
has few enough seats, as all have (`TwoRegionsMayMerge`).

`SearchesFindEveryCut` is `SearchFindsEveryCut`. A tree hangs from the root the search starts at. The
invariant of the fold (`Searching`) says, of the search after any number of steps: its path leads from
the root, each vertex hanging from the last; what was seen is closed below the vertices that were left;
the population noted at a vertex that was left is that below it, unless the vertex above is given up, and then
one that hangs from that has too much below it; and the cuts are those of the edges above the vertices left. Where it gives up because too much is below, too much is below
all the way to the root, so that nothing is missed (`TooMuchAbove`), and a sibling whose own population was
not noted is never added up. After as many steps as the tree has edges, twice, all is left but the root. `CutsAreCounted`
compares with the definition, in which every cut shows up from both ends of its edge.

`CachedProbabilitiesStayRight` is `CachedCutsAreCurrent`. The search of two joined trees, the second in the scratch
of the first, finds the cuts of either seen from the joint and those at the joint (`JoinedCuts`), which
are those of the joined tree (`ProbabilityIsOfTheJoinedTree`). A cut leaves the trees, precincts and seats of
other regions alone, so what is kept for an edge between two of those stays right (`KeptCountStays`); and the
new linking edge gets the count of the tree that was cut, which is what the two new regions with that edge
make again (`NewCountIs`).

`BoundaryIsThatOfTheSearch` is `BoundaryAgreesWithSearch`. Every edge of a tree is given the number of its cuts, which
does not depend on the side it is seen from (`EdgeWeightIs`), and the cuts of the tree are the total (`CutsAddUp`). In a
region's tree the vertices other than the root stand for the edges above them (`TotalOfEdges`); joined at a, an edge has the
other tree on the side of its lower end exactly if a is below it (`SidesInJoined`), which is when the program takes `in`
for `out` (`PathWeightAddsUp`). So the root, hence the representative edge, does not matter, and the
weights at the two ends with the joint are the cuts of the joined tree (`PathsAndJointAre`).

`DrawnTreesAreHierarchical` is `DrawnTreeIsHierarchical` of `TreeSampling`, for every map, region, layout of
counties and bound on tries, with real counties or pieces of them. The invariant `DrawInv` follows the edges drawn so
far (`TreeSoFar`): in the region they cover what is marked as visited, each precinct but the root by one edge; they
lead down from the root between counties, and within each county from the precinct it was entered by (`Downward`). Of a walk
under way it says that the exits recorded, loops and all, never go in a circle that does not come to the node where the walk is
(`Leads`); so the chain that `RecordExit` leaves when the walk comes to the tree joins it, whatever exits earlier loops left
behind (`ChainJoins`), and a county on the way is entered once (`CountiesJoin`). A county that is skipped is filled in from
its entry (`CountiesFilledIn`). When nothing is left to reach, what hangs from the root is the region, and a tree in one piece within
every county (`DrawnTreeIs`). Edges of earlier draws in the scratch leave from precincts outside the region, which nothing
reaches.

**`FiniteStructures`** is what the proofs above use in place of induction theorems,
which take an operator. Induction is over a set of naturals or of
subsets (`SetInduction`, `SubsetInduction`), which SMT can instantiate; from it come the sums (`Total...`),
how often a function takes each value (`Tally...`),
the existence and values of functions defined step by step (`IterationExists`,
`RepeatsStay`), and where a set that grows within a finite one stops (`GrowthEnds`). Of graphs it says that
a component is the least set that holds its vertex and is closed under the edges (`ComponentIsLeast`), though it is
defined by rounds of neighbours; that connected is the same as having no proper closed subset
(`ConnectedIsClosed`); what it takes to connect n vertices (`EdgesToConnect`); how trees are cut
and joined, and what hangs below an edge of a tree with a root (`Hangs`, `CutOffBelow`, `JoinedSides`); and, for vertices with two labels such as county and region, how labels, pairs and pieces are counted,
and that the counts say whether a tree has every label in one piece (`BalancedGivesATree`, `NoLessThanBalanced`).

TLC checked the properties of every theorem, and `FInv`, `MovesInv` and the other invariants that it can
evaluate, on the instance of the run before they were proved. `WalkInv` speaks of a forest
of the past, so TLC checks what follows from it.

Only model-checked: the refinement of `RootedForest` and the rest of `LinkCutTree`, whose splay loops
are RECURSIVE operators and so out of the prover's reach; the counts of trees of `MergeSplitMoves`
(`TauCountsLinkings`, `RegionTreesAreCounted`), which need the matrix-tree theorem; and of `TreeSampling` that no
skipped county holds a cut and that the forest is right once they are drawn anew
(`SkippedCountiesHoldNoCut`, `ForestIsOfTheParts`). `RunEnds` and
`DrawEnds` are liveness under fairness, which is out of reach too.

## Not modelled

- `SMCEnsemble` leaves out the estimate of k, the number of merge-split moves and
  the statistics kept about tries and trees; the hard constraints are a choice of
  yes or no (their `is_final` argument has no reader).
- The number in a weight, a score or a determinant: floating point arithmetic.
- `AnyRegionMMD` and the pure merge-split schedule: `redist_smc` refuses the
  first, and the second has constant tables.
- Of the multigraph, effective boundary lengths summed over edges and the
  representative edges; of the splitters, which of the valid cuts they prefer (a
  choice) and the top k and constraint splitters' own weights.
- Linking edge plans that start from a partial plan on a map with counties:
  `get_intial_linking_edges` takes the first edge between two regions whatever its
  county, and nothing says what the linking tree of such a plan should be.
- Of the flip chain, the energies of constraints, tempering and annealing (they change
  `beta`, hence the ratio only), and the adaptation of lambda and eprob. `CycleWalk` is
  checked with one seat per district, as its R wrapper passes (`src/R/redist_cyclewalk.R:352`).
- Short bursts and the other R drivers: see the plan.
- Parallel tempering over MPI (`src/R/redistMPI.R`): a worker reads the plans of a
  segment as `partitions` (line 396), which the flip sampler returns as `plans`
  (`src/src/sw_mh_alg.cpp:483`), so no plan reaches the next segment.
- Measures, plots, data frame classes, generated glue, and enumeration, which
  calls a vendored external program.

## Plan

1. *In this project now*: schedules, cache, ensemble, link-cut tree, CycleWalk,
   multigraph and merge-split moves, linking edge plans, tree sampling and splitting,
   seed growth and the flip chain.
2. *R drivers*: short bursts, chains, saved runs.
3. *Pure helpers*: renumbering, coarsening, colouring, the Hungarian matching, against
   reference definitions on bounded inputs.
4. *Theorems*: of `TreeSampling`, the counties skipped and drawn anew.

New runs take the place of weaker ones, such as a second run of a schedule that
shows what another shows already.
