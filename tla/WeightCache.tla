---------------------------- MODULE WeightCache ----------------------------
(***************************************************************************)
(* The compactness cache of one lineage (weight_caching, and its uses in   *)
(* weights.cpp, merging.cpp and smc.cpp) over the rounds of AnyRegionSMD.  *)
(* A particle's cache is copied from its parent's with the plan, so along  *)
(* a lineage it is one table: a stamp and a value by region id.            *)
(*                                                                         *)
(* The compactness of a region is a function of its geometry.  "made" is a *)
(* history variable that names the geometry under each id, and the value   *)
(* of a cache entry is the name of the geometry it was computed for.       *)
(***************************************************************************)
EXTENDS AnyRegionSMD

VARIABLES
    cached_order,  \* WeightCache::this_plan_order_added
    cached_value,  \* WeightCache::region_cache_values
    made,          \* the geometry of each region
    made_max       \* geometries named so far

cacheVars == <<cached_order, cached_value>>
madeVars  == <<made, made_max>>
allVars   == <<vars, cacheVars, madeVars>>

\* An entry is used when its stamp is the region's stamp.
Fresh(r) == region_added_order[r] = cached_order[r]

\* compute_or_fetch_log_region_compactness for the regions of a set: a fresh
\* entry is returned as it is, any other is computed and written back.
compute_or_fetch(fetched) ==
    LET stale == {r \in fetched : ~Fresh(r)}
    IN  /\ cached_order' = [r \in Ids |-> IF r \in stale THEN region_added_order[r] ELSE cached_order[r]]
        /\ cached_value' = [r \in Ids |-> IF r \in stale THEN made[r] ELSE cached_value[r]]

NameNewGeometry(r1, r2) ==
    /\ made' = [made EXCEPT ![r1] = made_max + 1, ![r2] = made_max + 2]
    /\ made_max' = made_max + 2

\* The dummy ensemble's cache is overwritten with the parent's, then swapped in.
CachedSplit ==
    \E r \in Regions :
        /\ SplitAt(r)
        /\ NameNewGeometry(r, num_regions)
        /\ UNCHANGED cacheVars

\* Simple weights fetch the two regions just split; optimal weights fetch
\* every pair the plan could be merged at, which includes those two.
CachedComputeWeights ==
    /\ ComputeWeights
    /\ \E fetched \in SUBSET Regions :
          /\ LET pair == get_most_recently_split_regions IN {pair[1], pair[2]} \subseteq fetched
          /\ compute_or_fetch(fetched)
    /\ UNCHANGED madeVars

\* get_log_mh_ratio fetches the pair of the current plan; on acceptance both
\* entries take the proposal's value and stamp.
AcceptedProposal ==
    \E r1, r2 \in Regions :
        /\ ResplitAt(r1, r2)
        /\ NameNewGeometry(r1, r2)
        /\ cached_order' = [cached_order EXCEPT ![r1] = region_added_order'[r1],
                                                ![r2] = region_added_order'[r2]]
        /\ cached_value' = [cached_value EXCEPT ![r1] = made'[r1], ![r2] = made'[r2]]

\* On rejection only the entries of the current pair were filled.
RejectedProposal ==
    /\ round = "ms"
    /\ \E r1, r2 \in Regions :
          /\ r1 < r2
          /\ is_valid_merge_pair(r1, r2)
          /\ compute_or_fetch({r1, r2})
    /\ UNCHANGED <<vars, madeVars>>

\* Relabelling the plan moves the geometries with the ids and resets the
\* stamps; the caches are not told.
CachedEndOfStep ==
    /\ EndOfStep
    /\ made' = IF diagnostic_mode THEN [i \in Ids |-> made[OldId(i)]] ELSE made
    /\ UNCHANGED <<cacheVars, made_max>>

\* The relabelling on the way out comes after the last use of the cache.
CachedEndOfRun ==
    /\ EndOfRun
    /\ made' = IF diagnostic_mode THEN made ELSE [i \in Ids |-> made[OldId(i)]]
    /\ UNCHANGED <<cacheVars, made_max>>

CacheInit ==
    /\ Init
    /\ cached_order = [r \in Ids |-> -2]
    /\ cached_value = [r \in Ids |-> 0]
    /\ made = [r \in Ids |-> IF r < num_regions THEN r + 1 ELSE 0]
    /\ made_max = num_regions

CacheNext ==
    \/ set_potential_cut_sizes_for_each_valid_size /\ UNCHANGED <<cacheVars, madeVars>>
    \/ CachedSplit
    \/ CachedComputeWeights
    \/ update_cut_sizes_for_mergesplit_step /\ UNCHANGED <<cacheVars, madeVars>>
    \/ AcceptedProposal
    \/ RejectedProposal
    \/ EndMergeSplit /\ UNCHANGED <<cacheVars, madeVars>>
    \/ CachedEndOfStep
    \/ CachedEndOfRun
    \/ Stopped /\ UNCHANGED <<cacheVars, madeVars>>

CacheSpec == CacheInit /\ [][CacheNext]_allVars

-----------------------------------------------------------------------------
\* "If the current region order added is the same as the stored one then the
\* region has not changed and the old value is safe": whenever a weight or a
\* proposal can fetch, an entry with the region's stamp holds the compactness
\* of the region's present geometry.
FreshMeansUnchanged ==
    round \in {"weigh", "ms"} =>
        \A r \in Regions : Fresh(r) => cached_value[r] = made[r]

=============================================================================
