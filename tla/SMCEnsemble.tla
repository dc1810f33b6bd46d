---------------------------- MODULE SMCEnsemble ----------------------------
(***************************************************************************)
(* run_redist_smc and run_smc_step at the level of the ensemble: which     *)
(* particle each thread of the pool splits from which parent, into which   *)
(* ensemble, with whose scratch; and how the plans, their weight caches,   *)
(* their log weights and the matrix of parents are kept in step through    *)
(* splits, merge-split rounds, the final resampling, and a second run that *)
(* continues the plans of an earlier one (keep_init_plan_info).            *)
(*                                                                         *)
(* A plan is its line of descent: the slot it started in, unless the map   *)
(* was blank and all start alike, then the slot of each split.             *)
(***************************************************************************)
EXTENDS Naturals, FiniteSets, SequencesExt

CONSTANTS
    nsims,
    Threads,          \* the threads of the pool, each with a slot of scratch
    max_split_tries,
    Calls             \* what a user may ask for: flags, and the step types and
                      \* `resample` of each run, the later ones continuing

ASSUME SMCEnsembleAssumption ==
    /\ nsims \in Nat \ {0}
    /\ IsFiniteSet(Threads) /\ Threads # {}
    /\ max_split_tries \in Nat \ {0}
    /\ \A c \in Calls :
          /\ {c.seq_alpha, c.hard, c.extra} \subseteq BOOLEAN
          /\ Len(c.runs) \in Nat \ {0}
          /\ \A r \in 1..Len(c.runs) :
                /\ c.runs[r].resample \in BOOLEAN
                /\ c.runs[r].steps \in Seq({"smc", "ms"})
                /\ c.runs[r].steps # <<>> /\ c.runs[r].steps[1] = "smc"

Particles == 1..nsims
num_threads == Cardinality(Threads)
Slots == 0..(num_threads - 1)

VARIABLES
    call, blank,               \* what was asked; the first run starts from the blank map
    run, step_num, smc_step_num, phase,
    plans, new_plans,          \* old_plan_ensemble, new_plan_ensemble
    cache, dummy_cache,        \* the plan whose terms each particle's cache holds
    log_weights,               \* the incremental weights in it, oldest first,
                               \* each with its number of factors 1 - alpha
    sampling_weights,          \* the weights parents are drawn by, power alpha
    parent_index_mat, saved_parents, resampled,
    parent_index_buffer, todo, \* of run_smc_step and parallelFor
    generation, thread_id_counter, thread_generation_counter, thread_id,
    schedule_ctxs,             \* the particle each slot's context was built for
    pc, at, idx, reject_ct     \* of each thread; reject_ct["extra"] is the driver's

driverVars == <<call, blank, run, step_num, smc_step_num>>
ensembleVars == <<plans, cache, dummy_cache, log_weights, sampling_weights,
                  parent_index_mat, saved_parents, resampled>>
idVars == <<generation, thread_id_counter, thread_generation_counter, thread_id>>
vars == <<driverVars, phase, ensembleVars, new_plans, parent_index_buffer, todo,
          idVars, schedule_ctxs, pc, at, idx, reject_ct>>

steps == call.runs[run].steps
total_smc_steps(r) == Cardinality({k \in DOMAIN call.runs[r].steps : call.runs[r].steps[k] = "smc"})
from_blank_map == blank /\ run = 1   \* initial_num_regions = 1
is_final_splitting_step == smc_step_num + 1 = total_smc_steps(run)
last_smc_step == CHOOSE k \in DOMAIN steps :
    steps[k] = "smc" /\ \A j \in DOMAIN steps : j > k => steps[j] = "ms"
resample_before_final_ms == call.runs[run].resample /\ last_smc_step < Len(steps)

\* SMCDiagnostics: a column per split, one more for the final resampling.
EmptyParentMat(r) ==
    [c \in 1..(total_smc_steps(r) + IF call.runs[r].resample THEN 1 ELSE 0) |->
        [i \in Particles |-> 1]]

NoCache == [i \in Particles |-> <<>>]
Self == [i \in Particles |-> i]

Init ==
    /\ call \in Calls /\ blank \in BOOLEAN
    /\ run = 1 /\ step_num = 1 /\ smc_step_num = 0 /\ phase = "step"
    /\ plans = [i \in Particles |-> IF blank THEN <<>> ELSE <<i>>]
    /\ new_plans = plans
    /\ cache = NoCache /\ dummy_cache = NoCache
    /\ log_weights = NoCache /\ sampling_weights = NoCache
    /\ parent_index_mat = EmptyParentMat(1) /\ saved_parents = <<>> /\ resampled = FALSE
    /\ parent_index_buffer = Self /\ todo = {}
    /\ generation = 0 /\ thread_id_counter = 0
    /\ thread_generation_counter = [t \in Threads |-> 0]
    /\ thread_id = [t \in Threads |-> 0]
    /\ schedule_ctxs = [s \in Slots |-> 0]
    /\ pc = [t \in Threads |-> "idle"]
    /\ at = [t \in Threads |-> 0] /\ idx = [t \in Threads |-> 0]
    /\ reject_ct = [t \in Threads \cup {"extra"} |-> 0]

-----------------------------------------------------------------------------
(* run_smc_step *)

\* The head of run_smc_step: fresh buffers, a new generation of thread ids.
StartRound ==
    /\ phase = "step" /\ step_num <= Len(steps) /\ steps[step_num] = "smc"
    /\ phase' = IF call.extra THEN "extra" ELSE "splitting"
    /\ parent_index_buffer' = [i \in Particles |-> 1]
    /\ todo' = Particles
    /\ generation' = generation + 1
    /\ thread_id_counter' = 0
    /\ schedule_ctxs' = [s \in Slots |-> 0]
    /\ UNCHANGED <<driverVars, ensembleVars, new_plans, thread_generation_counter,
                   thread_id, pc, at, idx, reject_ct>>

Child(parent, i) == Append(plans[parent], i)

\* check_max_split_tries
GivesUp(who) == reject_ct[who] >= max_split_tries

Throw == phase' = "failed"

\* One try at the extra particle, before the pool runs: it uses the first slot
\* of everything and, to check hard constraints, the first new plan.
ExtraParticle ==
    /\ phase = "extra"
    /\ UNCHANGED <<driverVars, ensembleVars, parent_index_buffer, todo, idVars, pc, at, idx>>
    /\ \/ /\ GivesUp("extra")
          /\ Throw
          /\ UNCHANGED <<new_plans, schedule_ctxs, reject_ct>>
       \/ /\ ~GivesUp("extra")
          /\ \E parent \in Particles, found \in BOOLEAN, satisfied \in BOOLEAN :
                /\ schedule_ctxs' = [schedule_ctxs EXCEPT ![0] = parent]
                /\ new_plans' = IF found /\ call.hard
                                THEN [new_plans EXCEPT ![1] = Child(parent, 1)]
                                ELSE new_plans
                /\ IF found /\ (satisfied \/ ~call.hard)
                   THEN phase' = "splitting" /\ reject_ct' = [reject_ct EXCEPT !["extra"] = 0]
                   ELSE phase' = phase /\ reject_ct' = [reject_ct EXCEPT !["extra"] = @ + 1]

\* A slip of the next definition: a thread keeps the slot of an earlier round.
NeverHadSlot(t) == thread_generation_counter[t] = 0

NeedsSlot(t) == thread_generation_counter[t] # generation

\* A thread of the pool takes a particle.  It claims a slot if it has none of
\* this generation, and throws if that is out of range.
Take(t) ==
    LET id == IF NeedsSlot(t) THEN thread_id_counter ELSE thread_id[t]
    IN  /\ phase = "splitting" /\ pc[t] = "idle"
        /\ \E i \in todo :
              /\ todo' = todo \ {i}
              /\ at' = [at EXCEPT ![t] = i]
        /\ thread_id' = [thread_id EXCEPT ![t] = id]
        /\ thread_id_counter' = thread_id_counter + IF NeedsSlot(t) THEN 1 ELSE 0
        /\ thread_generation_counter' = [thread_generation_counter EXCEPT ![t] = generation]
        /\ IF id \in Slots
           THEN phase' = phase /\ pc' = [pc EXCEPT ![t] = "draw"]
           ELSE Throw /\ pc' = pc
        /\ UNCHANGED <<driverVars, ensembleVars, new_plans, parent_index_buffer,
                       generation, schedule_ctxs, idx, reject_ct>>

\* A slip of the next definition: the context is built for the first try only.
build_context_once(t, parent) ==
    schedule_ctxs' = [schedule_ctxs EXCEPT ![thread_id[t]] =
                          IF reject_ct[t] = 0 THEN parent ELSE @]

build_context(t, parent) ==
    schedule_ctxs' = [schedule_ctxs EXCEPT ![thread_id[t]] = parent]

\* The head of the retry loop: give up, or draw a parent and build its context.
Draw(t) ==
    /\ phase = "splitting" /\ pc[t] = "draw"
    /\ \/ GivesUp(t) /\ Throw /\ UNCHANGED <<idx, schedule_ctxs, pc>>
       \/ /\ ~GivesUp(t)
          /\ \E parent \in Particles :
                /\ idx' = [idx EXCEPT ![t] = parent]
                /\ build_context(t, parent)
          /\ pc' = [pc EXCEPT ![t] = "split"]
          /\ UNCHANGED phase
    /\ UNCHANGED <<driverVars, ensembleVars, new_plans, parent_index_buffer, todo,
                   idVars, at, reject_ct>>

\* The split was kept: note the parent; the thread is done with the particle.
Keep(t) ==
    /\ parent_index_buffer' = [parent_index_buffer EXCEPT ![at[t]] = idx[t]]
    /\ pc' = [pc EXCEPT ![t] = "idle"]
    /\ at' = [at EXCEPT ![t] = 0] /\ idx' = [idx EXCEPT ![t] = 0]
    /\ reject_ct' = [reject_ct EXCEPT ![t] = 0]

\* A slip of the next definition: a rejected try is not counted.
RetryUncounted(t) ==
    /\ pc' = [pc EXCEPT ![t] = "draw"]
    /\ idx' = [idx EXCEPT ![t] = 0]
    /\ UNCHANGED <<parent_index_buffer, at, reject_ct>>

Retry(t) ==
    /\ reject_ct' = [reject_ct EXCEPT ![t] = @ + 1]
    /\ pc' = [pc EXCEPT ![t] = "draw"]
    /\ idx' = [idx EXCEPT ![t] = 0]
    /\ UNCHANGED <<parent_index_buffer, at>>

\* attempt_to_find_valid_tree_split, then the copy of the parent and its split.
Split(t) ==
    /\ phase = "splitting" /\ pc[t] = "split"
    /\ \/ Retry(t) /\ UNCHANGED new_plans
       \/ /\ new_plans' = [new_plans EXCEPT ![at[t]] = Child(idx[t], at[t])]
          /\ IF call.hard
             THEN /\ pc' = [pc EXCEPT ![t] = "constraints"]
                  /\ UNCHANGED <<parent_index_buffer, at, idx, reject_ct>>
             ELSE Keep(t)
    /\ UNCHANGED <<driverVars, phase, ensembleVars, todo, idVars, schedule_ctxs>>

\* satisfies_hard_constraints on the new plan, already in its place.
HardConstraints(t) ==
    /\ phase = "splitting" /\ pc[t] = "constraints"
    /\ Keep(t) \/ Retry(t)
    /\ UNCHANGED <<driverVars, phase, ensembleVars, new_plans, todo, idVars, schedule_ctxs>>

\* A slip of the next definition: also when a run continues partial plans.
StoredParentsOfAnyStart == IF smc_step_num = 0 THEN Self ELSE parent_index_buffer

\* run_redist_smc makes every particle its own parent if all were the blank map.
StoredParents == IF smc_step_num = 0 /\ from_blank_map THEN Self ELSE parent_index_buffer

\* pool.wait returned: swap the ensembles, store the parents.
EndRound ==
    /\ phase = "splitting" /\ todo = {} /\ \A t \in Threads : pc[t] = "idle"
    /\ phase' = "weighing"
    /\ plans' = new_plans /\ new_plans' = plans
    /\ parent_index_mat' = [parent_index_mat EXCEPT ![smc_step_num + 1] = StoredParents]
    /\ UNCHANGED <<driverVars, cache, dummy_cache, log_weights, sampling_weights,
                   saved_parents, resampled, parent_index_buffer, todo, idVars,
                   schedule_ctxs, pc, at, idx, reject_ct>>

-----------------------------------------------------------------------------
(* run_redist_smc *)

\* The systematic resampler walks the cumulative weights upwards.
ResampleIndices ==
    {f \in [Particles -> Particles] : \A i, j \in Particles : i <= j => f[i] <= f[j]}

\* do_final_resample for plans and caches as they are at this point.
Resample(current_plans, current_cache, mat) ==
    \E resample_index \in ResampleIndices :
        /\ plans' = [i \in Particles |-> current_plans[resample_index[i]]]
        /\ new_plans' = current_plans
        /\ cache' = [i \in Particles |-> current_cache[resample_index[i]]]
        /\ dummy_cache' = current_cache
        /\ parent_index_mat' = [mat EXCEPT ![Len(mat)] = resample_index]
        /\ resampled' = TRUE

Damp(weights) == [k \in DOMAIN weights |-> [weights[k] EXCEPT !.damped = @ + 1]]

Parents == parent_index_mat[smc_step_num + 1]

\* A slip of the next definition: the weights are not moved to the children.
NewLogWeightsUnmoved ==
    [i \in Particles |->
        (IF call.seq_alpha THEN log_weights[i] ELSE <<>>)
            \o <<[of |-> plans[i], damped |-> 0]>>]

\* The log weights before any damping: the parent's, and the new increment.
NewLogWeights ==
    [i \in Particles |->
        (IF call.seq_alpha THEN log_weights[Parents[i]] ELSE <<>>)
            \o <<[of |-> plans[i], damped |-> 0]>>]

\* A slip of the next definition: the caches stay where they are.
OwnRow(i) == cache[i]

ParentRow(i) == cache[Parents[i]]

\* compute_or_fetch_log_region_compactness goes by stamps, which are ages: the
\* row of an ancestor is brought up to date, a row that is not from the plan's
\* own line is taken for fresh.
BroughtUpToDate(row, plan) == IF IsPrefix(row, plan) THEN plan ELSE row

\* The rest of a splitting step: caches follow their plans and are brought up
\* to date, weights are carried over, and the last split may be resampled.
Reweigh ==
    /\ phase = "weighing"
    /\ phase' = "step" /\ step_num' = step_num + 1
    /\ smc_step_num' = smc_step_num + IF is_final_splitting_step THEN 0 ELSE 1
    /\ sampling_weights' = NewLogWeights
    /\ log_weights' = IF call.seq_alpha /\ ~is_final_splitting_step
                      THEN [i \in Particles |-> Damp(NewLogWeights[i])]
                      ELSE NewLogWeights
    /\ LET weighed == [i \in Particles |-> BroughtUpToDate(ParentRow(i), plans[i])]
       IN  IF resample_before_final_ms /\ step_num = last_smc_step
           THEN Resample(plans, weighed, parent_index_mat)
           ELSE /\ cache' = weighed /\ dummy_cache' = cache
                /\ UNCHANGED <<plans, new_plans, parent_index_mat, resampled>>
    /\ UNCHANGED <<call, blank, run, saved_parents, parent_index_buffer, todo, idVars,
                   schedule_ctxs, pc, at, idx, reject_ct>>

\* A merge-split round: descent, weights and parents stay; the proposals are
\* made in the other ensemble.
MergeSplitRound ==
    /\ phase = "step" /\ step_num <= Len(steps) /\ steps[step_num] = "ms"
    /\ step_num' = step_num + 1
    /\ \E proposed \in SUBSET Particles :
          new_plans' = [i \in Particles |-> IF i \in proposed THEN plans[i] ELSE new_plans[i]]
    /\ UNCHANGED <<call, blank, run, smc_step_num, phase, ensembleVars, parent_index_buffer,
                   todo, idVars, schedule_ctxs, pc, at, idx, reject_ct>>

\* The end of the loop: reorder_all_plans goes through the other ensemble and
\* leaves descent alone; the final resampling, if it was not done before.
EndRun ==
    /\ phase = "step" /\ step_num > Len(steps)
    /\ phase' = "finished"
    /\ IF call.runs[run].resample /\ ~resample_before_final_ms
       THEN Resample(plans, cache, parent_index_mat)
       ELSE UNCHANGED <<plans, new_plans, cache, dummy_cache, parent_index_mat, resampled>>
    /\ UNCHANGED <<driverVars, log_weights, sampling_weights, saved_parents,
                   parent_index_buffer, todo, idVars, schedule_ctxs, pc, at, idx, reject_ct>>

\* redist_smc with init_particles = the plans, not resampled, and
\* keep_init_plan_info: the parents are drawn by the final weights of the
\* earlier run, which seq_alpha splits; its diagnostics are put in front.
Continue ==
    /\ phase = "finished" /\ run < Len(call.runs) /\ ~resampled
    /\ run' = run + 1 /\ step_num' = 1 /\ smc_step_num' = 0 /\ phase' = "step"
    /\ new_plans' = plans
    /\ cache' = NoCache /\ dummy_cache' = NoCache
    /\ sampling_weights' = log_weights
    /\ log_weights' = [i \in Particles |->
           IF call.seq_alpha THEN Damp(log_weights[i]) ELSE <<>>]
    /\ saved_parents' = saved_parents \o parent_index_mat
    /\ parent_index_mat' = EmptyParentMat(run')
    /\ UNCHANGED <<call, blank, plans, resampled, parent_index_buffer, todo, idVars,
                   schedule_ctxs, pc, at, idx, reject_ct>>

Ended ==
    /\ \/ phase = "failed"
       \/ phase = "finished" /\ (run = Len(call.runs) \/ resampled)
    /\ UNCHANGED vars

Driver == StartRound \/ ExtraParticle \/ EndRound \/ Reweigh \/ MergeSplitRound \/ EndRun

Thread(t) == Take(t) \/ Draw(t) \/ Split(t) \/ HardConstraints(t)

Next == Driver \/ (\E t \in Threads : Thread(t)) \/ Continue \/ Ended

\* The driver runs to the end of its function and pool.wait lets every thread
\* run; nobody has to continue a run.
Fairness == WF_vars(Driver) /\ \A t \in Threads : WF_vars(Thread(t))

Spec == Init /\ [][Next]_vars /\ Fairness

-----------------------------------------------------------------------------
(* Properties *)

\* A thread at work has a slot of scratch to itself, whichever slots the
\* threads had in earlier rounds: rng_states, schedule_ctxs, ust_samplers and
\* tree_splitters are shared by slot without any lock.
OneThreadPerSlot ==
    \A t \in Threads : pc[t] # "idle" =>
        /\ thread_id[t] \in Slots
        /\ \A u \in Threads \ {t} : pc[u] # "idle" => thread_id[u] # thread_id[t]

\* When a thread asks the schedule which region to split and how, the context
\* in its slot is the one of the parent it has drawn for this try.
ContextIsOfThePlanInHand ==
    \A t \in Threads : pc[t] = "split" => schedule_ctxs[thread_id[t]] = idx[t]

splits_in_run == Cardinality({k \in 1..(step_num - 1) : steps[k] = "smc"})
splits == Len(saved_parents) + splits_in_run
origin == IF blank THEN 0 ELSE 1
ParentColumns == saved_parents \o SubSeq(parent_index_mat, 1, splits_in_run)

\* The slots a plan's line went through, from now backwards, as R reads them
\* off the stored matrix (get_smc_ancestors composes the columns this way).
ToldSlots(i) ==
    LET back[n \in 0..splits] ==
            IF n = 0
            THEN IF resampled THEN parent_index_mat[Len(parent_index_mat)][i] ELSE i
            ELSE ParentColumns[splits - n + 1][back[n - 1]]
    IN  back

\* At every step the matrix of parents, through the column of the resampling,
\* every split of this run and of the run it continues, tells the line each
\* plan really descends from; and every plan has had every split.
AncestryIsTold ==
    phase # "weighing" => \A i \in Particles :
        /\ Len(plans[i]) = origin + splits
        /\ \A n \in 0..splits : origin + splits - n > 0 =>
              plans[i][origin + splits - n] = ToldSlots(i)[n]

\* A particle's weight cache holds terms of its own plan or of an ancestor,
\* never of another line (whose stamps would look just as fresh).
CachesFollowThePlans == \A i \in Particles :
    phase # "weighing" => IsPrefix(cache[i], plans[i])

\* The weights of a single run through all splits so far: with seq_alpha every
\* split of the plan's line has put in its increment once, oldest first, and
\* each drawing of parents since has left it 1 - alpha of its share; without,
\* only the last split counts.
SingleRunWeights(i, drawings) ==
    IF call.seq_alpha
    THEN [k \in 1..splits |-> [of |-> SubSeq(plans[i], 1, origin + k),
                               damped |-> splits - k + drawings]]
    ELSE IF splits = 0 THEN <<>> ELSE <<[of |-> plans[i], damped |-> 0]>>

\* Between splitting steps the weights of particle i, and the weights by which
\* parents are drawn, are those a single run would have, also when the splits
\* were made by two runs.  The last split of a run leaves its weights whole for
\* the user; resampled plans no longer go with them.
WeightsAreThoseOfASingleRun ==
    phase # "weighing" /\ ~resampled => \A i \in Particles :
        /\ sampling_weights[i] = SingleRunWeights(i, 0)
        /\ \/ log_weights[i] =
                 SingleRunWeights(i, IF splits_in_run = total_smc_steps(run) THEN 0 ELSE 1)
           \/ ~call.seq_alpha /\ splits_in_run = 0 /\ log_weights[i] = <<>>

\* With max_split_tries set, every run comes to an end, with its plans or with
\* an error: no thread retries for ever and the driver never waits in vain.
RunEnds == (phase = "step") ~> (phase \in {"finished", "failed"})

=============================================================================
