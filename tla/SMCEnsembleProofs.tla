------------------------- MODULE SMCEnsembleProofs -------------------------
(***************************************************************************)
(* Proofs about SMCEnsemble, for every number of particles and threads and *)
(* every sequence of steps and runs: a thread at work has a slot to itself *)
(* and the context of the plan it splits, and weight caches stay with the  *)
(* line of descent of their plan.  Then, through splits, resampling and    *)
(* continued runs: every plan has had every split, the log weights are     *)
(* those of a single run over all splits so far, and the columns of        *)
(* parents the run returns lead back along the lines of descent.           *)
(***************************************************************************)
EXTENDS SMCEnsemble, FiniteStructures, SequenceTheorems

TypeOK ==
    /\ call \in Calls /\ blank \in BOOLEAN /\ run \in 1..Len(call.runs)
    /\ step_num \in Nat \ {0} /\ smc_step_num \in Nat
    /\ phase \in {"step", "extra", "splitting", "weighing", "finished", "failed"}
    /\ plans \in [Particles -> Seq(Particles)]
    /\ new_plans \in [Particles -> Seq(Particles)]
    /\ cache \in [Particles -> Seq(Particles)]
    /\ parent_index_mat \in Seq([Particles -> Particles])
    /\ parent_index_buffer \in [Particles -> Particles]
    /\ todo \subseteq Particles
    /\ generation \in Nat /\ thread_id_counter \in Nat
    /\ thread_generation_counter \in [Threads -> Nat]
    /\ thread_id \in [Threads -> Nat]
    /\ schedule_ctxs \in [Slots -> 0..nsims]
    /\ pc \in [Threads -> {"idle", "draw", "split", "constraints"}]
    /\ at \in [Threads -> 0..nsims]
    /\ idx \in [Threads -> 0..nsims]

\* Threads work only in a splitting round, each on a particle of its own.
WorkInHand ==
    /\ \A t \in Threads : pc[t] # "idle" =>
          /\ phase \in {"splitting", "failed"}
          /\ at[t] \in Particles \ todo
          /\ \A u \in Threads \ {t} : pc[u] # "idle" => at[u] # at[t]
    /\ \A t \in Threads : pc[t] \in {"split", "constraints"} => idx[t] \in Particles

\* The threads that have a slot of this round.
Holders == {t \in Threads : thread_generation_counter[t] = generation}

\* The counter counts them; each has a slot below it, no two the same.
SlotsHandedOut ==
    /\ \A t \in Threads : thread_generation_counter[t] <= generation
    /\ \A t \in Threads : pc[t] # "idle" => generation > 0 /\ t \in Holders
    /\ phase \in {"extra", "splitting"} => generation > 0
    /\ generation > 0 =>
          /\ thread_id_counter = Cardinality(Holders)
          /\ \A t \in Holders : thread_id[t] < thread_id_counter
          /\ \A t, u \in Holders : t # u => thread_id[t] # thread_id[u]

\* A finished particle is a child of the parent noted for it.
ChildrenOfTheirParents ==
    /\ phase = "extra" => todo = Particles
    /\ phase = "splitting" => \A i \in Particles \ todo :
          \/ \E t \in Threads : pc[t] # "idle" /\ at[t] = i
          \/ new_plans[i] = Child(parent_index_buffer[i], i)
    /\ \A t \in Threads : phase = "splitting" /\ pc[t] = "constraints" =>
          new_plans[at[t]] = Child(idx[t], at[t])

\* smc_step_num is the number of the split at hand, and stays on the last one.
SplitsCounted ==
    /\ total_smc_steps(run) \in Nat /\ splits_in_run \in Nat
    /\ smc_step_num < total_smc_steps(run)
    /\ total_smc_steps(run) <= Len(parent_index_mat)
    /\ phase \in {"extra", "splitting", "weighing"} =>
          step_num <= Len(steps) /\ steps[step_num] = "smc"
    /\ \/ splits_in_run = smc_step_num
       \/ splits_in_run = total_smc_steps(run)

\* Between the swap of the ensembles and the gathering, the row of the parent
\* is the one that goes with the plan; the blank map starts with empty rows.
CachesInStep ==
    /\ phase = "weighing" => \A i \in Particles : IsPrefix(cache[Parents[i]], plans[i])
    /\ phase # "weighing" => \A i \in Particles : IsPrefix(cache[i], plans[i])
    /\ from_blank_map /\ splits_in_run = 0 /\ phase # "weighing" =>
          \A i \in Particles : cache[i] = <<>>

IInv ==
    /\ TypeOK
    /\ WorkInHand
    /\ SlotsHandedOut
    /\ ContextIsOfThePlanInHand
    /\ ChildrenOfTheirParents
    /\ SplitsCounted
    /\ CachesInStep

-----------------------------------------------------------------------------
(* Counting splits *)

Upto(s, n) == {k \in 1..n : s[k] = "smc"}

\* The splits among the first steps are a finite number.
LEMMA UptoFinite ==
    ASSUME NEW s, NEW n \in Int
    PROVE  IsFiniteSet(Upto(s, n)) /\ Cardinality(Upto(s, n)) \in Nat
  <1>1. IsFiniteSet(1..n)
    BY FS_Interval
  <1>2. Upto(s, n) \subseteq 1..n
    BY DEF Upto
  <1> QED  BY <1>1, <1>2, FS_Subset, FS_CardinalityType

\* One step more.
LEMMA UptoNext ==
    ASSUME NEW s, NEW n \in Nat \ {0}
    PROVE  Cardinality(Upto(s, n)) =
               Cardinality(Upto(s, n - 1)) + (IF s[n] = "smc" THEN 1 ELSE 0)
  <1>1. IsFiniteSet(Upto(s, n - 1)) /\ Cardinality(Upto(s, n - 1)) \in Nat
    BY UptoFinite
  <1>2. CASE s[n] = "smc"
    <2>1. Upto(s, n) = Upto(s, n - 1) \cup {n} /\ n \notin Upto(s, n - 1)
      BY <1>2 DEF Upto
    <2> QED  BY <1>1, <1>2, <2>1, FS_AddElement
  <1>3. CASE s[n] # "smc"
    <2>1. Upto(s, n) = Upto(s, n - 1)
      BY <1>3 DEF Upto
    <2> QED  BY <1>1, <1>3, <2>1
  <1> QED  BY <1>2, <1>3

\* Before a split there are fewer splits than in all.
LEMMA UptoLess ==
    ASSUME NEW s \in Seq({"smc", "ms"}), NEW n \in 1..Len(s), s[n] = "smc"
    PROVE  Cardinality(Upto(s, n - 1)) < Cardinality(Upto(s, Len(s)))
  <1>1. Len(s) \in Nat
    BY LenProperties
  <1>2. IsFiniteSet(Upto(s, Len(s)))
    BY <1>1, UptoFinite
  <1>3. Upto(s, n - 1) \subseteq Upto(s, Len(s)) /\ Upto(s, n - 1) # Upto(s, Len(s))
    BY <1>1 DEF Upto
  <1>4. Cardinality(Upto(s, n - 1)) \in Nat /\ Cardinality(Upto(s, Len(s))) \in Nat
    BY <1>1, UptoFinite
  <1>5. /\ Cardinality(Upto(s, n - 1)) <= Cardinality(Upto(s, Len(s)))
        /\ Cardinality(Upto(s, n - 1)) # Cardinality(Upto(s, Len(s)))
    BY <1>2, <1>3, FS_Subset
  <1> QED  BY <1>4, <1>5

\* total_smc_steps counts the splits of a whole run.
LEMMA TotalIsUpto ==
    ASSUME TypeOK, NEW r \in 1..Len(call.runs)
    PROVE  /\ call.runs[r].steps \in Seq({"smc", "ms"})
           /\ total_smc_steps(r) = Cardinality(Upto(call.runs[r].steps, Len(call.runs[r].steps)))
           /\ total_smc_steps(r) \in Nat \ {0}
           /\ call.runs[r].resample \in BOOLEAN
  <1> DEFINE s == call.runs[r].steps
  <1>1. s \in Seq({"smc", "ms"}) /\ s # <<>> /\ s[1] = "smc" /\ call.runs[r].resample \in BOOLEAN
    BY SMCEnsembleAssumption DEF TypeOK
  <1>2. Len(s) \in Nat \ {0} /\ DOMAIN s = 1..Len(s)
    BY <1>1, LenProperties, EmptySeq
  <1>3. total_smc_steps(r) = Cardinality(Upto(s, Len(s)))
    BY <1>2 DEF total_smc_steps, Upto
  <1>4. Cardinality(Upto(s, 1 - 1)) \in Nat /\ Cardinality(Upto(s, Len(s))) \in Nat
    BY <1>2, UptoFinite
  <1>5. Cardinality(Upto(s, 1 - 1)) < Cardinality(Upto(s, Len(s)))
    <2> HIDE DEF s
    <2> QED  BY <1>1, <1>2, UptoLess
  <1> QED  BY <1>1, <1>3, <1>4, <1>5

\* splits_in_run counts those of the steps behind.
LEMMA SplitsIsUpto ==
    ASSUME TypeOK
    PROVE  /\ splits_in_run = Cardinality(Upto(steps, step_num - 1))
           /\ splits_in_run \in Nat
  <1>1. splits_in_run = Cardinality(Upto(steps, step_num - 1))
    BY DEF splits_in_run, Upto
  <1>2. step_num - 1 \in Int
    BY DEF TypeOK
  <1> QED  BY <1>1, <1>2, UptoFinite

-----------------------------------------------------------------------------
(* Prefixes *)

\* Lines of descent begin with nothing, with themselves, and with what they come from.
LEMMA EmptyIsPrefix ==
    ASSUME NEW S, NEW p \in Seq(S)
    PROVE  IsPrefix(<<>>, p)
  BY SMT DEF IsPrefix

\* A line is a beginning of itself.
LEMMA PrefixOfItself ==
    ASSUME NEW S, NEW p \in Seq(S)
    PROVE  IsPrefix(p, p)
  BY SMT DEF IsPrefix

\* What a line begins with, its child begins with.
LEMMA PrefixOfChild ==
    ASSUME NEW S, NEW p \in Seq(S), NEW q \in Seq(S), NEW e \in S, IsPrefix(q, p)
    PROVE  IsPrefix(q, Append(p, e))
  <1>1. Len(q) \in Nat /\ Len(p) \in Nat /\ Len(Append(p, e)) = Len(p) + 1 /\ Len(q) <= Len(p)
    BY SMT DEF IsPrefix
  <1>2. SubSeq(q, 1, Len(q)) = SubSeq(p, 1, Len(q))
    BY DEF IsPrefix
  <1>3. SubSeq(p, 1, Len(q)) = SubSeq(Append(p, e), 1, Len(q))
    BY <1>1, SMT
  <1> QED  BY <1>1, <1>2, <1>3 DEF IsPrefix

-----------------------------------------------------------------------------
(* The invariant *)

\* There are particles, threads and slots, and 0 is no particle.
LEMMA Constants ==
    /\ nsims \in Nat \ {0} /\ 1 \in Particles /\ IsFiniteSet(Threads)
    /\ num_threads \in Nat \ {0} /\ 0 \in Slots
    /\ \A p : p \in Particles => p \in Nat /\ p \in 0..nsims
  <1>1. num_threads \in Nat /\ num_threads # 0
    BY SMCEnsembleAssumption, FS_CardinalityType, FS_EmptySet DEF num_threads
  <1> QED  BY <1>1, SMCEnsembleAssumption DEF Particles, Slots

\* A child is a line of descent.
LEMMA ChildType ==
    ASSUME TypeOK, NEW p \in Particles, NEW i \in Particles
    PROVE  Child(p, i) \in Seq(Particles)
  BY DEF Child, TypeOK

\* A call starts with the invariant.
LEMMA InitIInv == Init => IInv
  <1> SUFFICES ASSUME Init PROVE IInv
    OBVIOUS
  <1> USE Constants DEF Init
  <1>1. /\ call \in Calls /\ Len(call.runs) \in Nat \ {0}
    BY SMCEnsembleAssumption
  <1>2. \A i \in Particles : <<>> \in Seq(Particles) /\ <<i>> \in Seq(Particles)
    OBVIOUS
  <1>3. call.runs[1].resample \in BOOLEAN
    BY <1>1, SMCEnsembleAssumption
  <1>4. /\ call.runs[1].steps \in Seq({"smc", "ms"})
        /\ call.runs[1].steps # <<>> /\ call.runs[1].steps[1] = "smc"
    BY <1>1, SMCEnsembleAssumption
  <1> DEFINE s == call.runs[1].steps
  <1>5. total_smc_steps(1) = Cardinality(Upto(s, Len(s))) /\ Len(s) \in Nat \ {0}
    <2>1. Len(s) \in Nat \ {0} /\ DOMAIN s = 1..Len(s)
      BY <1>4, LenProperties, EmptySeq
    <2> QED  BY <2>1 DEF total_smc_steps, Upto
  <1>6. total_smc_steps(1) \in Nat \ {0} /\ Cardinality(Upto(s, 1 - 1)) = 0
    <2> HIDE DEF s
    <2>1. Cardinality(Upto(s, 1 - 1)) < Cardinality(Upto(s, Len(s)))
      BY <1>4, <1>5, UptoLess DEF s
    <2>2. Cardinality(Upto(s, Len(s))) \in Nat /\ Cardinality(Upto(s, 1 - 1)) \in Nat
      BY <1>5, UptoFinite
    <2>3. Upto(s, 1 - 1) = {}
      BY DEF Upto
    <2>4. Cardinality(Upto(s, 1 - 1)) = 0
      BY <2>3, FS_EmptySet
    <2> QED  BY <1>5, <2>1, <2>2, <2>4
  <1>7. /\ EmptyParentMat(1) \in Seq([Particles -> Particles])
        /\ total_smc_steps(1) <= Len(EmptyParentMat(1))
    <2> DEFINE n == total_smc_steps(1) + IF call.runs[1].resample THEN 1 ELSE 0
    <2>1. n \in Nat /\ total_smc_steps(1) <= n
      BY <1>3, <1>6
    <2>2. EmptyParentMat(1) \in [1..n -> [Particles -> Particles]]
      BY DEF EmptyParentMat
    <2> HIDE DEF n
    <2> QED  BY <2>1, <2>2
  <1>8. TypeOK
    <2>1. parent_index_mat \in Seq([Particles -> Particles])
      BY <1>7
    <2>2. plans \in [Particles -> Seq(Particles)] /\ cache \in [Particles -> Seq(Particles)]
      BY <1>2 DEF NoCache
    <2> QED  BY <1>1, <2>1, <2>2 DEF TypeOK, Self
  <1>9. WorkInHand /\ SlotsHandedOut /\ ContextIsOfThePlanInHand /\ ChildrenOfTheirParents
    BY DEF WorkInHand, SlotsHandedOut, Holders, ContextIsOfThePlanInHand, ChildrenOfTheirParents
  <1>10. SplitsCounted
    <2>1. splits_in_run = 0
      BY <1>6, <1>8, SplitsIsUpto DEF steps
    <2> QED  BY <1>6, <1>7, <2>1 DEF SplitsCounted
  <1>11. CachesInStep
    BY <1>8, EmptyIsPrefix DEF CachesInStep, NoCache, TypeOK
  <1> QED  BY <1>8, <1>9, <1>10, <1>11 DEF IInv

-----------------------------------------------------------------------------
(* The actions of run_smc_step *)

\* What is read off the call stays while the run and the step do.
LEMMA SameStep ==
    ASSUME UNCHANGED <<call, blank, run, step_num>>
    PROVE  /\ steps' = steps /\ splits_in_run' = splits_in_run
           /\ total_smc_steps(run)' = total_smc_steps(run)
           /\ from_blank_map' = from_blank_map
  BY DEF steps, splits_in_run, total_smc_steps, from_blank_map

\* What a thread or the extra particle does leaves the run and the ensemble
\* the round started from alone.
LEMMA RoundLeavesTheRest ==
    ASSUME IInv, UNCHANGED <<driverVars, ensembleVars>>,
           phase \in {"extra", "splitting"}, phase' \in {"extra", "splitting", "failed"}
    PROVE  SplitsCounted' /\ CachesInStep'
  <1>1. UNCHANGED <<call, blank, run, step_num, smc_step_num, plans, cache, parent_index_mat>>
    BY DEF driverVars, ensembleVars
  <1>2. /\ steps' = steps /\ splits_in_run' = splits_in_run
        /\ total_smc_steps(run)' = total_smc_steps(run)
        /\ from_blank_map' = from_blank_map
    BY <1>1, SameStep
  <1>3. SplitsCounted'
    BY <1>1, <1>2 DEF IInv, SplitsCounted
  <1>4. CachesInStep'
    BY <1>1, <1>2 DEF IInv, CachesInStep
  <1> QED  BY <1>3, <1>4

\* A splitting round starts.
LEMMA StartRoundIInv ==
    ASSUME IInv, StartRound
    PROVE  IInv'
  <1> USE Constants DEF StartRound, IInv
  <1>1. UNCHANGED <<call, blank, run, step_num, smc_step_num, plans, cache, parent_index_mat,
                    new_plans, thread_generation_counter, thread_id, pc, at, idx>>
    BY DEF driverVars, ensembleVars
  <1>2. phase = "step" /\ phase' \in {"extra", "splitting"}
    OBVIOUS
  <1>3. \A t \in Threads : pc[t] = "idle"
    BY <1>2 DEF WorkInHand
  <1>4. /\ steps' = steps /\ splits_in_run' = splits_in_run
        /\ total_smc_steps(run)' = total_smc_steps(run)
        /\ from_blank_map' = from_blank_map
    BY <1>1, SameStep
  <1>5. TypeOK'
    <2>1. parent_index_buffer' \in [Particles -> Particles] /\ todo' \subseteq Particles
      OBVIOUS
    <2>2. schedule_ctxs' \in [Slots -> 0..nsims]
      OBVIOUS
    <2>3. generation' \in Nat /\ thread_id_counter' \in Nat
      BY DEF TypeOK
    <2> QED  BY <1>1, <1>2, <2>1, <2>2, <2>3 DEF TypeOK
  <1>6. WorkInHand' /\ ContextIsOfThePlanInHand'
    BY <1>1, <1>3 DEF WorkInHand, ContextIsOfThePlanInHand
  <1>10. ChildrenOfTheirParents'
    BY <1>1, <1>3 DEF ChildrenOfTheirParents
  <1>7. SlotsHandedOut'
    <2>1. generation' = generation + 1 /\ generation \in Nat
      BY DEF TypeOK
    <2>2. \A t \in Threads : /\ thread_generation_counter'[t] \in Nat
                              /\ thread_generation_counter'[t] <= generation
      BY <1>1 DEF SlotsHandedOut, TypeOK
    <2>3. Holders' = {}
      BY <2>1, <2>2 DEF Holders
    <2>4. thread_id_counter' = Cardinality(Holders')
      BY <2>3, FS_EmptySet
    <2>5. \A t \in Threads : thread_generation_counter'[t] <= generation'
      BY <2>1, <2>2
    <2> QED  BY <1>1, <1>3, <2>1, <2>3, <2>4, <2>5 DEF SlotsHandedOut
  <1>8. SplitsCounted'
    BY <1>1, <1>2, <1>4 DEF SplitsCounted
  <1>9. CachesInStep'
    BY <1>1, <1>2, <1>4 DEF CachesInStep
  <1> QED  BY <1>5, <1>6, <1>7, <1>8, <1>9, <1>10

\* The particle that the first thread splits alone.
LEMMA ExtraParticleIInv ==
    ASSUME IInv, ExtraParticle
    PROVE  IInv'
  <1> USE Constants DEF ExtraParticle, IInv
  <1>1. UNCHANGED <<call, blank, run, step_num, smc_step_num, plans, cache, parent_index_mat,
                    generation, thread_id_counter, thread_generation_counter, thread_id,
                    parent_index_buffer, todo, pc, at, idx>>
    BY DEF driverVars, ensembleVars, idVars
  <1>2. phase = "extra" /\ phase' \in {"extra", "splitting", "failed"}
    BY DEF Throw
  <1>3. \A t \in Threads : pc[t] = "idle"
    BY <1>2 DEF WorkInHand
  <1>4. /\ schedule_ctxs' \in [Slots -> 0..nsims]
        /\ new_plans' \in [Particles -> Seq(Particles)]
    <2>1. CASE UNCHANGED <<new_plans, schedule_ctxs>>
      BY <2>1 DEF TypeOK
    <2>2. CASE ~GivesUp("extra")
      <3>1. PICK parent \in Particles, found \in BOOLEAN :
               /\ schedule_ctxs' = [schedule_ctxs EXCEPT ![0] = parent]
               /\ new_plans' = IF found /\ call.hard
                               THEN [new_plans EXCEPT ![1] = Child(parent, 1)]
                               ELSE new_plans
        BY <2>2
      <3>2. Child(parent, 1) \in Seq(Particles)
        BY ChildType
      <3>3. schedule_ctxs' \in [Slots -> 0..nsims]
        BY <3>1 DEF TypeOK
      <3>4. new_plans' \in [Particles -> Seq(Particles)]
        BY <3>1, <3>2 DEF TypeOK
      <3> QED  BY <3>3, <3>4
    <2> QED  BY <2>1, <2>2
  <1>5. TypeOK'
    BY <1>1, <1>2, <1>4 DEF TypeOK
  <1>6. WorkInHand' /\ ContextIsOfThePlanInHand'
    BY <1>1, <1>3 DEF WorkInHand, ContextIsOfThePlanInHand
  <1>7. SlotsHandedOut'
    BY <1>1, <1>2, <1>3 DEF SlotsHandedOut, Holders
  <1>8. SplitsCounted' /\ CachesInStep'
    BY <1>2, RoundLeavesTheRest
  <1>9. ChildrenOfTheirParents'
    BY <1>1, <1>2, <1>3 DEF ChildrenOfTheirParents
  <1> QED  BY <1>5, <1>6, <1>7, <1>8, <1>9 DEF IInv

\* A thread that holds no context leaves one free.
LEMMA HoldersCounted ==
    /\ IsFiniteSet(Holders) /\ Cardinality(Holders) \in Nat
    /\ Cardinality(Holders) <= num_threads
    /\ \A t \in Threads : t \notin Holders => Cardinality(Holders) < num_threads
  <1>1. IsFiniteSet(Threads) /\ Holders \subseteq Threads
    BY Constants DEF Holders
  <1>2. /\ IsFiniteSet(Holders) /\ Cardinality(Holders) <= Cardinality(Threads)
        /\ Cardinality(Holders) = Cardinality(Threads) => Holders = Threads
    BY <1>1, FS_Subset
  <1>3. Cardinality(Holders) \in Nat /\ Cardinality(Threads) \in Nat
    BY <1>1, <1>2, FS_CardinalityType
  <1> QED  BY <1>2, <1>3 DEF num_threads

\* A thread at work has a slot of scratch to itself: the threads of this round
\* that have slots are as many as the counter says, each with one below it.
LEMMA SlotsAreSeparate ==
    ASSUME TypeOK, SlotsHandedOut
    PROVE  OneThreadPerSlot
  <1> SUFFICES ASSUME NEW t \in Threads, pc[t] # "idle"
               PROVE  /\ thread_id[t] \in Slots
                      /\ \A u \in Threads \ {t} : pc[u] # "idle" => thread_id[u] # thread_id[t]
    BY DEF OneThreadPerSlot
  <1>1. t \in Holders /\ generation > 0 /\ \A u \in Threads : pc[u] # "idle" => u \in Holders
    BY DEF SlotsHandedOut
  <1>2. thread_id[t] \in Nat /\ thread_id[t] < Cardinality(Holders)
    BY <1>1 DEF SlotsHandedOut, TypeOK
  <1>3. thread_id[t] \in Slots
    BY <1>2, HoldersCounted, Constants DEF Slots
  <1> QED  BY <1>1, <1>3 DEF SlotsHandedOut

\* A thread takes the next particle, and a context when it has none.
LEMMA TakeIInv ==
    ASSUME IInv, NEW t \in Threads, Take(t)
    PROVE  IInv'
  <1> DEFINE id == IF NeedsSlot(t) THEN thread_id_counter ELSE thread_id[t]
  <1> USE DEF IInv
  <1>1. UNCHANGED <<call, blank, run, step_num, smc_step_num, plans, cache, parent_index_mat,
                    new_plans, parent_index_buffer, generation, schedule_ctxs, idx, reject_ct>>
    BY DEF Take, driverVars, ensembleVars
  <1>2. phase = "splitting" /\ pc[t] = "idle" /\ generation > 0
    BY DEF Take, SlotsHandedOut
  <1>3. PICK i \in todo : todo' = todo \ {i} /\ at' = [at EXCEPT ![t] = i]
    BY DEF Take
  <1>4. i \in Particles /\ todo \subseteq Particles
    BY DEF TypeOK
  <1>5. id \in Slots /\ id \in Nat
    <2>1. CASE NeedsSlot(t)
      <3>1. t \notin Holders
        BY <2>1 DEF NeedsSlot, Holders
      <3>2. id = Cardinality(Holders) /\ id < num_threads
        BY <1>2, <2>1, <3>1, HoldersCounted DEF SlotsHandedOut
      <3> QED  BY <3>2, HoldersCounted, Constants DEF Slots
    <2>2. CASE ~NeedsSlot(t)
      <3>1. t \in Holders
        BY <2>2 DEF NeedsSlot, Holders
      <3>2. id = thread_id[t] /\ id \in Nat /\ id < Cardinality(Holders)
        BY <1>2, <2>2, <3>1 DEF SlotsHandedOut, TypeOK
      <3> QED  BY <3>2, HoldersCounted, Constants DEF Slots
    <2> QED  BY <2>1, <2>2
  <1>6. /\ phase' = phase /\ pc' = [pc EXCEPT ![t] = "draw"]
        /\ thread_id' = [thread_id EXCEPT ![t] = id]
        /\ thread_id_counter' = thread_id_counter + IF NeedsSlot(t) THEN 1 ELSE 0
        /\ thread_generation_counter' = [thread_generation_counter EXCEPT ![t] = generation]
    BY <1>5 DEF Take
  <1> HIDE DEF id
  <1>7. TypeOK'
    <2>1. at' \in [Threads -> 0..nsims] /\ todo' \subseteq Particles
      BY <1>3, <1>4, Constants DEF TypeOK
    <2>2. pc' \in [Threads -> {"idle", "draw", "split", "constraints"}]
      BY <1>6 DEF TypeOK
    <2>3. /\ thread_id' \in [Threads -> Nat] /\ thread_id_counter' \in Nat
          /\ thread_generation_counter' \in [Threads -> Nat]
      BY <1>5, <1>6 DEF TypeOK
    <2> QED  BY <1>1, <1>6, <2>1, <2>2, <2>3 DEF TypeOK
  <1>8. WorkInHand'
    <2>1. \A u \in Threads \ {t} : pc'[u] = pc[u] /\ at'[u] = at[u]
      BY <1>3, <1>6 DEF TypeOK
    <2>2. pc'[t] = "draw" /\ at'[t] = i
      BY <1>3, <1>6 DEF TypeOK
    <2>3. \A u \in Threads : pc[u] # "idle" => at[u] # i
      BY <1>3 DEF WorkInHand
    <2>4. \A u \in Threads : pc'[u] # "idle" =>
             /\ phase' \in {"splitting", "failed"}
             /\ at'[u] \in Particles \ todo'
             /\ \A v \in Threads \ {u} : pc'[v] # "idle" => at'[v] # at'[u]
      BY <1>2, <1>3, <1>4, <1>6, <2>1, <2>2, <2>3 DEF WorkInHand
    <2>5. \A u \in Threads : pc'[u] \in {"split", "constraints"} => idx'[u] \in Particles
      BY <1>1, <2>1, <2>2 DEF WorkInHand
    <2> QED  BY <2>4, <2>5 DEF WorkInHand
  <1>9. SlotsHandedOut'
    <2>1. Holders' = Holders \cup {t}
      BY <1>1, <1>6 DEF Holders, TypeOK
    <2>2. \A u \in Holders : u # t => thread_id'[u] = thread_id[u]
      BY <1>6 DEF Holders, TypeOK
    <2>3. thread_id'[t] = id
      BY <1>6 DEF TypeOK
    <2>4. /\ thread_id_counter' = Cardinality(Holders')
          /\ \A u \in Holders' : thread_id'[u] < thread_id_counter'
          /\ \A u, v \in Holders' : u # v => thread_id'[u] # thread_id'[v]
      <3>1. CASE NeedsSlot(t)
        <4>1. t \notin Holders
          BY <3>1 DEF NeedsSlot, Holders
        <4>2. Cardinality(Holders') = Cardinality(Holders) + 1
          BY <2>1, <4>1, HoldersCounted, FS_AddElement
        <4>3. thread_id_counter' = thread_id_counter + 1 /\ thread_id'[t] = thread_id_counter
          BY <1>6, <2>3, <3>1 DEF id
        <4>4. /\ thread_id_counter = Cardinality(Holders)
              /\ \A u \in Holders : thread_id[u] \in Nat /\ thread_id[u] < thread_id_counter
              /\ \A u, v \in Holders : u # v => thread_id[u] # thread_id[v]
          BY <1>2 DEF SlotsHandedOut, TypeOK, Holders
        <4> QED  BY <2>1, <2>2, <4>1, <4>2, <4>3, <4>4, HoldersCounted
      <3>2. CASE ~NeedsSlot(t)
        <4>1. t \in Holders /\ Holders' = Holders
          BY <2>1, <3>2 DEF NeedsSlot, Holders
        <4>2. thread_id_counter' = thread_id_counter /\ thread_id' = thread_id
          BY <1>6, <3>2 DEF id, TypeOK
        <4> QED  BY <1>2, <4>1, <4>2 DEF SlotsHandedOut
      <3> QED  BY <3>1, <3>2
    <2>5. \A u \in Threads : thread_generation_counter'[u] <= generation'
      BY <1>1, <1>6 DEF SlotsHandedOut, TypeOK
    <2>6. \A u \in Threads : pc'[u] # "idle" => u \in Holders'
      BY <1>6, <2>1 DEF SlotsHandedOut, TypeOK
    <2> QED  BY <1>1, <1>2, <2>4, <2>5, <2>6 DEF SlotsHandedOut
  <1>10. ContextIsOfThePlanInHand'
    <2> SUFFICES ASSUME NEW u \in Threads, pc'[u] = "split"
                 PROVE  schedule_ctxs'[thread_id'[u]] = idx'[u]
      BY DEF ContextIsOfThePlanInHand
    <2>1. u # t /\ pc[u] = "split" /\ thread_id'[u] = thread_id[u]
      BY <1>6 DEF TypeOK
    <2> QED  BY <1>1, <2>1 DEF ContextIsOfThePlanInHand
  <1>11. ChildrenOfTheirParents'
    BY <1>1, <1>2, <1>3, <1>4, <1>6 DEF ChildrenOfTheirParents, Child, TypeOK
  <1>12. SplitsCounted' /\ CachesInStep'
    BY <1>2, <1>6, RoundLeavesTheRest DEF Take
  <1> QED  BY <1>7, <1>8, <1>9, <1>10, <1>11, <1>12

\* It draws a parent.
LEMMA DrawIInv ==
    ASSUME IInv, NEW t \in Threads, Draw(t)
    PROVE  IInv'
  <1> USE DEF IInv
  <1>1. UNCHANGED <<call, blank, run, step_num, smc_step_num, plans, cache, parent_index_mat,
                    new_plans, parent_index_buffer, todo, generation, thread_id_counter,
                    thread_generation_counter, thread_id, at, reject_ct>>
    BY DEF Draw, driverVars, ensembleVars, idVars
  <1>2. phase = "splitting" /\ pc[t] = "draw" /\ phase' \in {"splitting", "failed"}
    BY DEF Draw, Throw
  <1>3. SplitsCounted' /\ CachesInStep'
    BY <1>2, RoundLeavesTheRest DEF Draw
  <1>4. CASE phase' = "failed" /\ UNCHANGED <<idx, schedule_ctxs, pc>>
    <2>1. TypeOK'
      BY <1>1, <1>4 DEF TypeOK
    <2>2. WorkInHand' /\ ContextIsOfThePlanInHand' /\ ChildrenOfTheirParents'
      BY <1>1, <1>4 DEF WorkInHand, ContextIsOfThePlanInHand, ChildrenOfTheirParents
    <2>3. SlotsHandedOut'
      BY <1>1, <1>4 DEF SlotsHandedOut, Holders
    <2> QED  BY <1>3, <2>1, <2>2, <2>3
  <1>5. CASE ~GivesUp(t)
    <2>1. PICK parent \in Particles : idx' = [idx EXCEPT ![t] = parent] /\ build_context(t, parent)
      BY <1>5 DEF Draw
    <2>2. schedule_ctxs' = [schedule_ctxs EXCEPT ![thread_id[t]] = parent]
      BY <2>1 DEF build_context
    <2>3. phase' = phase /\ pc' = [pc EXCEPT ![t] = "split"]
      BY <1>5 DEF Draw
    <2>4. /\ pc'[t] = "split" /\ idx'[t] = parent
          /\ \A u \in Threads \ {t} : pc'[u] = pc[u] /\ idx'[u] = idx[u]
      BY <2>1, <2>3 DEF TypeOK
    <2>5. TypeOK'
      <3>1. idx' \in [Threads -> 0..nsims] /\ schedule_ctxs' \in [Slots -> 0..nsims]
        BY <2>1, <2>2, Constants DEF TypeOK
      <3>2. pc' \in [Threads -> {"idle", "draw", "split", "constraints"}]
        BY <2>3 DEF TypeOK
      <3> QED  BY <1>1, <2>3, <3>1, <3>2 DEF TypeOK
    <2>6. WorkInHand'
      BY <1>1, <1>2, <2>3, <2>4 DEF WorkInHand
    <2>7. SlotsHandedOut'
      BY <1>1, <1>2, <2>3, <2>4 DEF SlotsHandedOut, Holders
    <2>8. ContextIsOfThePlanInHand'
      <3>1. thread_id[t] \in Slots
        BY <1>2, SlotsAreSeparate DEF OneThreadPerSlot
      <3>2. schedule_ctxs'[thread_id[t]] = parent
        BY <2>2, <3>1 DEF TypeOK
      <3>3. ASSUME NEW u \in Threads \ {t}, pc[u] = "split"
            PROVE  schedule_ctxs'[thread_id[u]] = idx[u]
        <4>1. thread_id[u] # thread_id[t] /\ thread_id[u] \in Slots
          BY <1>2, <3>3, SlotsAreSeparate DEF OneThreadPerSlot
        <4>2. schedule_ctxs'[thread_id[u]] = schedule_ctxs[thread_id[u]]
          BY <2>2, <4>1 DEF TypeOK
        <4> QED  BY <3>3, <4>2 DEF ContextIsOfThePlanInHand
      <3> QED  BY <1>1, <2>4, <3>2, <3>3 DEF ContextIsOfThePlanInHand
    <2>9. ChildrenOfTheirParents'
      BY <1>1, <1>2, <2>3, <2>4 DEF ChildrenOfTheirParents, Child
    <2> QED  BY <1>3, <2>5, <2>6, <2>7, <2>8, <2>9
  <1> QED  BY <1>4, <1>5 DEF Draw, Throw

\* What Keep and Retry leave to show: the new plan of the particle in hand is
\* the child of the parent in hand, and no other has changed.
LEMMA KeepOrRetryIInv ==
    ASSUME IInv, NEW t \in Threads, Keep(t) \/ Retry(t),
           pc[t] \in {"split", "constraints"}, phase = "splitting",
           new_plans' \in [Particles -> Seq(Particles)],
           \A i \in Particles \ {at[t]} : new_plans'[i] = new_plans[i],
           Keep(t) => new_plans'[at[t]] = Child(idx[t], at[t]),
           UNCHANGED <<driverVars, phase, ensembleVars, todo, idVars, schedule_ctxs>>
    PROVE  IInv'
  <1> USE DEF IInv
  <1>1. UNCHANGED <<call, blank, run, step_num, smc_step_num, plans, cache, parent_index_mat,
                    todo, generation, thread_id_counter,
                    thread_generation_counter, thread_id, schedule_ctxs, phase>>
    BY DEF driverVars, ensembleVars, idVars
  <1>2. SplitsCounted' /\ CachesInStep'
    BY <1>1, RoundLeavesTheRest
  <1>3. idx[t] \in Particles /\ at[t] \in Particles
    BY DEF WorkInHand
  <1>4. /\ pc'[t] \in {"idle", "draw"}
        /\ pc' \in [Threads -> {"idle", "draw", "split", "constraints"}]
        /\ \A u \in Threads \ {t} : pc'[u] = pc[u] /\ idx'[u] = idx[u] /\ at'[u] = at[u]
    BY DEF Keep, Retry, TypeOK
  <1>5. pc'[t] # "idle" => at' = at
    BY DEF Keep, Retry, TypeOK
  <1>6. TypeOK'
    <2>1. 0 \in 0..nsims
      BY Constants
    <2>2. idx' \in [Threads -> 0..nsims] /\ at' \in [Threads -> 0..nsims]
      <3>1. /\ idx' = [idx EXCEPT ![t] = 0]
            /\ at' = [at EXCEPT ![t] = 0] \/ at' = at
        BY DEF Keep, Retry
      <3> QED  BY <2>1, <3>1 DEF TypeOK
    <2>3. parent_index_buffer' \in [Particles -> Particles]
      BY <1>3 DEF Keep, Retry, TypeOK
    <2> QED  BY <1>1, <1>4, <2>2, <2>3 DEF TypeOK
  <1>7. WorkInHand'
    <2>1. \A u \in Threads : pc'[u] # "idle" => pc[u] # "idle" /\ at'[u] = at[u]
      BY <1>4, <1>5
    <2>2. \A u \in Threads : pc'[u] # "idle" =>
             /\ phase' \in {"splitting", "failed"}
             /\ at'[u] \in Particles \ todo'
             /\ \A v \in Threads \ {u} : pc'[v] # "idle" => at'[v] # at'[u]
      BY <1>1, <2>1 DEF WorkInHand
    <2>3. \A u \in Threads : pc'[u] \in {"split", "constraints"} => idx'[u] \in Particles
      BY <1>4 DEF WorkInHand
    <2> QED  BY <2>2, <2>3 DEF WorkInHand
  <1>8. SlotsHandedOut'
    BY <1>1, <1>4 DEF SlotsHandedOut, Holders
  <1>9. ContextIsOfThePlanInHand'
    BY <1>1, <1>4 DEF ContextIsOfThePlanInHand
  <1>10. ChildrenOfTheirParents'
    <2>1. \A u \in Threads \ {t} : pc[u] # "idle" => at[u] # at[t] /\ at[u] \in Particles
      BY DEF WorkInHand
    <2>2. \A i \in Particles \ {at[t]} : parent_index_buffer'[i] = parent_index_buffer[i]
      BY <1>3 DEF Keep, Retry, TypeOK
    <2>3. \A p, i : Child(p, i)' = Child(p, i)
      BY <1>1 DEF Child
    <2>4. ASSUME NEW i \in Particles \ todo'
          PROVE  \/ \E u \in Threads : pc'[u] # "idle" /\ at'[u] = i
                 \/ new_plans'[i] = Append(plans[parent_index_buffer'[i]], i)
      <3>1. CASE i # at[t]
        <4>1. CASE \E u \in Threads : pc[u] # "idle" /\ at[u] = i
          BY <1>4, <3>1, <4>1
        <4>2. CASE new_plans[i] = Child(parent_index_buffer[i], i)
          BY <2>2, <3>1, <4>2 DEF Child
        <4> QED  BY <1>1, <2>4, <4>1, <4>2 DEF ChildrenOfTheirParents
      <3>2. CASE i = at[t] /\ Retry(t)
        BY <3>2 DEF Retry, TypeOK
      <3>3. CASE i = at[t] /\ Keep(t)
        <4>1. parent_index_buffer'[i] = idx[t]
          BY <1>3, <3>3 DEF Keep, TypeOK
        <4> QED  BY <3>3, <4>1 DEF Child
      <3> QED  BY <3>1, <3>2, <3>3
    <2>5. ASSUME NEW u \in Threads, pc'[u] = "constraints"
          PROVE  new_plans'[at'[u]] = Append(plans[idx'[u]], at'[u])
      <3>1. u # t /\ pc[u] = "constraints" /\ at'[u] = at[u] /\ idx'[u] = idx[u]
        BY <1>4, <2>5
      <3>2. new_plans[at[u]] = Child(idx[u], at[u])
        BY <3>1 DEF ChildrenOfTheirParents
      <3> QED  BY <2>1, <3>1, <3>2 DEF Child
    <2> QED  BY <1>1, <2>4, <2>5 DEF ChildrenOfTheirParents, Child
  <1> QED  BY <1>2, <1>6, <1>7, <1>8, <1>9, <1>10

\* It splits the parent's plan, or tries again.
LEMMA SplitIInv ==
    ASSUME IInv, NEW t \in Threads, Split(t)
    PROVE  IInv'
  <1> USE DEF IInv
  <1>1. /\ UNCHANGED <<driverVars, phase, ensembleVars, todo, idVars, schedule_ctxs>>
        /\ phase = "splitting" /\ pc[t] = "split"
    BY DEF Split
  <1>2. UNCHANGED <<call, blank, run, step_num, smc_step_num, plans, cache, parent_index_mat,
                    todo, generation, thread_id_counter,
                    thread_generation_counter, thread_id, schedule_ctxs, phase>>
    BY <1>1 DEF driverVars, ensembleVars, idVars
  <1>3. idx[t] \in Particles /\ at[t] \in Particles
    BY <1>1 DEF WorkInHand
  <1>4. CASE Retry(t) /\ UNCHANGED new_plans
    <2>1. ~Keep(t)
      BY <1>4 DEF Keep, Retry, TypeOK
    <2> QED  BY <1>1, <1>4, <2>1, KeepOrRetryIInv DEF TypeOK
  <1>5. CASE new_plans' = [new_plans EXCEPT ![at[t]] = Child(idx[t], at[t])]
    <2>1. new_plans' \in [Particles -> Seq(Particles)]
      BY <1>3, <1>5, ChildType DEF TypeOK
    <2>2. /\ new_plans'[at[t]] = Child(idx[t], at[t])
          /\ \A i \in Particles \ {at[t]} : new_plans'[i] = new_plans[i]
      BY <1>3, <1>5 DEF TypeOK
    <2>3. CASE Keep(t)
      BY <1>1, <2>1, <2>2, <2>3, KeepOrRetryIInv
    <2>4. CASE /\ pc' = [pc EXCEPT ![t] = "constraints"]
               /\ UNCHANGED <<parent_index_buffer, at, idx, reject_ct>>
      <3>1. SplitsCounted' /\ CachesInStep'
        BY <1>1, RoundLeavesTheRest
      <3>2. pc'[t] = "constraints" /\ \A u \in Threads \ {t} : pc'[u] = pc[u]
        BY <2>4 DEF TypeOK
      <3>3. TypeOK'
        <4>1. pc' \in [Threads -> {"idle", "draw", "split", "constraints"}]
          BY <2>4 DEF TypeOK
        <4> QED  BY <1>2, <2>1, <2>4, <4>1 DEF TypeOK
      <3>4. WorkInHand'
        BY <1>1, <1>2, <2>4, <3>2 DEF WorkInHand
      <3>5. SlotsHandedOut'
        BY <1>1, <1>2, <3>2 DEF SlotsHandedOut, Holders
      <3>6. ContextIsOfThePlanInHand'
        BY <1>2, <2>4, <3>2 DEF ContextIsOfThePlanInHand
      <3>7. ChildrenOfTheirParents'
        <4>1. \A u \in Threads \ {t} : pc[u] # "idle" => at[u] # at[t] /\ at[u] \in Particles
          BY <1>1 DEF WorkInHand
        <4>2. ASSUME NEW i \in Particles \ todo'
              PROVE  \/ \E u \in Threads : pc'[u] # "idle" /\ at'[u] = i
                     \/ new_plans'[i] = Append(plans[parent_index_buffer'[i]], i)
          <5>1. CASE i = at[t]
            BY <2>4, <3>2, <5>1
          <5>2. CASE i # at[t]
            BY <1>1, <1>2, <2>2, <2>4, <3>2, <4>2, <5>2 DEF ChildrenOfTheirParents, Child
          <5> QED  BY <5>1, <5>2
        <4>3. ASSUME NEW u \in Threads, pc'[u] = "constraints"
              PROVE  new_plans'[at'[u]] = Append(plans[idx'[u]], at'[u])
          <5>1. CASE u = t
            BY <2>2, <2>4, <5>1 DEF Child
          <5>2. CASE u # t
            <6>1. pc[u] = "constraints" /\ new_plans'[at[u]] = new_plans[at[u]]
              BY <2>2, <3>2, <4>1, <4>3, <5>2
            <6> QED  BY <1>1, <2>4, <6>1 DEF ChildrenOfTheirParents, Child
          <5> QED  BY <5>1, <5>2
        <4> QED  BY <1>1, <1>2, <4>2, <4>3 DEF ChildrenOfTheirParents, Child
      <3> QED  BY <3>1, <3>3, <3>4, <3>5, <3>6, <3>7
    <2> QED  BY <1>4, <1>5, <2>3, <2>4 DEF Split
  <1> QED  BY <1>4, <1>5 DEF Split

\* A plan that breaks a hard constraint is drawn again.
LEMMA HardConstraintsIInv ==
    ASSUME IInv, NEW t \in Threads, HardConstraints(t)
    PROVE  IInv'
  <1>1. new_plans \in [Particles -> Seq(Particles)] /\ new_plans' = new_plans
    BY DEF HardConstraints, IInv, TypeOK
  <1>2. new_plans[at[t]] = Child(idx[t], at[t])
    BY DEF HardConstraints, IInv, ChildrenOfTheirParents
  <1> QED  BY <1>1, <1>2, KeepOrRetryIInv DEF HardConstraints

\* The round ends when every particle is split.
LEMMA EndRoundIInv ==
    ASSUME IInv, EndRound
    PROVE  IInv'
  <1> USE DEF IInv
  <1>1. /\ UNCHANGED <<call, blank, run, step_num, smc_step_num, cache, parent_index_buffer, todo,
                    generation, thread_id_counter, thread_generation_counter, thread_id,
                    schedule_ctxs, pc, at, idx>>
        /\ phase = "splitting" /\ phase' = "weighing" /\ todo = {}
        /\ plans' = new_plans /\ new_plans' = plans
        /\ \A t \in Threads : pc[t] = "idle"
    BY DEF EndRound, driverVars, idVars
  <1>2. /\ steps' = steps /\ splits_in_run' = splits_in_run
        /\ total_smc_steps(run)' = total_smc_steps(run)
        /\ from_blank_map' = from_blank_map
    BY <1>1, SameStep
  <1>3. /\ step_num \in 1..Len(steps) /\ steps[step_num] = "smc"
        /\ smc_step_num + 1 \in DOMAIN parent_index_mat
    BY <1>1, Constants DEF SplitsCounted, TypeOK
  <1>4. StoredParents \in [Particles -> Particles]
    BY DEF StoredParents, Self, TypeOK
  <1>5. /\ parent_index_mat' \in Seq([Particles -> Particles])
        /\ Len(parent_index_mat') = Len(parent_index_mat)
        /\ parent_index_mat'[smc_step_num + 1] = StoredParents
    BY <1>3, <1>4 DEF EndRound, TypeOK
  <1>6. TypeOK'
    BY <1>1, <1>5 DEF TypeOK
  <1>7. WorkInHand' /\ ContextIsOfThePlanInHand' /\ ChildrenOfTheirParents'
    BY <1>1 DEF WorkInHand, ContextIsOfThePlanInHand, ChildrenOfTheirParents
  <1>8. SlotsHandedOut'
    BY <1>1 DEF SlotsHandedOut, Holders
  <1>9. SplitsCounted'
    BY <1>1, <1>2, <1>5 DEF SplitsCounted
  <1>10. CachesInStep'
    <2> SUFFICES ASSUME NEW i \in Particles
                 PROVE  IsPrefix(cache[StoredParents[i]], new_plans[i])
      BY <1>1, <1>5 DEF CachesInStep, Parents
    <2>1. new_plans[i] = Append(plans[parent_index_buffer[i]], i)
      BY <1>1 DEF ChildrenOfTheirParents, Child
    <2>2. /\ parent_index_buffer[i] \in Particles /\ new_plans[i] \in Seq(Particles)
          /\ plans[parent_index_buffer[i]] \in Seq(Particles)
          /\ cache[parent_index_buffer[i]] \in Seq(Particles)
      BY DEF TypeOK
    <2>3. CASE smc_step_num = 0 /\ from_blank_map
      <3>1. splits_in_run = 0
        <4>1. splits_in_run < total_smc_steps(run)
          <5>1. run \in 1..Len(call.runs) /\ steps = call.runs[run].steps
            BY DEF TypeOK, steps
          <5>2. steps \in Seq({"smc", "ms"}) /\ total_smc_steps(run) = Cardinality(Upto(steps, Len(steps)))
            BY <5>1, TotalIsUpto
          <5> QED  BY <1>3, <5>2, SplitsIsUpto, UptoLess
        <4> QED  BY <2>3, <4>1 DEF SplitsCounted
      <3>2. cache[i] = <<>>
        BY <1>1, <2>3, <3>1 DEF CachesInStep
      <3> QED  BY <2>2, <2>3, <3>2, EmptyIsPrefix DEF StoredParents, Self
    <2>4. CASE ~(smc_step_num = 0 /\ from_blank_map)
      <3>1. IsPrefix(cache[parent_index_buffer[i]], plans[parent_index_buffer[i]])
        BY <1>1, <2>2 DEF CachesInStep
      <3>2. IsPrefix(cache[parent_index_buffer[i]], Append(plans[parent_index_buffer[i]], i))
        BY <2>2, <3>1, PrefixOfChild
      <3> QED  BY <2>1, <2>4, <3>2 DEF StoredParents
    <2> QED  BY <2>3, <2>4
  <1> QED  BY <1>6, <1>7, <1>8, <1>9, <1>10

-----------------------------------------------------------------------------
(* The actions of run_redist_smc *)

\* Before a split of the run the driver's number of the split is the number of
\* splits made; afterwards there is one more.
LEMMA SplitAtHand ==
    ASSUME TypeOK, SplitsCounted, step_num \in 1..Len(steps), steps[step_num] = "smc",
           UNCHANGED <<call, run>>, step_num' = step_num + 1
    PROVE  splits_in_run = smc_step_num /\ splits_in_run' = smc_step_num + 1
  <1>1. steps \in Seq({"smc", "ms"}) /\ total_smc_steps(run) = Cardinality(Upto(steps, Len(steps)))
    BY TotalIsUpto DEF TypeOK, steps
  <1>2. splits_in_run < total_smc_steps(run)
    BY <1>1, SplitsIsUpto, UptoLess
  <1>3. splits_in_run = smc_step_num
    BY <1>2 DEF SplitsCounted
  <1>4. splits_in_run' = Cardinality(Upto(steps, step_num))
    <2>1. steps' = steps /\ step_num' - 1 = step_num
      BY DEF TypeOK, steps
    <2> QED  BY <2>1 DEF splits_in_run, Upto
  <1>5. Cardinality(Upto(steps, step_num)) = Cardinality(Upto(steps, step_num - 1)) + 1
    BY UptoNext DEF TypeOK
  <1> QED  BY <1>3, <1>4, <1>5, SplitsIsUpto

\* Outside a splitting round the threads are idle and keep what they have.
LEMMA ThreadsIdle ==
    ASSUME IInv, phase \notin {"splitting", "failed"}, phase' \notin {"extra", "splitting"},
           UNCHANGED <<generation, thread_id_counter, thread_generation_counter, thread_id,
                       todo, pc, at, idx>>
    PROVE  WorkInHand' /\ SlotsHandedOut' /\ ContextIsOfThePlanInHand' /\ ChildrenOfTheirParents'
  <1>1. \A t \in Threads : pc[t] = "idle" /\ pc'[t] = "idle"
    BY DEF IInv, WorkInHand
  <1>2. WorkInHand' /\ ContextIsOfThePlanInHand' /\ ChildrenOfTheirParents'
    BY <1>1 DEF WorkInHand, ContextIsOfThePlanInHand, ChildrenOfTheirParents
  <1>3. SlotsHandedOut'
    BY <1>1 DEF IInv, SlotsHandedOut, Holders
  <1> QED  BY <1>2, <1>3

\* Resampling moves plans and caches alike.
LEMMA ResampleKeeps ==
    ASSUME NEW P \in [Particles -> Seq(Particles)], NEW C \in [Particles -> Seq(Particles)],
           NEW M \in Seq([Particles -> Particles]), Resample(P, C, M),
           \A i \in Particles : IsPrefix(C[i], P[i])
    PROVE  /\ plans' \in [Particles -> Seq(Particles)] /\ new_plans' = P
           /\ cache' \in [Particles -> Seq(Particles)]
           /\ parent_index_mat' \in Seq([Particles -> Particles])
           /\ Len(parent_index_mat') = Len(M)
           /\ \A i \in Particles : IsPrefix(cache'[i], plans'[i])
           /\ \A i \in Particles : \E j \in Particles : cache'[i] = C[j]
  <1>1. PICK f \in ResampleIndices :
           /\ plans' = [i \in Particles |-> P[f[i]]] /\ new_plans' = P
           /\ cache' = [i \in Particles |-> C[f[i]]]
           /\ parent_index_mat' = [M EXCEPT ![Len(M)] = f]
    BY DEF Resample
  <1>2. f \in [Particles -> Particles]
    BY DEF ResampleIndices
  <1>3. /\ plans' \in [Particles -> Seq(Particles)] /\ new_plans' = P
        /\ cache' \in [Particles -> Seq(Particles)]
    BY <1>1, <1>2
  <1>4. /\ parent_index_mat' \in Seq([Particles -> Particles])
        /\ Len(parent_index_mat') = Len(M)
    <2> DEFINE T == [Particles -> Particles]
    <2>1. M \in Seq(T) /\ f \in T /\ parent_index_mat' = [M EXCEPT ![Len(M)] = f]
      BY <1>1, <1>2
    <2> HIDE DEF T
    <2>2. Len(M) \in Nat /\ M \in [1..Len(M) -> T]
      BY <2>1, LenProperties
    <2>3. parent_index_mat' \in [1..Len(M) -> T]
      BY <2>1, <2>2
    <2>4. parent_index_mat' \in Seq(T)
      <3>1. \A n \in Nat : \A m \in [1..n -> T] : m \in Seq(T)
        OBVIOUS
      <3> QED  BY <2>2, <2>3, <3>1
    <2>5. Len(parent_index_mat') \in Nat /\ 1..Len(parent_index_mat') = 1..Len(M)
      BY <2>3, <2>4, LenProperties
    <2>6. Len(parent_index_mat') = Len(M)
      BY <2>2, <2>5
    <2> QED  BY <2>4, <2>6 DEF T
  <1>5. \A i \in Particles : f[i] \in Particles /\ cache'[i] = C[f[i]] /\ plans'[i] = P[f[i]]
    BY <1>1, <1>2
  <1> QED  BY <1>1, <1>3, <1>4, <1>5

\* Weights are computed.
LEMMA ReweighIInv ==
    ASSUME IInv, Reweigh
    PROVE  IInv'
  <1> USE DEF IInv
  <1> DEFINE weighed == [i \in Particles |-> BroughtUpToDate(ParentRow(i), plans[i])]
  <1>1. /\ UNCHANGED <<call, blank, run, parent_index_buffer, todo,
                    generation, thread_id_counter, thread_generation_counter, thread_id,
                    schedule_ctxs, pc, at, idx>>
        /\ phase = "weighing" /\ phase' = "step" /\ step_num' = step_num + 1
        /\ smc_step_num' = smc_step_num + IF is_final_splitting_step THEN 0 ELSE 1
    BY DEF Reweigh, idVars
  <1>2. \/ Resample(plans, weighed, parent_index_mat)
        \/ cache' = weighed /\ UNCHANGED <<plans, new_plans, parent_index_mat>>
    BY DEF Reweigh
  <1>3. \A i \in Particles : IsPrefix(ParentRow(i), plans[i])
    BY <1>1 DEF CachesInStep, ParentRow
  <1>4. weighed = plans
    BY <1>3 DEF BroughtUpToDate, TypeOK
  <1> HIDE DEF weighed
  <1>5. /\ plans \in [Particles -> Seq(Particles)] /\ new_plans \in [Particles -> Seq(Particles)]
        /\ parent_index_mat \in Seq([Particles -> Particles])
    BY DEF TypeOK
  <1>6. \A i \in Particles : IsPrefix(plans[i], plans[i])
    BY <1>5, PrefixOfItself
  <1>7. /\ plans' \in [Particles -> Seq(Particles)]
        /\ new_plans' \in [Particles -> Seq(Particles)]
        /\ cache' \in [Particles -> Seq(Particles)]
        /\ parent_index_mat' \in Seq([Particles -> Particles])
        /\ Len(parent_index_mat') = Len(parent_index_mat)
        /\ \A i \in Particles : IsPrefix(cache'[i], plans'[i])
    <2>1. CASE Resample(plans, plans, parent_index_mat)
      BY <1>5, <1>6, <2>1, ResampleKeeps
    <2>2. CASE cache' = plans /\ UNCHANGED <<plans, new_plans, parent_index_mat>>
      BY <1>5, <1>6, <2>2
    <2> QED  BY <1>2, <1>4, <2>1, <2>2
  <1>8. TypeOK'
    BY <1>1, <1>7 DEF TypeOK
  <1>9. WorkInHand' /\ SlotsHandedOut' /\ ContextIsOfThePlanInHand' /\ ChildrenOfTheirParents'
    BY <1>1, ThreadsIdle
  <1>10. step_num \in 1..Len(steps) /\ steps[step_num] = "smc"
    BY <1>1 DEF SplitsCounted, TypeOK
  <1>11. splits_in_run = smc_step_num /\ splits_in_run' = smc_step_num + 1
    BY <1>1, <1>10, SplitAtHand
  <1>12. total_smc_steps(run)' = total_smc_steps(run) /\ total_smc_steps(run) \in Nat
    BY <1>1 DEF total_smc_steps, SplitsCounted
  <1>13. SplitsCounted'
    BY <1>1, <1>7, <1>11, <1>12 DEF SplitsCounted, is_final_splitting_step, TypeOK
  <1>14. CachesInStep'
    <2>1. splits_in_run' # 0
      BY <1>11 DEF TypeOK
    <2> QED  BY <1>1, <1>7, <2>1 DEF CachesInStep
  <1> QED  BY <1>8, <1>9, <1>13, <1>14

\* A merge-split round.
LEMMA MergeSplitRoundIInv ==
    ASSUME IInv, MergeSplitRound
    PROVE  IInv'
  <1> USE DEF IInv
  <1>1. /\ UNCHANGED <<call, blank, run, smc_step_num, phase, plans, cache, parent_index_mat,
                    parent_index_buffer, todo,
                    generation, thread_id_counter, thread_generation_counter, thread_id,
                    schedule_ctxs, pc, at, idx>>
        /\ phase = "step" /\ step_num' = step_num + 1 /\ steps[step_num] = "ms"
    BY DEF MergeSplitRound, ensembleVars, idVars
  <1>2. new_plans' \in [Particles -> Seq(Particles)]
    BY DEF MergeSplitRound, TypeOK
  <1>3. TypeOK'
    BY <1>1, <1>2 DEF TypeOK
  <1>4. WorkInHand' /\ SlotsHandedOut' /\ ContextIsOfThePlanInHand' /\ ChildrenOfTheirParents'
    BY <1>1, ThreadsIdle
  <1>5. splits_in_run' = splits_in_run
    <2>1. step_num \in Nat \ {0} /\ steps' = steps /\ step_num' - 1 = step_num
      BY <1>1 DEF TypeOK, steps
    <2>2. splits_in_run' = Cardinality(Upto(steps, step_num))
      BY <2>1 DEF splits_in_run, Upto
    <2>3. Cardinality(Upto(steps, step_num)) = Cardinality(Upto(steps, step_num - 1)) + 0
      BY <1>1, <2>1, UptoNext
    <2> QED  BY <2>2, <2>3, SplitsIsUpto
  <1>6. /\ total_smc_steps(run)' = total_smc_steps(run) /\ from_blank_map' = from_blank_map
    BY <1>1 DEF total_smc_steps, from_blank_map
  <1>7. SplitsCounted' /\ CachesInStep'
    BY <1>1, <1>5, <1>6 DEF SplitsCounted, CachesInStep
  <1> QED  BY <1>3, <1>4, <1>7

\* A run ends.
LEMMA EndRunIInv ==
    ASSUME IInv, EndRun
    PROVE  IInv'
  <1> USE DEF IInv
  <1>1. /\ UNCHANGED <<call, blank, run, step_num, smc_step_num,
                    parent_index_buffer, todo,
                    generation, thread_id_counter, thread_generation_counter, thread_id,
                    schedule_ctxs, pc, at, idx>>
        /\ phase = "step" /\ phase' = "finished"
    BY DEF EndRun, driverVars, idVars
  <1>2. \/ Resample(plans, cache, parent_index_mat)
        \/ UNCHANGED <<plans, new_plans, cache, parent_index_mat>>
    BY DEF EndRun
  <1>3. /\ plans \in [Particles -> Seq(Particles)] /\ new_plans \in [Particles -> Seq(Particles)]
        /\ cache \in [Particles -> Seq(Particles)]
        /\ parent_index_mat \in Seq([Particles -> Particles])
        /\ \A i \in Particles : IsPrefix(cache[i], plans[i])
    BY <1>1 DEF TypeOK, CachesInStep
  <1>4. /\ plans' \in [Particles -> Seq(Particles)]
        /\ new_plans' \in [Particles -> Seq(Particles)]
        /\ cache' \in [Particles -> Seq(Particles)]
        /\ parent_index_mat' \in Seq([Particles -> Particles])
        /\ Len(parent_index_mat') = Len(parent_index_mat)
        /\ \A i \in Particles : IsPrefix(cache'[i], plans'[i])
        /\ \A i \in Particles : \E j \in Particles : cache'[i] = cache[j]
    BY <1>2, <1>3, ResampleKeeps
  <1>5. TypeOK'
    BY <1>1, <1>4 DEF TypeOK
  <1>6. WorkInHand' /\ SlotsHandedOut' /\ ContextIsOfThePlanInHand' /\ ChildrenOfTheirParents'
    BY <1>1, ThreadsIdle
  <1>7. /\ steps' = steps /\ splits_in_run' = splits_in_run
        /\ total_smc_steps(run)' = total_smc_steps(run)
        /\ from_blank_map' = from_blank_map
    BY <1>1, SameStep
  <1>8. SplitsCounted'
    BY <1>1, <1>4, <1>7 DEF SplitsCounted
  <1>9. CachesInStep'
    BY <1>1, <1>4, <1>7 DEF CachesInStep
  <1> QED  BY <1>5, <1>6, <1>8, <1>9

\* The matrix of parents a run starts with has a column for every split.
LEMMA EmptyParentMatType ==
    ASSUME TypeOK, NEW r \in 1..Len(call.runs)
    PROVE  /\ EmptyParentMat(r) \in Seq([Particles -> Particles])
           /\ total_smc_steps(r) <= Len(EmptyParentMat(r))
  <1> DEFINE n == total_smc_steps(r) + IF call.runs[r].resample THEN 1 ELSE 0
  <1>1. n \in Nat /\ total_smc_steps(r) <= n
    BY TotalIsUpto
  <1>2. EmptyParentMat(r) \in [1..n -> [Particles -> Particles]]
    BY Constants DEF EmptyParentMat
  <1> HIDE DEF n
  <1> QED  BY <1>1, <1>2

\* A run continues from the plans of the last.
LEMMA ContinueIInv ==
    ASSUME IInv, Continue
    PROVE  IInv'
  <1> USE DEF IInv
  <1>1. /\ UNCHANGED <<call, blank, plans, parent_index_buffer, todo,
                    generation, thread_id_counter, thread_generation_counter, thread_id,
                    schedule_ctxs, pc, at, idx>>
        /\ phase = "finished" /\ phase' = "step" /\ run < Len(call.runs)
        /\ run' = run + 1 /\ step_num' = 1 /\ smc_step_num' = 0
        /\ new_plans' = plans /\ cache' = NoCache
        /\ parent_index_mat' = EmptyParentMat(run')
    BY DEF Continue, idVars
  <1>2. run' \in 1..Len(call.runs) /\ run' # 1
    BY <1>1, SMCEnsembleAssumption DEF TypeOK
  <1>3. /\ EmptyParentMat(run') \in Seq([Particles -> Particles])
        /\ total_smc_steps(run') <= Len(EmptyParentMat(run'))
        /\ total_smc_steps(run') \in Nat \ {0}
    BY <1>2, EmptyParentMatType, TotalIsUpto
  <1>4. NoCache \in [Particles -> Seq(Particles)]
    BY DEF NoCache
  <1>5. TypeOK'
    BY <1>1, <1>2, <1>3, <1>4 DEF TypeOK
  <1>6. WorkInHand' /\ SlotsHandedOut' /\ ContextIsOfThePlanInHand' /\ ChildrenOfTheirParents'
    BY <1>1, ThreadsIdle
  <1>7. total_smc_steps(run)' = total_smc_steps(run')
    BY <1>1 DEF total_smc_steps
  <1>8. splits_in_run' = 0
    <2>1. splits_in_run' = Cardinality({k \in 1..(1 - 1) : steps'[k] = "smc"})
      BY <1>1 DEF splits_in_run
    <2>2. {k \in 1..(1 - 1) : steps'[k] = "smc"} = {}
      OBVIOUS
    <2> QED  BY <2>1, <2>2, FS_EmptySet
  <1>9. SplitsCounted'
    BY <1>1, <1>3, <1>7, <1>8 DEF SplitsCounted
  <1>10. CachesInStep'
    <2>1. ~from_blank_map'
      BY <1>2 DEF from_blank_map
    <2>2. \A i \in Particles : IsPrefix(cache'[i], plans'[i])
      BY <1>1, EmptyIsPrefix DEF NoCache, TypeOK
    <2> QED  BY <1>1, <2>1, <2>2 DEF CachesInStep
  <1> QED  BY <1>5, <1>6, <1>9, <1>10

\* A step that changes nothing.
LEMMA StutterIInv ==
    ASSUME IInv, UNCHANGED vars
    PROVE  IInv'
  <1>1. UNCHANGED <<call, blank, run, step_num, smc_step_num, phase, plans, new_plans, cache,
                    parent_index_mat, parent_index_buffer, todo,
                    generation, thread_id_counter, thread_generation_counter, thread_id,
                    schedule_ctxs, pc, at, idx>>
    BY DEF vars, driverVars, ensembleVars, idVars
  <1>2. /\ steps' = steps /\ splits_in_run' = splits_in_run
        /\ total_smc_steps(run)' = total_smc_steps(run)
        /\ from_blank_map' = from_blank_map
    BY <1>1, SameStep
  <1>3. TypeOK' /\ WorkInHand' /\ ContextIsOfThePlanInHand'
    BY <1>1 DEF IInv, TypeOK, WorkInHand, ContextIsOfThePlanInHand
  <1>4. SlotsHandedOut' /\ ChildrenOfTheirParents'
    BY <1>1 DEF IInv, SlotsHandedOut, Holders, ChildrenOfTheirParents, Child
  <1>5. SplitsCounted' /\ CachesInStep'
    BY <1>1, <1>2 DEF IInv, SplitsCounted, CachesInStep, Parents
  <1> QED  BY <1>3, <1>4, <1>5 DEF IInv

\* Every step keeps the invariant.
LEMMA NextIInv ==
    ASSUME IInv, [Next]_vars
    PROVE  IInv'
  <1>1. CASE StartRound
    BY <1>1, StartRoundIInv
  <1>2. CASE ExtraParticle
    BY <1>2, ExtraParticleIInv
  <1>3. CASE EndRound
    BY <1>3, EndRoundIInv
  <1>4. CASE Reweigh
    BY <1>4, ReweighIInv
  <1>5. CASE MergeSplitRound
    BY <1>5, MergeSplitRoundIInv
  <1>6. CASE EndRun
    BY <1>6, EndRunIInv
  <1>7. ASSUME NEW t \in Threads, Thread(t)
        PROVE  IInv'
    BY <1>7, TakeIInv, DrawIInv, SplitIInv, HardConstraintsIInv DEF Thread
  <1>8. CASE Continue
    BY <1>8, ContinueIInv
  <1>9. CASE Ended \/ UNCHANGED vars
    BY <1>9, StutterIInv DEF Ended
  <1> QED  BY <1>1, <1>2, <1>3, <1>4, <1>5, <1>6, <1>7, <1>8, <1>9 DEF Next, Driver

-----------------------------------------------------------------------------
(* Theorems *)

\* The inductive invariant: whatever the sizes of the ensemble and the pool and
\* whatever steps and runs are asked for, the state is well typed, threads,
\* slots, children and splits are accounted for, and caches are in step.
THEOREM EnsembleInvariant == Spec => []IInv
  <1>1. Init => IInv
    BY InitIInv
  <1>2. IInv /\ [Next]_vars => IInv'
    BY NextIInv
  <1> QED  BY <1>1, <1>2, PTL DEF Spec

\* No two threads of the pool ever share a slot of scratch (random state,
\* schedule context, tree sampler, tree splitter), whichever slots the threads
\* had in earlier rounds, and no thread is refused one: the throw of
\* get_thread_id is unreachable with one thread of the pool per slot.
THEOREM SlotsNeverShared == Spec => []OneThreadPerSlot
  <1>1. IInv => OneThreadPerSlot
    BY SlotsAreSeparate DEF IInv
  <1> QED  BY <1>1, EnsembleInvariant, PTL

\* Every split attempt asks the schedule with the context of the very parent it
\* drew, also after rejections and when another thread had the slot before.
THEOREM ContextNeverStale == Spec => []ContextIsOfThePlanInHand
  <1>1. IInv => ContextIsOfThePlanInHand
    BY DEF IInv
  <1> QED  BY <1>1, EnsembleInvariant, PTL

\* Weight caches stay with the line of descent of their plans through swaps of
\* the ensembles, the parents stored for a blank start, resampling in the
\* middle or at the end of a run, and a continued run.
THEOREM CachesNeverStray == Spec => []CachesFollowThePlans
  <1>1. IInv => CachesFollowThePlans
    BY DEF IInv, CachesInStep, CachesFollowThePlans
  <1> QED  BY <1>1, EnsembleInvariant, PTL

-----------------------------------------------------------------------------
(* The weights. *)

\* The increments of a line after n splits, the k-th of them damped n - k + d times.
Terms(plan, n, d) ==
    [k \in 1..n |-> [of |-> SubSeq(plan, 1, origin + k), damped |-> n - k + d]]

\* Every plan has its start and a slot for each split.
LinesCounted ==
    /\ saved_parents \in Seq([Particles -> Particles])
    /\ run = 1 => saved_parents = <<>>
    /\ \A i \in Particles :
          Len(plans[i]) = origin + splits + IF phase = "weighing" THEN 1 ELSE 0

\* A run is finished with all its steps behind it, and resampled if it should be;
\* the matrix of parents has a column for the resampling only then.
RunInStep ==
    /\ step_num <= Len(steps) + 1
    /\ Len(parent_index_mat) = total_smc_steps(run) + IF call.runs[run].resample THEN 1 ELSE 0
    /\ phase = "finished" => /\ step_num = Len(steps) + 1
                             /\ call.runs[run].resample => resampled
    /\ ~resampled /\ resample_before_final_ms /\ phase # "weighing" =>
          splits_in_run < total_smc_steps(run)

\* Between the swap and the gathering, the weights of the parent are those of
\* the plan's line up to there.
ParentWeights ==
    phase = "weighing" /\ ~resampled /\ call.seq_alpha =>
        \A i \in Particles : log_weights[Parents[i]] = Terms(plans[i], splits, 1)

WInv == LinesCounted /\ RunInStep /\ ParentWeights /\ WeightsAreThoseOfASingleRun

-----------------------------------------------------------------------------
(* The weights of a line *)

\* A line starts with one entry or none.
LEMMA OriginType ==
    ASSUME blank \in BOOLEAN
    PROVE  origin \in Nat
  BY DEF origin

\* No splits, no increments.
LEMMA NoTerms ==
    ASSUME NEW plan, NEW d
    PROVE  Terms(plan, 0, d) = <<>>
  <1>1. \A f : f = [k \in 1..0 |-> f[k]] => f = <<>>
    OBVIOUS
  <1> QED  BY DEF Terms

\* A child has the increments of its parent.
LEMMA TermsOfChild ==
    ASSUME blank \in BOOLEAN, NEW p \in Seq(Particles), NEW e \in Particles, NEW n \in Nat, NEW d,
           Len(p) = origin + n
    PROVE  Terms(Append(p, e), n, d) = Terms(p, n, d)
  <1>1. \A k \in 1..n : SubSeq(Append(p, e), 1, origin + k) = SubSeq(p, 1, origin + k)
    BY OriginType, SMT
  <1> QED  BY <1>1 DEF Terms

\* The increment of the newest split completes the weights of a plan.
LEMMA TermsWithTheLast ==
    ASSUME blank \in BOOLEAN, NEW p \in Seq(Particles), NEW n \in Nat, Len(p) = origin + n + 1
    PROVE  Terms(p, n, 1) \o <<[of |-> p, damped |-> 0]>> = Terms(p, n + 1, 0)
  <1> DEFINE T == [of : Seq(Particles), damped : Int]
             old == Terms(p, n, 1)
             new == Terms(p, n + 1, 0)
             last == [of |-> p, damped |-> 0]
  <1>1. origin \in Nat
    BY OriginType
  <1>2. \A k \in 1..(n + 1) : SubSeq(p, 1, origin + k) \in Seq(Particles)
    BY <1>1, SMT
  <1>3. old \in [1..n -> T] /\ new \in [1..(n + 1) -> T] /\ last \in T
    BY <1>2, SMT DEF Terms
  <1>4. new[n + 1] = last
    <2>1. SubSeq(p, 1, origin + (n + 1)) = p
      BY <1>1, SMT
    <2>2. n + 1 \in 1..(n + 1) /\ (n + 1) - (n + 1) + 0 = 0
      OBVIOUS
    <2> QED  BY <2>1, <2>2 DEF Terms
  <1>5. \A k \in 1..n : new[k] = old[k]
    <2> TAKE k \in 1..n
    <2>1. k \in 1..(n + 1) /\ (n + 1) - k + 0 = n - k + 1
      OBVIOUS
    <2>2. /\ old[k] = [of |-> SubSeq(p, 1, origin + k), damped |-> n - k + 1]
          /\ new[k] = [of |-> SubSeq(p, 1, origin + k), damped |-> (n + 1) - k + 0]
      BY <2>1, Zenon DEF Terms
    <2> HIDE DEF old, new
    <2> QED  BY <2>1, <2>2, Zenon
  <1> HIDE DEF T, old, new, last
  <1>6. /\ old \in Seq(T) /\ new \in Seq(T) /\ Len(old) = n /\ Len(new) = n + 1
    BY <1>3, SMT
  <1>7. old \o <<last>> = new
    BY <1>3, <1>4, <1>5, <1>6, SMT
  <1> QED  BY <1>7 DEF old, new, last

\* Damping damps each of them once more.
LEMMA DampedTerms ==
    ASSUME NEW p, NEW n \in Nat, NEW d \in Int
    PROVE  Damp(Terms(p, n, d)) = Terms(p, n, d + 1)
  <1>1. DOMAIN Terms(p, n, d) = 1..n
    BY DEF Terms
  <1>0. \A a, b : [[of |-> a, damped |-> b] EXCEPT !.damped = @ + 1] = [of |-> a, damped |-> b + 1]
    OBVIOUS
  <1>2. \A k \in 1..n : [Terms(p, n, d)[k] EXCEPT !.damped = @ + 1] =
                            [of |-> SubSeq(p, 1, origin + k), damped |-> n - k + (d + 1)]
    <2> SUFFICES ASSUME NEW k \in 1..n
                 PROVE  [Terms(p, n, d)[k] EXCEPT !.damped = @ + 1] =
                            [of |-> SubSeq(p, 1, origin + k), damped |-> n - k + (d + 1)]
      OBVIOUS
    <2>1. Terms(p, n, d)[k] = [of |-> SubSeq(p, 1, origin + k), damped |-> n - k + d]
      BY DEF Terms
    <2>2. (n - k + d) + 1 = n - k + (d + 1)
      OBVIOUS
    <2>3. [[of |-> SubSeq(p, 1, origin + k), damped |-> n - k + d] EXCEPT !.damped = @ + 1] =
              [of |-> SubSeq(p, 1, origin + k), damped |-> (n - k + d) + 1]
      BY <1>0
    <2> QED  BY <2>1, <2>2, <2>3
  <1> QED  BY <1>1, <1>2 DEF Damp, Terms

-----------------------------------------------------------------------------
(* Where the run is *)

\* What the weights of a plan are, by Terms.
LEMMA WeightsByTerms ==
    \A i, d : SingleRunWeights(i, d) =
        IF call.seq_alpha THEN Terms(plans[i], splits, d)
        ELSE IF splits = 0 THEN <<>> ELSE <<[of |-> plans[i], damped |-> 0]>>
  BY DEF SingleRunWeights, Terms

\* Splits are counted by numbers.
LEMMA SplitsType ==
    ASSUME IInv, LinesCounted
    PROVE  splits \in Nat /\ blank \in BOOLEAN /\ origin \in Nat
  BY SplitsIsUpto, OriginType, LenProperties DEF splits, LinesCounted, IInv, TypeOK

\* What the steps of the run are, in the terms of the invariant.
LEMMA StepsOfTheRun ==
    ASSUME IInv
    PROVE  /\ run \in 1..Len(call.runs) /\ steps = call.runs[run].steps
           /\ steps \in Seq({"smc", "ms"}) /\ Len(steps) \in Nat \ {0}
           /\ total_smc_steps(run) = Cardinality(Upto(steps, Len(steps)))
           /\ total_smc_steps(run) \in Nat \ {0}
           /\ step_num \in Nat \ {0}
  <1>1. run \in 1..Len(call.runs) /\ steps = call.runs[run].steps /\ step_num \in Nat \ {0}
    BY DEF IInv, TypeOK, steps
  <1>2. /\ steps \in Seq({"smc", "ms"})
        /\ total_smc_steps(run) = Cardinality(Upto(steps, Len(steps)))
        /\ total_smc_steps(run) \in Nat \ {0}
    BY <1>1, TotalIsUpto DEF IInv
  <1>3. Len(steps) \in Nat
    BY <1>2, LenProperties
  <1>4. Len(steps) # 0
    <2>1. call \in Calls /\ Len(call.runs) \in Nat \ {0}
      BY SMCEnsembleAssumption DEF IInv, TypeOK
    <2>2. steps # <<>>
      BY <1>1, <2>1, SMCEnsembleAssumption
    <2> QED  BY <1>2, <2>2, EmptySeq
  <1> QED  BY <1>1, <1>2, <1>3, <1>4

\* Nothing that decides where the run is changes within a step.
LEMMA SameRun ==
    ASSUME UNCHANGED <<call, blank, run, step_num, saved_parents>>
    PROVE  /\ splits' = splits /\ origin' = origin /\ splits_in_run' = splits_in_run
           /\ steps' = steps /\ total_smc_steps(run)' = total_smc_steps(run)
           /\ resample_before_final_ms' = resample_before_final_ms
  BY SameStep DEF splits, origin, resample_before_final_ms, last_smc_step, steps

\* Once every split is made, the last split made is the last of the run.
LEMMA LastSplitIsTheLast ==
    ASSUME IInv, step_num \in 1..Len(steps), steps[step_num] = "smc",
           Cardinality(Upto(steps, step_num)) = total_smc_steps(run)
    PROVE  step_num = last_smc_step
  <1>1. /\ steps \in Seq({"smc", "ms"}) /\ Len(steps) \in Nat \ {0}
        /\ DOMAIN steps = 1..Len(steps)
        /\ total_smc_steps(run) = Cardinality(Upto(steps, Len(steps)))
    BY StepsOfTheRun, LenProperties
  <1>2. ASSUME NEW j \in 1..Len(steps), j > step_num, steps[j] # "ms"
        PROVE  FALSE
    <2>1. steps[j] = "smc"
      BY <1>1, <1>2
    <2>2. Cardinality(Upto(steps, j - 1)) < Cardinality(Upto(steps, Len(steps)))
      BY <1>1, <2>1, UptoLess
    <2>3. Upto(steps, step_num) \subseteq Upto(steps, j - 1)
      BY <1>1, <1>2 DEF Upto
    <2>4. IsFiniteSet(Upto(steps, j - 1)) /\ Cardinality(Upto(steps, j - 1)) \in Nat
      BY <1>1, UptoFinite
    <2>5. Cardinality(Upto(steps, step_num)) <= Cardinality(Upto(steps, j - 1))
      BY <2>3, <2>4, FS_Subset
    <2>6. Cardinality(Upto(steps, step_num)) \in Nat
      BY UptoFinite
    <2> QED  BY <1>1, <2>2, <2>4, <2>5, <2>6
  <1> DEFINE LastSplit(k) == steps[k] = "smc" /\ \A j \in DOMAIN steps : j > k => steps[j] = "ms"
  <1>3. step_num \in DOMAIN steps /\ LastSplit(step_num)
    BY <1>1, <1>2
  <1>4. last_smc_step \in DOMAIN steps /\ LastSplit(last_smc_step)
    BY <1>3 DEF last_smc_step
  <1>5. \A k, l \in DOMAIN steps : LastSplit(k) /\ LastSplit(l) => k = l
    BY <1>1
  <1> QED  BY <1>3, <1>4, <1>5

\* With all its steps behind it a run has made all its splits.
LEMMA AllStepsAllSplits ==
    ASSUME IInv, step_num = Len(steps) + 1
    PROVE  splits_in_run = total_smc_steps(run)
  <1>1. Len(steps) \in Nat /\ step_num - 1 = Len(steps)
    BY StepsOfTheRun
  <1> QED  BY <1>1, SplitsIsUpto, StepsOfTheRun DEF IInv

-----------------------------------------------------------------------------
(* The invariant *)

\* A call starts with no increments.
LEMMA InitWInv == Init => WInv
  <1> SUFFICES ASSUME Init PROVE WInv
    OBVIOUS
  <1>1. IInv
    BY InitIInv
  <1>2. splits_in_run = 0
    <2>1. splits_in_run = Cardinality({k \in 1..(1 - 1) : steps[k] = "smc"})
      BY DEF Init, splits_in_run
    <2> QED  BY <2>1, FS_EmptySet
  <1>3. splits = 0
    BY <1>2 DEF Init, splits
  <1>4. LinesCounted
    <2>1. \A i \in Particles : Len(plans[i]) = origin
      BY DEF Init, origin
    <2> QED  BY <1>1, <1>3, <2>1, SplitsType, OriginType DEF Init, LinesCounted, IInv, TypeOK
  <1>5. RunInStep
    <2> DEFINE n == total_smc_steps(1) + IF call.runs[1].resample THEN 1 ELSE 0
    <2>1. n \in Nat /\ total_smc_steps(1) = total_smc_steps(run)
      BY <1>1, TotalIsUpto, StepsOfTheRun DEF Init, IInv
    <2>2. parent_index_mat = [c \in 1..n |-> [i \in Particles |-> 1]]
      BY DEF Init, EmptyParentMat
    <2>3. Len(parent_index_mat) = n
      <3> HIDE DEF n
      <3> QED  BY <2>1, <2>2
    <2> QED  BY <1>1, <1>2, <2>1, <2>3, StepsOfTheRun DEF Init, RunInStep
  <1>6. ParentWeights
    BY DEF Init, ParentWeights
  <1>7. WeightsAreThoseOfASingleRun
    <2>1. \A i, d : SingleRunWeights(i, d) = <<>>
      BY <1>3, WeightsByTerms, NoTerms
    <2>2. \A i \in Particles : log_weights[i] = <<>> /\ sampling_weights[i] = <<>>
      BY DEF Init, NoCache
    <2> QED  BY <2>1, <2>2 DEF WeightsAreThoseOfASingleRun
  <1> QED  BY <1>4, <1>5, <1>6, <1>7 DEF WInv

\* Whatever happens within a round before the ensembles are swapped.
LEMMA WithinARound ==
    ASSUME IInv, WInv, UNCHANGED <<driverVars, ensembleVars>>,
           phase \in {"step", "extra", "splitting"}, phase' \in {"extra", "splitting", "failed"}
    PROVE  WInv'
  <1>1. UNCHANGED <<call, blank, run, step_num, plans, log_weights, sampling_weights,
                    parent_index_mat, saved_parents, resampled>>
    BY DEF driverVars, ensembleVars
  <1>2. /\ splits' = splits /\ origin' = origin /\ splits_in_run' = splits_in_run
        /\ steps' = steps /\ total_smc_steps(run)' = total_smc_steps(run)
        /\ resample_before_final_ms' = resample_before_final_ms
    BY <1>1, SameRun
  <1>3. LinesCounted'
    BY <1>1, <1>2 DEF WInv, LinesCounted
  <1>4. RunInStep' /\ ParentWeights'
    BY <1>1, <1>2 DEF WInv, RunInStep, ParentWeights
  <1>5. WeightsAreThoseOfASingleRun'
    BY <1>1, <1>2 DEF WInv, WeightsAreThoseOfASingleRun, SingleRunWeights
  <1> QED  BY <1>3, <1>4, <1>5 DEF WInv

\* After a round, the plans have one split more, and no increment for it yet.
LEMMA EndRoundWInv ==
    ASSUME IInv, WInv, EndRound
    PROVE  WInv'
  <1>1. /\ UNCHANGED <<call, blank, run, step_num, smc_step_num, log_weights, saved_parents,
                       resampled, parent_index_buffer>>
        /\ phase = "splitting" /\ phase' = "weighing" /\ plans' = new_plans
        /\ \A i \in Particles : new_plans[i] = Append(plans[parent_index_buffer[i]], i)
    BY DEF EndRound, driverVars, IInv, ChildrenOfTheirParents, Child
  <1>2. /\ splits' = splits /\ origin' = origin /\ splits_in_run' = splits_in_run
        /\ steps' = steps /\ total_smc_steps(run)' = total_smc_steps(run)
        /\ resample_before_final_ms' = resample_before_final_ms
    BY <1>1, SameRun
  <1>3. /\ splits \in Nat /\ blank \in BOOLEAN /\ origin \in Nat
    BY SplitsType DEF WInv
  <1>4. \A i \in Particles :
           /\ parent_index_buffer[i] \in Particles
           /\ plans[parent_index_buffer[i]] \in Seq(Particles)
           /\ Len(plans[parent_index_buffer[i]]) = origin + splits
    <2>1. /\ parent_index_buffer \in [Particles -> Particles]
          /\ plans \in [Particles -> Seq(Particles)]
      BY DEF IInv, TypeOK
    <2>2. \A i \in Particles : Len(plans[i]) = origin + splits + 0
      BY <1>1 DEF WInv, LinesCounted
    <2>3. \A i \in Particles : Len(plans[i]) = origin + splits
      BY <1>3, <2>2
    <2> QED  BY <2>1, <2>3
  <1>5. /\ StoredParents \in [Particles -> Particles]
        /\ smc_step_num + 1 \in DOMAIN parent_index_mat
        /\ parent_index_mat \in Seq([Particles -> Particles])
        /\ parent_index_mat' = [parent_index_mat EXCEPT ![smc_step_num + 1] = StoredParents]
    <2>1. /\ parent_index_buffer \in [Particles -> Particles] /\ smc_step_num \in Nat
          /\ parent_index_mat \in Seq([Particles -> Particles])
      BY DEF IInv, TypeOK
    <2>2. StoredParents \in [Particles -> Particles]
      BY <2>1 DEF StoredParents, Self
    <2>3. smc_step_num + 1 \in 1..Len(parent_index_mat)
      BY <2>1, LenProperties, StepsOfTheRun DEF IInv, SplitsCounted
    <2>4. DOMAIN parent_index_mat = 1..Len(parent_index_mat)
      BY <2>1, LenProperties
    <2> QED  BY <2>1, <2>2, <2>3, <2>4 DEF EndRound
  <1>6. Len(parent_index_mat') = Len(parent_index_mat) /\ Parents' = StoredParents
    BY <1>1, <1>5 DEF Parents
  <1>7. LinesCounted'
    <2>1. \A i \in Particles : Len(plans'[i]) = origin + splits + 1
      BY <1>1, <1>4, AppendProperties
    <2> QED  BY <1>1, <1>2, <2>1 DEF WInv, LinesCounted
  <1>8. RunInStep' /\ WeightsAreThoseOfASingleRun'
    BY <1>1, <1>2, <1>6 DEF WInv, RunInStep, WeightsAreThoseOfASingleRun
  <1>9. splits_in_run < total_smc_steps(run) /\ splits_in_run = smc_step_num
    <2>1. step_num \in 1..Len(steps) /\ steps[step_num] = "smc"
      BY <1>1, StepsOfTheRun DEF IInv, SplitsCounted
    <2>2. splits_in_run < total_smc_steps(run)
      BY <2>1, StepsOfTheRun, SplitsIsUpto, UptoLess DEF IInv
    <2> QED  BY <2>2, SplitsIsUpto DEF IInv, SplitsCounted
  <1>10. ParentWeights'
    <2> SUFFICES ASSUME ~resampled, call.seq_alpha, NEW i \in Particles
                 PROVE  log_weights[StoredParents[i]] =
                            Terms(Append(plans[parent_index_buffer[i]], i), splits, 1)
      BY <1>1, <1>2, <1>6 DEF ParentWeights, Terms
    <2> DEFINE p == parent_index_buffer[i]
    <2>1. \A j \in Particles : log_weights[j] = Terms(plans[j], splits, 1)
      BY <1>1, <1>9, StepsOfTheRun, WeightsByTerms DEF WInv, WeightsAreThoseOfASingleRun
    <2>2. Terms(Append(plans[p], i), splits, 1) = Terms(plans[p], splits, 1)
      BY <1>3, <1>4, TermsOfChild
    <2>3. CASE smc_step_num = 0 /\ from_blank_map
      <3>1. splits = 0
        BY <1>9, <2>3 DEF splits, from_blank_map, WInv, LinesCounted
      <3> QED  BY <2>1, <2>3, <3>1, NoTerms DEF StoredParents, Self
    <2>4. CASE ~(smc_step_num = 0 /\ from_blank_map)
      BY <1>4, <2>1, <2>2, <2>4 DEF StoredParents
    <2> QED  BY <2>3, <2>4
  <1> QED  BY <1>7, <1>8, <1>10 DEF WInv

\* What a resampling leaves as it was, for this invariant.
LEMMA ResampledLines ==
    ASSUME NEW P \in [Particles -> Seq(Particles)], NEW C, NEW n,
           NEW M \in Seq([Particles -> Particles]), Resample(P, C, M),
           \A i \in Particles : Len(P[i]) = n
    PROVE  /\ resampled' /\ Len(parent_index_mat') = Len(M)
           /\ \A i \in Particles : Len(plans'[i]) = n
  <1>1. PICK f \in ResampleIndices :
           /\ plans' = [i \in Particles |-> P[f[i]]]
           /\ parent_index_mat' = [M EXCEPT ![Len(M)] = f]
    BY DEF Resample
  <1>2. f \in [Particles -> Particles]
    BY DEF ResampleIndices
  <1>3. \A i \in Particles : Len(plans'[i]) = n
    BY <1>1, <1>2
  <1>4. Len(parent_index_mat') = Len(M)
    <2> DEFINE T == [Particles -> Particles]
    <2>1. M \in Seq(T) /\ f \in T /\ parent_index_mat' = [M EXCEPT ![Len(M)] = f]
      BY <1>1, <1>2
    <2> HIDE DEF T
    <2>2. Len(M) \in Nat /\ M \in [1..Len(M) -> T]
      BY <2>1, LenProperties
    <2>3. parent_index_mat' \in [1..Len(M) -> T]
      BY <2>1, <2>2
    <2>4. \A k \in Nat : \A m \in [1..k -> T] : Len(m) = k
      OBVIOUS
    <2> QED  BY <2>2, <2>3, <2>4
  <1> QED  BY <1>3, <1>4 DEF Resample

\* Computing weights adds the increment of the split and damps the earlier ones.
LEMMA ReweighWInv ==
    ASSUME IInv, WInv, Reweigh
    PROVE  WInv'
  <1> DEFINE weighed == [i \in Particles |-> BroughtUpToDate(ParentRow(i), plans[i])]
             now == resample_before_final_ms /\ step_num = last_smc_step
  <1>1. /\ UNCHANGED <<call, blank, run, saved_parents>>
        /\ phase = "weighing" /\ phase' = "step" /\ step_num' = step_num + 1
        /\ sampling_weights' = NewLogWeights
        /\ log_weights' = IF call.seq_alpha /\ ~is_final_splitting_step
                          THEN [i \in Particles |-> Damp(NewLogWeights[i])]
                          ELSE NewLogWeights
    BY DEF Reweigh
  <1>2. IF now THEN Resample(plans, weighed, parent_index_mat)
        ELSE UNCHANGED <<plans, parent_index_mat, resampled>>
    BY DEF Reweigh
  <1> HIDE DEF weighed, now
  <1>3. /\ splits \in Nat /\ blank \in BOOLEAN /\ origin \in Nat /\ origin' = origin
    BY <1>1, SplitsType DEF WInv, origin
  <1>4. /\ plans \in [Particles -> Seq(Particles)]
        /\ parent_index_mat \in Seq([Particles -> Particles])
        /\ \A i \in Particles : Len(plans[i]) = origin + splits + 1
    BY <1>1 DEF IInv, TypeOK, WInv, LinesCounted
  <1>5. step_num \in 1..Len(steps) /\ steps[step_num] = "smc"
    BY <1>1, StepsOfTheRun DEF IInv, SplitsCounted
  <1>6. splits_in_run = smc_step_num /\ splits_in_run' = smc_step_num + 1
    BY <1>1, <1>5, SplitAtHand DEF IInv
  <1>7. splits' = splits + 1 /\ smc_step_num \in Nat /\ Len(saved_parents) \in Nat
    BY <1>1, <1>6, LenProperties DEF splits, WInv, LinesCounted, IInv, TypeOK
  <1>8. /\ steps' = steps /\ total_smc_steps(run)' = total_smc_steps(run)
        /\ resample_before_final_ms' = resample_before_final_ms
    BY <1>1 DEF steps, total_smc_steps, resample_before_final_ms, last_smc_step
  <1>9. /\ \A i \in Particles : Len(plans'[i]) = origin + splits + 1
        /\ Len(parent_index_mat') = Len(parent_index_mat)
        /\ ~resampled' => ~now /\ ~resampled /\ plans' = plans
    <2>1. CASE now
      <3>1. Resample(plans, weighed, parent_index_mat)
        BY <1>2, <2>1
      <3>2. /\ resampled' /\ Len(parent_index_mat') = Len(parent_index_mat)
            /\ \A i \in Particles : Len(plans'[i]) = origin + splits + 1
        BY <1>4, <3>1, ResampledLines
      <3> QED  BY <3>2
    <2>2. CASE ~now
      BY <1>2, <1>4, <2>2
    <2> QED  BY <2>1, <2>2
  <1>10. LinesCounted'
    BY <1>1, <1>3, <1>7, <1>9 DEF WInv, LinesCounted
  <1>11. splits_in_run' = Cardinality(Upto(steps, step_num))
    <2>1. step_num' - 1 = step_num
      BY <1>1, StepsOfTheRun
    <2> QED  BY <1>8, <2>1 DEF splits_in_run, Upto
  <1>12. splits_in_run' <= total_smc_steps(run) /\ total_smc_steps(run) \in Nat
    BY <1>6, <1>7, StepsOfTheRun DEF IInv, SplitsCounted
  <1>13. RunInStep'
    <2>1. ~resampled' /\ resample_before_final_ms => splits_in_run' # total_smc_steps(run)
      BY <1>5, <1>9, <1>11, LastSplitIsTheLast DEF now
    <2>2. ~resampled' /\ resample_before_final_ms => splits_in_run' < total_smc_steps(run)
      BY <1>6, <1>7, <1>12, <2>1
    <2>3. step_num' <= Len(steps) + 1
      BY <1>1, <1>5, StepsOfTheRun
    <2> QED  BY <1>1, <1>8, <1>9, <2>2, <2>3 DEF WInv, RunInStep
  <1>14. ParentWeights'
    BY <1>1 DEF ParentWeights
  <1>15. WeightsAreThoseOfASingleRun'
    <2> SUFFICES ASSUME ~resampled', NEW i \in Particles
                 PROVE  /\ sampling_weights'[i] = SingleRunWeights(i, 0)'
                        /\ log_weights'[i] = SingleRunWeights(i,
                               IF splits_in_run = total_smc_steps(run) THEN 0 ELSE 1)'
      BY DEF WeightsAreThoseOfASingleRun
    <2>1. ~resampled /\ plans' = plans
      BY <1>9
    <2>2. \A d \in {0, 1} : SingleRunWeights(i, d)' =
             IF call.seq_alpha THEN Terms(plans[i], splits + 1, d)
             ELSE <<[of |-> plans[i], damped |-> 0]>>
      BY <1>1, <1>3, <1>7, <2>1 DEF SingleRunWeights, Terms
    <2>3. is_final_splitting_step <=> splits_in_run' = total_smc_steps(run)'
      BY <1>6, <1>8 DEF is_final_splitting_step
    <2>4. CASE call.seq_alpha
      <3>1. NewLogWeights[i] = log_weights[Parents[i]] \o <<[of |-> plans[i], damped |-> 0]>>
        BY <2>4 DEF NewLogWeights
      <3>2. log_weights[Parents[i]] = Terms(plans[i], splits, 1)
        BY <1>1, <2>1, <2>4 DEF WInv, ParentWeights
      <3>3. NewLogWeights[i] = Terms(plans[i], splits + 1, 0)
        BY <1>3, <1>4, <3>1, <3>2, TermsWithTheLast
      <3>4. Damp(NewLogWeights[i]) = Terms(plans[i], splits + 1, 1)
        <4>1. Damp(Terms(plans[i], splits + 1, 0)) = Terms(plans[i], splits + 1, 0 + 1)
          BY <1>3, DampedTerms
        <4> QED  BY <3>3, <4>1
      <3>5. log_weights'[i] = IF ~is_final_splitting_step THEN Damp(NewLogWeights[i])
                              ELSE NewLogWeights[i]
        BY <1>1, <2>4
      <3> QED  BY <1>1, <2>2, <2>3, <2>4, <3>3, <3>4, <3>5
    <2>5. CASE ~call.seq_alpha
      <3>1. NewLogWeights[i] = <<[of |-> plans[i], damped |-> 0]>>
        <4>1. \A x : <<>> \o <<x>> = <<x>>
          OBVIOUS
        <4> QED  BY <2>5, <4>1 DEF NewLogWeights
      <3> QED  BY <1>1, <2>2, <2>5, <3>1
    <2> QED  BY <2>4, <2>5
  <1> QED  BY <1>10, <1>13, <1>14, <1>15 DEF WInv

\* Merge-split rounds leave the increments alone.
LEMMA MergeSplitRoundWInv ==
    ASSUME IInv, WInv, MergeSplitRound
    PROVE  WInv'
  <1>1. /\ UNCHANGED <<call, blank, run, phase, plans, log_weights, sampling_weights,
                       parent_index_mat, saved_parents, resampled>>
        /\ phase = "step" /\ step_num' = step_num + 1
        /\ step_num <= Len(steps) /\ steps[step_num] = "ms"
    BY DEF MergeSplitRound, ensembleVars
  <1>2. /\ steps' = steps /\ total_smc_steps(run)' = total_smc_steps(run)
        /\ resample_before_final_ms' = resample_before_final_ms /\ origin' = origin
    BY <1>1 DEF steps, total_smc_steps, resample_before_final_ms, last_smc_step, origin
  <1>3. splits_in_run' = splits_in_run
    <2>1. step_num \in Nat \ {0} /\ step_num' - 1 = step_num
      BY <1>1, StepsOfTheRun
    <2>2. splits_in_run' = Cardinality(Upto(steps, step_num))
      BY <1>2, <2>1 DEF splits_in_run, Upto
    <2>3. Cardinality(Upto(steps, step_num)) = Cardinality(Upto(steps, step_num - 1)) + 0
      BY <1>1, <2>1, UptoNext
    <2> QED  BY <2>2, <2>3, SplitsIsUpto DEF IInv
  <1>4. splits' = splits
    BY <1>1, <1>3 DEF splits
  <1>5. LinesCounted'
    BY <1>1, <1>2, <1>4 DEF WInv, LinesCounted
  <1>6. RunInStep' /\ ParentWeights'
    <2>1. step_num' <= Len(steps) + 1
      BY <1>1, StepsOfTheRun
    <2> QED  BY <1>1, <1>2, <1>3, <2>1 DEF WInv, RunInStep, ParentWeights
  <1>7. WeightsAreThoseOfASingleRun'
    BY <1>1, <1>2, <1>3, <1>4 DEF WInv, WeightsAreThoseOfASingleRun, SingleRunWeights
  <1> QED  BY <1>5, <1>6, <1>7 DEF WInv

\* A run ends, and its plans are resampled or keep their weights.
LEMMA EndRunWInv ==
    ASSUME IInv, WInv, EndRun
    PROVE  WInv'
  <1>1. /\ UNCHANGED <<call, blank, run, step_num, log_weights, sampling_weights, saved_parents>>
        /\ phase = "step" /\ phase' = "finished" /\ step_num > Len(steps)
    BY DEF EndRun, driverVars
  <1>2. IF call.runs[run].resample /\ ~resample_before_final_ms
        THEN Resample(plans, cache, parent_index_mat)
        ELSE UNCHANGED <<plans, parent_index_mat, resampled>>
    BY DEF EndRun
  <1>3. /\ splits' = splits /\ origin' = origin /\ splits_in_run' = splits_in_run
        /\ steps' = steps /\ total_smc_steps(run)' = total_smc_steps(run)
        /\ resample_before_final_ms' = resample_before_final_ms
    BY <1>1, SameRun
  <1>4. step_num = Len(steps) + 1 /\ splits_in_run = total_smc_steps(run)
    <2>1. step_num = Len(steps) + 1
      BY <1>1, StepsOfTheRun DEF WInv, RunInStep
    <2> QED  BY <2>1, AllStepsAllSplits
  <1>5. /\ splits \in Nat /\ blank \in BOOLEAN /\ origin \in Nat
    BY SplitsType DEF WInv
  <1>6. /\ plans \in [Particles -> Seq(Particles)]
        /\ parent_index_mat \in Seq([Particles -> Particles])
        /\ \A i \in Particles : Len(plans[i]) = origin + splits + 0
    BY <1>1 DEF IInv, TypeOK, WInv, LinesCounted
  <1>7. /\ \A i \in Particles : Len(plans'[i]) = origin + splits + 0
        /\ Len(parent_index_mat') = Len(parent_index_mat)
        /\ ~resampled' => ~resampled /\ plans' = plans
        /\ call.runs[run].resample => resampled'
    <2>1. CASE call.runs[run].resample /\ ~resample_before_final_ms
      <3>1. Resample(plans, cache, parent_index_mat)
        BY <1>2, <2>1
      <3>2. /\ resampled' /\ Len(parent_index_mat') = Len(parent_index_mat)
            /\ \A i \in Particles : Len(plans'[i]) = origin + splits + 0
        BY <1>6, <3>1, ResampledLines
      <3> QED  BY <3>2
    <2>2. CASE ~(call.runs[run].resample /\ ~resample_before_final_ms)
      <3>1. call.runs[run].resample => resampled
        BY <1>1, <1>4, <2>2, StepsOfTheRun DEF WInv, RunInStep
      <3> QED  BY <1>2, <1>6, <2>2, <3>1
    <2> QED  BY <2>1, <2>2
  <1>8. LinesCounted'
    BY <1>1, <1>3, <1>7 DEF WInv, LinesCounted
  <1>9. RunInStep' /\ ParentWeights'
    BY <1>1, <1>3, <1>4, <1>7 DEF WInv, RunInStep, ParentWeights
  <1>10. WeightsAreThoseOfASingleRun'
    BY <1>1, <1>3, <1>7 DEF WInv, WeightsAreThoseOfASingleRun, SingleRunWeights
  <1> QED  BY <1>8, <1>9, <1>10 DEF WInv

\* The next run goes on with the weights of the last.
LEMMA ContinueWInv ==
    ASSUME IInv, WInv, Continue
    PROVE  WInv'
  <1>1. /\ UNCHANGED <<call, blank, plans, resampled>>
        /\ phase = "finished" /\ phase' = "step" /\ run < Len(call.runs) /\ ~resampled
        /\ run' = run + 1 /\ step_num' = 1
        /\ sampling_weights' = log_weights
        /\ log_weights' = [i \in Particles |->
               IF call.seq_alpha THEN Damp(log_weights[i]) ELSE <<>>]
        /\ saved_parents' = saved_parents \o parent_index_mat
        /\ parent_index_mat' = EmptyParentMat(run')
    BY DEF Continue
  <1>2. IInv'
    BY ContinueIInv
  <1>3. splits_in_run' = 0
    <2>1. splits_in_run' = Cardinality({k \in 1..(1 - 1) : steps'[k] = "smc"})
      BY <1>1 DEF splits_in_run
    <2> QED  BY <2>1, FS_EmptySet
  <1>4. /\ Len(steps') \in Nat \ {0} /\ total_smc_steps(run)' \in Nat \ {0}
        /\ run' \in 1..Len(call.runs) /\ run' # 1
    <2>1. run' \in 1..Len(call.runs) /\ run' # 1
      BY <1>1, <1>2, StepsOfTheRun DEF IInv, TypeOK
    <2>2. steps' = call.runs[run'].steps /\ total_smc_steps(run)' = total_smc_steps(run')
      BY <1>1 DEF steps, total_smc_steps
    <2>3. /\ call.runs[run'].steps \in Seq({"smc", "ms"}) /\ total_smc_steps(run') \in Nat \ {0}
      BY <2>1, TotalIsUpto DEF IInv
    <2>4. call.runs[run'].steps # <<>>
      BY <2>1, SMCEnsembleAssumption DEF IInv, TypeOK
    <2> QED  BY <2>1, <2>2, <2>3, <2>4, LenProperties, EmptySeq
  <1>5. /\ splits_in_run = total_smc_steps(run) /\ total_smc_steps(run) \in Nat \ {0}
        /\ Len(parent_index_mat) = total_smc_steps(run)
    <2>1. call.runs[run].resample \in BOOLEAN
      BY StepsOfTheRun, TotalIsUpto DEF IInv
    <2> QED  BY <1>1, <2>1, AllStepsAllSplits, StepsOfTheRun DEF WInv, RunInStep
  <1>6. /\ saved_parents \in Seq([Particles -> Particles])
        /\ parent_index_mat \in Seq([Particles -> Particles])
    BY DEF WInv, LinesCounted, IInv, TypeOK
  <1>7. /\ saved_parents' \in Seq([Particles -> Particles])
        /\ Len(saved_parents') = Len(saved_parents) + Len(parent_index_mat)
    BY <1>1, <1>6, ConcatProperties
  <1>8. splits' = splits /\ splits \in Nat /\ splits # 0 /\ origin' = origin
    <2>1. Len(saved_parents) \in Nat
      BY <1>6, LenProperties
    <2> QED  BY <1>1, <1>3, <1>5, <1>7, <2>1 DEF splits, origin
  <1>9. LinesCounted'
    BY <1>1, <1>4, <1>7, <1>8 DEF WInv, LinesCounted
  <1>10. RunInStep' /\ ParentWeights'
    <2> DEFINE n == total_smc_steps(run') + IF call.runs[run'].resample THEN 1 ELSE 0
    <2>1. n \in Nat /\ total_smc_steps(run)' = total_smc_steps(run')
      BY <1>1, <1>4, TotalIsUpto DEF IInv, total_smc_steps
    <2>2. parent_index_mat' = [c \in 1..n |-> [i \in Particles |-> 1]]
      BY <1>1 DEF EmptyParentMat
    <2>3. Len(parent_index_mat') = n
      <3> HIDE DEF n
      <3> QED  BY <2>1, <2>2
    <2> QED  BY <1>1, <1>3, <1>4, <2>1, <2>3 DEF RunInStep, ParentWeights
  <1>11. WeightsAreThoseOfASingleRun'
    <2> SUFFICES ASSUME NEW i \in Particles
                 PROVE  /\ sampling_weights'[i] = SingleRunWeights(i, 0)'
                        /\ \/ log_weights'[i] = SingleRunWeights(i, 1)'
                           \/ ~call.seq_alpha /\ log_weights'[i] = <<>>
      BY <1>1, <1>3, <1>4 DEF WeightsAreThoseOfASingleRun
    <2>1. SingleRunWeights(i, 0)' = SingleRunWeights(i, 0)
      BY <1>1, <1>8 DEF SingleRunWeights
    <2>2. log_weights[i] = SingleRunWeights(i, 0)
      BY <1>1, <1>5 DEF WInv, WeightsAreThoseOfASingleRun
    <2>3. CASE call.seq_alpha
      <3>1. SingleRunWeights(i, 1)' = Terms(plans[i], splits, 1)
        BY <1>1, <1>8, <2>3 DEF SingleRunWeights, Terms
      <3>2. log_weights[i] = Terms(plans[i], splits, 0)
        BY <2>2, <2>3, WeightsByTerms
      <3>3. Damp(Terms(plans[i], splits, 0)) = Terms(plans[i], splits, 0 + 1)
        BY <1>8, DampedTerms
      <3> QED  BY <1>1, <2>1, <2>2, <2>3, <3>1, <3>2, <3>3
    <2>4. CASE ~call.seq_alpha
      BY <1>1, <2>1, <2>2, <2>4
    <2> QED  BY <2>3, <2>4
  <1> QED  BY <1>9, <1>10, <1>11 DEF WInv

\* A step that changes nothing.
LEMMA StutterWInv ==
    ASSUME IInv, WInv, UNCHANGED vars
    PROVE  WInv'
  <1>1. UNCHANGED <<call, blank, run, step_num, smc_step_num, phase, plans, log_weights,
                    sampling_weights, parent_index_mat, saved_parents, resampled>>
    BY DEF vars, driverVars, ensembleVars
  <1>2. /\ splits' = splits /\ origin' = origin /\ splits_in_run' = splits_in_run
        /\ steps' = steps /\ total_smc_steps(run)' = total_smc_steps(run)
        /\ resample_before_final_ms' = resample_before_final_ms
    BY <1>1, SameRun
  <1>3. LinesCounted' /\ RunInStep'
    BY <1>1, <1>2 DEF WInv, LinesCounted, RunInStep
  <1>4. ParentWeights' /\ WeightsAreThoseOfASingleRun'
    BY <1>1, <1>2 DEF WInv, ParentWeights, Parents, Terms,
        WeightsAreThoseOfASingleRun, SingleRunWeights
  <1> QED  BY <1>3, <1>4 DEF WInv

\* Every step keeps the invariant of the weights.
LEMMA NextWInv ==
    ASSUME IInv, WInv, [Next]_vars
    PROVE  WInv'
  <1>1. CASE StartRound \/ ExtraParticle
    <2>1. /\ UNCHANGED <<driverVars, ensembleVars>>
          /\ phase \in {"step", "extra"} /\ phase' \in {"extra", "splitting", "failed"}
      BY <1>1 DEF StartRound, ExtraParticle, Throw
    <2> QED  BY <2>1, WithinARound
  <1>2. CASE EndRound
    BY <1>2, EndRoundWInv
  <1>3. CASE Reweigh
    BY <1>3, ReweighWInv
  <1>4. CASE MergeSplitRound
    BY <1>4, MergeSplitRoundWInv
  <1>5. CASE EndRun
    BY <1>5, EndRunWInv
  <1>6. ASSUME NEW t \in Threads, Thread(t)
        PROVE  WInv'
    <2>1. /\ UNCHANGED <<driverVars, ensembleVars>>
          /\ phase = "splitting" /\ phase' \in {"splitting", "failed"}
      BY <1>6 DEF Thread, Take, Draw, Split, HardConstraints, Throw
    <2> QED  BY <2>1, WithinARound
  <1>7. CASE Continue
    BY <1>7, ContinueWInv
  <1>8. CASE Ended \/ UNCHANGED vars
    BY <1>8, StutterWInv DEF Ended
  <1> QED  BY <1>1, <1>2, <1>3, <1>4, <1>5, <1>6, <1>7, <1>8 DEF Next, Driver

-----------------------------------------------------------------------------
(* The theorem *)

\* The log weights of every particle and the weights its children are drawn by
\* are those of one run through all splits so far: swaps of the ensembles, the
\* gathering of the parents' weights, damping before every drawing but the one
\* the user sees, merge-split rounds and continued runs keep them so, for any
\* number of particles, threads, steps and runs.
THEOREM WeightsNeverStray == Spec => []WeightsAreThoseOfASingleRun
  <1>1. Init => WInv
    BY InitWInv
  <1>2. IInv /\ WInv /\ [Next]_vars => WInv'
    BY NextWInv
  <1>3. WInv => WeightsAreThoseOfASingleRun
    BY DEF WInv
  <1> QED  BY <1>1, <1>2, <1>3, EnsembleInvariant, PTL DEF Spec

-----------------------------------------------------------------------------
(* The ancestry. *)

\* g goes back through the last n columns, the newest first.
GoesBack(g, col, n) ==
    /\ g \in [0..n -> Particles]
    /\ \A k \in 1..n : g[k] = col[n - k + 1][g[k - 1]]

\* Whoever goes back from the slot given for i passes the line of P[i].
Tells(o, P, col, from, n) ==
    \A i \in Particles, g \in [0..n -> Particles] :
        g[0] = from[i] /\ GoesBack(g, col, n) =>
            \A k \in 0..n : o + n - k > 0 => P[i][o + n - k] = g[k]

\* Only the columns that are read matter.
LEMMA TellsSameColumns ==
    ASSUME NEW o, NEW P, NEW col, NEW from, NEW n \in Nat, Tells(o, P, col, from, n),
           NEW other, \A k \in 1..n : other[k] = col[k]
    PROVE  Tells(o, P, other, from, n)
  <1>1. \A k \in 1..n : n - k + 1 \in 1..n
    OBVIOUS
  <1>2. \A g : GoesBack(g, other, n) => GoesBack(g, col, n)
    BY <1>1 DEF GoesBack
  <1> QED  BY <1>2 DEF Tells

\* An entry that is appended is the last, and leaves the others.
LEMMA AppendEntries ==
    \A n \in Nat : \A q \in Seq(Particles), e \in Particles : Len(q) = n =>
        /\ Append(q, e)[n + 1] = e
        /\ \A m \in 1..n : Append(q, e)[m] = q[m]
  <1> TAKE n \in Nat
  <1> TAKE q \in Seq(Particles), e \in Particles
  <1> HAVE Len(q) = n
  <1> QED  BY AppendProperties

\* One step back from a child is one step fewer from its parent.
LEMMA OneBack ==
    \A o, n \in Nat : \A k \in 0..(n + 1) : k # 0 =>
        k - 1 \in 0..n /\ o + n - (k - 1) = o + (n + 1) - k /\ (k - 1) + 1 = k
  OBVIOUS

\* Children, with the column of their parents.
LEMMA TellsChildren ==
    ASSUME NEW o \in Nat, NEW n \in Nat, NEW P \in [Particles -> Seq(Particles)],
           \A i \in Particles : Len(P[i]) = o + n,
           NEW col, Tells(o, P, col, Self, n),
           NEW more, more[n + 1] \in [Particles -> Particles], \A k \in 1..n : more[k] = col[k],
           NEW Q, \A i \in Particles : Q[i] = Append(P[more[n + 1][i]], i)
    PROVE  Tells(o, Q, more, Self, n + 1)
  <1> SUFFICES ASSUME NEW i \in Particles, NEW g \in [0..(n + 1) -> Particles],
                      g[0] = i, GoesBack(g, more, n + 1),
                      NEW k \in 0..(n + 1), o + (n + 1) - k > 0
               PROVE  Q[i][o + (n + 1) - k] = g[k]
    BY DEF Tells, Self
  <1> DEFINE p == more[n + 1]
  <1>p. p = more[n + 1] /\ Q[i] = Append(P[p[i]], i) /\ p \in [Particles -> Particles]
    OBVIOUS
  <1> HIDE DEF p
  <1>1. p[i] \in Particles /\ P[p[i]] \in Seq(Particles) /\ Len(P[p[i]]) = o + n
    BY <1>p
  <1>2. /\ Append(P[p[i]], i)[o + n + 1] = i
        /\ \A m \in 1..(o + n) : Append(P[p[i]], i)[m] = P[p[i]][m]
    <2>1. P[p[i]] \in Seq(Particles) /\ Len(P[p[i]]) = o + n /\ o + n \in Nat /\ i \in Particles
      BY <1>1
    <2> QED  BY <2>1, AppendEntries, Zenon
  <1>3. CASE k = 0
    <2>1. o + (n + 1) - k = o + n + 1
      BY <1>3
    <2> QED  BY <1>p, <1>2, <1>3, <2>1
  <1>4. CASE k # 0
    <2>5. k - 1 \in 0..n /\ o + n - (k - 1) = o + (n + 1) - k /\ (k - 1) + 1 = k
      BY <1>4, OneBack, Zenon
    <2> DEFINE h == [m \in 0..n |-> g[m + 1]]
    <2>1. h \in [0..n -> Particles]
      OBVIOUS
    <2>2. h[0] = p[i]
      <3>1. g[1] = more[(n + 1) - 1 + 1][g[1 - 1]]
        BY DEF GoesBack
      <3>2. (n + 1) - 1 + 1 = n + 1 /\ 1 - 1 = 0 /\ 0 + 1 = 1
        OBVIOUS
      <3> QED  BY <1>p, <3>1, <3>2
    <2>3. ASSUME NEW m \in 1..n
          PROVE  h[m] = col[n - m + 1][h[m - 1]]
      <3>1. m + 1 \in 1..(n + 1) /\ n - m + 1 \in 1..n /\ m - 1 \in 0..n
        OBVIOUS
      <3>2. g[m + 1] = more[(n + 1) - (m + 1) + 1][g[(m + 1) - 1]]
        BY <3>1 DEF GoesBack
      <3>3. (n + 1) - (m + 1) + 1 = n - m + 1 /\ (m + 1) - 1 = (m - 1) + 1
        OBVIOUS
      <3>4. h[m] = g[m + 1] /\ h[m - 1] = g[(m - 1) + 1]
        BY <3>1
      <3> HIDE DEF h
      <3> QED  BY <3>1, <3>2, <3>3, <3>4
    <2>4. GoesBack(h, col, n)
      BY <2>1, <2>3 DEF GoesBack
    <2>8. h[k - 1] = g[k]
      BY <2>5
    <2> HIDE DEF h
    <2>6. P[p[i]][o + n - (k - 1)] = h[k - 1]
      BY <1>1, <2>1, <2>2, <2>4, <2>5 DEF Tells, Self
    <2>7. o + (n + 1) - k \in 1..(o + n)
      BY <1>4
    <2> QED  BY <1>p, <1>1, <1>2, <2>5, <2>6, <2>7, <2>8
  <1> QED  BY <1>3, <1>4

\* The children of the blank map, whatever their parents are said to be.
LEMMA TellsFirstChildren ==
    ASSUME NEW Q, \A i \in Particles : Q[i] = <<i>>, NEW col
    PROVE  Tells(0, Q, col, Self, 1)
  <1> SUFFICES ASSUME NEW i \in Particles, NEW g \in [0..1 -> Particles], g[0] = i,
                      NEW k \in 0..1, 0 + 1 - k > 0
               PROVE  Q[i][0 + 1 - k] = g[k]
    BY DEF Tells, Self
  <1>1. k = 0
    OBVIOUS
  <1> QED  BY <1>1

\* Resampled plans, from the slots they are copied from.
LEMMA TellsCopies ==
    ASSUME NEW o, NEW n \in Nat, NEW P, NEW col, Tells(o, P, col, Self, n),
           NEW r \in [Particles -> Particles], NEW Q, \A i \in Particles : Q[i] = P[r[i]]
    PROVE  Tells(o, Q, col, r, n)
  BY DEF Tells, Self

-----------------------------------------------------------------------------
(* The invariant *)

\* The splits whose parents are stored, and the column stored for each.
made == splits + IF phase = "weighing" THEN 1 ELSE 0

Column(k) == IF k <= Len(saved_parents) THEN saved_parents[k]
             ELSE parent_index_mat[k - Len(saved_parents)]

Columns == [k \in 1..made |-> Column(k)]

\* The slots the plans were copied from, if they were.
LastSlots == IF resampled THEN parent_index_mat[Len(parent_index_mat)] ELSE Self

LinesTold == Tells(origin, plans, Columns, LastSlots, made)

\* Plans are resampled only after the last split of a run.
ResampledAfterTheSplits ==
    resampled => /\ call.runs[run].resample
                 /\ splits_in_run = total_smc_steps(run)
                 /\ phase \in {"step", "finished"}
                 /\ phase = "step" => resample_before_final_ms

AInv == LinesTold /\ ResampledAfterTheSplits

\* A call starts with no columns.
LEMMA InitAInv == Init => AInv
  <1> SUFFICES ASSUME Init PROVE AInv
    OBVIOUS
  <1>1. splits_in_run = 0
    <2>1. splits_in_run = Cardinality({k \in 1..(1 - 1) : steps[k] = "smc"})
      BY DEF Init, splits_in_run
    <2> QED  BY <2>1, FS_EmptySet
  <1>2. made = 0 /\ ~resampled
    BY <1>1 DEF Init, splits, made
  <1>3. ASSUME NEW i \in Particles, NEW g, g[0] = i, NEW k \in 0..0, origin + 0 - k > 0
        PROVE  plans[i][origin + 0 - k] = g[k]
    <2>1. k = 0 /\ origin = 1 /\ plans[i] = <<i>>
      BY <1>3 DEF Init, origin
    <2> QED  BY <1>3, <2>1
  <1> QED  BY <1>2, <1>3 DEF AInv, LinesTold, ResampledAfterTheSplits, Tells, LastSlots, Self

\* Nothing the columns or the lines are made of changes.
LEMMA SameLines ==
    ASSUME AInv, UNCHANGED <<call, blank, run, step_num, plans, parent_index_mat, saved_parents,
                             resampled>>,
           phase = "weighing" <=> phase' = "weighing",
           resampled => phase' = phase
    PROVE  AInv'
  <1>1. /\ splits' = splits /\ origin' = origin /\ splits_in_run' = splits_in_run
        /\ resample_before_final_ms' = resample_before_final_ms
        /\ total_smc_steps(run)' = total_smc_steps(run)
    BY SameRun
  <1>2. made' = made /\ Columns' = Columns /\ LastSlots' = LastSlots
    BY <1>1 DEF made, Columns, Column, LastSlots
  <1> QED  BY <1>1, <1>2 DEF AInv, LinesTold, Tells, GoesBack, ResampledAfterTheSplits

\* The number of columns made so far.
LEMMA MadeType ==
    ASSUME IInv, WInv
    PROVE  made \in Nat /\ origin \in Nat
  BY SplitsType DEF made, WInv

\* The columns are within the matrix of the run or those saved from the earlier ones.
LEMMA ColumnsType ==
    ASSUME IInv, WInv, phase # "weighing"
    PROVE  /\ Len(saved_parents) \in Nat /\ splits_in_run \in Nat
           /\ splits = Len(saved_parents) + splits_in_run
           /\ splits_in_run <= total_smc_steps(run)
           /\ Len(parent_index_mat) \in Nat /\ splits_in_run <= Len(parent_index_mat)
           /\ made = splits
           /\ \A k \in 1..splits : Column(k) \in [Particles -> Particles]
  <1>1. /\ saved_parents \in Seq([Particles -> Particles])
        /\ parent_index_mat \in Seq([Particles -> Particles])
        /\ Len(saved_parents) \in Nat /\ Len(parent_index_mat) \in Nat
    BY LenProperties DEF WInv, LinesCounted, IInv, TypeOK
  <1>2. /\ splits_in_run \in Nat /\ splits = Len(saved_parents) + splits_in_run
        /\ splits_in_run <= total_smc_steps(run) /\ total_smc_steps(run) \in Nat
        /\ total_smc_steps(run) <= Len(parent_index_mat)
    BY StepsOfTheRun DEF splits, IInv, SplitsCounted, TypeOK
  <1>3. made = splits
    BY <1>1, <1>2 DEF made
  <1>4. ASSUME NEW k \in 1..splits
        PROVE  Column(k) \in [Particles -> Particles]
    <2>1. CASE k <= Len(saved_parents)
      BY <1>1, <2>1, ElementOfSeq DEF Column
    <2>2. CASE k > Len(saved_parents)
      <3>1. k - Len(saved_parents) \in 1..Len(parent_index_mat)
        BY <1>1, <1>2, <2>2
      <3> QED  BY <1>1, <2>2, <3>1, ElementOfSeq DEF Column
    <2> QED  BY <1>1, <2>1, <2>2
  <1> QED  BY <1>1, <1>2, <1>3, <1>4

\* A round ends: the children have the column that was filled in.
LEMMA EndRoundAInv ==
    ASSUME IInv, WInv, AInv, EndRound
    PROVE  AInv'
  <1>1. /\ UNCHANGED <<call, blank, run, step_num, smc_step_num, saved_parents, resampled,
                       parent_index_buffer>>
        /\ phase = "splitting" /\ phase' = "weighing" /\ plans' = new_plans
        /\ \A i \in Particles : new_plans[i] = Append(plans[parent_index_buffer[i]], i)
    BY DEF EndRound, driverVars, IInv, ChildrenOfTheirParents, Child
  <1>2. /\ splits' = splits /\ origin' = origin /\ splits_in_run' = splits_in_run
        /\ total_smc_steps(run)' = total_smc_steps(run)
    BY <1>1, SameRun
  <1>3. /\ Len(saved_parents) \in Nat /\ splits_in_run \in Nat
        /\ splits = Len(saved_parents) + splits_in_run /\ splits \in Nat
        /\ Len(parent_index_mat) \in Nat /\ made = splits /\ made' = splits + 1
        /\ blank \in BOOLEAN /\ origin \in Nat
    BY <1>1, <1>2, ColumnsType, SplitsType DEF made, WInv
  <1>4. splits_in_run < total_smc_steps(run) /\ splits_in_run = smc_step_num
    <2>1. step_num \in 1..Len(steps) /\ steps[step_num] = "smc"
      BY <1>1, StepsOfTheRun DEF IInv, SplitsCounted
    <2>2. splits_in_run < total_smc_steps(run)
      BY <2>1, StepsOfTheRun, SplitsIsUpto, UptoLess DEF IInv
    <2> QED  BY <2>2, SplitsIsUpto DEF IInv, SplitsCounted
  <1>5. ~resampled /\ ResampledAfterTheSplits'
    BY <1>1 DEF AInv, ResampledAfterTheSplits
  <1>6. /\ parent_index_buffer \in [Particles -> Particles]
        /\ plans \in [Particles -> Seq(Particles)]
        /\ \A i \in Particles : Len(plans[i]) = origin + splits
    <2>1. \A i \in Particles : Len(plans[i]) = origin + splits + 0
      BY <1>1 DEF WInv, LinesCounted
    <2> QED  BY <1>3, <2>1 DEF IInv, TypeOK
  <1>7. Columns'[splits + 1] = StoredParents /\ \A k \in 1..splits : Columns'[k] = Columns[k]
    <2>1. /\ smc_step_num + 1 \in 1..Len(parent_index_mat)
          /\ parent_index_mat \in Seq([Particles -> Particles])
          /\ parent_index_mat' = [parent_index_mat EXCEPT ![smc_step_num + 1] = StoredParents]
      BY <1>3, <1>4, StepsOfTheRun DEF IInv, SplitsCounted, TypeOK, EndRound
    <2>2. /\ parent_index_mat'[smc_step_num + 1] = StoredParents
          /\ \A k \in Int : k # smc_step_num + 1 => parent_index_mat'[k] = parent_index_mat[k]
      <3>1. DOMAIN parent_index_mat = 1..Len(parent_index_mat)
        BY <2>1, LenProperties
      <3> QED  BY <2>1, <3>1
    <2>3. /\ (splits + 1) - Len(saved_parents) = smc_step_num + 1
          /\ ~(splits + 1 <= Len(saved_parents))
          /\ \A k \in 1..splits : k - Len(saved_parents) # smc_step_num + 1 /\ k - Len(saved_parents) \in Int
      BY <1>3, <1>4
    <2>4. /\ Column(splits + 1)' = StoredParents
          /\ \A k \in 1..splits : Column(k)' = Column(k)
      BY <1>1, <1>2, <2>2, <2>3 DEF Column
    <2>5. Columns' = [k \in 1..(splits + 1) |-> Column(k)'] /\ Columns = [k \in 1..splits |-> Column(k)]
      BY <1>3 DEF Columns
    <2>6. splits + 1 \in 1..(splits + 1) /\ \A k \in 1..splits : k \in 1..(splits + 1)
      BY <1>3
    <2> QED  BY <1>2, <2>4, <2>5, <2>6
  <1>8. Tells(origin, plans, Columns, Self, splits)
    BY <1>3, <1>5 DEF AInv, LinesTold, LastSlots
  <1>9. Tells(origin', plans', Columns', Self, splits + 1)
    <2>1. CASE smc_step_num = 0 /\ from_blank_map
      <3>1. splits = 0 /\ origin = 0
        BY <1>3, <1>4, <2>1 DEF splits, from_blank_map, WInv, LinesCounted, origin
      <3>2. \A i \in Particles : plans'[i] = <<i>>
        <4>1. \A q \in Seq(Particles) : \A i \in Particles : Len(q) = 0 => Append(q, i) = <<i>>
          OBVIOUS
        <4> QED  BY <1>1, <1>6, <3>1, <4>1
      <3> QED  BY <1>2, <3>1, <3>2, TellsFirstChildren
    <2>2. CASE ~(smc_step_num = 0 /\ from_blank_map)
      <3>1. Columns'[splits + 1] = parent_index_buffer
        BY <1>7, <2>2 DEF StoredParents
      <3>2. \A i \in Particles : plans'[i] = Append(plans[parent_index_buffer[i]], i)
        BY <1>1
      <3>3. Tells(origin, plans', Columns', Self, splits + 1)
        <4> HIDE DEF Columns
        <4>1. Columns'[splits + 1] \in [Particles -> Particles]
          BY <1>6, <3>1
        <4>2. \A i \in Particles : plans'[i] = Append(plans[Columns'[splits + 1][i]], i)
          BY <3>1, <3>2
        <4> QED  BY <1>3, <1>6, <1>7, <1>8, <4>1, <4>2, TellsChildren, Zenon
      <3> QED  BY <1>2, <3>3
    <2> QED  BY <2>1, <2>2
  <1>10. LinesTold'
    BY <1>1, <1>3, <1>5, <1>9 DEF LinesTold, LastSlots
  <1> QED  BY <1>5, <1>10 DEF AInv

\* What a resampling does to the plans and to the matrix.
LEMMA ResampledColumns ==
    ASSUME NEW P, NEW C, NEW M \in Seq([Particles -> Particles]), Len(M) # 0, Resample(P, C, M)
    PROVE  \E f \in [Particles -> Particles] :
              /\ \A i \in Particles : plans'[i] = P[f[i]]
              /\ Len(parent_index_mat') = Len(M) /\ parent_index_mat'[Len(M)] = f
              /\ \A k \in 1..(Len(M) - 1) : parent_index_mat'[k] = M[k]
  <1>1. PICK f \in ResampleIndices :
           /\ plans' = [i \in Particles |-> P[f[i]]]
           /\ parent_index_mat' = [M EXCEPT ![Len(M)] = f]
    BY DEF Resample
  <1>2. f \in [Particles -> Particles]
    BY DEF ResampleIndices
  <1> DEFINE T == [Particles -> Particles]
  <1>3. M \in Seq(T) /\ f \in T
    BY <1>2
  <1> HIDE DEF T
  <1>4. Len(M) \in Nat \ {0} /\ M \in [1..Len(M) -> T]
    BY <1>3, LenProperties
  <1>5. /\ parent_index_mat' \in [1..Len(M) -> T] /\ parent_index_mat'[Len(M)] = f
        /\ \A k \in 1..(Len(M) - 1) : parent_index_mat'[k] = M[k]
    BY <1>1, <1>3, <1>4
  <1>6. \A k \in Nat : \A m \in [1..k -> T] : Len(m) = k
    OBVIOUS
  <1>7. Len(parent_index_mat') = Len(M)
    BY <1>4, <1>5, <1>6
  <1> QED  BY <1>1, <1>2, <1>5, <1>7

\* A resampling copies plans and stores where from, in a column of its own.
LEMMA ResampledLinesTold ==
    ASSUME NEW C, Resample(plans, C, parent_index_mat), UNCHANGED <<blank, saved_parents>>,
           parent_index_mat \in Seq([Particles -> Particles]), Len(saved_parents) \in Nat,
           made \in Nat, made' = made, made - Len(saved_parents) < Len(parent_index_mat),
           made >= Len(saved_parents),
           Tells(origin, plans, Columns, Self, made)
    PROVE  resampled' /\ LinesTold'
  <1>1. Len(parent_index_mat) \in Nat \ {0}
    BY LenProperties
  <1>2. PICK f \in [Particles -> Particles] :
           /\ \A i \in Particles : plans'[i] = plans[f[i]]
           /\ Len(parent_index_mat') = Len(parent_index_mat)
           /\ parent_index_mat'[Len(parent_index_mat)] = f
           /\ \A k \in 1..(Len(parent_index_mat) - 1) : parent_index_mat'[k] = parent_index_mat[k]
    BY <1>1, ResampledColumns
  <1>3. resampled' /\ origin' = origin
    BY DEF Resample, origin
  <1>4. LastSlots' = f
    BY <1>2, <1>3 DEF LastSlots
  <1>5. \A k \in 1..made : Columns'[k] = Columns[k]
    <2> TAKE k \in 1..made
    <2>1. Columns'[k] = Column(k)' /\ Columns[k] = Column(k)
      BY DEF Columns
    <2>2. CASE k <= Len(saved_parents)
      BY <2>1, <2>2 DEF Column
    <2>3. CASE k > Len(saved_parents)
      <3>1. k - Len(saved_parents) \in 1..(Len(parent_index_mat) - 1)
        BY <1>1, <2>3
      <3> QED  BY <1>2, <2>1, <2>3, <3>1 DEF Column
    <2> QED  BY <2>2, <2>3
  <1>6. Tells(origin, plans, Columns', Self, made)
    <2> HIDE DEF Columns
    <2> QED  BY <1>5, TellsSameColumns
  <1>7. Tells(origin, plans', Columns', f, made)
    BY <1>2, <1>6, TellsCopies
  <1> QED  BY <1>3, <1>4, <1>7 DEF LinesTold

\* The last split of a run is the last of its steps that is one.
LEMMA AllSplitsByTheLast ==
    ASSUME IInv, step_num \in 1..Len(steps), steps[step_num] = "smc", step_num = last_smc_step
    PROVE  Cardinality(Upto(steps, step_num)) = total_smc_steps(run)
  <1> DEFINE LastSplit(k) == steps[k] = "smc" /\ \A j \in DOMAIN steps : j > k => steps[j] = "ms"
             S == {n \in Nat : \E k \in 1..Len(steps) : steps[k] = "smc" /\ n = Len(steps) - k}
  <1>1. /\ steps \in Seq({"smc", "ms"}) /\ Len(steps) \in Nat \ {0}
        /\ DOMAIN steps = 1..Len(steps)
        /\ total_smc_steps(run) = Cardinality(Upto(steps, Len(steps)))
        /\ \A k \in 1..Len(steps) : steps[k] \in {"smc", "ms"}
    BY StepsOfTheRun, LenProperties
  <1>2. Len(steps) - step_num \in S
    BY <1>1
  <1>3. PICK n \in S : \A m \in S : n <= m
    <2>1. S \in SUBSET Nat /\ S # {}
      BY <1>2
    <2> HIDE DEF S
    <2> QED  BY <2>1, LeastElement
  <1>4. PICK k \in 1..Len(steps) : steps[k] = "smc" /\ n = Len(steps) - k
    BY <1>3
  <1>5. ASSUME NEW j \in 1..Len(steps), j > k
        PROVE  steps[j] = "ms"
    <2>1. Len(steps) - j \in Nat /\ Len(steps) - j < n
      BY <1>1, <1>4, <1>5
    <2>2. Len(steps) - j \notin S
      <3> HIDE DEF S
      <3>1. n \in Nat
        BY <1>1, <1>4
      <3> QED  BY <1>3, <2>1, <3>1
    <2> QED  BY <1>1, <2>1, <2>2
  <1>6. LastSplit(k)
    BY <1>1, <1>4, <1>5
  <1>7. LastSplit(step_num)
    <2> HIDE DEF S
    <2> QED  BY <1>1, <1>6 DEF last_smc_step
  <1>8. Upto(steps, step_num) = Upto(steps, Len(steps))
    <2>1. \A j \in 1..Len(steps) : j > step_num => steps[j] # "smc"
      BY <1>1, <1>7
    <2>2. ASSUME NEW j
          PROVE  j \in Upto(steps, step_num) <=> j \in Upto(steps, Len(steps))
      <3>1. \A a \in Nat : \A b \in 1..a :
               /\ j \in 1..b => j \in 1..a
               /\ j \in 1..a /\ ~(j > b) => j \in 1..b
        OBVIOUS
      <3>2. Len(steps) \in Nat /\ step_num \in 1..Len(steps)
        BY <1>1
      <3>3. /\ j \in 1..step_num => j \in 1..Len(steps)
            /\ j \in 1..Len(steps) /\ ~(j > step_num) => j \in 1..step_num
        BY <3>1, <3>2, Zenon
      <3> QED  BY <2>1, <3>3 DEF Upto
    <2> QED  BY <2>2
  <1> QED  BY <1>1, <1>8

\* Computing weights touches no line and no column.
LEMMA ReweighAInv ==
    ASSUME IInv, WInv, AInv, Reweigh
    PROVE  AInv'
  <1> DEFINE weighed == [i \in Particles |-> BroughtUpToDate(ParentRow(i), plans[i])]
             now == resample_before_final_ms /\ step_num = last_smc_step
  <1>1. /\ UNCHANGED <<call, blank, run, saved_parents>>
        /\ phase = "weighing" /\ phase' = "step" /\ step_num' = step_num + 1
    BY DEF Reweigh
  <1>2. IF now THEN Resample(plans, weighed, parent_index_mat)
        ELSE UNCHANGED <<plans, parent_index_mat, resampled>>
    BY DEF Reweigh
  <1>3. ~resampled
    BY <1>1 DEF AInv, ResampledAfterTheSplits
  <1>4. step_num \in 1..Len(steps) /\ steps[step_num] = "smc"
    BY <1>1, StepsOfTheRun DEF IInv, SplitsCounted
  <1>5. /\ splits_in_run = smc_step_num /\ splits_in_run' = smc_step_num + 1
        /\ smc_step_num \in Nat /\ smc_step_num < total_smc_steps(run)
    BY <1>1, <1>4, SplitAtHand DEF IInv, SplitsCounted, TypeOK
  <1>6. /\ steps' = steps /\ total_smc_steps(run)' = total_smc_steps(run) /\ origin' = origin
        /\ splits_in_run' = Cardinality(Upto(steps, step_num))
    <2>1. steps' = steps /\ total_smc_steps(run)' = total_smc_steps(run) /\ origin' = origin
      BY <1>1 DEF steps, total_smc_steps, origin
    <2>2. step_num' - 1 = step_num
      BY <1>1, StepsOfTheRun
    <2> QED  BY <2>1, <2>2 DEF splits_in_run, Upto
  <1>7. /\ saved_parents \in Seq([Particles -> Particles]) /\ Len(saved_parents) \in Nat
        /\ parent_index_mat \in Seq([Particles -> Particles])
        /\ Len(parent_index_mat) = total_smc_steps(run) +
               IF call.runs[run].resample THEN 1 ELSE 0
        /\ total_smc_steps(run) \in Nat
    BY LenProperties, StepsOfTheRun DEF WInv, LinesCounted, RunInStep, IInv, TypeOK
  <1>8. /\ made = Len(saved_parents) + smc_step_num + 1 /\ made' = made /\ made \in Nat
    BY <1>1, <1>5, <1>7 DEF made, splits
  <1>9. Tells(origin, plans, Columns, Self, made)
    BY <1>3 DEF AInv, LinesTold, LastSlots
  <1>10. CASE now
    <2>1. Resample(plans, weighed, parent_index_mat)
      BY <1>2, <1>10
    <2>2. made - Len(saved_parents) < Len(parent_index_mat)
      BY <1>5, <1>7, <1>8, <1>10 DEF resample_before_final_ms
    <2>3. resampled' /\ LinesTold'
      <3> HIDE DEF now, weighed
      <3>1. made >= Len(saved_parents)
        BY <1>5, <1>7, <1>8
      <3> QED  BY <1>1, <1>7, <1>8, <1>9, <2>1, <2>2, <3>1, ResampledLinesTold
    <2>4. splits_in_run' = total_smc_steps(run)
      BY <1>4, <1>6, <1>10, AllSplitsByTheLast
    <2>5. resample_before_final_ms' /\ call.runs[run].resample
      BY <1>1, <1>6, <1>10 DEF resample_before_final_ms, last_smc_step
    <2> QED  BY <1>1, <1>6, <2>3, <2>4, <2>5 DEF AInv, ResampledAfterTheSplits
  <1>11. CASE ~now
    <2>1. UNCHANGED <<plans, parent_index_mat, resampled>>
      BY <1>2, <1>11
    <2>2. Columns' = Columns /\ LastSlots' = LastSlots
      BY <1>1, <1>8, <2>1 DEF Columns, Column, LastSlots
    <2> QED  BY <1>3, <1>6, <1>8, <2>1, <2>2 DEF AInv, LinesTold, ResampledAfterTheSplits
  <1> QED  BY <1>10, <1>11

\* Merge-split rounds change plans in place: their slots stay.
LEMMA MergeSplitRoundAInv ==
    ASSUME IInv, WInv, AInv, MergeSplitRound
    PROVE  AInv'
  <1>1. /\ UNCHANGED <<call, blank, run, phase, plans, parent_index_mat, saved_parents, resampled>>
        /\ phase = "step" /\ step_num' = step_num + 1
        /\ step_num <= Len(steps) /\ steps[step_num] = "ms"
    BY DEF MergeSplitRound, ensembleVars
  <1>2. steps' = steps /\ total_smc_steps(run)' = total_smc_steps(run) /\ origin' = origin
    BY <1>1 DEF steps, total_smc_steps, origin
  <1>3. splits_in_run' = splits_in_run
    <2>1. step_num \in Nat \ {0} /\ step_num' - 1 = step_num
      BY <1>1, StepsOfTheRun
    <2>2. splits_in_run' = Cardinality(Upto(steps, step_num))
      BY <1>2, <2>1 DEF splits_in_run, Upto
    <2>3. Cardinality(Upto(steps, step_num)) = Cardinality(Upto(steps, step_num - 1)) + 0
      BY <1>1, <2>1, UptoNext
    <2> QED  BY <2>2, <2>3, SplitsIsUpto DEF IInv
  <1>4. /\ made' = made /\ Columns' = Columns /\ LastSlots' = LastSlots
        /\ resample_before_final_ms' = resample_before_final_ms
    BY <1>1, <1>2, <1>3 DEF made, splits, Columns, Column, LastSlots,
        resample_before_final_ms, last_smc_step
  <1> QED  BY <1>1, <1>2, <1>3, <1>4 DEF AInv, LinesTold, ResampledAfterTheSplits

\* A run ends, resampled into a column of its own or not.
LEMMA EndRunAInv ==
    ASSUME IInv, WInv, AInv, EndRun
    PROVE  AInv'
  <1>1. /\ UNCHANGED <<call, blank, run, step_num, saved_parents>>
        /\ phase = "step" /\ phase' = "finished" /\ step_num > Len(steps)
    BY DEF EndRun, driverVars
  <1>2. IF call.runs[run].resample /\ ~resample_before_final_ms
        THEN Resample(plans, cache, parent_index_mat)
        ELSE UNCHANGED <<plans, parent_index_mat, resampled>>
    BY DEF EndRun
  <1>3. /\ splits' = splits /\ origin' = origin /\ splits_in_run' = splits_in_run
        /\ steps' = steps /\ total_smc_steps(run)' = total_smc_steps(run)
    BY <1>1, SameRun
  <1>4. step_num = Len(steps) + 1 /\ splits_in_run = total_smc_steps(run)
    <2>1. step_num = Len(steps) + 1
      BY <1>1, StepsOfTheRun DEF WInv, RunInStep
    <2> QED  BY <2>1, AllStepsAllSplits
  <1>5. /\ Len(saved_parents) \in Nat /\ splits_in_run \in Nat
        /\ made = Len(saved_parents) + splits_in_run /\ made' = made /\ made \in Nat
    BY <1>1, <1>3, ColumnsType DEF made
  <1>6. CASE call.runs[run].resample /\ ~resample_before_final_ms
    <2>1. Resample(plans, cache, parent_index_mat)
      BY <1>2, <1>6
    <2>2. /\ parent_index_mat \in Seq([Particles -> Particles])
          /\ made - Len(saved_parents) < Len(parent_index_mat) /\ made >= Len(saved_parents)
      BY <1>4, <1>5, <1>6 DEF WInv, RunInStep, IInv, TypeOK
    <2>3. Tells(origin, plans, Columns, Self, made)
      <3>1. ~resampled
        BY <1>1, <1>6 DEF AInv, ResampledAfterTheSplits
      <3> QED  BY <3>1 DEF AInv, LinesTold, LastSlots
    <2>4. resampled' /\ LinesTold'
      BY <1>1, <1>5, <2>1, <2>2, <2>3, ResampledLinesTold
    <2> QED  BY <1>1, <1>3, <1>4, <1>6, <2>4 DEF AInv, ResampledAfterTheSplits
  <1>7. CASE ~(call.runs[run].resample /\ ~resample_before_final_ms)
    <2>1. UNCHANGED <<plans, parent_index_mat, resampled>>
      BY <1>2, <1>7
    <2>2. Columns' = Columns /\ LastSlots' = LastSlots
      BY <1>1, <1>5, <2>1 DEF Columns, Column, LastSlots
    <2> QED  BY <1>1, <1>3, <1>5, <2>1, <2>2 DEF AInv, LinesTold, ResampledAfterTheSplits
  <1> QED  BY <1>6, <1>7

\* The columns of a run are put behind those of the runs before it.
LEMMA ContinueAInv ==
    ASSUME IInv, WInv, AInv, Continue
    PROVE  AInv'
  <1>1. /\ UNCHANGED <<call, blank, plans, resampled>>
        /\ phase = "finished" /\ phase' = "step" /\ ~resampled
        /\ run' = run + 1 /\ step_num' = 1
        /\ saved_parents' = saved_parents \o parent_index_mat
    BY DEF Continue
  <1>2. splits_in_run' = 0
    <2>1. splits_in_run' = Cardinality({k \in 1..(1 - 1) : steps'[k] = "smc"})
      BY <1>1 DEF splits_in_run
    <2> QED  BY <2>1, FS_EmptySet
  <1>3. splits_in_run = total_smc_steps(run) /\ Len(parent_index_mat) = total_smc_steps(run)
    <2>1. call.runs[run].resample \in BOOLEAN
      BY StepsOfTheRun, TotalIsUpto DEF IInv
    <2> QED  BY <1>1, <2>1, AllStepsAllSplits, StepsOfTheRun DEF WInv, RunInStep
  <1>4. /\ saved_parents \in Seq([Particles -> Particles])
        /\ parent_index_mat \in Seq([Particles -> Particles])
    BY DEF WInv, LinesCounted, IInv, TypeOK
  <1>5. /\ Len(saved_parents) \in Nat /\ Len(parent_index_mat) \in Nat
        /\ Len(saved_parents') = Len(saved_parents) + Len(parent_index_mat)
    BY <1>1, <1>4, ConcatProperties, LenProperties
  <1>6. made = Len(saved_parents') /\ made' = made /\ made \in Nat
    BY <1>1, <1>2, <1>3, <1>5 DEF made, splits
  <1>7. \A k \in 1..made : Columns'[k] = Columns[k]
    <2> TAKE k \in 1..made
    <2>1. Columns'[k] = saved_parents'[k] /\ Columns[k] = Column(k)
      BY <1>6 DEF Columns, Column
    <2>2. CASE k <= Len(saved_parents)
      <3>1. k \in 1..Len(saved_parents)
        BY <1>6, <2>2
      <3>2. saved_parents'[k] = saved_parents[k]
        BY <1>1, <1>4, <3>1, ConcatProperties
      <3> QED  BY <2>1, <2>2, <3>2 DEF Column
    <2>3. CASE k > Len(saved_parents)
      <3>1. k \in (Len(saved_parents) + 1)..(Len(saved_parents) + Len(parent_index_mat))
        BY <1>5, <1>6, <2>3
      <3>2. saved_parents'[k] = parent_index_mat[k - Len(saved_parents)]
        BY <1>1, <1>4, <3>1, ConcatProperties
      <3>3. ~(k <= Len(saved_parents))
        BY <1>5, <2>3
      <3> QED  BY <2>1, <3>2, <3>3 DEF Column
    <2> QED  BY <1>5, <2>2, <2>3
  <1>8. Tells(origin, plans, Columns', Self, made)
    <2>1. Tells(origin, plans, Columns, Self, made)
      BY <1>1 DEF AInv, LinesTold, LastSlots
    <2> HIDE DEF Columns
    <2> QED  BY <1>6, <1>7, <2>1, TellsSameColumns
  <1>9. origin' = origin /\ LastSlots' = Self
    BY <1>1 DEF origin, LastSlots
  <1> QED  BY <1>1, <1>6, <1>8, <1>9 DEF AInv, LinesTold, ResampledAfterTheSplits

\* Every step keeps what the columns tell.
LEMMA NextAInv ==
    ASSUME IInv, WInv, AInv, [Next]_vars
    PROVE  AInv'
  <1>1. CASE StartRound
    <2>1. ~resampled
      <3>1. step_num \in 1..Len(steps) /\ steps[step_num] = "smc" /\ phase = "step"
        BY <1>1, StepsOfTheRun DEF StartRound
      <3>2. splits_in_run < total_smc_steps(run) /\ splits_in_run \in Nat
        BY <3>1, StepsOfTheRun, SplitsIsUpto, UptoLess DEF IInv
      <3> QED  BY <3>2, StepsOfTheRun DEF AInv, ResampledAfterTheSplits
    <2> QED  BY <1>1, <2>1, SameLines DEF StartRound, driverVars, ensembleVars
  <1>2. CASE ExtraParticle
    <2>1. ~resampled
      BY <1>2 DEF ExtraParticle, AInv, ResampledAfterTheSplits
    <2> QED  BY <1>2, <2>1, SameLines DEF ExtraParticle, Throw, driverVars, ensembleVars
  <1>3. CASE EndRound
    BY <1>3, EndRoundAInv
  <1>4. CASE Reweigh
    BY <1>4, ReweighAInv
  <1>5. CASE MergeSplitRound
    BY <1>5, MergeSplitRoundAInv
  <1>6. CASE EndRun
    BY <1>6, EndRunAInv
  <1>7. ASSUME NEW t \in Threads, Thread(t)
        PROVE  AInv'
    <2>1. /\ UNCHANGED <<driverVars, ensembleVars>>
          /\ phase = "splitting" /\ phase' \in {"splitting", "failed"}
      BY <1>7 DEF Thread, Take, Draw, Split, HardConstraints, Throw
    <2>2. ~resampled
      BY <2>1 DEF AInv, ResampledAfterTheSplits
    <2> QED  BY <2>1, <2>2, SameLines DEF driverVars, ensembleVars
  <1>8. CASE Continue
    BY <1>8, ContinueAInv
  <1>9. CASE Ended \/ UNCHANGED vars
    <2>1. UNCHANGED <<call, blank, run, step_num, phase, plans, parent_index_mat,
                      saved_parents, resampled>>
      BY <1>9 DEF Ended, vars, driverVars, ensembleVars
    <2> QED  BY <2>1, SameLines
  <1> QED  BY <1>1, <1>2, <1>3, <1>4, <1>5, <1>6, <1>7, <1>8, <1>9 DEF Next, Driver

-----------------------------------------------------------------------------
(* What R composes *)

\* The columns are those R reads.
LEMMA ParentColumnsAre ==
    ASSUME IInv, WInv, phase # "weighing"
    PROVE  \A k \in 1..splits : ParentColumns[k] = Column(k)
  <1>1. /\ saved_parents \in Seq([Particles -> Particles])
        /\ parent_index_mat \in Seq([Particles -> Particles])
        /\ Len(saved_parents) \in Nat /\ splits_in_run \in Nat
        /\ splits = Len(saved_parents) + splits_in_run
        /\ Len(parent_index_mat) \in Nat /\ splits_in_run <= Len(parent_index_mat)
    BY ColumnsType DEF WInv, LinesCounted, IInv, TypeOK
  <1> DEFINE T == [Particles -> Particles]
             made_here == SubSeq(parent_index_mat, 1, splits_in_run)
  <1>2. /\ made_here \in Seq(T) /\ Len(made_here) = splits_in_run
        /\ \A k \in 1..splits_in_run : made_here[k] = parent_index_mat[k]
    <2>1. \A U : \A m \in Seq(U) : \A n \in Nat : n <= Len(m) =>
             /\ SubSeq(m, 1, n) \in Seq(U) /\ Len(SubSeq(m, 1, n)) = n
             /\ \A k \in 1..n : SubSeq(m, 1, n)[k] = m[k]
      OBVIOUS
    <2> HIDE DEF T
    <2>2. parent_index_mat \in Seq(T)
      BY <1>1 DEF T
    <2> QED  BY <1>1, <2>1, <2>2
  <1> HIDE DEF T, made_here
  <1>3. ParentColumns = saved_parents \o made_here /\ saved_parents \in Seq(T)
    BY <1>1 DEF ParentColumns, T, made_here
  <1> TAKE k \in 1..splits
  <1>4. CASE k <= Len(saved_parents)
    <2>1. k \in 1..Len(saved_parents)
      BY <1>1, <1>4
    <2> QED  BY <1>2, <1>3, <1>4, <2>1, ConcatProperties DEF Column
  <1>5. CASE k > Len(saved_parents)
    <2>1. /\ k \in (Len(saved_parents) + 1)..(Len(saved_parents) + Len(made_here))
          /\ k - Len(saved_parents) \in 1..splits_in_run /\ ~(k <= Len(saved_parents))
      BY <1>1, <1>2, <1>5
    <2> QED  BY <1>2, <1>3, <2>1, ConcatProperties DEF Column
  <1> QED  BY <1>1, <1>4, <1>5

\* What R composes exists and goes back through the columns.
LEMMA ToldSlotsGoBack ==
    ASSUME IInv, WInv, phase # "weighing", LastSlots \in [Particles -> Particles],
           NEW i \in Particles
    PROVE  /\ ToldSlots(i) \in [0..splits -> Particles]
           /\ ToldSlots(i)[0] = LastSlots[i]
           /\ GoesBack(ToldSlots(i), Columns, splits)
  <1> DEFINE first == IF resampled THEN parent_index_mat[Len(parent_index_mat)][i] ELSE i
             h == [n \in 1..splits |-> Column(splits - n + 1)]
             AsRead(f) == f = [n \in 0..splits |->
                                     IF n = 0 THEN first
                                     ELSE ParentColumns[splits - n + 1][f[n - 1]]]
  <1>1. /\ splits \in Nat /\ made = splits
        /\ \A k \in 1..splits : Column(k) \in [Particles -> Particles] /\ ParentColumns[k] = Column(k)
    BY ColumnsType, SplitsType, ParentColumnsAre DEF WInv
  <1>2. \A n \in 1..splits : splits - n + 1 \in 1..splits
    BY <1>1
  <1>3. /\ h \in [1..splits -> [Particles -> Particles]]
        /\ \A n \in 1..splits : h[n] = ParentColumns[splits - n + 1] /\ h[n] = Column(splits - n + 1)
    BY <1>1, <1>2
  <1>4. first = LastSlots[i] /\ first \in Particles
    BY DEF LastSlots, Self
  <1>5. ToldSlots(i) = CHOOSE f : AsRead(f)
    BY DEF ToldSlots
  <1> HIDE DEF h, first
  <1>h. splits \in Nat /\ first \in Particles /\ h \in [1..splits -> [Particles -> Particles]]
    BY <1>1, <1>3, <1>4
  <1>6. ASSUME NEW f
        PROVE  AsRead(f) <=> IsIteration(f, splits, first, h)
    <2>1. \A n \in 0..splits : n # 0 => n \in 1..splits
      BY <1>1
    <2> QED  BY <1>3, <2>1 DEF IsIteration
  <1>7. \E f : AsRead(f)
    <2>1. \E f \in [0..splits -> Particles] : IsIteration(f, splits, first, h)
      BY <1>h, IterationExists
    <2> QED  BY <1>6, <2>1
  <1> DEFINE told == ToldSlots(i)
  <1>8. AsRead(told)
    <2> HIDE DEF AsRead
    <2> QED  BY <1>5, <1>7
  <1> HIDE DEF told
  <1>9. IsIteration(told, splits, first, h)
    BY <1>6, <1>8
  <1>10. told \in [0..splits -> Particles]
    BY <1>h, <1>9, IterationType
  <1>11. told[0] = LastSlots[i] /\ \A k \in 1..splits : told[k] = Columns[splits - k + 1][told[k - 1]]
    <2>1. 0 \in 0..splits /\ \A k \in 1..splits : k \in 0..splits /\ k # 0
      BY <1>1
    <2>2. \A k \in 1..splits : Columns[k] = Column(k)
      BY <1>1 DEF Columns
    <2>3. told[0] = first /\ \A k \in 1..splits : told[k] = h[k][told[k - 1]]
      BY <1>9, <2>1 DEF IsIteration
    <2> QED  BY <1>2, <1>3, <1>4, <2>2, <2>3
  <1> QED  BY <1>10, <1>11 DEF GoesBack, told

\* The slots the resampling drew from are slots.
LEMMA LastSlotsType ==
    ASSUME IInv, WInv, AInv
    PROVE  LastSlots \in [Particles -> Particles]
  <1>1. CASE resampled
    <2>1. /\ parent_index_mat \in Seq([Particles -> Particles])
          /\ Len(parent_index_mat) \in Nat \ {0}
      BY <1>1, StepsOfTheRun DEF WInv, RunInStep, AInv, ResampledAfterTheSplits, IInv, TypeOK
    <2>2. Len(parent_index_mat) \in 1..Len(parent_index_mat)
      BY <2>1
    <2> QED  BY <1>1, <2>1, <2>2, ElementOfSeq DEF LastSlots
  <1>2. CASE ~resampled
    BY <1>2 DEF LastSlots, Self
  <1> QED  BY <1>1, <1>2

\* At every step the stored matrix, through the column of the resampling, every
\* split of this run and of the runs it continues, tells the line each plan
\* really descends from, for any number of particles, threads, steps and runs:
\* what get_smc_ancestors composes is never another plan's history.
THEOREM AncestryNeverLost == Spec => []AncestryIsTold
  <1>1. Init => WInv /\ AInv
    BY InitWInv, InitAInv
  <1>2. IInv /\ WInv /\ AInv /\ [Next]_vars => WInv' /\ AInv'
    BY NextWInv, NextAInv
  <1>3. IInv /\ WInv /\ AInv => AncestryIsTold
    <2> SUFFICES ASSUME IInv, WInv, AInv, phase # "weighing", NEW i \in Particles
                 PROVE  /\ Len(plans[i]) = origin + splits
                        /\ \A n \in 0..splits : origin + splits - n > 0 =>
                              plans[i][origin + splits - n] = ToldSlots(i)[n]
      BY DEF AncestryIsTold
    <2>1. splits \in Nat /\ origin \in Nat /\ made = splits
      BY ColumnsType, SplitsType DEF WInv
    <2>2. Len(plans[i]) = origin + splits + 0
      BY DEF WInv, LinesCounted
    <2>3. /\ ToldSlots(i) \in [0..splits -> Particles] /\ ToldSlots(i)[0] = LastSlots[i]
          /\ GoesBack(ToldSlots(i), Columns, splits)
      BY LastSlotsType, ToldSlotsGoBack
    <2>4. \A n \in 0..splits : origin + splits - n > 0 =>
              plans[i][origin + splits - n] = ToldSlots(i)[n]
      BY <2>1, <2>3 DEF AInv, LinesTold, Tells
    <2> QED  BY <2>1, <2>2, <2>4
  <1> QED  BY <1>1, <1>2, <1>3, EnsembleInvariant, PTL DEF Spec
=============================================================================
