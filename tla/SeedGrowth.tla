----------------------------- MODULE SeedGrowth -----------------------------
(***************************************************************************)
(* Random seed and grow, rsg() and its compact variant crsg(): every       *)
(* precinct starts as a district, districts are merged until ndists are    *)
(* left, and precincts are then moved one at a time until all populations  *)
(* are in bounds.  Membership is kept twice, by precinct and by district,  *)
(* and crsg keeps the adjacency of districts as well.  Both give up after  *)
(* maxiter moves, and are then called once more.  Distances, which tell    *)
(* crsg the neighbour to merge and the precinct to try first, are left     *)
(* open.                                                                   *)
(***************************************************************************)
EXTENDS CountyMap

CONSTANTS
    Pop,                 \* the population of a precinct
    ndists,
    Tolerances,          \* the bounds a caller may ask for: <<lowest, highest>>
    MaxIter

ASSUME GrowthAssumption ==
    /\ Vertices = 0 .. Cardinality(Vertices) - 1
    /\ Connected(Vertices, Edges)
    /\ Pop \in [Vertices -> Nat \ {0}]
    /\ ndists \in 2 .. Cardinality(Vertices) - 1
    /\ MaxIter \in Nat

VARIABLES
    algorithm,           \* "rsg" or "crsg"; never changes
    tolerance,           \* never changes
    stage,
    attempt,             \* R calls a second time when the first gives up
    member_dvec,         \* the district of a precinct; dist_assignment in crsg
    member_plist,        \* the precincts of a district
    adj_list_up,         \* the neighbours of a district, in crsg
    district_pop,
    pairs,               \* the pairs of districts crsg has yet to try
    iter

growth == <<member_dvec, member_plist, adj_list_up, district_pop, pairs, iter>>
seedVars == <<algorithm, tolerance, stage, attempt, growth>>

Neighbors(S) == {v \in Vertices : \E u \in S : {u, v} \in Edges}

PopOf(S) == MapThenSumSet(LAMBDA v : Pop[v], S)

InBounds(pops, bounds) == \A d \in DOMAIN pops : pops[d] \in bounds[1] .. bounds[2]

\* genAlConn and findBoundary: the adjacencies inside the districts of a plan,
\* and the precincts that have others.
genAlConn(plan) == {e \in Edges : ~ Crosses(plan, e)}

findBoundary(plan) == UNION {e \in Edges : Crosses(plan, e)}

countpartitions(plan) == Cardinality(Components(Vertices, genAlConn(plan)))

Districts == DOMAIN member_plist

OwnDistricts == [v \in Vertices |-> v]
OwnMembers == [v \in Vertices |-> {v}]
OwnNeighbors == [v \in Vertices |-> Neighbors({v})]

SeedInit ==
    /\ algorithm \in {"rsg", "crsg"} /\ tolerance \in Tolerances
    /\ stage = "merge" /\ attempt = 1
    /\ member_dvec = OwnDistricts /\ member_plist = OwnMembers /\ adj_list_up = OwnNeighbors
    /\ district_pop = <<>> /\ pairs = {} /\ iter = 0

---------------------------------------------------------------------------
\* Merging.  rsg looks the neighbours of a district up by precinct, crsg in the
\* list it keeps.

DistrictNeighbors(d) ==
    IF algorithm = "crsg" THEN adj_list_up[d]
    ELSE {member_dvec[v] : v \in Neighbors(member_plist[d]) \ member_plist[d]}

\* A slip of the next definition: districts move down before j is merged.
RenumberedFirst(d, i, j) == LET e == IF d > j THEN d - 1 ELSE d IN IF e = j THEN i ELSE e

\* District j becomes part of i and the districts above it move down.
Renumbered(d, i, j) == LET e == IF d = j THEN i ELSE d IN IF e > j THEN e - 1 ELSE e

WithoutDistrict(f, i, j, merged) ==
    [d \in 0 .. Cardinality(Districts) - 2 |->
        IF d = i THEN merged ELSE f[IF d < j THEN d ELSE d + 1]]

SunkAdjacency(i, j) ==
    LET kept == WithoutDistrict(adj_list_up, i, j, adj_list_up[i] \cup adj_list_up[j])
    IN  [d \in DOMAIN kept |-> {Renumbered(e, i, j) : e \in kept[d]} \ (IF d = i THEN {i} ELSE {})]

AllPairs(adj) == {ij \in (DOMAIN adj) \X (DOMAIN adj) : ij[2] \in adj[ij[1]]}

MergeDistricts(i, j) ==
    /\ stage = "merge"
    /\ member_dvec' = [v \in Vertices |-> Renumbered(member_dvec[v], i, j)]
    /\ member_plist' = WithoutDistrict(member_plist, i, j, member_plist[i] \cup member_plist[j])
    /\ adj_list_up' = SunkAdjacency(i, j)
    /\ IF Cardinality(Districts) - 1 = ndists
       THEN /\ stage' = "even"
            /\ district_pop' = [d \in 0 .. ndists - 1 |-> PopOf(Region(member_dvec', d))]
            /\ pairs' = AllPairs(adj_list_up')
       ELSE UNCHANGED <<stage, district_pop, pairs>>
    /\ UNCHANGED <<algorithm, tolerance, attempt, iter>>

Merge ==
    \E i \in Districts : \E j \in DistrictNeighbors(i) :
        MergeDistricts(Min({i, j}), IF i < j THEN j ELSE i)

---------------------------------------------------------------------------
\* Evening out.

Grown == stage = "even" /\ InBounds(district_pop, tolerance)

Evening == stage = "even" /\ ~ Grown /\ iter < MaxIter

\* Whatever iteration maxiter + 1 does, it gives up; crsg also when no pair of
\* districts is left to try.
GiveUp ==
    /\ stage = "even" /\ ~ Grown
    /\ iter = MaxIter \/ (algorithm = "crsg" /\ pairs = {})
    /\ \/ /\ attempt = 1 /\ attempt' = 2 /\ stage' = "merge"
          /\ member_dvec' = OwnDistricts /\ member_plist' = OwnMembers
          /\ adj_list_up' = OwnNeighbors /\ district_pop' = <<>> /\ pairs' = {} /\ iter' = 0
       \/ attempt = 2 /\ stage' = "failed" /\ UNCHANGED <<attempt, growth>>
    /\ UNCHANGED <<algorithm, tolerance>>

\* The adjacency of districts is rebuilt from the map.
DistrictAdjacency(plan) ==
    [d \in 0 .. ndists - 1 |-> {plan[v] : v \in Neighbors(Region(plan, d))} \ {d}]

Move(p, i, j) ==
    /\ member_dvec' = [member_dvec EXCEPT ![p] = j]
    /\ member_plist' = [member_plist EXCEPT ![i] = @ \ {p}, ![j] = @ \cup {p}]
    /\ district_pop' = [district_pop EXCEPT ![i] = @ - Pop[p], ![j] = @ + Pop[p]]
    /\ adj_list_up' = DistrictAdjacency(member_dvec')
    /\ pairs' = AllPairs(adj_list_up')
    /\ iter' = iter + 1
    /\ UNCHANGED <<algorithm, tolerance, stage, attempt>>

Stay ==
    /\ iter' = iter + 1
    /\ UNCHANGED <<algorithm, tolerance, stage, attempt, member_dvec, member_plist, adj_list_up,
                   district_pop, pairs>>

KeepsContiguity(p, j) == countpartitions([member_dvec EXCEPT ![p] = j]) = ndists

HighestPop == Max({district_pop[d] : d \in Districts})
LowestPop == Min({district_pop[d] : d \in Districts})

\* rsg: any precinct of a most populous district, to any district beside it.
MoveAny ==
    /\ algorithm = "rsg" /\ Evening
    /\ \E i \in {d \in Districts : district_pop[d] = HighestPop} : \E p \in member_plist[i] :
          LET candidates == {member_dvec[v] : v \in Neighbors({p})} \ {i}
              good       == {j \in candidates : KeepsContiguity(p, j)}
          IN  \/ (candidates = {} \/ good # candidates) /\ Stay
              \/ \E j \in good : Move(p, i, j)

\* crsg: the pair of neighbours that differ most comes first.
WorstPairs ==
    {ij \in pairs : \A kl \in pairs :
        district_pop[kl[1]] - district_pop[kl[2]] <= district_pop[ij[1]] - district_pop[ij[2]]}

SwapCandidates(i, j) == {p \in member_plist[i] : \E v \in Neighbors({p}) : member_dvec[v] = j}

KeepsParity(p, i, j) ==
    district_pop[j] + Pop[p] < HighestPop /\ district_pop[i] - Pop[p] > LowestPop

TryNextPair(i, j) ==
    /\ pairs' = pairs \ {<<i, j>>}
    /\ UNCHANGED <<algorithm, tolerance, stage, attempt, member_dvec, member_plist, adj_list_up,
                   district_pop, iter>>

\* Candidates are tried by distance until one keeps parity and contiguity.  The
\* last is moved when it keeps parity, contiguous or not.
TryPair(i, j) ==
    LET candidates == SwapCandidates(i, j)
        good       == {p \in candidates : KeepsParity(p, i, j) /\ KeepsContiguity(p, j)}
        last(p)    == good = {} /\ KeepsParity(p, i, j)
    IN  \/ \E p \in candidates : (p \in good \/ last(p)) /\ Move(p, i, j)
        \/ /\ good = {}
           /\ candidates = {} \/ \E p \in candidates : ~ KeepsParity(p, i, j)
           /\ TryNextPair(i, j)

MoveFarthest ==
    /\ algorithm = "crsg" /\ Evening
    /\ \E ij \in WorstPairs : TryPair(ij[1], ij[2])

SeedNext == Merge \/ MoveAny \/ MoveFarthest \/ GiveUp
=============================================================================
