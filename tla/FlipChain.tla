----------------------------- MODULE FlipChain -----------------------------
(***************************************************************************)
(* redist_flip(): a chain of plans, started at a plan grown by rsg or      *)
(* crsg.  A step of swMH() cuts edges inside the districts at random,      *)
(* draws p of the pieces on the borders between districts, swaps each into *)
(* a district beside it and accepts or rejects the whole; a draw that ends *)
(* short of p swaps starts over.  mh_exponent is the power of 1 - eprob in *)
(* the Metropolis-Hastings ratio; the energies of the plans, scaled by     *)
(* beta, leave the decision open.  Lambda, which moves with the acceptance *)
(* rate, only tells how many swaps are likely.                             *)
(***************************************************************************)
EXTENDS SeedGrowth

CONSTANTS
    PopBounds,           \* the population bounds of the map
    MaxSwaps

ASSUME ChainAssumption ==
    /\ MaxSwaps \in Nat \ {0}
    /\ \A v \in Vertices : Pop[v] < PopBounds[2]

VARIABLES
    cdvec,
    district_pops,
    boundary_cc,         \* the pieces not drawn yet
    swaps,               \* those accepted: the piece, its district and the new one
    cds_prop,
    cdspop_prop,
    mh_exponent,
    p                    \* the number of swaps to make

chain == <<cdvec, district_pops>>
proposal == <<boundary_cc, swaps, cds_prop, cdspop_prop, mh_exponent, p>>
vars == <<seedVars, chain, proposal>>

DistrictPops(plan) == [d \in 0 .. ndists - 1 |-> PopOf(Region(plan, d))]

NoProposal(plan, pops) ==
    /\ boundary_cc' = {} /\ swaps' = <<>> /\ mh_exponent' = 0 /\ p' = 0
    /\ cds_prop' = plan /\ cdspop_prop' = pops

Init ==
    /\ SeedInit
    /\ cdvec = <<>> /\ district_pops = <<>> /\ cds_prop = <<>> /\ cdspop_prop = <<>>
    /\ boundary_cc = {} /\ swaps = <<>> /\ mh_exponent = 0 /\ p = 0

Grow == SeedNext /\ UNCHANGED <<chain, proposal>>

\* Districts are numbered from 0 in the order of their first precincts.
vec_group_id(plan) ==
    LET first(v) == Min(Region(plan, plan[v]))
    IN  [v \in Vertices |-> Cardinality({first(u) : u \in {w \in Vertices : first(w) < first(v)}})]

\* A slip of the next definition: a plan is refused when all its districts are apart.
contiguity_anywhere(plan) == \E v \in Vertices : Connected(Region(plan, plan[v]), Edges)

\* Every precinct of a district can be reached from every other.
contiguity(plan) == \A v \in Vertices : Connected(Region(plan, plan[v]), Edges)

Start ==
    /\ Grown
    /\ IF contiguity(member_dvec)
       THEN /\ stage' = "cut"
            /\ cdvec' = vec_group_id(member_dvec)
            /\ district_pops' = DistrictPops(cdvec')
       ELSE stage' = "refused" /\ UNCHANGED chain
    /\ NoProposal(cdvec', district_pops')
    /\ attempt' = 0 /\ member_dvec' = <<>> /\ member_plist' = <<>> /\ adj_list_up' = <<>>
    /\ district_pop' = <<>> /\ pairs' = {} /\ iter' = 0
    /\ UNCHANGED <<algorithm, tolerance>>

---------------------------------------------------------------------------
\* Cutting.  The ledger of precincts reached is zeroed, and holds the number of
\* a precinct once it is reached: precinct 0 seems reached from the start, and
\* joins a piece only as its first precinct or next to that.

KeptNeighbors(kept, S) == (UNION {e \in kept : e \cap S # {}}) \ S

PieceFrom(v, kept, mark) ==
    LET reached[n \in 0 .. Cardinality(Vertices)] ==
            IF n = 0 THEN {v} \cup KeptNeighbors(kept, {v})
            ELSE LET before == reached[n - 1]
                 IN  before \cup (KeptNeighbors(kept, before) \ mark)
    IN  reached[Cardinality(Vertices)]

bsearch_boundary(kept, boundary) ==
    LET search[n \in 0 .. Cardinality(boundary)] ==
            IF n = 0 THEN [left |-> boundary, mark |-> {0}, found |-> {}]
            ELSE LET before == search[n - 1]
                     piece  == PieceFrom(Min(before.left), kept, before.mark)
                 IN  IF before.left = {} THEN before
                     ELSE [left  |-> before.left \ piece,
                           mark  |-> before.mark \cup piece,
                           found |-> before.found \cup {piece}]
    IN  search[Cardinality(boundary)].found

CutEdges ==
    /\ stage = "cut"
    /\ stage' = "swap"
    /\ \E kept \in SUBSET genAlConn(cdvec) :
          boundary_cc' = bsearch_boundary(kept, findBoundary(cdvec))
    /\ p' \in 1 .. MaxSwaps
    /\ UNCHANGED <<algorithm, tolerance, attempt, growth, chain, swaps, cds_prop, cdspop_prop,
                   mh_exponent>>

---------------------------------------------------------------------------
\* Swapping piece C of a plan, once the pieces in accepted have been swapped.

DistrictOf(plan, C) == plan[Min(C)]

Swapped(plan, C, d) == [v \in Vertices |-> IF v \in C THEN d ELSE plan[v]]

CandidateDistricts(plan, C) == {plan[v] : v \in Neighbors(C)} \ {DistrictOf(plan, C)}

adjacency_check(accepted, C) == Neighbors(C) \cap accepted # {}

elim_check(plan, C) == Cardinality(Region(plan, DistrictOf(plan, C))) = Cardinality(C)

\* Told from one candidate, whichever it is.
Splits(plan, C) ==
    \E d \in CandidateDistricts(plan, C) : countpartitions(Swapped(plan, C, d)) # ndists

\* A slip of the next definition: pieces may touch each other.
SwappableTouching(plan, accepted, C) == ~ elim_check(plan, C) /\ ~ Splits(plan, C)

Swappable(plan, accepted, C) ==
    ~ adjacency_check(accepted, C) /\ ~ elim_check(plan, C) /\ ~ Splits(plan, C)

update_distpop(pops, C, from, to) ==
    [pops EXCEPT ![from] = @ - PopOf(C), ![to] = @ + PopOf(C)]

ParityDistricts(plan, pops, C) ==
    {d \in CandidateDistricts(plan, C) :
        InBounds(update_distpop(pops, C, DistrictOf(plan, C), d), PopBounds)}

\* The adjacencies from C into S, counted once for each end in C.
Cut(C, S) == Cardinality({vu \in C \X S : {vu[1], vu[2]} \in Edges})

\* A slip of the next definition: what is inside C counts too.
update_mhprob_within(plan, C, d) ==
    Cut(C, Region(plan, d)) - Cut(C, Region(plan, DistrictOf(plan, C)))

update_mhprob(plan, C, d) ==
    Cut(C, Region(plan, d)) - Cut(C, Region(plan, DistrictOf(plan, C)) \ C)

accepted_partitions == UNION {swaps[n].piece : n \in DOMAIN swaps}

TryAgain ==
    /\ stage' = "cut" /\ NoProposal(cdvec, district_pops)
    /\ UNCHANGED <<algorithm, tolerance, attempt, growth, chain>>

PassOver(C) ==
    /\ \/ ~ Swappable(cds_prop, accepted_partitions, C)
       \/ ParityDistricts(cds_prop, cdspop_prop, C) = {}
    /\ IF boundary_cc = {C} THEN TryAgain
       ELSE boundary_cc' = boundary_cc \ {C}
            /\ UNCHANGED <<seedVars, chain, swaps, cds_prop, cdspop_prop, mh_exponent, p>>

\* A swap that leaves no piece for the swaps to come is not made.
Swap(C, d) ==
    LET from == DistrictOf(cds_prop, C)
        enough == Len(swaps) + 1 = p
    IN  /\ Swappable(cds_prop, accepted_partitions, C)
        /\ d \in ParityDistricts(cds_prop, cdspop_prop, C)
        /\ IF boundary_cc = {C} /\ ~ enough THEN TryAgain
           ELSE /\ boundary_cc' = boundary_cc \ {C}
                /\ swaps' = Append(swaps, [piece |-> C, curr_cd |-> from, prop_cd |-> d])
                /\ mh_exponent' = mh_exponent + update_mhprob(cds_prop, C, d)
                /\ cds_prop' = Swapped(cds_prop, C, d)
                /\ cdspop_prop' = update_distpop(cdspop_prop, C, from, d)
                /\ stage' = IF enough THEN "decide" ELSE "swap"
                /\ UNCHANGED <<algorithm, tolerance, attempt, growth, chain, p>>

make_swaps ==
    /\ stage = "swap"
    /\ \E C \in boundary_cc : PassOver(C) \/ \E d \in 0 .. ndists - 1 : Swap(C, d)

mh_decision ==
    /\ stage = "decide"
    /\ stage' = "cut"
    /\ \/ cdvec' = cds_prop /\ district_pops' = cdspop_prop
       \/ UNCHANGED chain
    /\ NoProposal(cdvec', district_pops')
    /\ UNCHANGED <<algorithm, tolerance, attempt, growth>>

Next == Grow \/ Start \/ CutEdges \/ make_swaps \/ mh_decision

Spec == Init /\ [][Next]_vars

---------------------------------------------------------------------------

ValidPlan(plan) == \A d \in 0 .. ndists - 1 : Region(plan, d) # {} /\ Connected(Region(plan, d), Edges)

\* The chain and its proposals consist of ndists districts in one piece each: no
\* sequence of swaps, each tested by a count of components, takes a district
\* away or apart, and a seed that did is refused.
DistrictsStayConnected ==
    stage \in {"cut", "swap", "decide"} => ValidPlan(cdvec) /\ ValidPlan(cds_prop)

\* The records kept beside a plan agree with it: members, neighbours and
\* populations of districts while a seed grows, through renumberings and moves
\* of single precincts, and the populations of the chain and its proposals.
RecordsFollowThePlan ==
    /\ stage \in {"merge", "even"} =>
          /\ member_plist = [d \in Districts |-> Region(member_dvec, d)]
          /\ adj_list_up = [d \in Districts |->
                 {member_dvec[v] : v \in Neighbors(member_plist[d])} \ {d}]
          /\ stage = "even" => district_pop = DistrictPops(member_dvec)
    /\ stage \in {"cut", "swap", "decide"} =>
          /\ district_pops = DistrictPops(cdvec)
          /\ cdspop_prop = DistrictPops(cds_prop)

\* The exponents gathered swap by swap add up to the adjacencies the proposal
\* gains inside districts, so that the ratio of the move back is the inverse,
\* whatever swaps that is made of.
RatioTellsCutEdges ==
    stage \in {"swap", "decide"} =>
        mh_exponent = Cardinality(genAlConn(cds_prop)) - Cardinality(genAlConn(cdvec))

\* The plan after the swaps from the last down to the nth are undone.
Undone(plan, moves, n) ==
    [v \in Vertices |->
        LET moved == {m \in n .. Len(moves) : v \in moves[m].piece}
        IN  IF moved = {} THEN plan[v] ELSE moves[Min(moved)].curr_cd]

\* The swaps of a move can be drawn backwards, and pass every test.
CanUndo(plan, moves) ==
    LET pieces(ns) == {moves[n].piece : n \in ns}
        undo(n) ==
            LET before == Undone(plan, moves, n + 1)
            IN  /\ Swappable(before, UNION pieces(n + 1 .. Len(moves)), moves[n].piece)
                /\ moves[n].curr_cd \in
                      ParityDistricts(before, DistrictPops(before), moves[n].piece)
    IN  /\ \E kept \in SUBSET genAlConn(plan) :
              pieces(DOMAIN moves) \subseteq bsearch_boundary(kept, findBoundary(plan))
        /\ \A n \in DOMAIN moves : undo(n)

\* The search cannot put precinct 0 in a piece it is not at the border of.
HidesPrecinct0(plan, moves) ==
    0 \notin findBoundary(plan) /\ \E n \in DOMAIN moves : 0 \in moves[n].piece

\* A step that is accepted can be taken back, with the same number of swaps,
\* unless its plan was out of bounds (a start only) or precinct 0 hides: without
\* that the chain would not have the distribution the ratio is made for.
MovesCanBeTakenBack ==
    [][cdvec' # cdvec /\ stage = "decide" /\ InBounds(district_pops, PopBounds) =>
          HidesPrecinct0(cdvec', swaps) \/ CanUndo(cdvec', swaps)]_vars

=============================================================================
