-------------------------- MODULE SeatAllocation --------------------------
(***************************************************************************)
(* What a splitting schedule promises, whatever its tables look like: the  *)
(* seats of the map are only ever divided between regions, and every plan  *)
(* on the way can still be completed into ndists districts by splitting    *)
(* its regions further.  Region ids, their order and the rounds of the     *)
(* main loop are of no concern here; a plan is the bag of its sizes.       *)
(***************************************************************************)
EXTENDS Integers, FiniteSets, FiniteSetsExt

CONSTANTS ndists, total_seats, smallest_district_size, largest_district_size

VARIABLE regions_of_size \* how many regions have each number of seats

Sizes == 1 .. total_seats

\* The fewest and the most districts that size seats can make.
FewestDistricts(size) == (size + largest_district_size - 1) \div largest_district_size
MostDistricts(size)   == size \div smallest_district_size

\* A weight by size, added up over the regions.
Total(weight) == MapThenSumSet(LAMBDA s : weight[s], Sizes)
OverRegions(weight) == Total([s \in Sizes |-> regions_of_size[s] * weight[s]])

\* The regions add up to the map, each of them is a sum of districts, and
\* together they can be made exactly ndists districts.
Completable ==
    /\ OverRegions([s \in Sizes |-> s]) = total_seats
    /\ \A s \in Sizes : regions_of_size[s] > 0 => FewestDistricts(s) <= MostDistricts(s)
    /\ OverRegions([s \in Sizes |-> FewestDistricts(s)]) <= ndists
    /\ ndists <= OverRegions([s \in Sizes |-> MostDistricts(s)])

Init == Completable

Remove(bag, s) == [bag EXCEPT ![s] = @ - 1]
Add(bag, s)    == [bag EXCEPT ![s] = @ + 1]

\* One region becomes two.
Divide ==
    \E s \in Sizes : \E part \in 1 .. s - 1 :
        /\ regions_of_size[s] > 0
        /\ regions_of_size' = Add(Add(Remove(regions_of_size, s), part), s - part)
        /\ Completable'

\* Two regions trade seats.
Recombine ==
    \E s, t \in Sizes : \E part \in 1 .. s + t - 1 :
        /\ regions_of_size[s] > 0
        /\ regions_of_size[t] > IF s = t THEN 1 ELSE 0
        /\ part \in Sizes /\ s + t - part \in Sizes
        /\ regions_of_size' = Add(Add(Remove(Remove(regions_of_size, s), t), part), s + t - part)
        /\ Completable'

Spec == Init /\ [][Divide \/ Recombine]_regions_of_size
=============================================================================
