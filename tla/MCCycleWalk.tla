----------------------------- MODULE MCCycleWalk -----------------------------
(***************************************************************************)
(* CycleWalk for TLC on two rows of three precincts with diagonals,        *)
(*     1 - 2 - 3                                                           *)
(*     | \ | \ |                                                           *)
(*     4 - 5 - 6                                                           *)
(***************************************************************************)
EXTENDS CycleWalk

Grid == {<<1, 2>>, <<2, 3>>, <<4, 5>>, <<5, 6>>, <<1, 4>>, <<2, 5>>, <<3, 6>>, <<1, 5>>, <<2, 6>>}

\* Three districts of one seat, precincts of unequal population.
UnequalPop == <<1, 2, 1, 3, 1, 1>>
ThreeSeats == <<1, 1, 1>>
Columns == <<1, 2, 3, 1, 2, 3>>
=============================================================================
