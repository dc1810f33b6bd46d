---------------------------- MODULE RootedForest ----------------------------
(***************************************************************************)
(* What a link-cut tree promises: a rooted forest that can be linked, cut  *)
(* and everted.  Looking at it changes nothing.                            *)
(***************************************************************************)
EXTENDS Forests

VARIABLE up

Init == up = [v \in Vertices |-> NULL]

Link(u, v) ==
    /\ up[u] = NULL
    /\ RootOf(up, v) # u
    /\ up' = Linked(up, u, v)

Cut(u) ==
    /\ up[u] # NULL
    /\ up' = CutOff(up, u)

Evert(u) == up' = Everted(up, u)

Next == \E u \in Vertices : Cut(u) \/ Evert(u) \/ \E v \in Vertices : Link(u, v)

Spec == Init /\ [][Next]_up
=============================================================================
