---------------------------- MODULE LinkCutTree ----------------------------
(***************************************************************************)
(* cw_lct: Sleator and Tarjan's link-cut tree.  Each represented tree is   *)
(* split into paths, each path is kept in a splay tree ordered from the    *)
(* root down, with a lazy reversal flag, and the top of a splay tree       *)
(* points to the vertex its path hangs from.  path_children, the way back, *)
(* is used only by the subtree sums of cw_proposal.                        *)
(*                                                                         *)
(* The nodes are one record of functions, so that an operation is a chain  *)
(* of operators on it, in the order of the code's statements.              *)
(***************************************************************************)
EXTENDS Forests, FiniteSetsExt

VARIABLE nodes

\* children[n][1] is the left child, children[n][2] the right one.
Left == 1
Right == 2
Other(i) == 3 - i

IsolatedNodes ==
    [parent        |-> [v \in Vertices |-> NULL],
     path_parent   |-> [v \in Vertices |-> NULL],
     children      |-> [v \in Vertices |-> <<NULL, NULL>>],
     reversed      |-> [v \in Vertices |-> FALSE],
     path_children |-> [v \in Vertices |-> {}]]

child_index(s, n) == IF s.children[s.parent[n]][Right] = n THEN Right ELSE Left

set_child(s, p, i, c) ==
    LET hung == [s EXCEPT !.children[p][i] = c]
    IN  IF c = NULL THEN hung ELSE [hung EXCEPT !.parent[c] = p]

Flipped(s, c) == IF c = NULL THEN s ELSE [s EXCEPT !.reversed[c] = ~@]

\* A slip of the next definition: the flag is handed to one child only.
TurnLeftOnly(s, n) ==
    LET turned == [s EXCEPT !.children[n] = <<@[2], @[1]>>, !.reversed[n] = FALSE]
    IN  IF s.reversed[n] THEN Flipped(turned, s.children[n][Left]) ELSE s

\* A pending reversal turns the children over and passes to both of them.
Turn(s, n) ==
    LET turned == [s EXCEPT !.children[n] = <<@[2], @[1]>>, !.reversed[n] = FALSE]
    IN  IF s.reversed[n]
        THEN Flipped(Flipped(turned, s.children[n][Left]), s.children[n][Right])
        ELSE s

RECURSIVE push_reversed(_, _)
\* From the top of n's splay tree down to n.
push_reversed(s, n) ==
    Turn(IF s.parent[n] = NULL THEN s ELSE push_reversed(s, s.parent[n]), n)

\* n takes the place of its parent p; at the top it takes over p's path parent.
rotate_up(s, n) ==
    LET i == child_index(s, n)
        p == s.parent[n]
        g == s.parent[p]
        q == s.path_parent[p]
        risen == IF g # NULL
                 THEN [s EXCEPT !.parent[n] = g, !.children[g][child_index(s, p)] = n]
                 ELSE [s EXCEPT !.parent[n] = NULL, !.path_parent[n] = q, !.path_parent[p] = NULL]
        moved == IF g # NULL \/ q = NULL THEN risen
                 ELSE [risen EXCEPT !.path_children[q] = (@ \ {p}) \cup {n}]
    IN  set_child(set_child(moved, p, i, moved.children[n][Other(i)]), n, Other(i), p)

RECURSIVE SplayUp(_, _)
\* zig at the top, zig-zig parent first, zig-zag twice at n.
SplayUp(s, n) ==
    LET p == s.parent[n]
    IN  IF p = NULL THEN s
        ELSE IF s.parent[p] = NULL THEN rotate_up(s, n)
        ELSE IF child_index(s, n) = child_index(s, p) THEN SplayUp(rotate_up(rotate_up(s, p), n), n)
        ELSE SplayUp(rotate_up(rotate_up(s, n), n), n)

\* A slip of the next definition: the pending reversals are not pushed.
SplayLazily(s, n) == SplayUp(s, n)

splay(s, n) == SplayUp(push_reversed(s, n), n)

\* The old right subtree becomes a path of its own below n; r takes its place.
replace_right_subtree(s, n, r) ==
    LET old == s.children[n][Right]
        freed == IF old = NULL THEN s
                 ELSE [s EXCEPT !.path_parent[old] = n, !.parent[old] = NULL,
                                !.path_children[n] = @ \cup {old}]
        hung == [freed EXCEPT !.children[n][Right] = r]
    IN  IF r = NULL THEN hung
        ELSE [hung EXCEPT !.parent[r] = n, !.path_parent[r] = NULL, !.path_children[n] = @ \ {r}]

RECURSIVE ClimbPaths(_, _)
ClimbPaths(s, n) ==
    LET p == s.path_parent[n]
    IN  IF p = NULL THEN s
        ELSE ClimbPaths(splay(replace_right_subtree(splay(s, p), p, n), n), n)

\* The path from the root to n becomes one splay tree, with n on top.
expose(s, n) == ClimbPaths(replace_right_subtree(splay(s, n), n, NULL), n)

RECURSIVE LeftSpine(_, _)
\* Down the left children, pushing the flags on the way.
LeftSpine(s, n) ==
    LET pushed == push_reversed(s, n)
        left   == pushed.children[n][Left]
    IN  IF left = NULL THEN [state |-> splay(pushed, n), root |-> n] ELSE LeftSpine(pushed, left)

find_root(s, n) == LeftSpine(expose(s, n), n)

RECURSIVE traverse_inorder(_, _, _)
traverse_inorder(s, n, reversed) ==
    IF n = NULL THEN <<>>
    ELSE LET flip  == reversed # s.reversed[n]
             first == IF flip THEN Right ELSE Left
         IN  traverse_inorder(s, s.children[n][first], flip) \o <<n>>
                 \o traverse_inorder(s, s.children[n][Other(first)], flip)

\* From the root to n; the nodes are left exposed.
find_path(s, n) ==
    LET exposed == expose(s, n)
    IN  [state |-> exposed, path |-> traverse_inorder(exposed, n, FALSE)]

\* Refused (the code throws) unless u is the root of another tree than v's;
\* the nodes are exposed all the same.
link(s, u, v) ==
    LET exposed == expose(s, u)
        both    == expose(exposed, v)
    IN  IF exposed.children[u][Left] # NULL THEN exposed
        ELSE IF both.parent[u] # NULL \/ both.path_parent[u] # NULL THEN both
        ELSE [both EXCEPT !.path_parent[u] = v, !.path_children[v] = @ \cup {u}]

\* Refused unless u has a parent.
cut(s, u) ==
    LET exposed == expose(s, u)
        left    == exposed.children[u][Left]
    IN  IF left = NULL THEN exposed
        ELSE [exposed EXCEPT !.parent[left] = NULL, !.children[u][Left] = NULL]

\* A slip of the next definition: the root is turned without being exposed.
EvertUnexposed(s, u) == [s EXCEPT !.reversed[u] = TRUE]

evert(s, u) == [expose(s, u) EXCEPT !.reversed[u] = TRUE]

(***************************************************************************)
(* Subtree sums (cw_proposal) walk the nodes as they lie, flags pending.   *)
(* A population is the list of the vertices it counts.                     *)
(***************************************************************************)
RECURSIVE topological_sort_helper(_, _, _, _, _)
\* seen is the map cut_pop filled so far and the total returned; mass is what
\* hangs below the whole splay subtree of n.
topological_sort_helper(s, seen, n, reversed, mass) ==
    LET flip  == reversed # s.reversed[n]
        lc    == s.children[n][IF flip THEN Right ELSE Left]
        rc    == s.children[n][IF flip THEN Left ELSE Right]
        start == [cut_pop |-> seen.cut_pop, total |-> <<>>]
        right == IF rc = NULL THEN start ELSE topological_sort_helper(s, start, rc, flip, mass)
        hung  == FoldSet(LAMBDA c, acc : topological_sort_helper(s, acc, c, FALSE, <<>>),
                         right, s.path_children[n])
        here  == hung.total \o <<n>> \o mass
        noted == [hung EXCEPT !.cut_pop[n] = here]
        left  == IF lc = NULL THEN noted ELSE topological_sort_helper(s, noted, lc, flip, here)
    IN  [cut_pop |-> left.cut_pop, total |-> seen.total \o left.total \o <<n>>]

\* The vertices of other trees keep the empty list.
compute_subtree_pops(s, root) ==
    LET t     == evert(s, root)
        rc    == t.children[root][IF t.reversed[root] THEN Left ELSE Right]
        start == [cut_pop |-> [v \in Vertices |-> <<>>], total |-> <<>>]
        right == IF rc = NULL THEN start
                 ELSE topological_sort_helper(t, start, rc, t.reversed[root], <<>>)
        hung  == FoldSet(LAMBDA c, acc : topological_sort_helper(t, acc, c, FALSE, <<>>),
                         right, t.path_children[root])
    IN  [hung.cut_pop EXCEPT ![root] = <<root>> \o hung.total]

(***************************************************************************)
(* The specification: the calls of cyclewalk in any order.                 *)
(***************************************************************************)
Init == nodes = IsolatedNodes

\* Callers link across an edge of the map, so never a vertex to itself.
Link(u, v) == u # v /\ nodes' = link(nodes, u, v)

Cut(u) == nodes' = cut(nodes, u)

Evert(u) == nodes' = evert(nodes, u)

FindRoot(u) == nodes' = find_root(nodes, u).state

FindPath(u) == nodes' = find_path(nodes, u).state

Next ==
    \E u \in Vertices :
        \/ Cut(u)
        \/ Evert(u)
        \/ FindRoot(u)
        \/ FindPath(u)
        \/ \E v \in Vertices : Link(u, v)

Spec == Init /\ [][Next]_nodes

(***************************************************************************)
(* Properties                                                              *)
(***************************************************************************)
TopOf(s, v) == RootOf(s.parent, v)

\* The forest the nodes stand for: the vertex before v on its path, or where
\* the path hangs when v comes first.
Represented(s) ==
    [v \in Vertices |->
        LET top   == TopOf(s, v)
            path  == traverse_inorder(s, top, FALSE)
            place == CHOOSE i \in DOMAIN path : path[i] = v
        IN  IF place > 1 THEN path[place - 1] ELSE s.path_parent[top]]

\* find_root and find_path tell the root and the path of the forest, and
\* compute_subtree_pops counts every vertex below v exactly once, whatever
\* was exposed, everted and cut before.
AnswersAreRight ==
    LET up == Represented(nodes)
    IN  \A v \in Vertices :
            /\ find_root(nodes, v).root = RootOf(up, v)
            /\ find_path(nodes, v).path = PathTo(up, v)
            /\ LET pops == compute_subtree_pops(nodes, v)
               IN  \A w \in TreeOf(up, v) :
                       LET below == Below(Everted(up, v), w)
                       IN  /\ {pops[w][i] : i \in DOMAIN pops[w]} = below
                           /\ Len(pops[w]) = Cardinality(below)
=============================================================================
