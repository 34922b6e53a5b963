------------------------------- MODULE StdSet -------------------------------
(***************************************************************************)
(* std::set of libstdc++, as far as it shows when the comparison is not an *)
(* order: a red-black tree whose searches follow the comparison.           *)
(*                                                                         *)
(* A tree is the sequence of its nodes in iteration order, each with its   *)
(* depth and its colour: the nodes below a node are those around it, as    *)
(* far as all are deeper, and a rotation moves two runs of nodes by one    *)
(* level.  What the nodes hold is kept elsewhere, in the same order.       *)
(*                                                                         *)
(* Under the comparison "differs from", a and b compare as a < b and as    *)
(* b < a unless they are equal; E is the set of nodes equal to the key.    *)
(***************************************************************************)
EXTENDS Integers, Sequences, FiniteSetsExt

Tree == Seq([depth : Nat, red : BOOLEAN])

\* The nodes below i, and the two subtrees they form.
Below(t, i) == {j \in DOMAIN t : /\ j # i
                                 /\ \A k \in (i..j) \cup (j..i) : k = i \/ t[k].depth > t[i].depth}

Subtree(t, i, left) == {j \in Below(t, i) : (j < i) = left}

\* The root of a subtree that is not empty.
Top(t, S) == CHOOSE i \in S : \A j \in S : t[i].depth <= t[j].depth

IsRed(t, S) == S # {} /\ t[Top(t, S)].red

\* 0 for the root.
Parent(t, i) == IF t[i].depth = 0 THEN 0
                ELSE CHOOSE a \in DOMAIN t : t[a].depth = t[i].depth - 1 /\ i \in Below(t, a)

Paint(t, i, red) == [t EXCEPT ![i].red = red]

\* _Rb_tree_rotate_left and _right: c changes places with its parent a.
Rotate[t \in Tree, c \in Nat, a \in Nat] ==
    LET up   == {c} \cup Subtree(t, c, c < a)
        down == {a} \cup Subtree(t, a, ~(c < a))
    IN  [i \in DOMAIN t |-> [t[i] EXCEPT !.depth = IF i \in up THEN @ - 1
                                                   ELSE IF i \in down THEN @ + 1 ELSE @]]
-----------------------------------------------------------------------------
(* insert *)

LeftSpine(t) == {i \in DOMAIN t : \A j \in DOMAIN t : j < i => t[j].depth > t[i].depth}

\* _M_get_insert_unique_pos goes left until it meets the key.
MetByInsert(t, E) == E \cap LeftSpine(t) # {}

\* The place of a round of _Rb_tree_insert_and_rebalance.
Inserting == [tree : Tree, x : Nat]

\* One round; x is always on the left spine.
InsertRound[s \in Inserting] ==
    LET t == s.tree
        a == Parent(t, s.x)
        g == Parent(t, a)
        uncle == Subtree(t, g, FALSE)
    IN  IF a = 0 \/ ~t[a].red THEN s
        ELSE IF IsRed(t, uncle)
             THEN [tree |-> Paint(Paint(Paint(t, a, FALSE), Top(t, uncle), FALSE), g, TRUE),
                   x |-> g]
             ELSE [s EXCEPT !.tree = Rotate[Paint(Paint(t, a, FALSE), g, TRUE), a, g]]

\* The tree with a new first node, which is where a new key always ends up.
InsertFirst[t \in Tree] ==
    LET leaf == [depth |-> IF t = <<>> THEN 0 ELSE t[1].depth + 1, red |-> TRUE]
        after[n \in Nat] == IF n = 0 THEN [tree |-> <<leaf>> \o t, x |-> 1]
                            ELSE InsertRound[after[n - 1]]
        new == after[leaf.depth].tree
    IN  Paint(new, Top(new, DOMAIN new), FALSE)
-----------------------------------------------------------------------------
(* erase *)

RightSpine(t) == {i \in DOMAIN t : \A j \in DOMAIN t : j > i => t[j].depth > t[i].depth}

\* equal_range goes right until it meets the key.
MetBySearch(t, E) == E \cap RightSpine(t)

\* ... and from there, in the subtree on one side, it turns towards the node at
\* every node that differs and away from it at every other one.
MetBeyond(t, E, i, left) ==
    LET S == Subtree(t, i, left)
    IN  {j \in S \cap E : \A a \in S : j \in Below(t, a) => ((j < a) = left) = (a \in E)}

\* The first and the last node of equal_range.
FirstEqual(t, E) == LET i == Min(MetBySearch(t, E)) IN Min({i} \cup MetBeyond(t, E, i, TRUE))

LastEqual(t, E) == LET i == Min(MetBySearch(t, E)) IN Max({i} \cup MetBeyond(t, E, i, FALSE))

\* The place of a round of _Rb_tree_rebalance_for_erase: the side of parent, or
\* the whole tree if that is 0, where a black node is missing.
Erasing == [tree : Tree, parent : Nat, left : BOOLEAN]

\* Its x, a subtree that is possibly empty.
Lacking(s) == IF s.parent = 0 THEN DOMAIN s.tree ELSE Subtree(s.tree, s.parent, s.left)

\* One round of its loop.
EraseRound[s \in Erasing] ==
    LET t == s.tree
        a == s.parent
        w == Top(t, Subtree(t, a, ~s.left))
        near == Subtree(t, w, s.left)
        far == Subtree(t, w, ~s.left)
    IN  IF a = 0 \/ IsRed(t, Lacking(s)) THEN s
        ELSE IF t[w].red
        THEN [s EXCEPT !.tree = Rotate[Paint(Paint(t, w, FALSE), a, TRUE), w, a]]
        ELSE IF ~IsRed(t, near) /\ ~IsRed(t, far)
        THEN [tree |-> Paint(t, w, TRUE), parent |-> Parent(t, a), left |-> a < Parent(t, a)]
        ELSE LET v == IF IsRed(t, far) THEN w ELSE Top(t, near)
                 u == IF IsRed(t, far) THEN t
                      ELSE Rotate[Paint(Paint(t, v, FALSE), w, TRUE), v, w]
                 z == Top(u, Subtree(u, v, ~s.left))
             IN  [s EXCEPT !.tree = Rotate[Paint(Paint(Paint(u, v, u[a].red), a, FALSE), z, FALSE),
                                           v, a],
                           !.parent = 0]

\* The tree without its i-th node.  A node with two children gives its place to
\* the next one, whose place goes.
EraseNode[t \in Tree, i \in Nat] ==
    LET y == IF Subtree(t, i, TRUE) # {} /\ Subtree(t, i, FALSE) # {} THEN i + 1 ELSE i
        a == Parent(t, y)
        lifted == [j \in DOMAIN t |-> IF j \in Below(t, y) THEN [t[j] EXCEPT !.depth = @ - 1]
                                      ELSE t[j]]
        cut == [tree |-> [j \in 1..(Len(t) - 1) |-> lifted[IF j < y THEN j ELSE j + 1]],
                parent |-> IF a > y THEN a - 1 ELSE a, left |-> y < a]
        after[n \in Nat] == IF n = 0 THEN cut ELSE EraseRound[after[n - 1]]
        s == after[Len(t)]
    IN  IF t[y].red \/ Len(t) = 1 THEN cut.tree
        ELSE IF Lacking(s) = {} THEN s.tree ELSE Paint(s.tree, Top(s.tree, Lacking(s)), FALSE)

\* erase(first, last): one node after the other.
EraseNodes[t \in Tree, i \in Nat, j \in Nat] ==
    LET after[n \in Nat] == IF n = 0 THEN t ELSE EraseNode[after[n - 1], i]
    IN  after[j - i + 1]
=============================================================================
