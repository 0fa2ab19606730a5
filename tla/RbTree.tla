------------------------------- MODULE RbTree -------------------------------
(***************************************************************************)
(* krbtree.cpp: the red-black tree behind the index of commands.  The keys *)
(* are in external nodes, the leaves, which form a ring through the head;  *)
(* internal nodes only lead to them: leftExt is the last leaf on the left, *)
(* rightExt the first on the right.  An operator takes the heap and gives  *)
(* the heap it leaves.  A flag the code leaves unset until a node gets a   *)
(* parent (left) is FALSE until then: it is not read before.               *)
(***************************************************************************)
EXTENDS Integers, FiniteSets, FiniteSetsExt, Functions

CONSTANT Keys   \* what may be entered, as numbers in the order of comparison

ASSUME KeysAssumption == Keys \subseteq Nat \ {0} /\ IsFiniteSet(Keys) /\ Keys # {}

VARIABLES heap,    \* a record for each node allocated: external node k has key k
          failed   \* an assert has failed, which ends the program

vars == <<heap, failed>>

Nil == 0   \* the head: rb_nil
IsExt(n) == n > 0
IsInt(n) == n < 0
Leaves(h) == {n \in DOMAIN h : IsExt(n)}
Inner(h) == {n \in DOMAIN h : IsInt(n)}

\* An internal node's left child is its flink, its right one its blink.
Side(left) == IF left THEN "flink" ELSE "blink"
Child(h, n, left) == h[n][Side(left)]
Sibling(h, n) == Child(h, h[n].parent, ~h[n].left)

Node(flink, blink) ==
  [red |-> FALSE, left |-> FALSE, root |-> FALSE, flink |-> flink, blink |-> blink,
   parent |-> Nil, leftExt |-> Nil, rightExt |-> Nil]

Allocated(h, n, node) == [m \in DOMAIN h \cup {n} |-> IF m = n THEN node ELSE h[m]]

\* The block malloc returns for an internal node.
FreeInner(h, k) ==
  IF -k \notin DOMAIN h THEN -k ELSE Max({-j : j \in Keys} \ DOMAIN h)
-----------------------------------------------------------------------------
SingleRotate(h, y, left) ==
  LET x == Child(h, y, left)
      inner == Child(h, x, ~left)
      yp == h[y].parent
      turned == [h EXCEPT ![y][Side(left)] = inner, ![inner].left = left, ![inner].parent = y,
                          ![x][Side(~left)] = y, ![y].left = ~left,
                          ![x].parent = yp, ![y].parent = x]
  IN  IF h[y].root
      THEN [turned EXCEPT ![yp].parent = x, ![y].root = FALSE, ![x].root = TRUE]
      ELSE [turned EXCEPT ![yp][Side(h[y].left)] = x, ![x].left = h[y].left]

RECURSIVE Recolor(_, _)
Recolor(h, n) ==
  LET p == h[n].parent
      gp == h[p].parent
  IN  CASE h[n].root -> [h EXCEPT ![n].red = FALSE]
        [] ~h[n].root /\ ~h[p].red -> h
        [] ~h[n].root /\ h[p].red /\ h[p].root -> [h EXCEPT ![p].red = FALSE]
        [] OTHER ->
             IF h[Sibling(h, p)].red
             THEN Recolor([h EXCEPT ![p].red = FALSE, ![gp].red = TRUE,
                                    ![Sibling(h, p)].red = FALSE], gp)
             ELSE IF h[n].left = h[p].left
             THEN [SingleRotate(h, gp, h[n].left) EXCEPT ![p].red = FALSE, ![gp].red = TRUE]
             ELSE LET turned == SingleRotate(h, p, h[n].left)
                  IN  [SingleRotate(turned, gp, turned[n].left)
                         EXCEPT ![n].red = FALSE, ![gp].red = TRUE]

\* The internal node that has n at the near end of its right (left) subtree,
\* or the head.
RECURSIVE LPrev(_, _), RPrev(_, _)
LPrev(h, n) == IF h[n].root \/ ~h[n].left THEN h[n].parent ELSE LPrev(h, h[n].parent)
RPrev(h, n) == IF h[n].root \/ h[n].left THEN h[n].parent ELSE RPrev(h, h[n].parent)

WithRightExt(h, n, e) == IF n = Nil THEN h ELSE [h EXCEPT ![n].rightExt = e]
WithLeftExt(h, n, e) == IF n = Nil THEN h ELSE [h EXCEPT ![n].leftExt = e]

\* mk_new_ext and insert: a new leaf, in the ring before n.
NewExt(h, n, k) ==
  LET last == h[n].blink
  IN  Allocated([h EXCEPT ![n].blink = k, ![last].flink = k], k, Node(n, last))

\* mk_new_int: a red node for l and r, where one of them was.
NewInt(h, i, l, r, p, left) ==
  LET made == [Node(l, r) EXCEPT !.red = TRUE, !.parent = p, !.leftExt = l, !.rightExt = r]
      linked == Allocated([h EXCEPT ![l].parent = i, ![r].parent = i,
                                    ![l].left = TRUE, ![r].left = FALSE], i, made)
  IN  Recolor(IF p = Nil
              THEN [linked EXCEPT ![p].parent = i, ![i].root = TRUE]
              ELSE [linked EXCEPT ![p][Side(left)] = i, ![i].left = left], i)

InsertBefore(h, n, k) ==
  LET new == NewExt(h, n, k)
      old == IF n = Nil THEN h[n].blink ELSE n     \* the leaf whose place is divided
      i == FreeInner(h, k)
      split(l, r) == NewInt([new EXCEPT ![old].root = FALSE], i, l, r, h[old].parent, h[old].left)
  IN  IF h[Nil].parent = Nil
      THEN [new EXCEPT ![Nil].parent = k, ![k].root = TRUE]
      ELSE IF n = Nil
      THEN LET made == split(old, k) IN WithLeftExt(made, RPrev(made, k), k)
      ELSE LET made == split(k, old) IN WithRightExt(made, LPrev(made, k), k)

\* rb_find_gte: the leaf of the least key that is not less, or the head, and
\* whether it is the key itself.
RECURSIVE Descend(_, _, _)
Descend(h, n, key) ==
  CASE IsExt(n) -> [at |-> n, equal |-> FALSE]
    [] IsInt(n) /\ h[n].leftExt = key -> [at |-> key, equal |-> TRUE]
    [] OTHER -> Descend(h, Child(h, n, key < h[n].leftExt), key)

FindGteByDescent(h, key) ==
  IF h[Nil].parent = Nil \/ key > h[Nil].blink THEN [at |-> Nil, equal |-> FALSE]
  ELSE Descend(h, h[Nil].parent, key)

FindGte(h, key) ==
  IF h[Nil].parent = Nil \/ key > h[Nil].blink THEN [at |-> Nil, equal |-> FALSE]
  ELSE IF key = h[Nil].blink THEN [at |-> key, equal |-> TRUE]
  ELSE Descend(h, h[Nil].parent, key)
-----------------------------------------------------------------------------
Failed(h) == [heap |-> h, ok |-> FALSE]
Done(h) == [heap |-> h, ok |-> TRUE]

\* The loop of rb_delete_node: where the missing black node is made up for.
RECURSIVE MoveUp(_, _)
MoveUp(h, n) ==
  LET p == h[n].parent
      s == Sibling(h, n)
      upper == [h EXCEPT ![s].red = TRUE]
  IN  IF /\ ~h[p].red /\ ~h[s].red /\ IsInt(s)
         /\ ~h[h[s].flink].red /\ ~h[h[s].blink].red
      THEN IF h[p].root THEN [heap |-> upper, at |-> Nil] ELSE MoveUp(upper, p)
      ELSE [heap |-> h, at |-> n]

RedSiblingKept(h, n) == h

\* Rotation 2.3b: a red sibling is made the grandparent.
RedSiblingRaised(h, n) ==
  LET p == h[n].parent
      s == Sibling(h, n)
  IN  IF ~h[p].red /\ h[s].red
      THEN [SingleRotate(h, p, ~h[n].left) EXCEPT ![p].red = TRUE, ![s].red = FALSE]
      ELSE h

MadeUpWithoutD(h, n) ==
  LET p == h[n].parent
      s == Sibling(h, n)
      left == h[n].left
      x == Child(h, s, left)
      z == Sibling(h, x)
      twice == SingleRotate(SingleRotate(h, s, left), p, ~left)
  IN  CASE ~IsInt(s) -> Failed(h)
        [] IsInt(s) /\ h[z].red ->
             Done([SingleRotate(h, p, ~left)
                     EXCEPT ![z].red = FALSE, ![s].red = FALSE, ![p].red = FALSE])
        [] IsInt(s) /\ ~h[z].red /\ ~h[x].red ->
             IF h[s].red \/ ~h[p].red THEN Failed(h)
             ELSE Done([h EXCEPT ![p].red = FALSE, ![s].red = TRUE])
        [] OTHER -> Done([twice EXCEPT ![x].red = FALSE])

\* Rotations 2.3c to 2.3f.
MadeUp(h, n) ==
  LET p == h[n].parent
      s == Sibling(h, n)
      left == h[n].left
      x == Child(h, s, left)
      z == Sibling(h, x)
      twice == SingleRotate(SingleRotate(h, s, left), p, ~left)
  IN  CASE ~IsInt(s) -> Failed(h)
        [] IsInt(s) /\ h[z].red ->
             Done([SingleRotate(h, p, ~left)
                     EXCEPT ![z].red = FALSE, ![s].red = h[p].red, ![p].red = FALSE])
        [] IsInt(s) /\ ~h[z].red /\ ~h[x].red ->
             IF h[s].red \/ ~h[p].red THEN Failed(h)
             ELSE Done([h EXCEPT ![p].red = FALSE, ![s].red = TRUE])
        [] OTHER ->
             Done(IF h[p].red THEN [twice EXCEPT ![x].red = FALSE, ![s].red = TRUE]
                              ELSE [twice EXCEPT ![x].red = FALSE])

Rebalanced(h, n) ==
  LET up == MoveUp(h, n)
  IN  IF up.at = Nil THEN Done(up.heap) ELSE MadeUp(RedSiblingRaised(up.heap, up.at), up.at)

\* What names the leaf that went now names its neighbour.
Renamed(h, s, after, before) ==
  LET renamed == WithRightExt(h, LPrev(h, s), after)
  IN  WithLeftExt(renamed, RPrev(renamed, s), before)

Unlinked(h, n) == [h EXCEPT ![h[n].flink].blink = h[n].blink, ![h[n].blink].flink = h[n].flink]

DeleteNode(h, n) ==
  LET unlinked == Unlinked(h, n)
      p == h[n].parent
      s == Sibling(h, n)
      gp == h[p].parent
      rest(g, gone) == Restrict(g, DOMAIN g \ gone)
      lifted == rest([unlinked EXCEPT ![s].parent = gp, ![gp][Side(h[p].left)] = s,
                                      ![s].left = h[p].left], {p, n})
  IN  CASE h[n].root -> Done(rest([unlinked EXCEPT ![p].parent = p], {n}))
        [] ~h[n].root /\ h[p].root ->
             Done(rest([unlinked EXCEPT ![s].parent = gp, ![gp].parent = s, ![s].root = TRUE],
                       {p, n}))
        [] OTHER ->
             IF IsExt(s)
             THEN LET renamed == Renamed(lifted, s, s, s)
                  IN  IF h[p].red THEN Done(renamed) ELSE Rebalanced(renamed, s)
             ELSE IF ~h[s].red THEN Failed(lifted)
             ELSE Done([Renamed(lifted, s, h[s].flink, h[s].blink) EXCEPT ![s].red = FALSE])
-----------------------------------------------------------------------------
Init == heap = [n \in {Nil} |-> Node(Nil, Nil)] /\ failed = FALSE

\* Whoever enters a key has looked it up (cmdIdxAdd, Get_FTypeSetting).
Enter(k) ==
  /\ ~failed /\ ~FindGte(heap, k).equal
  /\ heap' = InsertBefore(heap, FindGte(heap, k).at, k)
  /\ UNCHANGED failed

Remove(k) ==
  /\ ~failed /\ k \in Leaves(heap)
  /\ LET result == DeleteNode(heap, k)
     IN  heap' = result.heap /\ failed' = ~result.ok

Next == \E k \in Keys : Enter(k) \/ Remove(k)

Spec == Init /\ [][Next]_vars
-----------------------------------------------------------------------------
RECURSIVE BlackDepth(_, _), LeavesBelow(_, _)
BlackDepth(h, n) ==
  IF n = Nil THEN 0 ELSE BlackDepth(h, h[n].parent) + (IF h[n].red THEN 0 ELSE 1)

LeavesBelow(h, n) ==
  IF IsExt(n) THEN {n} ELSE LeavesBelow(h, h[n].flink) \cup LeavesBelow(h, h[n].blink)

\* The colours keep the tree balanced: as many black nodes above one leaf as
\* above another, and no red node below a red one, so that no search takes
\* more than twice the steps of another (recolor, rb_delete_node).
ColoursBalance ==
  /\ Cardinality({BlackDepth(heap, k) : k \in Leaves(heap)}) <= 1
  /\ \A n \in DOMAIN heap \ {Nil} :
       heap[n].red => IsInt(n) /\ (heap[n].root \/ ~heap[heap[n].parent].red)

\* The asserts of rb_delete_node hold: the sibling of a node that lacks a black
\* one is internal, and the cases exclude each other.
AssertsHold == ~failed

Index == INSTANCE OrderedIndex

\* Whatever was entered and removed in whatever order, a search finds the key or
\* the one that follows it, and the ring is the sorted list of the keys, in both
\* directions (rb_insert_before, rb_delete_node, rb_find_gte).
AnswersAsSortedList ==
  LET keys == Leaves(heap)
  IN  /\ \A k \in Keys : FindGte(heap, k) = Index!FindGte(keys, k)
      /\ \A k \in keys \cup {Nil} : /\ heap[k].flink = Index!NextOf(keys, k)
                                  /\ heap[k].blink = Index!PrevOf(keys, k)
=============================================================================
