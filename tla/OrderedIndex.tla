---------------------------- MODULE OrderedIndex ----------------------------
(***************************************************************************)
(* What krbtree.h promises of a tree that holds the keys in S, which are   *)
(* numbers in the order of comparison: a search gives the least key that   *)
(* is not less, and the keys can be walked in both directions from the     *)
(* head, which stands before the first and after the last.                 *)
(***************************************************************************)
EXTENDS Integers, FiniteSets, FiniteSetsExt

Nil == 0   \* rb_nil: the head

LeastOf(S) == IF S = {} THEN Nil ELSE Min(S)
GreatestOf(S) == IF S = {} THEN Nil ELSE Max(S)

\* rb_find_gte, rb_next and rb_prev; the first key follows the head.
FindGte(S, key) == [at |-> LeastOf({k \in S : k >= key}), equal |-> key \in S]
NextOf(S, key) == LeastOf({k \in S : k > key})
PrevOf(S, key) == GreatestOf({k \in S : key = Nil \/ k < key})
=============================================================================
