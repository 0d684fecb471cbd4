------------------------------- MODULE Array --------------------------------
(***************************************************************************)
(* What a script may rely on when it uses an associative array of numbers: *)
(* the array as the language describes it, with no nodes, no pool and no   *)
(* hash chains.  An array holds at most `size' elements, each with a place *)
(* in the order in which foreach visits them.                              *)
(***************************************************************************)
EXTENDS Naturals, Integers, Sequences, SequencesExt, FiniteSets

CONSTANTS Key, Value,
          Sizes       \* the sizes an array may be declared with

VARIABLES size,    \* the most elements the array can hold
          order,   \* the keys in the order of a foreach
          value    \* the element of each key

vars == <<size, order, value>>

Init == size \in Sizes /\ order = <<>> /\ value = [k \in {} |-> 0]

\* array[k] = v changes the element, or adds one at the end when there is
\* room; an array that is full stays as it is.
Assign(k, v) ==
  \/ /\ k \in DOMAIN value
     /\ value' = [value EXCEPT ![k] = v]
     /\ order' = order
  \/ /\ k \notin DOMAIN value
     /\ Len(order) < size
     /\ value' = [j \in DOMAIN value \cup {k} |-> IF j = k THEN v ELSE value[j]]
     /\ order' = Append(order, k)

\* delete array[k]
Discard(k) ==
  /\ k \in DOMAIN value
  /\ value' = [j \in DOMAIN value \ {k} |-> value[j]]
  /\ order' = SelectSeq(order, LAMBDA j : j # k)

\* delete array
Empty == value' = [k \in {} |-> 0] /\ order' = <<>>

\* Key a may not come before key b when the array is sorted by its elements
\* (column 0) or by its keys.
After(column, dir, a, b) ==
  LET rank(k) == IF column = 0 THEN value[k] ELSE k
  IN  dir * (rank(b) - rank(a)) > 0

PlaceOf(s, k) == CHOOSE i \in DOMAIN s : s[i] = k

\* A sorted foreach: the first n keys (all of them for n = 0) are in order
\* and nothing behind them belongs before them; keys of equal rank keep the
\* order they had.
Arrange(n, column, dir) ==
  /\ value' = value
  /\ Len(order') = Len(order) /\ ToSet(order') = ToSet(order)
  /\ \A i, j \in DOMAIN order :
       i < j /\ (n = 0 \/ i <= n)
         => /\ ~After(column, dir, order'[i], order'[j])
            /\ After(column, dir, order'[j], order'[i])
                 \/ PlaceOf(order, order'[i]) < PlaceOf(order, order'[j])

Next == /\ \/ \E k \in Key, v \in Value : Assign(k, v)
           \/ \E k \in Key : Discard(k)
           \/ Empty
           \/ \E n \in 0..size, column \in {0, 1}, dir \in {-1, 1} :
                Arrange(n, column, dir)
        /\ size' = size

Spec == Init /\ [][Next]_vars
=============================================================================
