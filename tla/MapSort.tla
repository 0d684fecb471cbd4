------------------------------ MODULE MapSort -------------------------------
(***************************************************************************)
(* The two sorts of the runtime's arrays (src/target/runtime/map.c): the   *)
(* merge sort of a whole list and the partial sort that only brings the    *)
(* top n elements to the front.  A list is a sequence of node numbers.     *)
(* The criterion `by' is a record: by.rank gives each node's sort key,     *)
(* by.dir is 1 for high to low and -1 for low to high.  Nil stands for the *)
(* NULL pointer in the merge sort and for the list head in the other.      *)
(***************************************************************************)
EXTENDS Naturals, Integers, Sequences, SequencesExt

Nil == 0

\* _stp_cmp: a may not stay in front of b.
Cmp(by, a, b) == \/ by.rank[a] < by.rank[b] /\ by.dir > 0
                 \/ by.rank[a] > by.rank[b] /\ by.dir < 0

Place(list, e) == SelectInSeq(list, LAMBDA x : x = e)

NextIn(list, e) ==
  IF Place(list, e) = Len(list) THEN Nil ELSE list[Place(list, e) + 1]

PrevIn(list, e) == IF Place(list, e) = 1 THEN Nil ELSE list[Place(list, e) - 1]

\* list_del(e) followed by list_add(e, after); Nil is the list head.
MoveBehind(list, e, after) ==
  LET rest == RemoveFirst(list, e)
  IN  InsertAt(rest, IF after = Nil THEN 1 ELSE Place(rest, after) + 1, e)

-----------------------------------------------------------------------------
(* _stp_map_sort *)

\* The inner loop: the runs at p and q are merged behind tail.
RECURSIVE MergeRuns(_, _)
MergeRuns(s, by) ==
  IF ~(s.psize > 0 \/ (s.qsize > 0 /\ s.q # Nil)) THEN s
  ELSE LET fromP == /\ s.psize > 0
                    /\ s.qsize = 0 \/ s.q = Nil \/ ~Cmp(by, s.p, s.q)
           e     == IF fromP THEN s.p ELSE s.q
           next  == NextIn(s.list, e)
           moved == [s EXCEPT !.list = MoveBehind(@, e, s.tail), !.tail = e]
       IN  MergeRuns(IF fromP
                     THEN [moved EXCEPT !.p = next, !.psize = @ - 1]
                     ELSE [moved EXCEPT !.q = next, !.qsize = @ - 1], by)

\* The loop over the pairs of runs of length insize, from the run at s.p on.
RECURSIVE MergePass(_, _, _)
MergePass(s, insize, by) ==
  IF s.p = Nil THEN s
  ELSE LET left == Len(s.list) - Place(s.list, s.p) + 1
           r    == MergeRuns([list  |-> s.list,
                              tail  |-> s.tail,
                              p     |-> s.p,
                              psize |-> IF left < insize THEN left ELSE insize,
                              q     |-> IF left <= insize THEN Nil
                                        ELSE s.list[Place(s.list, s.p) + insize],
                              qsize |-> insize], by)
       IN  MergePass([list |-> r.list, tail |-> r.tail, p |-> r.q,
                      nmerges |-> s.nmerges + 1], insize, by)

RECURSIVE SortFrom(_, _, _)
SortFrom(list, insize, by) ==
  LET s == MergePass([list |-> list, tail |-> Nil, p |-> Head(list),
                      nmerges |-> 0], insize, by)
  IN  IF s.nmerges > 1 THEN SortFrom(s.list, 2 * insize, by) ELSE s.list

Sort(list, by) == IF list = <<>> THEN list ELSE SortFrom(list, 1, by)

-----------------------------------------------------------------------------
(* _stp_map_sortn *)

\* A mutant: the pass stops one element early.
BubbleEndsEarly(list, n) ==
  IF n < 2 THEN 1 ELSE IF n < Len(list) THEN n - 1 ELSE Len(list)

\* The place at which a pass of the bubble sort stops: a->next is the list
\* head, or --num has reached 0 (at once for an n below 1).
BubbleEnds(list, n) ==
  IF n < 1 THEN 1 ELSE IF n < Len(list) THEN n ELSE Len(list)

\* One pass of the bubble sort from place i on.
RECURSIVE BubblePass(_, _, _, _)
BubblePass(s, i, n, by) ==
  IF i >= BubbleEnds(s.list, n) THEN s
  ELSE LET a == s.list[i]
           b == s.list[i + 1]
       IN  BubblePass(IF Cmp(by, a, b)
                      THEN [list  |-> [s.list EXCEPT ![i] = b, ![i + 1] = a],
                            swaps |-> s.swaps + 1]
                      ELSE s,
                      i + 1, n, by)

RECURSIVE Bubble(_, _, _)
Bubble(list, n, by) ==
  LET s == BubblePass([list |-> list, swaps |-> 0], 1, n, by)
  IN  IF s.swaps > 0 THEN Bubble(s.list, n, by) ELSE s.list

\* The node behind which a belongs, searched backwards from c.
RECURSIVE Slot(_, _, _, _)
Slot(list, c, a, by) ==
  IF c # Nil /\ Cmp(by, c, a) THEN Slot(list, PrevIn(list, c), a, by) ELSE c

\* One element of the rest is tested against the top ones.
Insert(s, a, by) ==
  LET c == Slot(s.list, s.last, a, by)
  IN  IF c = s.last THEN s
      ELSE LET list == MoveBehind(s.list, a, c)
           IN  [list |-> list, last |-> PrevIn(list, s.last)]

\* What is passed for the parameter n of a sort is a 64-bit limit, and the
\* parameter is an int: Word stands for 2^32.
AsInt(n, Word) ==
  IF n % Word < Word \div 2 THEN n % Word ELSE (n % Word) - Word

Sortn(list, n, by) ==
  IF n = 0 \/ n > 30 THEN Sort(list, by)
  ELSE IF list = <<>> THEN list
  ELSE LET top  == Bubble(list, n, by)
           k    == BubbleEnds(list, n)
           rest == SubSeq(top, k + 1, Len(top))
       IN  FoldLeft(LAMBDA s, a : Insert(s, a, by),
                    [list |-> top, last |-> top[k]], rest).list
=============================================================================
