------------------------------ MODULE MapNodes ------------------------------
(***************************************************************************)
(* The node level of the runtime's associative arrays                      *)
(* (src/target/runtime/map.c, map-gen.c, pmap-gen.c): a fixed number of    *)
(* preallocated nodes, each either in the free pool or, when it holds an   *)
(* element, in the list of entries and in one hash chain.                  *)
(*                                                                         *)
(* A map is a record: pool and head are the two lists in list order, hashes*)
(* the chains, key and val what each node holds.  A node keeps its key and *)
(* value when it returns to the pool, as the C node does.  num is          *)
(* map->num.  The flag wrap is left out: nothing ever sets it, so an empty *)
(* pool always makes _new_map_create fail.                                 *)
(***************************************************************************)
EXTENDS Naturals, Integers, Sequences, SequencesExt

CONSTANTS Key,        \* the keys, integers
          Hash,       \* the indices of the hash table
          HashOf      \* the hash function of map-gen.c, a function on keys

\* The absence of a node, of a value or of an element.
NULL == 0

Nodes(m) == DOMAIN m.key

\* _stp_map_init: every node is put in front of the pool in turn.
NewMap(n, v) ==
  [pool   |-> Reverse([i \in 1..n |-> i]),
   head   |-> <<>>,
   hashes |-> [h \in Hash |-> <<>>],
   key    |-> [i \in 1..n |-> NULL],
   val    |-> [i \in 1..n |-> v],
   num    |-> 0]

\* The walk of a hash chain that every operation begins with.
Find(m, k) ==
  LET hits == SelectSeq(m.hashes[HashOf[k]], LAMBDA n : m.key[n] = k)
  IN  IF hits = <<>> THEN NULL ELSE Head(hits)

CanCreate(m) == m.pool # <<>>

\* _new_map_create, for a map whose pool is not empty, with the key copied in
\* and the value v of a fresh element.
Created(m, k, v) ==
  LET n == Head(m.pool)
  IN  [m EXCEPT !.pool = Tail(@),
                !.head = Append(@, n),
                !.hashes[HashOf[k]] = <<n>> \o @,
                !.key[n] = k,
                !.val[n] = v,
                !.num = @ + 1]

\* _new_map_del_node.
DelNode(m, n) ==
  [m EXCEPT !.hashes[HashOf[m.key[n]]] = RemoveFirst(@, n),
            !.head = RemoveFirst(@, n),
            !.pool = <<n>> \o @,
            !.num = @ - 1]

\* _stp_map_clear: the entries go to the front of the pool one by one.
Clear(m) ==
  [m EXCEPT !.pool = Reverse(m.head) \o @,
            !.head = <<>>,
            !.hashes = [h \in Hash |-> <<>>],
            !.num = 0]

Delete(m, k) == IF Find(m, k) = NULL THEN m ELSE DelNode(m, Find(m, k))

-----------------------------------------------------------------------------
\* What _stp_map_start and _stp_map_iter return.  A node that has gone back
\* to the pool is followed along the pool; behind the pool's last node the
\* walk reads the pool's list head as if it were a node.
GARBAGE == -1

\* The element behind n in a list, or what stands for the list's head.
Behind(list, n, end) ==
  LET i == SelectInSeq(list, LAMBDA e : e = n)
  IN  IF i = Len(list) THEN end ELSE list[i + 1]

Start(m) == IF m.head = <<>> THEN NULL ELSE Head(m.head)

Iter(m, n) ==
  IF n = GARBAGE THEN (IF m.pool = <<>> THEN GARBAGE ELSE Head(m.pool))
  ELSE IF Contains(m.head, n) THEN Behind(m.head, n, NULL)
  ELSE Behind(m.pool, n, GARBAGE)

-----------------------------------------------------------------------------
\* The keys of a map in list order, and its content as a function.
KeysInOrder(m) == [i \in DOMAIN m.head |-> m.key[m.head[i]]]

Content(m) ==
  [k \in ToSet(KeysInOrder(m)) |->
     m.val[CHOOSE n \in ToSet(m.head) : m.key[n] = k]]

\* The structure the list and chain code keeps: pool and head share out the
\* nodes, a node is in the chain of its key's hash exactly when it is in
\* head, no two entries have one key, and num counts the entries.
WellFormed(m) ==
  /\ ToSet(m.pool) \cup ToSet(m.head) = Nodes(m)
  /\ Len(m.pool) + Len(m.head) = Len(m.key)
  /\ m.num = Len(m.head)
  /\ \A h \in Hash :
       /\ ToSet(m.hashes[h]) = {n \in ToSet(m.head) : HashOf[m.key[n]] = h}
       /\ \A i, j \in DOMAIN m.hashes[h] :
            m.key[m.hashes[h][i]] = m.key[m.hashes[h][j]] => i = j
=============================================================================
