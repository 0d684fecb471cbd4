-------------------------------- MODULE Map ---------------------------------
(***************************************************************************)
(* An associative array of numbers and the statements of a script that use *)
(* it, as the translator writes them (src/host/translate.cxx) over the     *)
(* runtime's maps (src/target/runtime/map.c and map-gen.c).  A probe that  *)
(* touches a global array holds its lock from its first statement to its   *)
(* last (ProbeLock), so one probe's statements are the only steps here; a  *)
(* foreach is several of them, with other statements in its body.          *)
(***************************************************************************)
EXTENDS MapNodes, MapSort, FiniteSetsExt

CONSTANTS Value,      \* the elements stored
          Sizes,      \* the sizes arrays are declared with
          Limits,     \* the limits of foreach loops
          Word        \* stands for 2^32, the range of an int

VARIABLES map,        \* the map
          loop        \* the foreach in progress

mapVars == <<map, loop>>

NoLoop == [pc |-> "none"]

\* The limit of a foreach without one.
NoLimit == [given |-> FALSE, n |-> 0]

MapInit == /\ \E size \in Sizes : map = NewMap(size, 0)
           /\ loop = NoLoop

-----------------------------------------------------------------------------
\* A mutant: a full array gives up its oldest element.
SetWraps(k, v) ==
  /\ loop.pc = "none"
  /\ map' = IF Find(map, k) # NULL THEN [map EXCEPT !.val[Find(map, k)] = v]
            ELSE IF CanCreate(map) THEN Created(map, k, v)
            ELSE Created(DelNode(map, Head(map.head)), k, v)
  /\ UNCHANGED loop

\* array[k] = v: __stp_map_set with add = 0.  When no node is left the probe
\* ends with the error "Array overflow" and the map stays as it is.
Set(k, v) ==
  /\ loop.pc = "none"
  /\ map' = IF Find(map, k) # NULL THEN [map EXCEPT !.val[Find(map, k)] = v]
            ELSE IF CanCreate(map) THEN Created(map, k, v)
            ELSE map
  /\ UNCHANGED loop

\* delete array[k]
Del(k) ==
  /\ loop.pc = "none"
  /\ map' = Delete(map, k)
  /\ UNCHANGED loop

\* delete array
ClearAll == loop.pc = "none" /\ map' = Clear(map) /\ UNCHANGED loop

-----------------------------------------------------------------------------
\* The sort a foreach begins with.
Sorted(m, limit, column, dir) ==
  LET by == [rank |-> IF column = 0 THEN m.val ELSE m.key, dir |-> dir]
  IN  [m EXCEPT !.head = IF limit.given THEN Sortn(@, AsInt(limit.n, Word), by)
                                        ELSE Sort(@, by)]

\* A foreach over map m begins: the iterator is put on the first element.
Begin(m, limit, sort) ==
  /\ map' = m
  /\ loop' = [pc |-> "test", at |-> Start(m), done |-> <<>>, limit |-> limit,
              sort |-> sort, before |-> KeysInOrder(map), keys |-> KeysInOrder(m)]

Foreach(limit) == loop.pc = "none" /\ Begin(map, limit, [column |-> 0, dir |-> 0])

ForeachSorted(limit, column, dir) ==
  /\ loop.pc = "none"
  /\ Begin(Sorted(map, limit, column, dir), limit, [column |-> column, dir |-> dir])

AtLimit == loop.limit.given /\ Len(loop.done) >= loop.limit.n

\* The top of the loop: it ends behind the last element or at the limit, else
\* the key is copied into the script's variable and the body runs.
Top ==
  /\ loop.pc = "test"
  /\ Len(loop.done) <= Len(map.key)
  /\ loop' = IF loop.at = NULL \/ AtLimit
             THEN [loop EXCEPT !.pc = "over"]
             ELSE [loop EXCEPT !.pc = "body",
                               !.done = Append(@, IF loop.at = GARBAGE THEN GARBAGE
                                                  ELSE map.key[loop.at])]
  /\ UNCHANGED map

\* Statements in the body of a foreach may change its array in two ways: the
\* check against it looks at indexed elements only.  One is a sorted foreach
\* over the same array, which sorts the list under the outer loop's iterator;
\* its own iterations change nothing.
Nested(limit, column, dir) ==
  /\ loop.pc = "body"
  /\ map' = Sorted(map, limit, column, dir)
  /\ UNCHANGED loop

\* The other is delete array.
ClearInside == loop.pc = "body" /\ map' = Clear(map) /\ UNCHANGED loop

\* The end of the body.
Continue ==
  /\ loop.pc = "body"
  /\ loop' = [loop EXCEPT !.pc = "test", !.at = Iter(map, @)]
  /\ UNCHANGED map

Leave == loop.pc = "over" /\ loop' = NoLoop /\ UNCHANGED map

Limited == {NoLimit} \cup [given : {TRUE}, n : Limits]

MapNext ==
  \/ \E k \in Key, v \in Value : Set(k, v)
  \/ \E k \in Key : Del(k)
  \/ ClearAll \/ ClearInside
  \/ \E limit \in Limited : Foreach(limit)
  \/ \E limit \in Limited, column \in {0, 1}, dir \in {-1, 1} :
       ForeachSorted(limit, column, dir) \/ Nested(limit, column, dir)
  \/ Top
  \/ Continue
  \/ Leave

MapSpec == MapInit /\ [][MapNext]_mapVars

-----------------------------------------------------------------------------
\* The array that the map implements.
A == INSTANCE Array WITH size  <- Len(map.key),
                         order <- KeysInOrder(map),
                         value <- Content(map)

ImplementsArray == A!Spec

\* The lists and chains of the map are whole: no element is lost to lookups
\* while foreach still shows it, and no free node is still in a chain.
MapWellFormed == WellFormed(map)

\* A foreach that has come to its end has visited the elements the array had
\* when the loop began, each once and in order, up to its limit, even though
\* the iterator follows list pointers while loops in the body sort the list.
ForeachExact ==
  loop.pc = "over" =>
    loop.done = IF loop.limit.given
                THEN SubSeq(loop.keys, 1, Max({0, Min({loop.limit.n, Len(loop.keys)})}))
                ELSE loop.keys

\* The elements a sorted foreach is going to visit are the right ones: up to
\* its limit the keys are in order, none behind them belongs before them,
\* and keys of equal rank keep the order they had.
SortedTop ==
  (loop.pc = "test" /\ loop.done = <<>> /\ loop.sort.dir # 0) =>
    LET n == IF loop.limit.given THEN loop.limit.n ELSE Len(loop.keys)
        old(k) == Place(loop.before, k)
        gap(a, b) == loop.sort.dir * (IF loop.sort.column = 0
                                      THEN Content(map)[a] - Content(map)[b]
                                      ELSE a - b)
    IN  \A i, j \in DOMAIN loop.keys :
          i < j /\ i <= n =>
            LET a == loop.keys[i]
                b == loop.keys[j]
            IN  gap(a, b) > 0 \/ (gap(a, b) = 0 /\ old(a) < old(b))
=============================================================================
