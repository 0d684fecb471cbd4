------------------------------ MODULE MCArrays ------------------------------
(***************************************************************************)
(* Model checking of Map and PMap.  What a behaviour is about is chosen in *)
(* its first state: a small array that is filled, emptied and looped over  *)
(* in every way, a larger one that is filled once so that the sorts have   *)
(* something to sort, an array of statistics, or a scalar one.             *)
(***************************************************************************)
EXTENDS Map, PMap

VARIABLE kind

vars == <<mapVars, pmapVars, kind>>

CONSTANTS SmallKeys,    \* the keys of the small array
          ArrayKeys     \* the keys of the array of statistics

MCHash == 0..1
MCHashOf == [k \in Key |-> k % 2]

MCInit ==
  /\ MapInit
  /\ PMapInit
  /\ kind \in {"array", "sort", "statistics", "scalar"}
  /\ kind = "array" => Len(map.key) = Min(Sizes)
  /\ kind # "array" => Len(map.key) = Max(Sizes)

\* The larger array gets its keys in turn, and a loop over it begins while
\* they stand in that order.
Fresh == KeysInOrder(map) = [i \in 1..map.num |-> i]

Fill == \E v \in Value : map.num + 1 \in Key /\ Set(map.num + 1, v)

Walk ==
  \/ \E limit \in Limited : Foreach(limit)
  \/ \E limit \in Limited, column \in {0, 1}, dir \in {-1, 1} :
       ForeachSorted(limit, column, dir)
  \/ /\ loop.pc = "body" /\ loop.sort.dir # 0
     /\ \E limit \in Limited : Nested(limit, loop.sort.column, loop.sort.dir)
  \/ Top
  \/ Continue
  \/ Leave

Use ==
  \/ \E k \in SmallKeys, v \in {Min(Value), Max(Value)} : Set(k, v)
  \/ \E k \in SmallKeys : Del(k)
  \/ ClearAll

\* The values added to the array of statistics, one after the other.
Samples == <<5, 1, 7, 3>>

\* A delete of an element that the CPU does not have leaves all maps alone.
Gather ==
  \/ /\ adds < MaxAdds
     /\ \E c \in CPU, k \in ArrayKeys : PMapAdd(c, k, Samples[adds + 1])
  \/ \E c \in CPU, k \in ArrayKeys : PMapOverflow(c, k)
  \/ \E c \in CPU, k \in ArrayKeys : Find(maps[c], k) # NULL /\ PMapDel(c, k)
  \/ \E k \in ArrayKeys : PMapGet(k)
  \/ PMapForeach
  \/ PMapClear

MCNext ==
  /\ \/ kind = "array" /\ (Use \/ Walk) /\ UNCHANGED pmapVars
     \/ /\ kind = "sort" /\ (Fill \/ Walk) /\ UNCHANGED pmapVars
        /\ loop.pc = "none" => Fresh
     \/ kind = "statistics" /\ Gather /\ UNCHANGED mapVars
     \/ kind = "scalar" /\ ScalarNext /\ UNCHANGED mapVars
  /\ UNCHANGED kind

MCSpec == MCInit /\ [][MCNext]_vars

\* The same with loop bodies that sort the array by something else, or that
\* delete it.
SortInside ==
  \E limit \in Limited, column \in {0, 1}, dir \in {-1, 1} : Nested(limit, column, dir)

MCSpecBodies ==
  MCInit /\ [][MCNext \/ ((SortInside \/ ClearInside) /\ UNCHANGED <<pmapVars, kind>>)]_vars

-----------------------------------------------------------------------------
\* Over any sequence of statements the nodes of every map, the aggregation
\* map among them, stay accounted for: each is in the pool or in the list and
\* one chain, whatever it still holds of an earlier element.
NodesAccounted == MapWellFormed /\ PMapsWellFormed

\* A foreach visits what it should: the elements the array had when it began,
\* each once, up to the limit, and if it is sorted the right ones, in order.
LoopsExact == ForeachExact /\ SortedTop

\* Reading statistics, by element, in a loop or as a scalar, gives what was
\* added on all CPUs, whatever was read, deleted and aggregated before.
ReadsExact == GetExact /\ ForeachStats /\ StatGetExact
=============================================================================
