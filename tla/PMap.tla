-------------------------------- MODULE PMap --------------------------------
(***************************************************************************)
(* Statistics: arrays of them (src/target/runtime/map.c, pmap-gen.c) and   *)
(* scalar ones (src/target/runtime/stat.c).  Each CPU has a record, or a   *)
(* map of records, of its own, to which `<<<' adds without disturbing the  *)
(* others; a read or a foreach puts the CPUs' records together in an       *)
(* aggregate that is kept between reads.  Probes that add share the        *)
(* variable's lock and probes that read, delete or loop hold it            *)
(* exclusively (ProbeLock), and a CPU runs one probe at a time, so every   *)
(* statement is one step.                                                  *)
(***************************************************************************)
EXTENDS MapNodes, StatData

CONSTANTS ncpus,        \* the possible CPUs are 1..ncpus
          Sample,       \* the values added
          MaxEntries,   \* the size of the array
          MaxAdds       \* bounds the values added in a behaviour

VARIABLES maps,     \* the map of each CPU
          agg,      \* the aggregation map
          sd,       \* the scalar: the record of each CPU
          added,    \* history: the values added to a key on a CPU, since the
                    \* element was deleted there or the array was
          summed,   \* history: the values added to the scalar
          adds,     \* history: the number of values added
          result    \* what the latest statement returned

pmapVars == <<maps, agg, sd, added, summed, adds, result>>

CPU == 1..ncpus

Nothing == [op |-> "none"]

NoneAdded == [c \in CPU |-> [k \in Key |-> <<>>]]

PMapInit ==
  /\ maps = [c \in CPU |-> NewMap(MaxEntries, EmptyStat)]
  /\ agg = NewMap(MaxEntries, EmptyStat)
  /\ sd = [c \in CPU |-> EmptyStat]
  /\ added = NoneAdded
  /\ summed = <<>>
  /\ adds = 0
  /\ result = Nothing

\* The values added to key k, CPU after CPU.
Values(k) == FlattenSeq([c \in CPU |-> added[c][k]])

-----------------------------------------------------------------------------
(* Arrays *)

\* array[k] <<< v on CPU c: _stp_pmap_add.  A key that the CPU does not have
\* yet takes a node of the CPU's pool; when there is none the probe ends with
\* the error "Array overflow".
PMapAdd(c, k, v) ==
  /\ adds < MaxAdds /\ adds' = adds + 1
  /\ LET m == maps[c]
         n == Find(m, k)
     IN  /\ n # NULL \/ CanCreate(m)
         /\ maps' = [maps EXCEPT ![c] =
              IF n # NULL THEN [m EXCEPT !.val[n] = StatAdd(@, v)]
              ELSE Created(m, k, StatAdd(ClearNode(m.val[Head(m.pool)]), v))]
  /\ added' = [added EXCEPT ![c][k] = Append(@, v)]
  /\ result' = Nothing
  /\ UNCHANGED <<agg, sd, summed>>

PMapOverflow(c, k) ==
  /\ Find(maps[c], k) = NULL /\ ~CanCreate(maps[c])
  /\ result' = [op |-> "overflow"]
  /\ UNCHANGED <<maps, agg, sd, added, summed, adds>>

\* _stp_new_agg: the CPU's record is copied into a fresh node of agg.
NewAgg(a, k, s) == Created(a, k, s)

\* One CPU's turn in _stp_pmap_get.  The state is the aggregation map, the
\* node for the key and the flag clear_agg.
GetFrom(s, m, k) ==
  LET n == Find(m, k)
  IN  IF n = NULL THEN s
      ELSE IF s.anode = NULL
      THEN IF CanCreate(s.agg)
           THEN LET a == NewAgg(s.agg, k, m.val[n])
                IN  [s EXCEPT !.agg = a, !.anode = Find(a, k)]
           ELSE s
      ELSE [s EXCEPT !.agg.val[s.anode] =
                        AddAgg(IF s.clear THEN ClearNode(@) ELSE @, m.val[n]),
                     !.clear = FALSE]

\* A mutant of PMapGet: what the aggregation map has is returned as it is.
PMapGetCached(k) ==
  LET a == Find(agg, k)
      s == FoldLeft(LAMBDA acc, m : GetFrom(acc, m, k),
                    [agg |-> agg, anode |-> a, clear |-> a # NULL], maps)
  IN  /\ agg' = IF a = NULL THEN s.agg ELSE agg
      /\ result' = [op |-> "get", key |-> k, room |-> CanCreate(agg) \/ a # NULL,
                    found |-> s.anode # NULL,
                    stat |-> IF s.anode # NULL THEN agg'.val[s.anode]
                             ELSE EmptyStat]
      /\ UNCHANGED <<maps, sd, added, summed, adds>>

\* A read of array[k]: _stp_pmap_get, with each CPU totalled in turn.  A null
\* pointer makes @count 0 and the other extractors fail as an empty aggregate.
PMapGet(k) ==
  LET a  == Find(agg, k)
      s  == FoldLeft(LAMBDA acc, m : GetFrom(acc, m, k),
                     [agg |-> agg, anode |-> a, clear |-> a # NULL], maps)
      ok == s.anode # NULL /\ ~s.clear
  IN  /\ agg' = s.agg
      /\ result' = [op |-> "get", key |-> k, room |-> CanCreate(agg) \/ a # NULL,
                    found |-> ok,
                    stat |-> IF ok THEN s.agg.val[s.anode] ELSE EmptyStat]
      /\ UNCHANGED <<maps, sd, added, summed, adds>>

\* The nodes of a map in the order of the hash chains.
ChainOrder(m) ==
  FlattenSeq([i \in 1..Cardinality(Hash) |-> m.hashes[i - 1]])

\* One node's turn in _stp_pmap_agg.
AggNode(s, m, n) ==
  LET a == Find(s.agg, m.key[n])
  IN  IF ~s.ok THEN s
      ELSE IF a # NULL
      THEN [s EXCEPT !.agg.val[a] = AddAgg(@, m.val[n])]
      ELSE IF CanCreate(s.agg)
      THEN [s EXCEPT !.agg = NewAgg(@, m.key[n], m.val[n])]
      ELSE [s EXCEPT !.ok = FALSE]

AggMap(s, m) ==
  FoldLeft(LAMBDA acc, n : AggNode(acc, m, n), s, ChainOrder(m))

\* A foreach over the array: _stp_pmap_agg, after which the loop visits the
\* aggregation map's list and its body reads the elements from that map.
\* Without a node for a key the probe ends with "aggregation overflow".
PMapForeach ==
  LET s == FoldLeft(AggMap, [agg |-> Clear(agg), ok |-> TRUE], maps)
  IN  /\ agg' = s.agg
      /\ result' = [op |-> "foreach", ok |-> s.ok, content |-> Content(s.agg)]
      /\ UNCHANGED <<maps, sd, added, summed, adds>>

\* A mutant of PMapDel: the freed node stays in its hash chain.
PMapDelChained(c, k) ==
  LET n == Find(maps[c], k)
  IN  /\ maps' = IF n = NULL THEN maps
                ELSE [maps EXCEPT ![c].head = RemoveFirst(@, n),
                                  ![c].pool = <<n>> \o @,
                                  ![c].num = @ - 1]
      /\ added' = [added EXCEPT ![c][k] = <<>>]
      /\ result' = [op |-> "del", key |-> k]
      /\ UNCHANGED <<agg, sd, summed, adds>>

\* delete array[k] on CPU c: _stp_pmap_del, which looks at that CPU's map only.
PMapDel(c, k) ==
  /\ maps' = [maps EXCEPT ![c] = Delete(@, k)]
  /\ added' = [added EXCEPT ![c][k] = <<>>]
  /\ result' = [op |-> "del", key |-> k]
  /\ UNCHANGED <<agg, sd, summed, adds>>

\* delete array: _stp_pmap_clear.
PMapClear ==
  /\ maps' = [c \in CPU |-> Clear(maps[c])]
  /\ agg' = Clear(agg)
  /\ added' = NoneAdded
  /\ result' = Nothing
  /\ UNCHANGED <<sd, summed, adds>>

-----------------------------------------------------------------------------
(* Scalars *)

\* s <<< v on CPU c: _stp_stat_add.
StatAddOn(c, v) ==
  /\ adds < MaxAdds /\ adds' = adds + 1
  /\ sd' = [sd EXCEPT ![c] = StatAdd(@, v)]
  /\ summed' = Append(summed, v)
  /\ result' = Nothing
  /\ UNCHANGED <<maps, agg, added>>

\* One CPU's turn in _stp_stat_get.
Total(a, s) ==
  IF s.count = 0 THEN a
  ELSE [count |-> a.count + s.count,
        sum   |-> a.sum + s.sum,
        min   |-> Lower(IF a.count = 0 THEN s.min ELSE a.min, s.min),
        max   |-> Higher(IF a.count = 0 THEN s.max ELSE a.max, s.max),
        hist  |-> AddHist(a.hist, s.hist)]

\* A read of the scalar: _stp_stat_get, which starts from a cleared record.
StatGet ==
  /\ result' = [op |-> "stat", stat |-> FoldLeft(Total, EmptyStat, sd)]
  /\ UNCHANGED <<maps, agg, sd, added, summed, adds>>

\* delete s: _stp_stat_clear.
StatClear ==
  /\ sd' = [c \in CPU |-> EmptyStat]
  /\ summed' = <<>>
  /\ result' = Nothing
  /\ UNCHANGED <<maps, agg, added, adds>>

-----------------------------------------------------------------------------
ArrayNext ==
  \/ \E c \in CPU, k \in Key, v \in Sample : PMapAdd(c, k, v)
  \/ \E c \in CPU, k \in Key : PMapOverflow(c, k) \/ PMapDel(c, k)
  \/ \E k \in Key : PMapGet(k)
  \/ PMapForeach
  \/ PMapClear

ScalarNext ==
  \/ \E c \in CPU, v \in Sample : StatAddOn(c, v)
  \/ StatGet
  \/ StatClear

PMapSpec == PMapInit /\ [][ArrayNext \/ ScalarNext]_pmapVars

-----------------------------------------------------------------------------
Live == {k \in Key : Values(k) # <<>>}

\* A read of an element gives the count, sum, minimum, maximum and histogram
\* of exactly the values added on all CPUs, whatever the aggregation map kept
\* from earlier reads; it comes back empty only for an element without values
\* or when the aggregation map has no node left for the key.
GetExact ==
  result.op = "get" =>
    IF result.found
    THEN result.key \in Live /\ result.stat = Ideal(Values(result.key))
    ELSE result.key \in Live => ~result.room

\* A foreach shows every element that has values on some CPU, with what was
\* added, and none that has been deleted everywhere; it reports an overflow
\* only when the CPUs' elements together are more than the array may hold.
ForeachStats ==
  result.op = "foreach" =>
    IF result.ok
    THEN result.content = [k \in Live |-> Ideal(Values(k))]
    ELSE Cardinality(Live) > MaxEntries

\* A read of a scalar gives the statistics of the values added since it was
\* deleted, on whichever CPUs they were added.
StatGetExact ==
  result.op = "stat" =>
    IF summed = <<>> THEN result.stat = EmptyStat
    ELSE result.stat = Ideal(summed)

\* The lists and chains of the CPUs' maps and of the aggregation map, whose
\* nodes are reused with the records of other keys still in them, are whole.
PMapsWellFormed == WellFormed(agg) /\ \A c \in CPU : WellFormed(maps[c])

\* After delete array[k] the element is gone (langref.tex: "The value will no
\* longer be available, and subsequent iterations will not report the
\* element").
DeleteRemoves ==
  result.op = "del" => \A c \in CPU : Find(maps[c], result.key) = NULL

\* An element with values is found by a read.
PresentFound == result.op = "get" /\ ~result.found => result.key \notin Live
=============================================================================
