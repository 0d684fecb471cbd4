------------------------------ MODULE StatData ------------------------------
(***************************************************************************)
(* The statistics record of the runtime (src/target/runtime/stat-common.c, *)
(* stat.c and map.c): what `<<<' adds to, what the extractors @count, @sum,*)
(* @min, @max and the histograms read, and how the records of the CPUs are *)
(* put together.                                                           *)
(***************************************************************************)
EXTENDS Naturals, Integers, Sequences, FiniteSets, FiniteSetsExt

CONSTANTS start, stop, interval       \* of a linear histogram

ASSUME LinearHistogram ==
  start \in Int /\ stop \in Int /\ interval \in Nat \ {0} /\ stop >= start

-----------------------------------------------------------------------------
(* Linear histograms *)

\* _stp_stat_calc_buckets: one bucket more for underflow, one for overflow.
buckets == (stop - start) \div interval + 3

\* The part of __stp_stat_add for HIST_LINEAR.
LinearBucket(val) ==
  LET n == IF val < start THEN 0 ELSE (val - start) \div interval + 1
  IN  IF n >= buckets - 1 THEN buckets - 1 ELSE n

-----------------------------------------------------------------------------
(* Logarithmic histograms.  _stp_val_to_bucket looks for the highest bit    *)
(* that is set in the magnitude of a 64-bit value; a value is represented   *)
(* by the number of that bit, and a shift to the left by n moves it up by n.*)

HIST_LOG_BUCKETS == 128
HIST_LOG_BUCKET0 == 64

\* One of the tests `if (!(val & mask)) { val <<= n; res -= n; }', where mask
\* has the n highest bits.
Narrow(s, n) ==
  IF s.bit < 64 - n THEN [bit |-> s.bit + n, res |-> s.res - n] ELSE s

\* _stp_val_to_bucket for a value other than 0.
LogBucket(bit, neg) ==
  LET s0 == [bit |-> bit, res |-> HIST_LOG_BUCKETS]
      s1 == IF bit >= 16 THEN Narrow(Narrow(s0, 32), 16)
            ELSE [bit |-> bit + 48, res |-> HIST_LOG_BUCKETS - 48]
      s  == Narrow(Narrow(Narrow(Narrow(s1, 8), 4), 2), 1)
  IN  IF neg THEN HIST_LOG_BUCKETS - s.res ELSE s.res

-----------------------------------------------------------------------------
(* The record *)

NoHist == [b \in 0..(buckets - 1) |-> 0]

EmptyStat == [count |-> 0, sum |-> 0, min |-> 0, max |-> 0, hist |-> NoHist]

Lower(a, b) == IF b < a THEN b ELSE a

Higher(a, b) == IF b > a THEN b ELSE a

\* __stp_stat_add: the first value replaces what an earlier use left behind.
StatAdd(sd, val) ==
  [count |-> IF sd.count = 0 THEN 1 ELSE sd.count + 1,
   sum   |-> IF sd.count = 0 THEN val ELSE sd.sum + val,
   min   |-> IF sd.count = 0 THEN val ELSE Lower(sd.min, val),
   max   |-> IF sd.count = 0 THEN val ELSE Higher(sd.max, val),
   hist  |-> [sd.hist EXCEPT ![LinearBucket(val)] = @ + 1]]

AddHist(h1, h2) == [b \in DOMAIN h1 |-> h1[b] + h2[b]]

\* _stp_add_agg for statistics.
AddAgg(sd1, sd2) ==
  [count |-> IF sd1.count = 0 THEN sd2.count ELSE sd1.count + sd2.count,
   sum   |-> IF sd1.count = 0 THEN sd2.sum ELSE sd1.sum + sd2.sum,
   min   |-> IF sd1.count = 0 THEN sd2.min ELSE Lower(sd1.min, sd2.min),
   max   |-> IF sd1.count = 0 THEN sd2.max ELSE Higher(sd1.max, sd2.max),
   hist  |-> AddHist(sd1.hist, sd2.hist)]

\* _new_map_clear_node, and _new_map_set_stat before the first addition: sum,
\* min and max stay behind.
ClearNode(sd) == [sd EXCEPT !.count = 0, !.hist = NoHist]

-----------------------------------------------------------------------------
\* What a record must say after the values of a sequence have been added: the
\* reference the per-CPU records and their aggregation are checked against.
Elements(s) == {s[i] : i \in DOMAIN s}

Ideal(s) ==
  [count |-> Len(s),
   sum   |-> FoldSet(LAMBDA v, acc : acc + v * Cardinality({i \in DOMAIN s : s[i] = v}),
                     0, Elements(s)),
   min   |-> Min(Elements(s)),
   max   |-> Max(Elements(s)),
   hist  |-> [b \in 0..(buckets - 1) |->
                Cardinality({i \in DOMAIN s :
                  \/ b = 0 /\ s[i] < start
                  \/ /\ b \in 1..(buckets - 2)
                     /\ start + (b - 1) * interval <= s[i]
                     /\ s[i] < start + b * interval
                  \/ b = buckets - 1 /\ s[i] >= start + (buckets - 2) * interval})]]
=============================================================================
