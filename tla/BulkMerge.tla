----------------------------- MODULE BulkMerge -----------------------------
(***************************************************************************)
(* Bulk mode from end to end: probes on several CPUs flush their print     *)
(* buffers to the CPU's own file, each flush under the next number of a    *)
(* sequence that all CPUs share (print_flush.c), and stap-merge puts the   *)
(* files together by these numbers once the session is over                *)
(* (stap_merge.c).                                                         *)
(*                                                                         *)
(* A file is a sequence of words: a flush's number, its length, its data.  *)
(* The relay buffer (module RelayBuffer) may refuse the header or the      *)
(* data of a flush.  A CPU is in one flush at a time, since the context of *)
(* a probe is the CPU's (ContextOwned in module ProbeRuntime).             *)
(***************************************************************************)
EXTENDS Integers, Sequences, FiniteSets, SequencesExt

CONSTANTS
  ncpus,       \* CPUs, and files
  Word,        \* 2^w: how many values an int has
  Lengths,     \* the lengths of flushes to consider, in words
  MaxFlushes,  \* bound: flushes
  MaxRefused   \* bound: reservations refused

ASSUME BulkMergeAssumption ==
  /\ ncpus \in Nat \ {0} /\ Word \in Nat \ {0}
  /\ Lengths \subseteq Nat \ {0} /\ MaxFlushes \in Nat /\ MaxRefused \in Nat

CPU == 1..ncpus

(* what a data word of the n-th flush reads as when taken for an int: text is
   larger than any sequence number or length here *)
Text(n) == 1000 + n

(* the n-th value of the atomic_t, and of the int that stap-merge reads *)
Signed(n) == ((n + Word \div 2) % Word) - Word \div 2

VARIABLES
  seq,       \* _stp_seq.seq, not yet wrapped
  flush,     \* on each CPU: the flush it is in, [n, len, at]; or Idle
  file,      \* the CPU's file
  failures,  \* _stp_transport_failures
  mpc,       \* stap-merge: "tracing" (not yet run), "merging", "done", "error"
  num,       \* the number of the flush to come in each file; 0: none
  pos,       \* words read of each file
  count, dropped, out,
  accepted,  \* history: flushes that were written whole, and their lengths
  cut        \* history: flushes of which only the header was

tracing == <<seq, flush, file, failures, accepted, cut>>
merging == <<mpc, num, pos, count, dropped, out>>
vars == <<tracing, merging>>

Idle == [n |-> 0, len |-> 0, at |-> "idle"]

-----------------------------------------------------------------------------
(* stp_print_flush in bulk mode *)

(* _stp_seq_inc *)
SeqInc == seq + 1

(* the number is taken, atomically *)
FlushBegin(c, len) ==
  /\ mpc = "tracing" /\ flush[c] = Idle /\ seq < MaxFlushes
  /\ seq' = seq + 1
  /\ flush' = [flush EXCEPT ![c] = [n |-> SeqInc, len |-> len, at |-> "header"]]
  /\ UNCHANGED <<file, failures, accepted, cut, merging>>

FlushHeader(c) ==
  LET f == flush[c] IN
  /\ f.at = "header"
  /\ file' = [file EXCEPT ![c] = @ \o <<Signed(f.n), f.len>>]
  /\ flush' = [flush EXCEPT ![c].at = "data"]
  /\ UNCHANGED <<seq, failures, accepted, cut, merging>>

FlushData(c) ==
  LET f == flush[c] IN
  /\ f.at = "data"
  /\ file' = [file EXCEPT ![c] = @ \o [i \in 1..f.len |-> Text(f.n)]]
  /\ flush' = [flush EXCEPT ![c] = Idle]
  /\ accepted' = accepted \cup {<<f.n, f.len>>}
  /\ UNCHANGED <<seq, failures, cut, merging>>

(* a reservation is refused and the flush is over; a header already written stays *)
FlushRefused(c) ==
  LET f == flush[c] IN
  /\ f.at # "idle" /\ failures < MaxRefused
  /\ failures' = failures + 1
  /\ flush' = [flush EXCEPT ![c] = Idle]
  /\ cut' = IF f.at = "data" THEN cut \cup {f.n} ELSE cut
  /\ UNCHANGED <<seq, file, accepted, merging>>

-----------------------------------------------------------------------------
(* stap-merge *)

(* the next word of file c is the number of the flush to come; 0 at its end *)
NumAt(c, p) == IF p < Len(file[c]) THEN file[c][p + 1] ELSE 0
PosAfter(c, p) == IF p < Len(file[c]) THEN p + 1 ELSE p

(* the files are opened and the first number of each is read *)
MergeOpen ==
  /\ mpc = "tracing" /\ \A c \in CPU : flush[c] = Idle
  /\ mpc' = "merging"
  /\ num' = [c \in CPU |-> NumAt(c, 0)]
  /\ pos' = [c \in CPU |-> PosAfter(c, 0)]
  /\ UNCHANGED <<tracing, count, dropped, out>>

(* mutant: an ended file in front of the others is taken for the least *)
PickZero ==
  LET loop[i \in CPU] ==
        IF i = 1 THEN 1
        ELSE IF num[i] # 0 /\ num[i] < num[loop[i - 1]] THEN i ELSE loop[i - 1]
  IN loop[ncpus]

(* the file with the least number, ended ones aside *)
Pick ==
  LET loop[i \in CPU] ==
        IF i = 1 THEN 1
        ELSE IF num[loop[i - 1]] = 0 \/ (num[i] # 0 /\ num[i] < num[loop[i - 1]])
             THEN i ELSE loop[i - 1]
  IN loop[ncpus]

(* mutant: a gap is counted once, however wide *)
GapOnce(min) == IF min # count + 1 THEN 1 ELSE 0

(* how many numbers are missing before min *)
Gap(min) == min - (count + 1)

(* mutant: the end is not noticed *)
LoopEndsNever(min) == FALSE

(* while (min) *)
LoopEnds(min) == min = 0

Rest(c) == Len(file[c]) - pos[c]

(* one turn of the loop, which reads the length if there is one *)
MergeFlush ==
  LET j == Pick
      min == num[j]
      len == IF Rest(j) > 0 THEN file[j][pos[j] + 1] ELSE 0
      end == IF Rest(j) > 0 THEN pos[j] + 1 + len ELSE pos[j]
  IN
  /\ mpc = "merging"
  /\ Rest(j) > 0 => len > 0 /\ end <= Len(file[j])
  /\ out' = out \o SubSeq(file[j], pos[j] + 2, end)
  /\ dropped' = IF min # 0 THEN dropped + Gap(min) ELSE dropped
  /\ count' = IF min # 0 THEN min ELSE count
  /\ num' = [num EXCEPT ![j] = NumAt(j, end)]
  /\ pos' = [pos EXCEPT ![j] = PosAfter(j, end)]
  /\ mpc' = IF LoopEnds(min) THEN "done" ELSE "merging"
  /\ UNCHANGED tracing

(* the data announced are not there: exit (-3) *)
MergeError ==
  LET j == Pick
      len == file[j][pos[j] + 1]
  IN
  /\ mpc = "merging"
  /\ Rest(j) > 0 /\ (len <= 0 \/ pos[j] + 1 + len > Len(file[j]))
  /\ mpc' = "error"
  /\ UNCHANGED <<tracing, num, pos, count, dropped, out>>

-----------------------------------------------------------------------------
Init ==
  /\ seq = 0 /\ failures = 0 /\ accepted = {} /\ cut = {}
  /\ flush = [c \in CPU |-> Idle] /\ file = [c \in CPU |-> <<>>]
  /\ mpc = "tracing"
  /\ num = [c \in CPU |-> 0] /\ pos = [c \in CPU |-> 0]
  /\ count = 0 /\ dropped = 0 /\ out = <<>>

Merge == MergeFlush \/ MergeError

Next ==
  \/ \E c \in CPU :
       \/ \E len \in Lengths : FlushBegin(c, len)
       \/ FlushHeader(c) \/ FlushData(c) \/ FlushRefused(c)
  \/ MergeOpen \/ Merge

Spec == Init /\ [][Next]_vars

(* stap-merge runs on *)
FairSpec == Spec /\ WF_vars(Merge)

-----------------------------------------------------------------------------
TypeOK ==
  /\ seq \in 0..MaxFlushes /\ failures \in 0..MaxRefused
  /\ \A c \in CPU :
       /\ flush[c] = Idle \/ flush[c] \in [n : 1..MaxFlushes, len : Lengths, at : {"header", "data"}]
       /\ pos[c] \in 0..Len(file[c])
  /\ mpc \in {"tracing", "merging", "done", "error"}
  /\ accepted \subseteq (1..MaxFlushes) \X Lengths /\ cut \subseteq 1..MaxFlushes

Numbers == {a[1] : a \in accepted}
Wrapped == seq >= Word \div 2

(* the flushes written whole, one after the other in the order of their numbers *)
InOrder ==
  LET flushes == SetToSortSeq(accepted, LAMBDA a, b : a[1] < b[1])
  IN FlattenSeq([i \in 1..Len(flushes) |-> [k \in 1..flushes[i][2] |-> Text(flushes[i][1])]])

(* What the CPUs wrote at the same time, in whatever order, stap-merge puts out
   whole and in the order in which the flushes began, whichever headers were
   refused, and the files never make it give up; unless the buffer took a header
   and refused its data, or the numbers have reached the sign bit of an int. *)
MergeExact ==
  mpc \in {"done", "error"} /\ cut = {} /\ ~Wrapped => mpc = "done" /\ out = InOrder

(* Then the "drops" stap-merge reports are the flushes that were refused before the
   last one it has: none is counted twice, none but the last ones is missed. *)
DropsExact ==
  mpc = "done" /\ cut = {} /\ ~Wrapped =>
    /\ Numbers # {} => dropped = Cardinality((1..count) \ Numbers)
    /\ dropped <= failures

(* stap-merge does not give up on headers whose data were refused.  Not so: what follows such a
   header is taken for its data. *)
MergeSurvivesCut == mpc = "error" => Wrapped

(* The same however many flushes there were.  Not so: a number past the sign bit
   comes before all others, and after 2^w flushes the number 0 ends the merge. *)
MergeSurvivesWrap == mpc = "done" /\ cut = {} => out = InOrder

(* stap-merge comes to an end, whatever is in the files. *)
MergeEnds == mpc = "merging" ~> mpc \in {"done", "error"}
=============================================================================
