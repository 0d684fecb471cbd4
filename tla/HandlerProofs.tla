--------------------------- MODULE HandlerProofs ---------------------------
(***************************************************************************)
(* What the code around a probe handler's body is relied on for.           *)
(*                                                                         *)
(* The statistics (module StatData): what the bucket computations return,  *)
(* for every 64-bit value and for every linear histogram a script declares.*)
(*                                                                         *)
(* The locks (module ProbeLock): for every number of CPUs, every set of    *)
(* probes and every way they use the globals, the locks emit_lock_decls    *)
(* selects and stp_lock_probe takes keep conflicting handler bodies apart. *)
(***************************************************************************)
EXTENDS ProbeLock, StatData, FiniteSetTheorems, TLAPS

-----------------------------------------------------------------------------
(* Logarithmic histograms *)

\* A state of the search of _stp_val_to_bucket.
SearchState == [bit : 0..63, res : Int]

\* One test of the search: the sum of the bit number and the result stays as
\* it is, and a bit among the 2n highest ends up among the n highest.
LEMMA NarrowStep ==
  ASSUME NEW s \in SearchState, NEW n \in 1..32, s.bit >= 64 - 2 * n
  PROVE  /\ Narrow(s, n) \in SearchState
         /\ Narrow(s, n).bit >= 64 - n
         /\ Narrow(s, n).bit + Narrow(s, n).res = s.bit + s.res
BY DEF Narrow, SearchState

\* The four tests at the end of the search bring a bit among the 16 highest
\* to the top, whatever path led there.
LEMMA NarrowTail ==
  ASSUME NEW s \in SearchState, s.bit >= 48
  PROVE  Narrow(Narrow(Narrow(Narrow(s, 8), 4), 2), 1).res = s.bit + s.res - 63
<1> DEFINE a == Narrow(s, 8)
           b == Narrow(a, 4)
           c == Narrow(b, 2)
           d == Narrow(c, 1)
<1>1. a \in SearchState /\ a.bit >= 56 /\ a.bit + a.res = s.bit + s.res
  BY NarrowStep
<1> HIDE DEF a
<1>2. b \in SearchState /\ b.bit >= 60 /\ b.bit + b.res = a.bit + a.res
  BY <1>1, NarrowStep
<1> HIDE DEF b
<1>3. c \in SearchState /\ c.bit >= 62 /\ c.bit + c.res = b.bit + b.res
  BY <1>2, NarrowStep
<1> HIDE DEF c
<1>4. d \in SearchState /\ d.bit >= 63 /\ d.bit + d.res = c.bit + c.res
  BY <1>3, NarrowStep
<1> HIDE DEF d
<1>5. d.res = s.bit + s.res - 63
  BY <1>1, <1>2, <1>3, <1>4 DEF SearchState
<1> QED
  BY <1>5 DEF a, b, c, d

\* The part of the search before those tests, with its shortcut for values of
\* 16 bits, leaves the bit among the 16 highest.
LEMMA SearchHead ==
  ASSUME NEW bit \in 0..63
  PROVE  LET s0 == [bit |-> bit, res |-> HIST_LOG_BUCKETS]
             s1 == IF bit >= 16 THEN Narrow(Narrow(s0, 32), 16)
                   ELSE [bit |-> bit + 48, res |-> HIST_LOG_BUCKETS - 48]
         IN  s1 \in SearchState /\ s1.bit >= 48 /\ s1.bit + s1.res = bit + 128
<1> DEFINE s0 == [bit |-> bit, res |-> HIST_LOG_BUCKETS]
           n == Narrow(s0, 32)
<1>1. CASE bit < 16
  BY <1>1 DEF SearchState, HIST_LOG_BUCKETS
<1>2. CASE bit >= 16
  <2>1. s0 \in SearchState /\ s0.bit >= 0 /\ s0.bit + s0.res = bit + 128
    BY DEF SearchState, HIST_LOG_BUCKETS
  <2>2. n \in SearchState /\ n.bit >= 32 /\ n.bit + n.res = s0.bit + s0.res
    <3> HIDE DEF s0
    <3> QED BY <2>1, NarrowStep
  <2> HIDE DEF n, s0
  <2>3. /\ Narrow(n, 16) \in SearchState
        /\ Narrow(n, 16).bit >= 48
        /\ Narrow(n, 16).bit + Narrow(n, 16).res = n.bit + n.res
    BY <2>2, NarrowStep
  <2> QED BY <1>2, <2>1, <2>2, <2>3 DEF n, s0
<1> QED BY <1>1, <1>2

\* _stp_val_to_bucket finds the bucket of the highest bit, for every value
\* other than 0: 65 + bit above the bucket of 0, 63 - bit below it.  Every
\* bit has a bucket of its own, and all are within the histogram.
THEOREM LogBucketCorrect ==
  ASSUME NEW bit \in 0..63
  PROVE  /\ LogBucket(bit, FALSE) = HIST_LOG_BUCKET0 + 1 + bit
         /\ LogBucket(bit, TRUE) = HIST_LOG_BUCKET0 - 1 - bit
<1> DEFINE s0 == [bit |-> bit, res |-> HIST_LOG_BUCKETS]
           s1 == IF bit >= 16 THEN Narrow(Narrow(s0, 32), 16)
                 ELSE [bit |-> bit + 48, res |-> HIST_LOG_BUCKETS - 48]
           s  == Narrow(Narrow(Narrow(Narrow(s1, 8), 4), 2), 1)
<1>1. s1 \in SearchState /\ s1.bit >= 48 /\ s1.bit + s1.res = bit + 128
  BY SearchHead
<1>2. /\ LogBucket(bit, FALSE) = s.res
      /\ LogBucket(bit, TRUE) = HIST_LOG_BUCKETS - s.res
  BY Zenon DEF LogBucket
<1> HIDE DEF s1
<1>3. s.res = s1.bit + s1.res - 63
  BY <1>1, NarrowTail
<1> HIDE DEF s
<1>4. s.res = bit + 65
  BY <1>1, <1>3 DEF SearchState
<1>5. /\ s.res = HIST_LOG_BUCKET0 + 1 + bit
      /\ HIST_LOG_BUCKETS - s.res = HIST_LOG_BUCKET0 - 1 - bit
  BY <1>4 DEF HIST_LOG_BUCKETS, HIST_LOG_BUCKET0
<1> QED
  BY <1>2, <1>5, Zenon

-----------------------------------------------------------------------------
(* Linear histograms *)

\* What the quotient of a difference says about the difference.
LEMMA DivBounds ==
  ASSUME NEW a \in Nat, NEW m \in Nat \ {0}
  PROVE  /\ a \div m \in Nat
         /\ m * (a \div m) <= a
         /\ a < m * (a \div m) + m
OBVIOUS

\* The bucket that __stp_stat_add counts a value in exists, and it is the one
\* for the interval the value lies in: bucket 0 below start, the last one at
\* and beyond the end, and bucket b for the b-th interval in between.
THEOREM LinearBucketCorrect ==
  ASSUME NEW val \in Int
  PROVE  LET b == LinearBucket(val)
         IN  /\ b \in 0..(buckets - 1)
             /\ b = 0 <=> val < start
             /\ b \in 1..(buckets - 2) => /\ start + (b - 1) * interval <= val
                                          /\ val < start + b * interval
             /\ b = buckets - 1 => val >= start + (buckets - 2) * interval
<1> DEFINE w == (stop - start) \div interval
           q == (val - start) \div interval
           b == LinearBucket(val)
<1>1. w \in Nat /\ buckets = w + 3
  BY LinearHistogram, DivBounds, stop - start \in Nat DEF buckets
<1> HIDE DEF w
<1>2. CASE val < start
  <2>1. b = 0
    BY <1>1, <1>2, LinearHistogram DEF LinearBucket
  <2> HIDE DEF b
  <2> QED BY <1>1, <1>2, <2>1, LinearHistogram DEF b
<1>3. CASE val >= start
  <2>1. /\ q \in Nat
        /\ interval * q <= val - start
        /\ val - start < interval * q + interval
    BY <1>3, LinearHistogram, DivBounds, val - start \in Nat
  <2>2. b = IF q + 1 >= w + 2 THEN w + 2 ELSE q + 1
    BY <1>1, <1>3, <2>1, LinearHistogram DEF LinearBucket
  <2> HIDE DEF b, q
  <2>3. CASE q >= w + 1
    <3>1. b = w + 2
      BY <1>1, <2>1, <2>2, <2>3
    <3>2. interval * (w + 1) <= interval * q
      BY <1>1, <2>1, <2>3, LinearHistogram
    <3>3. val >= start + (w + 1) * interval
      BY <1>1, <2>1, <3>2, LinearHistogram
    <3> QED BY <1>1, <1>3, <3>1, <3>3, LinearHistogram DEF b
  <2>4. CASE q <= w
    <3>1. b = q + 1
      BY <1>1, <2>1, <2>2, <2>4
    <3>2. start + q * interval <= val /\ val < start + (q + 1) * interval
      BY <2>1, LinearHistogram
    <3>3. b - 1 = q /\ b \in 1..(buckets - 2) /\ b # buckets - 1
      BY <1>1, <2>1, <2>4, <3>1
    <3> QED BY <1>1, <1>3, <2>1, <3>1, <3>2, <3>3, LinearHistogram DEF b
  <2> QED BY <1>1, <2>1, <2>3, <2>4
<1> QED BY <1>2, <1>3, LinearHistogram

-----------------------------------------------------------------------------
(* The locks of a probe handler *)

(* A handler holds only locks of its own array, all of them in its body and
   none when it is idle; one that still tries has attempts left. *)
HeldByPc ==
  \A c \in Cpu :
    /\ got[c] \subseteq LockSet(prb[c])
    /\ pc[c] = "body" => got[c] = LockSet(prb[c])
    /\ pc[c] = "idle" => got[c] = {}
    /\ pc[c] = "lock" => retries[c] <= MAXTRYLOCK

(* A lock held by two handlers is held shared by both. *)
HoldersCompatible ==
  \A c, d \in Cpu : \A g \in Global :
    c # d /\ g \in got[c] /\ g \in got[d]
      => ~Exclusive(prb[c], g) /\ ~Exclusive(prb[d], g)

LockInv == TypeOK /\ HeldByPc /\ HoldersCompatible /\ LockWordsMatch

USE DEF Global

(* The mode of a lock is a matter of the probe and the global alone, and
   conflicting probes have a common lock that one of them takes
   exclusively: leaving out the locks of read-mostly globals is sound. *)
LEMMA ConflictNeedsLock ==
  ASSUME NEW p \in Locking, NEW q \in Locking, Conflict(p, q)
  PROVE  \E g \in Global :
           /\ g \in LockSet(p) /\ g \in LockSet(q)
           /\ Exclusive(p, g) \/ Exclusive(q, g)
<1>1. PICK g \in Global :
        /\ Accesses(p, g) /\ Accesses(q, g)
        /\ IF g \in Stats THEN g \in Read[p] \/ g \in Read[q]
           ELSE g \in Written[p] \/ g \in Written[q]
  BY DEF Conflict
<1>2. Exclusive(p, g) \/ Exclusive(q, g)
  BY <1>1 DEF Exclusive
<1>3. ~Exclusive(p, g) => g \in WrittenUnderLocks
  <2>1. CASE g \in Stats
    BY <1>1, <2>1 DEF Exclusive, Accesses, WrittenUnderLocks
  <2>2. CASE g \notin Stats
    BY <1>1, <2>2 DEF Exclusive, Accesses, WrittenUnderLocks
  <2> QED BY <2>1, <2>2
<1>4. ~Exclusive(q, g) => g \in WrittenUnderLocks
  <2>1. CASE g \in Stats
    BY <1>1, <2>1 DEF Exclusive, Accesses, WrittenUnderLocks
  <2>2. CASE g \notin Stats
    BY <1>1, <2>2 DEF Exclusive, Accesses, WrittenUnderLocks
  <2> QED BY <2>1, <2>2
<1>5. g \in LockSet(p) /\ g \in LockSet(q)
  BY <1>1, <1>3, <1>4 DEF LockSet, Shared, Accesses
<1> QED BY <1>2, <1>5

(* The invariant keeps the bodies apart. *)
LEMMA InvImpliesNoDataRace == LockInv => NoDataRace
<1> SUFFICES ASSUME LockInv,
                    NEW c \in Cpu, NEW d \in Cpu, c # d,
                    pc[c] = "body", pc[d] = "body",
                    Conflict(prb[c], prb[d])
             PROVE  FALSE
  BY DEF NoDataRace
<1>1. prb[c] \in Locking /\ prb[d] \in Locking
  BY DEF LockInv, TypeOK
<1>2. PICK g \in Global :
        /\ g \in LockSet(prb[c]) /\ g \in LockSet(prb[d])
        /\ Exclusive(prb[c], g) \/ Exclusive(prb[d], g)
  BY <1>1, ConflictNeedsLock
<1>3. g \in got[c] /\ g \in got[d]
  BY <1>2 DEF LockInv, HeldByPc
<1> QED BY <1>2, <1>3 DEF LockInv, HoldersCompatible

-----------------------------------------------------------------------------
\* At first all locks are free and all handlers idle.
LEMMA InitEstablishesInv == Init => LockInv
<1> SUFFICES ASSUME Init PROVE LockInv
  OBVIOUS
<1>1. TypeOK
  BY ConstantsAssumption DEF Init, TypeOK
<1>2. HeldByPc /\ HoldersCompatible
  BY DEF Init, HeldByPc, HoldersCompatible
<1>3. LockWordsMatch
  <2>1. ASSUME NEW g \in Global PROVE SharedHolders(g) = {}
    BY DEF Init, SharedHolders
  <2> QED BY <2>1, FS_EmptySet DEF Init, LockWordsMatch
<1> QED BY <1>1, <1>2, <1>3 DEF LockInv

(* A step that moves no lock and keeps the probe of every holder leaves the
   lock words and the holders as they are. *)
LEMMA NoLockMoves ==
  ASSUME HoldersCompatible, LockWordsMatch, TypeOK,
         UNCHANGED <<got, writer, readers>>,
         \A c \in Cpu : got[c] # {} => prb'[c] = prb[c]
  PROVE  HoldersCompatible' /\ LockWordsMatch'
<1>1. HoldersCompatible'
  BY DEF HoldersCompatible, Exclusive
<1>2. ASSUME NEW g \in Global PROVE SharedHolders(g)' = SharedHolders(g)
  BY DEF SharedHolders, Exclusive
<1>3. LockWordsMatch'
  BY <1>2 DEF LockWordsMatch, Exclusive
<1> QED BY <1>1, <1>3

\* A lock has finitely many readers, so they can be counted.
LEMMA SharedFinite ==
  ASSUME NEW g
  PROVE  IsFiniteSet(SharedHolders(g))
BY ConstantsAssumption, FS_Subset DEF SharedHolders

(* One more or one fewer shared holder is one more or one fewer reader. *)
LEMMA CountMoves ==
  ASSUME NEW S, NEW T, NEW c, IsFiniteSet(S)
  PROVE  /\ c \notin S /\ T = S \cup {c} => Cardinality(T) = Cardinality(S) + 1
         /\ c \in S /\ T = S \ {c} => Cardinality(T) = Cardinality(S) - 1
BY FS_AddElement, FS_RemoveElement

\* A trylock succeeds only beside compatible holders, and the lock word counts
\* the new one.
LEMMA AcquirePreserves ==
  ASSUME LockInv, NEW c \in Cpu, Acquire(c)
  PROVE  LockInv'
<1> USE DEF LockInv
<1>1. PICK g \in Wanted(c) :
        /\ IsFirst(g, Wanted(c))
        /\ CanTake(prb[c], g)
        /\ Take(prb[c], g)
        /\ got' = [got EXCEPT ![c] = @ \cup {g}]
  BY DEF Acquire
<1>2. pc[c] = "lock" /\ pc' = pc /\ prb' = prb /\ UNCHANGED <<retries, hits, ran, skipped_count>>
  BY DEF Acquire
<1>3. g \in Global /\ g \in LockSet(prb[c]) /\ g \notin got[c]
  BY <1>1 DEF Wanted, LockSet
<1>4. TypeOK'
  <2>1. writer' \in [Global -> BOOLEAN] /\ readers' \in [Global -> Int]
    <3>1. CASE Exclusive(prb[c], g)
      BY <3>1, <1>1, <1>3 DEF TypeOK, Take
    <3>2. CASE ~Exclusive(prb[c], g)
      BY <3>2, <1>1, <1>3 DEF TypeOK, Take
    <3> QED BY <3>1, <3>2
  <2>2. got' \in [Cpu -> SUBSET Global]
    BY <1>1, <1>3 DEF TypeOK
  <2> QED BY <2>1, <2>2, <1>2 DEF TypeOK
<1>5. HeldByPc'
  BY <1>1, <1>2, <1>3 DEF HeldByPc, TypeOK, LockSet, Exclusive, Shared, WrittenUnderLocks
<1>6. ASSUME NEW d \in Cpu, d # c, g \in got[d]
      PROVE  ~Exclusive(prb[c], g) /\ ~Exclusive(prb[d], g)
  <2>1. ~writer[g] /\ (Exclusive(prb[c], g) => readers[g] = 0)
    BY <1>1 DEF CanTake
  <2>2. ~Exclusive(prb[d], g)
    BY <2>1, <1>3, <1>6 DEF LockWordsMatch
  <2>3. d \in SharedHolders(g)
    BY <2>2, <1>6 DEF SharedHolders
  <2>4. Cardinality(SharedHolders(g)) # 0
    BY <2>3, SharedFinite, FS_EmptySet
  <2> QED BY <2>1, <2>2, <2>4, <1>3 DEF LockWordsMatch
<1>7. HoldersCompatible'
  BY <1>1, <1>2, <1>3, <1>6 DEF HoldersCompatible, TypeOK, Exclusive
<1>8. LockWordsMatch'
  <2> SUFFICES ASSUME NEW k \in Global
               PROVE  /\ readers'[k] = Cardinality(SharedHolders(k)')
                      /\ writer'[k] <=> \E d \in Cpu : k \in got'[d] /\ Exclusive(prb[d], k)
    BY <1>2 DEF LockWordsMatch, Exclusive
  <2>1. CASE k # g
    <3>1. SharedHolders(k)' = SharedHolders(k)
      BY <2>1, <1>1, <1>2 DEF SharedHolders, TypeOK, Exclusive
    <3>2. readers'[k] = readers[k] /\ writer'[k] = writer[k]
      BY <2>1, <1>1, <1>3 DEF Take, TypeOK
    <3> QED BY <2>1, <1>1, <3>1, <3>2 DEF LockWordsMatch, TypeOK
  <2>2. CASE k = g /\ Exclusive(prb[c], g)
    <3>1. SharedHolders(g)' = SharedHolders(g)
      BY <2>2, <1>1, <1>2 DEF SharedHolders, TypeOK, Exclusive
    <3>2. readers' = readers /\ writer'[g] = TRUE
      BY <2>2, <1>1, <1>3 DEF Take, TypeOK
    <3>3. g \in got'[c]
      BY <1>1 DEF TypeOK
    <3> QED BY <2>2, <3>1, <3>2, <3>3, <1>3 DEF LockWordsMatch
  <2>3. CASE k = g /\ ~Exclusive(prb[c], g)
    <3>1. SharedHolders(g)' = SharedHolders(g) \cup {c}
      BY <2>3, <1>1, <1>2 DEF SharedHolders, TypeOK, Exclusive
    <3>2. c \notin SharedHolders(g)
      BY <1>3 DEF SharedHolders
    <3>3. Cardinality(SharedHolders(g)') = Cardinality(SharedHolders(g)) + 1
      BY <3>1, <3>2, SharedFinite, CountMoves
    <3>4. readers'[g] = readers[g] + 1 /\ writer' = writer
      BY <2>3, <1>1, <1>3 DEF Take, TypeOK
    <3>5. ~writer[g]
      BY <2>3, <1>1 DEF CanTake
    <3>6. \A d \in Cpu : g \in got'[d] => ~Exclusive(prb[d], g)
      BY <2>3, <3>5, <1>1, <1>3 DEF LockWordsMatch, TypeOK
    <3> QED BY <2>3, <3>3, <3>4, <3>5, <3>6, <1>3 DEF LockWordsMatch
  <2> QED BY <2>1, <2>2, <2>3
<1> QED BY <1>4, <1>5, <1>7, <1>8

\* An unlock takes one holder off the lock word, of a lock that is held.
LEMMA UnlockPreserves ==
  ASSUME LockInv, NEW c \in Cpu, Unlock(c)
  PROVE  LockInv'
<1> USE DEF LockInv
<1>1. PICK g \in got[c] :
        /\ IsLast(g, got[c])
        /\ Release(prb[c], g)
        /\ got' = [got EXCEPT ![c] = @ \ {g}]
  BY DEF Unlock
<1>2. pc[c] = "unlock" /\ pc' = pc /\ prb' = prb /\ UNCHANGED <<retries, hits, ran, skipped_count>>
  BY DEF Unlock
<1>3. g \in Global
  BY <1>1 DEF TypeOK
<1>4. TypeOK'
  <2>1. writer' \in [Global -> BOOLEAN] /\ readers' \in [Global -> Int]
    <3>1. CASE Exclusive(prb[c], g)
      BY <3>1, <1>1, <1>3 DEF TypeOK, Release
    <3>2. CASE ~Exclusive(prb[c], g)
      BY <3>2, <1>1, <1>3 DEF TypeOK, Release
    <3> QED BY <3>1, <3>2
  <2>2. got' \in [Cpu -> SUBSET Global]
    BY <1>1 DEF TypeOK
  <2> QED BY <2>1, <2>2, <1>2 DEF TypeOK
<1>5. HeldByPc'
  BY <1>1, <1>2 DEF HeldByPc, TypeOK, LockSet, Exclusive, Shared, WrittenUnderLocks
<1>6. HoldersCompatible'
  BY <1>1, <1>2 DEF HoldersCompatible, TypeOK, Exclusive
<1>7. LockWordsMatch'
  <2> SUFFICES ASSUME NEW k \in Global
               PROVE  /\ readers'[k] = Cardinality(SharedHolders(k)')
                      /\ writer'[k] <=> \E d \in Cpu : k \in got'[d] /\ Exclusive(prb[d], k)
    BY <1>2 DEF LockWordsMatch, Exclusive
  <2>1. CASE k # g
    <3>1. SharedHolders(k)' = SharedHolders(k)
      BY <2>1, <1>1, <1>2 DEF SharedHolders, TypeOK, Exclusive
    <3>2. readers'[k] = readers[k] /\ writer'[k] = writer[k]
      BY <2>1, <1>1, <1>3 DEF Release, TypeOK
    <3> QED BY <2>1, <1>1, <3>1, <3>2 DEF LockWordsMatch, TypeOK
  <2>2. CASE k = g /\ Exclusive(prb[c], g)
    <3>1. SharedHolders(g)' = SharedHolders(g)
      BY <2>2, <1>1, <1>2 DEF SharedHolders, TypeOK, Exclusive
    <3>2. readers' = readers /\ writer'[g] = FALSE
      BY <2>2, <1>1, <1>3 DEF Release, TypeOK
    <3>3. \A d \in Cpu : g \notin got'[d]
      BY <2>2, <1>1, <1>3 DEF HoldersCompatible, TypeOK
    <3> QED BY <2>2, <3>1, <3>2, <3>3, <1>3 DEF LockWordsMatch
  <2>3. CASE k = g /\ ~Exclusive(prb[c], g)
    <3>1. SharedHolders(g)' = SharedHolders(g) \ {c}
      BY <2>3, <1>1, <1>2 DEF SharedHolders, TypeOK, Exclusive
    <3>2. c \in SharedHolders(g)
      BY <2>3, <1>1 DEF SharedHolders
    <3>3. Cardinality(SharedHolders(g)') = Cardinality(SharedHolders(g)) - 1
      BY <3>1, <3>2, SharedFinite, CountMoves
    <3>4. readers'[g] = readers[g] - 1 /\ writer' = writer
      BY <2>3, <1>1, <1>3 DEF Release, TypeOK
    <3>5. \A d \in Cpu : g \in got[d] /\ Exclusive(prb[d], g)
                           <=> g \in got'[d] /\ Exclusive(prb[d], g)
      BY <2>3, <1>1 DEF TypeOK
    <3> QED BY <2>3, <3>3, <3>4, <3>5, <1>3 DEF LockWordsMatch
  <2> QED BY <2>1, <2>2, <2>3
<1> QED BY <1>4, <1>5, <1>6, <1>7

(* The steps that move no lock. *)
LEMMA OtherStepsPreserve ==
  ASSUME LockInv, NEW c \in Cpu,
         \/ \E p \in Locking : Enter(c, p)
         \/ Retry(c)
         \/ Skip(c)
         \/ EnterBody(c)
         \/ LeaveBody(c)
         \/ Leave(c)
  PROVE  LockInv'
<1> USE DEF LockInv
<1>1. UNCHANGED <<got, writer, readers>>
  BY DEF Enter, Retry, Skip, EnterBody, LeaveBody, Leave
<1>2. \A d \in Cpu : got[d] # {} => prb'[d] = prb[d]
  BY DEF Enter, Retry, Skip, EnterBody, LeaveBody, Leave, HeldByPc, TypeOK
<1>3. HoldersCompatible' /\ LockWordsMatch'
  BY <1>1, <1>2, NoLockMoves
<1>4. ASSUME NEW p \in Locking, Enter(c, p) PROVE TypeOK' /\ HeldByPc'
  BY <1>4, ConstantsAssumption
  DEF Enter, TypeOK, HeldByPc, LockSet, Exclusive, Shared, WrittenUnderLocks
<1>5. ASSUME Retry(c) \/ Skip(c) PROVE TypeOK' /\ HeldByPc'
  <2>1. retries' \in [Cpu -> 0 .. MAXTRYLOCK + 1]
    <3>1. retries[c] + 1 \in 0 .. MAXTRYLOCK + 1
      BY <1>5, ConstantsAssumption DEF Retry, Skip, TypeOK, HeldByPc
    <3> QED BY <1>5, <3>1 DEF Retry, Skip, TypeOK
  <2>2. TypeOK'
    <3>1. skipped_count' \in Nat
      BY <1>5 DEF Retry, Skip, TypeOK
    <3>2. pc' \in [Cpu -> {"idle", "lock", "body", "unlock"}]
      BY <1>5 DEF Retry, Skip, TypeOK
    <3> QED BY <1>5, <2>1, <3>1, <3>2 DEF Retry, Skip, TypeOK
  <2>3. HeldByPc'
    <3>1. CASE Retry(c)
      BY <3>1, ConstantsAssumption
      DEF Retry, TypeOK, HeldByPc, LockSet, Exclusive, Shared, WrittenUnderLocks
    <3>2. CASE Skip(c)
      BY <3>2
      DEF Skip, TypeOK, HeldByPc, LockSet, Exclusive, Shared, WrittenUnderLocks
    <3> QED BY <1>5, <3>1, <3>2
  <2> QED BY <2>2, <2>3
<1>6. ASSUME EnterBody(c) PROVE TypeOK' /\ HeldByPc'
  BY <1>6
  DEF EnterBody, TypeOK, HeldByPc, Wanted, LockSet, Exclusive, Shared, WrittenUnderLocks
<1>7. ASSUME LeaveBody(c) \/ Leave(c) PROVE TypeOK' /\ HeldByPc'
  <2>1. pc' \in [Cpu -> {"idle", "lock", "body", "unlock"}]
    BY <1>7 DEF LeaveBody, Leave, TypeOK
  <2>2. TypeOK'
    BY <1>7, <2>1 DEF LeaveBody, Leave, TypeOK
  <2>3. HeldByPc'
    <3>1. CASE LeaveBody(c)
      BY <3>1
      DEF LeaveBody, TypeOK, HeldByPc, LockSet, Exclusive, Shared, WrittenUnderLocks
    <3>2. CASE Leave(c)
      BY <3>2
      DEF Leave, TypeOK, HeldByPc, LockSet, Exclusive, Shared, WrittenUnderLocks
    <3> QED BY <1>7, <3>1, <3>2
  <2> QED BY <2>2, <2>3
<1> QED BY <1>3, <1>4, <1>5, <1>6, <1>7

\* Every step of every handler keeps the invariant.
LEMMA NextPreservesInv == LockInv /\ [Next]_vars => LockInv'
<1> SUFFICES ASSUME LockInv, [Next]_vars PROVE LockInv'
  OBVIOUS
<1>1. CASE Next
  <2>1. PICK c \in Cpu :
          \/ \E p \in Locking : Enter(c, p)
          \/ Acquire(c)
          \/ Retry(c)
          \/ Skip(c)
          \/ EnterBody(c)
          \/ LeaveBody(c)
          \/ Unlock(c)
          \/ Leave(c)
    BY <1>1 DEF Next
  <2> QED BY <2>1, AcquirePreserves, UnlockPreserves, OtherStepsPreserve
<1>2. CASE UNCHANGED vars
  <2>1. HoldersCompatible' /\ LockWordsMatch'
    BY <1>2, NoLockMoves DEF vars, LockInv
  <2>2. TypeOK'
    BY <1>2 DEF vars, LockInv, TypeOK
  <2>3. HeldByPc'
    BY <1>2 DEF vars, LockInv, HeldByPc, LockSet, Exclusive, Shared, WrittenUnderLocks
  <2> QED BY <2>1, <2>2, <2>3 DEF LockInv
<1> QED BY <1>1, <1>2

-----------------------------------------------------------------------------
(* LockInv holds of every behaviour of stp_lock_probe and stp_unlock_probe. *)
THEOREM LockInvariant == Spec => []LockInv
<1> QED BY InitEstablishesInv, NextPreservesInv, PTL DEF Spec

(* The variables of probe_lock.h keep their types. *)
THEOREM TypeCorrect == Spec => []TypeOK
<1>1. LockInv => TypeOK
  BY DEF LockInv
<1> QED BY <1>1, LockInvariant, PTL

(* The lock words count exactly the handlers that passed them, on the normal
   path and on the skip path of stp_lock_probe. *)
THEOREM LockWordsExact == Spec => []LockWordsMatch
<1>1. LockInv => LockWordsMatch
  BY DEF LockInv
<1> QED BY <1>1, LockInvariant, PTL

(* The selection of emit_lock_decls, with its flipped statistics and its
   unlocked read-mostly globals, admits no two conflicting bodies at once,
   for all sets of CPUs, probes and globals. *)
THEOREM DataRaceFreedom == Spec => []NoDataRace
<1> QED BY InvImpliesNoDataRace, LockInvariant, PTL

-----------------------------------------------------------------------------
(* The refinement of AtomicProbes. *)

(* What a step does to the abstract place of the handlers: only that of the
   handler that steps can change. *)
LEMMA PlaceOfOne ==
  ASSUME TypeOK, NEW c \in Cpu, NEW new,
         pc' = [pc EXCEPT ![c] = new]
  PROVE  [d \in Cpu |-> At(d)]' = [[d \in Cpu |-> At(d)] EXCEPT ![c] = At(c)']
BY DEF At, TypeOK

\* Trylocks, retries and unlocks leave the handler at its abstract place.
LEMMA PlaceUnchanged ==
  ASSUME pc' = pc
  PROVE  [d \in Cpu |-> At(d)]' = [d \in Cpu |-> At(d)]
BY DEF At

(* The abstract guard of Begin: no conflicting body is running. *)
LEMMA BodiesApart ==
  ASSUME LockInv, LockInv', NEW c \in Cpu, EnterBody(c)
  PROVE  \A d \in Cpu \ {c} : At(d) = "in" => <<prb[c], prb[d]>> \notin Conflicts
<1> SUFFICES ASSUME NEW d \in Cpu, d # c, At(d) = "in",
                    <<prb[c], prb[d]>> \in Conflicts
             PROVE  FALSE
  OBVIOUS
<1>1. pc[d] = "body"
  BY DEF At
<1>2. pc'[c] = "body" /\ pc'[d] = "body" /\ prb' = prb
  BY <1>1 DEF EnterBody, LockInv, TypeOK
<1>3. Conflict(prb[c], prb[d])
  BY DEF Conflicts
<1>4. Conflict(prb[c], prb[d])'
  BY <1>2, <1>3 DEF Conflict, Accesses
<1>5. LockInv' => NoDataRace'
  BY InvImpliesNoDataRace, PTL
<1> QED BY <1>2, <1>4, <1>5 DEF NoDataRace

\* Every step of the lock walk is a step of the abstract probes, or none.
LEMMA StepRefines ==
  ASSUME LockInv, LockInv', [Next]_vars
  PROVE  [Atomic!Next]_(Atomic!vars)
<1> DEFINE at == [d \in Cpu |-> At(d)]
<1> USE DEF LockInv
<1>1. ASSUME NEW c \in Cpu, NEW p \in Locking, Enter(c, p) PROVE Atomic!Hit(c, p)
  <2>1. at' = [at EXCEPT ![c] = At(c)']
    BY <1>1, PlaceOfOne DEF Enter
  <2>2. At(c) = "out" /\ At(c)' = "waiting"
    BY <1>1 DEF Enter, At, TypeOK
  <2> QED BY <1>1, <2>1, <2>2 DEF Enter, Atomic!Hit
<1>2. ASSUME NEW c \in Cpu, Acquire(c) \/ Retry(c) \/ Unlock(c)
      PROVE  UNCHANGED Atomic!vars
  <2>1. pc' = pc
    BY <1>2 DEF Acquire, Retry, Unlock
  <2>2. at' = at
    BY <2>1, PlaceUnchanged
  <2> QED BY <1>2, <2>2 DEF Acquire, Retry, Unlock, Atomic!vars
<1>3. ASSUME NEW c \in Cpu, Skip(c) PROVE Atomic!Drop(c)
  <2>1. at' = [at EXCEPT ![c] = At(c)']
    BY <1>3, PlaceOfOne DEF Skip
  <2>2. At(c) = "waiting" /\ At(c)' = "out"
    BY <1>3 DEF Skip, At, TypeOK
  <2> QED BY <1>3, <2>1, <2>2 DEF Skip, Atomic!Drop
<1>4. ASSUME NEW c \in Cpu, EnterBody(c) PROVE Atomic!Begin(c)
  <2>1. at' = [at EXCEPT ![c] = At(c)']
    BY <1>4, PlaceOfOne DEF EnterBody
  <2>2. At(c) = "waiting" /\ At(c)' = "in"
    BY <1>4 DEF EnterBody, At, TypeOK
  <2>3. \A d \in Cpu \ {c} : at[d] = "in" => <<prb[c], prb[d]>> \notin Conflicts
    BY <1>4, BodiesApart
  <2> QED BY <1>4, <2>1, <2>2, <2>3 DEF EnterBody, Atomic!Begin
<1>5. ASSUME NEW c \in Cpu, LeaveBody(c) PROVE Atomic!End(c)
  <2>1. at' = [at EXCEPT ![c] = At(c)']
    BY <1>5, PlaceOfOne DEF LeaveBody
  <2>2. At(c) = "in" /\ At(c)' = "out"
    BY <1>5 DEF LeaveBody, At, TypeOK
  <2> QED BY <1>5, <2>1, <2>2 DEF LeaveBody, Atomic!End
<1>6. ASSUME NEW c \in Cpu, Leave(c) PROVE UNCHANGED Atomic!vars
  <2>1. at' = [at EXCEPT ![c] = At(c)']
    BY <1>6, PlaceOfOne DEF Leave
  <2>2. At(c) = "out" /\ At(c)' = "out"
    BY <1>6 DEF Leave, At, TypeOK
  <2>3. at' = at
    BY <2>1, <2>2
  <2> QED BY <1>6, <2>3 DEF Leave, Atomic!vars
<1>7. ASSUME UNCHANGED vars PROVE UNCHANGED Atomic!vars
  <2>1. at' = at
    BY <1>7, PlaceUnchanged DEF vars
  <2> QED BY <1>7, <2>1 DEF vars, Atomic!vars
<1> QED BY <1>1, <1>2, <1>3, <1>4, <1>5, <1>6, <1>7 DEF Next, Atomic!Next

(* stp_lock_probe and stp_unlock_probe, with their trylock loops, their skip
   path and the locks the translator leaves out, implement probes that run
   apart from conflicting ones or are dropped whole and counted, for all sets
   of CPUs, probes and globals. *)
THEOREM Refinement == Spec => ImplementsAtomicProbes
<1>1. Init => Atomic!Init
  BY ConstantsAssumption DEF Init, Atomic!Init, At
<1>2. LockInv /\ LockInv' /\ [Next]_vars => [Atomic!Next]_(Atomic!vars)
  BY StepRefines
<1> QED
  BY <1>1, <1>2, LockInvariant, PTL DEF Spec, ImplementsAtomicProbes, Atomic!Spec
=============================================================================
