----------------------------- MODULE ProbeLock -----------------------------
(***************************************************************************)
(* The locks a generated probe handler takes around its body.              *)
(*                                                                         *)
(* The translator decides per handler which global variables are locked,   *)
(* and in which mode (c_unparser::emit_lock_decls).  The runtime walks     *)
(* that array with trylock calls (stp_lock_probe), gives up after          *)
(* MAXTRYLOCK failed attempts in total, and walks it backwards to unlock   *)
(* (stp_unlock_probe).                                                     *)
(***************************************************************************)
EXTENDS Integers, FiniteSets

CONSTANTS
  Cpu,        \* a probe handler runs on a CPU, at most one per CPU
  NGlobals,   \* session->globals has NGlobals elements
  Stats,      \* the globals of type pe_stats
  Probe,      \* the probes of the session
  Locking,    \* those whose needs_global_locks() is true
  Read,       \* Read[p]: the globals the body of p reads
  Written,    \* Written[p]: the globals the body of p writes
  MAXTRYLOCK, \* failed attempts a handler may make, over all its locks
  MaxHits     \* bound on the number of probe hits of a behaviour

Global == 1 .. NGlobals

ASSUME ConstantsAssumption ==
  /\ IsFiniteSet(Cpu)
  /\ NGlobals \in Nat
  /\ Stats \subseteq Global
  /\ Locking \subseteq Probe
  /\ Locking # {}
  /\ Read \in [Probe -> SUBSET Global]
  /\ Written \in [Probe -> SUBSET Global]
  /\ MAXTRYLOCK \in Nat
  /\ MaxHits \in Nat

VARIABLES
  pc,            \* where the handler on each CPU is
  prb,           \* the probe it runs
  got,           \* the prefix of its locks[] array it holds, as a set
  retries,       \* failed attempts so far
  writer,        \* writer[g]: the rwlock of g is held exclusively
  readers,       \* readers[g]: how many hold it shared
  hits,          \* probe hits so far
  ran,           \* bodies entered so far
  skipped_count  \* the runtime's counter of skipped probes

vars == <<pc, prb, got, retries, writer, readers, hits, ran, skipped_count>>

-----------------------------------------------------------------------------
(* What the translator emits for probe p. *)

(* vcv_needs_global_locks.written: what the probes that take locks write *)
WrittenUnderLocks == UNION {Written[q] : q \in Locking}

(* mutant: the modes of statistics are not flipped *)
ExclusiveUnflipped(p, g) == g \in Written[p]

(* read_p and write_p, flipped for statistics that are only read or only
   written: "<<<" is per-cpu and shares, extraction aggregates and excludes *)
Exclusive(p, g) ==
  IF g \in Stats THEN g \in Read[p] ELSE g \in Written[p]

Shared(p, g) ==
  ~Exclusive(p, g) /\ (g \in Read[p] \/ g \in Written[p])

(* The locks[] array, in the order of session->globals.  A global no
   lock-taking probe writes is read without a lock. *)
LockSet(p) ==
  {g \in Global : Exclusive(p, g) \/ (Shared(p, g) /\ g \in WrittenUnderLocks)}

-----------------------------------------------------------------------------
(* write_trylock and read_trylock *)
CanTake(p, g) ==
  IF Exclusive(p, g) THEN ~writer[g] /\ readers[g] = 0 ELSE ~writer[g]

Wanted(c) == LockSet(prb[c]) \ got[c]

IsFirst(g, S) == g \in S /\ \A k \in S : g <= k

IsLast(g, S) == g \in S /\ \A k \in S : k <= g

Take(p, g) ==
  IF Exclusive(p, g)
  THEN writer' = [writer EXCEPT ![g] = TRUE] /\ UNCHANGED readers
  ELSE readers' = [readers EXCEPT ![g] = @ + 1] /\ UNCHANGED writer

Release(p, g) ==
  IF Exclusive(p, g)
  THEN writer' = [writer EXCEPT ![g] = FALSE] /\ UNCHANGED readers
  ELSE readers' = [readers EXCEPT ![g] = @ - 1] /\ UNCHANGED writer

-----------------------------------------------------------------------------
Init ==
  /\ pc = [c \in Cpu |-> "idle"]
  /\ prb = [c \in Cpu |-> CHOOSE p \in Locking : TRUE]  \* no probe yet
  /\ got = [c \in Cpu |-> {}]
  /\ retries = [c \in Cpu |-> 0]
  /\ writer = [g \in Global |-> FALSE]
  /\ readers = [g \in Global |-> 0]
  /\ hits = 0
  /\ ran = 0
  /\ skipped_count = 0

(* mutant: the attempts are not counted *)
RetryUncounted(c) ==
  /\ pc[c] = "lock"
  /\ \E g \in Wanted(c) : IsFirst(g, Wanted(c)) /\ ~CanTake(prb[c], g)
  /\ UNCHANGED vars

(* mutant: "skip" returns with the locks taken so far *)
SkipHolding(c) ==
  /\ pc[c] = "lock"
  /\ \E g \in Wanted(c) : IsFirst(g, Wanted(c)) /\ ~CanTake(prb[c], g)
  /\ retries[c] + 1 > MAXTRYLOCK
  /\ retries' = [retries EXCEPT ![c] = @ + 1]
  /\ skipped_count' = skipped_count + 1
  /\ pc' = [pc EXCEPT ![c] = "idle"]
  /\ got' = [got EXCEPT ![c] = {}]
  /\ UNCHANGED <<prb, writer, readers, hits, ran>>

(* mutant: the handler that gave up counts as skipped, and runs its body *)
SkipRuns(c) ==
  /\ pc[c] = "lock"
  /\ \E g \in Wanted(c) : IsFirst(g, Wanted(c)) /\ ~CanTake(prb[c], g)
  /\ retries[c] + 1 > MAXTRYLOCK
  /\ retries' = [retries EXCEPT ![c] = @ + 1]
  /\ skipped_count' = skipped_count + 1
  /\ pc' = [pc EXCEPT ![c] = "body"]
  /\ UNCHANGED <<prb, got, writer, readers, hits, ran>>

(* a probe hits: stp_lock_probe is called *)
Enter(c, p) ==
  /\ pc[c] = "idle"
  /\ hits < MaxHits
  /\ pc' = [pc EXCEPT ![c] = "lock"]
  /\ prb' = [prb EXCEPT ![c] = p]
  /\ retries' = [retries EXCEPT ![c] = 0]
  /\ hits' = hits + 1
  /\ UNCHANGED <<got, writer, readers, ran, skipped_count>>

(* the trylock on locks[i] succeeds *)
Acquire(c) ==
  /\ pc[c] = "lock"
  /\ \E g \in Wanted(c) :
       /\ IsFirst(g, Wanted(c))
       /\ CanTake(prb[c], g)
       /\ Take(prb[c], g)
       /\ got' = [got EXCEPT ![c] = @ \cup {g}]
  /\ UNCHANGED <<pc, prb, retries, hits, ran, skipped_count>>

(* it fails, and ++retries is still within MAXTRYLOCK *)
Retry(c) ==
  /\ pc[c] = "lock"
  /\ \E g \in Wanted(c) : IsFirst(g, Wanted(c)) /\ ~CanTake(prb[c], g)
  /\ retries[c] + 1 <= MAXTRYLOCK
  /\ retries' = [retries EXCEPT ![c] = @ + 1]
  /\ UNCHANGED <<pc, prb, got, writer, readers, hits, ran, skipped_count>>

(* it fails once too often: goto skip *)
Skip(c) ==
  /\ pc[c] = "lock"
  /\ \E g \in Wanted(c) : IsFirst(g, Wanted(c)) /\ ~CanTake(prb[c], g)
  /\ retries[c] + 1 > MAXTRYLOCK
  /\ retries' = [retries EXCEPT ![c] = @ + 1]
  /\ skipped_count' = skipped_count + 1
  /\ pc' = [pc EXCEPT ![c] = "unlock"]
  /\ UNCHANGED <<prb, got, writer, readers, hits, ran>>

(* every lock is held: stp_lock_probe returns 1 and the body starts *)
EnterBody(c) ==
  /\ pc[c] = "lock"
  /\ Wanted(c) = {}
  /\ pc' = [pc EXCEPT ![c] = "body"]
  /\ ran' = ran + 1
  /\ UNCHANGED <<prb, got, retries, writer, readers, hits, skipped_count>>

(* the body reaches its "out:" label *)
LeaveBody(c) ==
  /\ pc[c] = "body"
  /\ pc' = [pc EXCEPT ![c] = "unlock"]
  /\ UNCHANGED <<prb, got, retries, writer, readers, hits, ran, skipped_count>>

(* one iteration of stp_unlock_probe, last lock first *)
Unlock(c) ==
  /\ pc[c] = "unlock"
  /\ \E g \in got[c] :
       /\ IsLast(g, got[c])
       /\ Release(prb[c], g)
       /\ got' = [got EXCEPT ![c] = @ \ {g}]
  /\ UNCHANGED <<pc, prb, retries, hits, ran, skipped_count>>

Leave(c) ==
  /\ pc[c] = "unlock"
  /\ got[c] = {}
  /\ pc' = [pc EXCEPT ![c] = "idle"]
  /\ UNCHANGED <<prb, got, retries, writer, readers, hits, ran, skipped_count>>

Next ==
  \E c \in Cpu :
    \/ \E p \in Locking : Enter(c, p)
    \/ Acquire(c)
    \/ Retry(c)
    \/ Skip(c)
    \/ EnterBody(c)
    \/ LeaveBody(c)
    \/ Unlock(c)
    \/ Leave(c)

Spec == Init /\ [][Next]_vars

(* A handler runs with preemption or interrupts disabled, so it keeps
   running; its body may not end, and no fairness is assumed of it. *)
LockStep(c) == Acquire(c) \/ Retry(c) \/ Skip(c) \/ EnterBody(c)

FairSpec == Spec /\ \A c \in Cpu : WF_vars(LockStep(c))

-----------------------------------------------------------------------------
(* The state has the shape of the C variables it models. *)
TypeOK ==
  /\ pc \in [Cpu -> {"idle", "lock", "body", "unlock"}]
  /\ prb \in [Cpu -> Locking]
  /\ got \in [Cpu -> SUBSET Global]
  /\ retries \in [Cpu -> 0 .. MAXTRYLOCK + 1]
  /\ writer \in [Global -> BOOLEAN]
  /\ readers \in [Global -> Int]
  /\ hits \in Nat
  /\ ran \in Nat
  /\ skipped_count \in Nat

Accesses(p, g) == g \in Read[p] \/ g \in Written[p]

(* Two bodies may not run together: one writes a global the other uses, or
   one extracts from a statistic the other uses. *)
Conflict(p, q) ==
  \E g \in Global :
    /\ Accesses(p, g) /\ Accesses(q, g)
    /\ IF g \in Stats THEN g \in Read[p] \/ g \in Read[q]
       ELSE g \in Written[p] \/ g \in Written[q]

(* Two handlers inside their bodies never access one global in conflicting
   ways, although emit_lock_decls leaves locks out and shares others. *)
NoDataRace ==
  \A c, d \in Cpu :
    c # d /\ pc[c] = "body" /\ pc[d] = "body" => ~Conflict(prb[c], prb[d])

(* The specification of probes without locks that this one implements: a
   handler has hit while it tries for its locks, and its skip path and its
   unlocking are already outside. *)
At(c) == IF pc[c] = "lock" THEN "waiting"
         ELSE IF pc[c] = "body" THEN "in" ELSE "out"

Conflicts == {pq \in Locking \X Locking : Conflict(pq[1], pq[2])}

Atomic == INSTANCE AtomicProbes WITH
            Probe <- Locking, at <- [c \in Cpu |-> At(c)], probe <- prb,
            begun <- ran, dropped <- skipped_count

(* Whatever stp_lock_probe does step by step, a script sees probes that run
   apart from conflicting ones or are dropped whole and counted. *)
ImplementsAtomicProbes == Atomic!Spec

SharedHolders(g) == {c \in Cpu : g \in got[c] /\ ~Exclusive(prb[c], g)}

(* The lock words count exactly the handlers that have walked past them, on
   the normal path and on the skip path of stp_lock_probe: no lock is leaked
   by a skipped handler and none is released twice. *)
LockWordsMatch ==
  \A g \in Global :
    /\ readers[g] = Cardinality(SharedHolders(g))
    /\ writer[g] <=> \E c \in Cpu : g \in got[c] /\ Exclusive(prb[c], g)

(* A handler waiting for locks stops waiting, in its body or by skipping,
   even if no other handler ever leaves its body: handlers cannot deadlock. *)
NeverStuck == \A c \in Cpu : pc[c] = "lock" ~> pc[c] # "lock"
=============================================================================
