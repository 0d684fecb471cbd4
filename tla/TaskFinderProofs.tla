-------------------------- MODULE TaskFinderProofs --------------------------
(***************************************************************************)
(* The task finder for any finite sets of threads and targets and any      *)
(* number of events.                                                       *)
(*                                                                         *)
(* stap_stop_task_finder waits for every callback that counted itself: the *)
(* invariant CountExact says that __stp_inuse_count is the number of       *)
(* callbacks between __stp_tf_handler_start and __stp_tf_handler_end.      *)
(*                                                                         *)
(* Then the ground for module TaskFinderTheorems: what selecting, removing *)
(* and attaching engines does to a sequence of them, the invariant         *)
(* FinderInv, its part about types, and what the steps of a report make of *)
(* its part about one thread.                                              *)
(***************************************************************************)
EXTENDS TaskFinder, FiniteSetTheorems, SequenceTheorems, WellFoundedInduction, TLAPS

Steps == {"next", "checked", "working", "returning"}

\* What a proof needs to know of a report: that it has a step, and which.
Events ==
    /\ DOMAIN ev = Thread
    /\ ev = [t \in Thread |-> ev[t]]
    /\ \A t \in Thread : "step" \in DOMAIN ev[t] /\ ev[t].step \in Steps

\* The callbacks that have counted themselves in and not out.
Counted == {t \in Thread : ev[t].step = "working"}

\* __stp_inuse_count is exactly the number of these callbacks.
CountExact == Events /\ inuse = Cardinality(Counted)

\* A step that moves the report of one thread, neither from nor to
\* "working", leaves the set of counted callbacks alone.
LEMMA OtherStep ==
    ASSUME Events, NEW t \in Thread, ev[t].step # "working",
           NEW e, "step" \in DOMAIN e, e.step \in Steps \ {"working"},
           ev' = [ev EXCEPT ![t] = e]
    PROVE  Events' /\ Counted' = Counted
BY DEF Events, Counted, Steps

\* The report of an event begins in a thread that had none: es are the
\* engines concerned, l their ops.
LEMMA ReportSilent ==
    ASSUME Events, NEW t \in Thread, ev[t] = NoEvent,
           NEW k, NEW es, NEW l, NEW c,
           ev' = IF es = <<>> THEN ev
                 ELSE [ev EXCEPT ![t] = [kind |-> k, left |-> l,
                                         step |-> "next", child |-> c]]
    PROVE  Events' /\ Counted' = Counted
<1> DEFINE e == [kind |-> k, left |-> l, step |-> "next", child |-> c]
<1>1. ev' = IF es = <<>> THEN ev ELSE [ev EXCEPT ![t] = e]
  OBVIOUS
<1>2. "step" \in DOMAIN e /\ e.step \in Steps \ {"working"}
  BY DEF Steps
<1>3. ev[t].step # "working"
  BY DEF NoEvent
<1> HIDE DEF e
<1>4. CASE es = <<>>
  BY <1>1, <1>4 DEF Events, Counted
<1>5. CASE es # <<>>
  BY <1>1, <1>2, <1>3, <1>5, OtherStep, Zenon
<1> QED
  BY <1>4, <1>5

\* Over ends the turn of an engine.
LEMMA OverSilent ==
    ASSUME Events, NEW t \in Thread, ev[t].step # "working", Over(t)
    PROVE  Events' /\ Counted' = Counted
<1> DEFINE r == [ev[t] EXCEPT !.left = Tail(ev[t].left), !.step = "next"]
           e == IF Len(ev[t].left) = 1 THEN NoEvent ELSE r
<1>1. "step" \in DOMAIN r /\ r.step = "next"
  BY DEF Events
<1>2. "step" \in DOMAIN NoEvent /\ NoEvent.step = "next"
  BY DEF NoEvent
<1>3. ev' = [ev EXCEPT ![t] = e]
  BY DEF Over
<1> HIDE DEF r
<1>4. "step" \in DOMAIN e /\ e.step = "next"
  BY <1>1, <1>2
<1> HIDE DEF e
<1> QED
  BY <1>3, <1>4, OtherStep, Zenon DEF Steps

\* What threads do leaves the count alone: the reports it begins have not
\* reached a callback.
LEMMA KernelSilent ==
    ASSUME Events, Kernel
    PROVE  Events' /\ Counted' = Counted /\ inuse' = inuse
<1>1. PICK t \in Thread :
        \/ \E c \in Thread : Clone(t, c)
        \/ \E p \in Path : Exec(t, p)
        \/ Die(t)
        \/ \E s \in Syscall : EnterSyscall(t, s)
        \/ LeaveSyscall(t)
        \/ Quiesce(t)
  BY DEF Kernel
<1> DEFINE Shape(k, es, l, c) ==
             ev' = IF es = <<>> THEN ev
                   ELSE [ev EXCEPT ![t] = [kind |-> k, left |-> l,
                                           step |-> "next", child |-> c]]
<1>2. /\ ev[t] = NoEvent
      /\ inuse' = inuse
      /\ \E k, es, l, c : Shape(k, es, l, c)
  <2>1. ASSUME NEW c \in Thread, Clone(t, c)
        PROVE  /\ ev[t] = NoEvent /\ inuse' = inuse
               /\ \E k, es, l, d : Shape(k, es, l, d)
    <3> DEFINE es == Select(engines[t], OfFinder)
    <3>1. Shape("clone", es, [i \in DOMAIN es |-> es[i].ops], c)
      BY <2>1 DEF Clone, Report
    <3> HIDE DEF es, Shape
    <3> QED
      BY <2>1, <3>1 DEF Clone, Happens, Runs
  <2>2. ASSUME NEW p \in Path, Exec(t, p)
        PROVE  /\ ev[t] = NoEvent /\ inuse' = inuse
               /\ \E k, es, l, d : Shape(k, es, l, d)
    <3> DEFINE es == Select(engines[t], OfFinder)
    <3>1. Shape("exec", es, [i \in DOMAIN es |-> es[i].ops], t)
      BY <2>2 DEF Exec, Report
    <3> HIDE DEF es, Shape
    <3> QED
      BY <2>2, <3>1 DEF Exec, Happens, Runs
  <2>3. CASE Die(t)
    <3> DEFINE es == Select(engines[t], Engine)
    <3>1. Shape("death", es, [i \in DOMAIN es |-> es[i].ops], t)
      BY <2>3 DEF Die, Report
    <3> HIDE DEF es, Shape
    <3> QED
      BY <2>3, <3>1 DEF Die, Happens, Runs
  <2>4. ASSUME NEW s \in Syscall, EnterSyscall(t, s)
        PROVE  /\ ev[t] = NoEvent /\ inuse' = inuse
               /\ \E k, es, l, d : Shape(k, es, l, d)
    <3> DEFINE es == Select(engines[t], OfMaps)
    <3>1. Shape("entry", es, [i \in DOMAIN es |-> es[i].ops], t)
      BY <2>4 DEF EnterSyscall, Report
    <3> HIDE DEF es, Shape
    <3> QED
      BY <2>4, <3>1 DEF EnterSyscall, Happens, Runs
  <2>5. CASE LeaveSyscall(t)
    <3> DEFINE es == Select(engines[t], OfMaps)
    <3>1. Shape("exit", es, [i \in DOMAIN es |-> es[i].ops], t)
      BY <2>5 DEF LeaveSyscall, Report
    <3> HIDE DEF es, Shape
    <3> QED
      BY <2>5, <3>1 DEF LeaveSyscall, Runs
  <2>6. CASE Quiesce(t)
    <3> DEFINE es == Select(engines[t], Quiescing)
    <3>1. Shape("quiesce", es, [i \in DOMAIN es |-> es[i].ops], t)
      BY <2>6 DEF Quiesce, Report
    <3> HIDE DEF es, Shape
    <3> QED
      BY <2>6, <3>1 DEF Quiesce, Runs
  <2> HIDE DEF Shape
  <2> QED
    BY <1>1, <2>1, <2>2, <2>3, <2>4, <2>5, <2>6
<1>3. PICK k, es, l, c : Shape(k, es, l, c)
  BY <1>2, Zenon
<1> QED
  BY <1>2, <1>3, ReportSilent, Zenon

\* The set of counted callbacks is finite: at most one per thread.
LEMMA CountedFinite == IsFiniteSet(Counted)
BY FiniteThreads, FS_Subset DEF Counted

\* A callback counts itself in, works and counts itself out, and its other
\* steps leave the count alone.
LEMMA CallbackKeepsCount ==
    ASSUME CountExact, NEW t \in Thread, Callback(t)
    PROVE  CountExact'
<1> USE DEF CountExact
<1>1. CASE PassOver(t)
  <2>1. ev[t].step # "working" /\ Over(t) /\ inuse' = inuse
    BY <1>1 DEF PassOver
  <2> QED
    BY <2>1, OverSilent
<1>2. CASE Check(t)
  <2>1. ev[t].step = "next" /\ inuse' = inuse
    BY <1>2 DEF Check
  <2>2. CASE Over(t)
    BY <2>1, <2>2, OverSilent
  <2>3. CASE ev' = [ev EXCEPT ![t].step = "checked"]
    <3> DEFINE e == [ev[t] EXCEPT !.step = "checked"]
    <3>1. "step" \in DOMAIN e /\ e.step = "checked"
      BY DEF Events
    <3>2. ev' = [ev EXCEPT ![t] = e]
      BY <2>3
    <3> HIDE DEF e
    <3> QED
      BY <2>1, <3>1, <3>2, OtherStep, Zenon DEF Steps
  <2> QED
    BY <1>2, <2>2, <2>3 DEF Check
<1>3. CASE HandlerStart(t)
  <2>1. ev[t].step = "checked" /\ ev' = [ev EXCEPT ![t].step = "working"]
        /\ inuse' = inuse + 1
    BY <1>3 DEF HandlerStart
  <2>2. Events' /\ t \notin Counted /\ Counted' = Counted \cup {t}
    BY <2>1 DEF Events, Counted, Steps
  <2> QED
    BY <2>1, <2>2, CountedFinite, FS_AddElement
<1>4. ASSUME NEW k, Work(t, k) PROVE CountExact'
  <2>1. ev[t].step = "working" /\ ev' = [ev EXCEPT ![t].step = "returning"]
        /\ inuse' = inuse - 1
    BY <1>4 DEF Work, HandlerEnd
  <2>2. Events' /\ t \in Counted /\ Counted' = Counted \ {t}
    BY <2>1 DEF Events, Counted, Steps
  <2> QED
    BY <2>1, <2>2, CountedFinite, FS_RemoveElement, Zenon
<1>5. CASE Return(t)
  <2>1. ev[t].step # "working" /\ Over(t) /\ inuse' = inuse
    BY <1>5 DEF Return
  <2> QED
    BY <2>1, OverSilent
<1> QED
  BY <1>1, <1>2, <1>3, <1>4, <1>5
  DEF Callback, ReportClone, ReportExec, TargetDeath, TargetQuiesce,
      TargetSyscallEntry, TargetSyscallExit

\* The count is exact in every reachable state, whatever the number of
\* threads, targets and events.
THEOREM CountInvariant == Spec => []CountExact
<1>1. Init => CountExact
  <2> SUFFICES ASSUME Init PROVE CountExact
    OBVIOUS
  <2>1. Events /\ Counted = {}
    BY DEF Init, Events, Counted, NoEvent, Steps
  <2> QED
    BY <2>1, FS_EmptySet DEF CountExact, Init
<1>2. CountExact /\ [Next]_vars => CountExact'
  <2> SUFFICES ASSUME CountExact, [Next]_vars PROVE CountExact'
    OBVIOUS
  <2>1. CASE Kernel
    BY <2>1, KernelSilent DEF CountExact
  <2>2. ASSUME NEW t \in Thread, Callback(t) PROVE CountExact'
    BY <2>2, CallbackKeepsCount
  <2>3. CASE Start \/ Stop \/ Driver \/ UNCHANGED vars
    <3>1. ev' = ev /\ inuse' = inuse
      BY <2>3 DEF Start, Stop, Driver, StartVisit, Started, DetachVisit, Detached,
                  CleanupTarget, CleanedUp, Stopped, vars
    <3> QED
      BY <3>1 DEF CountExact, Events, Counted
  <2> QED
    BY <2>1, <2>2, <2>3 DEF Next
<1> QED
  BY <1>1, <1>2, PTL DEF Spec

\* stap_stop_task_finder returns in no step in which a callback is between
\* __stp_tf_handler_start and __stp_tf_handler_end (property StopWaits).
THEOREM StopWaitsForCounted == Spec => StopWaits
<1> DEFINE A == pc # "stopped" /\ pc' = "stopped" =>
                  \A t \in Thread : ev[t].step # "working"
<1>1. CountExact /\ [Next]_vars => [A]_vars
  <2> SUFFICES ASSUME CountExact, [Next]_vars, pc # "stopped", pc' = "stopped"
               PROVE  \A t \in Thread : ev[t].step # "working"
    BY DEF vars
  <2>1. ~ Kernel
    BY DEF Kernel, Clone, Exec, Die, EnterSyscall, LeaveSyscall, Quiesce, module
  <2>2. \A t \in Thread : ~ Callback(t)
    BY DEF Callback, PassOver, Check, HandlerStart, ReportClone, ReportExec,
           TargetDeath, TargetQuiesce, TargetSyscallEntry, TargetSyscallExit,
           Return, module
  <2>3. Stopped
    BY <2>1, <2>2 DEF Next, Start, Stop, Driver, StartVisit, Started, DetachOps,
         DetachVisit, Detached, CleanupTarget, CleanedUp, vars
  <2>4. Cardinality(Counted) = 0
    BY <2>3 DEF Stopped, CountExact
  <2>5. Counted = {}
    BY <2>4, CountedFinite, FS_EmptySet
  <2> QED
    BY <2>5 DEF Counted
<1> QED
  BY <1>1, CountInvariant, PTL DEF Spec, StopWaits

-----------------------------------------------------------------------------
(* Parts of a sequence *)

\* Every nonempty set of numbers has a least one.
LEMMA Least ==
    ASSUME NEW T \in SUBSET Nat, T # {}
    PROVE  \E n \in T : \A k \in T : n <= k
<1> DEFINE R == {p \in Nat \X Nat : p[1] < p[2]}
<1>1. IsWellFoundedOn(R, Nat)
  BY NatLessThanWellFounded DEF OpToRel
<1>2. PICK n \in T : \A k \in T : ~(<<k, n>> \in R)
  BY <1>1, WFMin, Zenon
<1>3. ASSUME NEW k \in T PROVE n <= k
  <2>1. k \in Nat /\ n \in Nat /\ (k < n => <<k, n>> \in R)
    OBVIOUS
  <2>2. ~(k < n)
    BY <1>2, <2>1, Zenon
  <2> QED
    BY <2>1, <2>2
<1> QED
  BY <1>3


\* The first m positions hold rank(m) of the positions D.
Rank(D, m) == Cardinality({j \in D : j <= m})

\* Positions are finitely many numbers.
LEMMA Positions ==
    ASSUME NEW n \in Nat, NEW D \in SUBSET (1..n)
    PROVE  /\ IsFiniteSet(D) /\ Cardinality(D) \in Nat
           /\ \A j \in D : j \in Nat /\ 1 <= j /\ j <= n
<1>1. IsFiniteSet(1..n)
  BY FS_Interval
<1>2. IsFiniteSet(D)
  BY <1>1, FS_Subset, Zenon
<1>3. \A j \in 1..n : j \in Nat /\ 1 <= j /\ j <= n
  OBVIOUS
<1> QED
  BY <1>2, <1>3, FS_CardinalityType, Zenon

\* One position more raises the rank by one if it is in D, and not otherwise.
LEMMA RankStep ==
    ASSUME NEW n \in Nat, NEW D \in SUBSET (1..n), NEW m \in 1..n
    PROVE  /\ Rank(D, m) \in Nat /\ Rank(D, m - 1) \in Nat
           /\ m \in D => Rank(D, m) = Rank(D, m - 1) + 1
           /\ m \notin D => Rank(D, m) = Rank(D, m - 1)
<1> DEFINE P == {j \in D : j <= m}
           Q == {j \in D : j <= m - 1}
<1>1. IsFiniteSet(D) /\ \A j \in D : j \in Nat
  BY Positions, Zenon
<1>2. IsFiniteSet(P) /\ IsFiniteSet(Q)
  BY <1>1, FS_Subset, Zenon
<1>3. m \notin Q /\ (m \in D => P = Q \cup {m}) /\ (m \notin D => P = Q)
  <2>1. ~(m <= m - 1) /\ m <= m
    OBVIOUS
  <2>2. \A j \in D : j <= m <=> j <= m - 1 \/ j = m
    BY <1>1
  <2> QED
    BY <2>1, <2>2, Zenon
<1> HIDE DEF P, Q
<1>4. Cardinality(P) \in Nat /\ Cardinality(Q) \in Nat
  BY <1>2, FS_CardinalityType, Zenon
<1>5. m \in D => Cardinality(P) = Cardinality(Q) + 1
  BY <1>2, <1>3, FS_AddElement, Zenon
<1> QED
  BY <1>3, <1>4, <1>5, Zenon DEF P, Q, Rank

\* Ranks number the positions D from 1 to Cardinality(D), each once.
LEMMA Ranks ==
    ASSUME NEW n \in Nat, NEW D \in SUBSET (1..n)
    PROVE  /\ IsFiniteSet(D) /\ Cardinality(D) \in Nat
           /\ \A k \in 1..Cardinality(D) : \E i \in D : Rank(D, i) = k
           /\ \A i \in D : Rank(D, i) \in 1..Cardinality(D)
           /\ \A i, j \in D : Rank(D, i) = Rank(D, j) => i = j
<1>1. /\ IsFiniteSet(D) /\ Cardinality(D) \in Nat
      /\ \A j \in D : j \in Nat /\ 1 <= j /\ j <= n
  BY Positions, Zenon
<1>2. Rank(D, 0) = 0 /\ Rank(D, n) = Cardinality(D)
  <2>1. \A j \in D : ~(j <= 0) /\ j <= n
    BY <1>1
  <2>2. {j \in D : j <= 0} = {} /\ {j \in D : j <= n} = D
    BY <2>1, Zenon
  <2> QED
    BY <2>2, FS_EmptySet, Zenon DEF Rank
<1>3. ASSUME NEW i \in D, NEW j \in D, j < i
      PROVE  Rank(D, j) < Rank(D, i)
  <2> DEFINE P == {h \in D : h <= i}
             Q == {h \in D : h <= j}
  <2>1. IsFiniteSet(P) /\ Q \subseteq P /\ Q # P
    <3>0. i <= i /\ ~(i <= j) /\ \A h \in D : h <= j => h <= i
      BY <1>1, <1>3
    <3>1. Q \subseteq P /\ i \in P /\ i \notin Q /\ P \subseteq D
      BY <3>0, Zenon
    <3> HIDE DEF P, Q
    <3> QED
      BY <1>1, <3>1, FS_Subset, Zenon
  <2> HIDE DEF P, Q
  <2>2. /\ Cardinality(P) \in Nat /\ Cardinality(Q) \in Nat
        /\ Cardinality(Q) <= Cardinality(P) /\ Cardinality(P) # Cardinality(Q)
    BY <2>1, FS_Subset, FS_CardinalityType, Zenon
  <2>3. Cardinality(Q) < Cardinality(P)
    BY <2>2
  <2> QED
    BY <2>3, Zenon DEF P, Q, Rank
<1>4. ASSUME NEW i \in D PROVE Rank(D, i) \in 1..Cardinality(D)
  <2>1. i \in 1..n
    OBVIOUS
  <2>2. Rank(D, i) \in Nat /\ Rank(D, i - 1) \in Nat /\ Rank(D, i) = Rank(D, i - 1) + 1
    BY <2>1, RankStep, Zenon
  <2>3. Rank(D, i) <= Cardinality(D)
    <3>1. {j \in D : j <= i} \subseteq D
      OBVIOUS
    <3> QED
      BY <1>1, <3>1, FS_Subset, Zenon DEF Rank
  <2> QED
    BY <1>1, <2>2, <2>3
<1>5. ASSUME NEW k \in 1..Cardinality(D) PROVE \E i \in D : Rank(D, i) = k
  <2> DEFINE T == {m \in 0..n : Rank(D, m) >= k}
  <2>1. T \in SUBSET Nat /\ n \in T
    BY <1>1, <1>2
  <2>2. PICK m \in T : \A h \in T : m <= h
    BY <2>1, Least, Zenon
  <2>3. m \in 1..n /\ Rank(D, m) >= k /\ m - 1 \in 0..n
    BY <1>1, <1>2
  <2>4. m - 1 \notin T
    BY <2>2, <2>3
  <2>5. ~ (Rank(D, m - 1) >= k)
    BY <2>3, <2>4
  <2> HIDE DEF T
  <2>6. /\ Rank(D, m) \in Nat /\ Rank(D, m - 1) \in Nat
        /\ m \in D => Rank(D, m) = Rank(D, m - 1) + 1
        /\ m \notin D => Rank(D, m) = Rank(D, m - 1)
    BY <2>3, RankStep, Zenon
  <2> QED
    BY <1>1, <2>3, <2>5, <2>6
<1>6. ASSUME NEW i \in D, NEW j \in D, Rank(D, i) = Rank(D, j) PROVE i = j
  <2>1. i \in Nat /\ j \in Nat /\ Rank(D, i) \in Nat
    BY <1>1, <1>4
  <2> QED
    BY <1>3, <1>6, <2>1
<1> QED
  BY <1>1, <1>4, <1>5, <1>6, Zenon

\* What At takes: the elements at positions D, all of them and no others.
LEMMA AtIs ==
    ASSUME NEW A, NEW s \in Seq(A), NEW D \in SUBSET DOMAIN s
    PROVE  /\ At(s, D) \in Seq(A) /\ IsFiniteSet(D) /\ Cardinality(D) \in Nat
           /\ Len(At(s, D)) = Cardinality(D) /\ DOMAIN At(s, D) = 1..Cardinality(D)
           /\ \A k \in DOMAIN At(s, D) : \E i \in D : At(s, D)[k] = s[i]
           /\ \A i \in D : \E k \in DOMAIN At(s, D) : At(s, D)[k] = s[i]
<1> DEFINE n == Len(s)
           c == Cardinality(D)
           nth(k) == CHOOSE i \in D : Rank(D, i) = k
<1>1. n \in Nat /\ DOMAIN s = 1..n
  BY LenProperties, Zenon
<1>2. At(s, D) = [k \in 1..c |-> s[nth(k)]]
  BY Zenon DEF At, Rank
<1> HIDE DEF n
<1>3. /\ IsFiniteSet(D) /\ c \in Nat
      /\ \A k \in 1..c : \E i \in D : Rank(D, i) = k
      /\ \A i \in D : Rank(D, i) \in 1..c
      /\ \A i, j \in D : Rank(D, i) = Rank(D, j) => i = j
  BY <1>1, Ranks, Zenon
<1> HIDE DEF c
<1>4. \A k \in 1..c : nth(k) \in D /\ Rank(D, nth(k)) = k
  BY <1>3, Zenon
<1>5. \A i \in D : nth(Rank(D, i)) = i
  BY <1>3, <1>4, Zenon
<1> HIDE DEF nth
<1>6. \A k \in 1..c : s[nth(k)] \in A
  BY <1>1, <1>4, ElementOfSeq, Zenon DEF n
<1>7. At(s, D) \in [1..c -> A]
  BY <1>2, <1>6, Zenon
<1>8. At(s, D) \in Seq(A) /\ Len(At(s, D)) = c
  <2>1. At(s, D) \in Seq(A)
    BY <1>3, <1>7
  <2>2. DOMAIN At(s, D) = 1..c
    BY <1>7, Zenon
  <2>3. PICK l \in Nat : l = Len(At(s, D)) /\ 1..l = 1..c
    BY <2>1, <2>2, LenProperties, Zenon
  <2>4. l = c
    BY <1>3, <2>3
  <2> QED
    BY <2>1, <2>3, <2>4, Zenon
<1>9. DOMAIN At(s, D) = 1..c /\ \A k \in 1..c : At(s, D)[k] = s[nth(k)]
  BY <1>2, Zenon
<1>10. \A i \in D : \E k \in 1..c : At(s, D)[k] = s[i]
  BY <1>3, <1>5, <1>9, Zenon
<1> QED
  BY <1>3, <1>4, <1>8, <1>9, <1>10, Zenon DEF c

\* Select takes elements of s that are in S.
LEMMA SelectIs ==
    ASSUME NEW A, NEW s \in Seq(A), NEW S
    PROVE  /\ Select(s, S) \in Seq(A)
           /\ \A k \in DOMAIN Select(s, S) :
                Select(s, S)[k] \in S /\ \E i \in DOMAIN s : Select(s, S)[k] = s[i]
<1> DEFINE D == {i \in DOMAIN s : s[i] \in S}
<1>1. Select(s, S) = At(s, D) /\ D \in SUBSET DOMAIN s /\ \A i \in D : s[i] \in S
  BY Zenon DEF Select
<1> HIDE DEF D
<1>2. /\ At(s, D) \in Seq(A)
      /\ \A k \in DOMAIN At(s, D) : \E i \in D : At(s, D)[k] = s[i]
  BY <1>1, AtIs, Zenon
<1> QED
  BY <1>1, <1>2, Zenon

\* Select leaves out no element of s that is in S.
LEMMA SelectAll ==
    ASSUME NEW A, NEW s \in Seq(A), NEW S
    PROVE  \A i \in DOMAIN s : s[i] \in S =>
             \E k \in DOMAIN Select(s, S) : Select(s, S)[k] = s[i]
<1> DEFINE D == {i \in DOMAIN s : s[i] \in S}
<1>1. Select(s, S) = At(s, D) /\ D \in SUBSET DOMAIN s
  BY Zenon DEF Select
<1>2. \A i \in DOMAIN s : s[i] \in S => i \in D
  BY Zenon
<1> HIDE DEF D
<1>3. \A i \in D : \E k \in DOMAIN At(s, D) : At(s, D)[k] = s[i]
  BY <1>1, AtIs, Zenon
<1> QED
  BY <1>1, <1>2, <1>3, Zenon

\* A sequence with more of its positions in S has more elements to select.
LEMMA SelectMore ==
    ASSUME NEW A, NEW s \in Seq(A), NEW u \in Seq(A), NEW S,
           \A i \in DOMAIN s : i \in DOMAIN u /\ (s[i] \in S => u[i] \in S)
    PROVE  /\ Len(Select(s, S)) \in Nat /\ Len(Select(u, S)) \in Nat
           /\ Len(Select(s, S)) <= Len(Select(u, S))
<1> DEFINE D == {i \in DOMAIN s : s[i] \in S}
           E == {i \in DOMAIN u : u[i] \in S}
<1>1. /\ Select(s, S) = At(s, D) /\ D \in SUBSET DOMAIN s
      /\ Select(u, S) = At(u, E) /\ E \in SUBSET DOMAIN u
      /\ D \subseteq E
  BY Zenon DEF Select
<1> HIDE DEF D, E
<1>2. /\ Len(At(s, D)) = Cardinality(D) /\ Cardinality(D) \in Nat
      /\ Len(At(u, E)) = Cardinality(E) /\ Cardinality(E) \in Nat
      /\ IsFiniteSet(E)
  BY <1>1, AtIs, Zenon
<1>3. Cardinality(D) <= Cardinality(E)
  BY <1>1, <1>2, FS_Subset, Zenon
<1> QED
  BY <1>1, <1>2, <1>3, Zenon

-----------------------------------------------------------------------------
(* Engines *)

Ops == Target \cup {finder}

\* What is selected from the positions of a sequence of engines keeps the
\* engines with ops it does not look for.
LEMMA DetachIs ==
    ASSUME NEW es \in Seq(Engine), NEW os
    PROVE  /\ Detach(es, os) \in Seq(Engine)
           /\ \A o : o \notin os /\ HasEngine(es, o) => HasEngine(Detach(es, os), o)
<1> DEFINE D == {i \in DOMAIN es : es[i].ops \in os =>
                   \E j \in 1 .. (i - 1) : es[j].ops = es[i].ops}
<1>1. Detach(es, os) = At(es, D) /\ D \in SUBSET DOMAIN es
  BY Zenon DEF Detach
<1>2. \A i \in DOMAIN es : es[i].ops \notin os => i \in D
  BY Zenon
<1> HIDE DEF D
<1>3. /\ At(es, D) \in Seq(Engine)
      /\ \A i \in D : \E k \in DOMAIN At(es, D) : At(es, D)[k] = es[i]
  BY <1>1, AtIs, Zenon
<1> QED
  BY <1>1, <1>2, <1>3, Zenon DEF HasEngine

\* The engines of a thread whose memory-map events are on.
Mapping(es) == Len(Select(es, OfMaps))

\* Nothing is lost from es to fs: the ops that have an engine, the engines
\* whose memory-map events are on.
Grows(es, fs) ==
    /\ fs \in Seq(Engine)
    /\ \A o : HasEngine(es, o) => HasEngine(fs, o)
    /\ Mapping(es) <= Mapping(fs)

\* Engines that follow those of a thread take nothing away.
LEMMA ConcatGrows ==
    ASSUME NEW es \in Seq(Engine), NEW ds \in Seq(Engine)
    PROVE  Grows(es, es \o ds) /\ \A o : HasEngine(ds, o) => HasEngine(es \o ds, o)
<1> DEFINE fs == es \o ds
<1>1. /\ fs \in Seq(Engine) /\ Len(fs) = Len(es) + Len(ds)
      /\ \A i \in 1 .. Len(es) + Len(ds) :
           fs[i] = IF i <= Len(es) THEN es[i] ELSE ds[i - Len(es)]
  BY ConcatProperties, Zenon
<1>2. /\ Len(es) \in Nat /\ Len(ds) \in Nat /\ DOMAIN es = 1..Len(es)
      /\ DOMAIN ds = 1..Len(ds) /\ DOMAIN fs = 1..Len(fs)
  BY <1>1, LenProperties, Zenon
<1> HIDE DEF fs
<1>3. \A i \in DOMAIN es : i \in DOMAIN fs /\ fs[i] = es[i]
  BY <1>1, <1>2
<1>4. \A i \in DOMAIN ds : Len(es) + i \in DOMAIN fs /\ fs[Len(es) + i] = ds[i]
  <2>1. \A i \in DOMAIN ds : /\ Len(es) + i \in 1 .. Len(es) + Len(ds)
                             /\ ~(Len(es) + i <= Len(es)) /\ (Len(es) + i) - Len(es) = i
    BY <1>2
  <2> QED
    BY <1>1, <1>2, <2>1, Zenon
<1>5. Mapping(es) <= Mapping(fs)
  BY <1>1, <1>3, SelectMore, Zenon DEF Mapping
<1> QED
  BY <1>1, <1>3, <1>4, <1>5, Zenon DEF Grows, HasEngine, fs

\* The number of engines with memory-map events is a number.
LEMMA MappingNat ==
    ASSUME NEW es \in Seq(Engine)
    PROVE  Mapping(es) \in Nat
BY SelectMore DEF Mapping

\* A new engine, at the tail of a thread's.
LEMMA AttachGrows ==
    ASSUME NEW es \in Seq(Engine), NEW o \in Ops
    PROVE  Grows(es, Attach(es, o)) /\ HasEngine(Attach(es, o), o)
<1> DEFINE e == NewEngine(o)
<1>1. e \in Engine /\ e.ops = o
  BY Zenon DEF NewEngine, Engine, Ops
<1> HIDE DEF e
<1>2. Attach(es, o) = es \o <<e>> /\ <<e>> \in Seq(Engine)
  BY <1>1, AppendIsConcat DEF Attach, e
<1>3. HasEngine(<<e>>, o)
  BY <1>1 DEF HasEngine
<1> QED
  BY <1>2, <1>3, ConcatGrows, Zenon

\* A new engine for each of the targets gs, in the order of the list.
LEMMA AttachAllGrows ==
    ASSUME NEW es \in Seq(Engine), NEW gs, list \in Seq(Target)
    PROVE  /\ Grows(es, AttachAll(es, gs))
           /\ \A g \in gs : g \in Range(list) => HasEngine(AttachAll(es, gs), g)
<1> DEFINE l == InListOrder(gs)
           ds == [i \in DOMAIN l |-> NewEngine(l[i])]
<1>0. l = Select(list, gs)
  BY Zenon DEF InListOrder
<1>2. AttachAll(es, gs) = es \o ds
  BY Zenon DEF AttachAll
<1> HIDE DEF l
<1>1. /\ l \in Seq(Target)
      /\ \A i \in DOMAIN list : list[i] \in gs => \E k \in DOMAIN l : l[k] = list[i]
  <2> HIDE DEF ds
  <2>1. Select(list, gs) \in Seq(Target)
    BY SelectIs, Zenon
  <2>2. \A i \in DOMAIN list : list[i] \in gs =>
          \E k \in DOMAIN Select(list, gs) : Select(list, gs)[k] = list[i]
    BY SelectAll, Zenon
  <2> QED
    BY <1>0, <2>1, <2>2, Zenon
<1>3. \A o \in Target : NewEngine(o) \in Engine /\ NewEngine(o).ops = o
  BY Zenon DEF NewEngine, Engine
<1>4. Len(l) \in Nat /\ DOMAIN l = 1..Len(l) /\ \A i \in DOMAIN l : l[i] \in Target
  BY <1>1
<1>5. ds \in Seq(Engine)
  BY <1>3, <1>4
<1>6. \A k \in DOMAIN l : HasEngine(ds, l[k])
  BY <1>3, <1>4, Zenon DEF HasEngine
<1> HIDE DEF ds
<1>7. \A g \in Range(list) : \E i \in DOMAIN list : list[i] = g
  BY Zenon DEF Range
<1>8. Grows(es, es \o ds) /\ \A o : HasEngine(ds, o) => HasEngine(es \o ds, o)
  BY <1>5, ConcatGrows, Zenon
<1>9. ASSUME NEW g \in gs, g \in Range(list) PROVE HasEngine(es \o ds, g)
  BY <1>1, <1>6, <1>7, <1>8, <1>9, Zenon
<1> QED
  BY <1>2, <1>8, <1>9, Zenon

\* Nothing is lost in two steps either.
LEMMA GrowsTwice ==
    ASSUME NEW es \in Seq(Engine), NEW fs, NEW hs, Grows(es, fs), Grows(fs, hs)
    PROVE  Grows(es, hs)
<1>1. Mapping(es) \in Nat /\ Mapping(fs) \in Nat /\ Mapping(hs) \in Nat
  BY MappingNat DEF Grows
<1>2. Mapping(es) <= Mapping(hs)
  BY <1>1 DEF Grows
<1> QED
  BY <1>2, Zenon DEF Grows

\* The finder's engine, and one for each of the targets gs.
LEMMA FoundGrows ==
    ASSUME NEW es \in Seq(Engine), NEW gs, list \in Seq(Target)
    PROVE  /\ Grows(es, AttachAll(Attach(es, finder), gs))
           /\ HasEngine(AttachAll(Attach(es, finder), gs), finder)
           /\ \A g \in gs : g \in Range(list) =>
                HasEngine(AttachAll(Attach(es, finder), gs), g)
<1> DEFINE fs == Attach(es, finder)
<1>1. Grows(es, fs) /\ HasEngine(fs, finder)
  BY AttachGrows, Zenon DEF Ops
<1> HIDE DEF fs
<1>2. /\ Grows(fs, AttachAll(fs, gs))
      /\ \A g \in gs : g \in Range(list) => HasEngine(AttachAll(fs, gs), g)
  BY <1>1, AttachAllGrows, Zenon DEF Grows
<1>3. Grows(es, AttachAll(fs, gs)) /\ HasEngine(AttachAll(fs, gs), finder)
  BY <1>1, <1>2, GrowsTwice, Zenon DEF Grows
<1> QED
  BY <1>2, <1>3, Zenon DEF fs

\* An engine stops waiting to quiesce: its own events come on.
LEMMA TurnOffGrows ==
    ASSUME NEW es \in Seq(Engine), NEW o
    PROVE  Grows(es, TurnOff(es, o))
<1> DEFINE waits == {i \in DOMAIN es : es[i].ops = o /\ es[i].quiesce}
           w == CHOOSE i \in waits : \A j \in waits : i <= j
           fs == [es EXCEPT ![w].quiesce = FALSE]
<1>1. DOMAIN es \in SUBSET Nat /\ \A i \in DOMAIN es : es[i] \in Engine
  OBVIOUS
<1>2. CASE waits = {}
  <2>1. TurnOff(es, o) = es
    BY <1>2 DEF TurnOff
  <2> QED
    BY <2>1, MappingNat DEF Grows
<1>3. CASE waits # {}
  <2>1. TurnOff(es, o) = fs
    BY <1>3, Zenon DEF TurnOff
  <2>2. w \in waits
    <3>1. waits \in SUBSET Nat
      BY <1>1, Zenon
    <3> HIDE DEF waits
    <3> QED
      BY <1>3, <3>1, Least, Zenon
  <2>3. w \in DOMAIN es /\ es[w].quiesce
    BY <2>2, Zenon
  <2> HIDE DEF w, waits
  <2>4. PICK e \in Engine : e = [es[w] EXCEPT !.quiesce = FALSE] /\ e.ops = es[w].ops
    <3>1. ASSUME NEW d \in Engine
          PROVE  /\ [d EXCEPT !.quiesce = FALSE] \in Engine
                 /\ [d EXCEPT !.quiesce = FALSE].ops = d.ops
      BY Zenon DEF Engine
    <3> QED
      BY <1>1, <2>3, <3>1, Zenon
  <2>5. fs = [es EXCEPT ![w] = e]
    BY <2>4, Zenon
  <2> HIDE DEF fs
  <2>6. /\ fs \in Seq(Engine) /\ DOMAIN fs = DOMAIN es
        /\ \A i \in DOMAIN es : fs[i] = IF i = w THEN e ELSE es[i]
    <3>1. w \in 1..Len(es) /\ DOMAIN es = 1..Len(es)
      BY <2>3
    <3> QED
      BY <2>5, <3>1, ExceptSeq, LenProperties, Zenon
  <2>7. es[w] \notin OfMaps
    BY <2>3, Zenon DEF OfMaps
  <2>8. \A i \in DOMAIN es : fs[i].ops = es[i].ops /\ (es[i] \in OfMaps => fs[i] \in OfMaps)
    BY <2>4, <2>6, <2>7, Zenon
  <2>9. Mapping(es) <= Mapping(fs)
    BY <2>6, <2>8, SelectMore, Zenon DEF Mapping
  <2> QED
    BY <2>1, <2>6, <2>8, <2>9, Zenon DEF Grows, HasEngine
<1> QED
  BY <1>2, <1>3

-----------------------------------------------------------------------------
(* The invariant *)

\* Only targets' engines are asked to quiesce, and a callback for the exit of
\* a system call that went past its early returns has an entry to remove.
Asked(e, u) ==
    /\ e.kind = "quiesce" => \A i \in DOMAIN e.left : e.left[i] \in Target
    /\ e.kind = "exit" /\ e.step # "next" => u > 0

Types == TypeOK /\ \A t \in Thread : Asked(ev[t], entry[t].usage)

\* What a report finds when it reaches an engine: at a clone and an exec only
\* the finder's is concerned, and it stays; at a quiesce and at the exit of a
\* system call no engine is detached before its turn.
Relies(es, e) ==
    /\ e.kind \in {"clone", "exec"} =>
         HasEngine(es, finder) /\ \A i \in DOMAIN e.left : e.left[i] = finder
    /\ e.kind \in {"quiesce", "exit"} =>
         \A i \in DOMAIN e.left : HasEngine(es, e.left[i])

\* Clients hold a thread registered only while their target's engine can
\* still report its death: of a dead thread, while that report is to come.
Registered(l, es, e, td) ==
    /\ \A o \in td : HasEngine(es, o)
    /\ e.kind \notin {"none", "death"} => l = "alive"
    /\ e.kind = "death" => l = "dead"
    /\ l = "dead" => \A o \in td : \E i \in DOMAIN e.left : e.left[i] = o
    /\ e.kind = "death" /\ e.step = "returning" => Head(e.left) \notin td

\* A thread's entry counts no more than the engines that will report the exit
\* of the system call: those with memory-map events while the call lasts,
\* those to come while its exit is reported.
Saved(s, es, e, u) ==
    /\ e.kind \in {"clone", "exec", "death", "exit"} => s = "none"
    /\ e.kind = "entry" =>
         /\ s # "none"
         /\ u + Len(e.left) <= Mapping(es) + (IF e.step = "returning" THEN 1 ELSE 0)
    /\ e.kind = "exit" => u <= Len(e.left)
    /\ e.kind \notin {"entry", "exit"} => u <= IF s = "none" THEN 0 ELSE Mapping(es)

Sound(l, s, es, e, td, u) == Relies(es, e) /\ Registered(l, es, e, td) /\ Saved(s, es, e, u)

Local(t) == Sound(life[t], sys[t], engines[t], ev[t], told[t], entry[t].usage)

\* Event e is the clone of c, and the finder has not been there yet.
Pending(e, c) == e.kind = "clone" /\ e.child = c /\ e.step # "returning"

\* The finder has been to a thread.
FoundAll(t) ==
    HasEngine(engines[t], finder) /\ \A g \in Matches(path[t]) : HasEngine(engines[t], g)

ExecPending(e) == e.kind = "exec" /\ e.step # "returning"

\* A living thread is still to be met by the walk of stap_start_task_finder,
\* or by the report of its clone, or has the finder's engine; and then its
\* targets' engines too, unless the report of an exec is still to do that.
Found(t) ==
    life[t] = "alive" =>
      \/ pc = "starting" /\ t \in todo
      \/ \E p \in Thread : Pending(ev[p], t)
      \/ HasEngine(engines[t], finder) /\ ExecPending(ev[t])
      \/ FoundAll(t)

\* A clone that is reported is of a thread that runs its parent's executable.
Cloned(t) ==
    ev[t].kind = "clone" => life[ev[t].child] # "none" /\ path[ev[t].child] = path[t]

\* The finder runs from its start to its stop.  Before the start nothing is
\* attached, reported, told or saved; a target whose engines are removed is
\* still in the list.
Begun ==
    /\ state = "running" <=> pc \in {"starting", "running"}
    /\ state = "starting" <=> pc = "idle"
    /\ pc = "idle" => \A t \in Thread :
         /\ engines[t] = <<>> /\ ev[t] = NoEvent /\ told[t] = {} /\ life[t] # "dead"
         /\ sys[t] = "none" /\ entry[t].usage = 0
    /\ pc = "detaching" /\ ops # finder => list # <<>>

Tracked == \A t \in Thread : Local(t) /\ Found(t) /\ Cloned(t)

FinderInv ==
    /\ Types
    /\ Begun
    /\ state = "running" => Tracked

-----------------------------------------------------------------------------
(* Reports *)

\* f is report e without the engine whose turn it is.
Rest(e, f) ==
    /\ f \in {NoEvent} \cup Reports
    /\ f.kind = "none" \/ (f.kind = e.kind /\ f.child = e.child)
    /\ f.step = "next"
    /\ Len(f.left) = Len(e.left) - 1
    /\ \A i \in DOMAIN f.left : \E j \in DOMAIN e.left : f.left[i] = e.left[j]
    /\ \A j \in DOMAIN e.left :
         e.left[j] = Head(e.left) \/ \E i \in DOMAIN f.left : f.left[i] = e.left[j]

\* f is the report of an event of kind k to the engines of es in S.
Begins(es, k, S, c, f) ==
    /\ f \in {NoEvent} \cup Reports
    /\ f.kind = "none" \/ (f.kind = k /\ f.child = c)
    /\ f.step = "next"
    /\ Len(f.left) = Len(Select(es, S))
    /\ \A i \in DOMAIN f.left : \E j \in DOMAIN es : es[j] \in S /\ f.left[i] = es[j].ops
    /\ \A j \in DOMAIN es : es[j] \in S => \E i \in DOMAIN f.left : f.left[i] = es[j].ops

\* The fields of no event and of a report.
LEMMA ReportFields ==
    /\ NoEvent.kind = "none" /\ NoEvent.left = <<>> /\ NoEvent.step = "next"
    /\ \A e \in Reports :
         /\ e.kind \in Kinds
         /\ e.left \in Seq(Ops) /\ e.left # <<>>
         /\ e.step \in Steps /\ e.child \in Thread
    /\ \A e \in {NoEvent} \cup Reports : e # NoEvent <=> e.kind # "none"
BY DEF NoEvent, Reports, Kinds, Ops, Steps

\* Over goes on with the rest of a report.
LEMMA OverIs ==
    ASSUME TypeOK, NEW t \in Thread, ev[t] # NoEvent, Over(t)
    PROVE  \E f : ev' = [ev EXCEPT ![t] = f] /\ Rest(ev[t], f)
<1> DEFINE e == ev[t]
           l == e.left
           r == [e EXCEPT !.left = Tail(l), !.step = "next"]
           f == IF Len(l) = 1 THEN NoEvent ELSE r
<1>1. e \in Reports
  BY Zenon DEF TypeOK
<1>2. ev' = [ev EXCEPT ![t] = f]
  BY Zenon DEF Over
<1>3. l \in Seq(Ops) /\ l # <<>> /\ Len(l) \in Nat \ {0} /\ DOMAIN l = 1..Len(l)
  BY <1>1, ReportFields, EmptySeq, LenProperties, Zenon
<1>4. /\ Tail(l) \in Seq(Ops) /\ Len(Tail(l)) = Len(l) - 1
      /\ \A i \in 1 .. Len(Tail(l)) : Tail(l)[i] = l[i + 1]
      /\ DOMAIN Tail(l) = 1..Len(Tail(l)) /\ Head(l) = l[1]
  BY <1>3, HeadTailProperties, LenProperties
<1>5. CASE Len(l) = 1
  <2>1. f = NoEvent /\ NoEvent.left = <<>> /\ NoEvent.kind = "none" /\ NoEvent.step = "next"
    BY <1>5, ReportFields, Zenon
  <2> HIDE DEF f, l
  <2>2. Len(<<>>) = Len(l) - 1 /\ DOMAIN <<>> = {} /\ \A j \in DOMAIN l : l[j] = Head(l)
    BY <1>3, <1>4, <1>5
  <2>3. Rest(e, NoEvent)
    BY <2>1, <2>2 DEF Rest, l
  <2> QED
    BY <1>2, <2>1, <2>3, Zenon
<1>6. CASE Len(l) # 1
  <2>1. f = r
    BY <1>6, Zenon
  <2>2. /\ r.kind = e.kind /\ r.child = e.child /\ r.step = "next" /\ r.left = Tail(l)
        /\ Tail(l) # <<>> => r \in Reports
    BY <1>1, <1>4, Zenon DEF Reports, Ops
  <2> HIDE DEF f, r, l
  <2>3. Tail(l) # <<>>
    <3>1. Len(l) - 1 # 0
      BY <1>3, <1>6
    <3> QED
      BY <1>4, <3>1, EmptySeq, Zenon
  <2>4. \A i \in DOMAIN Tail(l) : \E j \in DOMAIN l : Tail(l)[i] = l[j]
    BY <1>3, <1>4
  <2>5. \A j \in DOMAIN l : l[j] = Head(l) \/ \E i \in DOMAIN Tail(l) : Tail(l)[i] = l[j]
    <3> SUFFICES ASSUME NEW j \in DOMAIN l, j # 1
                 PROVE  \E i \in DOMAIN Tail(l) : Tail(l)[i] = l[j]
      BY <1>4
    <3>1. j - 1 \in DOMAIN Tail(l) /\ (j - 1) + 1 = j
      BY <1>3, <1>4
    <3> QED
      BY <1>4, <3>1
  <2>6. Rest(e, r)
    <3>1. r \in {NoEvent} \cup Reports
      BY <2>2, <2>3, Zenon
    <3>2. Len(r.left) = Len(e.left) - 1
      BY <1>4, <2>2, Zenon DEF l
    <3>3. \A i \in DOMAIN r.left : \E j \in DOMAIN e.left : r.left[i] = e.left[j]
      BY <2>2, <2>4, Zenon DEF l
    <3>4. \A j \in DOMAIN e.left :
            e.left[j] = Head(e.left) \/ \E i \in DOMAIN r.left : r.left[i] = e.left[j]
      BY <2>2, <2>5, Zenon DEF l
    <3> QED
      BY <2>2, <3>1, <3>2, <3>3, <3>4, Zenon DEF Rest
  <2> QED
    BY <1>2, <2>1, <2>6, Zenon
<1> QED
  BY <1>5, <1>6

\* Report begins the report of an event in a thread that had none.
LEMMA ReportIs ==
    ASSUME TypeOK, NEW t \in Thread, ev[t] = NoEvent, NEW S, NEW c \in Thread,
           NEW k \in Kinds,
           Report(t, k, S, c)
    PROVE  \E f : ev' = [ev EXCEPT ![t] = f] /\ Begins(engines[t], k, S, c, f)
<1> DEFINE es == engines[t]
           sel == Select(es, S)
           l == [i \in DOMAIN sel |-> sel[i].ops]
           r == [kind |-> k, left |-> l, step |-> "next", child |-> c]
           f == IF sel = <<>> THEN NoEvent ELSE r
<1>1. es \in Seq(Engine)
  BY Zenon DEF TypeOK
<1>2. ev' = [ev EXCEPT ![t] = f]
  <2>1. ev' = IF sel = <<>> THEN ev ELSE [ev EXCEPT ![t] = r]
    BY Zenon DEF Report
  <2>2. ev = [ev EXCEPT ![t] = NoEvent]
    BY DEF TypeOK
  <2> QED
    BY <2>1, <2>2, Zenon
<1> HIDE DEF es
<1>3. sel \in Seq(Engine)
  BY <1>1, SelectIs, Zenon
<1>4. \A i \in DOMAIN sel : sel[i] \in S /\ \E j \in DOMAIN es : sel[i] = es[j]
  BY <1>1, SelectIs
<1>5. \A j \in DOMAIN es : es[j] \in S => \E i \in DOMAIN sel : sel[i] = es[j]
  BY <1>1, SelectAll, Zenon
<1> HIDE DEF sel
<1>6. /\ Len(sel) \in Nat /\ DOMAIN sel = 1..Len(sel)
      /\ sel = <<>> => Len(sel) = 0
      /\ sel # <<>> => Len(sel) # 0
  BY <1>3, LenProperties, EmptySeq
<1>7. DOMAIN l = DOMAIN sel /\ \A i \in DOMAIN sel : l[i] = sel[i].ops
  BY Zenon
<1>8. \A e \in Engine : e.ops \in Ops
  BY Zenon DEF Engine, Ops
<1>9. \A i \in DOMAIN sel : l[i] \in Ops
  BY <1>3, <1>6, <1>7, <1>8, ElementOfSeq, Zenon
<1> HIDE DEF l
<1>10. l \in Seq(Ops) /\ Len(l) = Len(sel)
  <2>1. l \in [1..Len(sel) -> Ops]
    BY <1>6, <1>7, <1>9, Zenon DEF l
  <2> QED
    BY <1>6, <2>1
<1>11. \A i \in DOMAIN l : \E j \in DOMAIN es : es[j] \in S /\ l[i] = es[j].ops
  BY <1>4, <1>7, Zenon
<1>12. \A j \in DOMAIN es : es[j] \in S => \E i \in DOMAIN l : l[i] = es[j].ops
  BY <1>5, <1>7, Zenon
<1>13. CASE sel = <<>>
  <2>1. f = NoEvent /\ l = <<>>
    <3>1. Len(l) = 0
      BY <1>6, <1>10, <1>13
    <3> QED
      BY <1>10, <1>13, <3>1, EmptySeq
  <2>2. NoEvent.kind = "none" /\ NoEvent.step = "next" /\ NoEvent.left = l
    BY <2>1, ReportFields, Zenon
  <2>3. Begins(es, k, S, c, NoEvent)
    BY <1>10, <1>11, <1>12, <2>2, Zenon DEF Begins, sel
  <2> QED
    BY <1>2, <2>1, <2>3, Zenon DEF es
<1>14. CASE sel # <<>>
  <2>1. f = r
    BY <1>14, Zenon
  <2>2. r.kind = k /\ r.child = c /\ r.step = "next" /\ r.left = l
    BY Zenon
  <2>3. r \in Reports
    <3>1. l # <<>>
      BY <1>6, <1>10, <1>14, EmptySeq
    <3> QED
      BY <1>10, <3>1, Zenon DEF Reports, Ops
  <2> HIDE DEF f, r
  <2>4. Begins(es, k, S, c, r)
    BY <1>10, <1>11, <1>12, <2>2, <2>3, Zenon DEF Begins, sel
  <2> QED
    BY <1>2, <2>1, <2>4, Zenon DEF es
<1> QED
  BY <1>13, <1>14

\* A report moves on by a step and stays what it is.
Moved(e, x, f) ==
    f \in Reports /\ f.kind = e.kind /\ f.left = e.left /\ f.child = e.child /\ f.step = x

\* The callbacks move a report on from step to step.
LEMMA StepIs ==
    ASSUME TypeOK, NEW t \in Thread, ev[t] # NoEvent, NEW x \in Steps,
           ev' = [ev EXCEPT ![t].step = x]
    PROVE  \E f : ev' = [ev EXCEPT ![t] = f] /\ Moved(ev[t], x, f)
<1>1. ev[t] \in Reports
  BY Zenon DEF TypeOK
<1>2. ASSUME NEW e \in Reports PROVE Moved(e, x, [e EXCEPT !.step = x])
  BY DEF Moved, Reports, Steps
<1> QED
  BY <1>1, <1>2, Zenon

-----------------------------------------------------------------------------
(* Types *)

EvTypes ==
    /\ ev \in [Thread -> {NoEvent} \cup Reports]
    /\ \A t \in Thread : Asked(ev[t], entry[t].usage)

\* The report of one thread changes.
LEMMA EvTyped ==
    ASSUME Types, NEW t \in Thread, NEW f \in {NoEvent} \cup Reports,
           \A x \in Thread \ {t} : entry'[x] = entry[x], Asked(f, entry'[t].usage),
           ev' = [ev EXCEPT ![t] = f]
    PROVE  EvTypes'
BY Zenon DEF Types, TypeOK, EvTypes

\* The engines of one thread change.
LEMMA EnginesTyped ==
    ASSUME TypeOK, NEW t \in Thread, NEW es \in Seq(Engine),
           engines' = [engines EXCEPT ![t] = es]
    PROVE  engines' \in [Thread -> Seq(Engine)]
BY Zenon DEF TypeOK

\* What threads do.
LEMMA KernelTyped ==
    ASSUME Types, inuse' \in Nat, Kernel
    PROVE  Types'
<1>1. PICK t \in Thread :
        \/ \E c \in Thread : Clone(t, c)
        \/ \E p \in Path : Exec(t, p)
        \/ Die(t)
        \/ \E s \in Syscall : EnterSyscall(t, s)
        \/ LeaveSyscall(t)
        \/ Quiesce(t)
  BY Zenon DEF Kernel
<1>2. ASSUME NEW k \in Kinds, NEW S, NEW c \in Thread, Report(t, k, S, c), ev[t] = NoEvent,
             k = "quiesce" => S = Quiescing, entry' = entry
      PROVE  EvTypes'
  <2>1. PICK f : ev' = [ev EXCEPT ![t] = f] /\ Begins(engines[t], k, S, c, f)
    <3>1. TypeOK
      BY Zenon DEF Types
    <3> QED
      BY <1>2, <3>1, ReportIs, Zenon
  <2>2. \A e \in Quiescing : e.ops \in Target
    BY Zenon DEF Quiescing, Engine
  <2>3. Asked(f, entry'[t].usage)
    BY <1>2, <2>1, <2>2, Zenon DEF Begins, Asked
  <2> QED
    BY <1>2, <2>1, <2>3, EvTyped, Zenon DEF Begins
<1>3. ASSUME NEW c \in Thread, Clone(t, c) PROVE Types'
  <2>1. EvTypes'
    BY <1>2, <1>3, Zenon DEF Kinds, Clone, Happens, Runs
  <2>2. events' \in 0 .. MaxEvents
    BY <1>3, TargetsGiven DEF Clone, Happens, Types, TypeOK, EvTypes
  <2>3. path[t] \in Path \cup {"none"}
    BY Zenon DEF Types, TypeOK, EvTypes
  <2> QED
    BY <1>3, <2>1, <2>2, <2>3, Zenon DEF Clone, Types, TypeOK, EvTypes
<1>4. ASSUME NEW p \in Path, Exec(t, p) PROVE Types'
  <2>1. EvTypes'
    BY <1>2, <1>4, Zenon DEF Kinds, Exec, Happens, Runs
  <2>2. events' \in 0 .. MaxEvents
    BY <1>4, TargetsGiven DEF Exec, Happens, Types, TypeOK, EvTypes
  <2> QED
    BY <1>4, <2>1, <2>2, Zenon DEF Exec, module, Types, TypeOK, EvTypes
<1>5. ASSUME Die(t) PROVE Types'
  <2>1. EvTypes'
    BY <1>2, <1>5, Zenon DEF Kinds, Die, Happens, Runs
  <2>2. events' \in 0 .. MaxEvents
    BY <1>5, TargetsGiven DEF Die, Happens, Types, TypeOK, EvTypes
  <2>3. parent' \in [Thread -> Thread]
    BY <1>5 DEF Die, Types, TypeOK, EvTypes
  <2> QED
    BY <1>5, <2>1, <2>2, <2>3, Zenon DEF Die, module, Types, TypeOK, EvTypes
<1>6. ASSUME NEW s \in Syscall, EnterSyscall(t, s) PROVE Types'
  <2>1. EvTypes'
    BY <1>2, <1>6, Zenon DEF Kinds, EnterSyscall, Happens, Runs
  <2>2. events' \in 0 .. MaxEvents
    BY <1>6, TargetsGiven DEF EnterSyscall, Happens, Types, TypeOK, EvTypes
  <2> QED
    BY <1>6, <2>1, <2>2, Zenon DEF EnterSyscall, module, Types, TypeOK, EvTypes
<1>7. ASSUME LeaveSyscall(t) PROVE Types'
  <2>1. EvTypes'
    BY <1>2, <1>7, Zenon DEF Kinds, LeaveSyscall, Runs
  <2> QED
    BY <1>7, <2>1, Zenon DEF LeaveSyscall, module, Types, TypeOK, EvTypes
<1>8. ASSUME Quiesce(t) PROVE Types'
  <2>1. EvTypes'
    BY <1>2, <1>8, Zenon DEF Kinds, Quiesce, Runs
  <2> QED
    BY <1>8, <2>1, Zenon DEF Quiesce, threads, module, Types, TypeOK, EvTypes
<1> QED
  BY <1>1, <1>3, <1>4, <1>5, <1>6, <1>7, <1>8, Zenon

\* What the callbacks do.
LEMMA CallbackTyped ==
    ASSUME Types, inuse' \in Nat, NEW t \in Thread, Callback(t)
    PROVE  Types'
<1>1. engines[t] \in Seq(Engine) /\ list \in Seq(Target) /\ told[t] \in SUBSET Target
  BY Zenon DEF Types, TypeOK, EvTypes
<1> DEFINE Others == \A x \in Thread \ {t} : entry'[x] = entry[x]
<1>2. ASSUME ev[t] # NoEvent, Over(t), Others PROVE EvTypes'
  <2>1. PICK f : ev' = [ev EXCEPT ![t] = f] /\ Rest(ev[t], f)
    BY <1>2, OverIs, Zenon DEF Types
  <2>2. Asked(f, entry'[t].usage)
    BY <2>1, Zenon DEF Rest, Asked, Types
  <2> QED
    BY <1>2, <2>1, <2>2, EvTyped, Zenon DEF Rest
<1>3. ASSUME NEW x \in Steps, ev[t] # NoEvent, ev' = [ev EXCEPT ![t].step = x],
             Others, ev[t].kind = "exit" => entry'[t].usage > 0
      PROVE  EvTypes'
  <2>1. PICK f : ev' = [ev EXCEPT ![t] = f] /\ Moved(ev[t], x, f)
    BY <1>3, StepIs, Zenon DEF Types
  <2>2. Asked(f, entry'[t].usage)
    BY <1>3, <2>1, Zenon DEF Moved, Asked, Types
  <2> QED
    BY <1>3, <2>1, <2>2, EvTyped, Zenon DEF Moved
<1>4. ev[t].step # "next" => ev[t] # NoEvent
  BY ReportFields, Zenon
<1>5. {"checked", "working", "returning"} \subseteq Steps
  BY Zenon DEF Steps
<1>6. \A es \in Seq(Engine) : engines' = [engines EXCEPT ![t] = es] =>
        engines' \in [Thread -> Seq(Engine)]
  BY EnginesTyped, Zenon DEF Types
<1>7. \A os : Detach(engines[t], os) \in Seq(Engine)
  BY <1>1, DetachIs, Zenon
<1>8. CASE PassOver(t)
  BY <1>2, <1>8, Zenon DEF PassOver, threads, module, Types, TypeOK, EvTypes
<1>9. CASE Check(t)
  <2>1. entry' = entry /\ entry[t].usage \in Nat /\ ev[t] # NoEvent
    BY <1>9 DEF Check, Types, TypeOK
  <2>2. ASSUME Over(t) PROVE EvTypes'
    BY <1>2, <2>1, <2>2, Zenon
  <2>3. ASSUME ~Idle(t, Head(ev[t].left)), ev' = [ev EXCEPT ![t].step = "checked"]
        PROVE  EvTypes'
    <3>1. ev[t].kind = "exit" => entry[t].usage # 0
      BY <2>3 DEF Idle
    <3>2. ev[t].kind = "exit" => entry[t].usage > 0
      BY <2>1, <3>1
    <3> QED
      BY <1>3, <1>5, <2>1, <2>3, <3>2, Zenon
  <2>4. EvTypes'
    BY <1>9, <2>2, <2>3, Zenon DEF Check
  <2>5. engines' \in [Thread -> Seq(Engine)]
    <3>1. engines' = engines \/ engines' = [engines EXCEPT ![t] = Detach(engines[t], {Head(ev[t].left)})]
      BY <1>9, Zenon DEF Check
    <3> QED
      BY <1>6, <1>7, <3>1, Zenon DEF Types, TypeOK, EvTypes
  <2> QED
    BY <1>9, <2>4, <2>5, Zenon DEF Check, threads, module, Types, TypeOK, EvTypes
<1>10. CASE HandlerStart(t)
  <2>1. EvTypes'
    <3>1. ev[t].step = "checked" /\ ev[t].step # "next" /\ entry' = entry
          /\ ev' = [ev EXCEPT ![t].step = "working"]
      BY <1>10, Zenon DEF HandlerStart
    <3>2. ev[t].kind = "exit" => entry[t].usage > 0
      BY <3>1, Zenon DEF Types, Asked
    <3> QED
      BY <1>3, <1>4, <1>5, <3>1, <3>2, Zenon
  <2> QED
    BY <1>10, <2>1, Zenon DEF HandlerStart, threads, module, Types, TypeOK, EvTypes
<1>11. ASSUME NEW k, Work(t, k), Others, k = "exit" => entry' = entry
       PROVE  EvTypes' /\ ev[t] \in Reports
  <2>1. ev[t].kind = k /\ ev[t].step # "next" /\ ev' = [ev EXCEPT ![t].step = "returning"]
    BY <1>11, Zenon DEF Work
  <2>2. ev[t].kind = "exit" => entry'[t].usage > 0
    BY <1>11, <2>1, Zenon DEF Types, Asked
  <2> QED
    BY <1>3, <1>4, <1>5, <1>11, <2>1, <2>2, Zenon DEF Types, TypeOK
<1>12. \A p : Matches(p) \subseteq Target
  <2>1. Range(list) \subseteq Target
    BY <1>1 DEF Range
  <2> QED
    BY <2>1, Zenon DEF Matches
<1>13. CASE ReportClone(t)
  <2> DEFINE c == ev[t].child
             es == AttachAll(Attach(engines[c], finder), Matches(path[t]))
  <2>1. c \in Thread /\ EvTypes'
    BY <1>11, <1>13, ReportFields, Zenon DEF ReportClone
  <2>2. engines[c] \in Seq(Engine)
    BY <2>1, Zenon DEF Types, TypeOK, EvTypes
  <2>3. es \in Seq(Engine)
    BY <1>1, <2>2, FoundGrows, Zenon DEF Grows
  <2>4. engines' = [engines EXCEPT ![c] = es]
    BY <1>13, Zenon DEF ReportClone
  <2> HIDE DEF c, es
  <2>5. engines' \in [Thread -> Seq(Engine)]
    BY <2>1, <2>3, <2>4, EnginesTyped, Zenon DEF Types
  <2>6. attached' \subseteq Target
    BY <1>12, <1>13, Zenon DEF ReportClone, Types, TypeOK, EvTypes
  <2> QED
    BY <1>13, <2>1, <2>5, <2>6, Zenon DEF ReportClone, threads, module, Types, TypeOK, EvTypes
<1>14. CASE ReportExec(t)
  <2> DEFINE old == IF parent[t] = t THEN {} ELSE Matches(path[parent[t]])
             new == Matches(path[t])
             es == AttachAll(Detach(engines[t], old), new)
  <2>1. /\ EvTypes'
        /\ engines' = [engines EXCEPT ![t] = es]
        /\ attached' = attached \cup new
        /\ told' = [told EXCEPT ![t] = told[t] \ old]
    BY <1>11, <1>14, Zenon DEF ReportExec
  <2>2. es \in Seq(Engine)
    BY <1>1, <1>7, AttachAllGrows, Zenon DEF Grows
  <2> HIDE DEF old, es
  <2>3. engines' \in [Thread -> Seq(Engine)]
    BY <1>6, <2>1, <2>2, Zenon
  <2>4. told' \in [Thread -> SUBSET Target]
    BY <1>1, <2>1, Zenon DEF Types, TypeOK, EvTypes
  <2>5. attached' \subseteq Target
    BY <1>12, <2>1, Zenon DEF Types, TypeOK, EvTypes
  <2> QED
    BY <1>14, <2>1, <2>3, <2>4, <2>5, Zenon DEF ReportExec, threads, module, Types, TypeOK, EvTypes
<1>15. CASE TargetDeath(t)
  <2>1. told' \in [Thread -> SUBSET Target]
    BY <1>1, <1>15, Zenon DEF TargetDeath, Types, TypeOK, EvTypes
  <2> QED
    BY <1>11, <1>15, <2>1, Zenon DEF TargetDeath, threads, module, Types, TypeOK, EvTypes
<1>16. CASE TargetQuiesce(t)
  <2> DEFINE o == Head(ev[t].left)
  <2>1. o \in Target
    <3>1. PICK l \in Seq(Ops) : l = ev[t].left /\ l # <<>> /\ \A i \in DOMAIN l : l[i] \in Target
      BY <1>11, <1>16, ReportFields, Zenon DEF TargetQuiesce, Work, Types, Asked
    <3> QED
      BY <3>1
  <2>2. /\ engines' = [engines EXCEPT ![t] = TurnOff(engines[t], o)]
        /\ told' = [told EXCEPT ![t] = told[t] \cup {o}]
    BY <1>16, Zenon DEF TargetQuiesce
  <2> HIDE DEF o
  <2>3. engines' \in [Thread -> Seq(Engine)]
    BY <1>1, <1>6, <2>2, TurnOffGrows, Zenon DEF Grows
  <2>4. told' \in [Thread -> SUBSET Target]
    BY <1>1, <2>1, <2>2, Zenon DEF Types, TypeOK
  <2> QED
    BY <1>11, <1>16, <2>3, <2>4, Zenon DEF TargetQuiesce, threads, module, Types, TypeOK, EvTypes
<1>17. /\ entry \in [Thread -> [usage : Nat, no : Syscall \cup {"none"}]]
       /\ sys[t] \in Syscall \cup {"none"}
  BY Zenon DEF Types, TypeOK
<1>18. CASE TargetSyscallEntry(t)
  <2>1. AddMap(t)
    BY <1>18, Zenon DEF TargetSyscallEntry
  <2>2. entry' \in [Thread -> [usage : Nat, no : Syscall \cup {"none"}]] /\ Others
    BY <1>17, <2>1 DEF AddMap
  <2>3. EvTypes'
    BY <1>11, <1>18, <2>2, Zenon DEF TargetSyscallEntry
  <2> QED
    BY <1>18, <2>2, <2>3, Zenon
    DEF TargetSyscallEntry, threads, module, Types, TypeOK, EvTypes
<1>19. CASE TargetSyscallExit(t)
  <2>1. EvTypes'
    BY <1>11, <1>19, Zenon DEF TargetSyscallExit
  <2> QED
    BY <1>19, <2>1, Zenon DEF TargetSyscallExit, threads, module, Types, TypeOK, EvTypes
<1>20. CASE Return(t)
  <2>1. ev[t].step = "returning" /\ ev[t].step # "next" /\ Over(t)
    BY <1>20, Zenon DEF Return
  <2>2. entry' \in [Thread -> [usage : Nat, no : Syscall \cup {"none"}]] /\ Others
    <3>1. CASE ev[t].kind = "exit"
      <4>1. entry[t].usage > 0
        BY <2>1, <3>1, Zenon DEF Types, Asked
      <4>2. RemoveMapEntry(t)
        BY <1>20, <3>1, Zenon DEF Return
      <4> QED
        BY <1>17, <4>1, <4>2 DEF RemoveMapEntry, NoEntry
    <3>2. CASE ev[t].kind # "exit"
      BY <1>17, <1>20, <3>2, Zenon DEF Return
    <3> QED
      BY <3>1, <3>2
  <2>3. EvTypes'
    BY <1>2, <1>4, <2>1, <2>2, Zenon
  <2>4. engines' \in [Thread -> Seq(Engine)]
    <3>1. engines' = engines \/ engines' = [engines EXCEPT ![t] = Detach(engines[t], {Head(ev[t].left)})]
      BY <1>20, Zenon DEF Return
    <3> QED
      BY <1>6, <1>7, <3>1, Zenon DEF Types, TypeOK
  <2> QED
    BY <1>20, <2>2, <2>3, <2>4, Zenon DEF Return, threads, module, Types, TypeOK, EvTypes
<1> QED
  BY <1>8, <1>9, <1>10, <1>13, <1>14, <1>15, <1>16, <1>18, <1>19, <1>20, Zenon DEF Callback

-----------------------------------------------------------------------------
(* Starting and stopping *)

\* A walk that is not over meets a thread.
LEMMA NextThreadIs ==
    ASSUME Types, todo # {}
    PROVE  NextThread \in todo /\ NextThread \in Thread
<1>1. todo \in SUBSET Nat /\ todo \subseteq Thread
  BY TargetsGiven, Zenon DEF Types, TypeOK
<1>2. \E n \in todo : \A k \in todo : n <= k
  BY <1>1, Least, Zenon
<1> QED
  BY <1>1, <1>2, Zenon DEF NextThread

\* Starting and stopping keeps the types.
LEMMA DriverTyped ==
    ASSUME Types, Begun, Start \/ Stop \/ Driver
    PROVE  Types'
<1>1. TypeOK /\ list \in Seq(Target) /\ \A t \in Thread : engines[t] \in Seq(Engine)
  BY Zenon DEF Types, TypeOK
<1>2. \A g \in Range(list) : g \in Target
  BY <1>1 DEF Range
<1>3. list # <<>> => Tail(list) \in Seq(Target)
  BY <1>1, HeadTailProperties, Zenon
<1>4. ASSUME StartVisit PROVE Types'
  <2> DEFINE t == NextThread
             gs == IF life[t] = "alive" THEN MatchesAtStart(t) ELSE {}
             fs == AttachAll(Attach(engines[t], finder), gs)
  <2>1. t \in Thread
    BY <1>4, NextThreadIs, Zenon DEF StartVisit
  <2>2. gs \subseteq Target
    BY <1>2, Zenon DEF MatchesAtStart
  <2>3. /\ engines' = IF life[t] = "alive" THEN [engines EXCEPT ![t] = fs] ELSE engines
        /\ attached' = attached \cup gs
    BY <1>4, Zenon DEF StartVisit
  <2> HIDE DEF t, gs
  <2>4. fs \in Seq(Engine)
    BY <1>1, <2>1, FoundGrows, Zenon DEF Grows
  <2> HIDE DEF fs
  <2>5. engines' \in [Thread -> Seq(Engine)]
    BY <1>1, <2>1, <2>3, <2>4, EnginesTyped, Zenon DEF TypeOK
  <2> QED
    BY <1>4, <2>2, <2>3, <2>5, Zenon DEF StartVisit, threads, Types, TypeOK
<1>5. ASSUME DetachVisit PROVE Types'
  <2> DEFINE t == NextThread
             fs == Detach(engines[t], {ops})
  <2>1. t \in Thread
    BY <1>5, NextThreadIs, Zenon DEF DetachVisit
  <2>2. engines' = engines \/ engines' = [engines EXCEPT ![t] = fs]
    BY <1>5, Zenon DEF DetachVisit
  <2> HIDE DEF t
  <2>3. fs \in Seq(Engine)
    BY <1>1, <2>1, DetachIs, Zenon
  <2> HIDE DEF fs
  <2>4. engines' \in [Thread -> Seq(Engine)]
    BY <1>1, <2>1, <2>2, <2>3, EnginesTyped, Zenon DEF TypeOK
  <2> QED
    BY <1>5, <2>4, Zenon DEF DetachVisit, threads, Types, TypeOK
<1>6. ASSUME Detached \/ CleanupTarget PROVE Types'
  <2>1. list' \in Seq(Target)
    BY <1>1, <1>3, <1>6, Zenon DEF Detached, CleanupTarget, Begun
  <2> QED
    BY <1>6, <2>1, Zenon DEF Detached, CleanupTarget, DetachOps, threads, Types, TypeOK
<1>7. ASSUME Start \/ Stop PROVE Types'
  BY <1>7, Zenon DEF Start, Stop, DetachOps, threads, Types, TypeOK
<1>8. ASSUME Started \/ CleanedUp \/ Stopped PROVE Types'
  BY <1>8, Zenon DEF Started, CleanedUp, Stopped, threads, Types, TypeOK
<1> QED
  BY <1>4, <1>5, <1>6, <1>7, <1>8, Zenon DEF Driver

\* Nothing happens before the start, and state and pc go together.
LEMMA BegunKept ==
    ASSUME Types, Begun, Next
    PROVE  Begun'
<1>1. CASE Kernel
  <2>1. PICK t \in Thread :
          \/ \E c \in Thread : Clone(t, c)
          \/ \E p \in Path : Exec(t, p)
          \/ Die(t)
          \/ \E s \in Syscall : EnterSyscall(t, s)
          \/ LeaveSyscall(t)
          \/ Quiesce(t)
    BY <1>1, Zenon DEF Kernel
  <2>2. pc # "idle"
    <3>1. pc = "idle" => sys[t] = "none" /\ engines[t] = <<>>
      BY Zenon DEF Begun
    <3>2. ~ \E i \in DOMAIN <<>> : engines[t][i].quiesce
      OBVIOUS
    <3> QED
      BY <2>1, <3>1, <3>2, Zenon DEF Clone, Exec, Die, EnterSyscall, LeaveSyscall, Quiesce, Happens
  <2>3. state' = state /\ pc' = pc /\ list' = list /\ ops' = ops
    BY <2>1, Zenon DEF Clone, Exec, Die, EnterSyscall, LeaveSyscall, Quiesce, module
  <2> QED
    BY <2>2, <2>3, Zenon DEF Begun
<1>2. CASE \E t \in Thread : Callback(t)
  <2>1. PICK t \in Thread : Callback(t)
    BY <1>2
  <2>2. UNCHANGED module /\ ev[t] # NoEvent
    BY <2>1, ReportFields DEF Callback, PassOver, Check, HandlerStart, ReportClone, ReportExec,
       TargetDeath, TargetQuiesce, TargetSyscallEntry, TargetSyscallExit, Return, Work
  <2> QED
    BY <2>2, Zenon DEF Begun, module
<1>3. CASE Start \/ Stop
  BY <1>3 DEF Start, Stop, DetachOps, Begun
<1>4. CASE Driver
  BY <1>4 DEF Driver, StartVisit, Started, DetachVisit, Detached, CleanupTarget, CleanedUp,
              Stopped, DetachOps, Begun
<1> QED
  BY <1>1, <1>2, <1>3, <1>4, Zenon DEF Next

-----------------------------------------------------------------------------
(* What a step makes of the invariant of the thread it is about *)

\* More engines do no harm.
LEMMA SoundGrows ==
    ASSUME NEW l, NEW s, NEW es \in Seq(Engine), NEW e \in {NoEvent} \cup Reports, NEW td,
           NEW u \in Nat, Sound(l, s, es, e, td, u), NEW fs, Grows(es, fs)
    PROVE  Sound(l, s, fs, e, td, u)
<1>1. Relies(fs, e) /\ Registered(l, fs, e, td)
  BY Zenon DEF Sound, Relies, Registered, Grows
<1>2. /\ Mapping(es) \in Nat /\ Mapping(fs) \in Nat /\ Mapping(es) <= Mapping(fs)
      /\ Len(e.left) \in Nat
  BY MappingNat, ReportFields, LenProperties, EmptySeq DEF Grows
<1> DEFINE m == Mapping(es)
           n == Mapping(fs)
           k == Len(e.left)
<1> HIDE DEF m, n, k
<1>3. /\ e.kind = "entry" => u + k <= n + (IF e.step = "returning" THEN 1 ELSE 0)
      /\ e.kind \notin {"entry", "exit"} => u <= IF s = "none" THEN 0 ELSE n
  BY <1>2 DEF Sound, Saved, m, n, k
<1> QED
  BY <1>1, <1>3, Zenon DEF Sound, Saved, n, k

\* A report moves on by a step.
LEMMA SoundMoved ==
    ASSUME NEW l, NEW s, NEW es \in Seq(Engine), NEW e \in Reports, NEW td, NEW u \in Nat,
           Sound(l, s, es, e, td, u), e.step # "returning",
           NEW x, NEW f, Moved(e, x, f),
           NEW fs \in Seq(Engine), e.kind # "exec" => fs = es,
           e.kind = "exec" => HasEngine(fs, finder),
           NEW te, \A o \in te : HasEngine(fs, o), l = "dead" => te \subseteq td,
           e.kind = "death" /\ x = "returning" => Head(e.left) \notin te,
           NEW v \in Nat, v <= u \/ (e.kind = "entry" /\ x = "returning" /\ v <= u + 1)
    PROVE  Sound(l, s, fs, f, te, v)
<1>1. Relies(fs, f)
  BY Zenon DEF Sound, Relies, Moved
<1>2. Registered(l, fs, f, te)
  BY Zenon DEF Sound, Registered, Moved
<1>3. /\ Mapping(es) \in Nat /\ Mapping(fs) \in Nat /\ Len(e.left) \in Nat
      /\ e.kind # "exec" => Mapping(fs) = Mapping(es)
      /\ f.left = e.left /\ f.kind = e.kind /\ f.step = x
  BY MappingNat, ReportFields, LenProperties, Zenon DEF Moved
<1> DEFINE m == Mapping(es)
           n == Mapping(fs)
           k == Len(e.left)
<1>4. e.kind = "entry" => v + k <= n + (IF x = "returning" THEN 1 ELSE 0)
  BY <1>3 DEF Sound, Saved
<1>5. e.kind = "exit" => v <= k
  BY <1>3 DEF Sound, Saved
<1>6. e.kind \notin {"entry", "exit"} => v <= IF s = "none" THEN 0 ELSE n
  BY <1>3 DEF Sound, Saved
<1> QED
  BY <1>1, <1>2, <1>3, <1>4, <1>5, <1>6, Zenon DEF Sound, Saved

\* A report goes on to the next engine, or is over.
LEMMA SoundRest ==
    ASSUME NEW l, NEW s, NEW es \in Seq(Engine), NEW e \in Reports, NEW td, NEW u \in Nat,
           Sound(l, s, es, e, td, u), NEW f, Rest(e, f),
           NEW fs \in Seq(Engine), e.kind # "death" => fs = es,
           \A o \in td : HasEngine(fs, o),
           e.kind = "death" => Head(e.left) \notin td,
           NEW v \in Nat, v <= u, e.kind = "exit" => v <= Len(e.left) - 1
    PROVE  Sound(l, s, fs, f, td, v)
<1>1. Relies(fs, f)
  BY Zenon DEF Sound, Relies, Rest
<1>2. Registered(l, fs, f, td)
  <2>1. e.kind # "none" /\ (l = "dead" => e.kind = "death")
    BY ReportFields, Zenon DEF Sound, Registered, Kinds
  <2>2. ASSUME l = "dead", NEW o \in td PROVE \E i \in DOMAIN f.left : f.left[i] = o
    <3>1. PICK j \in DOMAIN e.left : e.left[j] = o
      BY <2>2, Zenon DEF Sound, Registered
    <3> QED
      BY <2>1, <2>2, <3>1, Zenon DEF Rest
  <2>3. f.kind = "none" \/ (f.kind = e.kind /\ f.step # "returning")
    BY Zenon DEF Rest
  <2> QED
    BY <2>2, <2>3, Zenon DEF Sound, Registered, Rest
<1>3. /\ Mapping(es) \in Nat /\ Mapping(fs) \in Nat /\ Len(e.left) \in Nat \ {0}
      /\ e.kind # "death" => Mapping(fs) = Mapping(es)
      /\ Len(f.left) = Len(e.left) - 1 /\ f.step = "next"
  BY MappingNat, ReportFields, EmptySeq, Zenon DEF Rest
<1>4. f.kind = "none" => Len(e.left) = 1
  <2>1. f.kind = "none" => Len(f.left) = 0
    BY EmptySeq, ReportFields, Zenon DEF Rest
  <2> QED
    BY <1>3, <2>1
<1> DEFINE n == Mapping(fs)
           k == Len(e.left)
<1>5. e.kind = "entry" => s # "none" /\ v + (k - 1) <= n
  BY <1>3 DEF Sound, Saved
<1>6. e.kind \notin {"entry", "exit"} => v <= IF s = "none" THEN 0 ELSE n
  BY <1>3 DEF Sound, Saved
<1>7. e.kind \in {"clone", "exec", "death", "exit"} => s = "none"
  BY Zenon DEF Sound, Saved
<1>8. Saved(s, fs, f, v)
  <2>1. CASE f.kind = "none"
    <3>1. e.kind \in {"clone", "exec", "death", "entry", "exit", "quiesce"}
      BY ReportFields, Zenon DEF Kinds
    <3>2. v <= IF s = "none" THEN 0 ELSE n
      <4> HIDE DEF n, k
      <4>1. k = 1 /\ n \in Nat /\ (e.kind = "exit" => v <= k - 1)
        BY <1>3, <1>4, <2>1, Zenon DEF n, k
      <4> QED
        BY <1>5, <1>6, <1>7, <4>1
    <3> QED
      BY <2>1, <3>2, Zenon DEF Saved
  <2>2. CASE f.kind = e.kind
    BY <1>3, <1>5, <1>6, <1>7, <2>2 DEF Saved
  <2> QED
    BY <2>1, <2>2, Zenon DEF Rest
<1> QED
  BY <1>1, <1>2, <1>8, Zenon DEF Sound

\* The engines that an event of kind k is reported to.
Concerned(k) ==
    CASE k \in {"clone", "exec"} -> OfFinder
      [] k \in {"entry", "exit"} -> OfMaps
      [] k = "quiesce"           -> Quiescing
      [] OTHER                   -> Engine

\* The report of an event begins in a thread that had none.
LEMMA SoundBegins ==
    ASSUME NEW l, NEW s, NEW es \in Seq(Engine), NEW td, NEW u \in Nat,
           Sound("alive", s, es, NoEvent, td, u),
           NEW k \in Kinds, NEW c, NEW f, Begins(es, k, Concerned(k), c, f),
           NEW r, l = IF k = "death" THEN "dead" ELSE "alive",
           k \notin {"exit", "quiesce"} => s = "none",
           k = "entry" => r # "none", k = "quiesce" => r = s,
           k \notin {"entry", "quiesce"} => r = "none"
    PROVE  Sound(l, r, es, f, td, u)
<1>1. NoEvent.kind = "none" /\ f.step = "next" /\ (f.kind = "none" \/ f.kind = k)
  BY ReportFields, Zenon DEF Begins
<1>2. \A i \in DOMAIN f.left : \E j \in DOMAIN es : es[j] \in Concerned(k) /\ f.left[i] = es[j].ops
  BY Zenon DEF Begins
<1>3. Relies(es, f)
  <2>1. k \in {"clone", "exec"} => \A e \in Concerned(k) : e.ops = finder
    BY DEF Concerned, OfFinder
  <2>2. f.kind # "none" => f.left # <<>> /\ f.left \in Seq(Ops)
    BY ReportFields, Zenon DEF Begins
  <2>3. f.kind # "none" => 1 \in DOMAIN f.left
    BY <2>2
  <2> QED
    BY <1>1, <1>2, <2>1, <2>3, Zenon DEF Relies, HasEngine
<1>4. Registered(l, es, f, td)
  <2>1. \A o \in td : HasEngine(es, o)
    BY Zenon DEF Sound, Registered
  <2>2. ASSUME k = "death", NEW o \in td PROVE \E i \in DOMAIN f.left : f.left[i] = o
    <3>1. PICK j \in DOMAIN es : es[j].ops = o
      BY <2>1, Zenon DEF HasEngine
    <3>2. es[j] \in Concerned(k)
      BY <2>2 DEF Concerned
    <3> QED
      BY <3>1, <3>2, Zenon DEF Begins
  <2> QED
    BY <1>1, <2>1, <2>2, Zenon DEF Registered
<1> DEFINE m == Mapping(es)
           n == Len(f.left)
<1>5. m \in Nat /\ u <= (IF s = "none" THEN 0 ELSE m)
  BY <1>1, MappingNat, Zenon DEF Sound, Saved
<1>6. n \in Nat /\ (f.kind = "none" => n = 0)
  BY ReportFields, EmptySeq, LenProperties, Zenon DEF Begins
<1>7. k \in {"entry", "exit"} => n = m
  BY DEF Begins, Concerned, Mapping
<1> HIDE DEF m, n
<1>8. /\ k = "entry" => r # "none" /\ u + n <= m
      /\ k = "exit" => u <= n
      /\ k # "entry" /\ (k = "exit" => f.kind = "none") => u <= IF r = "none" THEN 0 ELSE m
      /\ u <= m
  <2>1. u <= m
    BY <1>5
  <2>2. k = "entry" => u + n <= m
    BY <1>5, <1>6, <1>7
  <2>3. k = "exit" => u <= n
    BY <1>7, <2>1
  <2>4. ASSUME k # "entry", k = "exit" => f.kind = "none"
        PROVE  u <= IF r = "none" THEN 0 ELSE m
    <3>1. CASE k = "quiesce"
      BY <1>5, <3>1, Zenon
    <3>2. CASE k = "exit"
      BY <1>6, <1>7, <2>1, <2>4, <3>2, Zenon
    <3>3. CASE k \notin {"quiesce", "exit"}
      BY <1>5, <2>4, <3>3, Zenon
    <3> QED
      BY <3>1, <3>2, <3>3, Zenon
  <2> QED
    BY <2>1, <2>2, <2>3, <2>4, Zenon
<1>9. Saved(r, es, f, u)
  <2>1. CASE f.kind = "none"
    BY <1>1, <1>8, <2>1, Zenon DEF Saved, m
  <2>2. CASE f.kind = k
    <3>1. m + (IF f.step = "returning" THEN 1 ELSE 0) = m
      BY <1>1, <1>5
    <3> QED
      BY <1>1, <1>8, <2>2, <3>1, Zenon DEF Saved, m, n
  <2> QED
    BY <1>1, <2>1, <2>2, Zenon
<1> QED
  BY <1>3, <1>4, <1>9, Zenon DEF Sound
=============================================================================
