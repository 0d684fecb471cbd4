------------------------- MODULE RelayBufferProofs -------------------------
(***************************************************************************)
(* What stapio writes of a trace buffer, for any size and number of sub-   *)
(* buffers and any interleaving of probes and reader: an unbroken run of   *)
(* the cells that were accepted, with nothing left at the end.             *)
(***************************************************************************)
EXTENDS RelayBuffer, SequenceTheorems, WellFoundedInduction, TLAPS

-----------------------------------------------------------------------------
(* Runs of cells *)

\* The cells after the a-th up to the b-th.
Run(a, b) == [k \in 1..(b - a) |-> a + k]

\* A run is a sequence of its length.
LEMMA RunSeq ==
  ASSUME NEW a \in Nat, NEW b \in Nat, a <= b
  PROVE  Run(a, b) \in Seq(Nat) /\ Len(Run(a, b)) = b - a
BY DEF Run

\* The empty run.
LEMMA RunEmpty ==
  ASSUME NEW a \in Nat
  PROVE  Run(a, a) = <<>>
BY RunSeq, EmptySeq

\* Adjacent runs make one run.
LEMMA RunConcat ==
  ASSUME NEW a \in Nat, NEW b \in Nat, NEW c \in Nat, a <= b, b <= c
  PROVE  Run(a, b) \o Run(b, c) = Run(a, c)
<1> DEFINE u == Run(a, b)
           v == Run(b, c)
           w == Run(a, c)
<1>1. u \in Seq(Nat) /\ Len(u) = b - a
  BY RunSeq, Zenon
<1>2. v \in Seq(Nat) /\ Len(v) = c - b
  BY RunSeq, Zenon
<1>3. w \in Seq(Nat) /\ Len(w) = c - a
  <2>1. a <= c
    OBVIOUS
  <2> QED
    BY <2>1, RunSeq, Zenon
<1>4. \A i \in 1..(c - a) : w[i] = IF i <= b - a THEN u[i] ELSE v[i - (b - a)]
  BY DEF Run
<1> HIDE DEF u, v, w
<1>5. /\ u \o v \in Seq(Nat) /\ Len(u \o v) = Len(u) + Len(v)
      /\ \A i \in 1..(Len(u) + Len(v)) :
           (u \o v)[i] = IF i <= Len(u) THEN u[i] ELSE v[i - Len(u)]
  BY <1>1, <1>2, ConcatProperties, Zenon
<1>6. Len(u) + Len(v) = c - a
  BY <1>1, <1>2
<1>7. u \o v = w
  BY <1>1, <1>3, <1>4, <1>5, <1>6, SeqEqual, Zenon
<1> QED
  BY <1>7 DEF u, v, w

\* The end of a run is a run.
LEMMA RunSuffix ==
  ASSUME NEW a \in Nat, NEW b \in Nat, NEW n \in Nat, a + n <= b
  PROVE  SubSeq(Run(a, b), n + 1, Len(Run(a, b))) = Run(a + n, b)
<1> DEFINE u == Run(a, b)
           v == Run(a + n, b)
           s == SubSeq(u, n + 1, b - a)
<1>1. u \in Seq(Nat) /\ Len(u) = b - a
  <2>1. a <= b
    OBVIOUS
  <2> QED
    BY <2>1, RunSeq, Zenon
<1>2. v \in Seq(Nat) /\ Len(v) = b - a - n
  <2>1. a + n \in Nat /\ b - (a + n) = b - a - n
    OBVIOUS
  <2> QED
    BY <2>1, RunSeq, Zenon
<1>3. \A i \in 1..(b - a - n) : v[i] = u[n + i]
  BY DEF Run
<1>4. \A i \in (n + 1)..(b - a) : u[i] \in Nat
  BY DEF Run
<1> HIDE DEF u, v
<1>5. /\ s \in Seq(Nat)
      /\ Len(s) = b - a - n
      /\ \A i \in 1..(b - a - n) : s[i] = u[n + i]
  BY <1>4
<1> HIDE DEF s
<1>6. s = v
  BY <1>2, <1>3, <1>5, SeqEqual, Zenon
<1> QED
  BY <1>1, <1>6, Zenon DEF s, u, v

-----------------------------------------------------------------------------
(* The ring *)

\* Of as many numbers in a row as there are slots no two share a slot.
LEMMA SlotsApart ==
  ASSUME NEW i \in Nat, NEW j \in Nat, i < j, j < i + NSubbufs
  PROVE  Slot(i) # Slot(j)
<1> DEFINE n == NSubbufs
           q == i \div n
           r == j \div n
<1>1. /\ q \in Int /\ r \in Int /\ n \in Nat \ {0}
      /\ i = (n * q) + (i % n) /\ j = (n * r) + (j % n)
      /\ i % n \in Int /\ j % n \in Int
  BY RelayAssumption
<1> SUFFICES ASSUME i % n = j % n PROVE FALSE
  BY DEF Slot
<1>2. j - i = (n * r) - (n * q) /\ 0 < j - i /\ j - i < n
  BY <1>1
<1> HIDE DEF n, q, r
<1>3. CASE r <= q
  <2>1. n * r <= n * q
    BY <1>1, <1>3
  <2> QED
    BY <1>1, <1>2, <2>1
<1>4. CASE q + 1 <= r
  <2>1. n * (q + 1) <= n * r /\ n * (q + 1) = (n * q) + n
    BY <1>1, <1>4
  <2> QED
    BY <1>1, <1>2, <2>1
<1> QED
  BY <1>1, <1>3, <1>4

\* A slot is one of the buffer's.
LEMMA SlotIn ==
  ASSUME NEW i \in Nat
  PROVE  Slot(i) \in 0..(NSubbufs - 1)
BY RelayAssumption DEF Slot

-----------------------------------------------------------------------------
(* The invariant *)

\* The newest sub-buffer that was started; Produced is the one to come.
Newest == Produced - 1

\* What the ring holds: the newest NSubbufs.
Held(i) == Newest - NSubbufs < i /\ i <= Newest

\* The ring holds the cells in their order: start[i] of them were accepted before
\* sub-buffer i was started.
Laid(start) ==
  /\ start \in [Nat -> Nat]
  /\ start[Produced] = ncells
  /\ \A i \in Nat : Held(i) =>
       /\ start[i] <= start[i + 1] /\ start[i + 1] <= ncells
       /\ subbuf[Slot(i)] = Run(start[i], start[i + 1])

\* The last cell that is behind the reader.
Behind(start) == start[ReadSubbuf] + ReadByte

\* What the reader was given.
Given(start) ==
  Attached /\ ~failed /\ ~torn /\ ~Misplaced =>
    \E f \in 0..Behind(start) : out = Run(f, Behind(start)) /\ (attaches = 0 => f = 0)

Flow == \E start : Laid(start) /\ Given(start)

\* The reader's place is in the ring, and within its sub-buffer; the writer's
\* place is the end of the newest one.
Places ==
  /\ offset # Full => offset = Len(subbuf[Slot(subbufs_produced)])
  /\ offset = Full => subbufs_produced > 0
  /\ subbufs_consumed = Produced => bytes_consumed = 0
  /\ Held(subbufs_consumed) => bytes_consumed <= Len(subbuf[Slot(subbufs_consumed)])

\* The types those rest on.
Shape ==
  /\ subbufs_produced \in Nat /\ subbufs_consumed \in 0..subbufs_produced
  /\ bytes_consumed \in Nat /\ offset \in 0..Full /\ ncells \in Nat
  /\ subbuf \in [0..(NSubbufs - 1) -> Seq(Nat)]

\* The bounds of a flush in two parts hold for its second part.
Bounds ==
  /\ transport_state = "STOPPED" => pdu = 0
  /\ pdu # 0 => build.bulk /\ ncells + pdu <= MaxCells /\ dropped < MaxDropped
  /\ transport_state = "RUNNING" => dropped <= MaxDropped

\* The end of a session: relay_flush leaves no sub-buffer open that has cells; a
\* reader that stops has found the buffer empty after it, or is not fresh.
Ending ==
  /\ Attached => ~overwrite_flag
  /\ transport_state = "STOPPED" => offset = Full \/ offset = 0
  /\ rpc = "done" => failed \/ stop_threads
  /\ rpc = "empty" /\ transport_state = "STOPPED" => ~fresh
  /\ transport_state = "STOPPED" /\ rpc = "done" /\ ~failed /\ fresh =>
       subbufs_produced = subbufs_consumed

RelayInv == TypeOK /\ Shape /\ Places /\ Flow /\ Bounds /\ Ending

-----------------------------------------------------------------------------
(* What is not read yet *)

\* Every nonempty set of numbers has a least one.
LEMMA Least ==
  ASSUME NEW T \in SUBSET Nat, T # {}
  PROVE  \E n \in T : \A k \in T : n <= k
<1> DEFINE R == {p \in Nat \X Nat : p[1] < p[2]}
<1>1. IsWellFoundedOn(R, Nat)
  BY NatLessThanWellFounded DEF OpToRel
<1>2. PICK n \in T : \A k \in T : ~(<<k, n>> \in R)
  BY <1>1, WFMin, Zenon
<1>3. ASSUME NEW k \in T PROVE n <= k
  <2>1. k \in Nat /\ n \in Nat /\ (k < n => <<k, n>> \in R)
    OBVIOUS
  <2>2. ~(k < n)
    BY <1>2, <2>1, Zenon
  <2> QED
    BY <2>1, <2>2
<1> QED
  BY <1>3

\* Behind the reader's place follows the rest of its sub-buffer.
LEMMA RestOfSubbuf ==
  ASSUME NEW start, Laid(start), NEW i \in Nat, Held(i), NEW n \in Nat, start[i] + n <= start[i + 1]
  PROVE  CellsFrom(i, n) = Run(start[i] + n, start[i + 1])
<1>1. start[i] \in Nat /\ start[i + 1] \in Nat /\ subbuf[Slot(i)] = Run(start[i], start[i + 1])
  BY DEF Laid
<1>2. SubSeq(Run(start[i], start[i + 1]), n + 1, Len(Run(start[i], start[i + 1])))
        = Run(start[i] + n, start[i + 1])
  BY <1>1, RunSuffix, Zenon
<1> QED
  BY <1>1, <1>2, Zenon DEF CellsFrom

\* The cells that are not read yet are those after the reader's place, to the
\* newest: Unread satisfies its recursive definition, which no other function
\* does, since the last place where two of them differ would not be the last.
LEMMA UnreadRun ==
  ASSUME NEW start, Laid(start), Places, Shape, ~Misplaced
  PROVE  /\ Behind(start) \in 0..ncells
         /\ Unread = Run(Behind(start), ncells)
<1> DEFINE r == ReadSubbuf
           S == r..(subbufs_produced + 1)
           from(i) == IF i = r THEN ReadByte ELSE 0
           body(h) == [i \in S |-> IF ~InBuffer(i) THEN <<>>
                                   ELSE CellsFrom(i, IF i = ReadSubbuf THEN ReadByte ELSE 0) \o h[i + 1]]
           rest == CHOOSE h : h = body(h)
           g == [i \in S |-> IF InBuffer(i) THEN Run(start[i] + from(i), ncells) ELSE <<>>]
<1>0. /\ subbufs_produced \in Nat /\ subbufs_consumed \in 0..subbufs_produced
      /\ bytes_consumed \in Nat /\ offset \in 0..Full /\ ncells \in Nat
      /\ NSubbufs \in Nat \ {0} /\ SubbufSize \in Nat \ {0}
  BY RelayAssumption DEF Shape
<1>1. /\ r \in Nat /\ r <= Produced /\ Produced \in Nat /\ ReadByte \in Nat
      /\ \A i \in S : InBuffer(i) <=> i < Produced
      /\ \A i \in S : InBuffer(i) => i \in Nat /\ Held(i) /\ i + 1 \in S
  BY <1>0 DEF ReadSubbuf, ReadByte, Lapped, Misplaced, InBuffer, Held, Newest, Produced, Full
<1>2. ReadByte = 0 \/ (r = subbufs_consumed /\ ReadByte = bytes_consumed)
  BY DEF ReadSubbuf, ReadByte
<1>3. start \in [Nat -> Nat] /\ start[Produced] = ncells
  BY DEF Laid
<1>4. ASSUME NEW i \in S, InBuffer(i)
      PROVE  /\ start[i] \in Nat /\ start[i + 1] \in Nat /\ from(i) \in Nat
             /\ start[i] + from(i) <= start[i + 1] /\ start[i + 1] <= ncells
  <2>1. /\ i \in Nat /\ Held(i) /\ i + 1 \in Nat
    BY <1>1, <1>4
  <2>2. /\ start[i] \in Nat /\ start[i + 1] \in Nat
        /\ start[i] <= start[i + 1] /\ start[i + 1] <= ncells
        /\ subbuf[Slot(i)] = Run(start[i], start[i + 1])
    BY <1>3, <2>1 DEF Laid
  <2>3. Len(subbuf[Slot(i)]) = start[i + 1] - start[i]
    BY <2>2, RunSeq, Zenon
  <2>4. from(i) = 0 \/ (i = subbufs_consumed /\ from(i) = bytes_consumed)
    BY <1>2
  <2>5. i = subbufs_consumed => bytes_consumed <= start[i + 1] - start[i]
    BY <2>1, <2>3 DEF Places
  <2> HIDE DEF from
  <2> QED
    BY <1>0, <2>2, <2>4, <2>5
<1>5. ASSUME NEW i \in S, InBuffer(i)
      PROVE  CellsFrom(i, from(i)) = Run(start[i] + from(i), start[i + 1])
  <2>1. i \in Nat /\ Held(i)
    BY <1>1, <1>5
  <2> HIDE DEF from
  <2> QED
    BY <2>1, <1>4, <1>5, RestOfSubbuf, Zenon
<1>6. ASSUME NEW i \in S, InBuffer(i)
      PROVE  g[i + 1] = Run(start[i + 1], ncells)
  <2>1. i + 1 \in S /\ i + 1 # r /\ i + 1 \in Nat /\ (~InBuffer(i + 1) => i + 1 = Produced)
    BY <1>1, <1>6
  <2>2. start[i + 1] \in Nat /\ start[i + 1] + 0 = start[i + 1]
    BY <1>4, <1>6
  <2>3. CASE InBuffer(i + 1)
    <3>1. from(i + 1) = 0
      BY <2>1, Zenon
    <3> QED
      BY <2>1, <2>2, <2>3, <3>1, Zenon
  <2>4. CASE ~InBuffer(i + 1)
    <3>1. g[i + 1] = <<>>
      BY <2>1, <2>4, Zenon
    <3> QED
      BY <2>1, <2>2, <2>4, <1>3, <3>1, RunEmpty, Zenon
  <2> QED
    BY <2>3, <2>4, Zenon
<1>7. ASSUME NEW i \in S, InBuffer(i)
      PROVE  Run(start[i] + from(i), ncells) = CellsFrom(i, from(i)) \o g[i + 1]
  <2>1. start[i] + from(i) \in Nat
    BY <1>4, <1>7
  <2>2. /\ start[i + 1] \in Nat /\ start[i] + from(i) <= start[i + 1] /\ start[i + 1] <= ncells
    BY <1>4, <1>7, Zenon
  <2>3. /\ CellsFrom(i, from(i)) = Run(start[i] + from(i), start[i + 1])
        /\ g[i + 1] = Run(start[i + 1], ncells)
    BY <1>5, <1>6, <1>7, Zenon
  <2>4. ncells \in Nat
    BY <1>0, Zenon
  <2> HIDE DEF from, g
  <2>5. Run(start[i] + from(i), start[i + 1]) \o Run(start[i + 1], ncells)
          = Run(start[i] + from(i), ncells)
    BY <2>1, <2>2, <2>4, RunConcat, Zenon
  <2> QED
    BY <2>3, <2>5, Zenon
<1>8. g = body(g)
  <2>1. ASSUME NEW i \in S PROVE g[i] = body(g)[i]
    <3>1. CASE InBuffer(i)
      <4>1. g[i] = Run(start[i] + from(i), ncells)
        BY <3>1, Zenon
      <4>2. body(g)[i] = CellsFrom(i, from(i)) \o g[i + 1]
        BY <3>1, Zenon
      <4> QED
        BY <3>1, <4>1, <4>2, <1>7, Zenon
    <3>2. CASE ~InBuffer(i)
      BY <3>2, Zenon
    <3> QED
      BY <3>1, <3>2, Zenon
  <2> QED
    BY <2>1, Zenon
<1>9. ASSUME NEW h, h = body(h) PROVE h = g
  <2> DEFINE Q == subbufs_produced + 1
             T == {n \in 0..(Q - r) : h[Q - n] # g[Q - n]}
  <2>1. Q \in Nat /\ r <= Q
    BY <1>0, <1>1 DEF Produced
  <2>2. CASE T = {}
    <3>1. ASSUME NEW i \in S PROVE h[i] = g[i]
      <4>1. Q - i \in 0..(Q - r) /\ Q - (Q - i) = i
        BY <1>1, <2>1
      <4> HIDE DEF g, Q
      <4> QED
        BY <2>2, <4>1, Zenon
    <3>2. h = [i \in S |-> h[i]] /\ g = [i \in S |-> g[i]]
      BY <1>9, Zenon
    <3> QED
      BY <3>1, <3>2, Zenon
  <2>3. CASE T # {}
    <3>1. T \in SUBSET Nat
      BY <1>1, <2>1
    <3>2. PICK n \in T : \A k \in T : n <= k
      BY <2>3, <3>1, Least, Zenon
    <3>3. /\ n \in 0..(Q - r) /\ h[Q - n] # g[Q - n]
      BY <3>2, Zenon
    <3>4. Q - n \in S
      BY <1>1, <2>1, <3>3
    <3>5. InBuffer(Q - n)
      BY <1>8, <1>9, <3>3, <3>4, Zenon
    <3>6. n - 1 \in 0..(Q - r) /\ Q - (n - 1) = (Q - n) + 1 /\ ~(n <= n - 1)
      BY <1>0, <1>1, <2>1, <3>3, <3>4, <3>5 DEF Produced
    <3>7. h[(Q - n) + 1] = g[(Q - n) + 1]
      <4> HIDE DEF g, Q
      <4> QED
        BY <3>2, <3>6, Zenon
    <3>8. /\ h[Q - n] = CellsFrom(Q - n, from(Q - n)) \o h[(Q - n) + 1]
          /\ g[Q - n] = CellsFrom(Q - n, from(Q - n)) \o g[(Q - n) + 1]
      <4> DEFINE i == Q - n
      <4>1. body(h)[i] = CellsFrom(i, from(i)) \o h[i + 1]
        BY <3>4, <3>5, Zenon
      <4>2. body(g)[i] = CellsFrom(i, from(i)) \o g[i + 1]
        BY <3>4, <3>5, Zenon
      <4> HIDE DEF body, g
      <4> QED
        BY <4>1, <4>2, <1>8, <1>9, Zenon
    <3> QED
      BY <3>3, <3>7, <3>8, Zenon
  <2> QED
    BY <2>2, <2>3, Zenon
<1>10. rest = g
  BY <1>8, <1>9, Zenon
<1>11. Unread = rest[r]
  BY Zenon DEF Unread
<1>12. r \in S
  BY <1>0, <1>1 DEF Produced
<1>13. CASE InBuffer(r)
  <2>1. g[r] = Run(start[r] + ReadByte, ncells)
    BY <1>12, <1>13, Zenon
  <2>2. start[r] + ReadByte \in 0..ncells
    BY <1>0, <1>1, <1>4, <1>12, <1>13
  <2> QED
    BY <1>10, <1>11, <2>1, <2>2, Zenon DEF Behind
<1>14. CASE ~InBuffer(r)
  <2>1. g[r] = <<>>
    BY <1>12, <1>14, Zenon
  <2>2. r = Produced /\ ReadByte = 0
    <3>1. r = Produced
      BY <1>0, <1>1, <1>12, <1>14
    <3> QED
      BY <1>0, <3>1 DEF ReadSubbuf, ReadByte, Lapped, Produced, Places
  <2>3. start[r] + ReadByte = ncells /\ ncells \in 0..ncells
    BY <1>0, <1>3, <2>2
  <2> QED
    <3>1. Run(ncells, ncells) = <<>>
      BY <1>0, RunEmpty, Zenon
    <3> QED
      BY <1>10, <1>11, <2>1, <2>3, <3>1, Zenon DEF Behind
<1> QED
  BY <1>13, <1>14, Zenon

-----------------------------------------------------------------------------
(* The writer *)

\* The cells of a reservation are the run after those accepted before.
LEMMA NewRun ==
  ASSUME NEW a \in Nat, NEW n \in Nat
  PROVE  [i \in 1..n |-> a + i] = Run(a, a + n)
<1>1. (a + n) - a = n
  OBVIOUS
<1> QED
  BY <1>1, Zenon DEF Run

\* t has c at k, and else what start has.
Adds(t, start, k, c) == t[k] = c /\ \A i \in Nat : i # k => t[i] = start[i]

\* One more entry in the table of starts.
LEMMA NextStart ==
  ASSUME NEW start \in [Nat -> Nat], NEW k \in Nat, NEW c \in Nat
  PROVE  \E t \in [Nat -> Nat] : Adds(t, start, k, c)
<1> DEFINE t == [start EXCEPT ![k] = c]
<1>1. t \in [Nat -> Nat] /\ t[k] = c /\ \A i \in Nat : i # k => t[i] = start[i]
  OBVIOUS
<1> QED
  BY <1>1, Zenon DEF Adds

\* A reservation that fits extends the newest sub-buffer.
LEMMA FitLaid ==
  ASSUME Shape, Places, NEW start, Laid(start), NEW len \in 1..SubbufSize,
         offset + len <= SubbufSize, Reserve(len)
  PROVE  /\ \E t : Laid(t)' /\ Behind(t)' = Behind(start)
         /\ Places' /\ Shape' /\ Misplaced' = Misplaced
<1> DEFINE p == subbufs_produced
           cells == [i \in 1..len |-> ncells + i]
<1>0. /\ p \in Nat /\ subbufs_consumed \in 0..p
      /\ bytes_consumed \in Nat /\ offset \in 0..Full /\ ncells \in Nat
      /\ NSubbufs \in Nat \ {0} /\ SubbufSize \in Nat \ {0} /\ len \in Nat
  BY RelayAssumption DEF Shape
<1>1. /\ offset' = offset + len /\ ncells' = ncells + len
      /\ subbufs_produced' = p /\ subbufs_consumed' = subbufs_consumed
      /\ bytes_consumed' = bytes_consumed
  BY Zenon DEF Reserve, Accepts, taken
<1>2. subbuf' = [subbuf EXCEPT ![Slot(p)] = @ \o cells] /\ subbuf \in [0..(NSubbufs - 1) -> Seq(Nat)]
  BY Zenon DEF Reserve, Shape
<1>3. /\ offset # Full /\ offset' # Full /\ offset' \in 0..Full
  BY <1>0, <1>1 DEF Full
<1>4. Produced = p + 1 /\ Produced' = p + 1
  BY <1>1, <1>3, Zenon DEF Produced
<1>5. start \in [Nat -> Nat] /\ start[p + 1] = ncells
  BY <1>4, Zenon DEF Laid
<1>6. \A i : (Held(i) <=> p - NSubbufs < i /\ i <= p) /\ (Held(i)' <=> Held(i))
  <2>1. Newest = p /\ Newest' = p
    BY <1>0, <1>4 DEF Newest
  <2> QED
    BY <2>1, Zenon DEF Held
<1>7. Held(p) /\ p + 1 \in Nat
  BY <1>0, <1>6
<1>8. start[p] \in Nat /\ start[p] <= ncells /\ subbuf[Slot(p)] = Run(start[p], ncells)
  <2>1. start[p] \in Nat
    BY <1>0, <1>5
  <2> QED
    BY <1>0, <1>5, <1>7, <2>1, Zenon DEF Laid
<1>9. subbuf'[Slot(p)] = Run(start[p], ncells + len)
  <2>1. Slot(p) \in 0..(NSubbufs - 1)
    BY <1>0, SlotIn, Zenon
  <2>2. subbuf'[Slot(p)] = subbuf[Slot(p)] \o cells
    BY <1>2, <2>1, Zenon
  <2>3. cells = Run(ncells, ncells + len)
    BY <1>0, NewRun, Zenon
  <2>4. ncells + len \in Nat /\ ncells <= ncells + len
    BY <1>0
  <2>5. Run(start[p], ncells) \o Run(ncells, ncells + len) = Run(start[p], ncells + len)
    BY <1>0, <1>8, <2>4, RunConcat, Zenon
  <2> HIDE DEF cells
  <2> QED
    BY <1>8, <2>2, <2>3, <2>5, Zenon
<1>10. ASSUME NEW i \in Nat, Held(i), i # p PROVE i < p /\ subbuf'[Slot(i)] = subbuf[Slot(i)]
  <2>1. i < p /\ p < i + NSubbufs
    BY <1>0, <1>6, <1>10
  <2>2. Slot(i) # Slot(p)
    BY <1>0, <2>1, SlotsApart, Zenon
  <2>3. Slot(i) \in 0..(NSubbufs - 1)
    BY SlotIn, Zenon
  <2> QED
    BY <1>2, <2>1, <2>2, <2>3, Zenon
<1>a. PICK t \in [Nat -> Nat] : Adds(t, start, p + 1, ncells + len)
  <2>1. ncells + len \in Nat
    BY <1>0
  <2> QED
    BY <1>5, <1>7, <2>1, NextStart, Zenon
<1>11. /\ t \in [Nat -> Nat] /\ t[p + 1] = ncells + len
       /\ \A i \in Nat : i # p + 1 => t[i] = start[i]
  BY <1>a, Zenon DEF Adds
<1>12. ASSUME NEW i \in Nat, Held(i)
      PROVE  /\ t[i] <= t[i + 1] /\ t[i + 1] <= ncells + len
             /\ subbuf'[Slot(i)] = Run(t[i], t[i + 1])
  <2>1. CASE i = p
    <3>1. t[i] = start[p] /\ t[i + 1] = ncells + len
      <4>1. p # p + 1
        BY <1>0
      <4> QED
        BY <1>0, <1>11, <2>1, <4>1, Zenon
    <3>2. start[p] <= ncells + len /\ ncells + len <= ncells + len
      BY <1>0, <1>8
    <3> QED
      BY <1>9, <2>1, <3>1, <3>2, Zenon
  <2>2. CASE i # p
    <3>1. i < p /\ subbuf'[Slot(i)] = subbuf[Slot(i)]
      BY <1>10, <1>12, <2>2, Zenon
    <3>2. i # p + 1 /\ i + 1 # p + 1 /\ i + 1 \in Nat
      BY <1>0, <3>1
    <3>3. t[i] = start[i] /\ t[i + 1] = start[i + 1] /\ start[i + 1] \in Nat
      BY <1>5, <1>11, <3>2, Zenon
    <3>4. /\ start[i] <= start[i + 1] /\ start[i + 1] <= ncells
          /\ subbuf[Slot(i)] = Run(start[i], start[i + 1])
      BY <1>12, Zenon DEF Laid
    <3>5. start[i + 1] <= ncells + len
      BY <1>0, <3>3, <3>4
    <3> QED
      BY <3>1, <3>3, <3>4, <3>5, Zenon
  <2> QED
    BY <2>1, <2>2, Zenon
<1>13. Laid(t)'
  BY <1>1, <1>4, <1>6, <1>11, <1>12, Zenon DEF Laid, Slot
<1>14. Len(subbuf[Slot(p)]) = ncells - start[p] /\ Len(subbuf'[Slot(p)]) = (ncells + len) - start[p]
  <2>1. ncells + len \in Nat /\ start[p] <= ncells + len
    BY <1>0, <1>8
  <2> QED
    BY <1>0, <1>8, <1>9, <2>1, RunSeq, Zenon
<1>15. Places'
  <2>1. offset' = Len(subbuf'[Slot(p)])
    <3>1. offset = Len(subbuf[Slot(p)])
      BY <1>3, Zenon DEF Places
    <3>2. start[p] \in Nat
      BY <1>8, Zenon
    <3> DEFINE a == start[p]
               m == Len(subbuf[Slot(p)])
               n == Len(subbuf'[Slot(p)])
    <3>3. a \in Nat /\ m = ncells - a /\ n = (ncells + len) - a /\ offset = m
      BY <1>14, <3>1, <3>2, Zenon
    <3> HIDE DEF a, m, n
    <3>4. offset' = n
      BY <1>0, <1>1, <3>3
    <3> QED
      BY <3>4, Zenon DEF n
  <2>2. subbufs_consumed # p + 1
    BY <1>0
  <2>3. ASSUME Held(subbufs_consumed)
        PROVE bytes_consumed <= Len(subbuf'[Slot(subbufs_consumed)])
    <3>1. bytes_consumed <= Len(subbuf[Slot(subbufs_consumed)])
      BY <2>3, Zenon DEF Places
    <3>2. CASE subbufs_consumed = p
      <4> DEFINE a == start[p]
                 m == Len(subbuf[Slot(p)])
                 n == Len(subbuf'[Slot(p)])
      <4>1. a \in Nat /\ m = ncells - a /\ n = (ncells + len) - a /\ bytes_consumed <= m
        BY <1>8, <1>14, <3>1, <3>2, Zenon
      <4> HIDE DEF a, m, n
      <4>2. bytes_consumed <= n
        BY <1>0, <4>1
      <4> QED
        BY <3>2, <4>2, Zenon DEF n
    <3>3. CASE subbufs_consumed # p
      <4>1. subbufs_consumed \in Nat
        BY <1>0
      <4> QED
        BY <1>10, <2>3, <3>1, <3>3, <4>1, Zenon
    <3> QED
      BY <3>2, <3>3, Zenon
  <2> QED
    BY <1>1, <1>3, <1>4, <1>6, <2>1, <2>2, <2>3, Zenon DEF Places, Slot
<1>16. Shape'
  <2>1. subbuf' \in [0..(NSubbufs - 1) -> Seq(Nat)]
    <3>1. cells \in Seq(Nat)
      BY <1>0
    <3>2. \A s \in Seq(Nat) : s \o cells \in Seq(Nat)
      BY <3>1, ConcatProperties, Zenon
    <3> HIDE DEF cells
    <3> QED
      BY <1>2, <3>2, Zenon
  <2>2. ncells + len \in Nat
    BY <1>0
  <2> QED
    BY <1>0, <1>1, <1>3, <2>1, <2>2, Zenon DEF Shape, Full
<1>17. (Misplaced' <=> Misplaced) /\ (Lapped' <=> Lapped)
  BY <1>1, <1>3, Zenon DEF Misplaced, Lapped, Full
<1>18. ReadSubbuf' = ReadSubbuf /\ ReadByte' = ReadByte
  BY <1>1, <1>17, Zenon DEF ReadSubbuf, ReadByte
<1>19. ReadSubbuf # p + 1 /\ ReadSubbuf \in Nat
  BY <1>0 DEF ReadSubbuf, Lapped
<1>20. Behind(t)' = Behind(start)
  BY <1>11, <1>18, <1>19, Zenon DEF Behind
<1>21. Misplaced' = Misplaced
  BY <1>17, Zenon DEF Misplaced
<1> QED
  BY <1>13, <1>15, <1>16, <1>20, <1>21, Zenon

\* A switch that is granted starts the next sub-buffer with the new cells.  It
\* overwrites the oldest one only if stapio is gone.
LEMMA StartLaid ==
  ASSUME Shape, Places, NEW start, Laid(start), NEW len \in 0..SubbufSize,
         NEW cells, cells = Run(ncells, ncells + len), SwitchSubbuf(cells), SubbufStart,
         ncells' = ncells + len, UNCHANGED taken
  PROVE  /\ \E t : Laid(t)' /\ (~overwrite_flag => Behind(t)' = Behind(start))
         /\ Places' /\ Shape' /\ (~overwrite_flag => ~Misplaced)
<1> DEFINE q == Produced
<1>0. /\ subbufs_produced \in Nat /\ subbufs_consumed \in 0..subbufs_produced
      /\ bytes_consumed \in Nat /\ offset \in 0..Full /\ ncells \in Nat
      /\ NSubbufs \in Nat \ {0} /\ SubbufSize \in Nat \ {0} /\ len \in Nat
  BY RelayAssumption DEF Shape
<1>1. q \in Nat /\ subbufs_consumed \in 0..q /\ q + 1 \in Nat
  BY <1>0 DEF Produced
<1> HIDE DEF q
<1>2. cells \in Seq(Nat) /\ Len(cells) = len
  <2>1. ncells + len \in Nat /\ ncells <= ncells + len /\ (ncells + len) - ncells = len
    BY <1>0
  <2> QED
    BY <1>0, <2>1, RunSeq, Zenon
<1>3. /\ subbufs_produced' = q /\ offset' = len
      /\ subbufs_consumed' = subbufs_consumed /\ bytes_consumed' = bytes_consumed
  BY <1>2, Zenon DEF SwitchSubbuf, taken, q
<1>4. subbuf' = [subbuf EXCEPT ![Slot(q)] = cells] /\ subbuf \in [0..(NSubbufs - 1) -> Seq(Nat)]
  BY Zenon DEF SwitchSubbuf, Shape, q
<1>5. /\ offset' # Full /\ offset' \in 0..Full
  BY <1>0, <1>3 DEF Full
<1>6. Produced' = q + 1
  BY <1>3, <1>5, Zenon DEF Produced, Full
<1>7. start \in [Nat -> Nat] /\ start[q] = ncells
  BY Zenon DEF Laid, q
<1>8. ASSUME NEW i \in Nat
      PROVE  (Held(i)' <=> q - NSubbufs < i /\ i <= q) /\ (Held(i)' /\ i # q => Held(i))
  <2>1. Newest = q - 1 /\ Newest' = q
    BY <1>1, <1>6 DEF Newest, q
  <2> QED
    BY <1>0, <1>1, <2>1 DEF Held
<1>9. subbuf'[Slot(q)] = cells
  <2>1. Slot(q) \in 0..(NSubbufs - 1)
    BY <1>1, SlotIn, Zenon
  <2> QED
    BY <1>4, <2>1, Zenon
<1>10. ASSUME NEW i \in Nat, Held(i)', i # q PROVE i < q /\ Held(i) /\ subbuf'[Slot(i)] = subbuf[Slot(i)]
  <2>1. i < q /\ q < i + NSubbufs
    BY <1>0, <1>1, <1>8, <1>10
  <2>2. Slot(i) # Slot(q)
    BY <1>1, <2>1, SlotsApart, Zenon
  <2>3. Slot(i) \in 0..(NSubbufs - 1)
    BY SlotIn, Zenon
  <2> QED
    BY <1>4, <1>8, <1>10, <2>1, <2>2, <2>3, Zenon
<1>a. PICK t \in [Nat -> Nat] : Adds(t, start, q + 1, ncells + len)
  <2>1. ncells + len \in Nat
    BY <1>0
  <2> QED
    BY <1>1, <1>7, <2>1, NextStart, Zenon
<1>11. /\ t \in [Nat -> Nat] /\ t[q + 1] = ncells + len
       /\ \A i \in Nat : i # q + 1 => t[i] = start[i]
  BY <1>a, Zenon DEF Adds
<1>12. ASSUME NEW i \in Nat, Held(i)'
      PROVE  /\ t[i] <= t[i + 1] /\ t[i + 1] <= ncells + len
             /\ subbuf'[Slot(i)] = Run(t[i], t[i + 1])
  <2>1. CASE i = q
    <3>1. q # q + 1 /\ ncells <= ncells + len /\ ncells + len <= ncells + len
      BY <1>0, <1>1
    <3>2. t[i] = ncells /\ t[i + 1] = ncells + len
      BY <1>1, <1>7, <1>11, <2>1, <3>1, Zenon
    <3> QED
      BY <1>9, <2>1, <3>1, <3>2, Zenon
  <2>2. CASE i # q
    <3>1. i < q /\ Held(i) /\ subbuf'[Slot(i)] = subbuf[Slot(i)]
      BY <1>10, <1>12, <2>2, Zenon
    <3>2. i # q + 1 /\ i + 1 # q + 1 /\ i + 1 \in Nat
      BY <1>1, <3>1
    <3>3. t[i] = start[i] /\ t[i + 1] = start[i + 1] /\ start[i + 1] \in Nat
      BY <1>7, <1>11, <3>2, Zenon
    <3>4. /\ start[i] <= start[i + 1] /\ start[i + 1] <= ncells
          /\ subbuf[Slot(i)] = Run(start[i], start[i + 1])
      BY <3>1, Zenon DEF Laid
    <3>5. start[i + 1] <= ncells + len
      BY <1>0, <3>3, <3>4
    <3> QED
      BY <3>1, <3>3, <3>4, <3>5, Zenon
  <2> QED
    BY <2>1, <2>2, Zenon
<1>13. Laid(t)'
  BY <1>6, <1>11, <1>12, Zenon DEF Laid, Slot
<1>14. Places'
  <2>1. offset' = Len(subbuf'[Slot(q)])
    BY <1>2, <1>3, <1>9, Zenon
  <2>2. subbufs_consumed # q + 1 /\ subbufs_consumed \in Nat
    BY <1>1
  <2>3. ASSUME Held(subbufs_consumed)'
        PROVE bytes_consumed <= Len(subbuf'[Slot(subbufs_consumed)])
    <3>1. CASE subbufs_consumed = q
      <4>1. bytes_consumed = 0
        BY <3>1, Zenon DEF Places, q
      <4>2. 0 <= len
        BY <1>0
      <4> QED
        BY <1>2, <1>9, <3>1, <4>1, <4>2, Zenon
    <3>2. CASE subbufs_consumed # q
      <4>1. Held(subbufs_consumed)' <=> (Newest' - NSubbufs < subbufs_consumed /\ subbufs_consumed <= Newest')
        BY <1>3, Zenon DEF Held
      <4>2. Held(subbufs_consumed) /\ subbuf'[Slot(subbufs_consumed)] = subbuf[Slot(subbufs_consumed)]
        BY <1>10, <2>2, <2>3, <3>2, <4>1, Zenon DEF Held
      <4> QED
        BY <4>2, Zenon DEF Places
    <3> QED
      BY <3>1, <3>2, Zenon
  <2> QED
    BY <1>3, <1>5, <1>6, <2>1, <2>2, <2>3, Zenon DEF Places, Slot, Full
<1>15. Shape'
  <2>1. subbuf' \in [0..(NSubbufs - 1) -> Seq(Nat)]
    BY <1>2, <1>4, Zenon
  <2>2. ncells + len \in Nat
    BY <1>0
  <2> QED
    BY <1>0, <1>1, <1>3, <1>5, <2>1, <2>2, Zenon DEF Shape, Full
<1>16. ASSUME ~overwrite_flag PROVE ~Misplaced /\ Behind(t)' = Behind(start)
  <2>1. q - subbufs_consumed < NSubbufs
    BY <1>16, Zenon DEF SubbufStart, q
  <2>2. ~Misplaced /\ ~Lapped
    BY <1>0, <2>1 DEF Misplaced, Lapped, Produced, q
  <2>3. ~Lapped'
    BY <1>0, <1>1, <1>3, <2>1 DEF Lapped
  <2>4. /\ ReadSubbuf = subbufs_consumed /\ ReadByte = bytes_consumed
        /\ ReadSubbuf' = subbufs_consumed /\ ReadByte' = bytes_consumed
    BY <1>3, <2>2, <2>3, Zenon DEF ReadSubbuf, ReadByte
  <2>5. subbufs_consumed \in Nat /\ subbufs_consumed # q + 1
    BY <1>1
  <2> QED
    BY <1>11, <2>2, <2>4, <2>5, Zenon DEF Behind
<1> QED
  BY <1>13, <1>14, <1>15, <1>16, Zenon

\* A switch that is refused leaves the ring as it is.  A reader that had been
\* lapped before is misplaced after it; any other stays where it is.
LEMMA RefusedLaid ==
  ASSUME Shape, Places, NEW start, Laid(start), NEW cells, SwitchSubbuf(cells), ~SubbufStart,
         ncells' = ncells, UNCHANGED taken
  PROVE  /\ Laid(start)' /\ Places' /\ Shape'
         /\ ~Misplaced' => ~Misplaced /\ Behind(start)' = Behind(start)
<1> DEFINE q == Produced
<1>0. /\ subbufs_produced \in Nat /\ subbufs_consumed \in 0..subbufs_produced
      /\ offset \in 0..Full
      /\ NSubbufs \in Nat \ {0} /\ SubbufSize \in Nat \ {0} /\ Full \in Nat
  BY RelayAssumption DEF Shape, Full
<1>1. /\ subbufs_produced' = q /\ offset' = Full /\ subbuf' = subbuf
      /\ subbufs_consumed' = subbufs_consumed /\ bytes_consumed' = bytes_consumed
  BY Zenon DEF SwitchSubbuf, taken
<1>2. Produced' = q
  BY <1>1, Zenon DEF Produced, Full
<1>3. Laid(start)'
  BY <1>1, <1>2, Zenon DEF Laid, Held, Newest, Slot
<1>4. q \in Nat /\ subbufs_consumed \in 0..q /\ q > 0
  BY <1>0 DEF Produced, Places
<1>5. Places'
  BY <1>1, <1>2, <1>4, Zenon DEF Places, Held, Newest, Slot, Full
<1>6. Shape'
  BY <1>0, <1>1, <1>4 DEF Shape, Full
<1>7. ASSUME ~Misplaced' PROVE ~Misplaced /\ Behind(start)' = Behind(start)
  <2>1. q - subbufs_consumed <= NSubbufs
    BY <1>0, <1>1, <1>4, <1>7 DEF Misplaced, Full
  <2>2. ~Misplaced /\ ~Lapped
    BY <1>0, <2>1 DEF Misplaced, Lapped, Produced
  <2>3. ~Lapped'
    BY <1>1, Zenon DEF Lapped, Full
  <2>4. /\ ReadSubbuf = subbufs_consumed /\ ReadByte = bytes_consumed
        /\ ReadSubbuf' = subbufs_consumed /\ ReadByte' = bytes_consumed
    BY <1>1, <2>2, <2>3, Zenon DEF ReadSubbuf, ReadByte
  <2> QED
    BY <2>2, <2>4, Zenon DEF Behind
<1> QED
  BY <1>3, <1>5, <1>6, <1>7, Zenon

\* What the reader was given stays as it is while its place stays.
LEMMA GivenKept ==
  ASSUME NEW start, NEW t, Given(start), Attached' => Attached,
         failed' = failed, torn' = torn, out' = out, attaches' = attaches,
         Attached /\ ~Misplaced' => ~Misplaced /\ Behind(t)' = Behind(start)
  PROVE  Given(t)'
<1> SUFFICES ASSUME (Attached /\ ~failed /\ ~torn /\ ~Misplaced)'
             PROVE  (\E f \in 0..Behind(t) : out = Run(f, Behind(t)) /\ (attaches = 0 => f = 0))'
  BY Zenon DEF Given
<1>1. Attached /\ ~failed /\ ~torn /\ ~Misplaced /\ Behind(t)' = Behind(start)
  BY Zenon
<1>2. PICK f \in 0..Behind(start) : out = Run(f, Behind(start)) /\ (attaches = 0 => f = 0)
  BY <1>1, Zenon DEF Given
<1> QED
  BY <1>1, <1>2, Zenon

\* _stp_data_write_reserve keeps the order of the cells and the reader's place.
LEMMA ReserveFlow ==
  ASSUME Shape, Places, Flow, Attached => ~overwrite_flag,
         NEW len \in 1..SubbufSize, Reserve(len)
  PROVE  Shape' /\ Places' /\ Flow'
<1>1. PICK start : Laid(start) /\ Given(start)
  BY Zenon DEF Flow
<1>2. /\ (Attached' <=> Attached) /\ failed' = failed /\ torn' = torn /\ out' = out
      /\ attaches' = attaches /\ UNCHANGED taken
  BY Zenon DEF Reserve, reader, Attached
<1>3. CASE offset + len <= SubbufSize
  <2>1. PICK t : Laid(t)' /\ Behind(t)' = Behind(start)
    BY <1>1, <1>3, FitLaid, Zenon
  <2>2. Places' /\ Shape' /\ Misplaced' = Misplaced
    BY <1>1, <1>3, FitLaid, Zenon
  <2>3. Given(t)'
    BY <1>1, <1>2, <2>1, <2>2, GivenKept, Zenon
  <2> QED
    BY <2>1, <2>2, <2>3, Zenon DEF Flow
<1>4. CASE ~(offset + len <= SubbufSize)
  <2> DEFINE new == [i \in 1..len |-> ncells + i]
  <2>1. PICK cells : cells = new
    BY Zenon
  <2>2. SwitchSubbuf(cells) /\ ncells' = IF Accepts(len) THEN ncells + len ELSE ncells
    BY <1>4, <2>1, Zenon DEF Reserve
  <2>3. Accepts(len) <=> SubbufStart
    BY <1>4, Zenon DEF Accepts
  <2>4. CASE SubbufStart
    <3>1. cells = Run(ncells, ncells + len)
      <4>1. ncells \in Nat /\ len \in Nat
        BY RelayAssumption DEF Shape
      <4> QED
        BY <2>1, <4>1, NewRun, Zenon
    <3>2. len \in 0..SubbufSize
      BY RelayAssumption
    <3>3. ncells' = ncells + len
      BY <2>2, <2>3, <2>4, Zenon
    <3> HIDE DEF new
    <3>4. /\ \E t : Laid(t)' /\ (~overwrite_flag => Behind(t)' = Behind(start))
          /\ Places' /\ Shape' /\ (~overwrite_flag => ~Misplaced)
      BY <1>1, <1>2, <2>2, <2>4, <3>1, <3>2, <3>3, StartLaid, Zenon
    <3>5. PICK t : Laid(t)' /\ (~overwrite_flag => Behind(t)' = Behind(start))
      BY <3>4, Zenon
    <3>6. Given(t)'
      BY <1>1, <1>2, <3>4, <3>5, GivenKept, Zenon
    <3> QED
      BY <3>4, <3>5, <3>6, Zenon DEF Flow
  <2>5. CASE ~SubbufStart
    <3>1. ncells' = ncells
      BY <2>2, <2>3, <2>5, Zenon
    <3> HIDE DEF new
    <3>2. /\ Laid(start)' /\ Places' /\ Shape'
          /\ ~Misplaced' => ~Misplaced /\ Behind(start)' = Behind(start)
      BY <1>1, <1>2, <2>2, <2>5, <3>1, RefusedLaid, Zenon
    <3>3. Given(start)'
      BY <1>1, <1>2, <3>2, GivenKept, Zenon
    <3> QED
      BY <3>2, <3>3, Zenon DEF Flow
  <2> QED
    BY <2>4, <2>5, Zenon
<1> QED
  BY <1>3, <1>4, Zenon

\* So does relay_flush.
LEMMA DataStopFlow ==
  ASSUME Shape, Places, Flow, Attached => ~overwrite_flag, DataStop
  PROVE  Shape' /\ Places' /\ Flow'
<1>1. PICK start : Laid(start) /\ Given(start)
  BY Zenon DEF Flow
<1>2. /\ failed' = failed /\ torn' = torn /\ out' = out
      /\ attaches' = attaches /\ UNCHANGED taken /\ ncells' = ncells
  BY Zenon DEF DataStop, written
<1>3. Attached' => Attached
  BY DEF DataStop, Attached
<1>4. SwitchSubbuf(<<>>)
  BY Zenon DEF DataStop
<1>5. CASE SubbufStart
  <2>1. /\ <<>> = Run(ncells, ncells + 0) /\ 0 \in 0..SubbufSize /\ ncells' = ncells + 0
    <3>1. ncells \in Nat /\ ncells + 0 = ncells /\ 0 \in 0..SubbufSize
      BY RelayAssumption DEF Shape
    <3> QED
      BY <1>2, <3>1, RunEmpty, Zenon
  <2>2. /\ \E t : Laid(t)' /\ (~overwrite_flag => Behind(t)' = Behind(start))
        /\ Places' /\ Shape' /\ (~overwrite_flag => ~Misplaced)
    BY <1>1, <1>2, <1>4, <1>5, <2>1, StartLaid, Zenon
  <2>3. PICK t : Laid(t)' /\ (~overwrite_flag => Behind(t)' = Behind(start))
    BY <2>2, Zenon
  <2>4. Given(t)'
    BY <1>1, <1>2, <1>3, <2>2, <2>3, GivenKept, Zenon
  <2> QED
    BY <2>2, <2>3, <2>4, Zenon DEF Flow
<1>6. CASE ~SubbufStart
  <2>1. /\ Laid(start)' /\ Places' /\ Shape'
        /\ ~Misplaced' => ~Misplaced /\ Behind(start)' = Behind(start)
    BY <1>1, <1>2, <1>4, <1>6, RefusedLaid, Zenon
  <2>2. Given(start)'
    BY <1>1, <1>2, <1>3, <2>1, GivenKept, Zenon
  <2> QED
    BY <2>1, <2>2, Zenon DEF Flow
<1> QED
  BY <1>5, <1>6, Zenon

-----------------------------------------------------------------------------
(* The reader *)

\* Where a reader that is not misplaced reads: in the ring, the rest of a sub-buffer.
LEMMA ReadPlace ==
  ASSUME Shape, Places, NEW start, Laid(start), ~Misplaced, InBuffer(ReadSubbuf)
  PROVE  /\ ReadSubbuf \in Nat /\ Held(ReadSubbuf) /\ ReadByte \in Nat
         /\ start[ReadSubbuf] \in Nat /\ start[ReadSubbuf + 1] \in Nat
         /\ Behind(start) \in Nat /\ Behind(start) <= start[ReadSubbuf + 1]
         /\ Len(subbuf[Slot(ReadSubbuf)]) = start[ReadSubbuf + 1] - start[ReadSubbuf]
         /\ CellsFrom(ReadSubbuf, ReadByte) = Run(Behind(start), start[ReadSubbuf + 1])
<1> DEFINE r == ReadSubbuf
           a == start[r]
           b == start[r + 1]
           n == Len(subbuf[Slot(r)])
<1>0. /\ subbufs_produced \in Nat /\ subbufs_consumed \in 0..subbufs_produced
      /\ bytes_consumed \in Nat /\ offset \in 0..Full /\ ncells \in Nat
      /\ NSubbufs \in Nat \ {0} /\ SubbufSize \in Nat \ {0}
  BY RelayAssumption DEF Shape
<1>1. r \in Nat /\ r + 1 \in Nat /\ Held(r) /\ ReadByte \in Nat
  BY <1>0 DEF ReadSubbuf, ReadByte, Lapped, Misplaced, InBuffer, Held, Newest, Produced, Full
<1>2. ReadByte = 0 \/ (r = subbufs_consumed /\ ReadByte = bytes_consumed)
  BY Zenon DEF ReadSubbuf, ReadByte
<1>3. a \in Nat /\ b \in Nat /\ a <= b /\ subbuf[Slot(r)] = Run(a, b)
  <2>1. start \in [Nat -> Nat]
    BY Zenon DEF Laid
  <2>2. a \in Nat /\ b \in Nat
    BY <1>1, <2>1, Zenon
  <2> QED
    BY <1>1, <2>2, Zenon DEF Laid
<1>4. n = b - a
  BY <1>3, RunSeq, Zenon
<1>5. ReadByte = 0 \/ ReadByte <= n
  BY <1>1, <1>2, Zenon DEF Places
<1>6. a + ReadByte \in Nat /\ a + ReadByte <= b
  <2>1. a \in Nat /\ b \in Nat /\ a <= b
    BY <1>3, Zenon
  <2> HIDE DEF a, b, n, r
  <2> QED
    BY <1>1, <1>4, <1>5, <2>1
<1>7. CellsFrom(r, ReadByte) = Run(a + ReadByte, b)
  BY <1>1, <1>6, RestOfSubbuf, Zenon
<1> QED
  BY <1>1, <1>3, <1>4, <1>6, <1>7, Zenon DEF Behind

\* The reader's step takes it from one place to the next.
LEMMA ReadDataPlaces ==
  ASSUME Shape, Places, NEW start, Laid(start), ReadData
  PROVE  /\ Shape' /\ Places' /\ Laid(start)'
         /\ ~Misplaced => Behind(start)' = start[ReadSubbuf + 1]
<1> DEFINE r == ReadSubbuf
           n == Len(subbuf[Slot(r)])
           cells == CellsFrom(r, ReadByte)
<1>0. /\ subbufs_produced \in Nat /\ subbufs_consumed \in 0..subbufs_produced
      /\ bytes_consumed \in Nat /\ offset \in 0..Full /\ ncells \in Nat
      /\ NSubbufs \in Nat \ {0} /\ SubbufSize \in Nat \ {0}
  BY RelayAssumption DEF Shape
<1>1. /\ InBuffer(r)
      /\ subbufs_consumed' = IF r = subbufs_produced THEN r ELSE r + 1
      /\ bytes_consumed' = IF r = subbufs_produced THEN ReadByte + Len(cells) ELSE 0
  BY Zenon DEF ReadData
<1>2. /\ subbufs_produced' = subbufs_produced /\ offset' = offset /\ subbuf' = subbuf
      /\ ncells' = ncells
  BY Zenon DEF ReadData, buffer, written
<1>3. Produced' = Produced /\ Newest' = Newest
  BY <1>2, Zenon DEF Produced, Newest, Full
<1>4. Laid(start)'
  BY <1>2, <1>3, Zenon DEF Laid, Held, Newest, Slot
<1>5. CASE r = subbufs_produced
  <2>1. offset # Full /\ ~Misplaced
    BY <1>0, <1>1, <1>5 DEF InBuffer, Misplaced, ReadSubbuf, Lapped
  <2> DEFINE a == start[r]
             b == start[r + 1]
  <2>2. /\ a \in Nat /\ b \in Nat /\ ReadByte \in Nat /\ Behind(start) = a + ReadByte
        /\ Behind(start) \in Nat /\ Behind(start) <= b /\ n = b - a
        /\ cells = Run(Behind(start), b)
    BY <1>1, <2>1, ReadPlace, Zenon DEF Behind
  <2>3. Len(cells) = b - Behind(start)
    BY <2>2, RunSeq, Zenon
  <2>4. ReadByte + Len(cells) = n /\ n \in Nat /\ a + n = b
    <3>1. /\ a \in Nat /\ b \in Nat /\ ReadByte \in Nat /\ Behind(start) = a + ReadByte
          /\ Behind(start) <= b /\ n = b - a
      BY <2>2, Zenon
    <3> HIDE DEF a, b, n, cells, r
    <3> QED
      BY <2>3, <3>1
  <2>5. subbufs_consumed' = subbufs_produced /\ bytes_consumed' = n
    BY <1>1, <1>5, <2>4, Zenon
  <2>6. Produced # subbufs_produced /\ subbufs_produced \in 0..subbufs_produced
    BY <1>0, <2>1 DEF Produced
  <2>7. n <= n
    BY <2>4
  <2>8. Places'
    BY <1>2, <1>3, <1>5, <2>1, <2>5, <2>6, <2>7, Zenon DEF Places, Slot, Full
  <2>9. Shape'
    BY <1>0, <1>2, <2>4, <2>5, <2>6, Zenon DEF Shape, Full
  <2>10. ~Lapped'
    BY <1>0, <1>2, <2>5 DEF Lapped
  <2>11. ReadSubbuf' = r /\ ReadByte' = n
    BY <1>5, <2>5, <2>10, Zenon DEF ReadSubbuf, ReadByte
  <2>12. Behind(start)' = b
    BY <2>4, <2>11, Zenon DEF Behind
  <2> QED
    BY <1>4, <2>8, <2>9, <2>12, Zenon
<1>6. CASE r # subbufs_produced
  <2>1. r < subbufs_produced /\ r \in Nat /\ r + 1 \in 0..subbufs_produced
    BY <1>0, <1>1, <1>6 DEF InBuffer, ReadSubbuf, Lapped
  <2>2. subbufs_consumed' = r + 1 /\ bytes_consumed' = 0
    BY <1>1, <1>6, Zenon
  <2>3. \A i \in Nat : 0 <= Len(subbuf[Slot(i)])
    <3>1. \A i \in Nat : subbuf[Slot(i)] \in Seq(Nat)
      BY SlotIn, Zenon DEF Shape
    <3> QED
      BY <3>1
  <2>4. Places'
    <3>1. r + 1 \in Nat
      BY <2>1
    <3> QED
      BY <1>2, <1>3, <2>2, <2>3, <3>1, Zenon DEF Places, Slot, Full
  <2>5. 0 \in Nat
    OBVIOUS
  <2>6. Shape'
    BY <1>2, <2>1, <2>2, <2>5, Zenon DEF Shape, Full
  <2>7. ASSUME ~Misplaced PROVE Behind(start)' = start[r + 1]
    <3>1. ~Lapped'
      BY <1>0, <1>2, <2>1, <2>2 DEF Lapped, ReadSubbuf, Full
    <3>2. ReadSubbuf' = r + 1 /\ ReadByte' = 0
      BY <2>2, <3>1, Zenon DEF ReadSubbuf, ReadByte
    <3>3. start[r + 1] \in Nat
      BY <1>1, <2>7, ReadPlace, Zenon
    <3>4. start[r + 1] + 0 = start[r + 1]
      BY <3>3
    <3> QED
      BY <3>2, <3>4, Zenon DEF Behind
  <2> QED
    BY <1>4, <2>4, <2>6, <2>7, Zenon
<1> QED
  BY <1>5, <1>6, Zenon

\* And gives out the cells in between.
LEMMA ReadDataFlow ==
  ASSUME Shape, Places, Flow, ReadData
  PROVE  Shape' /\ Places' /\ Flow'
<1>1. PICK start : Laid(start) /\ Given(start)
  BY Zenon DEF Flow
<1>2. Shape' /\ Places' /\ Laid(start)' /\ (~Misplaced => Behind(start)' = start[ReadSubbuf + 1])
  BY <1>1, ReadDataPlaces, Zenon
<1> DEFINE B == Behind(start)
           b == start[ReadSubbuf + 1]
           cells == CellsFrom(ReadSubbuf, ReadByte)
<1>3. /\ InBuffer(ReadSubbuf) /\ attaches' = attaches /\ rpc = "read"
      /\ torn' = (torn \/ Misplaced)
      /\ \/ out' = out \o cells /\ failed' = failed
         \/ failed' = TRUE
  BY Zenon DEF ReadData
<1>a. Attached
  BY <1>3 DEF Attached
<1>4. ASSUME (Attached /\ ~failed /\ ~torn /\ ~Misplaced)'
      PROVE  \E f \in 0..Behind(start)' : out' = Run(f, Behind(start)') /\ (attaches' = 0 => f = 0)
  <2>0. ~failed' /\ ~torn'
    BY <1>4, Zenon
  <2>1. ~failed /\ ~torn /\ ~Misplaced /\ out' = out \o cells
    <3>1. ~torn /\ ~Misplaced
      BY <1>3, <2>0, Zenon
    <3>2. out' = out \o cells /\ failed' = failed
      BY <1>3, <2>0, Zenon
    <3>3. ~failed
      BY <3>2, <2>0, Zenon
    <3> QED
      BY <3>1, <3>2, <3>3, Zenon
  <2>2. PICK f \in 0..B : out = Run(f, B) /\ (attaches = 0 => f = 0)
    BY <1>1, <1>a, <2>1, Zenon DEF Given
  <2>3. B \in Nat /\ b \in Nat /\ B <= b /\ cells = Run(B, b)
    BY <1>1, <1>3, <2>1, ReadPlace, Zenon
  <2>4. f \in Nat /\ f <= B /\ f \in 0..b
    <3>1. f \in 0..B /\ B \in Nat /\ b \in Nat /\ B <= b
      BY <2>2, <2>3, Zenon
    <3> HIDE DEF B, b
    <3> QED
      BY <3>1
  <2>5. Run(f, B) \o Run(B, b) = Run(f, b)
    BY <2>3, <2>4, RunConcat, Zenon
  <2>6. out' = Run(f, b) /\ Behind(start)' = b /\ (attaches' = 0 => f = 0)
    BY <1>2, <1>3, <2>1, <2>2, <2>3, <2>5, Zenon
  <2> HIDE DEF b
  <2> QED
    BY <2>4, <2>6, Zenon
<1>5. Given(start)'
  BY <1>4, Zenon DEF Given
<1> QED
  BY <1>2, <1>5, Zenon DEF Flow

\* A read that finds nothing leaves the reader at its place.
LEMMA ReadEmptyFlow ==
  ASSUME Shape, Places, Flow, ReadEmpty
  PROVE  Shape' /\ Places' /\ Flow'
<1>1. PICK start : Laid(start) /\ Given(start)
  BY Zenon DEF Flow
<1> DEFINE r == ReadSubbuf
<1>0. /\ subbufs_produced \in Nat /\ subbufs_consumed \in 0..subbufs_produced
      /\ bytes_consumed \in Nat /\ offset \in 0..Full /\ ncells \in Nat
      /\ NSubbufs \in Nat \ {0} /\ SubbufSize \in Nat \ {0}
  BY RelayAssumption DEF Shape
<1>2. /\ subbufs_produced' = subbufs_produced /\ offset' = offset /\ subbuf' = subbuf
      /\ ncells' = ncells /\ subbufs_consumed' = r /\ bytes_consumed' = ReadByte
      /\ failed' = failed /\ torn' = torn /\ out' = out /\ attaches' = attaches
  BY Zenon DEF ReadEmpty, buffer, written
<1>3. Produced' = Produced /\ Newest' = Newest
  BY <1>2, Zenon DEF Produced, Newest, Full
<1>4. Laid(start)'
  BY <1>1, <1>2, <1>3, Zenon DEF Laid, Held, Newest, Slot
<1>5. Attached
  BY DEF ReadEmpty, Attached
<1>6. ~Misplaced
  BY <1>0 DEF Misplaced, ReadEmpty, InBuffer, ReadSubbuf, Lapped
<1>7. r \in 0..subbufs_produced /\ ReadByte \in Nat /\ ~Lapped'
  BY <1>0, <1>2 DEF ReadSubbuf, ReadByte, Lapped, Full
<1>8. Shape'
  BY <1>2, <1>7, Zenon DEF Shape, Full
<1>9. ReadByte = 0 \/ (r = subbufs_consumed /\ ReadByte = bytes_consumed)
  BY Zenon DEF ReadSubbuf, ReadByte
<1>10. Places'
  <2>1. subbuf[Slot(r)] \in Seq(Nat)
    <3>1. r \in Nat
      BY <1>0, <1>7
    <3> QED
      BY <3>1, SlotIn, Zenon DEF Shape
  <2>2. 0 <= Len(subbuf[Slot(r)])
    BY <2>1
  <2>3. Held(r) => ReadByte <= Len(subbuf[Slot(r)])
    BY <1>9, <2>2, Zenon DEF Places
  <2>4. r = Produced => ReadByte = 0
    BY <1>9, Zenon DEF Places
  <2> QED
    BY <1>2, <1>3, <2>3, <2>4, Zenon DEF Places, Slot, Full, Held
<1>11. Behind(start)' = Behind(start)
  BY <1>2, <1>7, Zenon DEF Behind, ReadSubbuf, ReadByte
<1>12. Given(start)'
  BY <1>1, <1>2, <1>5, <1>6, <1>11, GivenKept, Zenon
<1> QED
  BY <1>4, <1>8, <1>10, <1>12, Zenon DEF Flow

\* Steps that touch neither the buffer nor the reader's place.
Quiet ==
  /\ UNCHANGED <<subbufs_produced, offset, subbuf, subbufs_consumed, bytes_consumed, ncells>>
  /\ UNCHANGED <<failed, torn, out, attaches>>
  /\ Attached' => Attached

\* They keep everything where it is.
LEMMA QuietFlow ==
  ASSUME Shape, Places, Flow,
         UNCHANGED <<subbufs_produced, offset, subbuf, subbufs_consumed, bytes_consumed, ncells>>
  PROVE  /\ Shape' /\ Places' /\ (Quiet => Flow')
         /\ \A start : Laid(start) => Laid(start)' /\ Behind(start)' = Behind(start)
         /\ Misplaced' <=> Misplaced
<1>1. /\ subbufs_produced' = subbufs_produced /\ offset' = offset /\ subbuf' = subbuf
      /\ subbufs_consumed' = subbufs_consumed /\ bytes_consumed' = bytes_consumed
      /\ ncells' = ncells
  BY Zenon
<1>2. Produced' = Produced /\ Newest' = Newest
  BY <1>1, Zenon DEF Produced, Newest, Full
<1>3. Shape'
  BY <1>1, Zenon DEF Shape, Full
<1>4. Places'
  BY <1>1, <1>2, Zenon DEF Places, Held, Slot, Full
<1>5. (Misplaced' <=> Misplaced) /\ (Lapped' <=> Lapped)
  BY <1>1, Zenon DEF Misplaced, Lapped, Full
<1>6. ReadSubbuf' = ReadSubbuf /\ ReadByte' = ReadByte
  BY <1>1, <1>5, Zenon DEF ReadSubbuf, ReadByte
<1>7. ASSUME NEW start, Laid(start) PROVE Laid(start)' /\ Behind(start)' = Behind(start)
  <2>1. Laid(start)'
    BY <1>1, <1>2, <1>7, Zenon DEF Laid, Held, Newest, Slot
  <2>2. Behind(start)' = Behind(start)
    BY <1>6, Zenon DEF Behind
  <2> QED
    BY <2>1, <2>2, Zenon
<1>8. ASSUME Quiet PROVE Flow'
  <2>1. PICK start : Laid(start) /\ Given(start)
    BY Zenon DEF Flow
  <2>2. failed' = failed /\ torn' = torn /\ out' = out /\ attaches' = attaches /\ (Attached' => Attached)
    BY <1>8, Zenon DEF Quiet
  <2>3. Given(start)'
    BY <1>5, <1>7, <2>1, <2>2, GivenKept, Zenon
  <2> QED
    BY <1>7, <2>1, <2>3, Zenon DEF Flow
<1> QED
  BY <1>3, <1>4, <1>5, <1>7, <1>8, Zenon

\* A new stapio has been given nothing, which is the run before its place.
LEMMA AttachFlow ==
  ASSUME Shape, Places, Flow, Attach, attaches \in Nat
  PROVE  Shape' /\ Places' /\ Flow'
<1>1. UNCHANGED <<subbufs_produced, offset, subbuf, subbufs_consumed, bytes_consumed, ncells>>
  BY Zenon DEF Attach, buffer, taken, written
<1>2. PICK start : Laid(start)
  BY Zenon DEF Flow
<1>3. /\ Shape' /\ Places' /\ Laid(start)' /\ Behind(start)' = Behind(start)
      /\ (Misplaced' <=> Misplaced)
  BY <1>1, <1>2, QuietFlow, Zenon
<1>4. ASSUME ~Misplaced'
      PROVE  \E f \in 0..Behind(start)' : out' = Run(f, Behind(start)') /\ (attaches' = 0 => f = 0)
  <2> DEFINE B == Behind(start)
  <2>1. B \in 0..ncells /\ ncells \in Nat
    BY <1>2, <1>3, <1>4, UnreadRun, Zenon DEF Shape
  <2>2. B \in Nat /\ B \in 0..B
    <3> HIDE DEF B
    <3> QED
      BY <2>1
  <2>3. Run(B, B) = <<>>
    BY <2>2, RunEmpty, Zenon
  <2>4. out' = <<>> /\ attaches' = attaches + 1
    BY Zenon DEF Attach
  <2>5. attaches' # 0
    BY <2>4
  <2> HIDE DEF B
  <2>6. Behind(start)' = B
    BY <1>3, Zenon DEF B
  <2> QED
    BY <2>2, <2>3, <2>4, <2>5, <2>6, Zenon
<1>5. Given(start)'
  BY <1>4, Zenon DEF Given
<1> QED
  BY <1>3, <1>5, Zenon DEF Flow

-----------------------------------------------------------------------------
(* The steps *)

\* The types of what a reservation may change.
BufferTypes ==
  /\ wakeup \in BOOLEAN
  /\ subbufs_produced \in Nat /\ subbufs_consumed \in 0..subbufs_produced
  /\ offset \in 0..Full
  /\ DOMAIN subbuf = 0..(NSubbufs - 1)
  /\ \A i \in DOMAIN subbuf : Len(subbuf[i]) <= SubbufSize
  /\ ncells \in 0..MaxCells /\ failures \in Nat

\* And of what it leaves alone.
OtherTypes ==
  /\ transport_state \in {"RUNNING", "STOPPED"} /\ overwrite_flag \in BOOLEAN
  /\ bytes_consumed \in 0..SubbufSize
  /\ rpc \in {"enter", "poll", "asleep", "read", "empty", "done", "none"}
  /\ sigusr2 \in BOOLEAN /\ stop_threads \in BOOLEAN
  /\ failed \in BOOLEAN /\ fresh \in BOOLEAN /\ torn \in BOOLEAN
  /\ attaches \in 0..MaxAttach /\ build \in Builds

\* The type invariant in parts.
LEMMA TypeParts ==
  /\ TypeOK <=> BufferTypes /\ OtherTypes /\ dropped \in 0..(MaxDropped + 1)
                /\ pdu \in 0..SubbufSize /\ headers \subseteq (1..MaxCells) \X (1..SubbufSize)
  /\ TypeOK' <=> BufferTypes' /\ OtherTypes' /\ dropped' \in 0..(MaxDropped + 1)
                 /\ pdu' \in 0..SubbufSize /\ headers' \subseteq (1..MaxCells) \X (1..SubbufSize)
BY Zenon DEF TypeOK, BufferTypes, OtherTypes, Full

\* No sub-buffer is filled beyond its size: only the newest one is written, to
\* the writer's place.
LEMMA SizeKept ==
  ASSUME Shape, Shape', Places', \A i \in DOMAIN subbuf : Len(subbuf[i]) <= SubbufSize,
         subbuf' # subbuf => offset' # Full,
         \A i \in 0..(NSubbufs - 1) : i # Slot(subbufs_produced') => subbuf'[i] = subbuf[i]
  PROVE  /\ DOMAIN subbuf' = 0..(NSubbufs - 1)
         /\ \A i \in DOMAIN subbuf' : Len(subbuf'[i]) <= SubbufSize
<1>1. DOMAIN subbuf = 0..(NSubbufs - 1) /\ DOMAIN subbuf' = 0..(NSubbufs - 1)
  BY Zenon DEF Shape
<1>2. ASSUME offset' # Full PROVE Len(subbuf'[Slot(subbufs_produced')]) <= SubbufSize
  <2>1. offset' <= SubbufSize
    BY <1>2, RelayAssumption DEF Shape, Full
  <2>2. offset' = Len(subbuf'[Slot(subbufs_produced')])
    BY <1>2, Zenon DEF Places, Full, Slot
  <2> QED
    BY <2>1, <2>2, Zenon
<1> QED
  BY <1>1, <1>2, Zenon

\* A switch writes no other slot than the next one's.
LEMMA SwitchSlots ==
  ASSUME Shape, NEW cells, SwitchSubbuf(cells)
  PROVE  /\ SubbufStart => dropped' = dropped
         /\ subbuf' # subbuf => SubbufStart
         /\ \A i \in 0..(NSubbufs - 1) : i # Slot(subbufs_produced') => subbuf'[i] = subbuf[i]
<1>1. subbufs_produced' = Produced /\ subbuf \in [0..(NSubbufs - 1) -> Seq(Nat)]
  BY Zenon DEF SwitchSubbuf, Shape
<1>2. CASE SubbufStart
  <2>1. dropped' = dropped /\ subbuf' = [subbuf EXCEPT ![Slot(Produced)] = cells]
    BY <1>2, Zenon DEF SwitchSubbuf
  <2> QED
    BY <1>1, <1>2, <2>1, Zenon
<1>3. CASE ~SubbufStart
  <2>1. subbuf' = subbuf
    BY <1>3, Zenon DEF SwitchSubbuf
  <2> QED
    BY <1>3, <2>1, Zenon
<1> QED
  BY <1>2, <1>3, Zenon

\* _stp_data_write_reserve: what its callers need.
LEMMA ReserveStep ==
  ASSUME RelayInv, transport_state = "RUNNING", NEW len \in 1..SubbufSize,
         ncells + len <= MaxCells, dropped < MaxDropped, Reserve(len)
  PROVE  /\ Shape' /\ Places' /\ Flow' /\ Ending' /\ BufferTypes' /\ OtherTypes'
         /\ transport_state' = "RUNNING" /\ dropped' \in 0..MaxDropped
         /\ Accepts(len) => ncells' = ncells + len /\ dropped' = dropped
<1> DEFINE cells == [i \in 1..len |-> ncells + i]
<1>0. /\ TypeOK /\ Shape /\ Places /\ Flow /\ Ending
  BY Zenon DEF RelayInv
<1>1. BufferTypes /\ OtherTypes
  BY <1>0, TypeParts, Zenon
<1>2. Shape' /\ Places' /\ Flow'
  BY <1>0, ReserveFlow, Zenon DEF Ending
<1>3. UNCHANGED <<transport_state, overwrite_flag, taken, reader, attaches, build>>
  BY Zenon DEF Reserve
<1>4. /\ transport_state' = "RUNNING" /\ overwrite_flag' = overwrite_flag
      /\ bytes_consumed' = bytes_consumed /\ rpc' = rpc /\ sigusr2' = sigusr2
      /\ stop_threads' = stop_threads /\ failed' = failed /\ fresh' = fresh /\ torn' = torn
      /\ attaches' = attaches /\ build' = build
  BY <1>3, Zenon DEF taken, reader
<1>5. OtherTypes'
  BY <1>1, <1>3, <1>4, Zenon DEF OtherTypes
<1>6. Ending'
  <2>1. (Attached' <=> Attached) /\ "RUNNING" # "STOPPED"
    BY <1>4, Zenon DEF Attached
  <2> QED
    BY <1>0, <1>4, <2>1, Zenon DEF Ending
<1>7. /\ ncells' = IF Accepts(len) THEN ncells + len ELSE ncells
      /\ failures' = IF Accepts(len) THEN failures ELSE failures + 1
  BY Zenon DEF Reserve
<1>8. ncells' \in 0..MaxCells /\ failures' \in Nat
  <2>1. ncells \in 0..MaxCells /\ failures \in Nat /\ MaxCells \in Nat /\ len \in Nat
    BY <1>1, RelayAssumption DEF BufferTypes
  <2> QED
    BY <1>7, <2>1
<1>9. /\ wakeup' \in BOOLEAN /\ dropped' \in {dropped, dropped + 1}
      /\ (Accepts(len) => dropped' = dropped)
      /\ subbuf' # subbuf => offset' # Full
      /\ \A i \in 0..(NSubbufs - 1) : i # Slot(subbufs_produced') => subbuf'[i] = subbuf[i]
  <2>1. CASE offset + len <= SubbufSize
    <3>1. /\ wakeup' = wakeup /\ dropped' = dropped /\ offset' = offset + len
          /\ subbufs_produced' = subbufs_produced
          /\ subbuf' = [subbuf EXCEPT ![Slot(subbufs_produced)] = @ \o cells]
      BY <2>1, Zenon DEF Reserve
    <3>2. offset' # Full
      <4>1. offset \in Nat /\ len \in Nat /\ SubbufSize \in Nat
        BY <1>0, RelayAssumption DEF Shape, Full
      <4> QED
        BY <2>1, <3>1, <4>1 DEF Full
    <3>3. wakeup \in BOOLEAN /\ subbuf \in [0..(NSubbufs - 1) -> Seq(Nat)]
      BY <1>0, <1>1, Zenon DEF BufferTypes, Shape
    <3> HIDE DEF cells
    <3> QED
      BY <3>1, <3>2, <3>3, Zenon
  <2>2. CASE ~(offset + len <= SubbufSize)
    <3>1. SwitchSubbuf(cells) /\ wakeup' = (wakeup \/ (offset # Full /\ rpc = "asleep"))
      BY <2>2, Zenon DEF Reserve
    <3>2. Accepts(len) <=> SubbufStart
      BY <2>2, Zenon DEF Accepts
    <3>3. SubbufStart => offset' # Full
      <4>1. SubbufStart => offset' = Len(cells)
        BY <3>1, Zenon DEF SwitchSubbuf
      <4>2. Len(cells) = len /\ len # Full
        BY <1>0, RelayAssumption DEF Full
      <4> QED
        BY <4>1, <4>2, Zenon
    <3>4. dropped' \in {dropped, dropped + 1} /\ wakeup' \in BOOLEAN
      BY <3>1, Zenon DEF SwitchSubbuf
    <3>5. /\ SubbufStart => dropped' = dropped
          /\ subbuf' # subbuf => SubbufStart
          /\ \A i \in 0..(NSubbufs - 1) : i # Slot(subbufs_produced') => subbuf'[i] = subbuf[i]
      BY <1>0, <3>1, SwitchSlots, Zenon
    <3> QED
      BY <3>2, <3>3, <3>4, <3>5, Zenon
  <2> QED
    BY <2>1, <2>2, Zenon
<1>10. dropped' \in 0..MaxDropped
  <2>1. dropped \in Nat /\ MaxDropped \in Nat
    BY <1>0, RelayAssumption DEF TypeOK
  <2> QED
    BY <1>9, <2>1
<1>11. BufferTypes'
  <2>1. \A i \in DOMAIN subbuf : Len(subbuf[i]) <= SubbufSize
    BY <1>1, Zenon DEF BufferTypes
  <2>2. /\ DOMAIN subbuf' = 0..(NSubbufs - 1)
        /\ \A i \in DOMAIN subbuf' : Len(subbuf'[i]) <= SubbufSize
    BY <1>0, <1>2, <1>9, <2>1, SizeKept, Zenon
  <2>3. /\ subbufs_produced' \in Nat /\ subbufs_consumed' \in 0..subbufs_produced'
        /\ offset' \in 0..Full
    BY <1>2, Zenon DEF Shape, Full
  <2> QED
    BY <1>8, <1>9, <2>2, <2>3, Zenon DEF BufferTypes, Full
<1> QED
  BY <1>2, <1>4, <1>5, <1>6, <1>7, <1>9, <1>10, <1>11, Zenon

\* stp_print_flush, stream mode.
LEMMA FlushStep ==
  ASSUME RelayInv, NEW len \in 1..SubbufSize, Flush(len)
  PROVE  RelayInv'
<1>1. /\ transport_state = "RUNNING" /\ ncells + len <= MaxCells /\ dropped < MaxDropped
      /\ Reserve(len) /\ pdu' = pdu /\ headers' = headers /\ ~build.bulk
  BY Zenon DEF Flush
<1>2. /\ Shape' /\ Places' /\ Flow' /\ Ending' /\ BufferTypes' /\ OtherTypes'
      /\ transport_state' = "RUNNING" /\ dropped' \in 0..MaxDropped
  BY <1>1, ReserveStep, Zenon
<1>3. TypeOK /\ Bounds
  BY Zenon DEF RelayInv
<1>4. dropped' \in 0..(MaxDropped + 1) /\ dropped' <= MaxDropped
  BY <1>2, RelayAssumption
<1>5. TypeOK'
  BY <1>1, <1>2, <1>3, <1>4, TypeParts, Zenon
<1>6. Bounds'
  BY <1>1, <1>3, <1>4, Zenon DEF Bounds
<1> QED
  BY <1>2, <1>5, <1>6, Zenon DEF RelayInv

\* stp_print_flush, bulk mode: the header.
LEMMA FlushHeaderStep ==
  ASSUME RelayInv, NEW len \in 1..SubbufSize, FlushHeader(len)
  PROVE  RelayInv'
<1>1. /\ transport_state = "RUNNING" /\ ncells + 1 + len <= MaxCells /\ dropped < MaxDropped
      /\ Reserve(1) /\ build.bulk
      /\ pdu' = IF Accepts(1) THEN len ELSE 0
      /\ headers' = IF Accepts(1) THEN headers \cup {<<ncells + 1, len>>} ELSE headers
  BY Zenon DEF FlushHeader
<1>2. TypeOK
  BY Zenon DEF RelayInv
<1>3. /\ ncells \in Nat /\ len \in Nat /\ len # 0 /\ MaxCells \in Nat /\ SubbufSize \in Nat \ {0}
      /\ dropped \in Nat /\ MaxDropped \in Nat
  BY <1>2, RelayAssumption DEF TypeOK
<1>4. /\ 1 \in 1..SubbufSize /\ ncells + 1 <= MaxCells /\ ncells + 1 \in 1..MaxCells
      /\ (ncells + 1) + len <= MaxCells /\ len \in 0..SubbufSize /\ 0 \in 0..SubbufSize
  BY <1>1, <1>3
<1>5. /\ Shape' /\ Places' /\ Flow' /\ Ending' /\ BufferTypes' /\ OtherTypes'
      /\ transport_state' = "RUNNING" /\ dropped' \in 0..MaxDropped
      /\ Accepts(1) => ncells' = ncells + 1 /\ dropped' = dropped
  BY <1>1, <1>4, ReserveStep, Zenon
<1>6. dropped' \in 0..(MaxDropped + 1) /\ dropped' <= MaxDropped
  BY <1>3, <1>5
<1>7. pdu' \in 0..SubbufSize /\ (pdu' # 0 => Accepts(1) /\ pdu' = len)
  BY <1>1, <1>4, Zenon
<1>8. headers' \subseteq (1..MaxCells) \X (1..SubbufSize)
  <2>1. headers \subseteq (1..MaxCells) \X (1..SubbufSize)
    BY <1>2, Zenon DEF TypeOK
  <2>2. <<ncells + 1, len>> \in (1..MaxCells) \X (1..SubbufSize)
    BY <1>4, Zenon
  <2>3. headers' = headers \/ headers' = headers \cup {<<ncells + 1, len>>}
    BY <1>1, Zenon
  <2> QED
    BY <2>1, <2>2, <2>3, Zenon
<1>9. TypeOK'
  BY <1>5, <1>6, <1>7, <1>8, TypeParts, Zenon
<1>10. Bounds'
  <2>1. build' = build /\ "RUNNING" # "STOPPED"
    BY <1>1, Zenon DEF Reserve
  <2> QED
    BY <1>1, <1>4, <1>5, <1>6, <1>7, <2>1, Zenon DEF Bounds
<1> QED
  BY <1>5, <1>9, <1>10, Zenon DEF RelayInv

\* stp_print_flush, bulk mode: the data.
LEMMA FlushDataStep ==
  ASSUME RelayInv, FlushData
  PROVE  RelayInv'
<1>1. pdu # 0 /\ Reserve(pdu) /\ pdu' = 0 /\ headers' = headers
  BY Zenon DEF FlushData
<1>2. TypeOK /\ Bounds
  BY Zenon DEF RelayInv
<1>3. pdu \in 0..SubbufSize /\ SubbufSize \in Nat
  BY <1>2, RelayAssumption DEF TypeOK
<1>4. pdu \in 1..SubbufSize /\ 0 \in 0..SubbufSize
  BY <1>1, <1>3
<1>5. transport_state = "RUNNING" /\ ncells + pdu <= MaxCells /\ dropped < MaxDropped
  BY <1>1, <1>2, Zenon DEF Bounds, TypeOK
<1>6. /\ Shape' /\ Places' /\ Flow' /\ Ending' /\ BufferTypes' /\ OtherTypes'
      /\ transport_state' = "RUNNING" /\ dropped' \in 0..MaxDropped
  BY <1>1, <1>4, <1>5, ReserveStep, Zenon
<1>7. dropped' \in 0..(MaxDropped + 1) /\ dropped' <= MaxDropped
  BY <1>6, RelayAssumption
<1>8. TypeOK'
  BY <1>1, <1>2, <1>4, <1>6, <1>7, TypeParts, Zenon
<1>9. Bounds'
  BY <1>1, <1>7, Zenon DEF Bounds
<1> QED
  BY <1>6, <1>8, <1>9, Zenon DEF RelayInv

\* _stp_transport_data_fs_stop: a reader that is past its last look is not fresh.
LEMMA DataStopStep ==
  ASSUME RelayInv, DataStop
  PROVE  RelayInv'
<1>0. TypeOK /\ Shape /\ Places /\ Flow /\ Bounds /\ Ending
  BY Zenon DEF RelayInv
<1>1. BufferTypes /\ OtherTypes
  BY <1>0, TypeParts, Zenon
<1>2. Shape' /\ Places' /\ Flow'
  BY <1>0, DataStopFlow, Zenon DEF Ending
<1>3. /\ transport_state = "RUNNING" /\ pdu = 0 /\ transport_state' = "STOPPED"
      /\ SwitchSubbuf(<<>>) /\ rpc' = IF rpc = "asleep" /\ offset # Full THEN "read" ELSE rpc
      /\ fresh' = (~stop_threads /\ rpc # "empty")
      /\ overwrite_flag' = overwrite_flag /\ bytes_consumed' = bytes_consumed
      /\ wakeup' = wakeup /\ failures' = failures /\ ncells' = ncells /\ pdu' = pdu
      /\ headers' = headers /\ sigusr2' = sigusr2 /\ stop_threads' = stop_threads
      /\ failed' = failed /\ torn' = torn /\ attaches' = attaches /\ build' = build
  BY Zenon DEF DataStop, taken, written
<1>4. rpc' = rpc \/ (rpc = "asleep" /\ rpc' = "read")
  BY <1>3, Zenon
<1>5. OtherTypes'
  <2>1. fresh' \in BOOLEAN
    BY <1>3, Zenon
  <2> QED
    BY <1>1, <1>3, <1>4, <2>1, Zenon DEF OtherTypes
<1>6. /\ subbuf' # subbuf => SubbufStart
      /\ \A i \in 0..(NSubbufs - 1) : i # Slot(subbufs_produced') => subbuf'[i] = subbuf[i]
  BY <1>0, <1>3, SwitchSlots, Zenon
<1>7. (SubbufStart => offset' = 0) /\ (~SubbufStart => offset' = Full)
  <2>1. Len(<<>>) = 0
    OBVIOUS
  <2> QED
    BY <1>3, <2>1, Zenon DEF SwitchSubbuf
<1>8. BufferTypes'
  <2>0. 0 # Full
    BY RelayAssumption DEF Full
  <2>1. \A i \in DOMAIN subbuf : Len(subbuf[i]) <= SubbufSize
    BY <1>1, Zenon DEF BufferTypes
  <2>2. /\ DOMAIN subbuf' = 0..(NSubbufs - 1)
        /\ \A i \in DOMAIN subbuf' : Len(subbuf'[i]) <= SubbufSize
    BY <1>0, <1>2, <1>6, <1>7, <2>0, <2>1, SizeKept, Zenon
  <2>3. /\ subbufs_produced' \in Nat /\ subbufs_consumed' \in 0..subbufs_produced'
        /\ offset' \in 0..Full
    BY <1>2, Zenon DEF Shape, Full
  <2> QED
    BY <1>1, <1>3, <2>2, <2>3, Zenon DEF BufferTypes, Full
<1>9. dropped' \in 0..(MaxDropped + 1)
  <2>1. dropped \in Nat /\ dropped <= MaxDropped /\ MaxDropped \in Nat
    BY <1>0, <1>3, RelayAssumption DEF Bounds, TypeOK
  <2>2. dropped' = dropped \/ dropped' = dropped + 1
    BY <1>3, Zenon DEF SwitchSubbuf
  <2> QED
    BY <2>1, <2>2
<1>10. TypeOK'
  BY <1>0, <1>3, <1>5, <1>8, <1>9, TypeParts, Zenon
<1>11. "RUNNING" # "STOPPED" /\ "asleep" # "none" /\ "read" # "done" /\ "read" # "empty"
  OBVIOUS
<1>12. Bounds'
  BY <1>3, <1>11, Zenon DEF Bounds
<1>13. Ending'
  <2>1. Attached' => ~overwrite_flag'
    BY <1>0, <1>3, <1>4, <1>11, Zenon DEF Ending, Attached
  <2>2. offset' = Full' \/ offset' = 0
    BY <1>7, Zenon DEF Full
  <2>3. rpc' = "done" => (failed' \/ stop_threads') /\ (fresh' => ~stop_threads')
    <3>1. rpc' = "done" => rpc = "done"
      BY <1>4, <1>11, Zenon
    <3>2. fresh' => ~stop_threads
      BY <1>3, Zenon
    <3> QED
      BY <1>0, <1>3, <3>1, <3>2, Zenon DEF Ending
  <2>4. rpc' = "empty" => ~fresh'
    BY <1>3, <1>4, <1>11, Zenon
  <2> QED
    BY <2>1, <2>2, <2>3, <2>4, Zenon DEF Ending
<1> QED
  BY <1>2, <1>10, <1>12, <1>13, Zenon DEF RelayInv

\* A step of the reader or of stapio that does not touch the data.
LEMMA QuietStep ==
  ASSUME RelayInv, Quiet,
         UNCHANGED <<transport_state, dropped, failures, pdu, headers, build>>,
         wakeup' \in BOOLEAN, overwrite_flag' \in BOOLEAN, sigusr2' \in BOOLEAN,
         stop_threads' \in BOOLEAN, fresh' \in BOOLEAN,
         rpc' \in {"enter", "poll", "asleep", "read", "empty", "done", "none"}
  PROVE  TypeOK' /\ Shape' /\ Places' /\ Flow' /\ Bounds'
<1>0. TypeOK /\ Shape /\ Places /\ Flow /\ Bounds
  BY Zenon DEF RelayInv
<1>1. /\ UNCHANGED <<subbufs_produced, offset, subbuf, subbufs_consumed, bytes_consumed, ncells>>
      /\ failed' = failed /\ torn' = torn /\ attaches' = attaches
  BY Zenon DEF Quiet
<1>2. Shape' /\ Places' /\ Flow'
  BY <1>0, <1>1, QuietFlow, Zenon
<1>3. Bounds'
  BY <1>0, <1>1, Zenon DEF Bounds
<1>4. TypeOK'
  BY <1>0, <1>1, Zenon DEF TypeOK, Full
<1> QED
  BY <1>2, <1>3, <1>4, Zenon

\* The wakeup timer.
LEMMA WakeupTimerStep ==
  ASSUME RelayInv, WakeupTimer
  PROVE  RelayInv'
<1>1. /\ TypeOK /\ Ending
  BY Zenon DEF RelayInv
<1>2. rpc' = rpc \/ (rpc = "asleep" /\ rpc' = "read")
  BY Zenon DEF WakeupTimer
<1>3. "asleep" # "none" /\ "read" # "done" /\ "read" # "empty" /\ (rpc = "none" => rpc' = "none")
  BY <1>2
<1>4. /\ Quiet /\ UNCHANGED <<transport_state, dropped, failures, pdu, headers, build>>
      /\ overwrite_flag' = overwrite_flag /\ sigusr2' = sigusr2
      /\ stop_threads' = stop_threads /\ fresh' = fresh /\ wakeup' \in BOOLEAN
  BY <1>3, Zenon DEF WakeupTimer, buffer, taken, written, Quiet, Attached
<1>5. rpc' \in {"enter", "poll", "asleep", "read", "empty", "done", "none"}
  BY <1>1, <1>2, Zenon DEF TypeOK
<1>6. TypeOK' /\ Shape' /\ Places' /\ Flow' /\ Bounds'
  BY <1>1, <1>4, <1>5, QuietStep, Zenon DEF TypeOK
<1>7. Ending'
  BY <1>1, <1>2, <1>3, <1>4, Zenon DEF Ending, Attached, Quiet, Full
<1> QED
  BY <1>6, <1>7, Zenon DEF RelayInv

\* reader_thread in ppoll: it stops for the signal only if there is no sub-buffer
\* to read.
LEMMA PollStep ==
  ASSUME RelayInv, PollEnter \/ Poll \/ PollTimeout
  PROVE  RelayInv'
<1>1. /\ TypeOK /\ Ending
  BY Zenon DEF RelayInv
<1>2. UNCHANGED <<transport_state, overwrite_flag, buffer, taken, wakeup, dropped, failures,
                  written, stop_threads, failed, out, fresh, torn, attaches, build>>
  BY Zenon DEF PollEnter, Poll, PollTimeout
<1>3. sigusr2' \in BOOLEAN
  BY <1>1, Zenon DEF TypeOK, PollEnter, Poll, PollTimeout
<1>4. /\ rpc' \in {"poll", "asleep", "read", "done"} /\ rpc \in {"enter", "poll", "asleep"}
      /\ rpc' = "done" => stop_threads /\ subbufs_produced = subbufs_consumed
  BY DEF PollEnter, Poll, PollTimeout
<1>5. /\ rpc # "none" /\ rpc' # "none" /\ rpc' # "empty"
      /\ rpc' \in {"enter", "poll", "asleep", "read", "empty", "done", "none"}
  BY <1>4
<1>6. /\ Quiet /\ UNCHANGED <<transport_state, dropped, failures, pdu, headers, build>>
      /\ overwrite_flag' = overwrite_flag /\ wakeup' = wakeup
      /\ stop_threads' = stop_threads /\ fresh' = fresh
  BY <1>2, <1>5, Zenon DEF buffer, taken, written, Quiet, Attached
<1>7. TypeOK' /\ Shape' /\ Places' /\ Flow' /\ Bounds'
  BY <1>1, <1>3, <1>5, <1>6, QuietStep, Zenon DEF TypeOK
<1>8. Ending'
  BY <1>1, <1>4, <1>5, <1>6, Zenon DEF Ending, Attached, Quiet, Full
<1> QED
  BY <1>7, <1>8, Zenon DEF RelayInv

\* while (!stop_threads): a reader that stops here is not fresh.
LEMMA LoopTestStep ==
  ASSUME RelayInv, LoopTest
  PROVE  RelayInv'
<1>1. /\ TypeOK /\ Ending
  BY Zenon DEF RelayInv
<1>2. /\ rpc = "empty" /\ sigusr2' = sigusr2
      /\ (rpc' = "done" /\ stop_threads) \/ rpc' = "enter"
      /\ UNCHANGED <<transport_state, overwrite_flag, buffer, taken, wakeup, dropped, failures,
                     written, stop_threads, failed, out, fresh, torn, attaches, build>>
  BY Zenon DEF LoopTest
<1>3. /\ rpc # "none" /\ rpc' # "none" /\ rpc' # "empty"
      /\ rpc' \in {"enter", "poll", "asleep", "read", "empty", "done", "none"}
      /\ rpc' = "done" => stop_threads
  BY <1>2
<1>4. /\ Quiet /\ UNCHANGED <<transport_state, dropped, failures, pdu, headers, build>>
      /\ overwrite_flag' = overwrite_flag /\ wakeup' = wakeup
      /\ stop_threads' = stop_threads /\ fresh' = fresh
  BY <1>2, <1>3, Zenon DEF buffer, taken, written, Quiet, Attached
<1>5. TypeOK' /\ Shape' /\ Places' /\ Flow' /\ Bounds'
  BY <1>1, <1>2, <1>3, <1>4, QuietStep, Zenon DEF TypeOK
<1>6. Ending'
  <2>1. transport_state' = "STOPPED" => ~fresh'
    <3>1. transport_state = "STOPPED" => ~fresh
      BY <1>1, <1>2, Zenon DEF Ending
    <3>2. transport_state' = transport_state /\ fresh' = fresh
      BY <1>2, Zenon
    <3> QED
      BY <3>1, <3>2, Zenon
  <2>2. rpc' = "done" => stop_threads'
    BY <1>3, <1>4, Zenon
  <2>3. ~overwrite_flag'
    BY <1>1, <1>3, <1>4, Zenon DEF Ending, Attached
  <2> QED
    BY <1>1, <1>3, <1>4, <2>1, <2>2, <2>3, Zenon DEF Ending, Quiet, Full
<1> QED
  BY <1>5, <1>6, Zenon DEF RelayInv

\* close_relayfs.
LEMMA CloseStep ==
  ASSUME RelayInv, CloseRelayfs
  PROVE  RelayInv'
<1>1. /\ TypeOK /\ Ending
  BY Zenon DEF RelayInv
<1>2. /\ rpc' = rpc /\ stop_threads' = TRUE /\ sigusr2' \in BOOLEAN /\ stop_threads' \in BOOLEAN
      /\ UNCHANGED <<transport_state, overwrite_flag, buffer, taken, wakeup, dropped, failures,
                     written, failed, out, fresh, torn, attaches, build>>
  BY Zenon DEF CloseRelayfs
<1>3. /\ Quiet /\ UNCHANGED <<transport_state, dropped, failures, pdu, headers, build>>
      /\ overwrite_flag' = overwrite_flag /\ wakeup' = wakeup /\ fresh' = fresh
  BY <1>2, Zenon DEF buffer, taken, written, Quiet, Attached
<1>4. TypeOK' /\ Shape' /\ Places' /\ Flow' /\ Bounds'
  BY <1>1, <1>2, <1>3, QuietStep, Zenon DEF TypeOK
<1>5. Ending'
  <2>1. stop_threads'
    BY <1>2, Zenon
  <2>2. rpc = "empty" /\ transport_state = "STOPPED" => ~fresh
    BY <1>1, Zenon DEF Ending
  <2>3. transport_state = "STOPPED" /\ rpc = "done" /\ ~failed /\ fresh =>
          subbufs_produced = subbufs_consumed
    BY <1>1, Zenon DEF Ending
  <2>4. (Attached => ~overwrite_flag) /\ (transport_state = "STOPPED" => offset = Full \/ offset = 0)
    BY <1>1, Zenon DEF Ending
  <2>5. /\ transport_state' = transport_state /\ overwrite_flag' = overwrite_flag /\ rpc' = rpc
        /\ fresh' = fresh /\ failed' = failed /\ offset' = offset
        /\ subbufs_produced' = subbufs_produced /\ subbufs_consumed' = subbufs_consumed
    BY <1>2, Zenon DEF buffer, taken
  <2> QED
    BY <2>1, <2>2, <2>3, <2>4, <2>5, Zenon DEF Ending, Attached, Full
<1> QED
  BY <1>4, <1>5, Zenon DEF RelayInv

\* _stp_detach: the flag to overwrite is set when nobody is attached.
LEMMA DetachStep ==
  ASSUME RelayInv, Detach
  PROVE  RelayInv'
<1>1. /\ TypeOK /\ Ending
  BY Zenon DEF RelayInv
<1>2. /\ rpc' = "none"
      /\ overwrite_flag' \in {overwrite_flag, overwrite_flag \/ transport_state = "RUNNING"}
      /\ UNCHANGED <<transport_state, buffer, taken, wakeup, dropped, failures, written, sigusr2,
                     stop_threads, failed, out, fresh, torn, attaches, build>>
  BY Zenon DEF Detach
<1>3. overwrite_flag' \in BOOLEAN
  <2>1. overwrite_flag \in BOOLEAN
    BY <1>1, Zenon DEF TypeOK
  <2> QED
    BY <1>2, <2>1, Zenon
<1>4. /\ ~Attached' /\ rpc' # "done" /\ rpc' # "empty"
      /\ rpc' \in {"enter", "poll", "asleep", "read", "empty", "done", "none"}
  BY <1>2 DEF Attached
<1>5. /\ Quiet /\ UNCHANGED <<transport_state, dropped, failures, pdu, headers, build>>
      /\ wakeup' = wakeup /\ fresh' = fresh /\ sigusr2' = sigusr2 /\ stop_threads' = stop_threads
  BY <1>2, <1>4, Zenon DEF buffer, taken, written, Quiet
<1>6. TypeOK' /\ Shape' /\ Places' /\ Flow' /\ Bounds'
  BY <1>1, <1>3, <1>4, <1>5, QuietStep, Zenon DEF TypeOK
<1>7. Ending'
  BY <1>1, <1>4, <1>5, Zenon DEF Ending, Quiet, Full
<1> QED
  BY <1>6, <1>7, Zenon DEF RelayInv

\* _stp_attach and init_relayfs.
LEMMA AttachStep ==
  ASSUME RelayInv, Attach
  PROVE  RelayInv'
<1>0. TypeOK /\ Shape /\ Places /\ Flow /\ Bounds /\ Ending
  BY Zenon DEF RelayInv
<1>1. attaches \in Nat /\ attaches' \in 0..MaxAttach
  <2>1. attaches < MaxAttach /\ attaches' = attaches + 1
    BY Zenon DEF Attach
  <2> QED
    BY <1>0, <2>1, RelayAssumption DEF TypeOK
<1>2. Shape' /\ Places' /\ Flow'
  BY <1>0, <1>1, AttachFlow, Zenon
<1>3. /\ overwrite_flag' = FALSE /\ rpc' = "enter" /\ sigusr2' = FALSE /\ stop_threads' = FALSE
      /\ failed' = FALSE /\ fresh' = TRUE /\ torn' = FALSE
      /\ UNCHANGED <<transport_state, buffer, taken, wakeup, dropped, failures, written, build>>
  BY Zenon DEF Attach
<1>4. /\ overwrite_flag' \in BOOLEAN /\ sigusr2' \in BOOLEAN /\ stop_threads' \in BOOLEAN
      /\ failed' \in BOOLEAN /\ fresh' \in BOOLEAN /\ torn' \in BOOLEAN /\ ~overwrite_flag'
      /\ rpc' \in {"enter", "poll", "asleep", "read", "empty", "done", "none"}
  BY <1>3, Zenon
<1>5. TypeOK'
  BY <1>0, <1>1, <1>3, <1>4, Zenon DEF TypeOK, Full, buffer, taken, written
<1>6. Bounds'
  BY <1>0, <1>3, Zenon DEF Bounds, written
<1>7. Ending'
  <2>1. rpc' # "done" /\ rpc' # "empty"
    BY <1>3
  <2> QED
    BY <1>0, <1>3, <1>4, <2>1, Zenon DEF Ending, Full, buffer
<1> QED
  BY <1>2, <1>5, <1>6, <1>7, Zenon DEF RelayInv

\* The reader copies one sub-buffer, or fails to.
LEMMA ReadDataStep ==
  ASSUME RelayInv, ReadData
  PROVE  RelayInv'
<1>0. TypeOK /\ Shape /\ Places /\ Flow /\ Bounds /\ Ending
  BY Zenon DEF RelayInv
<1>1. Shape' /\ Places' /\ Flow'
  BY <1>0, ReadDataFlow, Zenon
<1>2. /\ rpc = "read" /\ torn' = (torn \/ Misplaced)
      /\ (rpc' = rpc /\ failed' = failed) \/ (rpc' = "done" /\ failed' = TRUE)
      /\ UNCHANGED <<transport_state, overwrite_flag, buffer, wakeup, dropped, failures, written,
                     sigusr2, stop_threads, fresh, attaches, build>>
  BY Zenon DEF ReadData
<1>3. /\ torn' \in BOOLEAN /\ failed' \in BOOLEAN
      /\ rpc' \in {"enter", "poll", "asleep", "read", "empty", "done", "none"}
  BY <1>0, <1>2, Zenon DEF TypeOK
<1>4. bytes_consumed' \in 0..SubbufSize
  <2> DEFINE r == ReadSubbuf
             cells == CellsFrom(r, ReadByte)
             last == r = subbufs_produced
  <2>1. /\ InBuffer(r)
        /\ subbufs_consumed' = IF last THEN r ELSE r + 1
        /\ bytes_consumed' = IF last THEN ReadByte + Len(cells) ELSE 0
    BY Zenon DEF ReadData
  <2>2. CASE last
    <3>1. offset # Full
      <4>1. ~(subbufs_produced < subbufs_produced)
        BY <1>0 DEF Shape
      <4> QED
        BY <2>1, <2>2, <4>1, Zenon DEF InBuffer
    <3>2. /\ subbufs_produced' = subbufs_produced /\ offset' = offset /\ subbuf' = subbuf
          /\ subbufs_consumed' = subbufs_produced
      BY <1>2, <2>1, <2>2, Zenon DEF buffer
    <3>3. Held(subbufs_consumed)'
      <4>1. subbufs_produced \in Nat /\ NSubbufs \in Nat \ {0}
        BY <1>0, RelayAssumption DEF Shape
      <4> QED
        BY <3>1, <3>2, <4>1 DEF Held, Newest, Produced, Full
    <3>4. bytes_consumed' <= Len(subbuf[Slot(subbufs_produced)])
      BY <1>1, <3>2, <3>3, Zenon DEF Places, Slot
    <3>5. Len(subbuf[Slot(subbufs_produced)]) <= SubbufSize
      <4>1. subbufs_produced \in Nat
        BY <1>0, Zenon DEF Shape
      <4> QED
        BY <1>0, <4>1, SlotIn, Zenon DEF TypeOK
    <3>6. bytes_consumed' \in Nat /\ subbuf[Slot(subbufs_produced)] \in Seq(Nat)
      <4>1. subbufs_produced \in Nat
        BY <1>0, Zenon DEF Shape
      <4> QED
        BY <1>0, <1>1, <4>1, SlotIn, Zenon DEF Shape
    <3>7. Len(subbuf[Slot(subbufs_produced)]) \in Nat
      BY <3>6, LenProperties, Zenon
    <3> QED
      BY <3>4, <3>5, <3>6, <3>7, RelayAssumption
  <2>3. CASE ~last
    <3>1. bytes_consumed' = 0
      BY <2>1, <2>3, Zenon
    <3> QED
      BY <3>1, RelayAssumption
  <2> QED
    BY <2>2, <2>3, Zenon
<1>5. TypeOK'
  <2>1. subbufs_consumed' \in 0..subbufs_produced'
    BY <1>1, Zenon DEF Shape
  <2> QED
    BY <1>0, <1>2, <1>3, <1>4, <2>1, Zenon DEF TypeOK, Full, buffer, written
<1>6. Bounds'
  BY <1>0, <1>2, Zenon DEF Bounds, written
<1>7. Ending'
  <2>1. rpc # "none" /\ rpc' # "empty" /\ (rpc' = "done" => failed' = TRUE)
    BY <1>2
  <2>2. ~overwrite_flag'
    BY <1>0, <1>2, <2>1, Zenon DEF Ending, Attached
  <2>3. rpc' = "done" => failed'
    BY <2>1, Zenon
  <2> QED
    BY <1>0, <1>2, <2>1, <2>2, <2>3, Zenon DEF Ending, Full, buffer
<1> QED
  BY <1>1, <1>5, <1>6, <1>7, Zenon DEF RelayInv

\* The reader finds nothing.
LEMMA ReadEmptyStep ==
  ASSUME RelayInv, ReadEmpty
  PROVE  RelayInv'
<1>0. TypeOK /\ Shape /\ Places /\ Flow /\ Bounds /\ Ending
  BY Zenon DEF RelayInv
<1>1. Shape' /\ Places' /\ Flow'
  BY <1>0, ReadEmptyFlow, Zenon
<1>2. /\ rpc = "read" /\ rpc' = "empty" /\ fresh' = FALSE /\ bytes_consumed' = ReadByte
      /\ UNCHANGED <<transport_state, overwrite_flag, buffer, wakeup, dropped, failures, written,
                     sigusr2, stop_threads, failed, torn, attaches, build>>
  BY Zenon DEF ReadEmpty
<1>3. /\ fresh' \in BOOLEAN /\ ~fresh'
      /\ rpc' \in {"enter", "poll", "asleep", "read", "empty", "done", "none"}
  BY <1>2, Zenon
<1>4. bytes_consumed' \in 0..SubbufSize
  <2>1. bytes_consumed \in 0..SubbufSize /\ 0 \in 0..SubbufSize
    BY <1>0, RelayAssumption DEF TypeOK
  <2> QED
    BY <1>2, <2>1, Zenon DEF ReadByte
<1>5. TypeOK'
  <2>1. subbufs_consumed' \in 0..subbufs_produced'
    BY <1>1, Zenon DEF Shape
  <2> QED
    BY <1>0, <1>2, <1>3, <1>4, <2>1, Zenon DEF TypeOK, Full, buffer, written
<1>6. Bounds'
  BY <1>0, <1>2, Zenon DEF Bounds, written
<1>7. Ending'
  <2>1. rpc # "none" /\ rpc' # "done"
    BY <1>2
  <2>2. ~overwrite_flag'
    BY <1>0, <1>2, <2>1, Zenon DEF Ending, Attached
  <2> QED
    BY <1>0, <1>2, <1>3, <2>1, <2>2, Zenon DEF Ending, Full, buffer
<1> QED
  BY <1>1, <1>5, <1>6, <1>7, Zenon DEF RelayInv

\* stapio has opened the file of an empty buffer.
LEMMA RelayInit ==
  ASSUME Init
  PROVE  RelayInv
<1>1. /\ transport_state = "RUNNING" /\ overwrite_flag = FALSE
      /\ subbufs_produced = 0 /\ subbufs_consumed = 0 /\ bytes_consumed = 0
      /\ offset = 0 /\ subbuf = [i \in 0..(NSubbufs - 1) |-> <<>>]
      /\ wakeup = FALSE /\ dropped = 0 /\ failures = 0 /\ ncells = 0 /\ pdu = 0 /\ headers = {}
      /\ rpc = "enter" /\ sigusr2 = FALSE /\ stop_threads = FALSE /\ failed = FALSE
      /\ out = <<>> /\ fresh = TRUE /\ torn = FALSE /\ attaches = 0 /\ build \in Builds
  BY Zenon DEF Init
<1>2. /\ NSubbufs \in Nat \ {0} /\ SubbufSize \in Nat \ {0} /\ MaxCells \in Nat
      /\ MaxAttach \in Nat /\ MaxDropped \in Nat /\ 0 # Full /\ 0 \in 0..Full
  BY RelayAssumption DEF Full
<1>3. Produced = 1 /\ Newest = 0
  <2>1. Produced = 0 + 1
    BY <1>1, <1>2, Zenon DEF Produced
  <2> QED
    BY <2>1 DEF Newest
<1>4. 0 \in 0..0 /\ 0 <= 0 /\ 0 \in Nat /\ 0 # 1 /\ <<>> \in Seq(Nat) /\ Len(<<>>) = 0
      /\ 0 + 0 = 0
  OBVIOUS
<1>5. Slot(0) \in 0..(NSubbufs - 1) /\ subbuf[Slot(0)] = <<>>
  BY <1>1, <1>4, SlotIn, Zenon
<1>6. Shape
  BY <1>1, <1>2, <1>4, Zenon DEF Shape
<1>7. Places
  BY <1>1, <1>2, <1>3, <1>4, <1>5, Zenon DEF Places
<1>8. Flow
  <2>1. PICK start : start = [i \in Nat |-> 0]
    BY Zenon
  <2>2. start \in [Nat -> Nat] /\ \A i \in Nat : start[i] = 0
    BY <2>1
  <2>3. \A i \in Nat : i + 1 \in Nat /\ (Held(i) => i = 0)
    BY <1>2, <1>3 DEF Held
  <2>4. Run(0, 0) = <<>> /\ 1 \in Nat
    BY <1>4, RunEmpty, Zenon
  <2>5. Laid(start)
    BY <1>1, <1>3, <1>4, <1>5, <2>2, <2>3, <2>4, Zenon DEF Laid
  <2>6. ~Lapped
    BY <1>1, <1>2 DEF Lapped
  <2>7. Behind(start) = 0
    BY <1>1, <1>4, <2>2, <2>6, Zenon DEF Behind, ReadSubbuf, ReadByte
  <2>8. Given(start)
    BY <1>1, <1>4, <2>4, <2>7, Zenon DEF Given
  <2> QED
    BY <2>5, <2>8, Zenon DEF Flow
<1>9. TypeOK
  <2>1. \A i \in DOMAIN subbuf : Len(subbuf[i]) <= SubbufSize
    BY <1>1, <1>2
  <2>2. /\ 0 \in 0..SubbufSize /\ 0 \in 0..MaxCells /\ 0 \in 0..(MaxDropped + 1)
        /\ 0 \in 0..MaxAttach
    BY <1>2
  <2>3. DOMAIN subbuf = 0..(NSubbufs - 1)
    BY <1>1, Zenon
  <2> QED
    BY <1>1, <1>2, <1>4, <2>1, <2>2, <2>3, Zenon DEF TypeOK
<1>10. Bounds
  BY <1>1, <1>2 DEF Bounds
<1>11. Ending
  <2>1. "enter" # "done" /\ "enter" # "empty" /\ "RUNNING" # "STOPPED"
    OBVIOUS
  <2> QED
    BY <1>1, <2>1, Zenon DEF Ending
<1> QED
  BY <1>6, <1>7, <1>8, <1>9, <1>10, <1>11, Zenon DEF RelayInv

\* Every step keeps the invariant.
LEMMA RelayNext ==
  ASSUME RelayInv, [Next]_vars
  PROVE  RelayInv'
<1>1. CASE UNCHANGED vars
  <2>1. /\ Quiet /\ UNCHANGED <<transport_state, dropped, failures, pdu, headers, build>>
        /\ wakeup' = wakeup /\ overwrite_flag' = overwrite_flag /\ sigusr2' = sigusr2
        /\ stop_threads' = stop_threads /\ fresh' = fresh /\ rpc' = rpc
    BY <1>1, Zenon DEF vars, buffer, taken, reader, written, Quiet, Attached
  <2>2. TypeOK /\ Ending
    BY Zenon DEF RelayInv
  <2>3. TypeOK' /\ Shape' /\ Places' /\ Flow' /\ Bounds'
    BY <2>1, <2>2, QuietStep, Zenon DEF TypeOK
  <2>4. Ending'
    BY <2>1, <2>2, Zenon DEF Ending, Attached, Quiet, Full
  <2> QED
    BY <2>3, <2>4, Zenon DEF RelayInv
<1>2. CASE \E len \in 1..SubbufSize : Flush(len) \/ FlushHeader(len)
  BY <1>2, FlushStep, FlushHeaderStep, Zenon
<1>3. CASE Reader
  BY <1>3, PollStep, ReadDataStep, ReadEmptyStep, LoopTestStep, Zenon DEF Reader
<1>4. CASE FlushData \/ WakeupTimer \/ DataStop
  BY <1>4, FlushDataStep, WakeupTimerStep, DataStopStep, Zenon
<1>5. CASE CloseRelayfs \/ Detach \/ Attach
  BY <1>5, CloseStep, DetachStep, AttachStep, Zenon
<1> QED
  BY <1>1, <1>2, <1>3, <1>4, <1>5, Zenon DEF Next

-----------------------------------------------------------------------------
(* The theorems *)

\* The invariant: types, the order of the cells in the ring, the places of the
\* writer and the reader in it, and what the reader has been given.
THEOREM RelayInvariant == Spec => []RelayInv
<1>1. Init => RelayInv
  BY RelayInit
<1>2. RelayInv /\ [Next]_vars => RelayInv'
  BY RelayNext
<1> QED
  BY <1>1, <1>2, PTL DEF Spec

\* Every variable stays within its type; no sub-buffer is filled beyond its size.
THEOREM RelayTypes == Spec => []TypeOK
<1>1. RelayInv => TypeOK
  BY Zenon DEF RelayInv
<1> QED
  BY <1>1, RelayInvariant, PTL

\* A run of cells is unbroken, and ends with its last.
LEMMA RunUnbroken ==
  ASSUME NEW f \in Nat, NEW n \in Nat, f <= n
  PROVE  LET s == Run(f, n) IN
           /\ \A i \in 1..(Len(s) - 1) : s[i + 1] = s[i] + 1
           /\ s # <<>> => s[Len(s)] = n
           /\ f = 0 => Len(s) = n
<1> DEFINE s == Run(f, n)
<1>1. s \in Seq(Nat) /\ Len(s) = n - f
  BY RunSeq, Zenon
<1>2. \A i \in 1..(n - f) : s[i] = f + i
  BY DEF Run
<1> HIDE DEF s
<1>3. \A i \in 1..(Len(s) - 1) : s[i + 1] = s[i] + 1
  <2> SUFFICES ASSUME NEW i \in 1..(Len(s) - 1) PROVE s[i + 1] = s[i] + 1
    OBVIOUS
  <2>1. i \in 1..(n - f) /\ i + 1 \in 1..(n - f)
    BY <1>1
  <2>2. s[i] = f + i /\ s[i + 1] = f + (i + 1)
    BY <1>2, <2>1, Zenon
  <2> QED
    BY <2>1, <2>2
<1>4. ASSUME s # <<>> PROVE s[Len(s)] = n
  <2>1. n - f # 0
    BY <1>1, <1>4, EmptySeq, Zenon
  <2>2. n - f \in 1..(n - f) /\ f + (n - f) = n
    BY <2>1
  <2> QED
    BY <1>1, <1>2, <2>2, Zenon
<1>5. f = 0 => Len(s) = n
  BY <1>1
<1> QED
  BY <1>3, <1>4, <1>5, Zenon DEF s

\* Lossless: what an attached stapio has written and what it can still read are,
\* together, an unbroken run of the accepted cells up to the newest; from the first
\* one on, until the first detach.  For any size and number of sub-buffers, in both
\* modes, with any interleaving of flushes, timer, reads, detach and attach.
THEOREM NothingLost == Spec => []Lossless
<1>1. ASSUME RelayInv PROVE Lossless
  <2> SUFFICES ASSUME Attached /\ ~failed /\ ~torn /\ ~Misplaced
               PROVE  LET s == out \o Unread IN
                        /\ \A i \in 1..(Len(s) - 1) : s[i + 1] = s[i] + 1
                        /\ s # <<>> => s[Len(s)] = ncells
                        /\ attaches = 0 => Len(s) = ncells
    BY Zenon DEF Lossless
  <2>1. Shape /\ Places /\ Flow
    BY <1>1, Zenon DEF RelayInv
  <2>2. PICK start : Laid(start) /\ Given(start)
    BY <2>1, Zenon DEF Flow
  <2> DEFINE B == Behind(start)
  <2>3. B \in 0..ncells /\ Unread = Run(B, ncells) /\ ncells \in Nat
    BY <2>1, <2>2, UnreadRun, Zenon DEF Shape
  <2>4. PICK f \in 0..B : out = Run(f, B) /\ (attaches = 0 => f = 0)
    BY <2>2, Zenon DEF Given
  <2> HIDE DEF B
  <2>5. B \in Nat /\ B <= ncells /\ f \in Nat /\ f <= B /\ f <= ncells
    <3>1. B \in 0..ncells /\ ncells \in Nat /\ f \in 0..B
      BY <2>3, <2>4, Zenon
    <3> QED
      BY <3>1
  <2>6. Run(f, B) \o Run(B, ncells) = Run(f, ncells)
    BY <2>3, <2>5, RunConcat, Zenon
  <2>7. out \o Unread = Run(f, ncells)
    BY <2>3, <2>4, <2>6, Zenon
  <2> DEFINE w == Run(f, ncells)
  <2>8. /\ \A i \in 1..(Len(w) - 1) : w[i + 1] = w[i] + 1
        /\ w # <<>> => w[Len(w)] = ncells
        /\ f = 0 => Len(w) = ncells
    BY <2>3, <2>5, RunUnbroken, Zenon
  <2>9. out \o Unread = w /\ (attaches = 0 => f = 0)
    BY <2>4, <2>7, Zenon
  <2> HIDE DEF w
  <2> QED
    BY <2>8, <2>9, Zenon
<1> QED
  BY <1>1, RelayInvariant, PTL

\* FinalDrain: a reader thread that stops after the final flush, having been able to
\* see it and without an error, has read everything.
THEOREM DrainsAll == Spec => []FinalDrain
<1>1. ASSUME RelayInv PROVE FinalDrain
  <2> SUFFICES ASSUME transport_state = "STOPPED" /\ rpc = "done" /\ ~failed /\ fresh
               PROVE  Unread = <<>>
    BY Zenon DEF FinalDrain
  <2>0. Shape /\ Places /\ Flow
    BY <1>1, Zenon DEF RelayInv
  <2>1. /\ subbufs_produced = subbufs_consumed
        /\ offset = Full \/ offset = 0
    BY <1>1, Zenon DEF RelayInv, Ending
  <2>2. /\ subbufs_produced \in Nat /\ bytes_consumed \in Nat /\ offset \in 0..Full /\ ncells \in Nat
        /\ NSubbufs \in Nat \ {0} /\ SubbufSize \in Nat \ {0} /\ 0 # Full
    BY <2>0, RelayAssumption DEF Shape, Full
  <2>3. ~Misplaced /\ ~Lapped
    BY <2>1, <2>2 DEF Misplaced, Lapped
  <2>4. PICK start : Laid(start)
    BY <2>0, Zenon DEF Flow
  <2>5. Behind(start) \in 0..ncells /\ Unread = Run(Behind(start), ncells)
    BY <2>0, <2>3, <2>4, UnreadRun, Zenon
  <2>6. ReadSubbuf = subbufs_produced /\ ReadByte = bytes_consumed
    BY <2>1, <2>3, Zenon DEF ReadSubbuf, ReadByte
  <2>7. CASE ~InBuffer(ReadSubbuf)
    <3>1. offset = Full
      BY <2>6, <2>7, Zenon DEF InBuffer
    <3>2. Produced = subbufs_produced
      BY <3>1, Zenon DEF Produced
    <3>3. bytes_consumed = 0 /\ start[subbufs_produced] = ncells
      BY <2>0, <2>1, <2>4, <3>2, Zenon DEF Places, Laid
    <3>4. ncells + 0 = ncells
      BY <2>2
    <3> QED
      BY <2>2, <2>5, <2>6, <3>3, <3>4, RunEmpty, Zenon DEF Behind
  <2>8. CASE InBuffer(ReadSubbuf)
    <3>1. offset # Full /\ offset = 0
      <4>1. ~(subbufs_produced < subbufs_produced)
        BY <2>2
      <4> QED
        BY <2>1, <2>6, <2>8, <4>1, Zenon DEF InBuffer
    <3>2. Produced = ReadSubbuf + 1
      BY <2>6, <3>1, Zenon DEF Produced
    <3> DEFINE a == start[ReadSubbuf]
               B == Behind(start)
               n == Len(subbuf[Slot(ReadSubbuf)])
    <3>3. /\ a \in Nat /\ B \in Nat /\ ReadByte \in Nat /\ B <= start[ReadSubbuf + 1]
          /\ n = start[ReadSubbuf + 1] - a /\ B = a + ReadByte
      BY <2>0, <2>3, <2>4, <2>8, ReadPlace, Zenon DEF Behind
    <3>4. start[ReadSubbuf + 1] = ncells /\ n = 0
      BY <2>0, <2>4, <2>6, <3>1, <3>2, Zenon DEF Laid, Places
    <3>5. B <= ncells /\ 0 = ncells - a
      BY <3>3, <3>4, Zenon
    <3> HIDE DEF a, B, n
    <3>6. B = ncells
      BY <2>2, <3>3, <3>5
    <3> QED
      BY <2>2, <2>5, <3>6, RunEmpty, Zenon DEF B
  <2> QED
    BY <2>7, <2>8, Zenon
<1> QED
  BY <1>1, RelayInvariant, PTL
=============================================================================
