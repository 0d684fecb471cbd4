------------------------- MODULE TaskFinderTheorems -------------------------
(***************************************************************************)
(* No thread is missed, the dead are forgotten, no saved system call is    *)
(* left over: for any finite sets of threads and targets, any executables, *)
(* any order of the list and any number of events.  FinderInv of module    *)
(* TaskFinderProofs is the invariant; the steps of the callbacks, of the   *)
(* threads and of the start keep its part about the running finder here.   *)
(***************************************************************************)
EXTENDS TaskFinderProofs

-----------------------------------------------------------------------------
(* The callbacks keep track of the threads *)

\* The engine whose turn it is.
LEMMA HeadIs ==
    ASSUME NEW e \in Reports
    PROVE  /\ Head(e.left) = e.left[1] /\ 1 \in DOMAIN e.left
           /\ Len(e.left) \in Nat /\ Len(e.left) >= 1
<1>1. PICK s \in Seq(Ops) : s = e.left /\ s # <<>>
  BY ReportFields, Zenon
<1>2. Len(s) \in Nat \ {0} /\ DOMAIN s = 1..Len(s)
  BY <1>1, EmptySeq, LenProperties, Zenon
<1>3. 1 \in 1..Len(s) /\ Len(s) \in Nat /\ Len(s) >= 1
  BY <1>2
<1>4. Head(s) = s[1]
  OBVIOUS
<1> QED
  BY <1>1, <1>2, <1>3, <1>4, Zenon

\* A callback in thread t, which leaves the threads and the module's own
\* variables alone, makes report f of the one it belongs to, and does what
\* it has to where that report did.
LEMMA CallbackKeeps ==
    ASSUME Types, Tracked, UNCHANGED <<threads, module>>, NEW t \in Thread, NEW f,
           ev' = [ev EXCEPT ![t] = f],
           f.kind = "none" \/ (f.kind = ev[t].kind /\ f.child = ev[t].child),
           Sound(life[t], sys[t], engines'[t], f, told'[t], entry'[t].usage),
           \A x \in Thread \ {t} :
             /\ told'[x] = told[x] /\ entry'[x] = entry[x]
             /\ Sound(life[x], sys[x], engines'[x], ev[x], told[x], entry[x].usage),
           \A x \in Thread : life[x] = "alive" =>
             FoundAll(x)' \/ \A o : HasEngine(engines[x], o) => HasEngine(engines'[x], o),
           \A x \in Thread : Pending(ev[t], x) => Pending(f, x) \/ FoundAll(x)',
           ExecPending(ev[t]) => ExecPending(f) \/ FoundAll(t)'
    PROVE  Tracked'
<1>1. ev'[t] = f /\ \A x \in Thread \ {t} : ev'[x] = ev[x]
  BY Zenon DEF Types, TypeOK
<1>2. life' = life /\ sys' = sys /\ path' = path /\ list' = list /\ pc' = pc /\ todo' = todo
  BY Zenon DEF threads, module
<1>3. ASSUME NEW x \in Thread PROVE Local(x)'
  <2>1. CASE x = t
    BY <1>1, <1>2, <2>1, Zenon DEF Local
  <2>2. CASE x # t
    BY <1>1, <1>2, <2>2, Zenon DEF Local
  <2> QED
    BY <2>1, <2>2
<1>4. ASSUME NEW x \in Thread PROVE Cloned(x)'
  <2>1. ev'[x].kind = "clone" => ev[x].kind = "clone" /\ ev'[x].child = ev[x].child
    BY <1>1, Zenon
  <2>2. Cloned(x)
    BY Zenon DEF Tracked
  <2> QED
    BY <1>2, <2>1, <2>2, Zenon DEF Cloned
<1>5. ASSUME NEW x \in Thread, life[x] = "alive", ~FoundAll(x)' PROVE Found(x)'
  <2>1. \A o : HasEngine(engines[x], o) => HasEngine(engines'[x], o)
    BY <1>5, Zenon
  <2>2. ASSUME NEW p \in Thread, Pending(ev[p], x) PROVE Pending(ev'[p], x)
    BY <1>1, <1>5, <2>2, Zenon
  <2>3. ExecPending(ev[x]) => ExecPending(ev'[x])
    BY <1>1, <1>5, Zenon
  <2>4. ~FoundAll(x)
    BY <1>2, <1>5, <2>1, Zenon DEF FoundAll, Matches
  <2> QED
    BY <1>2, <1>5, <2>1, <2>2, <2>3, <2>4, Zenon DEF Tracked, Found
<1>6. ASSUME NEW x \in Thread PROVE Found(x)'
  BY <1>2, <1>5, Zenon DEF Found
<1> QED
  BY <1>3, <1>4, <1>6, Zenon DEF Tracked

\* Every callback keeps track, from the check at its head to its return.
LEMMA CallbackTracks ==
    ASSUME Types, state = "running", Tracked, NEW t \in Thread, Callback(t), Types'
    PROVE  Tracked'
<1> DEFINE e == ev[t]
           l == life[t]
           s == sys[t]
           es == engines[t]
           td == told[t]
           u == entry[t].usage
           o == Head(e.left)
<1>1. UNCHANGED <<threads, module>>
  BY Zenon DEF Callback, PassOver, Check, HandlerStart, ReportClone, ReportExec, TargetDeath,
     TargetQuiesce, TargetSyscallEntry, TargetSyscallExit, Return
<1>2. /\ \A x \in Thread : /\ engines[x] \in Seq(Engine) /\ entry[x].usage \in Nat
                           /\ ev[x] \in {NoEvent} \cup Reports /\ told[x] \subseteq Target
      /\ list \in Seq(Target)
  BY DEF Types, TypeOK
<1>3. \A x \in Thread : Sound(life[x], sys[x], engines[x], ev[x], told[x], entry[x].usage)
  BY Zenon DEF Tracked, Local
<1>4. e \in Reports /\ TypeOK
  <2>1. e # NoEvent
    BY ReportFields, Zenon DEF Callback, PassOver, Check, HandlerStart, ReportClone, ReportExec,
       TargetDeath, TargetQuiesce, TargetSyscallEntry, TargetSyscallExit, Return, Work
  <2> QED
    BY <1>2, <2>1, Zenon DEF Types
<1>5. o = e.left[1] /\ 1 \in DOMAIN e.left /\ Len(e.left) \in Nat /\ Len(e.left) >= 1
  BY <1>4, HeadIs, Zenon
<1>6. \A x \in Thread : engines'[x] = engines[x] =>
        \A p : HasEngine(engines[x], p) => HasEngine(engines'[x], p)
  BY Zenon
<1>7. /\ Sound(l, s, es, e, td, u) /\ es \in Seq(Engine) /\ u \in Nat
      /\ u <= u /\ td \subseteq Target
  BY <1>2, <1>3
<1>8. Relies(es, e) /\ Registered(l, es, e, td) /\ Saved(s, es, e, u)
  BY <1>7, Zenon DEF Sound
<1> HIDE DEF e, l, s, es, td, u, o
<1>9. /\ e.kind \in {"clone", "exec"} => o = finder /\ HasEngine(es, finder)
      /\ e.kind \in {"quiesce", "exit"} => HasEngine(es, o)
      /\ \A p \in td : HasEngine(es, p)
  BY <1>5, <1>8, Zenon DEF Relies, Registered
<1>10. ASSUME PassOver(t) PROVE Tracked'
  <2>1. /\ ~HasEngine(es, o) /\ ev[t] # NoEvent /\ Over(t)
        /\ engines' = engines /\ entry' = entry /\ told' = told
    BY <1>10, Zenon DEF PassOver, es, o, e
  <2>2. PICK f : ev' = [ev EXCEPT ![t] = f] /\ Rest(e, f)
    BY <1>4, <2>1, OverIs, Zenon DEF e
  <2>3. e.kind \notin {"clone", "exec", "exit"} /\ o \notin td
    BY <1>9, <2>1, Zenon
  <2>4. Sound(l, s, es, f, td, u)
    BY <1>4, <1>7, <1>9, <2>2, <2>3, SoundRest, Zenon DEF o
  <2> QED
    BY <1>1, <1>3, <1>6, <2>1, <2>2, <2>3, <2>4, CallbackKeeps, Zenon
    DEF Rest, Pending, ExecPending, e, l, s, es, td, u
<1>11. ASSUME NEW x \in {"checked", "working"}, ev' = [ev EXCEPT ![t].step = x],
              e.step # "returning", engines' = engines, entry' = entry, told' = told
       PROVE  Tracked'
  <2>1. ev[t] # NoEvent /\ x \in Steps /\ x # "returning"
    BY <1>4, <1>11, ReportFields, Zenon DEF Steps, Kinds, e
  <2>2. PICK f : ev' = [ev EXCEPT ![t] = f] /\ Moved(e, x, f)
    BY <1>4, <1>11, <2>1, StepIs, Zenon DEF e
  <2>3. HasEngine(es, finder) \/ e.kind # "exec"
    BY <1>9, Zenon
  <2>4. Sound(l, s, es, f, td, u)
    BY <1>4, <1>7, <1>9, <1>11, <2>1, <2>2, <2>3, SoundMoved, Zenon
  <2>5. /\ f.kind = e.kind /\ f.child = e.child
        /\ \A y : Pending(e, y) => Pending(f, y)
        /\ ExecPending(e) => ExecPending(f)
    BY <2>1, <2>2, Zenon DEF Moved, Pending, ExecPending
  <2> QED
    BY <1>1, <1>3, <1>6, <1>11, <2>2, <2>4, <2>5, CallbackKeeps, Zenon DEF e, l, s, es, td, u
<1>12. ASSUME Check(t) PROVE Tracked'
  <2>1. ev[t] # NoEvent /\ e.step # "returning" /\ entry' = entry /\ told' = told
    BY <1>12, Zenon DEF Check, e
  <2>2. ASSUME Detaches(t, o), Over(t), engines' = [engines EXCEPT ![t] = Detach(es, {o})]
        PROVE  Tracked'
    <3> DEFINE fs == Detach(es, {o})
    <3>1. e.kind = "death" /\ o = finder
      BY <2>2, Zenon DEF Detaches, e
    <3>2. o \notin td /\ l = "dead"
      BY <1>7, <1>8, <3>1, TargetsGiven, Zenon DEF Registered, finder
    <3>3. fs \in Seq(Engine) /\ \A p : p \notin {o} /\ HasEngine(es, p) => HasEngine(fs, p)
      BY <1>7, DetachIs, Zenon
    <3>4. PICK f : ev' = [ev EXCEPT ![t] = f] /\ Rest(e, f)
      BY <1>4, <2>1, <2>2, OverIs, Zenon DEF e
    <3>5. engines'[t] = fs /\ \A x \in Thread \ {t} : engines'[x] = engines[x]
      BY <2>2, Zenon DEF Types, TypeOK
    <3> HIDE DEF fs
    <3>6. \A p \in td : HasEngine(fs, p)
      BY <1>9, <3>2, <3>3, Zenon
    <3>7. Sound(l, s, fs, f, td, u)
      BY <1>4, <1>7, <3>1, <3>2, <3>3, <3>4, <3>6, SoundRest, Zenon DEF o
    <3> QED
      BY <1>1, <1>3, <1>6, <2>1, <3>1, <3>2, <3>4, <3>5, <3>7, CallbackKeeps, Zenon
      DEF Rest, Pending, ExecPending, e, l, s, td, u
  <2>3. ASSUME Idle(t, o), Over(t), engines' = engines PROVE Tracked'
    <3>1. e.kind \in {"entry", "exit"} /\ (e.kind = "exit" => u = 0)
      BY <2>3 DEF Idle, e, u
    <3>2. e.kind = "exit" => u <= Len(e.left) - 1
      BY <1>5, <3>1
    <3>3. PICK f : ev' = [ev EXCEPT ![t] = f] /\ Rest(e, f)
      BY <1>4, <2>1, <2>3, OverIs, Zenon DEF e
    <3>4. Sound(l, s, es, f, td, u)
      BY <1>4, <1>7, <1>9, <3>1, <3>2, <3>3, SoundRest, Zenon
    <3> QED
      BY <1>1, <1>3, <1>6, <2>1, <2>3, <3>1, <3>3, <3>4, CallbackKeeps, Zenon
      DEF Rest, Pending, ExecPending, e, l, s, es, td, u
  <2>4. ASSUME ev' = [ev EXCEPT ![t].step = "checked"], engines' = engines PROVE Tracked'
    BY <1>11, <2>1, <2>4, Zenon
  <2> QED
    BY <1>12, <2>2, <2>3, <2>4, Zenon DEF Check, e, es, o
<1>13. ASSUME HandlerStart(t) PROVE Tracked'
  BY <1>11, <1>13, Zenon DEF HandlerStart, e
<1>14. ASSUME NEW k, Work(t, k)
       PROVE  /\ e.kind = k /\ e.step # "returning"
              /\ \E f : ev' = [ev EXCEPT ![t] = f] /\ Moved(e, "returning", f)
  <2>1. ev[t] # NoEvent /\ "returning" \in Steps
    BY <1>14, ReportFields, Zenon DEF Work, Steps
  <2> QED
    BY <1>4, <1>14, <2>1, StepIs, Zenon DEF Work, e
<1>15. ASSUME ReportClone(t) PROVE Tracked'
  <2>0. PICK c : c = e.child
    OBVIOUS
  <2> DEFINE gs == Matches(path[t])
             fs == AttachAll(Attach(engines[c], finder), gs)
  <2>1. /\ Work(t, "clone") /\ engines' = [engines EXCEPT ![c] = fs]
        /\ entry' = entry /\ told' = told
    BY <1>15, <2>0, Zenon DEF ReportClone, e
  <2>2. PICK f : ev' = [ev EXCEPT ![t] = f] /\ Moved(e, "returning", f)
    BY <1>14, <2>1, Zenon
  <2>3. e.kind = "clone" /\ e.step # "returning" /\ c \in Thread
    BY <1>4, <1>14, <2>0, <2>1, ReportFields, Zenon
  <2>4. /\ Grows(engines[c], fs) /\ HasEngine(fs, finder)
        /\ \A g \in gs : g \in Range(list) => HasEngine(fs, g)
    BY <1>2, <2>3, FoundGrows, Zenon
  <2>5. gs = Matches(path[c])' /\ \A g \in gs : g \in Range(list)
    <3>1. path[c] = path[t] /\ path' = path /\ list' = list
      BY <1>1, <2>0, <2>3, Zenon DEF Tracked, Cloned, e, threads, module
    <3> QED
      BY <3>1, Zenon DEF Matches
  <2> HIDE DEF fs, gs
  <2>6. engines'[c] = fs /\ \A x \in Thread \ {c} : engines'[x] = engines[x]
    BY <2>1, <2>3, Zenon DEF Types, TypeOK
  <2>7. FoundAll(c)'
    BY <2>4, <2>5, <2>6, Zenon DEF FoundAll
  <2>8. ASSUME NEW x \in Thread
        PROVE  /\ Sound(life[x], sys[x], engines'[x], ev[x], told[x], entry[x].usage)
               /\ \A p : HasEngine(engines[x], p) => HasEngine(engines'[x], p)
    <3>1. CASE x = c
      <4>1. Sound(life[x], sys[x], fs, ev[x], told[x], entry[x].usage)
        BY <1>2, <1>3, <2>4, <3>1, SoundGrows, Zenon
      <4> QED
        BY <2>4, <2>6, <3>1, <4>1, Zenon DEF Grows
    <3>2. CASE x # c
      BY <1>3, <2>6, <3>2, Zenon
    <3> QED
      BY <3>1, <3>2, Zenon
  <2> DEFINE hs == engines'[t]
  <2>9. hs \in Seq(Engine) /\ Sound(l, s, hs, e, td, u) /\ \A p \in td : HasEngine(hs, p)
    BY <1>9, <2>8, Zenon DEF Types, TypeOK, e, l, s, es, td, u
  <2> HIDE DEF hs
  <2>10. Sound(l, s, hs, f, td, u)
    BY <1>4, <1>7, <2>2, <2>3, <2>9, SoundMoved, Zenon
  <2>11. /\ f.kind = e.kind /\ f.child = e.child /\ ~ExecPending(e)
         /\ \A y : Pending(e, y) => y = c
    BY <2>0, <2>2, <2>3, Zenon DEF Moved, Pending, ExecPending
  <2> QED
    BY <1>1, <2>1, <2>2, <2>7, <2>8, <2>10, <2>11, CallbackKeeps, Zenon DEF e, l, s, td, u, hs
<1>16. ASSUME ReportExec(t) PROVE Tracked'
  <2> DEFINE old == IF parent[t] = t THEN {} ELSE Matches(path[parent[t]])
             new == Matches(path[t])
             ds == Detach(es, old)
             fs == AttachAll(ds, new)
  <2>1. /\ Work(t, "exec") /\ engines' = [engines EXCEPT ![t] = fs]
        /\ entry' = entry /\ told' = [told EXCEPT ![t] = td \ old]
    BY <1>16, Zenon DEF ReportExec, es, td
  <2>2. PICK f : ev' = [ev EXCEPT ![t] = f] /\ Moved(e, "returning", f)
    BY <1>14, <2>1, Zenon
  <2>3. e.kind = "exec" /\ e.step # "returning"
    BY <1>14, <2>1, Zenon
  <2>4. /\ new = Matches(path[t])' /\ \A g \in new : g \in Range(list)
        /\ \A g \in old : g \in Range(list)
    BY <1>1, Zenon DEF Matches, threads, module
  <2>5. \A g \in Range(list) : g # finder
    BY <1>2, TargetsGiven DEF Range, finder
  <2> HIDE DEF old, new
  <2>6. ds \in Seq(Engine) /\ \A p : p \notin old /\ HasEngine(es, p) => HasEngine(ds, p)
    BY <1>7, DetachIs, Zenon
  <2> HIDE DEF ds
  <2>7. Grows(ds, fs) /\ \A g \in new : g \in Range(list) => HasEngine(fs, g)
    BY <1>2, <2>6, AttachAllGrows, Zenon
  <2> HIDE DEF fs
  <2>8. /\ HasEngine(fs, finder) /\ fs \in Seq(Engine)
        /\ \A p \in td \ old : HasEngine(fs, p)
    BY <1>9, <2>3, <2>4, <2>5, <2>6, <2>7, Zenon DEF Grows
  <2>9. Sound(l, s, fs, f, td \ old, u)
    BY <1>4, <1>7, <2>2, <2>3, <2>8, SoundMoved, Zenon
  <2>10. /\ engines'[t] = fs /\ told'[t] = td \ old
         /\ \A x \in Thread \ {t} : engines'[x] = engines[x] /\ told'[x] = told[x]
    BY <2>1, Zenon DEF Types, TypeOK
  <2>11. FoundAll(t)'
    BY <2>4, <2>7, <2>8, <2>10, Zenon DEF FoundAll
  <2>12. f.kind = e.kind /\ f.child = e.child /\ \A y : ~Pending(e, y)
    BY <2>2, <2>3, Zenon DEF Moved, Pending
  <2> QED
    BY <1>1, <1>3, <1>6, <2>1, <2>2, <2>9, <2>10, <2>11, <2>12, CallbackKeeps, Zenon
    DEF e, l, s, u
<1>17. ASSUME NEW k, k \notin {"clone", "exec"}, Work(t, k), Grows(es, engines'[t]),
              \A p \in told'[t] : HasEngine(engines'[t], p),
              l = "dead" => told'[t] \subseteq td, k = "death" => o \notin told'[t],
              entry'[t].usage <= u \/ (k = "entry" /\ entry'[t].usage <= u + 1),
              \A x \in Thread \ {t} :
                engines'[x] = engines[x] /\ told'[x] = told[x] /\ entry'[x] = entry[x]
       PROVE  Tracked'
  <2> DEFINE fs == engines'[t]
             te == told'[t]
             v == entry'[t].usage
  <2>1. PICK f : ev' = [ev EXCEPT ![t] = f] /\ Moved(e, "returning", f)
    BY <1>14, <1>17, Zenon
  <2>2. e.kind = k /\ e.step # "returning" /\ fs \in Seq(Engine)
    BY <1>14, <1>17, Zenon DEF Grows
  <2>3. v \in Nat
    BY DEF Types, TypeOK
  <2>4. \A x \in Thread : \A p : HasEngine(engines[x], p) => HasEngine(engines'[x], p)
    BY <1>6, <1>17, Zenon DEF Grows, es
  <2>5. /\ Grows(es, fs) /\ \A p \in te : HasEngine(fs, p)
        /\ l = "dead" => te \subseteq td
        /\ e.kind = "death" => Head(e.left) \notin te
        /\ v <= u \/ (e.kind = "entry" /\ v <= u + 1)
    BY <1>17, <2>2, Zenon DEF o
  <2> HIDE DEF fs, te, v
  <2>6. Sound(l, s, fs, f, te, v)
    <3>1. Sound(l, s, fs, e, td, u)
      BY <1>4, <1>7, <2>5, SoundGrows, Zenon
    <3>2. e.kind # "exec"
      BY <1>17, <2>2, Zenon
    <3> QED
      BY <1>4, <1>7, <2>1, <2>2, <2>3, <2>5, <3>1, <3>2, SoundMoved, Zenon
  <2>7. f.kind = e.kind /\ f.child = e.child /\ ~ExecPending(e) /\ \A y : ~Pending(e, y)
    BY <1>17, <2>1, <2>2, Zenon DEF Moved, Pending, ExecPending
  <2> QED
    BY <1>1, <1>3, <1>17, <2>1, <2>4, <2>6, <2>7, CallbackKeeps, Zenon
    DEF e, l, s, fs, te, v
<1>18. DOMAIN engines = Thread /\ DOMAIN told = Thread /\ DOMAIN entry = Thread
  BY Zenon DEF Types, TypeOK
<1>19. /\ engines' = engines => Grows(es, engines'[t]) /\ engines'[t] = es
       /\ told' = told => told'[t] = td
       /\ entry' = entry => entry'[t].usage <= u
  <2>1. Grows(es, es)
    BY <1>7, MappingNat DEF Grows
  <2> QED
    BY <1>7, <2>1, Zenon DEF es, td, u
<1>20. ASSUME TargetDeath(t) PROVE Tracked'
  <2>1. /\ Work(t, "death") /\ engines' = engines /\ entry' = entry
        /\ told' = [told EXCEPT ![t] = td \ {o}]
    BY <1>20, Zenon DEF TargetDeath, td, o, e
  <2>2. told'[t] = td \ {o} /\ \A x \in Thread \ {t} : told'[x] = told[x]
    BY <1>18, <2>1, Zenon
  <2> QED
    BY <1>9, <1>17, <1>19, <2>1, <2>2, Zenon
<1>21. ASSUME TargetQuiesce(t) PROVE Tracked'
  <2> DEFINE fs == TurnOff(es, o)
  <2>1. /\ Work(t, "quiesce") /\ engines' = [engines EXCEPT ![t] = fs] /\ entry' = entry
        /\ told' = [told EXCEPT ![t] = td \cup {o}]
    BY <1>21, Zenon DEF TargetQuiesce, td, es, o, e
  <2>2. Grows(es, fs)
    BY <1>7, TurnOffGrows, Zenon
  <2>3. e.kind = "quiesce" /\ l # "dead"
    <3>1. e.kind = "quiesce"
      BY <1>14, <2>1, Zenon
    <3> QED
      BY <1>8, <3>1 DEF Registered
  <2> HIDE DEF fs
  <2>4. /\ told'[t] = td \cup {o} /\ engines'[t] = fs
        /\ \A x \in Thread \ {t} : told'[x] = told[x] /\ engines'[x] = engines[x]
    BY <1>18, <2>1
  <2>5. \A p \in told'[t] : HasEngine(fs, p)
    BY <1>9, <2>2, <2>3, <2>4, Zenon DEF Grows
  <2> QED
    <3>1. entry'[t].usage <= u /\ \A x \in Thread \ {t} : entry'[x] = entry[x]
      BY <1>19, <2>1, Zenon
    <3> QED
      BY <1>17, <2>1, <2>2, <2>3, <2>4, <2>5, <3>1, Zenon
<1>22. ASSUME TargetSyscallEntry(t) \/ TargetSyscallExit(t) PROVE Tracked'
  <2>1. /\ (Work(t, "entry") /\ AddMap(t)) \/ (Work(t, "exit") /\ entry' = entry)
        /\ engines' = engines /\ told' = told
    BY <1>22, Zenon DEF TargetSyscallEntry, TargetSyscallExit
  <2>2. AddMap(t) => /\ \A x \in Thread \ {t} : entry'[x] = entry[x]
                     /\ entry'[t].usage <= u + 1
    <3>1. u \in Nat /\ [entry[t] EXCEPT !.usage = @ + 1].usage = u + 1
      BY DEF Types, TypeOK, u
    <3> QED
      BY <1>18, <3>1 DEF AddMap, u
  <2> QED
    BY <1>9, <1>17, <1>19, <2>1, <2>2, Zenon
<1>23. ASSUME Return(t) PROVE Tracked'
  <2> DEFINE fs == Detach(es, {o})
             hs == engines'[t]
             n == entry'[t]
  <2>1. /\ ev[t] # NoEvent /\ e.step = "returning" /\ Over(t) /\ told' = told
        /\ IF e.kind = "death" THEN engines' = [engines EXCEPT ![t] = fs] ELSE engines' = engines
        /\ IF e.kind = "exit" THEN RemoveMapEntry(t) ELSE entry' = entry
    BY <1>4, <1>23, ReportFields, Zenon DEF Return, e, es, o
  <2>2. PICK f : ev' = [ev EXCEPT ![t] = f] /\ Rest(e, f)
    BY <1>4, <2>1, OverIs, Zenon DEF e
  <2>3. fs \in Seq(Engine) /\ \A p : p \notin {o} /\ HasEngine(es, p) => HasEngine(fs, p)
    BY <1>7, DetachIs, Zenon
  <2>4. e.kind = "death" => o \notin td /\ l = "dead"
    BY <1>8, <2>1, Zenon DEF Registered, o
  <2> HIDE DEF fs
  <2>5. /\ hs = IF e.kind = "death" THEN fs ELSE es
        /\ \A x \in Thread \ {t} : engines'[x] = engines[x]
    BY <2>1, Zenon DEF Types, TypeOK, es
  <2>6. hs \in Seq(Engine) /\ \A p \in td : HasEngine(hs, p)
    BY <1>7, <1>9, <2>3, <2>4, <2>5, Zenon
  <2>7. \A x \in Thread \ {t} : entry'[x] = entry[x]
    BY <2>1, Zenon DEF Types, TypeOK, RemoveMapEntry
  <2>8. /\ n.usage \in Nat /\ n.usage <= u
        /\ e.kind = "exit" => n.usage <= Len(e.left) - 1
    <3>1. CASE e.kind # "exit"
      BY <1>7, <2>1, <3>1 DEF u
    <3>2. CASE e.kind = "exit"
      <4>1. u > 0 /\ u <= Len(e.left)
        BY <1>8, <2>1, <3>2 DEF Types, Asked, Saved, e, u
      <4>2. CASE u = 1
        <5>1. n = NoEntry
          BY <2>1, <3>2, <4>2, Zenon DEF RemoveMapEntry, Types, TypeOK, u
        <5> QED
          BY <1>5, <4>2, <5>1 DEF NoEntry
      <4>3. CASE u # 1
        <5>1. n = [entry[t] EXCEPT !.usage = @ - 1]
          BY <2>1, <3>2, <4>3, Zenon DEF RemoveMapEntry, Types, TypeOK, u
        <5>2. n.usage = u - 1
          BY <5>1 DEF Types, TypeOK, u
        <5> QED
          BY <1>5, <1>7, <4>1, <5>2
      <4> QED
        BY <4>2, <4>3
    <3> QED
      BY <3>1, <3>2
  <2> HIDE DEF hs, n
  <2>9. Sound(l, s, hs, f, td, n.usage)
    BY <1>4, <1>7, <2>2, <2>4, <2>5, <2>6, <2>8, SoundRest, Zenon DEF o
  <2>10. /\ f.kind = "none" \/ (f.kind = e.kind /\ f.child = e.child)
         /\ ~ExecPending(e) /\ \A y : ~Pending(e, y)
    BY <2>1, <2>2, Zenon DEF Rest, Pending, ExecPending
  <2>11. \A x \in Thread : life[x] = "alive" =>
           \A p : HasEngine(engines[x], p) => HasEngine(engines'[x], p)
    BY <2>4, <2>5, Zenon DEF l, es, hs
  <2> QED
    BY <1>1, <1>3, <2>1, <2>2, <2>5, <2>7, <2>9, <2>10, <2>11, CallbackKeeps, Zenon
    DEF e, l, s, td, u, hs, n
<1> QED
  BY <1>10, <1>12, <1>13, <1>15, <1>16, <1>20, <1>21, <1>22, <1>23, Zenon DEF Callback

-----------------------------------------------------------------------------
(* What threads do is kept track of *)

\* Thread c is new, runs the executable of thread t that cloned it, and will
\* be met by a walk of stap_start_task_finder under way.
NewThread(t, c) ==
    /\ life[c] = "none" /\ life'[c] = "alive"
    /\ path'[c] = path[t]
    /\ pc = "starting" => c \in todo'

\* Thread t, which runs, does something of kind k; the others go on as they
\* were, but for the child of a clone.
Does(t, k, c) ==
    /\ Runs(t) /\ Report(t, k, Concerned(k), c)
    /\ engines' = engines /\ entry' = entry /\ told' = told /\ list' = list /\ pc' = pc
    /\ todo \subseteq todo'
    /\ life'[t] = IF k = "death" THEN "dead" ELSE "alive"
    /\ path'[t] = path[t] \/ k = "exec"
    /\ k \notin {"exit", "quiesce"} => sys[t] = "none"
    /\ k = "entry" => sys'[t] # "none"
    /\ k = "quiesce" => sys'[t] = sys[t]
    /\ k \notin {"entry", "quiesce"} => sys'[t] = "none"
    /\ k = "clone" => NewThread(t, c)
    /\ \A x \in Thread \ {t} :
         /\ sys'[x] = sys[x]
         /\ \/ life'[x] = life[x] /\ path'[x] = path[x]
            \/ k = "clone" /\ x = c

\* What a thread does is kept track of.
LEMMA KernelKeeps ==
    ASSUME Types, Tracked, NEW t \in Thread, NEW k \in Kinds, NEW c \in Thread, Does(t, k, c)
    PROVE  Tracked'
<1> USE DEF Does
<1>1. /\ \A x \in Thread : /\ engines[x] \in Seq(Engine) /\ entry[x].usage \in Nat
                           /\ ev[x] \in {NoEvent} \cup Reports
      /\ TypeOK
  BY DEF Types, TypeOK
<1>2. /\ life[t] = "alive" /\ ev[t] = NoEvent
      /\ \A p \in Thread : ev[p].kind = "clone" => ev[p].child # t
  BY Zenon DEF Runs
<1>3. PICK f : ev' = [ev EXCEPT ![t] = f] /\ Begins(engines[t], k, Concerned(k), c, f)
  BY <1>1, <1>2, ReportIs, Zenon
<1>4. ev'[t] = f /\ \A x \in Thread \ {t} : ev'[x] = ev[x]
  BY <1>3, Zenon DEF Types, TypeOK
<1>5. \A x \in Thread : Sound(life[x], sys[x], engines[x], ev[x], told[x], entry[x].usage)
  BY Zenon DEF Tracked, Local
<1>6. Sound(life'[t], sys'[t], engines[t], f, told[t], entry[t].usage)
  <2> DEFINE l == life'[t]
             s == sys[t]
             r == sys'[t]
             es == engines[t]
             u == entry[t].usage
  <2>1. Sound("alive", s, es, NoEvent, told[t], u) /\ es \in Seq(Engine) /\ u \in Nat
    BY <1>1, <1>2, <1>5, Zenon
  <2>2. /\ l = IF k = "death" THEN "dead" ELSE "alive"
        /\ k \notin {"exit", "quiesce"} => s = "none"
        /\ k = "entry" => r # "none"
        /\ k = "quiesce" => r = s
        /\ k \notin {"entry", "quiesce"} => r = "none"
    OBVIOUS
  <2> HIDE DEF l, s, r, es, u
  <2>3. Sound(l, r, es, f, told[t], u)
    BY <1>3, <2>1, <2>2, SoundBegins, Zenon DEF es
  <2> QED
    BY <2>3, Zenon DEF l, r, es, u
<1>7. k = "clone" => c # t
  BY <1>2, Zenon DEF NewThread
<1>8. ASSUME NEW x \in Thread PROVE Local(x)'
  <2>1. CASE x = t
    BY <1>4, <1>6, <2>1, Zenon DEF Local
  <2>2. CASE x # t /\ life'[x] = life[x]
    BY <1>4, <1>5, <2>2, Zenon DEF Local
  <2>3. CASE k = "clone" /\ x = c
    <3>1. Sound("none", sys[x], engines[x], ev[x], told[x], entry[x].usage)
      BY <1>5, <2>3, Zenon DEF NewThread
    <3>2. Registered("alive", engines[x], ev[x], told[x])
      BY <3>1 DEF Sound, Registered
    <3>3. Sound("alive", sys[x], engines[x], ev[x], told[x], entry[x].usage)
      BY <3>1, <3>2, Zenon DEF Sound
    <3> QED
      BY <1>4, <1>7, <2>3, <3>3, Zenon DEF Local, NewThread
  <2> QED
    BY <2>1, <2>2, <2>3, Zenon
<1>9. f.kind = "none" \/ (f.kind = k /\ f.child = c /\ f.step = "next")
  BY <1>3, Zenon DEF Begins
<1>10. ASSUME NEW x \in Thread PROVE Cloned(x)'
  <2>1. CASE x = t
    <3>1. ev'[x].kind = "clone" => k = "clone" /\ ev'[x].child = c
      BY <1>4, <1>9, <2>1 DEF Kinds
    <3> QED
      BY <2>1, <3>1 DEF Cloned, NewThread
  <2>2. ASSUME x # t, ev[x].kind = "clone" PROVE Cloned(x)'
    <3> DEFINE y == ev[x].child
    <3>1. y \in Thread /\ y # t /\ life[y] # "none" /\ path[y] = path[x]
      BY <1>1, <1>2, <2>2, ReportFields, Zenon DEF Tracked, Cloned
    <3>2. life[x] = "alive"
      BY <1>5, <2>2 DEF Sound, Registered
    <3>3. \A z \in Thread \ {t} : life[z] # "none" => life'[z] = life[z] /\ path'[z] = path[z]
      BY <3>2 DEF NewThread
    <3> QED
      BY <1>4, <2>2, <3>1, <3>2, <3>3 DEF Cloned
  <2> QED
    BY <1>4, <2>1, <2>2, Zenon DEF Cloned
<1>11. ASSUME k \in {"clone", "exec"}, f.kind = "none"
       PROVE  pc = "starting" /\ t \in todo
  <2>1. ~HasEngine(engines[t], finder)
    <3>1. f.left = <<>>
      BY <1>3, <1>11, ReportFields, Zenon DEF Begins
    <3>2. ASSUME NEW j \in DOMAIN engines[t], engines[t][j].ops = finder
          PROVE  engines[t][j] \in Concerned(k)
      BY <1>1, <1>11, <3>2 DEF Concerned, OfFinder
    <3>3. DOMAIN <<>> = {}
      OBVIOUS
    <3> QED
      BY <1>3, <3>1, <3>2, <3>3, Zenon DEF Begins, HasEngine
  <2>2. \A p \in Thread : ~Pending(ev[p], t)
    BY <1>2, Zenon DEF Pending
  <2> QED
    BY <1>2, <2>1, <2>2, Zenon DEF Tracked, Found, FoundAll
<1>12. \A x \in Thread : ~Pending(ev[t], x) /\ ~ExecPending(ev[t])
  BY <1>2, ReportFields, Zenon DEF Pending, ExecPending
<1>13. ASSUME NEW x \in Thread, life'[x] = "alive", life[x] = "alive", path'[x] = path[x]
       PROVE  Found(x)'
  <2>1. Found(x)
    BY Zenon DEF Tracked
  <2>2. ASSUME NEW p \in Thread, Pending(ev[p], x) PROVE Pending(ev'[p], x)
    BY <1>4, <1>12, <2>2, Zenon
  <2>3. ExecPending(ev[x]) => ExecPending(ev'[x])
    BY <1>4, <1>12, Zenon
  <2>4. FoundAll(x) => FoundAll(x)'
    BY <1>13, Zenon DEF FoundAll, Matches
  <2> QED
    BY <1>13, <2>1, <2>2, <2>3, <2>4, Zenon DEF Found
<1>14. k = "clone" => Found(c)'
  BY <1>4, <1>9, <1>11 DEF Found, Pending, NewThread
<1>15. k = "exec" => Found(t)'
  <2>1. f.kind = "exec" => HasEngine(engines[t], finder)
    BY <1>6, Zenon DEF Sound, Relies
  <2> QED
    BY <1>4, <1>9, <1>11, <2>1 DEF Found, ExecPending
<1>16. ASSUME NEW x \in Thread PROVE Found(x)'
  <2>1. CASE life'[x] # "alive"
    BY <2>1, Zenon DEF Found
  <2>2. CASE life'[x] = "alive" /\ x = t
    BY <1>2, <1>13, <1>15, <2>2, Zenon
  <2>3. CASE life'[x] = "alive" /\ x # t
    BY <1>13, <1>14, <2>3, Zenon
  <2> QED
    BY <2>1, <2>2, <2>3, Zenon
<1> QED
  BY <1>8, <1>10, <1>16, Zenon DEF Tracked

\* Every action of a thread is one of those.
LEMMA KernelTracks ==
    ASSUME Types, Tracked, Kernel
    PROVE  Tracked'
<1>1. PICK t \in Thread :
        \/ \E c \in Thread : Clone(t, c)
        \/ \E p \in Path : Exec(t, p)
        \/ Die(t)
        \/ \E s \in Syscall : EnterSyscall(t, s)
        \/ LeaveSyscall(t)
        \/ Quiesce(t)
  BY Zenon DEF Kernel
<1>2. /\ "clone" \in Kinds /\ "exec" \in Kinds /\ "death" \in Kinds
      /\ "entry" \in Kinds /\ "exit" \in Kinds /\ "quiesce" \in Kinds
      /\ Concerned("clone") = OfFinder /\ Concerned("exec") = OfFinder
      /\ Concerned("death") = Engine /\ Concerned("quiesce") = Quiescing
      /\ Concerned("entry") = OfMaps /\ Concerned("exit") = OfMaps
  BY DEF Kinds, Concerned
<1>3. DOMAIN life = Thread /\ DOMAIN path = Thread /\ DOMAIN sys = Thread
  BY Zenon DEF Types, TypeOK
<1>4. Runs(t) => life[t] = "alive"
  BY Zenon DEF Runs
<1>5. ASSUME NEW c \in Thread, Clone(t, c) PROVE Tracked'
  <2>1. Does(t, "clone", c)
    BY <1>2, <1>3, <1>4, <1>5 DEF Does, Clone, Happens, NewThread
  <2> QED
    BY <1>2, <2>1, KernelKeeps, Zenon
<1>6. ASSUME NEW p \in Path, Exec(t, p) PROVE Tracked'
  <2>1. Does(t, "exec", t)
    BY <1>2, <1>3, <1>4, <1>6 DEF Does, Exec, Happens, module
  <2> QED
    BY <1>2, <2>1, KernelKeeps, Zenon
<1>7. ASSUME Die(t) PROVE Tracked'
  <2>1. Does(t, "death", t)
    BY <1>2, <1>3, <1>4, <1>7 DEF Does, Die, Happens, module
  <2> QED
    BY <1>2, <2>1, KernelKeeps, Zenon
<1>8. ASSUME NEW s \in Syscall, EnterSyscall(t, s) PROVE Tracked'
  <2>1. Does(t, "entry", t)
    BY <1>2, <1>3, <1>4, TargetsGiven, <1>8 DEF Does, EnterSyscall, Happens, module
  <2> QED
    BY <1>2, <2>1, KernelKeeps, Zenon
<1>9. ASSUME LeaveSyscall(t) PROVE Tracked'
  <2>1. Does(t, "exit", t)
    BY <1>2, <1>3, <1>4, <1>9 DEF Does, LeaveSyscall, module
  <2> QED
    BY <1>2, <2>1, KernelKeeps, Zenon
<1>10. ASSUME Quiesce(t) PROVE Tracked'
  <2>1. Does(t, "quiesce", t)
    BY <1>2, <1>3, <1>4, <1>10 DEF Does, Quiesce, threads, module
  <2> QED
    BY <1>2, <2>1, KernelKeeps, Zenon
<1> QED
  BY <1>1, <1>5, <1>6, <1>7, <1>8, <1>9, <1>10, Zenon

\* At the start every thread is still to be met.
LEMMA StartTracks ==
    ASSUME Types, Begun, Start
    PROVE  Tracked'
<1>1. ASSUME NEW t \in Thread PROVE Local(t)' /\ Found(t)' /\ Cloned(t)'
  <2>1. /\ ev'[t] = NoEvent /\ told'[t] = {} /\ life'[t] # "dead" /\ engines'[t] = <<>>
        /\ sys'[t] = "none" /\ entry'[t].usage = 0
    BY Zenon DEF Start, Begun, threads
  <2>2. <<>> \in Seq(Engine) /\ NoEvent.kind = "none"
    BY ReportFields, EmptySeq, Zenon
  <2>3. Sound(life'[t], "none", <<>>, NoEvent, {}, 0)
    BY <2>1, <2>2 DEF Sound, Relies, Registered, Saved
  <2>4. Local(t)' /\ Cloned(t)'
    BY <2>1, <2>2, <2>3, Zenon DEF Local, Cloned
  <2>5. Found(t)'
    BY Zenon DEF Found, Start, Exists, threads
  <2> QED
    BY <2>4, <2>5
<1> QED
  BY <1>1, Zenon DEF Tracked

\* A round of the walk finds the thread it meets, and disturbs no other.
LEMMA VisitTracks ==
    ASSUME Types, Tracked, StartVisit
    PROVE  Tracked'
<1>1. PICK t : t = NextThread
  OBVIOUS
<1>2. t \in Thread /\ life' = life /\ path' = path /\ sys' = sys /\ list' = list /\ pc' = pc
      /\ ev' = ev /\ entry' = entry /\ told' = told /\ todo' = todo \ {t}
  BY <1>1, NextThreadIs, Zenon DEF StartVisit, threads
<1> DEFINE gs == IF life[t] = "alive" THEN MatchesAtStart(t) ELSE {}
           fs == AttachAll(Attach(engines[t], finder), gs)
<1>3. /\ list \in Seq(Target) /\ DOMAIN engines = Thread
      /\ \A x \in Thread : /\ engines[x] \in Seq(Engine) /\ entry[x].usage \in Nat
                           /\ ev[x] \in {NoEvent} \cup Reports
  BY DEF Types, TypeOK
<1>4. engines' = IF life[t] = "alive" THEN [engines EXCEPT ![t] = fs] ELSE engines
  BY <1>1, Zenon DEF StartVisit
<1>5. /\ \A g \in gs : g \in Range(list)
      /\ life[t] = "alive" => Matches(path[t]) \subseteq gs
  BY Zenon DEF MatchesAtStart, Matches
<1> HIDE DEF gs
<1>6. /\ Grows(engines[t], fs) /\ HasEngine(fs, finder)
      /\ \A g \in gs : g \in Range(list) => HasEngine(fs, g)
  BY <1>2, <1>3, FoundGrows, Zenon
<1> HIDE DEF fs
<1>7. /\ \A x \in Thread \ {t} : engines'[x] = engines[x]
      /\ engines'[t] = IF life[t] = "alive" THEN fs ELSE engines[t]
  BY <1>2, <1>3, <1>4
<1>8. life[t] = "alive" => FoundAll(t)'
  BY <1>2, <1>5, <1>6, <1>7, Zenon DEF FoundAll, Matches
<1>9. \A x \in Thread : Sound(life[x], sys[x], engines[x], ev[x], told[x], entry[x].usage)
  BY Zenon DEF Tracked, Local
<1>10. Sound(life[t], sys[t], fs, ev[t], told[t], entry[t].usage)
  BY <1>2, <1>3, <1>6, <1>9, SoundGrows, Zenon
<1>11. ASSUME NEW x \in Thread PROVE Local(x)'
  BY <1>2, <1>7, <1>9, <1>10, Zenon DEF Local
<1>12. ASSUME NEW x \in Thread PROVE Cloned(x)'
  BY <1>2, Zenon DEF Tracked, Cloned
<1>13. ASSUME NEW x \in Thread, x # t PROVE Found(x)'
  <2>1. Found(x)
    BY Zenon DEF Tracked
  <2> QED
    BY <1>2, <1>7, <1>13, <2>1, Zenon DEF Found, FoundAll, Matches
<1>14. Found(t)'
  BY <1>2, <1>8, Zenon DEF Found
<1> QED
  BY <1>11, <1>12, <1>13, <1>14, Zenon DEF Tracked

\* While the finder runs, every step keeps track.
LEMMA NextTracks ==
    ASSUME Types, Begun, state = "running" => Tracked, Next, Types', state' = "running"
    PROVE  Tracked'
<1>1. CASE Kernel
  <2>1. state' = state
    BY <1>1, Zenon DEF Kernel, Clone, Exec, Die, EnterSyscall, LeaveSyscall, Quiesce, module
  <2> QED
    BY <1>1, <2>1, KernelTracks, Zenon
<1>2. CASE \E t \in Thread : Callback(t)
  <2>1. state' = state
    BY <1>2, Zenon DEF Callback, PassOver, Check, HandlerStart, ReportClone, ReportExec,
       TargetDeath, TargetQuiesce, TargetSyscallEntry, TargetSyscallExit, Return, module
  <2> QED
    BY <1>2, <2>1, CallbackTracks, Zenon
<1>3. CASE Start
  BY <1>3, StartTracks, Zenon
<1>4. CASE StartVisit
  BY <1>4, VisitTracks, Zenon DEF StartVisit
<1>5. CASE Started
  <2>1. Tracked /\ todo = {} /\ UNCHANGED <<threads, engines, ev, entry, told, list>>
    BY <1>5, Zenon DEF Started
  <2>2. ASSUME NEW t \in Thread PROVE Found(t)'
    <3>1. Found(t)
      BY <2>1, Zenon DEF Tracked
    <3> QED
      BY <2>1, <3>1, Zenon DEF Found, FoundAll, Matches, threads
  <2> QED
    BY <2>1, <2>2, Zenon DEF Tracked, Local, Cloned, threads
<1>6. ~Stop /\ ~DetachVisit /\ ~Detached /\ ~CleanupTarget /\ ~CleanedUp /\ ~Stopped
  BY DEF Stop, DetachVisit, Detached, CleanupTarget, CleanedUp, Stopped, Begun
<1> QED
  BY <1>1, <1>2, <1>3, <1>4, <1>5, <1>6, Zenon DEF Next, Driver

-----------------------------------------------------------------------------
(* The theorems *)

\* The invariant holds at the beginning.
LEMMA InitFinder ==
    ASSUME Init
    PROVE  FinderInv
<1>1. list \in Seq(Target)
  <2>1. Cardinality(Target) \in Nat
    BY FiniteTargets, FS_CardinalityType
  <2>2. list \in [1 .. Cardinality(Target) -> Target]
    BY Zenon DEF Init, Bijection, Injection, Surjection
  <2> QED
    BY <2>1, <2>2
<1>2. /\ path \in [Thread -> Path \cup {"none"}] /\ <<>> \in Seq(Engine)
      /\ events \in 0 .. MaxEvents /\ inuse \in Nat
  BY TargetsGiven DEF Init
<1>3. entry \in [Thread -> [usage : Nat, no : Syscall \cup {"none"}]]
  BY DEF Init, NoEntry
<1>4. TypeOK
  BY <1>1, <1>2, <1>3, Zenon DEF Init, TypeOK
<1>5. \A t \in Thread : ev[t] = NoEvent /\ entry[t].usage = 0
  BY DEF Init, NoEntry
<1>6. Types
  BY <1>4, <1>5, ReportFields, Zenon DEF Types, Asked
<1>7. Begun
  BY <1>5 DEF Begun, Init
<1> QED
  BY <1>6, <1>7 DEF FinderInv, Init

\* What the finder keeps track of, it keeps track of for ever.
THEOREM FinderInvariant == Spec => []FinderInv
<1>1. Init => FinderInv
  BY InitFinder
<1>2. CountExact => inuse \in Nat
  BY CountedFinite, FS_CardinalityType DEF CountExact
<1>3. FinderInv /\ (inuse \in Nat)' /\ [Next]_vars => FinderInv'
  <2> SUFFICES ASSUME FinderInv, inuse' \in Nat, [Next]_vars PROVE FinderInv'
    OBVIOUS
  <2>1. CASE UNCHANGED vars
    BY <2>1, Zenon DEF vars, FinderInv, Types, TypeOK, Begun, Tracked, Local, Found, FoundAll,
       Matches, Cloned
  <2>2. CASE Next
    <3>1. Types /\ Begun
      BY Zenon DEF FinderInv
    <3>2. Types'
      BY <2>2, <3>1, KernelTyped, CallbackTyped, DriverTyped, Zenon DEF Next
    <3>3. Begun'
      BY <2>2, <3>1, BegunKept, Zenon
    <3> QED
      BY <2>2, <3>1, <3>2, <3>3, NextTracks, Zenon DEF FinderInv
  <2> QED
    BY <2>1, <2>2
<1> QED
  BY <1>1, <1>2, <1>3, CountInvariant, PTL DEF Spec

\* The variables keep their types; the entries of a thread in
\* __stp_tf_map_table never count below zero.
THEOREM FinderTypes == Spec => []TypeOK
<1>1. FinderInv => TypeOK
  BY DEF FinderInv, Types
<1> QED
  BY <1>1, FinderInvariant, PTL

\* No thread is missed, for any number of threads and targets and however
\* clones and execs fall between the rounds of stap_start_task_finder.
THEOREM NoThreadMissed == Spec => []AllFound
<1>1. FinderInv => AllFound
  <2> SUFFICES ASSUME FinderInv, pc = "running", \A t \in Thread : ev[t] = NoEvent,
                      NEW t \in Thread, life[t] = "alive"
               PROVE  \A o \in {finder} \cup Matches(path[t]) : HasEngine(engines[t], o)
    BY Zenon DEF AllFound
  <2>1. Found(t) /\ pc # "starting"
    BY DEF FinderInv, Begun, Tracked
  <2>2. \A p \in Thread : ~Pending(ev[p], t) /\ ~ExecPending(ev[p])
    BY ReportFields, Zenon DEF Pending, ExecPending
  <2> QED
    BY <2>1, <2>2, Zenon DEF Found, FoundAll
<1> QED
  BY <1>1, FinderInvariant, PTL

\* Clients let go of every thread that died, while the finder runs.
THEOREM TheDeadAreForgotten == Spec => []DeadForgotten
<1>1. FinderInv => DeadForgotten
  <2> SUFFICES ASSUME FinderInv, NEW t \in Thread, life[t] = "dead", ev[t] = NoEvent,
                      state = "running"
               PROVE  told[t] = {}
    BY Zenon DEF DeadForgotten
  <2>1. \A o \in told[t] : \E i \in DOMAIN NoEvent.left : NoEvent.left[i] = o
    BY Zenon DEF FinderInv, Tracked, Local, Sound, Registered
  <2>2. DOMAIN NoEvent.left = {}
    BY DEF NoEvent
  <2> QED
    BY <2>1, <2>2, Zenon
<1> QED
  BY <1>1, FinderInvariant, PTL

\* Outside a memory-map call a thread has no saved call, while the finder
\* runs.
THEOREM NoCallOutlived == Spec => []NoStaleEntry
<1>1. FinderInv => NoStaleEntry
  <2> SUFFICES ASSUME FinderInv, NEW t \in Thread, Runs(t), sys[t] = "none", state = "running"
               PROVE  entry[t].usage = 0
    BY Zenon DEF NoStaleEntry
  <2>1. Saved("none", engines[t], NoEvent, entry[t].usage) /\ NoEvent.kind = "none"
    BY ReportFields, Zenon DEF FinderInv, Tracked, Local, Sound, Runs
  <2>2. entry[t].usage \in Nat
    BY DEF FinderInv, Types, TypeOK
  <2> QED
    BY <2>1, <2>2 DEF Saved
<1> QED
  BY <1>1, FinderInvariant, PTL
=============================================================================
