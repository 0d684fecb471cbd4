----------------------------- MODULE TaskFinder -----------------------------
(***************************************************************************)
(* The task finder of runtime/task_finder.c: it attaches a utrace engine   *)
(* to every user thread, follows clone and exec, attaches a second engine  *)
(* for every target whose executable a thread runs, tells the target's     *)
(* clients about threads that come and go, and remembers mmap, munmap and  *)
(* mprotect calls between their entry and their exit                       *)
(* (runtime/task_finder_map.c).                                            *)
(*                                                                         *)
(* The callbacks run in the traced threads, without a lock.  Each one      *)
(* reads __stp_task_finder_state, then counts itself in __stp_inuse_count, *)
(* then works, then counts itself out, then returns; these are separate    *)
(* steps here, and stap_start_task_finder and stap_stop_task_finder, which *)
(* walk the thread list one thread at a time, interleave with them.        *)
(*                                                                         *)
(* utrace and the kernel's threads are external.  An event is reported to  *)
(* the engines attached when it happens, one after the other; an engine    *)
(* detached before its turn is passed over, one detached during its        *)
(* callback finishes it (the -EINPROGRESS that stap_utrace_detach          *)
(* ignores).  New threads join the tail of the thread list, so a walk in   *)
(* progress meets them.  A new thread runs once its clone was reported.    *)
(***************************************************************************)
EXTENDS Integers, FiniteSets, Sequences, Functions

CONSTANTS
    Thread,       \* thread ids 1 .. n in the order of the thread list
    Running,      \* the threads that run before the module is loaded
    Path,         \* executables
    Target,       \* the registered targets, each once
    Procname,     \* [Target -> Path \cup {AnyPath}]
    Pid,          \* [Target -> Thread \cup {AnyPid}], the pid a target names
    Wants,        \* [Target -> SUBSET Syscall], its m*_events
    AnyPath, AnyPid,
    Syscall,      \* the memory-map calls that happen
    MapEntries,   \* TASK_FINDER_MAP_ENTRY_ITEMS
    MaxEvents     \* bound on what the threads do

ASSUME FiniteThreads == IsFiniteSet(Thread)

ASSUME FiniteTargets == IsFiniteSet(Target)

ASSUME TargetsGiven ==
    /\ Thread \subseteq Nat
    /\ Running \subseteq Thread
    /\ Procname \in [Target -> Path \cup {AnyPath}]
    /\ Pid \in [Target -> Thread \cup {AnyPid}]
    /\ Wants \in [Target -> SUBSET Syscall]
    /\ "finder" \notin Target
    /\ "none" \notin Syscall
    /\ MaxEvents \in Nat

VARIABLES
    life,      \* none (no such thread), alive, dead
    path,      \* the executable a thread runs
    parent,    \* real_parent; a thread that is its own parent has init for one
    sys,       \* the memory-map call a thread is in, or "none"
    engines,   \* the engines of a thread in order: [ops, quiesce]
    ev,        \* the event being reported in a thread, or NoEvent
    events,    \* events so far

    state,     \* __stp_task_finder_state
    inuse,     \* __stp_inuse_count
    list,      \* __stp_task_finder_list
    attached,  \* the targets whose engine_attached is set
    entry,     \* __stp_tf_map_table: [usage, no] of a thread; usage 0: none
    told,      \* the targets whose clients hold a thread registered

    pc,        \* where the module is in starting and stopping
    todo,      \* threads that the walk under way has yet to meet
    ops        \* whose engines the walk of stap_utrace_detach_ops removes

threads == <<life, path, parent, sys, events>>
module  == <<state, list, pc, todo, ops>>
vars == <<life, path, parent, sys, engines, ev, events, state, inuse, list,
          attached, entry, told, pc, todo, ops>>

finder  == "finder"                       \* __stp_utrace_task_finder_ops
NoEvent == [kind |-> "none", left |-> <<>>, step |-> "next", child |-> 0]
NoEntry == [usage |-> 0, no |-> "none"]

Init ==
    /\ life = [t \in Thread |-> IF t \in Running THEN "alive" ELSE "none"]
    /\ \E p \in [Running -> Path] :
         path = [t \in Thread |-> IF t \in Running THEN p[t] ELSE "none"]
    /\ parent = [t \in Thread |-> t]
    /\ sys = [t \in Thread |-> "none"]
    /\ engines = [t \in Thread |-> <<>>]
    /\ ev = [t \in Thread |-> NoEvent]
    /\ events = 0
    /\ state = "starting"
    /\ inuse = 0
    /\ list \in Bijection(1 .. Cardinality(Target), Target)
    /\ attached = {}
    /\ entry = [t \in Thread |-> NoEntry]
    /\ told = [t \in Thread |-> {}]
    /\ pc = "idle"
    /\ todo = {}
    /\ ops = finder

-----------------------------------------------------------------------------
(* Engines *)

Engine == [ops : Target, quiesce : BOOLEAN] \cup [ops : {finder}, quiesce : {FALSE}]

HasEngine(es, o) == \E i \in DOMAIN es : es[i].ops = o

\* __stp_utrace_attach: always a new engine, UTRACE_ATTACH_CREATE.
NewEngine(o) == [ops |-> o, quiesce |-> o # finder]
Attach(es, o) == Append(es, NewEngine(o))

\* The elements of sequence s at positions D, and those in S, in their order.
At(s, D) ==
    [k \in 1 .. Cardinality(D) |->
       s[CHOOSE i \in D : Cardinality({j \in D : j <= i}) = k]]
Select(s, S) == At(s, {i \in DOMAIN s : s[i] \in S})

\* stap_utrace_detach for each of the ops os: the first engine that has them,
\* if there is one.
Detach(es, os) ==
    At(es, {i \in DOMAIN es : es[i].ops \in os =>
              \E j \in 1 .. (i - 1) : es[j].ops = es[i].ops})

\* Whether target g covers executable p: __stp_utrace_attach_match_filename
\* leaves out targets that name a pid, stap_start_task_finder compares it.
MatchesPath(g, p) == Procname[g] \in {p, AnyPath}
Matches(p) == {g \in Range(list) : MatchesPath(g, p) /\ Pid[g] = AnyPid}
MatchesAtStart(t) ==
    {g \in Range(list) : MatchesPath(g, path[t]) /\ Pid[g] \in {AnyPid, t}}

InListOrder(gs) == Select(list, gs)
AttachAll(es, gs) ==
    LET l == InListOrder(gs) IN es \o [i \in DOMAIN l |-> NewEngine(l[i])]

-----------------------------------------------------------------------------
(* What threads do; the kernel reports it to the engines concerned *)

Runs(t) ==
    /\ life[t] = "alive"
    /\ ev[t] = NoEvent
    /\ \A p \in Thread : ev[p].kind = "clone" => ev[p].child # t

Report(t, kind, concerned, child) ==
    LET es == Select(engines[t], concerned)
    IN  ev' = IF es = <<>> THEN ev
              ELSE [ev EXCEPT ![t] =
                     [kind |-> kind, left |-> [i \in DOMAIN es |-> es[i].ops],
                      step |-> "next", child |-> child]]

\* Threads that start before the module are in Init; what happens once
\* stap_stop_task_finder returned is not the finder's.
Happens(t) ==
    /\ Runs(t)
    /\ pc \notin {"idle", "stopped"}
    /\ events < MaxEvents
    /\ events' = events + 1

OfFinder  == {e \in Engine : e.ops = finder}
OfMaps    == {e \in Engine : e.ops # finder /\ ~e.quiesce /\ Wants[e.ops] # {}}
Quiescing == {e \in Engine : e.quiesce}

Clone(t, c) ==
    /\ Happens(t)
    /\ sys[t] = "none"
    /\ life[c] = "none" /\ \A u \in Thread : u < c => life[u] # "none"
    /\ life' = [life EXCEPT ![c] = "alive"]
    /\ path' = [path EXCEPT ![c] = path[t]]
    /\ parent' = [parent EXCEPT ![c] = t]
    /\ todo' = IF pc \in {"starting", "detaching"} THEN todo \cup {c} ELSE todo
    /\ Report(t, "clone", OfFinder, c)
    /\ UNCHANGED <<sys, engines, state, inuse, list, attached, entry, told, pc, ops>>

Exec(t, p) ==
    /\ Happens(t)
    /\ sys[t] = "none"
    /\ path' = [path EXCEPT ![t] = p]
    /\ Report(t, "exec", OfFinder, t)
    /\ UNCHANGED <<life, parent, sys, engines, module, inuse, attached, entry, told>>

Die(t) ==
    /\ Happens(t)
    /\ sys[t] = "none"
    /\ life' = [life EXCEPT ![t] = "dead"]
    /\ parent' = [c \in Thread |-> IF parent[c] = t THEN c ELSE parent[c]]
    /\ Report(t, "death", Engine, t)
    /\ UNCHANGED <<path, sys, engines, module, inuse, attached, entry, told>>

EnterSyscall(t, s) ==
    /\ Happens(t)
    /\ sys[t] = "none"
    /\ sys' = [sys EXCEPT ![t] = s]
    /\ Report(t, "entry", OfMaps, t)
    /\ UNCHANGED <<life, path, parent, engines, module, inuse, attached, entry, told>>

LeaveSyscall(t) ==
    /\ Runs(t)
    /\ sys[t] # "none"
    /\ sys' = [sys EXCEPT ![t] = "none"]
    /\ Report(t, "exit", OfMaps, t)
    /\ UNCHANGED <<life, path, parent, engines, events, module, inuse, attached,
                   entry, told>>

\* UTRACE_STOP makes a thread with a new target engine stop and report it.
Quiesce(t) ==
    /\ Runs(t)
    /\ \E i \in DOMAIN engines[t] : engines[t][i].quiesce
    /\ Report(t, "quiesce", Quiescing, t)
    /\ UNCHANGED <<threads, engines, module, inuse, attached, entry, told>>

-----------------------------------------------------------------------------
(* The callbacks *)

\* The report goes on to the next engine, or is over.
Over(t) ==
    ev' = [ev EXCEPT ![t] =
             IF Len(ev[t].left) = 1 THEN NoEvent
             ELSE [ev[t] EXCEPT !.left = Tail(ev[t].left), !.step = "next"]]

\* Whether callback o of an event in t returns before it does anything: a
\* memory-map call nobody is interested in, an exit without an entry.
Idle(t, o) ==
    CASE ev[t].kind = "entry" -> sys[t] \notin Wants[o]
      [] ev[t].kind = "exit"  -> entry[t].usage = 0
      [] OTHER                -> FALSE

\* Mutant: the finder's own engine stands in for the targets' at a death.
DetachesDead(t, o) == state # "running" \/ ev[t].kind = "death"

\* Whether it only returns UTRACE_DETACH: the finder stops, or the thread of
\* the finder's own engine died (stap_utrace_task_finder_report_death).
Detaches(t, o) == state # "running" \/ (ev[t].kind = "death" /\ o = finder)

\* The engine whose turn it is was detached in the meantime.
PassOver(t) ==
    /\ ev[t] # NoEvent /\ ev[t].step = "next"
    /\ ~HasEngine(engines[t], Head(ev[t].left))
    /\ Over(t)
    /\ UNCHANGED <<threads, engines, module, inuse, attached, entry, told>>

\* The check at the head of every callback, and its early returns.
Check(t) ==
    LET o == Head(ev[t].left) IN
    /\ ev[t] # NoEvent /\ ev[t].step = "next"
    /\ HasEngine(engines[t], o)
    /\ IF Detaches(t, o)
       THEN engines' = [engines EXCEPT ![t] = Detach(@, {o})] /\ Over(t)
       ELSE /\ IF Idle(t, o) THEN Over(t)
               ELSE ev' = [ev EXCEPT ![t].step = "checked"]
            /\ UNCHANGED engines
    /\ UNCHANGED <<threads, module, inuse, attached, entry, told>>

\* __stp_tf_handler_start
HandlerStart(t) ==
    /\ ev[t].step = "checked"
    /\ inuse' = inuse + 1
    /\ ev' = [ev EXCEPT ![t].step = "working"]
    /\ UNCHANGED <<threads, engines, module, attached, entry, told>>

\* A mutant: the return does not count out.
HandlerEndLost == UNCHANGED inuse

\* __stp_tf_handler_end
HandlerEnd == inuse' = inuse - 1

\* The callback does its work, up to and with __stp_tf_handler_end.
Work(t, kind) ==
    /\ ev[t].kind = kind /\ ev[t].step = "working"
    /\ HandlerEnd
    /\ ev' = [ev EXCEPT ![t].step = "returning"]

\* Mutant: the child's targets are left to its first exec.
ReportCloneFinderOnly(t) ==
    /\ Work(t, "clone")
    /\ engines' = [engines EXCEPT ![ev[t].child] = Attach(@, finder)]
    /\ UNCHANGED <<threads, module, attached, entry, told>>

\* The child gets the finder's engine, and those of the targets that match
\* the executable of its parent.
ReportClone(t) ==
    LET c == ev[t].child
        gs == Matches(path[t]) IN
    /\ Work(t, "clone")
    /\ engines' = [engines EXCEPT ![c] = AttachAll(Attach(@, finder), gs)]
    /\ attached' = attached \cup gs
    /\ UNCHANGED <<threads, module, entry, told>>

\* The targets that match the executable of the parent are told that the
\* process ended, and detached; then those that match the new one attach.
ReportExec(t) ==
    LET old == IF parent[t] = t THEN {} ELSE Matches(path[parent[t]])
        new == Matches(path[t]) IN
    /\ Work(t, "exec")
    /\ engines' = [engines EXCEPT ![t] = AttachAll(Detach(@, old), new)]
    /\ attached' = attached \cup new
    /\ told' = [told EXCEPT ![t] = @ \ old]
    /\ UNCHANGED <<threads, module, entry>>

\* __stp_utrace_task_finder_target_death
TargetDeath(t) ==
    /\ Work(t, "death")
    /\ told' = [told EXCEPT ![t] = @ \ {Head(ev[t].left)}]
    /\ UNCHANGED <<threads, engines, module, attached, entry>>

\* The first of the engines with these ops that still waits to quiesce
\* gets the target's own events.
TurnOff(es, o) ==
    LET waits == {i \in DOMAIN es : es[i].ops = o /\ es[i].quiesce}
    IN  IF waits = {} THEN es
        ELSE [es EXCEPT ![CHOOSE i \in waits : \A j \in waits : i <= j].quiesce
                          = FALSE]

\* __stp_utrace_task_finder_target_quiesce
TargetQuiesce(t) ==
    LET o == Head(ev[t].left) IN
    /\ Work(t, "quiesce")
    /\ engines' = [engines EXCEPT ![t] = TurnOff(@, o)]
    /\ told' = [told EXCEPT ![t] = @ \cup {o}]
    /\ UNCHANGED <<threads, module, attached, entry>>

\* Mutant: the increment for an entry that was found also meets a new one.
AddMapCountsTwo(t) ==
    entry' = [entry EXCEPT ![t] =
                IF @.usage > 0 THEN [@ EXCEPT !.usage = @ + 1]
                ELSE [usage |-> 2, no |-> sys[t]]]

\* __stp_tf_add_map: a second add counts and keeps what the first one saved;
\* without a free entry there is none.
AddMap(t) ==
    entry' = IF entry[t].usage > 0
             THEN [entry EXCEPT ![t].usage = @ + 1]
             ELSE IF Cardinality({u \in Thread : entry[u].usage > 0}) < MapEntries
             THEN [entry EXCEPT ![t] = [usage |-> 1, no |-> sys[t]]]
             ELSE entry

TargetSyscallEntry(t) ==
    /\ Work(t, "entry")
    /\ AddMap(t)
    /\ UNCHANGED <<threads, engines, module, attached, told>>

\* The clients' map callbacks leave the finder's state alone.
TargetSyscallExit(t) ==
    /\ Work(t, "exit")
    /\ UNCHANGED <<threads, engines, module, attached, entry, told>>

\* __stp_tf_remove_map_entry, which follows __stp_tf_handler_end.
RemoveMapEntry(t) ==
    entry' = IF entry[t].usage = 1 THEN [entry EXCEPT ![t] = NoEntry]
             ELSE [entry EXCEPT ![t].usage = @ - 1]

\* What is left of a callback once it is no longer counted.
Return(t) ==
    LET o == Head(ev[t].left) IN
    /\ ev[t].step = "returning"
    /\ IF ev[t].kind = "exit" THEN RemoveMapEntry(t) ELSE UNCHANGED entry
    /\ engines' = IF ev[t].kind = "death"
                  THEN [engines EXCEPT ![t] = Detach(@, {o})] ELSE engines
    /\ Over(t)
    /\ UNCHANGED <<threads, module, inuse, attached, told>>

Callback(t) ==
    \/ PassOver(t) \/ Check(t) \/ HandlerStart(t)
    \/ ReportClone(t) \/ ReportExec(t) \/ TargetDeath(t) \/ TargetQuiesce(t)
    \/ TargetSyscallEntry(t) \/ TargetSyscallExit(t)
    \/ Return(t)

-----------------------------------------------------------------------------
(* Starting and stopping *)

Exists(t) == life[t] # "none"

\* do_each_thread: the thread list keeps its order.
NextThread == CHOOSE t \in todo : \A u \in todo : t <= u

Start ==
    /\ pc = "idle"
    /\ state' = "running"
    /\ pc' = "starting"
    /\ todo' = {t \in Thread : Exists(t)}
    /\ UNCHANGED <<threads, engines, ev, inuse, list, attached, entry, told, ops>>

\* One round of the loop of stap_start_task_finder: a thread without an mm is
\* skipped (EPERM), any other gets the finder's engine and its targets'.
StartVisit ==
    LET t == NextThread
        gs == IF life[t] = "alive" THEN MatchesAtStart(t) ELSE {} IN
    /\ pc = "starting" /\ todo # {}
    /\ todo' = todo \ {t}
    /\ engines' = IF life[t] = "alive"
                  THEN [engines EXCEPT ![t] = AttachAll(Attach(@, finder), gs)]
                  ELSE engines
    /\ attached' = attached \cup gs
    /\ UNCHANGED <<threads, ev, state, inuse, list, entry, told, pc, ops>>

Started ==
    /\ pc = "starting" /\ todo = {}
    /\ pc' = "running"
    /\ UNCHANGED <<threads, engines, ev, state, inuse, list, attached, entry, told,
                   todo, ops>>

\* stap_utrace_detach_ops begins its walk.
DetachOps(o) ==
    /\ pc' = "detaching"
    /\ ops' = o
    /\ todo' = {t \in Thread : Exists(t)}

Stop ==
    /\ pc = "running"
    /\ state' = "stopping"
    /\ DetachOps(finder)
    /\ UNCHANGED <<threads, engines, ev, inuse, list, attached, entry, told>>

\* A thread whose DEATH report has begun keeps its engines (-EALREADY).
DetachVisit ==
    LET t == NextThread IN
    /\ pc = "detaching" /\ todo # {}
    /\ todo' = todo \ {t}
    /\ engines' = IF life[t] = "dead" THEN engines
                  ELSE [engines EXCEPT ![t] = Detach(@, {ops})]
    /\ UNCHANGED <<threads, ev, state, inuse, list, attached, entry, told, pc, ops>>

\* The walk is over; a target then leaves the list.
Detached ==
    /\ pc = "detaching" /\ todo = {}
    /\ pc' = "cleanup"
    /\ attached' = attached \ {ops}
    /\ list' = IF ops = finder THEN list ELSE Tail(list)
    /\ UNCHANGED <<threads, engines, ev, state, inuse, entry, told, todo, ops>>

\* __stp_task_finder_cleanup, one target per round.
CleanupTarget ==
    /\ pc = "cleanup" /\ list # <<>>
    /\ IF Head(list) \in attached
       THEN DetachOps(Head(list)) /\ UNCHANGED list
       ELSE list' = Tail(list) /\ UNCHANGED <<pc, ops, todo>>
    /\ UNCHANGED <<threads, engines, ev, state, inuse, attached, entry, told>>

CleanedUp ==
    /\ pc = "cleanup" /\ list = <<>>
    /\ state' = "stopped"
    /\ pc' = "waiting"
    /\ UNCHANGED <<threads, engines, ev, inuse, list, attached, entry, told, todo, ops>>

\* Mutant: the count is not looked at.
StoppedAtOnce ==
    /\ pc = "waiting"
    /\ pc' = "stopped"
    /\ UNCHANGED <<threads, engines, ev, state, inuse, list, attached, entry, told,
                   todo, ops>>

\* The loop that polls __stp_inuse_count ends.
Stopped ==
    /\ pc = "waiting"
    /\ inuse = 0
    /\ pc' = "stopped"
    /\ UNCHANGED <<threads, engines, ev, state, inuse, list, attached, entry, told,
                   todo, ops>>

Driver ==
    \/ StartVisit \/ Started
    \/ DetachVisit \/ Detached \/ CleanupTarget \/ CleanedUp \/ Stopped

Kernel ==
    \E t \in Thread :
        \/ \E c \in Thread : Clone(t, c)
        \/ \E p \in Path : Exec(t, p)
        \/ Die(t)
        \/ \E s \in Syscall : EnterSyscall(t, s)
        \/ LeaveSyscall(t) \/ Quiesce(t)

Next == Kernel \/ (\E t \in Thread : Callback(t)) \/ Start \/ Stop \/ Driver

\* A callback returns: it takes no lock and waits for nobody.  The module's
\* own loops go on.  Nothing says that a thread ever does anything.
Spec ==
    /\ Init /\ [][Next]_vars
    /\ \A t \in Thread : WF_vars(Callback(t))
    /\ WF_vars(Driver)

-----------------------------------------------------------------------------
(* Properties *)

Kinds == {"clone", "exec", "death", "entry", "exit", "quiesce"}

Reports ==
    [kind : Kinds,
     left : Seq(Target \cup {finder}) \ {<<>>},
     step : {"next", "checked", "working", "returning"}, child : Thread]

TypeOK ==
    /\ life \in [Thread -> {"none", "alive", "dead"}]
    /\ path \in [Thread -> Path \cup {"none"}]
    /\ parent \in [Thread -> Thread]
    /\ sys \in [Thread -> Syscall \cup {"none"}]
    /\ engines \in [Thread -> Seq(Engine)]
    /\ ev \in [Thread -> {NoEvent} \cup Reports]
    /\ events \in 0 .. MaxEvents
    /\ state \in {"starting", "running", "stopping", "stopped"}
    /\ inuse \in Nat
    /\ list \in Seq(Target)
    /\ attached \subseteq Target
    /\ entry \in [Thread -> [usage : Nat, no : Syscall \cup {"none"}]]
    /\ told \in [Thread -> SUBSET Target]
    /\ todo \subseteq Thread

\* No thread is missed, however its birth and its execs fall between the
\* rounds of stap_start_task_finder: once the start is over and no report is
\* under way, every living thread has the finder's engine and an engine of
\* every target that names its executable, or every executable.
AllFound ==
    pc = "running" /\ (\A t \in Thread : ev[t] = NoEvent) =>
        \A t \in Thread : life[t] = "alive" =>
            \A o \in {finder} \cup Matches(path[t]) : HasEngine(engines[t], o)

\* Clients let go of the dead: a thread that died is registered with no
\* target once its death was reported (__stp_utrace_task_finder_target_death
\* through an engine of each target), while the finder runs.
DeadForgotten ==
    \A t \in Thread :
        life[t] = "dead" /\ ev[t] = NoEvent /\ state = "running" => told[t] = {}

\* A saved system call never outlives the call: outside a memory-map call a
\* thread has no entry in __stp_tf_map_table, so the next one cannot be taken
\* for the last, whichever targets attach in the middle of the call.
NoStaleEntry ==
    \A t \in Thread :
        Runs(t) /\ sys[t] = "none" /\ state = "running" => entry[t].usage = 0

\* stap_stop_task_finder returns in no step in which a callback is between
\* __stp_tf_handler_start and __stp_tf_handler_end.
StopWaits ==
    [][pc # "stopped" /\ pc' = "stopped" =>
         \A t \in Thread : ev[t].step # "working"]_vars

\* stap_stop_task_finder returns: callbacks that begin once the state is no
\* longer running do not count themselves, so the polling loop ends.
StopReturns == state = "stopping" ~> pc = "stopped"

-----------------------------------------------------------------------------
(* What the comments of the code say and the code does not keep *)

\* "Now that all the engines are detached, make sure all the callbacks are
\* finished" (stap_stop_task_finder): no callback is in the module's code
\* once it returns.  A callback that has read the state and has not counted
\* itself yet is not waited for.
CallbacksFinished == pc = "stopped" => \A t \in Thread : ev[t].step = "next"

\* ... and no engine is left: but report_clone may attach the finder's engine
\* to a child that the walk has already met.
EnginesDetached ==
    pc = "stopped" => \A t \in Thread : life[t] = "alive" => engines[t] = <<>>

\* The list is "only written to in one big setup operation"
\* (stap_register_task_finder_target), "we don't need to lock it": but
\* __stp_task_finder_cleanup unlinks targets under the callbacks that walk it.
ListSettled ==
    [][list' # list =>
         \A t \in Thread : ev[t].kind \in {"clone", "exec"} =>
                             ev[t].step # "working"]_vars

\* A saved call found at the exit "must be one of the syscalls we are
\* interested in" (target_syscall_exit): but it may be another target's.
EntryOurs ==
    \A t \in Thread :
        ev[t].kind = "exit" /\ ev[t].step = "checked" =>
            entry[t].no \in Wants[Head(ev[t].left)]

\* On an exec "we need to detach engines from the newly exec'ed process
\* (since its path has changed)" (__stp_utrace_attach_match_tsk): but the
\* path compared is the parent's, not the one the process had.
ExecDetaches ==
    state = "running" =>
        \A t \in Thread : life[t] = "alive" /\ ev[t] = NoEvent =>
            \A g \in Target :
                HasEngine(engines[t], g) /\ Pid[g] = AnyPid => MatchesPath(g, path[t])

\* One engine of a kind per thread, so that clients hear of a thread once:
\* but a child cloned while stap_start_task_finder walks is attached by the
\* clone report and met again by the walk.
AttachedOnce ==
    \A t \in Thread : \A i, j \in DOMAIN engines[t] :
        engines[t][i].ops = engines[t][j].ops => i = j

=============================================================================
