---------------------------- MODULE ProbeRuntime ----------------------------
(***************************************************************************)
(* The life of a generated module: systemtap_module_init registers the     *)
(* probe groups and runs the begin probes, systemtap_module_exit           *)
(* unregisters them and runs the end or the error probes, while handlers   *)
(* run on all CPUs between the common prologue and epilogue.               *)
(*                                                                         *)
(* One thread (mpc) executes init and exit; it is serialised by the        *)
(* transport mutex.  A handler activation is a pair <<cpu, level>>: a      *)
(* handler at level 2 has interrupted the one at level 1 of its CPU and    *)
(* runs to completion before that one continues.                           *)
(***************************************************************************)
EXTENDS Integers, FiniteSets

CONSTANTS
  Cpu,            \* possible CPUs
  NGroups,        \* probe groups besides begin/end/error, in session order
  Waits,          \* groups whose unregistration waits for running handlers
  NBegin, NEnd, NError,  \* how many probes of each type the script has
  MAXERRORS,
  MAXSKIPPED,
  INTERRUPTIBLE,  \* the build option of that name
  STP_OVERLOAD,   \* overload processing compiled in and able to trigger
  MaxHits         \* bound on the probe hits of a behaviour

Group == 1 .. NGroups
Be == 0                       \* the begin/end/error group
Handler == Cpu \X {1, 2}
SessionState == {"STARTING", "RUNNING", "ERROR", "STOPPING"}

ASSUME RuntimeAssumption ==
  /\ NGroups \in Nat /\ Waits \subseteq Group
  /\ NBegin \in Nat /\ NEnd \in Nat /\ NError \in Nat
  /\ MAXERRORS \in Nat /\ MAXSKIPPED \in Nat /\ MaxHits \in Nat
  /\ INTERRUPTIBLE \in BOOLEAN /\ STP_OVERLOAD \in BOOLEAN

VARIABLES
  session_state, error_count, skipped_count,
  exit_flag,   \* _stp_exit_flag
  mpc,         \* where the init/exit thread is
  k,           \* its loop index
  failing,     \* it is unwinding a failed registration
  reg,         \* the registered groups
  waiting,     \* the handlers synchronize_sched waits for
  scan,        \* the CPUs its busy scan has yet to look at
  holdon,      \* the busy scan has met a busy context
  contexts,    \* contexts[c] is allocated
  globals,     \* the globals are allocated
  pc,          \* where each activation is
  grp,         \* the group it belongs to
  want,        \* the session state its prologue requires
  last_error,  \* its context's last_error is set
  busy,        \* busy[c]: contexts[c]->busy
  hits,        \* history: probe hits so far
  cause,       \* history: what the shutdown was first asked for
  tripped      \* history: a handler met error_count > MAXERRORS

moduleVars == <<mpc, k, failing, reg, waiting, scan, holdon, contexts, globals>>
handlerVars == <<pc, grp, want, last_error, busy>>
vars == <<session_state, error_count, skipped_count, exit_flag, moduleVars,
          handlerVars, hits, cause, tripped>>

-----------------------------------------------------------------------------
Active(h) == pc[h] # "idle"

(* h is not interrupted *)
Runs(h) == h[2] = 2 \/ ~Active(<<h[1], 2>>)

(* between the increment and the decrement of contexts[]->busy *)
Inside(h) == pc[h] \in {"body", "overload", "toerror", "after", "judge", "release"}

Goto(h, l) == pc' = [pc EXCEPT ![h] = l]

(* _stp_exit, called for reason r *)
RequestExit(r) ==
  /\ exit_flag' = TRUE
  /\ cause' = IF cause = "none" THEN r ELSE cause

BeRuns == \E h \in Handler : Active(h) /\ grp[h] = Be

-----------------------------------------------------------------------------
(* An activation: common_probe_entryfn_prologue, the handler, and
   common_probe_entryfn_epilogue. *)

StartActivation(h, g, s) ==
  /\ ~Active(h)
  /\ IF h[2] = 1 THEN ~Active(<<h[1], 2>>) ELSE pc[<<h[1], 1>>] \notin {"idle", "toskip"}
  /\ Goto(h, "entry")
  /\ grp' = [grp EXCEPT ![h] = g]
  /\ want' = [want EXCEPT ![h] = s]
  /\ last_error' = [last_error EXCEPT ![h] = FALSE]
  /\ UNCHANGED busy

(* a probe point is hit: its group is registered, or about to be *)
Hit(h, g) ==
  /\ g \in reg \/ (mpc = "register" /\ g = k)
  /\ hits < MaxHits
  /\ hits' = hits + 1
  /\ StartActivation(h, g, "RUNNING")
  /\ UNCHANGED <<session_state, error_count, skipped_count, exit_flag, moduleVars,
                 cause, tripped>>

(* too little stack is left: the probe is skipped *)
LowStack(h) ==
  /\ pc[h] = "entry" /\ Runs(h)
  /\ skipped_count' = skipped_count + 1
  /\ Goto(h, "tail")
  /\ UNCHANGED <<session_state, error_count, exit_flag, moduleVars, grp, want,
                 last_error, busy, hits, cause, tripped>>

CheckState(h) ==
  /\ pc[h] = "entry" /\ Runs(h)
  /\ Goto(h, IF session_state = want[h] THEN "claim" ELSE "tail")
  /\ UNCHANGED <<session_state, error_count, skipped_count, exit_flag, moduleVars,
                 grp, want, last_error, busy, hits, cause, tripped>>

(* atomic_inc_return (&c->busy): only the first user of a context goes on.  A
   refused claim takes its increment back before the CPU's other user runs. *)
Claim(h) ==
  /\ pc[h] = "claim" /\ Runs(h)
  /\ IF busy[h[1]] = 0
     THEN /\ busy' = [busy EXCEPT ![h[1]] = @ + 1]
          /\ Goto(h, "body")
          /\ UNCHANGED skipped_count
     ELSE /\ Goto(h, "tail")
          /\ skipped_count' = IF INTERRUPTIBLE THEN skipped_count ELSE skipped_count + 1
          /\ UNCHANGED busy
  /\ UNCHANGED <<session_state, error_count, exit_flag, moduleVars, grp, want,
                 last_error, hits, cause, tripped>>

(* The handler's body: it may fail to get its locks, raise an error, or call
   exit().  Then overload processing, which begin/end probes do not have. *)
Body(h) ==
  /\ pc[h] = "body" /\ Runs(h)
  /\ \E err, exits, nolock \in BOOLEAN :
       /\ nolock => ~err /\ ~exits /\ grp[h] # Be
       /\ last_error' = [last_error EXCEPT ![h] = err]
       /\ skipped_count' = IF nolock THEN skipped_count + 1 ELSE skipped_count
       /\ IF exits THEN RequestExit("exit") ELSE UNCHANGED <<exit_flag, cause>>
  /\ \/ Goto(h, "after")
     \/ STP_OVERLOAD /\ grp[h] # Be /\ Goto(h, "overload")
  /\ UNCHANGED <<session_state, error_count, moduleVars, grp, want, busy, hits, tripped>>

(* the overload report: _stp_error, which asks for the exit ... *)
Overload(h) ==
  /\ pc[h] = "overload" /\ Runs(h)
  /\ RequestExit("overload")
  /\ Goto(h, "toerror")
  /\ UNCHANGED <<session_state, error_count, skipped_count, moduleVars, grp, want,
                 last_error, busy, hits, tripped>>

(* ... and only then the session state *)
OverloadState(h) ==
  /\ pc[h] = "toerror" /\ Runs(h)
  /\ session_state' = "ERROR"
  /\ error_count' = error_count + 1
  /\ Goto(h, "after")
  /\ UNCHANGED <<skipped_count, exit_flag, moduleVars, grp, want, last_error, busy,
                 hits, cause, tripped>>

(* if last_error is set: _stp_softerror and atomic_inc (&error_count) *)
CountError(h) ==
  /\ pc[h] = "after" /\ Runs(h)
  /\ IF last_error[h]
     THEN Goto(h, "judge") /\ error_count' = error_count + 1
     ELSE Goto(h, "release") /\ UNCHANGED error_count
  /\ UNCHANGED <<session_state, skipped_count, exit_flag, moduleVars, grp, want,
                 last_error, busy, hits, cause, tripped>>

(* mutant: the exit is requested without entering the error state *)
JudgeExitOnly(h) ==
  /\ pc[h] = "judge" /\ Runs(h)
  /\ IF error_count > MAXERRORS
     THEN tripped' = TRUE /\ RequestExit("error")
     ELSE UNCHANGED <<tripped, exit_flag, cause>>
  /\ Goto(h, "release")
  /\ UNCHANGED <<session_state, error_count, skipped_count, moduleVars, grp, want,
                 last_error, busy, hits>>

Judge(h) ==
  /\ pc[h] = "judge" /\ Runs(h)
  /\ IF error_count > MAXERRORS
     THEN session_state' = "ERROR" /\ tripped' = TRUE /\ RequestExit("error")
     ELSE UNCHANGED <<session_state, tripped, exit_flag, cause>>
  /\ Goto(h, "release")
  /\ UNCHANGED <<error_count, skipped_count, moduleVars, grp, want, last_error, busy, hits>>

(* mutant: the context stays busy *)
ReleaseKeepsBusy(h) ==
  /\ pc[h] = "release" /\ Runs(h)
  /\ Goto(h, "tail")
  /\ UNCHANGED <<session_state, error_count, skipped_count, exit_flag, moduleVars,
                 grp, want, last_error, busy, hits, cause, tripped>>

Release(h) ==
  /\ pc[h] = "release" /\ Runs(h)
  /\ busy' = [busy EXCEPT ![h[1]] = @ - 1]
  /\ Goto(h, "tail")
  /\ UNCHANGED <<session_state, error_count, skipped_count, exit_flag, moduleVars,
                 grp, want, last_error, hits, cause, tripped>>

Return(h) == Goto(h, "idle") /\ waiting' = waiting \ {h}

(* "probe_epilogue:" reads skipped_count, and session_state inside
   pseudo_atomic_cmpxchg, which excludes only this CPU's interrupts *)
Epilogue(h) ==
  /\ pc[h] = "tail" /\ Runs(h)
  /\ IF skipped_count > MAXSKIPPED /\ session_state = "RUNNING"
     THEN Goto(h, "toskip") /\ UNCHANGED waiting
     ELSE Return(h)
  /\ UNCHANGED <<session_state, error_count, skipped_count, exit_flag, mpc, k, failing,
                 reg, scan, holdon, contexts, globals, grp, want, last_error, busy, hits,
                 cause, tripped>>

SkipState(h) ==
  /\ pc[h] = "toskip" /\ Runs(h)
  /\ session_state' = "ERROR"
  /\ RequestExit("error")
  /\ Return(h)
  /\ UNCHANGED <<error_count, skipped_count, mpc, k, failing, reg, scan, holdon, contexts,
                 globals, grp, want, last_error, busy, hits, tripped>>

HandlerStep(h) ==
  \/ LowStack(h) \/ CheckState(h) \/ Claim(h) \/ Body(h)
  \/ Overload(h) \/ OverloadState(h) \/ CountError(h) \/ Judge(h)
  \/ Release(h) \/ Epilogue(h) \/ SkipState(h)

-----------------------------------------------------------------------------
(* systemtap_module_init *)

historyVars == <<hits, cause, tripped>>
counters == <<error_count, skipped_count>>

ModuleInit ==
  /\ mpc = "unstarted"
  /\ session_state' = "STARTING"
  /\ contexts' = [c \in Cpu |-> TRUE]
  /\ globals' = TRUE
  /\ mpc' = "begin" /\ k' = 1
  /\ UNCHANGED <<counters, exit_flag, failing, reg, waiting, scan, holdon,
                 handlerVars, historyVars>>

(* a check or an allocation fails: _stp_error and goto out *)
InitFails ==
  /\ mpc = "unstarted"
  /\ contexts' \in [Cpu -> BOOLEAN]
  /\ RequestExit("error")
  /\ mpc' = "out"
  /\ UNCHANGED <<session_state, counters, k, failing, reg, waiting, scan, holdon,
                 globals, handlerVars, hits, tripped>>

(* The loops over stap_be_probes: the k-th of n probes of a type runs on the
   CPU the thread happens to be on, in a context of its own. *)
RunBe(loop, n, s) ==
  /\ mpc = loop /\ ~BeRuns
  /\ k <= n
  /\ \E c \in Cpu : StartActivation(<<c, 1>>, Be, s)
  /\ k' = k + 1
  /\ UNCHANGED <<session_state, counters, exit_flag, mpc, failing, reg, waiting,
                 scan, holdon, contexts, globals, historyVars>>

EndLoop(loop, n, next, k0) ==
  /\ mpc = loop /\ ~BeRuns
  /\ k > n
  /\ mpc' = next /\ k' = k0
  /\ UNCHANGED <<session_state, counters, exit_flag, failing, reg, waiting, scan,
                 holdon, contexts, globals, handlerVars, historyVars>>

RunBegin == RunBe("begin", NBegin, "STARTING")
BeginDone == EndLoop("begin", NBegin, "register", 1)

Register ==
  /\ mpc = "register"
  /\ k <= NGroups
  /\ reg' = reg \cup {k}
  /\ k' = k + 1
  /\ UNCHANGED <<session_state, counters, exit_flag, mpc, failing, waiting, scan,
                 holdon, contexts, globals, handlerVars, historyVars>>

(* rc # 0: report, enter the error state, unwind the groups before this one *)
RegisterFails ==
  /\ mpc = "register"
  /\ k <= NGroups
  /\ RequestExit("error")
  /\ session_state' = "ERROR"
  /\ failing' = TRUE
  /\ mpc' = "unregister" /\ k' = k - 1
  /\ UNCHANGED <<counters, reg, waiting, scan, holdon, contexts, globals,
                 handlerVars, hits, tripped>>

Registered ==
  /\ mpc = "register"
  /\ k > NGroups
  /\ session_state' = IF session_state = "STARTING" THEN "RUNNING" ELSE session_state
  /\ mpc' = "running"
  /\ UNCHANGED <<counters, exit_flag, k, failing, reg, waiting, scan, holdon, contexts,
                 globals, handlerVars, historyVars>>

-----------------------------------------------------------------------------
(* systemtap_module_exit *)

(* called for an STP_EXIT, whoever asked for it; reads session_state *)
ModuleExit ==
  /\ mpc = "running"
  /\ cause' = IF cause = "none" THEN "user" ELSE cause
  /\ mpc' = IF session_state = "STARTING" THEN "done"
            ELSE IF session_state = "RUNNING" THEN "stop" ELSE "unregister"
  /\ k' = NGroups
  /\ UNCHANGED <<session_state, counters, exit_flag, failing, reg, waiting, scan, holdon,
                 contexts, globals, handlerVars, hits, tripped>>

SetStopping ==
  /\ mpc = "stop"
  /\ session_state' = "STOPPING"
  /\ mpc' = "unregister"
  /\ UNCHANGED <<counters, exit_flag, k, failing, reg, waiting, scan, holdon, contexts,
                 globals, handlerVars, historyVars>>

(* mutant: no kind of group waits for its handlers *)
UnregisterNoWait ==
  /\ mpc = "unregister"
  /\ k >= 1
  /\ reg' = reg \ {k}
  /\ waiting' = {}
  /\ mpc' = "drain"
  /\ UNCHANGED <<session_state, counters, exit_flag, k, failing, scan, holdon, contexts,
                 globals, handlerVars, historyVars>>

(* the groups in reverse order; some kinds wait for their handlers *)
Unregister ==
  /\ mpc = "unregister"
  /\ k >= 1
  /\ reg' = reg \ {k}
  /\ waiting' = IF k \in Waits THEN {h \in Handler : Active(h) /\ grp[h] = k} ELSE {}
  /\ mpc' = "drain"
  /\ UNCHANGED <<session_state, counters, exit_flag, k, failing, scan, holdon, contexts,
                 globals, handlerVars, historyVars>>

Drained ==
  /\ mpc = "drain" /\ waiting = {}
  /\ mpc' = "unregister" /\ k' = k - 1
  /\ UNCHANGED <<session_state, counters, exit_flag, failing, reg, waiting, scan, holdon,
                 contexts, globals, handlerVars, historyVars>>

UnregisterDone ==
  /\ mpc = "unregister" /\ k = 0
  /\ mpc' = "end" /\ k' = 1
  /\ UNCHANGED <<session_state, counters, exit_flag, failing, reg, waiting, scan, holdon,
                 contexts, globals, handlerVars, historyVars>>

RunEnd == RunBe("end", NEnd, "STOPPING")
EndDone == EndLoop("end", NEnd, "error", 1)
RunError == RunBe("error", NError, "ERROR")
ErrorDone == EndLoop("error", NError, IF failing THEN "out" ELSE "sync1", 1)

(* mutant: synchronize_sched is compiled out *)
SyncCompiledOut(from, to) ==
  /\ mpc = from
  /\ waiting' = {}
  /\ mpc' = to
  /\ UNCHANGED <<session_state, counters, exit_flag, k, failing, reg, scan, holdon,
                 contexts, handlerVars, historyVars>>

(* synchronize_sched: wait for every handler running now *)
SyncStart(from, to) ==
  /\ mpc = from
  /\ waiting' = {h \in Handler : Active(h)}
  /\ mpc' = to
  /\ UNCHANGED <<session_state, counters, exit_flag, k, failing, reg, scan, holdon,
                 contexts, handlerVars, historyVars>>

Sync1 == SyncStart("sync1", "sync1wait") /\ UNCHANGED globals

Sync1Done ==
  /\ mpc = "sync1wait" /\ waiting = {}
  /\ mpc' = "holdon"
  /\ scan' = Cpu /\ holdon' = FALSE
  /\ UNCHANGED <<session_state, counters, exit_flag, k, failing, reg, waiting, contexts,
                 globals, handlerVars, historyVars>>

(* mutant: a context counts as in use as long as it is allocated *)
ScanAllocated(c) ==
  /\ mpc = "holdon" /\ c \in scan
  /\ scan' = scan \ {c}
  /\ holdon' = (holdon \/ contexts[c])
  /\ UNCHANGED <<session_state, counters, exit_flag, mpc, k, failing, reg, waiting,
                 contexts, globals, handlerVars, historyVars>>

(* one iteration of the scan for busy contexts *)
Scan(c) ==
  /\ mpc = "holdon" /\ c \in scan
  /\ scan' = scan \ {c}
  /\ holdon' = (holdon \/ (contexts[c] /\ busy[c] # 0))
  /\ UNCHANGED <<session_state, counters, exit_flag, mpc, k, failing, reg, waiting,
                 contexts, globals, handlerVars, historyVars>>

ScanDone ==
  /\ mpc = "holdon" /\ scan = {}
  /\ IF holdon THEN scan' = Cpu /\ holdon' = FALSE /\ UNCHANGED mpc
     ELSE mpc' = "sync2" /\ UNCHANGED <<scan, holdon>>
  /\ UNCHANGED <<session_state, counters, exit_flag, k, failing, reg, waiting, contexts,
                 globals, handlerVars, historyVars>>

Sync2 == SyncStart("sync2", "fini") /\ UNCHANGED globals

Free(from, to) ==
  /\ mpc = from /\ waiting = {}
  /\ globals' = FALSE
  /\ contexts' = [c \in Cpu |-> FALSE]
  /\ mpc' = to
  /\ UNCHANGED <<session_state, counters, exit_flag, k, failing, reg, waiting, scan,
                 holdon, handlerVars, historyVars>>

Fini == Free("fini", "done")

(* the "out:" label of module init: the globals go before synchronize_sched *)
Out == SyncStart("out", "outwait") /\ globals' = FALSE
OutDone == Free("outwait", "failed")

-----------------------------------------------------------------------------
Init ==
  /\ session_state = "STARTING" /\ error_count = 0 /\ skipped_count = 0
  /\ exit_flag = FALSE
  /\ mpc = "unstarted" /\ k = 0 /\ failing = FALSE
  /\ reg = {} /\ waiting = {} /\ scan = {} /\ holdon = FALSE
  /\ contexts = [c \in Cpu |-> FALSE] /\ globals = FALSE
  /\ pc = [h \in Handler |-> "idle"]
  /\ grp = [h \in Handler |-> Be]
  /\ want = [h \in Handler |-> "STARTING"]
  /\ last_error = [h \in Handler |-> FALSE]
  /\ busy = [c \in Cpu |-> 0]
  /\ hits = 0 /\ cause = "none" /\ tripped = FALSE

InitStep ==
  \/ ModuleInit \/ InitFails \/ RunBegin \/ BeginDone
  \/ Register \/ RegisterFails \/ Registered

ExitStep ==
  \/ SetStopping \/ Unregister \/ Drained \/ UnregisterDone
  \/ RunEnd \/ EndDone \/ RunError \/ ErrorDone
  \/ Sync1 \/ Sync1Done \/ (\E c \in Cpu : Scan(c)) \/ ScanDone \/ Sync2 \/ Fini
  \/ Out \/ OutDone

Next ==
  \/ InitStep
  \/ ModuleExit
  \/ ExitStep
  \/ \E h \in Handler : (\E g \in Group : Hit(h, g)) \/ HandlerStep(h)

Spec == Init /\ [][Next]_vars

(* The thread that unloads the probes keeps running, and so does a handler:
   it holds off preemption.  Nobody has to hit a probe or ask for the exit. *)
FairSpec ==
  /\ Spec
  /\ WF_vars(InitStep) /\ WF_vars(ExitStep)
  /\ \A h \in Handler : WF_vars(HandlerStep(h))

-----------------------------------------------------------------------------
(* The variables of the generated module keep their types. *)
TypeOK ==
  /\ session_state \in SessionState
  /\ error_count \in Nat /\ skipped_count \in Nat
  /\ exit_flag \in BOOLEAN
  /\ mpc \in {"unstarted", "begin", "register", "running", "stop", "unregister",
              "drain", "end", "error", "sync1", "sync1wait", "holdon", "sync2",
              "fini", "out", "outwait", "done", "failed"}
  /\ k \in Nat /\ failing \in BOOLEAN
  /\ reg \subseteq Group
  /\ waiting \subseteq Handler /\ scan \subseteq Cpu /\ holdon \in BOOLEAN
  /\ contexts \in [Cpu -> BOOLEAN] /\ globals \in BOOLEAN
  /\ pc \in [Handler -> {"idle", "entry", "claim", "body", "overload", "toerror",
                         "after", "judge", "release", "tail", "toskip"}]
  /\ grp \in [Handler -> Group \cup {Be}]
  /\ want \in [Handler -> SessionState]
  /\ last_error \in [Handler -> BOOLEAN]
  /\ busy \in [Cpu -> 0 .. 1]
  /\ hits \in Nat /\ cause \in {"none", "exit", "user", "error", "overload"} /\ tripped \in BOOLEAN

(* No handler touches its context or a global after module exit, or the
   error path of module init, has freed them. *)
MemorySafe ==
  \A h \in Handler :
    /\ pc[h] = "claim" \/ Inside(h) => contexts[h[1]]
    /\ pc[h] = "body" => globals

(* busy admits one activation to a context, also when a handler interrupts
   another on the same CPU. *)
ContextOwned ==
  \A c \in Cpu : busy[c] = Cardinality({h \in Handler : h[1] = c /\ Inside(h)})

(* A begin, end or error probe does not run concurrently with any other
   handler, so it needs no locks around global variables. *)
BeAlone ==
  \A h, i \in Handler :
    h # i /\ pc[h] = "body" /\ grp[h] = Be => pc[i] # "body"

(* As far as unregistration waits, that is so: a begin, end or error probe does
   not run together with a handler of a group whose handlers are waited for,
   though module init may fail half way and handlers may stop the session. *)
BeApart ==
  \A h, i \in Handler :
    h # i /\ pc[h] = "body" /\ grp[h] = Be => ~(pc[i] = "body" /\ grp[i] \in Waits)

(* When an error is what asked for the shutdown, no end probe runs; overload
   is the subject of the next property. *)
EndSkippedOnError ==
  \A h \in Handler :
    pc[h] = "body" /\ grp[h] = Be /\ want[h] = "STOPPING" => cause # "error"

(* Overload is an error, too: then no end probe runs either. *)
EndSkippedOnOverload ==
  \A h \in Handler :
    pc[h] = "body" /\ grp[h] = Be /\ want[h] = "STOPPING" => cause # "overload"

(* Once a handler has met more errors than MAXERRORS, no handler other than
   an error probe gets past its prologue. *)
BlockedAfterErrors ==
  [][\A h \in Handler :
       tripped /\ pc[h] = "entry" /\ pc'[h] = "claim" => want[h] = "ERROR"]_vars

(* An exit, once begun, comes to an end: the handlers drain and the busy
   scan stops, on the normal path and on the error path of module init. *)
ExitCompletes == mpc \in {"stop", "unregister", "out"} ~> mpc \in {"done", "failed"}
=============================================================================
