------------------------------ MODULE Session ------------------------------
(***************************************************************************)
(* A tracing session over the control channel: the transport of a loaded   *)
(* module (control.c, transport.c) and the stapio process that drives it   *)
(* (mainloop.c), with staprun at both ends of the module's life.           *)
(*                                                                         *)
(* Threads that execute transport code: stapio's main thread and signal    *)
(* thread, inside write(); the work queue; and "staprun -d", inside        *)
(* delete_module().  A kernel path is cut wherever another thread can come *)
(* between two of its steps.                                               *)
(***************************************************************************)
EXTENDS Integers, Sequences, FiniteSets

CONSTANTS
  POOL,      \* STP_DEFAULT_BUFFERS
  TRYLIMIT,  \* trylimit of _stp_ctl_send
  MaxOob,    \* bound: warnings and errors the script's probes send
  MaxAttach, \* bound: how often staprun -A reconnects
  HasTarget, \* stapio was started with -c CMD
  LoadOnly,  \* the values of load_only (-L) stapio may be started with
  MayDetach  \* the user may send SIGQUIT

ASSUME SessionAssumption ==
  /\ POOL \in Nat \ {0} /\ TRYLIMIT \in Nat
  /\ MaxOob \in Nat /\ MaxAttach \in Nat
  /\ HasTarget \in BOOLEAN /\ LoadOnly \subseteq BOOLEAN /\ MayDetach \in BOOLEAN

Thread == {"main", "sig", "work", "rmmod"}
Label == {"user", "send", "lock_start", "start", "lock_exit", "probes", "unlock",
          "destroy", "check", "requeue", "queue"}
Message == {"TRANSPORT", "START_OK", "START_FAILED", "EXIT", "REQUEST_EXIT", "OOB"}

VARIABLES
  (* the module *)
  loaded,        \* "yes", "closing" (in cleanup_module) or "gone"
  exit_flag, exit_called, probes_started,
  started,       \* the static of _stp_ctl_write_cmd
  called,        \* the static of _stp_request_exit
  attached,      \* _stp_ctl_attached
  mutex,         \* holder of _stp_transport_mutex, or "none"
  free,          \* buffers in _stp_pool_q
  ready,         \* message types in _stp_ctl_ready_q
  pending,       \* _stp_work waits for its timer
  probing,       \* probe_start has begun and probe_exit has not returned
  kpc,           \* where each thread is in transport code, "user" if outside
  sending,       \* the message its _stp_ctl_send sends
  tries,         \* and its trylimit
  (* stapio *)
  proc,          \* "staprun", "none", "run"; "dying" after a detach; "removing"
                 \* the module; "detached", "removed" or "left" (module in use)
  open,          \* control_channel >= 0
  upc,           \* main thread: "loop", "inread", "got", "sent", "cleanup",
                 \* "closing", "closed" or "leaving"
  asleep,        \* it sleeps in wait_event_interruptible
  cur,           \* the message it has read
  spc,           \* "wait": a signal thread is in sigwait; "over"
  detaching,     \* a thread is in cleanup_and_exit (1, 0)
  exiting,       \* the static of cleanup_and_exit
  tgt,           \* the -c child: "none", "waiting", "running", "zombie", "reaped"
  target_cmd,    \* this stapio has a -c command
  load_only,     \* this stapio has -L
  (* history *)
  oob,           \* warnings sent
  attaches       \* stapios that have attached again

flags == <<exit_flag, exit_called, probes_started, started, called>>
queue == <<free, ready>>
args == <<target_cmd, load_only>>
kernel == <<loaded, flags, attached, mutex, queue, pending, probing, kpc, sending, tries>>
user == <<proc, open, upc, asleep, cur, spc, detaching, exiting, tgt, args>>
history == <<oob, attaches>>
vars == <<kernel, user, history>>

-----------------------------------------------------------------------------
Goto(t, l) == kpc' = [kpc EXCEPT ![t] = l]

(* wake_up_interruptible (&_stp_ctl_wq) *)
WakeReader == asleep' = FALSE

(* _stp_ctl_write: a buffer from the pool goes to the end of the ready queue *)
CtlWrite(m) ==
  /\ free > 0
  /\ free' = free - 1
  /\ ready' = Append(ready, m)

(* begin a _stp_ctl_send *)
StartSend(t, m) ==
  /\ Goto(t, "send")
  /\ sending' = [sending EXCEPT ![t] = m]
  /\ tries' = [tries EXCEPT ![t] = TRYLIMIT]

(* what follows _stp_ctl_send in the function t is in *)
AfterSend(t) == Goto(t, IF t = "work" THEN "requeue" ELSE "unlock")

-----------------------------------------------------------------------------
(* _stp_ctl_send: the first attempt that finds a buffer ... *)
Send(t) ==
  /\ kpc[t] = "send"
  /\ CtlWrite(sending[t])
  /\ WakeReader
  /\ AfterSend(t)
  /\ UNCHANGED <<loaded, flags, attached, mutex, pending, probing, sending, tries,
                 proc, open, upc, cur, spc, detaching, exiting, tgt, args, history>>

(* ... sleeping between attempts ... *)
SendRetry(t) ==
  /\ kpc[t] = "send" /\ free = 0
  /\ tries[t] > 0
  /\ tries' = [tries EXCEPT ![t] = @ - 1]
  /\ UNCHANGED <<loaded, flags, attached, mutex, queue, pending, probing, kpc, sending,
                 user, history>>

(* ... up to a limit: the message is dropped with a printk *)
SendFail(t) ==
  /\ kpc[t] = "send" /\ free = 0
  /\ tries[t] = 0
  /\ AfterSend(t)
  /\ UNCHANGED <<loaded, flags, attached, mutex, queue, pending, probing, sending, tries,
                 user, history>>

(* mutant of LockStart: _stp_exit_called is not looked at *)
LockStartAlways ==
  /\ kpc["main"] = "lock_start" /\ mutex = "none"
  /\ mutex' = "main"
  /\ Goto("main", "start")
  /\ probing' = TRUE
  /\ UNCHANGED <<loaded, flags, attached, queue, pending, sending, tries, user, history>>

(* _stp_handle_start, in a write of STP_START by stapio's main thread *)
LockStart ==
  /\ kpc["main"] = "lock_start" /\ mutex = "none"
  /\ mutex' = "main"
  /\ Goto("main", IF exit_called THEN "unlock" ELSE "start")
  /\ probing' = (probing \/ ~exit_called)
  /\ UNCHANGED <<loaded, flags, attached, queue, pending, sending, tries, user, history>>

(* mutant of ProbeStart: the reply does not carry the result *)
ProbeStartResultLost ==
  /\ kpc["main"] = "start"
  /\ \E ok \in BOOLEAN :
       /\ probes_started' = (ok \/ probes_started)
       /\ probing' = ok
  /\ StartSend("main", "START_OK")
  /\ UNCHANGED <<loaded, exit_flag, exit_called, started, called, attached, mutex, queue,
                 pending, user, history>>

(* probe_start returns; begin probes have run *)
ProbeStart ==
  /\ kpc["main"] = "start"
  /\ \E ok \in BOOLEAN :
       /\ probes_started' = (ok \/ probes_started)
       /\ probing' = ok
       /\ StartSend("main", IF ok THEN "START_OK" ELSE "START_FAILED")
  /\ UNCHANGED <<loaded, exit_flag, exit_called, started, called, attached, mutex, queue,
                 pending, user, history>>

(* mutant of LockExit: STP_EXIT is answered only if probes were started *)
LockExitUnanswered(t) ==
  /\ kpc[t] = "lock_exit" /\ mutex = "none"
  /\ mutex' = t
  /\ exit_flag' = TRUE /\ exit_called' = TRUE
  /\ Goto(t, IF ~exit_called /\ probes_started THEN "probes" ELSE "unlock")
  /\ UNCHANGED <<loaded, probes_started, started, called, attached, queue, pending,
                 probing, sending, tries, user, history>>

(* _stp_cleanup_and_exit, in a write of STP_EXIT or in cleanup_module *)
LockExit(t) ==
  /\ kpc[t] = "lock_exit" /\ mutex = "none"
  /\ mutex' = t
  /\ exit_flag' = TRUE /\ exit_called' = TRUE
  /\ IF exit_called THEN Goto(t, "unlock") /\ UNCHANGED <<sending, tries>>
     ELSE IF probes_started THEN Goto(t, "probes") /\ UNCHANGED <<sending, tries>>
     ELSE IF t = "rmmod" THEN Goto(t, "unlock") /\ UNCHANGED <<sending, tries>>
     ELSE StartSend(t, "EXIT")
  /\ UNCHANGED <<loaded, probes_started, started, called, attached, queue, pending,
                 probing, user, history>>

(* probe_exit returns; end probes have run.  Only a write is answered. *)
ProbeExit(t) ==
  /\ kpc[t] = "probes"
  /\ probing' = FALSE
  /\ IF t = "rmmod" THEN Goto(t, "unlock") /\ UNCHANGED <<sending, tries>>
     ELSE StartSend(t, "EXIT")
  /\ UNCHANGED <<loaded, flags, attached, mutex, queue, pending, user, history>>

(* mutex_unlock and return; a write of STP_START sets "started" last *)
Unlock(t) ==
  /\ kpc[t] = "unlock"
  /\ mutex' = "none"
  /\ started' = (started \/ (t = "main" /\ upc = "sent"))
  /\ Goto(t, IF t = "rmmod" THEN "destroy" ELSE "user")
  /\ UNCHANGED <<loaded, exit_flag, exit_called, probes_started, called, attached, queue,
                 pending, probing, sending, tries, user, history>>

(* mutant of WorkStart: the reader is not woken for queued messages *)
WorkStartNoWake ==
  /\ kpc["work"] = "user" /\ pending /\ loaded # "gone"
  /\ pending' = FALSE
  /\ Goto("work", "check")
  /\ UNCHANGED <<loaded, flags, attached, mutex, queue, probing, sending, tries, user,
                 history>>

(* _stp_work_queue: the timer fires and a worker starts *)
WorkStart ==
  /\ kpc["work"] = "user" /\ pending /\ loaded # "gone"
  /\ pending' = FALSE
  /\ IF ready # <<>> THEN WakeReader ELSE UNCHANGED asleep
  /\ Goto("work", "check")
  /\ UNCHANGED <<loaded, flags, attached, mutex, queue, probing, sending, tries, proc,
                 open, upc, cur, spc, detaching, exiting, tgt, args, history>>

(* ask for the exit once, when probe_start is over *)
WorkCheck ==
  /\ kpc["work"] = "check"
  /\ IF exit_flag /\ probes_started /\ ~called
     THEN called' = TRUE /\ StartSend("work", "REQUEST_EXIT")
     ELSE Goto("work", "requeue") /\ UNCHANGED <<called, sending, tries>>
  /\ UNCHANGED <<loaded, exit_flag, exit_called, probes_started, started, attached, mutex,
                 queue, pending, probing, user, history>>

WorkRequeue ==
  /\ kpc["work"] = "requeue"
  /\ Goto("work", IF attached THEN "queue" ELSE "user")
  /\ UNCHANGED <<loaded, flags, attached, mutex, queue, pending, probing, sending, tries,
                 user, history>>

WorkQueue ==
  /\ kpc["work"] = "queue"
  /\ pending' = TRUE
  /\ Goto("work", "user")
  /\ UNCHANGED <<loaded, flags, attached, mutex, queue, probing, sending, tries, user,
                 history>>

(* mutant of TransportClose: a running worker is not waited for *)
TransportCloseNoFlush ==
  /\ kpc["rmmod"] = "destroy"
  /\ loaded' = "gone"
  /\ free' = POOL /\ ready' = <<>>
  /\ Goto("rmmod", "user")
  /\ proc' = "removed"
  /\ UNCHANGED <<flags, attached, mutex, pending, probing, sending, tries, open, upc,
                 asleep, cur, spc, detaching, exiting, tgt, args, history>>

(* The rest of _stp_transport_close: destroy_workqueue waits for a running
   worker, then the queued messages and the pool are freed. *)
TransportClose ==
  /\ kpc["rmmod"] = "destroy" /\ kpc["work"] = "user"
  /\ loaded' = "gone"
  /\ free' = POOL /\ ready' = <<>>
  /\ Goto("rmmod", "user")
  /\ proc' = "removed"
  /\ UNCHANGED <<flags, attached, mutex, pending, probing, sending, tries, open, upc,
                 asleep, cur, spc, detaching, exiting, tgt, args, history>>

(* A probe handler sends a warning or an error: _stp_vlog calls
   _stp_ctl_write, which neither waits for a buffer nor wakes the reader.
   So does _stp_cleanup_and_exit itself, about transport failures. *)
Oob ==
  /\ probing /\ oob < MaxOob
  /\ oob' = oob + 1
  /\ CtlWrite("OOB") \/ (free = 0 /\ UNCHANGED queue)
  /\ UNCHANGED <<loaded, flags, attached, mutex, pending, probing, kpc, sending, tries,
                 user, attaches>>

(* _stp_exit, from exit() or from an error *)
ScriptExit ==
  /\ probing /\ ~exit_flag
  /\ exit_flag' = TRUE
  /\ UNCHANGED <<loaded, exit_called, probes_started, started, called, attached, mutex,
                 queue, pending, probing, kpc, sending, tries, user, history>>

(* _stp_ctl_open_cmd and _stp_attach *)
Attach ==
  /\ ~attached
  /\ attached' = TRUE
  /\ pending' = TRUE
  /\ UNCHANGED <<loaded, flags, mutex, queue, probing, kpc, sending, tries>>

(* _stp_ctl_close_cmd and _stp_detach, when the last reference to the file
   goes: cancel_delayed_work does not wait for a running worker *)
Detach ==
  /\ attached
  /\ attached' = FALSE
  /\ pending' = FALSE
  /\ WakeReader
  /\ UNCHANGED <<loaded, flags, mutex, queue, probing, kpc, sending, tries>>

-----------------------------------------------------------------------------
(* staprun has inserted the module and sent the relocations *)
StaprunClose ==
  /\ proc = "staprun"
  /\ Detach
  /\ proc' = "none"
  /\ UNCHANGED <<open, upc, cur, spc, detaching, exiting, tgt, args, history>>

(* stapio: init_stapio opens the channel and forks the -c child, which waits
   for SIGUSR1; stp_main_loop starts *)
StapioStart ==
  /\ proc = "none"
  /\ Attach
  /\ proc' = "run" /\ open' = TRUE /\ upc' = "loop" /\ spc' = "wait"
  /\ tgt' = IF HasTarget THEN "waiting" ELSE "none"
  /\ target_cmd' = HasTarget /\ load_only' \in LoadOnly
  /\ UNCHANGED <<asleep, cur, detaching, exiting, history>>

(* staprun -A, after a detach *)
StapioAttach ==
  /\ proc = "detached" /\ loaded = "yes" /\ attaches < MaxAttach
  /\ Attach
  /\ attaches' = attaches + 1
  /\ proc' = "run" /\ open' = TRUE /\ upc' = "loop" /\ spc' = "wait"
  /\ detaching' = FALSE /\ exiting' = FALSE
  /\ target_cmd' = FALSE /\ load_only' = FALSE
  /\ UNCHANGED <<asleep, cur, tgt, oob>>

MainFree == proc = "run" /\ kpc["main"] = "user"

(* stp_main_loop calls read: _stp_ctl_read_cmd looks at the ready queue *)
EnterRead ==
  /\ MainFree /\ upc = "loop" /\ open
  /\ upc' = "inread"
  /\ asleep' = (ready = <<>>)
  /\ UNCHANGED <<kernel, proc, open, cur, spc, detaching, exiting, tgt, args, history>>

(* take the first message and give its buffer back to the pool; there is one
   reader, so whoever woke it has left it a message *)
ReadReturns ==
  /\ MainFree /\ upc = "inread" /\ ~asleep /\ ready # <<>>
  /\ cur' = Head(ready) /\ ready' = Tail(ready)
  /\ free' = free + 1
  /\ upc' = "got"
  /\ UNCHANGED <<loaded, flags, attached, mutex, pending, probing, kpc, sending, tries,
                 proc, open, asleep, spc, detaching, exiting, tgt, args, history>>

(* a write of STP_EXIT by thread t, if the channel is still open *)
WriteExit(t) ==
  IF open THEN Goto(t, "lock_exit") ELSE UNCHANGED kpc

SendStart ==
  /\ IF open /\ ~started THEN Goto("main", "lock_start") ELSE UNCHANGED kpc
  /\ upc' = "sent"

(* the switch of stp_main_loop *)
Dispatch ==
  /\ MainFree /\ upc = "got"
  /\ \/ /\ cur = "OOB"
        /\ upc' = "loop" /\ UNCHANGED <<kpc, tgt>>
     \/ /\ cur = "EXIT"
        /\ upc' = "cleanup" /\ UNCHANGED <<kpc, tgt>>
     \/ /\ cur = "REQUEST_EXIT"
        /\ WriteExit("main")
        /\ upc' = "loop" /\ UNCHANGED tgt
     \/ /\ cur = "START_FAILED"
        /\ tgt' = IF target_cmd /\ tgt = "waiting" THEN "zombie" ELSE tgt  \* SIGKILL
        /\ upc' = "cleanup" /\ UNCHANGED kpc
     \/ /\ cur = "START_OK"
        /\ tgt' = IF target_cmd /\ tgt = "waiting" THEN "running" ELSE tgt \* SIGUSR1
        /\ upc' = "loop" /\ UNCHANGED kpc
     \/ /\ cur = "TRANSPORT"                \* init_relayfs, then STP_START
        /\ \/ upc' = "cleanup" /\ UNCHANGED kpc
           \/ SendStart
        /\ UNCHANGED tgt
  /\ UNCHANGED <<loaded, flags, attached, mutex, queue, pending, probing, sending, tries,
                 proc, open, asleep, cur, spc, detaching, exiting, args, history>>

(* the write of STP_START has returned *)
StartSent ==
  /\ MainFree /\ upc = "sent"
  /\ IF load_only /\ ~exiting
     THEN detaching' = TRUE /\ upc' = "leaving"
     ELSE upc' = "loop" /\ UNCHANGED detaching
  /\ UNCHANGED <<kernel, proc, open, asleep, cur, spc, exiting, tgt, args, history>>

(* cleanup_and_exit (0, rc), unless another thread is already in there;
   setup_main_signals starts one more signal thread *)
Cleanup ==
  /\ MainFree /\ upc = "cleanup"
  /\ IF ~exiting
     THEN exiting' = TRUE /\ spc' = "wait" /\ upc' = "closing" /\ UNCHANGED kpc
     ELSE /\ IF cur = "TRANSPORT" THEN SendStart ELSE upc' = "loop" /\ UNCHANGED kpc
          /\ UNCHANGED <<exiting, spc>>
  /\ UNCHANGED <<loaded, flags, attached, mutex, queue, pending, probing, sending, tries,
                 proc, open, asleep, cur, detaching, tgt, args, history>>

(* close_relayfs, then close_ctl_channel *)
CloseChannel ==
  /\ MainFree /\ upc = "closing"
  /\ upc' = "closed" /\ open' = FALSE
  /\ UNCHANGED <<kernel, proc, asleep, cur, spc, detaching, exiting, tgt, args, history>>

(* The file is released when it is closed and no thread of stapio is inside
   a system call on it. *)
Release ==
  /\ proc \in {"run", "left"} /\ ~open /\ attached
  /\ kpc["main"] = "user" /\ kpc["sig"] = "user" /\ upc # "inread"
  /\ Detach
  /\ UNCHANGED <<proc, open, upc, cur, spc, detaching, exiting, tgt, args, history>>

(* staprun -d: delete_module (O_NONBLOCK) fails while the file is open *)
RemoveModule ==
  /\ MainFree /\ upc = "closed"
  /\ ~attached \/ kpc["sig"] # "user"
  /\ IF attached
     THEN proc' = "left" /\ UNCHANGED <<loaded, kpc>>
     ELSE loaded' = "closing" /\ Goto("rmmod", "lock_exit") /\ proc' = "removing"
  /\ UNCHANGED <<flags, attached, mutex, queue, pending, probing, sending, tries, open,
                 upc, asleep, cur, spc, detaching, exiting, tgt, args, history>>

(* the user runs staprun -d on a detached module *)
UserRemoves ==
  /\ proc = "detached" /\ loaded = "yes"
  /\ loaded' = "closing" /\ Goto("rmmod", "lock_exit") /\ proc' = "removing"
  /\ UNCHANGED <<flags, attached, mutex, queue, pending, probing, sending, tries, open,
                 upc, asleep, cur, spc, detaching, exiting, tgt, args, history>>

(* signal_thread: SIGINT, SIGHUP or SIGTERM; the thread ends *)
SigTerm ==
  /\ proc = "run" /\ spc = "wait" /\ kpc["sig"] = "user"
  /\ spc' = "over"
  /\ WriteExit("sig")
  /\ UNCHANGED <<loaded, flags, attached, mutex, queue, pending, probing, sending, tries,
                 proc, open, upc, asleep, cur, detaching, exiting, tgt, args, history>>

(* signal_thread: SIGQUIT; cleanup_and_exit (1, 0) finds "exiting" clear ... *)
SigQuit ==
  /\ MayDetach /\ proc = "run" /\ spc = "wait" /\ kpc["sig"] = "user" /\ ~exiting
  /\ spc' = "over" /\ detaching' = TRUE
  /\ UNCHANGED <<kernel, proc, open, upc, asleep, cur, exiting, tgt, args, history>>

(* ... and sets it: the main thread may have entered in between *)
DetachCommit ==
  /\ proc = "run" /\ detaching /\ ~exiting
  /\ exiting' = TRUE /\ spc' = "wait"
  /\ UNCHANGED <<kernel, proc, open, upc, asleep, cur, detaching, tgt, args, history>>

DetachClose ==
  /\ proc = "run" /\ detaching /\ exiting /\ open
  /\ open' = FALSE
  /\ UNCHANGED <<kernel, proc, upc, asleep, cur, spc, detaching, exiting, tgt, args, history>>

(* _exit: every thread stops when it leaves the kernel *)
DetachExit ==
  /\ proc = "run" /\ detaching /\ ~open
  /\ proc' = "dying"
  /\ UNCHANGED <<kernel, open, upc, asleep, cur, spc, detaching, exiting, tgt, args, history>>

ProcessEnds ==
  /\ proc = "dying"
  /\ kpc["main"] = "user" /\ kpc["sig"] = "user"
  /\ proc' = "detached"
  /\ Detach \/ (~attached /\ UNCHANGED <<kernel, asleep>>)
  /\ UNCHANGED <<open, upc, cur, spc, detaching, exiting, tgt, args, history>>

TargetExit ==
  /\ tgt = "running"
  /\ tgt' = "zombie"
  /\ UNCHANGED <<kernel, proc, open, upc, asleep, cur, spc, detaching, exiting, args, history>>

(* chld_proc interrupts the main thread, and its read *)
ChldProc ==
  /\ MainFree /\ target_cmd /\ tgt = "zombie"
  /\ tgt' = "reaped"
  /\ WriteExit("main")
  /\ upc' = IF upc = "inread" THEN "loop" ELSE upc
  /\ UNCHANGED <<loaded, flags, attached, mutex, queue, pending, probing, sending, tries,
                 proc, open, asleep, cur, spc, detaching, exiting, args, history>>

-----------------------------------------------------------------------------
(* the module is inserted: _stp_transport_init has queued STP_TRANSPORT, and
   staprun holds the channel open to send relocations *)
Init ==
  /\ loaded = "yes"
  /\ exit_flag = FALSE /\ exit_called = FALSE /\ probes_started = FALSE
  /\ started = FALSE /\ called = FALSE
  /\ attached = TRUE /\ pending = TRUE /\ mutex = "none"
  /\ free = POOL - 1 /\ ready = <<"TRANSPORT">>
  /\ probing = FALSE
  /\ kpc = [t \in Thread |-> "user"]
  /\ sending = [t \in Thread |-> "OOB"] /\ tries = [t \in Thread |-> 0]
  /\ proc = "staprun" /\ open = FALSE /\ upc = "loop" /\ asleep = FALSE /\ cur = "OOB"
  /\ spc = "wait" /\ detaching = FALSE /\ exiting = FALSE
  /\ tgt = "none" /\ target_cmd = FALSE /\ load_only = FALSE
  /\ oob = 0 /\ attaches = 0

CtlSend(t) == Send(t) \/ SendRetry(t) \/ SendFail(t)
CleanupAndExit(t) == LockExit(t) \/ ProbeExit(t) \/ Unlock(t)
HandleStart == LockStart \/ ProbeStart
WorkFn == WorkStart \/ WorkCheck \/ WorkRequeue \/ WorkQueue
MainLoop ==
  \/ EnterRead \/ ReadReturns \/ Dispatch \/ StartSent
  \/ Cleanup \/ CloseChannel \/ RemoveModule \/ ChldProc
Process ==
  \/ StaprunClose \/ StapioStart \/ Release
  \/ DetachCommit \/ DetachClose \/ DetachExit \/ ProcessEnds
Environment ==
  Oob \/ ScriptExit \/ SigTerm \/ SigQuit \/ TargetExit \/ StapioAttach
  \/ UserRemoves

Next ==
  \/ \E t \in Thread : CtlSend(t)
  \/ \E t \in {"main", "sig", "rmmod"} : CleanupAndExit(t)
  \/ HandleStart \/ WorkFn \/ TransportClose
  \/ MainLoop \/ Process \/ Environment

Spec == Init /\ [][Next]_vars

(* Kernel threads, stapio and staprun are scheduled; a mutex waiter gets the
   mutex; the timer fires.  Nobody has to send a signal or call exit(). *)
FairSpec ==
  /\ Spec
  /\ \A t \in Thread : WF_vars(CtlSend(t))
  /\ \A t \in {"main", "sig", "rmmod"} : SF_vars(LockExit(t)) /\ WF_vars(ProbeExit(t) \/ Unlock(t))
  /\ SF_vars(LockStart) /\ WF_vars(ProbeStart)
  /\ WF_vars(WorkFn) /\ WF_vars(TransportClose)
  /\ WF_vars(MainLoop) /\ WF_vars(Process)

-----------------------------------------------------------------------------
(* the flags of the code are booleans *)
Flagged ==
  /\ exit_flag \in BOOLEAN /\ exit_called \in BOOLEAN /\ probes_started \in BOOLEAN
  /\ started \in BOOLEAN /\ called \in BOOLEAN /\ attached \in BOOLEAN
  /\ pending \in BOOLEAN /\ probing \in BOOLEAN /\ open \in BOOLEAN
  /\ asleep \in BOOLEAN /\ detaching \in BOOLEAN /\ exiting \in BOOLEAN
  /\ target_cmd \in BOOLEAN /\ load_only \in BOOLEAN

(* Every variable stays within its type; buffers are neither lost nor made:
   what _stp_ctl_write takes from the pool, _stp_ctl_read_cmd puts back. *)
TypeOK ==
  /\ loaded \in {"yes", "closing", "gone"}
  /\ Flagged
  /\ mutex \in Thread \cup {"none"}
  /\ free \in 0..POOL
  /\ ready \in Seq(Message) /\ free + Len(ready) = POOL
  /\ kpc \in [Thread -> Label]
  /\ sending \in [Thread -> Message] /\ tries \in [Thread -> 0..TRYLIMIT]
  /\ proc \in {"staprun", "none", "run", "dying", "detached", "removing", "removed", "left"}
  /\ upc \in {"loop", "inread", "got", "sent", "cleanup", "closing", "closed", "leaving"}
  /\ cur \in Message
  /\ spc \in {"wait", "over"}
  /\ tgt \in {"none", "waiting", "running", "zombie", "reaped"}
  /\ oob \in 0..MaxOob /\ attaches \in 0..MaxAttach

(* STP_EXIT is a promise: once it is queued or read, no probe runs and none is
   started again, whatever stapio writes afterwards. *)
ExitMeansStopped ==
  (\E i \in 1..Len(ready) : ready[i] = "EXIT") \/ (upc \in {"got", "cleanup"} /\ cur = "EXIT")
    => ~probing /\ exit_called

(* The -c command is released only after probe_start has succeeded, so that
   every system call it makes can be probed. *)
TargetAfterProbes == tgt = "running" => probes_started

(* The module's text is not freed under a thread that executes in it, nor
   while its probes run or its control file is open. *)
UnloadSafe ==
  loaded = "gone" => ~attached /\ ~probing /\ \A t \in Thread : kpc[t] = "user"

(* When the module is gone, nothing is left on its timer: the doc says that
   _stp_transport_close cancels the work queue. *)
WorkCancelled == loaded = "gone" => ~pending

(* stapio has unloaded the module when it ends a session. *)
ModuleUnloaded == proc # "left"

(* A session that is over leaves no -c child behind that waits to be started. *)
TargetReleased == proc \in {"removed", "left"} => tgt # "waiting"

(* exit(), an error, a signal or the end of the -c command ends the session. *)
ShutdownCompletes ==
  ((exit_flag \/ tgt = "reaped") /\ proc = "run") ~> (proc # "run")

(* A script's exit() request is acted on: the probes are removed, unless
   nobody is attached to ask for it. *)
ExitHonoured == (exit_flag /\ probes_started) ~> (exit_called \/ ~attached)

(* A queued message is read unless stapio goes away. *)
MessagesRead ==
  (ready # <<>> /\ proc = "run" /\ ~exiting) ~> (ready = <<>> \/ exiting \/ proc # "run")
=============================================================================
