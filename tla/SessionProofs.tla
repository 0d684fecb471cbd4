--------------------------- MODULE SessionProofs ---------------------------
(***************************************************************************)
(* The session is safe for any pool of control buffers, any retry limit,   *)
(* any number of warnings and reconnects: STP_EXIT means that the probes   *)
(* are stopped, the -c command runs only once they are started, and the    *)
(* module is never freed under a thread, a probe or an open file.          *)
(*                                                                         *)
(* Three facts carry the proof.  _stp_transport_mutex has one holder, so   *)
(* that probe_start and probe_exit exclude each other and _stp_exit_called *)
(* separates them.  A message tells a fact about the probes that no later  *)
(* step takes back, from the thread that sends it to the one that read it. *)
(* The control file stays open while a thread of stapio is inside a write  *)
(* to it, and only one life of the module leads to delete_module.          *)
(***************************************************************************)
EXTENDS Session, SequenceTheorems, TLAPS

\* The steps of a thread in transport code with the mutex held.
Inside == {"start", "probes", "unlock", "send"}
Writer == {"main", "sig"}
Locker == {"main", "sig", "rmmod"}

\* Who gets where: only stapio's main thread starts probes, only staprun -d
\* takes the transport down, and the work queue sends without the mutex.
Places ==
    /\ kpc["main"] \in Inside \cup {"user", "lock_start", "lock_exit"}
    /\ kpc["sig"] \in {"user", "lock_exit", "probes", "unlock", "send"}
    /\ kpc["rmmod"] \in {"user", "lock_exit", "probes", "unlock", "destroy"}
    /\ kpc["work"] \in {"user", "check", "send", "requeue", "queue"}

\* _stp_transport_mutex is held by whoever is inside, and by nobody else.
OneHolder == \A t \in Locker : kpc[t] \in Inside <=> mutex = t

\* Probes run while they are being started, after they were started and until
\* probe_exit returns; _stp_exit_called is set on the way to probe_exit.
Stopped == exit_called /\ ~probing
ProbesHeld ==
    /\ kpc["main"] = "start" => ~exit_called
    /\ \A t \in Locker : kpc[t] = "probes" => exit_called
    /\ probing => \/ kpc["main"] = "start"
                  \/ probes_started /\ ~exit_called
                  \/ \E t \in Locker : kpc[t] = "probes"
    /\ kpc["rmmod"] \in {"unlock", "destroy"} => Stopped

\* What a message says of the probes, true from its sending on.
Says(m) == (m = "EXIT" => Stopped) /\ (m = "START_OK" => probes_started)
MessagesTrue ==
    /\ \A t \in Thread : Says(sending[t])
    /\ \A i \in 1..Len(ready) : Says(ready[i])
    /\ Says(cur)
    /\ tgt = "running" => probes_started

\* The file is open while stapio has it open or a thread of stapio is inside
\* a write; the module goes from "yes" to "gone" with proc.
FileHeld ==
    /\ open => attached /\ proc = "run"
    /\ \A t \in Writer : kpc[t] # "user" => attached /\ proc \in {"run", "dying", "left"}
    /\ loaded = "closing" <=> kpc["rmmod"] # "user"
    /\ loaded = "closing" <=> proc = "removing"
    /\ loaded = "gone" <=> proc = "removed"
    /\ loaded # "yes" => ~attached
    /\ loaded = "gone" => ~probing /\ kpc["work"] = "user"
    /\ upc = "closed" => ~open
    /\ proc = "detached" => ~attached

SessionInv ==
    TypeOK /\ Places /\ OneHolder /\ ProbesHeld /\ MessagesTrue /\ FileHeld


-----------------------------------------------------------------------------
(* What the steps leave alone *)

\* The steps of threads in transport code, but for the end of the transport.
InTransport ==
    \/ \E t \in Thread : CtlSend(t)
    \/ \E t \in Locker : CleanupAndExit(t)
    \/ HandleStart \/ WorkFn

\* The steps of stapio, staprun, the user and the script.
Outside == MainLoop \/ Process \/ Environment

\* Every step is one of these, or the end of the transport.
LEMMA NextKinds ==
    ASSUME Next
    PROVE  InTransport \/ TransportClose \/ Outside
BY DEF Next, InTransport, Outside, Locker

\* Transport code leaves the processes' own state alone, and the file.
LEMMA TransportFrame ==
    ASSUME InTransport
    PROVE  UNCHANGED <<loaded, attached, proc, open, upc, cur, spc, detaching, exiting,
                       tgt, target_cmd, load_only, oob, attaches>>
<1> USE DEF args, user, history
<1>1. ASSUME NEW t \in Thread, CtlSend(t)
      PROVE  UNCHANGED <<loaded, attached, proc, open, upc, cur, spc, detaching, exiting,
                         tgt, target_cmd, load_only, oob, attaches>>
  BY <1>1 DEF CtlSend, Send, SendRetry, SendFail
<1>2. ASSUME NEW t \in Locker, CleanupAndExit(t)
      PROVE  UNCHANGED <<loaded, attached, proc, open, upc, cur, spc, detaching, exiting,
                         tgt, target_cmd, load_only, oob, attaches>>
  BY <1>2 DEF CleanupAndExit, LockExit, ProbeExit, Unlock
<1>3. CASE HandleStart \/ WorkFn
  BY <1>3 DEF HandleStart, LockStart, ProbeStart, WorkFn, WorkStart, WorkCheck,
              WorkRequeue, WorkQueue
<1> QED
  BY <1>1, <1>2, <1>3 DEF InTransport

\* Processes leave the mutex, the probes and the senders alone; only warnings
\* and the reader touch the queue.
LEMMA OutsideFrame ==
    ASSUME Outside
    PROVE  /\ UNCHANGED <<mutex, exit_called, probes_started, probing, sending, tries>>
           /\ UNCHANGED <<free, ready>> \/ Oob \/ ReadReturns
           /\ cur' = cur \/ ReadReturns
           /\ oob' = oob \/ Oob
           /\ attaches' = attaches \/ StapioAttach
           /\ loaded' = loaded \/ loaded' = "closing"
           /\ proc' = proc \/ proc' \in {"none", "run", "dying", "detached", "removing", "left"}
           /\ \/ upc' = upc
              \/ upc' \in {"loop", "inread", "got", "sent", "cleanup", "closing", "closed",
                          "leaving"}
           /\ spc' = spc \/ spc' \in {"wait", "over"}
           /\ tgt' = tgt \/ tgt' \in {"none", "waiting", "running", "zombie", "reaped"}
<1> USE DEF flags, queue, kernel, user, history, SendStart
<1>1. CASE MainLoop
  BY <1>1 DEF MainLoop, EnterRead, Dispatch, StartSent, Cleanup, CloseChannel,
              RemoveModule, ChldProc, ReadReturns
<1>2. CASE Process
  BY <1>2 DEF Process, StaprunClose, StapioStart, Release, DetachCommit, DetachClose,
              DetachExit, ProcessEnds, Attach, Detach
<1>3. CASE Environment
  BY <1>3 DEF Environment, ScriptExit, SigTerm, SigQuit, TargetExit, StapioAttach,
              UserRemoves, Attach, Oob
<1> QED
  BY <1>1, <1>2, <1>3 DEF Outside

\* Processes enter transport code with a write to the open file, or with
\* delete_module.
LEMMA OutsideMoves ==
    ASSUME FileHeld, Outside
    PROVE  \/ kpc' = kpc
           \/ /\ open /\ proc = "run"
              /\ \E t \in Writer : kpc[t] = "user" /\ Goto(t, "lock_exit")
           \/ open /\ proc = "run" /\ kpc["main"] = "user" /\ Goto("main", "lock_start")
           \/ kpc["rmmod"] = "user" /\ Goto("rmmod", "lock_exit")
<1> USE DEF kernel
<1>1. CASE \/ EnterRead \/ ReadReturns \/ StartSent \/ CloseChannel
           \/ Oob \/ ScriptExit \/ SigQuit \/ TargetExit \/ StapioAttach
  BY <1>1 DEF EnterRead, ReadReturns, StartSent, CloseChannel, Oob, ScriptExit, SigQuit,
              TargetExit, StapioAttach, Attach
<1>2. CASE Process
  BY <1>2 DEF Process, StaprunClose, StapioStart, Release, DetachCommit, DetachClose,
              DetachExit, ProcessEnds, Attach, Detach
<1>3. CASE Dispatch \/ Cleanup \/ ChldProc \/ SigTerm
  BY <1>3 DEF Dispatch, Cleanup, ChldProc, SigTerm, MainFree, WriteExit, SendStart, Writer
<1>4. CASE RemoveModule \/ UserRemoves
  BY <1>4 DEF RemoveModule, UserRemoves, MainFree, FileHeld
<1> QED
  BY <1>1, <1>2, <1>3, <1>4 DEF Outside, MainLoop, Environment

-----------------------------------------------------------------------------
(* The mutex and the probes *)

\* A step that neither takes the mutex nor gives it back, and leaves the
\* probes as they are: a thread moves outside the mutex, or has sent.
Quiet ==
    /\ UNCHANGED <<mutex, exit_called, probes_started, probing>>
    /\ \/ kpc' = kpc
       \/ \E l \in {"user", "check", "send", "requeue", "queue"} : Goto("work", l)
       \/ \E t \in Writer : kpc[t] = "user" /\ Goto(t, "lock_exit")
       \/ kpc["main"] = "user" /\ Goto("main", "lock_start")
       \/ \E t \in Writer : kpc[t] = "send" /\ Goto(t, "unlock")
       \/ kpc["rmmod"] = "user" /\ Goto("rmmod", "lock_exit")
       \/ kpc["rmmod"] = "destroy" /\ Goto("rmmod", "user")

LockStep ==
    LockStart \/ ProbeStart \/ \E t \in Locker : LockExit(t) \/ ProbeExit(t) \/ Unlock(t)

\* Every step is quiet or one of those made with the mutex.
LEMMA StepKinds ==
    ASSUME Places, FileHeld, Next
    PROVE  Quiet \/ LockStep
<1> USE DEF flags, queue
<1>1. ASSUME NEW t \in Thread, CtlSend(t) PROVE Quiet
  <2>1. t \in Writer \cup {"work"}
    BY <1>1 DEF Places, CtlSend, Send, SendRetry, SendFail, Thread, Writer
  <2>2. UNCHANGED <<mutex, exit_called, probes_started, probing>>
    BY <1>1 DEF CtlSend, Send, SendRetry, SendFail
  <2>3. \/ kpc' = kpc
        \/ t = "work" /\ Goto("work", "requeue")
        \/ t \in Writer /\ kpc[t] = "send" /\ Goto(t, "unlock")
    BY <1>1, <2>1 DEF CtlSend, Send, SendRetry, SendFail, AfterSend, Goto, Writer
  <2> QED
    BY <2>2, <2>3 DEF Quiet
<1>2. CASE WorkFn
  <2>1. /\ UNCHANGED <<mutex, exit_called, probes_started, probing>>
        /\ \E l \in {"user", "check", "send", "requeue", "queue"} : Goto("work", l)
    BY <1>2 DEF WorkFn, WorkStart, WorkCheck, WorkRequeue, WorkQueue, StartSend, Goto
  <2> QED
    BY <2>1 DEF Quiet
<1>3. CASE TransportClose
  BY <1>3 DEF TransportClose, Quiet
<1>4. CASE Outside
  <2>1. UNCHANGED <<mutex, exit_called, probes_started, probing>>
    BY <1>4, OutsideFrame
  <2>2. \/ kpc' = kpc
        \/ \E t \in Writer : kpc[t] = "user" /\ Goto(t, "lock_exit")
        \/ kpc["main"] = "user" /\ Goto("main", "lock_start")
        \/ kpc["rmmod"] = "user" /\ Goto("rmmod", "lock_exit")
    BY <1>4, OutsideMoves
  <2> QED
    BY <2>1, <2>2 DEF Quiet
<1> QED
  BY <1>1, <1>2, <1>3, <1>4, NextKinds
  DEF InTransport, CleanupAndExit, HandleStart, LockStep

Held == Places /\ OneHolder /\ ProbesHeld

\* Quiet steps keep the mutex and the probes in order ...
LEMMA QuietHeld ==
    ASSUME kpc \in [Thread -> Label], Held, Quiet
    PROVE  Held'
<1>1. Places'
  BY DEF Held, Places, Quiet, Goto, Thread, Writer, Inside
<1>2. OneHolder'
  BY DEF Held, Places, OneHolder, Quiet, Goto, Thread, Writer, Inside, Locker
<1>3. ProbesHeld'
  BY DEF Held, Places, ProbesHeld, Quiet, Goto, Thread, Writer, Inside, Locker, Stopped
<1> QED
  BY <1>1, <1>2, <1>3 DEF Held

\* ... and so do those made with it.
LEMMA LockHeld ==
    ASSUME kpc \in [Thread -> Label], Held, LockStep
    PROVE  Held'
<1> USE DEF flags, Goto, StartSend, Thread, Inside, Locker
<1>1. CASE LockStart
  BY <1>1, ZenonT(30) DEF LockStart, Held, Places, OneHolder, ProbesHeld, Stopped
<1>2. CASE ProbeStart
  BY <1>2 DEF ProbeStart, Held, Places, OneHolder, ProbesHeld, Stopped
<1>3. ASSUME NEW t \in Locker, LockExit(t) PROVE Held'
  BY <1>3 DEF LockExit, Held, Places, OneHolder, ProbesHeld, Stopped
<1>4. ASSUME NEW t \in Locker, ProbeExit(t) PROVE Held'
  BY <1>4 DEF ProbeExit, Held, Places, OneHolder, ProbesHeld, Stopped
<1>5. ASSUME NEW t \in Locker, Unlock(t) PROVE Held'
  BY <1>5 DEF Unlock, Held, Places, OneHolder, ProbesHeld, Stopped
<1> QED
  BY <1>1, <1>2, <1>3, <1>4, <1>5 DEF LockStep

-----------------------------------------------------------------------------
(* The control file and the module *)

\* Threads in transport code neither open nor close the file; those of stapio
\* are in there with the file open, and the last of them is staprun -d.
LEMMA TransportFile ==
    ASSUME TypeOK, Held, FileHeld, InTransport
    PROVE  FileHeld'
<1> USE DEF flags, queue, args, user, history
<1>0. kpc \in [Thread -> Label]
  BY DEF TypeOK
<1>1. UNCHANGED <<loaded, attached, proc, open, upc>>
  BY TransportFrame
<1>2. /\ \A t \in Writer : kpc'[t] # "user" => kpc[t] # "user"
      /\ kpc'["rmmod"] # "user" <=> kpc["rmmod"] # "user"
  <2>1. ASSUME NEW t \in Thread, CtlSend(t)
        PROVE  \A u \in Thread : kpc'[u] = "user" <=> kpc[u] = "user"
    BY <1>0, <2>1 DEF CtlSend, Send, SendRetry, SendFail, AfterSend, Goto
  <2>2. ASSUME NEW t \in Locker, LockExit(t) \/ ProbeExit(t)
        PROVE  \A u \in Thread : kpc'[u] = "user" <=> kpc[u] = "user"
    BY <1>0, <2>2 DEF LockExit, ProbeExit, StartSend, Goto
  <2>3. ASSUME NEW t \in Locker, Unlock(t)
        PROVE  /\ \A u \in Writer : kpc'[u] # "user" => kpc[u] # "user"
               /\ kpc'["rmmod"] # "user" <=> kpc["rmmod"] # "user"
    BY <1>0, <2>3 DEF Unlock, Goto, Locker, Writer, Thread
  <2>4. CASE HandleStart
    BY <1>0, <2>4 DEF HandleStart, LockStart, ProbeStart, StartSend, Goto, Writer, Thread
  <2>5. CASE WorkFn
    BY <1>0, <2>5 DEF WorkFn, WorkStart, WorkCheck, WorkRequeue, WorkQueue, StartSend,
                      Goto, Writer, Thread
  <2> QED
    BY <2>1, <2>2, <2>3, <2>4, <2>5 DEF InTransport, CleanupAndExit, Writer, Thread
<1>3. ASSUME loaded = "gone" PROVE FALSE
  <2>1. \A t \in Thread : kpc[t] = "user"
    BY <1>3 DEF FileHeld, Thread, Writer
  <2> QED
    BY <1>3, <2>1 DEF InTransport, CtlSend, Send, SendRetry, SendFail, CleanupAndExit,
                      LockExit, ProbeExit, Unlock, HandleStart, LockStart, ProbeStart,
                      WorkFn, WorkStart, WorkCheck, WorkRequeue, WorkQueue, Locker, Thread
<1> QED
  BY <1>1, <1>2, <1>3 DEF FileHeld

\* The module goes when staprun -d is the only thread left in it.
LEMMA CloseFile ==
    ASSUME TypeOK, Held, FileHeld, TransportClose
    PROVE  FileHeld'
<1>1. kpc \in [Thread -> Label] /\ kpc["rmmod"] = "destroy" /\ loaded = "closing"
  BY DEF TypeOK, TransportClose, FileHeld
<1>2. ~probing /\ ~attached /\ ~open
  BY <1>1 DEF Held, ProbesHeld, Stopped, FileHeld
<1>3. \A t \in Thread : kpc'[t] = "user"
  BY <1>1 DEF TransportClose, Goto, FileHeld, Thread, Writer
<1> QED
  BY <1>2, <1>3 DEF TransportClose, FileHeld, Thread, Writer

\* stapio and staprun open the file before they write to it, and remove the
\* module when the file is closed and no write is under way.
LEMMA ProcessFile ==
    ASSUME TypeOK, FileHeld, Outside
    PROVE  FileHeld'
<1> USE DEF flags, queue, args, kernel, user, history
<1>0. kpc \in [Thread -> Label]
  BY DEF TypeOK
<1>9. UNCHANGED probing
  BY OutsideFrame
<1>1. CASE \/ EnterRead \/ ReadReturns \/ StartSent \/ DetachCommit \/ SigQuit
           \/ TargetExit \/ Oob \/ ScriptExit
  <2>1. /\ UNCHANGED <<loaded, attached, proc, open, kpc>>
        /\ upc' = "closed" => upc = "closed"
    BY <1>1 DEF EnterRead, ReadReturns, StartSent, DetachCommit, SigQuit, TargetExit,
                Oob, ScriptExit
  <2> QED
    BY <1>9, <2>1 DEF FileHeld
<1>2. CASE Dispatch \/ Cleanup \/ ChldProc \/ SigTerm
  <2>1. /\ UNCHANGED <<loaded, attached, proc, open>>
        /\ upc' = "closed" => upc = "closed"
    BY <1>2 DEF Dispatch, Cleanup, ChldProc, SigTerm, SendStart
  <2>2. kpc' = kpc \/ (open /\ \E t \in Writer, l \in Label : Goto(t, l))
    BY <1>2 DEF Dispatch, Cleanup, ChldProc, SigTerm, SendStart, WriteExit, Writer, Label
  <2> QED
    BY <1>0, <1>9, <2>1, <2>2 DEF FileHeld, Goto, Writer, Thread
<1>3. CASE CloseChannel \/ DetachClose
  BY <1>3 DEF CloseChannel, DetachClose, FileHeld
<1>4. CASE RemoveModule
  BY <1>0, <1>4 DEF RemoveModule, MainFree, Goto, FileHeld, Writer, Thread
<1>5. CASE UserRemoves
  BY <1>0, <1>5 DEF UserRemoves, Goto, FileHeld, Writer, Thread
<1>6. CASE StaprunClose \/ Release \/ ProcessEnds
  BY <1>6 DEF StaprunClose, Release, ProcessEnds, Detach, FileHeld, Writer
<1>7. CASE StapioStart \/ StapioAttach
  <2>1. loaded = "yes" /\ kpc["main"] = "user" /\ kpc["sig"] = "user"
    BY <1>7 DEF TypeOK, StapioStart, StapioAttach, FileHeld, Writer
  <2>2. /\ proc' = "run" /\ open' /\ upc' = "loop" /\ attached'
        /\ UNCHANGED <<loaded, kpc, probing>>
    BY <1>7 DEF StapioStart, StapioAttach, Attach
  <2> QED
    BY <2>1, <2>2 DEF FileHeld, Writer
<1>8. CASE DetachExit
  BY <1>8 DEF DetachExit, FileHeld, Writer
<1> QED
  BY <1>1, <1>2, <1>3, <1>4, <1>5, <1>6, <1>7, <1>8 DEF Outside, MainLoop, Process, Environment

-----------------------------------------------------------------------------
(* The messages *)

\* What a message says stays true.
LEMMA SaysLasts ==
    ASSUME Held, Quiet \/ LockStep
    PROVE  /\ Stopped => Stopped'
           /\ probes_started => probes_started'
           /\ \A m : Says(m) => Says(m)'
<1>1. (Stopped => Stopped') /\ (probes_started => probes_started')
  <2>1. CASE Quiet
    BY <2>1 DEF Quiet, Stopped
  <2>2. CASE LockStart
    BY <2>2, Zenon DEF flags, LockStart, Stopped
  <2>4. CASE ProbeStart
    BY <2>4, Zenon DEF ProbeStart, Held, ProbesHeld, Stopped
  <2>3. ASSUME NEW t \in Locker, LockExit(t) \/ ProbeExit(t) \/ Unlock(t)
        PROVE  (Stopped => Stopped') /\ (probes_started => probes_started')
    BY <2>3 DEF flags, LockExit, ProbeExit, Unlock, Stopped
  <2> QED
    BY <2>1, <2>2, <2>3, <2>4 DEF LockStep
<1> QED
  BY <1>1 DEF Says

\* A thread begins to send what is true.
LEMMA SendsTruth ==
    ASSUME TypeOK, Held, Next
    PROVE  \/ sending' = sending
           \/ \E t \in Thread, m \in Message :
                sending' = [sending EXCEPT ![t] = m] /\ Says(m)'
<1> USE DEF flags, queue, args, kernel, user, history
<1>1. ASSUME NEW t \in Thread, CtlSend(t) PROVE sending' = sending
  BY <1>1 DEF CtlSend, Send, SendRetry, SendFail
<1>2. CASE LockStart \/ TransportClose
  BY <1>2 DEF LockStart, TransportClose
<1>3. CASE ProbeStart
  <2>1. PICK m \in {"START_OK", "START_FAILED"} :
          /\ sending' = [sending EXCEPT !["main"] = m]
          /\ m = "START_OK" => probes_started'
    BY <1>3, Zenon DEF ProbeStart, StartSend
  <2> QED
    BY <2>1, Zenon DEF Says, Thread, Message
<1>4. ASSUME NEW t \in Locker, LockExit(t) \/ ProbeExit(t)
      PROVE  sending' = sending \/ (sending' = [sending EXCEPT ![t] = "EXIT"] /\ Stopped')
  <2>1. CASE LockExit(t)
    BY <2>1 DEF LockExit, StartSend, Held, Places, OneHolder, ProbesHeld, Stopped, Inside,
                Locker
  <2>2. CASE ProbeExit(t)
    BY <2>2 DEF ProbeExit, StartSend, Held, ProbesHeld, Stopped
  <2> QED
    BY <1>4, <2>1, <2>2
<1>5. ASSUME NEW t \in Locker, Unlock(t) PROVE sending' = sending
  BY <1>5 DEF Unlock
<1>6. CASE WorkFn
  <2>1. sending' = sending \/ sending' = [sending EXCEPT !["work"] = "REQUEST_EXIT"]
    BY <1>6 DEF WorkFn, WorkStart, WorkCheck, WorkRequeue, WorkQueue, StartSend
  <2> QED
    BY <2>1 DEF Says, Thread, Message
<1>7. CASE Outside
  BY <1>7, OutsideFrame
<1>10. ASSUME NEW t \in Locker, CleanupAndExit(t)
       PROVE  \/ sending' = sending
              \/ \E u \in Thread, m \in Message :
                   sending' = [sending EXCEPT ![u] = m] /\ Says(m)'
  BY <1>4, <1>5, <1>10 DEF CleanupAndExit, Says, Locker, Thread, Message
<1> QED
  BY <1>1, <1>2, <1>3, <1>6, <1>7, <1>10, NextKinds DEF InTransport, HandleStart

\* The queue takes what a thread sends, and warnings, and gives its first.
LEMMA QueueMoves ==
    ASSUME Next
    PROVE  \/ ready' = ready \/ ready' = <<>>
           \/ ready # <<>> /\ ready' = Tail(ready)
           \/ \E t \in Thread : ready' = Append(ready, sending[t])
           \/ ready' = Append(ready, "OOB")
<1> USE DEF flags, queue, args, kernel, user, history
<1>1. ASSUME NEW t \in Thread, CtlSend(t)
      PROVE  ready' = ready \/ ready' = Append(ready, sending[t])
  BY <1>1 DEF CtlSend, Send, SendRetry, SendFail, CtlWrite
<1>2. CASE HandleStart \/ WorkFn
  BY <1>2 DEF HandleStart, LockStart, ProbeStart, WorkFn, WorkStart, WorkCheck,
              WorkRequeue, WorkQueue
<1>3. ASSUME NEW t \in Locker, CleanupAndExit(t) PROVE ready' = ready
  BY <1>3 DEF CleanupAndExit, LockExit, ProbeExit, Unlock
<1>4. CASE TransportClose \/ ReadReturns \/ Oob
  BY <1>4 DEF TransportClose, ReadReturns, Oob, CtlWrite
<1> QED
  BY <1>1, <1>2, <1>3, <1>4, NextKinds, OutsideFrame DEF InTransport

\* stapio takes its messages from the queue, and releases its child for
\* STP_START with result 0 only.
LEMMA ReaderMoves ==
    ASSUME Next
    PROVE  /\ cur' = cur \/ (ready # <<>> /\ cur' = Head(ready))
           /\ tgt' = "running" => tgt = "running" \/ cur = "START_OK"
<1>1. CASE InTransport
  BY <1>1, TransportFrame
<1>2. CASE TransportClose
  BY <1>2 DEF TransportClose
<1>3. CASE Outside
  <2>1. cur' = cur \/ (ready # <<>> /\ cur' = Head(ready))
    BY <1>3, OutsideFrame, Zenon DEF ReadReturns
  <2>2. tgt' = "running" => tgt = "running" \/ cur = "START_OK"
    BY <1>3
    DEF user, Outside, MainLoop, EnterRead, ReadReturns, Dispatch, StartSent, Cleanup,
        CloseChannel, RemoveModule, ChldProc, Process, StaprunClose, StapioStart, Release,
        DetachCommit, DetachClose, DetachExit, ProcessEnds, Environment, Oob, ScriptExit,
        SigTerm, SigQuit, TargetExit, StapioAttach, UserRemoves
  <2> QED
    BY <2>1, <2>2
<1> QED
  BY <1>1, <1>2, <1>3, NextKinds

\* Messages stay true from the sender through the queue to stapio.
LEMMA MessagesKept ==
    ASSUME TypeOK, Held, MessagesTrue, Quiet \/ LockStep, Next
    PROVE  MessagesTrue'
<1>0. /\ probes_started => probes_started'
      /\ \A m : Says(m) => Says(m)'
  BY SaysLasts
<1>1. \A t \in Thread : Says(sending[t])'
  <2> SUFFICES ASSUME NEW t \in Thread PROVE Says(sending[t])'
    OBVIOUS
  <2>1. Says(sending[t])
    BY DEF MessagesTrue
  <2>2. sending' = sending => sending'[t] = sending[t]
    OBVIOUS
  <2>3. ASSUME NEW u \in Thread, NEW m \in Message, sending' = [sending EXCEPT ![u] = m]
        PROVE  sending'[t] \in {sending[t], m}
    BY <2>3 DEF TypeOK
  <2>4. \E m : sending'[t] = m /\ Says(m)'
    BY <1>0, <2>1, <2>2, <2>3, SendsTruth, Zenon
  <2> QED
    BY <2>4 DEF Says
<1>2. \A i \in 1..Len(ready') : Says(ready[i])'
  <2> SUFFICES ASSUME NEW i \in 1..Len(ready') PROVE Says(ready[i])'
    OBVIOUS
  <2>1. ready \in Seq(Message)
    BY DEF TypeOK
  <2>2. \A j \in 1..Len(ready) : Says(ready[j])
    BY DEF MessagesTrue
  <2>3. \/ \E j \in 1..Len(ready) : ready'[i] = ready[j]
        \/ \E t \in Thread : ready'[i] = sending[t]
        \/ ready'[i] = "OOB"
    BY <2>1, QueueMoves
  <2> QED
    BY <1>0, <2>2, <2>3 DEF MessagesTrue, Says
<1>3. Says(cur)'
  <2>1. cur' = cur \/ \E j \in 1..Len(ready) : cur' = ready[j]
    BY ReaderMoves DEF TypeOK
  <2>2. Says(cur) /\ \A j \in 1..Len(ready) : Says(ready[j])
    BY DEF MessagesTrue
  <2> QED
    BY <1>0, <2>1, <2>2 DEF Says
<1>4. tgt' = "running" => probes_started'
  BY <1>0, ReaderMoves DEF MessagesTrue, Says
<1> QED
  BY <1>1, <1>2, <1>3, <1>4 DEF MessagesTrue

-----------------------------------------------------------------------------
(* Flags *)

\* The steps of the transport's threads leave every flag a boolean.
LEMMA TransportFlags ==
    ASSUME Flagged,
           InTransport \/ TransportClose
    PROVE  Flagged'
<1> USE DEF flags, queue, args, user, history, Flagged
<1>1. ASSUME NEW t \in Thread, Send(t) PROVE Flagged'
  <2>1. asleep' \in BOOLEAN
    BY <1>1, Zenon DEF Send, WakeReader
  <2> QED
    BY <1>1, <2>1 DEF Send
<1>2. ASSUME NEW t \in Thread, SendRetry(t) \/ SendFail(t) PROVE Flagged'
  BY <1>2 DEF SendRetry, SendFail
<1>3. CASE LockStart
  BY <1>3 DEF LockStart
<1>4. CASE ProbeStart
  BY <1>4 DEF ProbeStart
<1>5. ASSUME NEW t \in Locker, LockExit(t) PROVE Flagged'
  BY <1>5 DEF LockExit
<1>6. ASSUME NEW t \in Locker, ProbeExit(t) PROVE Flagged'
  <2>1. probing' \in BOOLEAN
    BY <1>6, Zenon DEF ProbeExit
  <2> QED
    BY <1>6, <2>1 DEF ProbeExit
<1>7. ASSUME NEW t \in Locker, Unlock(t) PROVE Flagged'
  BY <1>7 DEF Unlock
<1>8. CASE WorkStart
  <2>1. pending' \in BOOLEAN /\ asleep' \in BOOLEAN
    BY <1>8, Zenon DEF WorkStart, WakeReader
  <2> QED
    BY <1>8, <2>1 DEF WorkStart
<1>9. CASE WorkCheck \/ WorkRequeue \/ WorkQueue
  <2>1. called' \in BOOLEAN /\ pending' \in BOOLEAN
    BY <1>9, Zenon DEF WorkCheck, WorkRequeue, WorkQueue
  <2> QED
    BY <1>9, <2>1 DEF WorkCheck, WorkRequeue, WorkQueue
<1>10. CASE TransportClose
  BY <1>10 DEF TransportClose
<1> QED
  BY <1>1, <1>2, <1>3, <1>4, <1>5, <1>6, <1>7, <1>8, <1>9, <1>10
  DEF InTransport, CtlSend, CleanupAndExit, HandleStart, WorkFn

\* So do those of the processes.
LEMMA ProcessFlags ==
    ASSUME Flagged, SessionAssumption, Outside
    PROVE  Flagged'
<1> USE DEF flags, queue, args, kernel, user, history, Flagged
<1>1. CASE EnterRead
  BY <1>1 DEF EnterRead
<1>2. CASE ReadReturns \/ Dispatch \/ RemoveModule \/ ChldProc \/ UserRemoves
  BY <1>2 DEF ReadReturns, Dispatch, RemoveModule, ChldProc, UserRemoves
<1>3. CASE StartSent \/ Cleanup
  <2>1. detaching' \in BOOLEAN /\ exiting' \in BOOLEAN
    BY <1>3, Zenon DEF StartSent, Cleanup
  <2> QED
    BY <1>3, <2>1 DEF StartSent, Cleanup
<1>4. CASE CloseChannel \/ DetachClose
  <2>1. open' \in BOOLEAN
    BY <1>4, Zenon DEF CloseChannel, DetachClose
  <2> QED
    BY <1>4, <2>1 DEF CloseChannel, DetachClose
<1>5. ASSUME Detach PROVE attached' \in BOOLEAN /\ pending' \in BOOLEAN /\ asleep' \in BOOLEAN
  BY <1>5, Zenon DEF Detach, WakeReader
<1>6. CASE StaprunClose \/ Release \/ ProcessEnds
  <2>1. attached' \in BOOLEAN /\ pending' \in BOOLEAN /\ asleep' \in BOOLEAN
    BY <1>5, <1>6, Zenon DEF StaprunClose, Release, ProcessEnds
  <2> QED
    BY <1>6, <2>1 DEF StaprunClose, Release, ProcessEnds, Detach
<1>7. CASE StapioStart
  BY <1>7 DEF StapioStart, Attach, SessionAssumption
<1>8. CASE StapioAttach
  <2>1. /\ detaching' \in BOOLEAN /\ exiting' \in BOOLEAN
        /\ target_cmd' \in BOOLEAN /\ load_only' \in BOOLEAN
    BY <1>8, Zenon DEF StapioAttach
  <2> QED
    BY <1>8, <2>1 DEF StapioAttach, Attach
<1>9. CASE DetachCommit \/ DetachExit \/ SigTerm \/ SigQuit \/ TargetExit
  <2>1. detaching' \in BOOLEAN /\ exiting' \in BOOLEAN
    BY <1>9, Zenon DEF DetachCommit, DetachExit, SigTerm, SigQuit, TargetExit
  <2> QED
    BY <1>9, <2>1 DEF DetachCommit, DetachExit, SigTerm, SigQuit, TargetExit
<1>10. CASE Oob \/ ScriptExit
  <2>1. exit_flag' \in BOOLEAN
    BY <1>10, Zenon DEF Oob, ScriptExit
  <2> QED
    BY <1>10, <2>1 DEF Oob, ScriptExit
<1> QED
  BY <1>1, <1>2, <1>3, <1>4, <1>6, <1>7, <1>8, <1>9, <1>10
  DEF Outside, MainLoop, Process, Environment

-----------------------------------------------------------------------------
(* Types *)

\* Buffers are conserved: what leaves the pool joins the ready queue.
LEMMA CtlWriteTypes ==
    ASSUME TypeOK, SessionAssumption, NEW m \in Message, CtlWrite(m)
    PROVE  /\ free' \in 0..POOL
           /\ ready' \in Seq(Message) /\ free' + Len(ready') = POOL
BY DEF TypeOK, SessionAssumption, CtlWrite

\* A thread in transport code moves on, begins to send or tries again.
LEMMA TransportMoves ==
    ASSUME InTransport
    PROVE  /\ mutex' \in Thread \cup {mutex, "none"}
           /\ \/ UNCHANGED <<free, ready>>
              \/ \E t \in Thread : CtlWrite(sending[t])
           /\ \/ \E t \in Thread, l \in Label : Goto(t, l) /\ UNCHANGED <<sending, tries>>
              \/ \E t \in Thread, m \in Message : StartSend(t, m)
              \/ \E t \in Thread : /\ tries[t] > 0
                                   /\ tries' = [tries EXCEPT ![t] = @ - 1]
                                   /\ UNCHANGED <<kpc, sending>>
<1> USE DEF queue
<1>1. ASSUME NEW t \in Thread, CtlSend(t)
      PROVE  /\ mutex' = mutex
             /\ UNCHANGED <<free, ready>> \/ CtlWrite(sending[t])
             /\ \/ \E l \in Label : Goto(t, l) /\ UNCHANGED <<sending, tries>>
                \/ /\ tries[t] > 0
                   /\ tries' = [tries EXCEPT ![t] = @ - 1]
                   /\ UNCHANGED <<kpc, sending>>
  <2>1. CASE SendRetry(t)
    BY <2>1, Zenon DEF SendRetry
  <2>2. CASE Send(t) \/ SendFail(t)
    BY <2>2 DEF Send, SendFail, AfterSend, Label
  <2> QED
    BY <1>1, <2>1, <2>2 DEF CtlSend
<1>2. ASSUME NEW t \in Thread, CleanupAndExit(t)
      PROVE  /\ mutex' \in {t, mutex, "none"} /\ UNCHANGED <<free, ready>>
             /\ \/ \E l \in Label : Goto(t, l) /\ UNCHANGED <<sending, tries>>
                \/ \E m \in Message : StartSend(t, m)
  BY <1>2 DEF CleanupAndExit, LockExit, ProbeExit, Unlock, Label, Message
<1>3. ASSUME HandleStart \/ WorkFn
      PROVE  /\ mutex' \in {"main", mutex} /\ UNCHANGED <<free, ready>>
             /\ \E t \in {"main", "work"} :
                  \/ \E l \in Label : Goto(t, l) /\ UNCHANGED <<sending, tries>>
                  \/ \E m \in Message : StartSend(t, m)
  BY <1>3 DEF HandleStart, LockStart, ProbeStart, WorkFn, WorkStart, WorkCheck,
              WorkRequeue, WorkQueue, Label, Message
<1> QED
  BY <1>1, <1>2, <1>3 DEF InTransport, Locker, Thread

\* A step in transport code keeps every variable within its type.
LEMMA TransportTypes ==
    ASSUME TypeOK, SessionAssumption, InTransport
    PROVE  TypeOK'
<1>1. Flagged'
  BY TransportFlags DEF TypeOK
<1>2. free' \in 0..POOL /\ ready' \in Seq(Message) /\ free' + Len(ready') = POOL
  BY TransportMoves, CtlWriteTypes DEF TypeOK
<1>0. /\ kpc \in [Thread -> Label] /\ sending \in [Thread -> Message]
      /\ tries \in [Thread -> 0..TRYLIMIT]
  BY DEF TypeOK
<1>3. kpc' \in [Thread -> Label] /\ sending' \in [Thread -> Message]
  BY <1>0, TransportMoves DEF StartSend, Goto, Label
<1>4. tries' \in [Thread -> 0..TRYLIMIT]
  <2>1. ASSUME NEW t \in Thread, tries[t] > 0 PROVE tries[t] - 1 \in 0..TRYLIMIT
    BY <2>1 DEF TypeOK, SessionAssumption
  <2>2. TRYLIMIT \in 0..TRYLIMIT
    BY DEF SessionAssumption
  <2> QED
    BY <1>0, <2>1, <2>2, TransportMoves, Zenon DEF StartSend
<1>5. mutex' \in Thread \cup {"none"}
  BY TransportMoves DEF TypeOK
<1> QED
  BY <1>1, <1>2, <1>3, <1>4, <1>5, TransportFrame DEF TypeOK

\* The end of the transport gives every buffer back.
LEMMA CloseTypes ==
    ASSUME TypeOK, SessionAssumption, TransportClose
    PROVE  TypeOK'
<1>1. Flagged'
  BY TransportFlags DEF TypeOK
<1>2. free' \in 0..POOL /\ ready' \in Seq(Message) /\ free' + Len(ready') = POOL
  BY DEF TransportClose, SessionAssumption
<1>0. kpc \in [Thread -> Label]
  BY DEF TypeOK
<1>3. kpc' \in [Thread -> Label] /\ loaded' = "gone" /\ proc' = "removed"
  BY <1>0, Zenon DEF TransportClose, Goto, Label
<1>4. UNCHANGED <<mutex, sending, tries, upc, cur, spc, tgt, oob, attaches>>
  BY DEF TransportClose, history
<1> QED
  BY <1>1, <1>2, <1>3, <1>4 DEF TypeOK

\* A step of the processes keeps every variable within its type.
LEMMA ProcessTypes ==
    ASSUME TypeOK, SessionAssumption, FileHeld, Outside
    PROVE  TypeOK'
<1> USE DEF user, history
<1>1. Flagged'
  BY ProcessFlags DEF TypeOK
<1>2. kpc' \in [Thread -> Label]
  BY OutsideMoves DEF TypeOK, Goto, Label
<1>3. /\ cur' \in Message
      /\ free' \in 0..POOL /\ ready' \in Seq(Message) /\ free' + Len(ready') = POOL
  <2>1. CASE ReadReturns
    <3>1. ready \in Seq(Message) /\ ready # <<>> /\ free \in 0..POOL
          /\ free + Len(ready) = POOL /\ POOL \in Nat
      BY <2>1 DEF TypeOK, ReadReturns, SessionAssumption
    <3>2. /\ Head(ready) \in Message /\ Tail(ready) \in Seq(Message)
          /\ Len(Tail(ready)) = Len(ready) - 1 /\ Len(ready) \in Nat \ {0}
      BY <3>1
    <3> QED
      BY <2>1, <3>1, <3>2 DEF ReadReturns
  <2>2. CASE Oob
    <3>1. free' \in 0..POOL /\ ready' \in Seq(Message) /\ free' + Len(ready') = POOL
      BY <2>2, CtlWriteTypes DEF TypeOK, Oob, queue, Message
    <3> QED
      BY <2>2, <3>1 DEF TypeOK, Oob
  <2> QED
    BY <2>1, <2>2, OutsideFrame DEF TypeOK
<1>4. oob' \in 0..MaxOob /\ attaches' \in 0..MaxAttach
  <2>1. CASE Oob
    BY <2>1 DEF TypeOK, SessionAssumption, Oob
  <2>2. CASE StapioAttach
    BY <2>2 DEF TypeOK, SessionAssumption, StapioAttach
  <2> QED
    BY <2>1, <2>2, OutsideFrame DEF TypeOK
<1>5. /\ loaded' \in {"yes", "closing", "gone"}
      /\ proc' \in {"staprun", "none", "run", "dying", "detached", "removing", "removed", "left"}
  BY OutsideFrame, Zenon DEF TypeOK
<1>6. /\ upc' \in {"loop", "inread", "got", "sent", "cleanup", "closing", "closed", "leaving"}
      /\ spc' \in {"wait", "over"}
      /\ tgt' \in {"none", "waiting", "running", "zombie", "reaped"}
  BY OutsideFrame, Zenon DEF TypeOK
<1> QED
  BY <1>1, <1>2, <1>3, <1>4, <1>5, <1>6, OutsideFrame DEF TypeOK

-----------------------------------------------------------------------------
(* The theorems *)

\* The invariant holds whatever stapio's threads, the work queue, staprun -d,
\* the user and the script do.
THEOREM SessionInvariant == Spec => []SessionInv
<1>1. Init => SessionInv
  <2> SUFFICES ASSUME Init PROVE SessionInv
    OBVIOUS
  <2>1. TypeOK
    <3>1. Flagged
      BY Zenon DEF Init, Flagged
    <3>2. ready \in Seq(Message) /\ Len(ready) = 1 /\ free \in 0..POOL /\ free + 1 = POOL
      BY SessionAssumption DEF Init, Message, SessionAssumption
    <3> QED
      BY <3>1, <3>2, SessionAssumption
      DEF Init, TypeOK, SessionAssumption, Label, Message, Thread
  <2>2. Places /\ OneHolder /\ ProbesHeld
    BY DEF Init, Places, OneHolder, ProbesHeld, Stopped, Thread, Locker, Inside
  <2>3. MessagesTrue
    BY DEF Init, MessagesTrue, Says, Thread
  <2>4. FileHeld
    BY DEF Init, FileHeld, Thread, Writer
  <2> QED
    BY <2>1, <2>2, <2>3, <2>4 DEF SessionInv
<1>2. SessionInv /\ [Next]_vars => SessionInv'
  <2> SUFFICES ASSUME SessionInv, [Next]_vars PROVE SessionInv'
    OBVIOUS
  <2>1. CASE Next
    <3>1. TypeOK /\ Held /\ MessagesTrue /\ FileHeld
      BY DEF SessionInv, Held
    <3>2. Quiet \/ LockStep
      BY <2>1, <3>1, StepKinds DEF Held
    <3>3. Held'
      BY <3>1, <3>2, QuietHeld, LockHeld DEF TypeOK
    <3>4. MessagesTrue'
      BY <2>1, <3>1, <3>2, MessagesKept
    <3>5. TypeOK' /\ FileHeld'
      <4>1. CASE Outside
        BY <3>1, <4>1, ProcessTypes, ProcessFile, SessionAssumption, Zenon
      <4>2. CASE TransportClose
        BY <3>1, <4>2, CloseTypes, CloseFile, SessionAssumption, Zenon
      <4>3. CASE InTransport
        BY <3>1, <4>3, TransportTypes, TransportFile, SessionAssumption, Zenon
      <4> QED
        BY <2>1, <4>1, <4>2, <4>3, NextKinds
    <3> QED
      BY <3>3, <3>4, <3>5 DEF SessionInv, Held
  <2>2. CASE UNCHANGED vars
    <3>1. UNCHANGED <<loaded, exit_called, probes_started, attached, mutex, ready, probing,
                      kpc, sending, proc, open, upc, cur, tgt>>
      BY <2>2 DEF vars, kernel, flags, queue, user
    <3>2. TypeOK'
      BY <2>2 DEF SessionInv, TypeOK, Flagged, vars, kernel, flags, queue, user, args,
                  history
    <3> QED
      BY <3>1, <3>2 DEF SessionInv, Places, OneHolder, ProbesHeld, MessagesTrue, Says,
                        Stopped, FileHeld
  <2> QED
    BY <2>1, <2>2
<1> QED
  BY <1>1, <1>2, PTL DEF Spec

\* Once STP_EXIT is queued or read, no probe runs and none starts again.
THEOREM ExitIsFinal == Spec => []ExitMeansStopped
<1>1. SessionInv => ExitMeansStopped
  BY DEF SessionInv, MessagesTrue, Says, Stopped, ExitMeansStopped
<1> QED
  BY <1>1, SessionInvariant, PTL

\* The -c command runs only after probe_start has succeeded.
THEOREM TargetWaits == Spec => []TargetAfterProbes
<1>1. SessionInv => TargetAfterProbes
  BY DEF SessionInv, MessagesTrue, TargetAfterProbes
<1> QED
  BY <1>1, SessionInvariant, PTL

\* The module is not freed under a thread, a probe or an open control file.
THEOREM UnloadIsSafe == Spec => []UnloadSafe
<1>1. SessionInv => UnloadSafe
  BY DEF SessionInv, FileHeld, UnloadSafe, Thread, Writer
<1> QED
  BY <1>1, SessionInvariant, PTL
=============================================================================
