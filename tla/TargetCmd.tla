----------------------------- MODULE TargetCmd -----------------------------
(***************************************************************************)
(* stapio and its children (mainloop.c): the -c command, forked early and  *)
(* held until the probes run, and the commands of the script's system()    *)
(* calls.  SIGUSR1 releases the first; SIGCHLD reports the end of any.     *)
(***************************************************************************)
EXTENDS Integers, FiniteSets

CONSTANTS
  NSystem,     \* bound: system() calls
  Interrupts   \* ^C may reach the -c child while it is held

ASSUME TargetAssumption == NSystem \in Nat /\ Interrupts \in BOOLEAN

Target == 0
Child == 0..NSystem
Held == {"test", "block", "suspended"}

VARIABLES
  child,           \* the -c child: "test" (usr1_interrupt), "block" (about to
                   \* sigsuspend), "suspended"; any: "none", "running",
                   \* "zombie", "reaped"
  usr1,            \* SIGUSR1 is pending for the -c child
  usr1_interrupt,
  handler,         \* setup_main_signals has installed chld_proc
  answer,          \* what the module said of probe_start: "none", "ok", "failed"
  sigchld,         \* SIGCHLD is pending for stapio
  exit_sent        \* chld_proc has written STP_EXIT

vars == <<child, usr1, usr1_interrupt, handler, answer, sigchld, exit_sent>>

-----------------------------------------------------------------------------
(* start_cmd in the child, with SIGUSR1 blocked: while (!usr1_interrupt) *)
ChildTest ==
  /\ child[Target] = "test"
  /\ child' = [child EXCEPT ![Target] = IF usr1_interrupt THEN "running" ELSE "block"]
  /\ UNCHANGED <<usr1, usr1_interrupt, handler, answer, sigchld, exit_sent>>

(* mutant of ChildSuspend: pause () instead; SIGUSR1 is handled outside it *)
ChildPauses ==
  /\ child[Target] = "block"
  /\ child' = [child EXCEPT ![Target] = "suspended"]
  /\ usr1_interrupt' = (usr1_interrupt \/ usr1)
  /\ usr1' = FALSE
  /\ UNCHANGED <<handler, answer, sigchld, exit_sent>>

(* sigsuspend: SIGUSR1 is unblocked and waited for in one step *)
ChildSuspend ==
  /\ child[Target] = "block"
  /\ child' = [child EXCEPT ![Target] = "suspended"]
  /\ UNCHANGED <<usr1, usr1_interrupt, handler, answer, sigchld, exit_sent>>

(* signal_usr1 *)
ChildSignalled ==
  /\ child[Target] = "suspended" /\ usr1
  /\ usr1' = FALSE /\ usr1_interrupt' = TRUE
  /\ child' = [child EXCEPT ![Target] = "test"]
  /\ UNCHANGED <<handler, answer, sigchld, exit_sent>>

(* the child dies: with the default action SIGCHLD is discarded, and a signal
   that is already pending is not queued again *)
Dies(i) ==
  /\ child' = [child EXCEPT ![i] = "zombie"]
  /\ sigchld' = handler

(* ^C: start_cmd has restored the default action of SIGINT in the child *)
Interrupt ==
  /\ Interrupts
  /\ child[Target] \in Held
  /\ Dies(Target)
  /\ UNCHANGED <<usr1, usr1_interrupt, handler, answer, exit_sent>>

(* stp_main_loop begins *)
SetupMainSignals ==
  /\ ~handler
  /\ handler' = TRUE
  /\ UNCHANGED <<child, usr1, usr1_interrupt, answer, sigchld, exit_sent>>

(* stp_main_loop, STP_START: probe_start has succeeded (a signal to a zombie
   does nothing) ... *)
StartOk ==
  /\ handler /\ answer = "none"
  /\ answer' = "ok"
  /\ usr1' = (child[Target] \in Held)
  /\ UNCHANGED <<child, usr1_interrupt, handler, sigchld, exit_sent>>

(* ... or failed: the child is killed and stapio cleans up *)
StartFailed ==
  /\ handler /\ answer = "none"
  /\ answer' = "failed"
  /\ IF child[Target] \in Held THEN Dies(Target) ELSE UNCHANGED <<child, sigchld>>
  /\ UNCHANGED <<usr1, usr1_interrupt, handler, exit_sent>>

(* stp_main_loop, STP_SYSTEM: system_cmd; begin probes ask before the answer *)
SystemCmd(i) ==
  /\ handler /\ answer # "failed" /\ i # Target
  /\ child[i] = "none"
  /\ child' = [child EXCEPT ![i] = "running"]
  /\ UNCHANGED <<usr1, usr1_interrupt, handler, answer, sigchld, exit_sent>>

(* a command exits, or cannot be executed *)
Ends(i) ==
  /\ child[i] = "running"
  /\ Dies(i)
  /\ UNCHANGED <<usr1, usr1_interrupt, handler, answer, exit_sent>>

(* mutant of ChldProc: any child's end ends the session *)
ChldProcAnyChild ==
  /\ sigchld
  /\ sigchld' = FALSE
  /\ \E i \in Child : child[i] = "zombie" /\ child' = [child EXCEPT ![i] = "reaped"]
  /\ exit_sent' = TRUE
  /\ UNCHANGED <<usr1, usr1_interrupt, handler, answer>>

(* mutant of ChldProc: only the end of a released command is reported *)
ChldProcReleasedOnly ==
  /\ sigchld
  /\ sigchld' = FALSE
  /\ \E i \in Child :
       /\ child[i] = "zombie"
       /\ child' = [child EXCEPT ![i] = "reaped"]
       /\ exit_sent' = (exit_sent \/ (i = Target /\ answer = "ok"))
  /\ UNCHANGED <<usr1, usr1_interrupt, handler, answer>>

(* chld_proc: waitpid (-1, NULL, WNOHANG), once *)
ChldProc ==
  /\ sigchld
  /\ sigchld' = FALSE
  /\ \/ \E i \in Child :
          /\ child[i] = "zombie"
          /\ child' = [child EXCEPT ![i] = "reaped"]
          /\ exit_sent' = (exit_sent \/ i = Target)
     \/ /\ \A i \in Child : child[i] # "zombie"
        /\ UNCHANGED <<child, exit_sent>>
  /\ UNCHANGED <<usr1, usr1_interrupt, handler, answer>>

-----------------------------------------------------------------------------
(* start_cmd has forked *)
Init ==
  /\ child = [i \in Child |-> IF i = Target THEN "test" ELSE "none"]
  /\ usr1 = FALSE /\ usr1_interrupt = FALSE /\ handler = FALSE
  /\ answer = "none" /\ sigchld = FALSE /\ exit_sent = FALSE

Next ==
  \/ ChildTest \/ ChildSuspend \/ ChildSignalled \/ Interrupt
  \/ SetupMainSignals \/ StartOk \/ StartFailed
  \/ \E i \in Child : SystemCmd(i) \/ Ends(i)
  \/ ChldProc

Spec == Init /\ [][Next]_vars

(* the child and stapio are scheduled; commands need not end; once the start has
   failed stapio may reset SIGCHLD before it is delivered *)
FairSpec ==
  /\ Spec
  /\ WF_vars(ChildTest \/ ChildSuspend \/ ChildSignalled)
  /\ WF_vars(answer # "failed" /\ ChldProc)

-----------------------------------------------------------------------------
(* Every variable stays within its type, and SIGUSR1 is sent to the -c child only
   once the module has said that the probes run. *)
TypeOK ==
  /\ child \in [Child -> Held \cup {"none", "running", "zombie", "reaped"}]
  /\ usr1 \in BOOLEAN /\ usr1_interrupt \in BOOLEAN /\ handler \in BOOLEAN
  /\ answer \in {"none", "ok", "failed"}
  /\ usr1 \/ usr1_interrupt => answer = "ok"
  /\ sigchld \in BOOLEAN /\ exit_sent \in BOOLEAN

(* STP_EXIT is written for the end of the -c command and of nothing else; and
   the command has not run unless the probes were started before. *)
ExitForTarget ==
  /\ exit_sent => child[Target] = "reaped"
  /\ child[Target] = "running" => answer = "ok"

(* The SIGUSR1 that releases the -c command is not lost, wherever it finds the
   child on its way into sigsuspend. *)
ReleaseNotLost ==
  (answer = "ok") ~> (child[Target] \in {"running", "zombie", "reaped"})

(* A SIGCHLD for the -c command leads to STP_EXIT, released or not, unless a
   system() command has ended too or the probes have failed to start. *)
NoticedAlone ==
  (sigchld /\ child[Target] = "zombie")
    ~> \/ exit_sent \/ answer = "failed"
       \/ \E i \in Child \ {Target} : child[i] \in {"zombie", "reaped"}

(* "Start the probes, run CMD, and exit when CMD finishes" (host/stap.1.in). *)
TargetNoticed == (child[Target] = "zombie" /\ answer = "ok") ~> exit_sent
=============================================================================
