------------------------- MODULE ProbeRuntimeProofs -------------------------
(***************************************************************************)
(* Facts about the generated module for every number of CPUs, probe groups *)
(* and errors: a context has one user at a time; no handler touches a      *)
(* context or a global that module exit, or the error path of module init, *)
(* has freed; begin and end probes run apart from the handlers that        *)
(* unregistration waits for; and after an error no end probe runs.         *)
(***************************************************************************)
EXTENDS ProbeRuntime, FiniteSetTheorems, TLAPS

AllIdle == \A h \in Handler : ~Active(h)
AllThere == globals /\ \A c \in Cpu : contexts[c]

\* The handler is before the check of its prologue, or past its epilogue.
Outside == {"idle", "entry", "tail", "toskip"}

\* The probes are not running yet, or never will.
NotYet == failing \/ mpc \in {"unstarted", "begin", "register", "out", "outwait", "failed"}

\* contexts[c]->busy counts its one user.
OneUser ==
  /\ \A h \in Handler : Inside(h) => busy[h[1]] = 1
  /\ \A h, i \in Handler : h[1] = i[1] /\ Inside(h) /\ Inside(i) => h = i
  /\ \A c \in Cpu : busy[c] = 1 => \E h \in Handler : h[1] = c /\ Inside(h)

\* Which groups are registered while module init and exit go through them.
Registrations ==
  /\ mpc \in {"unstarted", "begin"} => reg = {}
  /\ mpc = "register" => k >= 1 /\ reg \subseteq 1 .. (k - 1)
  /\ mpc = "stop" => k = NGroups
  /\ mpc = "unregister" => reg \subseteq 1 .. k
  /\ mpc = "drain" => k >= 1 /\ reg \subseteq 1 .. (k - 1)
  /\ mpc \in {"end", "error", "sync1", "sync1wait", "holdon", "sync2", "fini",
              "out", "outwait", "failed"} => reg = {}

\* Who may run when.
Phases ==
  /\ failing => mpc \in {"unregister", "drain", "end", "error", "out", "outwait", "failed"}
  /\ NotYet => session_state # "RUNNING"
  /\ NotYet => \A h \in Handler : grp[h] # Be => pc[h] \in Outside
  /\ \A h \in Handler : Active(h) /\ grp[h] # Be => want[h] = "RUNNING"
  /\ mpc \notin {"begin", "end", "error"} => ~BeRuns

\* When memory may be gone.
Memory ==
  /\ mpc \notin {"unstarted", "out", "outwait", "done", "failed"} => AllThere
  /\ mpc = "unstarted" => AllIdle
  /\ mpc = "fini" => \A h \in Handler : Active(h) => h \in waiting
  /\ mpc = "done" => AllThere \/ (reg = {} /\ AllIdle)

RuntimeInv == TypeOK /\ OneUser /\ Registrations /\ Phases /\ Memory

-----------------------------------------------------------------------------
\* A step that moves no handler.
LEMMA QuietHandlers ==
  ASSUME OneUser, UNCHANGED handlerVars
  PROVE  /\ OneUser'
         /\ \A h \in Handler : Active(h)' = Active(h)
         /\ BeRuns' = BeRuns
         /\ AllIdle' = AllIdle
BY DEF handlerVars, OneUser, Inside, Active, BeRuns, AllIdle

\* The steps of module init other than the begin probes.
QuietInit ==
  ModuleInit \/ InitFails \/ BeginDone \/ Register \/ RegisterFails \/ Registered

\* They keep the invariant: no probe gets past its prologue before all groups
\* are registered.
LEMMA InitKeeps ==
  ASSUME RuntimeInv, QuietInit
  PROVE  RuntimeInv'
<1> USE RuntimeAssumption DEF counters, historyVars
<1>1. UNCHANGED handlerVars
  BY DEF QuietInit, ModuleInit, InitFails, BeginDone, EndLoop, Register, RegisterFails,
         Registered
<1>2. /\ TypeOK /\ OneUser'
      /\ \A h \in Handler : Active(h)' = Active(h)
      /\ BeRuns' = BeRuns /\ AllIdle' = AllIdle
  BY <1>1, QuietHandlers DEF RuntimeInv
<1>3. UNCHANGED <<pc, grp, want, last_error, busy>>
  BY <1>1 DEF handlerVars
<1>4. CASE ModuleInit
  <2>1. TypeOK'
    BY <1>4, <1>2, <1>3 DEF TypeOK, SessionState, Group, ModuleInit
  <2>2. Registrations'
    BY <1>4, <1>2 DEF RuntimeInv, Registrations, TypeOK, Group, ModuleInit
  <2>3. Phases'
    BY <1>4, <1>2, <1>3 DEF RuntimeInv, Phases, NotYet, Memory, AllIdle, Active, BeRuns,
       Outside, TypeOK, ModuleInit
  <2>4. Memory'
    BY <1>4, <1>2 DEF RuntimeInv, Memory, AllThere, ModuleInit
  <2> QED
    BY <1>2, <2>1, <2>2, <2>3, <2>4 DEF RuntimeInv
<1>5. CASE InitFails
  <2>1. TypeOK'
    BY <1>5, <1>2, <1>3 DEF TypeOK, SessionState, Group, InitFails, RequestExit
  <2>2. Registrations'
    BY <1>5, <1>2 DEF RuntimeInv, Registrations, TypeOK, Group, InitFails, RequestExit
  <2>3. Phases'
    BY <1>5, <1>2, <1>3 DEF RuntimeInv, Phases, NotYet, Memory, AllIdle, Active, BeRuns,
       Outside, TypeOK, InitFails, RequestExit
  <2>4. Memory'
    BY <1>5, <1>2 DEF RuntimeInv, Memory, AllThere, InitFails, RequestExit
  <2> QED
    BY <1>2, <2>1, <2>2, <2>3, <2>4 DEF RuntimeInv
<1>6. CASE BeginDone
  <2>1. TypeOK'
    BY <1>6, <1>2, <1>3 DEF TypeOK, SessionState, Group, BeginDone, EndLoop
  <2>2. Registrations'
    BY <1>6, <1>2 DEF RuntimeInv, Registrations, TypeOK, Group, BeginDone, EndLoop
  <2>3. Phases'
    BY <1>6, <1>2, <1>3 DEF RuntimeInv, Phases, NotYet, Memory, AllIdle, Active, BeRuns,
       Outside, TypeOK, BeginDone, EndLoop
  <2>4. Memory'
    BY <1>6, <1>2 DEF RuntimeInv, Memory, AllThere, BeginDone, EndLoop
  <2> QED
    BY <1>2, <2>1, <2>2, <2>3, <2>4 DEF RuntimeInv
<1>7. CASE Register
  <2>1. TypeOK'
    <3>1. k \in Group
      BY <1>7, <1>2 DEF RuntimeInv, Registrations, TypeOK, Group, Register
    <3> QED
      BY <1>7, <1>2, <1>3, <3>1 DEF TypeOK, Register
  <2>2. Registrations'
    BY <1>7, <1>2 DEF RuntimeInv, Registrations, TypeOK, Group, Register
  <2>3. Phases'
    BY <1>7, <1>2, <1>3 DEF RuntimeInv, Phases, NotYet, Memory, AllIdle, Active, BeRuns,
       Outside, TypeOK, Register
  <2>4. Memory'
    BY <1>7, <1>2 DEF RuntimeInv, Memory, AllThere, Register
  <2> QED
    BY <1>2, <2>1, <2>2, <2>3, <2>4 DEF RuntimeInv
<1>8. CASE RegisterFails
  <2>1. TypeOK'
    <3>1. k - 1 \in Nat
      BY <1>8, <1>2 DEF RuntimeInv, Registrations, TypeOK, RegisterFails
    <3> QED
      BY <1>8, <1>2, <1>3, <3>1 DEF TypeOK, SessionState, RegisterFails, RequestExit
  <2>2. Registrations'
    BY <1>8, <1>2 DEF RuntimeInv, Registrations, TypeOK, Group, RegisterFails, RequestExit
  <2>3. Phases'
    BY <1>8, <1>2, <1>3 DEF RuntimeInv, Phases, NotYet, Memory, AllIdle, Active, BeRuns,
       Outside, TypeOK, RegisterFails, RequestExit
  <2>4. Memory'
    BY <1>8, <1>2 DEF RuntimeInv, Memory, AllThere, RegisterFails, RequestExit
  <2> QED
    BY <1>2, <2>1, <2>2, <2>3, <2>4 DEF RuntimeInv
<1>9. CASE Registered
  <2>1. TypeOK'
    BY <1>9, <1>2, <1>3 DEF TypeOK, SessionState, Group, Registered
  <2>2. Registrations'
    BY <1>9, <1>2 DEF RuntimeInv, Registrations, TypeOK, Group, Registered
  <2>3. Phases'
    BY <1>9, <1>2, <1>3 DEF RuntimeInv, Phases, NotYet, Memory, AllIdle, Active, BeRuns,
       Outside, TypeOK, Registered
  <2>4. Memory'
    BY <1>9, <1>2 DEF RuntimeInv, Memory, AllThere, Registered
  <2> QED
    BY <1>2, <2>1, <2>2, <2>3, <2>4 DEF RuntimeInv
<1> QED
  BY <1>4, <1>5, <1>6, <1>7, <1>8, <1>9 DEF QuietInit

\* The steps of module exit, and of the error path of module init, other
\* than the end and error probes.
QuietExit ==
  \/ ModuleExit \/ SetStopping \/ Unregister \/ Drained \/ UnregisterDone
  \/ EndDone \/ ErrorDone \/ Sync1 \/ Sync1Done \/ (\E c \in Cpu : Scan(c))
  \/ ScanDone \/ Sync2 \/ Fini \/ Out \/ OutDone

\* They keep the invariant: memory goes only when no group is registered and
\* the handlers that still ran were waited for.
LEMMA ExitKeeps ==
  ASSUME RuntimeInv, QuietExit
  PROVE  RuntimeInv'
<1> USE RuntimeAssumption DEF counters, historyVars
<1>1. UNCHANGED handlerVars
  BY DEF QuietExit, ModuleExit, SetStopping, Unregister, Drained, UnregisterDone,
         EndDone, ErrorDone, EndLoop, Sync1, Sync1Done, Scan, ScanDone, Sync2,
         SyncStart, Fini, Out, OutDone, Free
<1>2. /\ OneUser'
      /\ \A h \in Handler : Active(h)' = Active(h)
      /\ BeRuns' = BeRuns /\ AllIdle' = AllIdle
  BY <1>1, QuietHandlers DEF RuntimeInv
<1>3. UNCHANGED <<pc, grp, want, last_error, busy>>
  BY <1>1 DEF handlerVars
<1>4. /\ TypeOK /\ Registrations /\ Phases /\ Memory
      /\ k \in Nat /\ reg \subseteq 1 .. NGroups
  BY DEF RuntimeInv, TypeOK, Group
<1>5. CASE ModuleExit
  <2>1. /\ mpc = "running" /\ mpc' \in {"done", "stop", "unregister"} /\ k' = NGroups
        /\ UNCHANGED <<session_state, failing, reg, waiting, contexts, globals>>
    BY <1>5 DEF ModuleExit
  <2>3. TypeOK'
    BY <1>5, <1>3, <1>4 DEF TypeOK, SessionState, ModuleExit
  <2>4. Registrations'
    BY <1>4, <2>1 DEF Registrations
  <2>5. Phases'
    BY <1>2, <1>3, <1>4, <2>1 DEF Phases, NotYet
  <2>6. Memory'
    BY <1>2, <1>4, <2>1 DEF Memory, AllThere
  <2> QED
    BY <1>2, <2>3, <2>4, <2>5, <2>6 DEF RuntimeInv
<1>6. CASE SetStopping
  <2>1. /\ mpc = "stop" /\ mpc' = "unregister" /\ session_state' = "STOPPING"
        /\ UNCHANGED <<k, failing, reg, waiting, contexts, globals>>
    BY <1>6 DEF SetStopping
  <2>3. TypeOK'
    BY <1>6, <1>3, <1>4 DEF TypeOK, SessionState, SetStopping
  <2>4. Registrations'
    BY <1>4, <2>1 DEF Registrations
  <2>5. Phases'
    BY <1>2, <1>3, <1>4, <2>1 DEF Phases, NotYet
  <2>6. Memory'
    BY <1>2, <1>4, <2>1 DEF Memory, AllThere
  <2> QED
    BY <1>2, <2>3, <2>4, <2>5, <2>6 DEF RuntimeInv
<1>7. CASE Unregister
  <2>1. /\ mpc = "unregister" /\ mpc' = "drain" /\ k >= 1 /\ reg' = reg \ {k}
        /\ UNCHANGED <<session_state, k, failing, contexts, globals>>
    BY <1>7 DEF Unregister
  <2>3. TypeOK'
    BY <1>7, <1>3, <1>4 DEF TypeOK, SessionState, Unregister
  <2>4. Registrations'
    BY <1>4, <2>1 DEF Registrations
  <2>5. Phases'
    BY <1>2, <1>3, <1>4, <2>1 DEF Phases, NotYet
  <2>6. Memory'
    BY <1>2, <1>4, <2>1 DEF Memory, AllThere
  <2> QED
    BY <1>2, <2>3, <2>4, <2>5, <2>6 DEF RuntimeInv
<1>8. CASE Drained
  <2>1. /\ mpc = "drain" /\ mpc' = "unregister" /\ k' = k - 1
        /\ UNCHANGED <<session_state, failing, reg, waiting, contexts, globals>>
    BY <1>8 DEF Drained
  <2>2. k - 1 \in Nat
    BY <1>4, <2>1 DEF Registrations
  <2>3. TypeOK'
    BY <1>8, <1>3, <1>4, <2>2 DEF TypeOK, Drained
  <2>4. Registrations'
    BY <1>4, <2>1 DEF Registrations
  <2>5. Phases'
    BY <1>2, <1>3, <1>4, <2>1 DEF Phases, NotYet
  <2>6. Memory'
    BY <1>2, <1>4, <2>1 DEF Memory, AllThere
  <2> QED
    BY <1>2, <2>3, <2>4, <2>5, <2>6 DEF RuntimeInv
<1>9. CASE UnregisterDone
  <2>1. /\ mpc = "unregister" /\ k = 0 /\ mpc' = "end" /\ k' = 1
        /\ UNCHANGED <<session_state, failing, reg, waiting, contexts, globals>>
    BY <1>9 DEF UnregisterDone
  <2>3. TypeOK'
    BY <1>9, <1>3, <1>4 DEF TypeOK, SessionState, UnregisterDone
  <2>4. Registrations'
    BY <1>4, <2>1 DEF Registrations
  <2>5. Phases'
    BY <1>2, <1>3, <1>4, <2>1 DEF Phases, NotYet
  <2>6. Memory'
    BY <1>2, <1>4, <2>1 DEF Memory, AllThere
  <2> QED
    BY <1>2, <2>3, <2>4, <2>5, <2>6 DEF RuntimeInv
<1>10. CASE EndDone
  <2>1. /\ mpc = "end" /\ ~BeRuns /\ mpc' = "error" /\ k' = 1
        /\ UNCHANGED <<session_state, failing, reg, waiting, contexts, globals>>
    BY <1>10 DEF EndDone, EndLoop
  <2>3. TypeOK'
    BY <1>10, <1>3, <1>4 DEF TypeOK, SessionState, EndDone, EndLoop
  <2>4. Registrations'
    BY <1>4, <2>1 DEF Registrations
  <2>5. Phases'
    BY <1>2, <1>3, <1>4, <2>1 DEF Phases, NotYet
  <2>6. Memory'
    BY <1>2, <1>4, <2>1 DEF Memory, AllThere
  <2> QED
    BY <1>2, <2>3, <2>4, <2>5, <2>6 DEF RuntimeInv
<1>11. CASE ErrorDone
  <2>1. /\ mpc = "error" /\ ~BeRuns /\ k' = 1
        /\ mpc' = IF failing THEN "out" ELSE "sync1"
        /\ UNCHANGED <<session_state, failing, reg, waiting, contexts, globals>>
    BY <1>11 DEF ErrorDone, EndLoop
  <2>3. TypeOK'
    BY <1>11, <1>3, <1>4 DEF TypeOK, SessionState, ErrorDone, EndLoop
  <2>4. Registrations'
    BY <1>4, <2>1 DEF Registrations
  <2>5. Phases'
    BY <1>2, <1>3, <1>4, <2>1 DEF Phases, NotYet
  <2>6. Memory'
    BY <1>2, <1>4, <2>1 DEF Memory, AllThere
  <2> QED
    BY <1>2, <2>3, <2>4, <2>5, <2>6 DEF RuntimeInv
<1>12. CASE Sync1
  <2>1. /\ mpc = "sync1" /\ mpc' = "sync1wait"
        /\ UNCHANGED <<session_state, k, failing, reg, contexts, globals>>
    BY <1>12 DEF Sync1, SyncStart
  <2>3. TypeOK'
    BY <1>12, <1>3, <1>4 DEF TypeOK, SessionState, Sync1, SyncStart
  <2>4. Registrations'
    BY <1>4, <2>1 DEF Registrations
  <2>5. Phases'
    BY <1>2, <1>3, <1>4, <2>1 DEF Phases, NotYet
  <2>6. Memory'
    BY <1>2, <1>4, <2>1 DEF Memory, AllThere
  <2> QED
    BY <1>2, <2>3, <2>4, <2>5, <2>6 DEF RuntimeInv
<1>13. CASE Sync1Done
  <2>1. /\ mpc = "sync1wait" /\ mpc' = "holdon"
        /\ UNCHANGED <<session_state, k, failing, reg, waiting, contexts, globals>>
    BY <1>13 DEF Sync1Done
  <2>3. TypeOK'
    BY <1>13, <1>3, <1>4, ZenonT(30) DEF TypeOK, SessionState, Sync1Done
  <2>4. Registrations'
    BY <1>4, <2>1 DEF Registrations
  <2>5. Phases'
    BY <1>2, <1>3, <1>4, <2>1 DEF Phases, NotYet
  <2>6. Memory'
    BY <1>2, <1>4, <2>1 DEF Memory, AllThere
  <2> QED
    BY <1>2, <2>3, <2>4, <2>5, <2>6 DEF RuntimeInv
<1>14. CASE \E c \in Cpu : Scan(c)
  <2>1. /\ mpc = "holdon" /\ mpc' = "holdon"
        /\ UNCHANGED <<session_state, k, failing, reg, waiting, contexts, globals>>
    BY <1>14 DEF Scan
  <2>3. TypeOK'
    BY <1>14, <1>3, <1>4 DEF TypeOK, SessionState, Scan
  <2>4. Registrations'
    BY <1>4, <2>1 DEF Registrations
  <2>5. Phases'
    BY <1>2, <1>3, <1>4, <2>1 DEF Phases, NotYet
  <2>6. Memory'
    BY <1>2, <1>4, <2>1 DEF Memory, AllThere
  <2> QED
    BY <1>2, <2>3, <2>4, <2>5, <2>6 DEF RuntimeInv
<1>15. CASE ScanDone
  <2>1. /\ mpc = "holdon" /\ mpc' \in {"holdon", "sync2"}
        /\ UNCHANGED <<session_state, k, failing, reg, waiting, contexts, globals>>
    BY <1>15 DEF ScanDone
  <2>3. TypeOK'
    BY <1>15, <1>3, <1>4, ZenonT(30) DEF TypeOK, SessionState, ScanDone
  <2>4. Registrations'
    BY <1>4, <2>1 DEF Registrations
  <2>5. Phases'
    BY <1>2, <1>3, <1>4, <2>1 DEF Phases, NotYet
  <2>6. Memory'
    BY <1>2, <1>4, <2>1 DEF Memory, AllThere
  <2> QED
    BY <1>2, <2>3, <2>4, <2>5, <2>6 DEF RuntimeInv
<1>16. CASE Sync2
  <2>1. /\ mpc = "sync2" /\ mpc' = "fini"
        /\ waiting' = {h \in Handler : Active(h)}
        /\ UNCHANGED <<session_state, k, failing, reg, contexts, globals>>
    BY <1>16 DEF Sync2, SyncStart
  <2>3. TypeOK'
    BY <1>16, <1>3, <1>4 DEF TypeOK, SessionState, Sync2, SyncStart
  <2>4. Registrations'
    BY <1>4, <2>1 DEF Registrations
  <2>5. Phases'
    BY <1>2, <1>3, <1>4, <2>1 DEF Phases, NotYet
  <2>6. Memory'
    BY <1>2, <1>4, <2>1 DEF Memory, AllThere
  <2> QED
    BY <1>2, <2>3, <2>4, <2>5, <2>6 DEF RuntimeInv
<1>17. CASE Fini
  <2>1. /\ mpc = "fini" /\ waiting = {} /\ mpc' = "done"
        /\ UNCHANGED <<session_state, k, failing, reg, waiting>>
    BY <1>17 DEF Fini, Free
  <2>3. TypeOK'
    BY <1>17, <1>3, <1>4, ZenonT(30) DEF TypeOK, SessionState, Fini, Free
  <2>4. Registrations'
    BY <1>4, <2>1 DEF Registrations
  <2>5. Phases'
    BY <1>2, <1>3, <1>4, <2>1 DEF Phases, NotYet
  <2>6. Memory'
    BY <1>2, <1>4, <2>1 DEF Memory, AllThere, Registrations, AllIdle
  <2> QED
    BY <1>2, <2>3, <2>4, <2>5, <2>6 DEF RuntimeInv
<1>18. CASE Out
  <2>1. /\ mpc = "out" /\ mpc' = "outwait"
        /\ UNCHANGED <<session_state, k, failing, reg, contexts>>
    BY <1>18 DEF Out, SyncStart
  <2>3. TypeOK'
    BY <1>18, <1>3, <1>4, ZenonT(30) DEF TypeOK, SessionState, Out, SyncStart
  <2>4. Registrations'
    BY <1>4, <2>1 DEF Registrations
  <2>5. Phases'
    BY <1>2, <1>3, <1>4, <2>1 DEF Phases, NotYet
  <2>6. Memory'
    BY <1>2, <1>4, <2>1 DEF Memory, AllThere
  <2> QED
    BY <1>2, <2>3, <2>4, <2>5, <2>6 DEF RuntimeInv
<1>19. CASE OutDone
  <2>1. /\ mpc = "outwait" /\ mpc' = "failed"
        /\ UNCHANGED <<session_state, k, failing, reg, waiting>>
    BY <1>19 DEF OutDone, Free
  <2>3. TypeOK'
    BY <1>19, <1>3, <1>4, ZenonT(30) DEF TypeOK, SessionState, OutDone, Free
  <2>4. Registrations'
    BY <1>4, <2>1 DEF Registrations
  <2>5. Phases'
    BY <1>2, <1>3, <1>4, <2>1 DEF Phases, NotYet
  <2>6. Memory'
    BY <1>2, <1>4, <2>1 DEF Memory, AllThere
  <2> QED
    BY <1>2, <2>3, <2>4, <2>5, <2>6 DEF RuntimeInv
<1> QED
  BY <1>5, <1>6, <1>7, <1>8, <1>9, <1>10, <1>11, <1>12, <1>13, <1>14, <1>15,
     <1>16, <1>17, <1>18, <1>19, ZenonT(30) DEF QuietExit

-----------------------------------------------------------------------------
\* The parts of a handler activation.
LEMMA HandlerParts ==
  \A h \in Handler : h[1] \in Cpu /\ h[2] \in {1, 2} /\ h = <<h[1], h[2]>>
BY DEF Handler

\* A step of a handler keeps the types.
LEMMA HandlerTypes ==
  ASSUME RuntimeInv, NEW h \in Handler, HandlerStep(h)
  PROVE  TypeOK'
<1> USE RuntimeAssumption DEF RuntimeInv
<1>1. CASE LowStack(h)
  BY <1>1, HandlerParts DEF TypeOK, LowStack, Goto, moduleVars, SessionState
<1>2. CASE CheckState(h)
  BY <1>2, HandlerParts DEF TypeOK, CheckState, Goto, moduleVars, SessionState
<1>3. CASE Claim(h)
  <2>1. busy' \in [Cpu -> 0 .. 1] /\ skipped_count' \in Nat
    BY <1>3, HandlerParts DEF TypeOK, Claim
  <2>2. pc' = [pc EXCEPT ![h] = "body"] \/ pc' = [pc EXCEPT ![h] = "tail"]
    BY <1>3 DEF Claim, Goto
  <2> QED
    BY <1>3, <2>1, <2>2 DEF TypeOK, Claim, moduleVars
<1>4. CASE Body(h)
  <2>1. pc' = [pc EXCEPT ![h] = "after"] \/ pc' = [pc EXCEPT ![h] = "overload"]
    BY <1>4 DEF Body, Goto
  <2>2. PICK err, exits, nolock \in BOOLEAN :
          /\ last_error' = [last_error EXCEPT ![h] = err]
          /\ skipped_count' = IF nolock THEN skipped_count + 1 ELSE skipped_count
          /\ IF exits THEN RequestExit("exit") ELSE UNCHANGED <<exit_flag, cause>>
    BY <1>4, ZenonT(30) DEF Body
  <2>3. /\ last_error' \in [Handler -> BOOLEAN] /\ skipped_count' \in Nat
    BY <2>2 DEF TypeOK
  <2>4. /\ exit_flag' \in BOOLEAN
        /\ cause' \in {"none", "exit", "user", "error", "overload"}
    BY <2>2, ZenonT(30) DEF TypeOK, RequestExit
  <2> QED
    BY <1>4, <2>1, <2>3, <2>4 DEF TypeOK, Body, moduleVars
<1>5. CASE Overload(h)
  BY <1>5, HandlerParts DEF TypeOK, Overload, Goto, moduleVars, SessionState, RequestExit
<1>6. CASE OverloadState(h)
  BY <1>6, HandlerParts DEF TypeOK, OverloadState, Goto, moduleVars, SessionState
<1>7. CASE CountError(h)
  BY <1>7, HandlerParts DEF TypeOK, CountError, Goto, moduleVars, SessionState
<1>8. CASE Judge(h)
  <2>1. pc' = [pc EXCEPT ![h] = "release"]
    BY <1>8 DEF Judge, Goto
  <2>2. /\ session_state' \in SessionState /\ exit_flag' \in BOOLEAN
        /\ cause' \in {"none", "exit", "user", "error", "overload"}
        /\ tripped' \in BOOLEAN
    <3>1. CASE error_count > MAXERRORS
      BY <1>8, <3>1 DEF Judge, RequestExit, TypeOK, SessionState
    <3>2. CASE ~(error_count > MAXERRORS)
      BY <1>8, <3>2 DEF Judge, TypeOK
    <3> QED
      BY <3>1, <3>2
  <2> QED
    BY <1>8, <2>1, <2>2 DEF Judge, moduleVars, TypeOK
<1>9. CASE Release(h)
  BY <1>9, HandlerParts DEF TypeOK, Release, Goto, moduleVars, SessionState, OneUser, Inside
<1>10. CASE Epilogue(h)
  BY <1>10, HandlerParts DEF TypeOK, Epilogue, Goto, moduleVars, SessionState, Return
<1>11. CASE SkipState(h)
  BY <1>11, HandlerParts DEF TypeOK, SkipState, Goto, moduleVars, SessionState, Return, RequestExit
<1> QED
  BY <1>1, <1>2, <1>3, <1>4, <1>5, <1>6, <1>7, <1>8, <1>9, <1>10, <1>11 DEF HandlerStep

\* A step of a handler keeps its context to one user: Claim takes it only
\* when nobody has it, and only its user gives it back.
LEMMA HandlerOneUser ==
  ASSUME RuntimeInv, NEW h \in Handler, HandlerStep(h)
  PROVE  OneUser'
<1> USE DEF RuntimeInv
<1>1. CASE Claim(h) /\ busy[h[1]] = 0
  <2>1. /\ pc' = [pc EXCEPT ![h] = "body"]
        /\ busy' = [busy EXCEPT ![h[1]] = 1]
    BY <1>1, HandlerParts DEF Claim, Goto, TypeOK
  <2>2. \A i \in Handler : i[1] = h[1] => ~Inside(i)
    BY <1>1 DEF OneUser
  <2>3. \A i \in Handler : Inside(i)' <=> Inside(i) \/ i = h
    BY <2>1 DEF Inside, TypeOK
  <2> QED
    BY <2>1, <2>2, <2>3, HandlerParts DEF OneUser, TypeOK
<1>2. CASE Release(h)
  <2>1. /\ pc' = [pc EXCEPT ![h] = "tail"]
        /\ busy' = [busy EXCEPT ![h[1]] = 0]
        /\ Inside(h)
    <3>1. pc[h] = "release" /\ busy' = [busy EXCEPT ![h[1]] = busy[h[1]] - 1]
      BY <1>2 DEF Release
    <3>2. Inside(h)
      BY <3>1 DEF Inside
    <3>3. busy[h[1]] - 1 = 0
      BY <3>2 DEF OneUser
    <3> QED
      BY <1>2, <3>1, <3>2, <3>3, ZenonT(30) DEF Release, Goto
  <2>2. \A i \in Handler : Inside(i)' <=> Inside(i) /\ i # h
    BY <2>1 DEF Inside, TypeOK
  <2> QED
    BY <2>1, <2>2, HandlerParts DEF OneUser, TypeOK
<1>3. CASE ~(Claim(h) /\ busy[h[1]] = 0) /\ ~Release(h)
  <2>1. busy' = busy /\ \A i \in Handler : Inside(i)' <=> Inside(i)
    BY <1>3 DEF HandlerStep, LowStack, CheckState, Claim, Body, Overload, OverloadState,
         CountError, Judge, Epilogue, SkipState, Return, Goto, Inside, TypeOK
  <2> QED
    BY <2>1 DEF OneUser
<1> QED
  BY <1>1, <1>2, <1>3

\* A step of a handler leaves the registrations alone.
LEMMA HandlerFrame ==
  ASSUME NEW h \in Handler, HandlerStep(h)
  PROVE  /\ UNCHANGED <<mpc, k, failing, reg, contexts, globals, grp, want>>
         /\ waiting' \in {waiting, waiting \ {h}}
         /\ \/ waiting' = waiting
            \/ pc' = [pc EXCEPT ![h] = "idle"]
BY DEF HandlerStep, LowStack, CheckState, Claim, Body, Overload, OverloadState,
       CountError, Judge, Release, Epilogue, SkipState, Return, Goto, moduleVars

\* A step of a handler gets past the prologue only in the state it wants.
LEMMA HandlerMoves ==
  ASSUME TypeOK, NEW h \in Handler, HandlerStep(h)
  PROVE  /\ Active(h)
         /\ \A i \in Handler : i # h => pc'[i] = pc[i]
         /\ pc[h] \in Outside => pc'[h] \in Outside \/ session_state = want[h]
         /\ session_state' \in {session_state, "ERROR"}
<1>1. Active(h)
  BY DEF HandlerStep, LowStack, CheckState, Claim, Body, Overload, OverloadState,
         CountError, Judge, Release, Epilogue, SkipState, Active
<1>2. \A i \in Handler : i # h => pc'[i] = pc[i]
  BY DEF HandlerStep, LowStack, CheckState, Claim, Body, Overload, OverloadState,
         CountError, Judge, Release, Epilogue, SkipState, Return, Goto, TypeOK
<1>3. pc[h] \in Outside => pc'[h] \in Outside \/ session_state = want[h]
  BY DEF HandlerStep, LowStack, CheckState, Claim, Body, Overload, OverloadState,
         CountError, Judge, Release, Epilogue, SkipState, Return, Goto, TypeOK, Outside
<1>4. session_state' \in {session_state, "ERROR"}
  BY DEF HandlerStep, LowStack, CheckState, Claim, Body, Overload, OverloadState,
         CountError, Judge, Release, Epilogue, SkipState
<1> QED
  BY <1>1, <1>2, <1>3, <1>4

\* A step of a handler keeps the invariant.
LEMMA HandlerKeeps ==
  ASSUME RuntimeInv, NEW h \in Handler, HandlerStep(h)
  PROVE  RuntimeInv'
<1>1. TypeOK' /\ OneUser'
  BY HandlerTypes, HandlerOneUser
<1>2. /\ UNCHANGED <<mpc, k, failing, reg, contexts, globals, grp, want>>
      /\ waiting' \in {waiting, waiting \ {h}}
      /\ waiting' = waiting \/ pc' = [pc EXCEPT ![h] = "idle"]
  BY HandlerFrame
<1>3. /\ TypeOK /\ Active(h)
      /\ \A i \in Handler : i # h => pc'[i] = pc[i]
      /\ pc[h] \in Outside => pc'[h] \in Outside \/ session_state = want[h]
      /\ session_state' \in {session_state, "ERROR"}
  BY HandlerMoves DEF RuntimeInv
<1>4. Registrations'
  BY <1>2 DEF Registrations, RuntimeInv
<1>5. \A i \in Handler : Active(i)' => Active(i)
  BY <1>3 DEF Active
<1>6. Phases'
  <2>1. NotYet' = NotYet
    BY <1>2 DEF NotYet
  <2>2. NotYet => session_state' # "RUNNING"
    BY <1>3 DEF Phases, RuntimeInv
  <2>3. NotYet => \A i \in Handler : grp[i] # Be => pc'[i] \in Outside
    BY <1>3 DEF Phases, RuntimeInv
  <2>4. \A i \in Handler : Active(i)' /\ grp'[i] # Be => want'[i] = "RUNNING"
    BY <1>2, <1>5 DEF Phases, RuntimeInv
  <2>5. BeRuns' => BeRuns
    BY <1>2, <1>5 DEF BeRuns
  <2>6. failing => mpc \in {"unregister", "drain", "end", "error", "out", "outwait", "failed"}
    BY DEF Phases, RuntimeInv
  <2>7. mpc' \notin {"begin", "end", "error"} => ~BeRuns'
    BY <1>2, <2>5 DEF Phases, RuntimeInv
  <2> QED
    BY <1>2, <2>1, <2>2, <2>3, <2>4, <2>6, <2>7 DEF Phases
<1>7. Memory'
  <2>1. AllThere' = AllThere
    BY <1>2 DEF AllThere
  <2>2. AllIdle => AllIdle'
    BY <1>5 DEF AllIdle
  <2>3. mpc = "fini" => \A i \in Handler : Active(i)' => i \in waiting'
    BY <1>2, <1>3, <1>5 DEF Memory, RuntimeInv, Active, TypeOK
  <2> QED
    BY <1>2, <2>1, <2>2, <2>3 DEF Memory, RuntimeInv
<1> QED
  BY <1>1, <1>4, <1>6, <1>7 DEF RuntimeInv

\* The start of an activation: it is at its entry, before the prologue.
LEMMA StartMoves ==
  ASSUME TypeOK, OneUser, NEW h \in Handler, NEW g \in Group \cup {Be},
         NEW s \in SessionState, StartActivation(h, g, s)
  PROVE  /\ pc' = [pc EXCEPT ![h] = "entry"] /\ pc[h] = "idle"
         /\ pc' \in [Handler -> {"idle", "entry", "claim", "body", "overload", "toerror",
                                "after", "judge", "release", "tail", "toskip"}]
         /\ grp' = [grp EXCEPT ![h] = g] /\ grp' \in [Handler -> Group \cup {Be}]
         /\ want' = [want EXCEPT ![h] = s] /\ want' \in [Handler -> SessionState]
         /\ last_error' \in [Handler -> BOOLEAN]
         /\ busy' = busy
         /\ OneUser'
<1>1. /\ pc' = [pc EXCEPT ![h] = "entry"] /\ pc[h] = "idle"
      /\ pc' \in [Handler -> {"idle", "entry", "claim", "body", "overload", "toerror",
                             "after", "judge", "release", "tail", "toskip"}]
  BY DEF StartActivation, Goto, Active, TypeOK
<1>2. /\ grp' = [grp EXCEPT ![h] = g] /\ grp' \in [Handler -> Group \cup {Be}]
      /\ want' = [want EXCEPT ![h] = s] /\ want' \in [Handler -> SessionState]
      /\ last_error' \in [Handler -> BOOLEAN]
      /\ busy' = busy
  BY DEF StartActivation, TypeOK
<1>3. \A i \in Handler : Inside(i)' <=> Inside(i)
  BY <1>1 DEF Inside, TypeOK
<1>4. OneUser'
  BY <1>2, <1>3 DEF OneUser
<1> QED
  BY <1>1, <1>2, <1>4

\* A probe hit keeps the invariant: its group is registered, so memory stays.
LEMMA HitKeeps ==
  ASSUME RuntimeInv, NEW h \in Handler, NEW g \in Group, Hit(h, g)
  PROVE  RuntimeInv'
<1> USE RuntimeAssumption
<1>1. StartActivation(h, g, "RUNNING") /\ "RUNNING" \in SessionState /\ g # Be
  BY DEF Hit, SessionState, Group, Be
<1>2. TypeOK /\ OneUser
  BY DEF RuntimeInv
<1>3. /\ pc' = [pc EXCEPT ![h] = "entry"] /\ pc[h] = "idle"
      /\ pc' \in [Handler -> {"idle", "entry", "claim", "body", "overload", "toerror",
                             "after", "judge", "release", "tail", "toskip"}]
      /\ grp' = [grp EXCEPT ![h] = g] /\ grp' \in [Handler -> Group \cup {Be}]
      /\ want' = [want EXCEPT ![h] = "RUNNING"] /\ want' \in [Handler -> SessionState]
      /\ last_error' \in [Handler -> BOOLEAN]
      /\ busy' = busy
      /\ OneUser'
  BY <1>1, <1>2, StartMoves
<1>4. /\ UNCHANGED <<session_state, error_count, skipped_count, exit_flag, mpc, k, failing,
                     reg, waiting, scan, holdon, contexts, globals, cause, tripped>>
      /\ hits' = hits + 1
  BY DEF Hit, moduleVars
<1>5. TypeOK'
  BY <1>2, <1>3, <1>4 DEF TypeOK
<1>6. Registrations'
  BY <1>4 DEF RuntimeInv, Registrations
<1>7. Phases'
  <2>1. BeRuns' => BeRuns
    BY <1>1, <1>2, <1>3 DEF BeRuns, Active, TypeOK
  <2>2. NotYet' = NotYet
    BY <1>4 DEF NotYet
  <2>3. NotYet => \A i \in Handler : grp'[i] # Be => pc'[i] \in Outside
    BY <1>2, <1>3 DEF RuntimeInv, Phases, Outside, TypeOK
  <2>4. \A i \in Handler : Active(i)' /\ grp'[i] # Be => want'[i] = "RUNNING"
    BY <1>2, <1>3 DEF RuntimeInv, Phases, Active, TypeOK
  <2> QED
    BY <1>4, <2>1, <2>2, <2>3, <2>4 DEF RuntimeInv, Phases
<1>8. Memory'
  <2>1. g \in reg \/ mpc = "register"
    BY DEF Hit
  <2>2. (mpc \notin {"fini", "unstarted"} /\ reg # {}) \/ mpc = "register"
    BY <2>1 DEF RuntimeInv, Registrations
  <2>3. AllThere' = AllThere
    BY <1>4 DEF AllThere
  <2> QED
    BY <1>4, <2>2, <2>3 DEF RuntimeInv, Memory
<1> QED
  BY <1>3, <1>5, <1>6, <1>7, <1>8 DEF RuntimeInv

\* A begin, end or error probe starts from its loop.
LEMMA RunBeKeeps ==
  ASSUME RuntimeInv, NEW loop \in {"begin", "end", "error"}, NEW n \in Nat,
         NEW s \in SessionState, RunBe(loop, n, s)
  PROVE  RuntimeInv'
<1> USE RuntimeAssumption
<1>1. PICK c \in Cpu : StartActivation(<<c, 1>>, Be, s)
  BY DEF RunBe
<1> DEFINE h == <<c, 1>>
<1>2. TypeOK /\ OneUser /\ h \in Handler
  BY DEF RuntimeInv, Handler
<1>3. /\ mpc = loop /\ k' = k + 1
      /\ UNCHANGED <<session_state, error_count, skipped_count, exit_flag, mpc, failing, reg,
                     waiting, scan, holdon, contexts, globals, hits, cause, tripped>>
  BY DEF RunBe, counters, historyVars
<1> HIDE DEF h
<1>4. /\ pc' = [pc EXCEPT ![h] = "entry"] /\ pc[h] = "idle"
      /\ pc' \in [Handler -> {"idle", "entry", "claim", "body", "overload", "toerror",
                             "after", "judge", "release", "tail", "toskip"}]
      /\ grp' = [grp EXCEPT ![h] = Be] /\ grp' \in [Handler -> Group \cup {Be}]
      /\ want' = [want EXCEPT ![h] = s] /\ want' \in [Handler -> SessionState]
      /\ last_error' \in [Handler -> BOOLEAN]
      /\ busy' = busy
      /\ OneUser'
  BY <1>1, <1>2, StartMoves DEF h
<1>5. TypeOK'
  BY <1>2, <1>3, <1>4 DEF TypeOK
<1>6. Registrations'
  BY <1>3 DEF RuntimeInv, Registrations
<1>7. Phases'
  <2>1. NotYet' = NotYet
    BY <1>3 DEF NotYet
  <2>2. \A i \in Handler : grp'[i] # Be =>
          grp[i] # Be /\ pc'[i] = pc[i] /\ want'[i] = want[i]
    BY <1>2, <1>4 DEF TypeOK
  <2> QED
    BY <1>3, <2>1, <2>2 DEF RuntimeInv, Phases, Active
<1>8. Memory'
  <2>1. AllThere' = AllThere
    BY <1>3 DEF AllThere
  <2> QED
    BY <1>3, <2>1 DEF RuntimeInv, Memory
<1> QED
  BY <1>4, <1>5, <1>6, <1>7, <1>8 DEF RuntimeInv

-----------------------------------------------------------------------------
\* The invariant that these facts rest on holds in every reachable
\* state of the generated module's life, and with it its types (TypeOK).
THEOREM RuntimeInvariant == Spec => []RuntimeInv
<1> USE RuntimeAssumption
<1>1. Init => RuntimeInv
  <2> SUFFICES ASSUME Init PROVE RuntimeInv
    OBVIOUS
  <2>1. TypeOK
    <3>1. /\ contexts \in [Cpu -> BOOLEAN] /\ busy \in [Cpu -> 0 .. 1]
          /\ last_error \in [Handler -> BOOLEAN]
      BY DEF Init
    <3>2. /\ grp \in [Handler -> Group \cup {Be}] /\ want \in [Handler -> SessionState]
          /\ pc \in [Handler -> {"idle", "entry", "claim", "body", "overload", "toerror",
                                "after", "judge", "release", "tail", "toskip"}]
      BY DEF Init, SessionState
    <3> QED
      BY <3>1, <3>2, ZenonT(30) DEF Init, TypeOK, SessionState
  <2>2. OneUser
    BY HandlerParts DEF Init, OneUser, Inside
  <2>3. Registrations
    BY DEF Init, Registrations
  <2>4. Phases
    BY DEF Init, Phases, BeRuns, Active
  <2>5. Memory
    BY DEF Init, Memory, AllIdle, Active
  <2> QED
    BY <2>1, <2>2, <2>3, <2>4, <2>5 DEF RuntimeInv
<1>2. RuntimeInv /\ [Next]_vars => RuntimeInv'
  <2> SUFFICES ASSUME RuntimeInv, [Next]_vars PROVE RuntimeInv'
    OBVIOUS
  <2>1. CASE InitStep
    <3>1. CASE RunBegin
      BY <3>1, RunBeKeeps DEF RunBegin, SessionState
    <3> QED
      BY <2>1, <3>1, InitKeeps DEF InitStep, QuietInit
  <2>2. CASE ModuleExit
    BY <2>2, ExitKeeps DEF QuietExit
  <2>3. CASE ExitStep
    <3>1. CASE RunEnd
      BY <3>1, RunBeKeeps DEF RunEnd, SessionState
    <3>2. CASE RunError
      BY <3>2, RunBeKeeps DEF RunError, SessionState
    <3> QED
      BY <2>3, <3>1, <3>2, ExitKeeps DEF ExitStep, QuietExit
  <2>4. ASSUME NEW h \in Handler, NEW g \in Group, Hit(h, g) PROVE RuntimeInv'
    BY <2>4, HitKeeps
  <2>5. ASSUME NEW h \in Handler, HandlerStep(h) PROVE RuntimeInv'
    BY <2>5, HandlerKeeps
  <2>6. CASE UNCHANGED vars
    <3>1. /\ UNCHANGED <<session_state, error_count, skipped_count, exit_flag, mpc, k,
                         failing, reg, waiting, scan, holdon, contexts, globals,
                         pc, grp, want, last_error, busy, hits, cause, tripped>>
          /\ UNCHANGED handlerVars
      BY <2>6 DEF vars, moduleVars, handlerVars
    <3>2. /\ OneUser' /\ BeRuns' = BeRuns /\ AllIdle' = AllIdle
          /\ \A h \in Handler : Active(h)' = Active(h)
      BY <3>1, QuietHandlers DEF RuntimeInv
    <3>3. TypeOK'
      BY <3>1 DEF RuntimeInv, TypeOK
    <3>4. Registrations'
      BY <3>1 DEF RuntimeInv, Registrations
    <3>5. Phases'
      BY <3>1, <3>2 DEF RuntimeInv, Phases, NotYet
    <3>6. Memory'
      BY <3>1, <3>2 DEF RuntimeInv, Memory, AllThere
    <3> QED
      BY <3>2, <3>3, <3>4, <3>5, <3>6 DEF RuntimeInv
  <2> QED
    BY <2>1, <2>2, <2>3, <2>4, <2>5, <2>6 DEF Next
<1> QED
  BY <1>1, <1>2, PTL DEF Spec

\* contexts[c]->busy is the number of activations that use the context of a
\* CPU, and that is at most one (property ContextOwned).
THEOREM ContextsOwned == Spec => []ContextOwned
<1>1. RuntimeInv => ContextOwned
  <2> SUFFICES ASSUME RuntimeInv, NEW c \in Cpu
               PROVE  busy[c] = Cardinality({h \in Handler : h[1] = c /\ Inside(h)})
    BY DEF ContextOwned
  <2> DEFINE users == {h \in Handler : h[1] = c /\ Inside(h)}
  <2>1. CASE busy[c] = 0
    <3>1. users = {}
      BY <2>1 DEF RuntimeInv, OneUser
    <3> QED
      BY <2>1, <3>1, FS_EmptySet
  <2>2. CASE busy[c] = 1
    <3>1. PICK h \in Handler : h[1] = c /\ Inside(h)
      BY <2>2 DEF RuntimeInv, OneUser
    <3>2. users = {h}
      BY <3>1 DEF RuntimeInv, OneUser
    <3> QED
      BY <2>2, <3>2, FS_Singleton
  <2> QED
    BY <2>1, <2>2 DEF RuntimeInv, TypeOK
<1> QED
  BY <1>1, RuntimeInvariant, PTL

\* No handler touches its context or a global after module exit, or the error
\* path of module init, has freed them (property MemorySafe).
THEOREM MemorySafety == Spec => []MemorySafe
<1>1. RuntimeInv => MemorySafe
  <2> SUFFICES ASSUME RuntimeInv, NEW h \in Handler
               PROVE  /\ pc[h] = "claim" \/ Inside(h) => contexts[h[1]]
                      /\ pc[h] = "body" => globals
    BY DEF MemorySafe
  <2>1. SUFFICES ASSUME pc[h] = "claim" \/ Inside(h) PROVE AllThere
    BY HandlerParts DEF AllThere, Inside
  <2>2. Active(h) /\ pc[h] \notin Outside
    BY <2>1 DEF Active, Inside, Outside
  <2>3. mpc \notin {"unstarted", "out", "outwait", "failed"}
    <3>1. mpc # "unstarted"
      BY <2>2 DEF RuntimeInv, Memory, AllIdle
    <3>2. ASSUME mpc \in {"out", "outwait", "failed"} PROVE FALSE
      BY <2>2, <3>2 DEF RuntimeInv, Phases, NotYet, BeRuns
    <3> QED
      BY <3>1, <3>2
  <2> QED
    BY <2>2, <2>3 DEF RuntimeInv, Memory, AllIdle
<1> QED
  BY <1>1, RuntimeInvariant, PTL

-----------------------------------------------------------------------------
\* Module exit has got as far as group k: of the groups it waits for, only
\* those before it have handlers left.
Waited ==
  ~failing =>
    /\ mpc = "unregister" =>
         \A i \in Handler : Active(i) /\ grp[i] \in Waits => grp[i] <= k
    /\ mpc = "drain" =>
         \A i \in Handler : Active(i) /\ grp[i] \in Waits => grp[i] < k \/ i \in waiting
    /\ mpc \in {"end", "error"} =>
         \A i \in Handler : Active(i) => grp[i] \notin Waits

\* The shutdown has been asked for, and by something other than an error.
AskedFirst == cause \notin {"none", "error"}

\* Whoever sets the error state first keeps module exit from STOPPING.
ErrorKept ==
  /\ mpc = "unstarted" => cause = "none"
  /\ cause = "error" => session_state = "ERROR" \/ mpc \in {"out", "outwait", "failed"}
  /\ mpc = "stop" \/ session_state = "STOPPING" => AskedFirst
  /\ \A h \in Handler : pc[h] \notin Outside /\ want[h] = "STOPPING" => AskedFirst

\* The steps of module init and exit that start no probe move no handler.
LEMMA QuietSteps == QuietInit \/ QuietExit => UNCHANGED handlerVars
BY ZenonT(30) DEF QuietInit, ModuleInit, InitFails, BeginDone, Register, RegisterFails,
   Registered, QuietExit, ModuleExit, SetStopping, Unregister, Drained, UnregisterDone,
   EndDone, ErrorDone, EndLoop, Sync1, Sync1Done, Scan, ScanDone, Sync2,
   SyncStart, Fini, Out, OutDone, Free

\* A handler's step only takes handlers away.
LEMMA HandlerWaited ==
  ASSUME RuntimeInv, Waited, NEW h \in Handler, HandlerStep(h)
  PROVE  Waited'
<1>1. /\ UNCHANGED <<mpc, k, failing, grp>>
      /\ waiting' \in {waiting, waiting \ {h}}
      /\ waiting' = waiting \/ pc' = [pc EXCEPT ![h] = "idle"]
  BY HandlerFrame, Zenon
<1>2. TypeOK /\ Active(h) /\ \A i \in Handler : i # h => pc'[i] = pc[i]
  BY HandlerMoves DEF RuntimeInv
<1>3. \A i \in Handler : Active(i)' => Active(i) /\ (i \in waiting => i \in waiting')
  BY <1>1, <1>2 DEF Active, TypeOK
<1> QED
  BY <1>1, <1>3 DEF Waited

\* A hit is of a registered group, which module exit has yet to come to.
LEMMA HitWaited ==
  ASSUME RuntimeInv, Waited, NEW h \in Handler, NEW g \in Group, Hit(h, g)
  PROVE  Waited'
<1> USE RuntimeAssumption
<1>1. /\ UNCHANGED <<mpc, k, failing, reg, waiting>>
      /\ StartActivation(h, g, "RUNNING") /\ "RUNNING" \in SessionState
      /\ g \in reg \/ mpc = "register"
  BY DEF Hit, moduleVars, SessionState
<1>2. pc' = [pc EXCEPT ![h] = "entry"] /\ grp' = [grp EXCEPT ![h] = g]
  BY <1>1, StartMoves DEF RuntimeInv
<1>3. \A i \in Handler : Active(i)' =>
        (i = h /\ grp'[i] = g) \/ (Active(i) /\ grp'[i] = grp[i])
  BY <1>2 DEF Active, RuntimeInv, TypeOK
<1>4. /\ mpc = "unregister" => g <= k
      /\ mpc = "drain" => g < k
      /\ mpc \notin {"end", "error"}
  BY <1>1 DEF RuntimeInv, Registrations, TypeOK, Group
<1> QED
  BY <1>1, <1>3, <1>4 DEF Waited

\* A begin, end or error probe belongs to no group that is waited for.
LEMMA RunBeWaited ==
  ASSUME RuntimeInv, Waited, NEW loop \in {"begin", "end", "error"}, NEW n \in Nat,
         NEW s \in SessionState, RunBe(loop, n, s)
  PROVE  Waited'
<1> USE RuntimeAssumption
<1>1. PICK c \in Cpu : StartActivation(<<c, 1>>, Be, s)
  BY DEF RunBe
<1> DEFINE h == <<c, 1>>
<1>2. mpc = loop /\ UNCHANGED <<mpc, failing, waiting>> /\ h \in Handler
  BY DEF RunBe, Handler
<1> HIDE DEF h
<1>3. pc' = [pc EXCEPT ![h] = "entry"] /\ grp' = [grp EXCEPT ![h] = Be]
  BY <1>1, <1>2, StartMoves DEF RuntimeInv, h
<1>4. \A i \in Handler : Active(i)' => grp'[i] = Be \/ (Active(i) /\ grp'[i] = grp[i])
  <2>1. DOMAIN pc = Handler /\ DOMAIN grp = Handler
    BY Zenon DEF RuntimeInv, TypeOK
  <2> QED
    BY <1>2, <1>3, <2>1 DEF Active
<1>5. Be \notin Waits
  BY DEF Be, Group
<1> QED
  BY <1>2, <1>4, <1>5, Zenon DEF Waited

\* The unregistration of a group is over only when those of its handlers that
\* are waited for are.
LEMMA QuietWaited ==
  ASSUME RuntimeInv, Waited, QuietInit \/ QuietExit
  PROVE  Waited'
<1> USE RuntimeAssumption DEF counters, historyVars
<1>1. UNCHANGED handlerVars
  BY QuietSteps
<1>2. /\ \A i \in Handler : Active(i)' = Active(i)
      /\ UNCHANGED grp
  BY <1>1, QuietHandlers DEF RuntimeInv, handlerVars
<1>3. \A i \in Handler : grp[i] \in Waits => grp[i] \in 1 .. NGroups
  BY Zenon DEF Group
<1>4. k \in Nat /\ NGroups \in Nat
  BY DEF RuntimeInv, TypeOK
<1>5. CASE QuietInit
  <2>1. failing' \/ mpc' \notin {"unregister", "drain", "end", "error"}
    BY <1>5, Zenon DEF QuietInit, ModuleInit, InitFails, BeginDone, EndLoop, Register,
                RegisterFails, Registered
  <2> QED
    BY <2>1 DEF Waited
<1>6. CASE ModuleExit
  <2>1. mpc' \in {"done", "stop", "unregister"} /\ k' = NGroups
    BY <1>6 DEF ModuleExit
  <2> QED
    BY <1>2, <1>3, <2>1 DEF Waited
<1>7. CASE SetStopping
  <2>1. mpc' = "unregister" /\ k' = NGroups
    BY <1>7 DEF SetStopping, RuntimeInv, Registrations
  <2> QED
    BY <1>2, <1>3, <2>1 DEF Waited
<1>8. CASE Unregister
  <2>1. /\ mpc = "unregister" /\ mpc' = "drain" /\ UNCHANGED <<k, failing>>
        /\ k \in Waits => waiting' = {i \in Handler : Active(i) /\ grp[i] = k}
    BY <1>8 DEF Unregister
  <2> QED
    BY <1>2, <1>3, <1>4, <2>1 DEF Waited
<1>9. CASE Drained
  <2>1. mpc = "drain" /\ waiting = {} /\ mpc' = "unregister" /\ k' = k - 1 /\ failing' = failing
    BY <1>9 DEF Drained
  <2> QED
    BY <1>2, <1>3, <1>4, <2>1 DEF Waited
<1>10. CASE UnregisterDone
  <2>1. mpc = "unregister" /\ k = 0 /\ mpc' = "end" /\ failing' = failing
    BY <1>10 DEF UnregisterDone
  <2> QED
    BY <1>2, <1>3, <2>1 DEF Waited
<1>11. CASE EndDone
  <2>1. mpc = "end" /\ mpc' = "error" /\ failing' = failing
    BY <1>11 DEF EndDone, EndLoop
  <2> QED
    BY <1>2, <2>1 DEF Waited
<1>12. CASE \/ ErrorDone \/ Sync1 \/ Sync1Done \/ (\E c \in Cpu : Scan(c)) \/ ScanDone
            \/ Sync2 \/ Fini \/ Out \/ OutDone
  <2>1. mpc' \notin {"unregister", "drain", "end", "error"}
    BY <1>12, Zenon DEF ErrorDone, EndLoop, Sync1, Sync1Done, Scan, ScanDone, Sync2, SyncStart,
                 Fini, Out, OutDone, Free
  <2> QED
    BY <2>1 DEF Waited
<1> QED
  BY <1>5, <1>6, <1>7, <1>8, <1>9, <1>10, <1>11, <1>12, ZenonT(30) DEF QuietExit

\* A begin, end or error probe does not run together with a handler of a group
\* whose unregistration waits (property BeApart), however many groups there
\* are, and wherever module init fails.
THEOREM BeProbesApart == Spec => []BeApart
<1>1. Init => Waited
  BY DEF Init, Waited
<1>2. RuntimeInv /\ Waited /\ [Next]_vars => Waited'
  <2> SUFFICES ASSUME RuntimeInv, Waited, [Next]_vars PROVE Waited'
    OBVIOUS
  <2> USE RuntimeAssumption
  <2>1. CASE RunBegin \/ RunEnd \/ RunError
    BY <2>1, RunBeWaited DEF RunBegin, RunEnd, RunError, SessionState
  <2>2. CASE QuietInit \/ QuietExit
    BY <2>2, QuietWaited
  <2>3. ASSUME NEW h \in Handler, NEW g \in Group, Hit(h, g) PROVE Waited'
    BY <2>3, HitWaited
  <2>4. ASSUME NEW h \in Handler, HandlerStep(h) PROVE Waited'
    BY <2>4, HandlerWaited
  <2>5. CASE UNCHANGED vars
    BY <2>5 DEF vars, moduleVars, handlerVars, Waited, Active
  <2> QED
    BY <2>1, <2>2, <2>3, <2>4, <2>5 DEF Next, InitStep, ExitStep, QuietInit, QuietExit
<1>3. RuntimeInv /\ Waited => BeApart
  <2> SUFFICES ASSUME RuntimeInv, Waited, NEW h \in Handler, NEW i \in Handler,
                      pc[h] = "body", grp[h] = Be, pc[i] = "body", grp[i] \in Waits
               PROVE  FALSE
    BY DEF BeApart
  <2>1. mpc \in {"begin", "end", "error"}
    BY DEF RuntimeInv, Phases, BeRuns, Active
  <2>2. grp[i] # Be /\ Active(i) /\ pc[i] \notin Outside
    BY RuntimeAssumption DEF Be, Group, Active, Outside
  <2>3. ~NotYet
    BY <2>2 DEF RuntimeInv, Phases
  <2> QED
    BY <2>1, <2>2, <2>3 DEF NotYet, Waited
<1> QED
  BY <1>1, <1>2, <1>3, RuntimeInvariant, PTL DEF Spec

-----------------------------------------------------------------------------
\* A step of a handler asks for the exit because of an error only together with
\* the error state, and gets past its prologue only in the state it wants.
LEMMA HandlerCause ==
  ASSUME TypeOK, NEW h \in Handler, HandlerStep(h)
  PROVE  /\ cause # "none" => cause' = cause
         /\ cause' # cause /\ cause' = "error" => session_state' = "ERROR"
<1>1. CASE Body(h)
  <2>1. PICK exits \in BOOLEAN :
          IF exits THEN RequestExit("exit") ELSE UNCHANGED <<exit_flag, cause>>
    BY <1>1, ZenonT(30) DEF Body
  <2> QED
    BY <2>1 DEF RequestExit
<1>2. CASE Judge(h)
  BY <1>2 DEF Judge, RequestExit
<1>3. CASE Overload(h) \/ SkipState(h)
  BY <1>3 DEF Overload, SkipState, RequestExit
<1>4. CASE ~Body(h) /\ ~Judge(h) /\ ~Overload(h) /\ ~SkipState(h)
  BY <1>4, ZenonT(30) DEF HandlerStep, LowStack, CheckState, Claim, OverloadState, CountError, Release,
              Epilogue
<1> QED
  BY <1>1, <1>2, <1>3, <1>4

\* It keeps the first cause and the state that goes with it.
LEMMA HandlerErrorKept ==
  ASSUME RuntimeInv, ErrorKept, NEW h \in Handler, HandlerStep(h)
  PROVE  ErrorKept'
<1>1. UNCHANGED <<mpc, want>>
  BY HandlerFrame
<1>2. /\ TypeOK /\ Active(h)
      /\ \A i \in Handler : i # h => pc'[i] = pc[i]
      /\ pc[h] \in Outside => pc'[h] \in Outside \/ session_state = want[h]
      /\ session_state' \in {session_state, "ERROR"}
  BY HandlerMoves DEF RuntimeInv
<1>3. /\ cause # "none" => cause' = cause
      /\ cause' # cause /\ cause' = "error" => session_state' = "ERROR"
  BY <1>2, HandlerCause
<1>4. mpc # "unstarted"
  BY <1>2 DEF RuntimeInv, Memory, AllIdle
<1>5. AskedFirst => AskedFirst'
  BY <1>3 DEF AskedFirst
<1>6. cause' = "error" => session_state' = "ERROR" \/ mpc' \in {"out", "outwait", "failed"}
  BY <1>1, <1>2, <1>3 DEF ErrorKept
<1>7. mpc' = "stop" \/ session_state' = "STOPPING" => AskedFirst'
  BY <1>1, <1>2, <1>5 DEF ErrorKept
<1>8. ASSUME NEW i \in Handler, pc'[i] \notin Outside, want'[i] = "STOPPING" PROVE AskedFirst'
  BY <1>1, <1>2, <1>5, <1>8 DEF ErrorKept
<1> QED
  BY <1>1, <1>4, <1>6, <1>7, <1>8, Zenon DEF ErrorKept

\* The start of an activation, of whichever group, is before the prologue.
LEMMA StartErrorKept ==
  ASSUME RuntimeInv, ErrorKept, NEW h \in Handler, NEW g \in Group \cup {Be},
         NEW s \in SessionState, StartActivation(h, g, s),
         UNCHANGED <<mpc, session_state, cause>>
  PROVE  ErrorKept'
<1>1. pc' = [pc EXCEPT ![h] = "entry"] /\ want' = [want EXCEPT ![h] = s]
  BY StartMoves DEF RuntimeInv
<1>2. \A i \in Handler : pc'[i] \notin Outside => pc[i] \notin Outside /\ want'[i] = want[i]
  BY <1>1 DEF RuntimeInv, TypeOK, Outside
<1> QED
  BY <1>2 DEF ErrorKept, AskedFirst

\* Module exit goes to STOPPING only from a RUNNING session, and then it has
\* noted its own cause before it writes the state.
LEMMA QuietErrorKept ==
  ASSUME RuntimeInv, ErrorKept, QuietInit \/ QuietExit
  PROVE  ErrorKept'
<1> USE DEF counters, historyVars
<1>1. UNCHANGED handlerVars
  BY QuietSteps
<1>2. UNCHANGED <<pc, want>>
  BY <1>1 DEF handlerVars
<1>3. CASE ModuleInit
  <2>1. mpc = "unstarted" /\ mpc' = "begin" /\ session_state' = "STARTING" /\ cause' = cause
    BY <1>3 DEF ModuleInit
  <2> QED
    BY <1>2, <2>1 DEF ErrorKept, AskedFirst
<1>4. CASE InitFails
  <2>1. mpc = "unstarted" /\ mpc' = "out" /\ session_state' = session_state
    BY <1>4 DEF InitFails
  <2> QED
    BY <1>2, <2>1 DEF ErrorKept, AskedFirst
<1>5. CASE RegisterFails
  <2>1. /\ mpc' = "unregister" /\ session_state' = "ERROR"
        /\ cause' = IF cause = "none" THEN "error" ELSE cause
    BY <1>5 DEF RegisterFails, RequestExit
  <2> QED
    BY <1>2, <2>1 DEF ErrorKept, AskedFirst
<1>6. CASE Registered
  <2>1. /\ mpc = "register" /\ mpc' = "running" /\ cause' = cause
        /\ session_state' = IF session_state = "STARTING" THEN "RUNNING" ELSE session_state
    BY <1>6 DEF Registered
  <2> QED
    BY <1>2, <2>1 DEF ErrorKept, AskedFirst
<1>7. CASE ModuleExit
  <2>1. /\ mpc = "running" /\ session_state' = session_state
        /\ cause' = IF cause = "none" THEN "user" ELSE cause
        /\ mpc' = "stop" => session_state = "RUNNING"
        /\ mpc' \in {"done", "stop", "unregister"}
    BY <1>7 DEF ModuleExit
  <2> QED
    BY <1>2, <2>1 DEF ErrorKept, AskedFirst
<1>8. CASE SetStopping
  <2>1. mpc = "stop" /\ mpc' = "unregister" /\ session_state' = "STOPPING" /\ cause' = cause
    BY <1>8 DEF SetStopping
  <2> QED
    BY <1>2, <2>1 DEF ErrorKept, AskedFirst
<1>9. CASE \/ BeginDone \/ Register \/ Unregister \/ Drained \/ UnregisterDone
           \/ EndDone \/ ErrorDone \/ Sync1 \/ Sync1Done \/ (\E c \in Cpu : Scan(c))
           \/ ScanDone \/ Sync2 \/ Fini \/ Out \/ OutDone
  <2>1. /\ UNCHANGED <<session_state, cause>>
        /\ mpc' \notin {"unstarted", "stop"}
        /\ mpc \in {"out", "outwait", "failed"} => mpc' \in {"out", "outwait", "failed"}
    BY <1>9, ZenonT(30) DEF BeginDone, Register, Unregister, Drained, UnregisterDone, EndDone, ErrorDone,
                EndLoop, Sync1, Sync1Done, Scan, ScanDone, Sync2, SyncStart, Fini, Out,
                OutDone, Free
  <2>2. AskedFirst' = AskedFirst
    BY <2>1, Zenon DEF AskedFirst
  <2> QED
    BY <1>2, <2>1, <2>2 DEF ErrorKept
<1> QED
  BY <1>3, <1>4, <1>5, <1>6, <1>7, <1>8, <1>9, ZenonT(30) DEF QuietInit, QuietExit

\* When an error is what asked for the shutdown, no end probe runs (property
\* EndSkippedOnError), whenever on whichever CPU the error happens.
THEOREM ErrorSkipsEnd == Spec => []EndSkippedOnError
<1>1. Init => ErrorKept
  BY DEF Init, ErrorKept, Outside
<1>2. RuntimeInv /\ ErrorKept /\ [Next]_vars => ErrorKept'
  <2> SUFFICES ASSUME RuntimeInv, ErrorKept, [Next]_vars PROVE ErrorKept'
    OBVIOUS
  <2>1. ASSUME NEW loop, NEW n, NEW s \in SessionState, RunBe(loop, n, s) PROVE ErrorKept'
    <3>1. PICK c \in Cpu : StartActivation(<<c, 1>>, Be, s)
      BY <2>1 DEF RunBe
    <3>2. <<c, 1>> \in Handler /\ UNCHANGED <<mpc, session_state, cause>>
      BY <2>1 DEF RunBe, Handler, historyVars
    <3> QED
      BY <3>1, <3>2, StartErrorKept
  <2>2. CASE RunBegin \/ RunEnd \/ RunError
    BY <2>1, <2>2 DEF RunBegin, RunEnd, RunError, SessionState
  <2>3. CASE QuietInit \/ QuietExit
    BY <2>3, QuietErrorKept
  <2>4. ASSUME NEW h \in Handler, NEW g \in Group, Hit(h, g) PROVE ErrorKept'
    <3>1. /\ StartActivation(h, g, "RUNNING") /\ "RUNNING" \in SessionState
          /\ UNCHANGED <<mpc, session_state, cause>>
      BY <2>4 DEF Hit, moduleVars, SessionState
    <3> QED
      BY <3>1, StartErrorKept
  <2>5. ASSUME NEW h \in Handler, HandlerStep(h) PROVE ErrorKept'
    BY <2>5, HandlerErrorKept
  <2>6. CASE UNCHANGED vars
    BY <2>6 DEF vars, moduleVars, handlerVars, ErrorKept, AskedFirst
  <2> QED
    BY <2>2, <2>3, <2>4, <2>5, <2>6 DEF Next, InitStep, ExitStep, QuietInit, QuietExit
<1>3. ErrorKept => EndSkippedOnError
  BY DEF ErrorKept, EndSkippedOnError, AskedFirst, Outside
<1> QED
  BY <1>1, <1>2, <1>3, RuntimeInvariant, PTL DEF Spec
=============================================================================
