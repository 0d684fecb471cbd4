-------------------------- MODULE InsertionProofs --------------------------
(***************************************************************************)
(* What a module has made at each step of its init and exit, whoever races *)
(* with whom and whichever call fails (module Insertion): the invariant,   *)
(* and that the steps within init_module and delete_module keep it.        *)
(***************************************************************************)
EXTENDS Insertion, TLAPS

\* s executes the module's init or exit code.
Inside(s) == pc[s] \in InKernel
AllFiles == Datafiles \cup {".cmd"}

\* What a module has made when its init or exit is at l: f are its files and r
\* its resources, d says whether its directory exists and b whether it is known
\* to be left behind.
Made(l, md, f, r, d, b) ==
  /\ l \in {"lock", "root", "dir", "initfailed"} =>
       md = "coming" /\ f = {} /\ r = {} /\ (d => b)
  /\ l = "data" => md = "coming" /\ f = {} /\ r = {} /\ d
  /\ l = "ctl" => md = "coming" /\ f = Datafiles /\ r = {} /\ d
  /\ l = "print" => md = "coming" /\ f = AllFiles /\ r = {"pool"} /\ d
  /\ l = "wq" => md = "coming" /\ f = AllFiles /\ r = {"pool", "print", "timer"} /\ d
  /\ l = "cleanup" => md = "going" /\ f = AllFiles /\ r = Resource /\ d
  /\ l = "unregister" =>
       /\ f = AllFiles /\ d
       /\ (md = "coming" /\ r \subseteq {"pool", "timer"}) \/ (md = "going" /\ r = {"pool", "print"})
  /\ l = "fsclose" =>
       /\ f \subseteq Datafiles /\ d
       /\ (md = "coming" /\ r \subseteq {"timer"}) \/ (md = "going" /\ r = {"print"})
  /\ l \in {"relock", "rmdir", "closed"} =>
       /\ f = {} /\ (IF l = "closed" THEN d => b ELSE d)
       /\ (md = "coming" /\ r = {}) \/ (md = "going" /\ r = {"print"})

MadeBy(s) == Made(pc[s], mod[m(s)], files[m(s)], res[m(s)], m(s) \in dirs, m(s) \in left)

\* One process at a time executes the code of a module.
OneInside == \A s, t \in Process : Inside(s) /\ Inside(t) /\ m(s) = m(t) => s = t

\* A module that is coming or going has what its init or exit has made so far.
InTransit ==
  /\ \A s \in Process : Inside(s) => MadeBy(s)
  /\ \A n \in Name : mod[n] \in {"coming", "going"} => \E s \in Process : Inside(s) /\ m(s) = n

\* Any other has everything or nothing.
SettledAt(n) ==
  /\ mod[n] = "live" => files[n] = AllFiles /\ res[n] = Resource /\ n \in dirs
  /\ mod[n] = "absent" => files[n] = {} /\ res[n] = {} /\ (n \in dirs => n \in left)

Settled == \A n \in Name : SettledAt(n)

\* The lock directory is the lock.
Locked == \A s \in Process : pc[s] \in {"root", "dir", "data", "rmdir"} => lock = m(s)

\* Who points to the root directory keeps it from being empty, or has the lock.
RootKept ==
  /\ RootValid
  /\ \A s \in Process : pc[s] = "dir" => root_dir[m(s)] # 0
  /\ \A n \in Name : root_dir[n] # 0 =>
       n \in dirs \/ \E s \in Process : m(s) = n /\ pc[s] = "dir"

\* Who has a control channel open, and of which instance.
Channels ==
  /\ \A n \in Name : \A s \in refs[n] : m(s) = n /\ pc[s] \in {"relocating", "running"}
  /\ \A n \in Name : mod[n] = "going" => refs[n] = {}
  /\ \A s \in Process : owns[s] <= inst[m(s)]
  /\ \A s \in Process : mod[m(s)] = "coming" => owns[s] < inst[m(s)]
  /\ \A n \in Name : \A s \in refs[n] : owns[s] = inst[n] => mod[n] = "live"

InsertionInv ==
  TypeOK /\ OneInside /\ InTransit /\ Settled /\ Locked /\ RootKept /\ Channels

-----------------------------------------------------------------------------
\* A step of s is about s and its module alone.
Frame(s) ==
  /\ modname' = modname
  /\ \A t \in Process \ {s} :
       /\ pc'[t] = pc[t] /\ attempt'[t] = attempt[t] /\ tries'[t] = tries[t]
       /\ arg'[t] = arg[t] /\ owns'[t] = owns[t]
  /\ \A n \in Name \ {m(s)} :
       /\ mod'[n] = mod[n] /\ inst'[n] = inst[n] /\ refs'[n] = refs[n]
       /\ root_dir'[n] = root_dir[n] /\ files'[n] = files[n] /\ res'[n] = res[n]
       /\ (n \in dirs') = (n \in dirs)
       /\ (n \in left') = (n \in left)

\* The module of every process has a name.
LEMMA ModuleNames == TypeOK => \A s \in Process : modname[s] \in Name
BY InsertionAssumption DEF TypeOK

\* Every variable of the processes and of the modules is a function of them.
Functions ==
  /\ DOMAIN pc = Process /\ DOMAIN attempt = Process /\ DOMAIN tries = Process
  /\ DOMAIN arg = Process /\ DOMAIN owns = Process
  /\ DOMAIN mod = Name /\ DOMAIN inst = Name /\ DOMAIN refs = Name /\ DOMAIN root_dir = Name
  /\ DOMAIN files = Name /\ DOMAIN res = Name

\* That is part of the types.
LEMMA FunctionsOK == TypeOK => Functions
BY Zenon DEF TypeOK, Functions

\* The module of s is in order.
Local(s) ==
  /\ Inside(s) => MadeBy(s)
  /\ mod[m(s)] \in {"coming", "going"} => Inside(s)
  /\ SettledAt(m(s))

\* If s is the only one at its module, and leaves it in order, all modules are.
LEMMA LocalEnough ==
  ASSUME TypeOK, OneInside, InTransit, Settled, NEW s \in Process,
         Inside(s) \/ mod[m(s)] \in {"live", "absent"},
         Frame(s), Local(s)'
  PROVE  OneInside' /\ InTransit' /\ Settled'
<1> USE DEF m
<1>1. \A t \in Process : t # s /\ Inside(t) => m(t) # m(s)
  BY DEF OneInside, InTransit, MadeBy, Made, Inside, InKernel
<1>2. \A t \in Process : t # s =>
        /\ Inside(t)' = Inside(t) /\ m(t)' = m(t)
        /\ Inside(t) => (MadeBy(t)' = MadeBy(t))
  BY <1>1, ModuleNames DEF Frame, Inside, MadeBy
<1>3. OneInside'
  BY <1>1, <1>2 DEF OneInside, Frame
<1>4. \A t \in Process : Inside(t)' => MadeBy(t)'
  BY <1>2 DEF InTransit, Local
<1>5. ASSUME NEW n \in Name, mod'[n] \in {"coming", "going"}
      PROVE  \E t \in Process : Inside(t)' /\ m(t)' = n
  <2>1. CASE n = m(s)
    BY <1>5, <2>1 DEF Local, Frame
  <2>2. CASE n # m(s)
    BY <1>2, <1>5, <2>2 DEF InTransit, Frame
  <2> QED
    BY <2>1, <2>2
<1>6. ASSUME NEW n \in Name PROVE SettledAt(n)'
  BY DEF Settled, SettledAt, Local, Frame
<1> QED
  BY <1>3, <1>4, <1>5, <1>6 DEF InTransit, Settled

\* Every step of init_module and delete_module leaves its module in order.
LEMMA KernelLocal ==
  ASSUME TypeOK, NEW s \in Process, MadeBy(s), Kernel(s)
  PROVE  Local(s)'
<1>0. m(s) \in Name /\ m(s)' = m(s) /\ Functions
  BY ModuleNames, FunctionsOK DEF m, Kernel
<1> USE <1>0 DEF Goto, At, Functions
<1>1. CASE Lock0(s) \/ LockFailed(s) \/ GetRootDir(s) \/ NoRootDir(s) \/ NoModuleDir(s)
  <2>1. /\ UNCHANGED <<mod, files, res, dirs, left>>
        /\ \/ pc[s] = "lock" /\ pc'[s] \in {"lock", "root", "initfailed"}
           \/ pc[s] = "root" /\ pc'[s] \in {"dir", "initfailed"}
           \/ pc[s] = "dir" /\ pc'[s] = "initfailed"
    BY <1>1 DEF Lock0, LockDir, LockBusy, LockFailed, GaveUp, GetRootDir, NoRootDir, NoModuleDir,
       fs, module
  <2> QED
    BY <2>1 DEF MadeBy, Made, Local, Inside, InKernel, SettledAt
<1>2. CASE RegisterCtlFails(s) \/ PrintInitFails(s) \/ Lock1(s)
  <2>1. /\ UNCHANGED <<mod, files, res, dirs, left>>
        /\ \/ pc[s] = "ctl" /\ pc'[s] = "fsclose"
           \/ pc[s] = "print" /\ pc'[s] = "unregister"
           \/ pc[s] = "relock" /\ pc'[s] \in {"relock", "rmdir"}
    BY <1>2 DEF RegisterCtlFails, PrintInitFails, Lock1, LockDir, LockBusy, fs, module
  <2> QED
    BY <2>1 DEF MadeBy, Made, Local, Inside, InKernel, SettledAt
<1>3. CASE MakeModuleDir(s)
  <2>1. /\ pc[s] = "dir" /\ pc'[s] = "data" /\ UNCHANGED <<mod, files, res, left>>
        /\ dirs' = dirs \cup {m(s)}
    BY <1>3 DEF MakeModuleDir
  <2> QED
    BY <2>1 DEF MadeBy, Made, Local, Inside, InKernel, SettledAt
<1>4. CASE DataInit(s)
  <2>1. /\ pc[s] = "data" /\ pc'[s] = "ctl" /\ UNCHANGED <<mod, res, dirs, left>>
        /\ files'[m(s)] = Datafiles
    BY <1>4 DEF DataInit, module
  <2> QED
    BY <2>1 DEF MadeBy, Made, Local, Inside, InKernel, SettledAt
<1>5. CASE DataInitFails(s)
  <2>1. /\ pc[s] = "data" /\ pc'[s] = "initfailed" /\ UNCHANGED <<mod, files, res, dirs>>
        /\ left' = left \cup {m(s)}
    BY <1>5 DEF DataInitFails
  <2> QED
    BY <2>1 DEF MadeBy, Made, Local, Inside, InKernel, SettledAt
<1>6. CASE RegisterCtl(s)
  <2>1. /\ pc[s] = "ctl" /\ pc'[s] = "print" /\ UNCHANGED <<mod, dirs, left>>
        /\ files'[m(s)] = files[m(s)] \cup {".cmd"} /\ res'[m(s)] = {"pool"}
    BY <1>6 DEF RegisterCtl
  <2> QED
    BY <2>1 DEF MadeBy, Made, Local, Inside, InKernel, SettledAt, AllFiles
<1>7. CASE PrintInit(s)
  <2>1. /\ pc[s] = "print" /\ pc'[s] = "wq" /\ UNCHANGED <<mod, files, dirs, left>>
        /\ res'[m(s)] = res[m(s)] \cup {"print", "timer"}
    BY <1>7 DEF PrintInit, fs
  <2> QED
    BY <2>1 DEF MadeBy, Made, Local, Inside, InKernel, SettledAt
<1>8. CASE WorkqueueFails(s)
  <2>1. /\ pc[s] = "wq" /\ pc'[s] = "unregister" /\ UNCHANGED <<mod, files, dirs, left>>
        /\ res'[m(s)] = res[m(s)] \ {"print"}
    BY <1>8 DEF WorkqueueFails, fs
  <2> QED
    BY <2>1 DEF MadeBy, Made, Local, Inside, InKernel, SettledAt
<1>9. CASE CleanupAndExit(s)
  <2>1. /\ pc[s] = "cleanup" /\ pc'[s] = "unregister" /\ UNCHANGED <<mod, files, dirs, left>>
        /\ res'[m(s)] = res[m(s)] \ {"timer", "wq"}
    BY <1>9 DEF CleanupAndExit, fs
  <2> QED
    BY <2>1 DEF MadeBy, Made, Local, Inside, InKernel, SettledAt, Resource
<1>10. CASE UnregisterCtl(s)
  <2>1. /\ pc[s] = "unregister" /\ pc'[s] = "fsclose" /\ UNCHANGED <<mod, dirs, left>>
        /\ files'[m(s)] = files[m(s)] \ {".cmd"} /\ res'[m(s)] = res[m(s)] \ {"pool"}
    BY <1>10 DEF UnregisterCtl
  <2> QED
    BY <2>1 DEF MadeBy, Made, Local, Inside, InKernel, SettledAt, AllFiles, Datafiles
<1>11. CASE DataClose(s)
  <2>1. /\ pc[s] = "fsclose" /\ pc'[s] = "relock" /\ UNCHANGED <<mod, dirs, left>>
        /\ files'[m(s)] = files[m(s)] \ Datafiles /\ res'[m(s)] = res[m(s)] \ {"timer"}
    BY <1>11 DEF DataClose
  <2> QED
    BY <2>1 DEF MadeBy, Made, Local, Inside, InKernel, SettledAt
<1>12. CASE RelockFailed(s)
  <2>1. /\ pc[s] = "relock" /\ pc'[s] = "closed" /\ UNCHANGED <<mod, files, res, dirs>>
        /\ left' = left \cup {m(s)}
    BY <1>12 DEF RelockFailed, GaveUp, fs, module
  <2> QED
    BY <2>1 DEF MadeBy, Made, Local, Inside, InKernel, SettledAt
<1>13. CASE RemoveDirs(s)
  <2>1. /\ pc[s] = "rmdir" /\ pc'[s] = "closed" /\ UNCHANGED <<mod, files, res, left>>
        /\ dirs' = dirs \ {m(s)}
    BY <1>13 DEF RemoveDirs
  <2> QED
    BY <2>1 DEF MadeBy, Made, Local, Inside, InKernel, SettledAt
<1>14. CASE CreateWorkqueue(s)
  <2>1. /\ pc[s] = "wq" /\ pc'[s] = "inserted" /\ mod'[m(s)] = "live" /\ UNCHANGED <<files, dirs>>
        /\ res'[m(s)] = res[m(s)] \cup {"wq"}
    BY <1>14 DEF CreateWorkqueue, fs
  <2>2. /\ files[m(s)] = AllFiles /\ m(s) \in dirs
        /\ res[m(s)] = {"pool", "print", "timer"}
    BY <2>1 DEF MadeBy, Made
  <2>3. res'[m(s)] = Resource
    BY <2>1, <2>2 DEF Resource
  <2> QED
    BY <2>1, <2>2, <2>3 DEF Local, Inside, InKernel, SettledAt
<1>15. CASE InitFailed(s) \/ Closed(s)
  <2>1. /\ pc[s] \in {"initfailed", "closed"} /\ pc'[s] \notin InKernel /\ mod'[m(s)] = "absent"
        /\ UNCHANGED <<files, dirs, left>>
        /\ res'[m(s)] = IF mod[m(s)] = "going" THEN res[m(s)] \ {"print"} ELSE res[m(s)]
    <3>1. CASE InitFailed(s)
      BY <3>1 DEF InitFailed, Gone, fs, MadeBy, Made, InKernel
    <3>2. CASE Closed(s)
      BY <3>2 DEF Closed, Gone, Closing, fs, InKernel
    <3> QED
      BY <1>15, <3>1, <3>2
  <2> QED
    BY <2>1 DEF MadeBy, Made, Local, Inside, SettledAt
<1> QED
  BY <1>1, <1>2, <1>3, <1>4, <1>5, <1>6, <1>7, <1>8, <1>9, <1>10, <1>11, <1>12, <1>13, <1>14,
     <1>15, ZenonT(30) DEF Kernel, InitModule, CleanupModule

\* What the steps of init_module and delete_module do to the variables of s,
LEMMA KernelProcess ==
  ASSUME NEW s \in Process, Kernel(s)
  PROVE  /\ UNCHANGED <<modname, rivals, attempt, arg>>
         /\ pc[s] \in InKernel
         /\ \/ pc' = pc
            \/ \E l \in InKernel \cup {"inserted", "returned", "removed", "insert"} :
                 pc' = [pc EXCEPT ![s] = l]
         /\ \/ tries' = tries \/ tries' = [tries EXCEPT ![s] = 0]
            \/ tries[s] < NUMTRIES /\ tries' = [tries EXCEPT ![s] = @ + 1]
         /\ owns' = owns \/ owns' = [owns EXCEPT ![s] = inst[m(s)]]
<1> USE DEF Kernel, InitModule, CleanupModule, Lock0, LockDir, LockBusy, LockFailed, GaveUp,
      GetRootDir, NoRootDir, MakeModuleDir, NoModuleDir, DataInit, DataInitFails, RegisterCtl,
      RegisterCtlFails, PrintInit, PrintInitFails, CreateWorkqueue, WorkqueueFails, InitFailed,
      CleanupAndExit, UnregisterCtl, DataClose, Lock1, RelockFailed, RemoveDirs, RemoveRootDir,
      Unlock, Closed, Gone, Fault, fs, module, Goto, At
<1>1. UNCHANGED <<modname, rivals, attempt, arg>>
  BY ZenonT(30)
<1>2. pc[s] \in InKernel
  BY ZenonT(30) DEF InKernel
<1>3. \/ pc' = pc
      \/ \E l \in InKernel \cup {"inserted", "returned", "removed", "insert"} :
           pc' = [pc EXCEPT ![s] = l]
  BY ZenonT(30) DEF InKernel
<1>4. \/ tries' = tries \/ tries' = [tries EXCEPT ![s] = 0]
      \/ tries[s] < NUMTRIES /\ tries' = [tries EXCEPT ![s] = @ + 1]
  BY ZenonT(30)
<1>5. owns' = owns \/ owns' = [owns EXCEPT ![s] = inst[m(s)]]
  BY ZenonT(30)
<1> QED
  BY <1>1, <1>2, <1>3, <1>4, <1>5, Zenon

\* to those of its module,
LEMMA KernelModule ==
  ASSUME NEW s \in Process, Kernel(s)
  PROVE  /\ UNCHANGED <<inst, refs, bufsize>>
         /\ mod' = mod \/ \E v \in {"live", "absent"} : mod' = [mod EXCEPT ![m(s)] = v]
         /\ \/ files' = files
            \/ \E v \in {Datafiles, files[m(s)] \cup {".cmd"}} : files' = [files EXCEPT ![m(s)] = v]
            \/ \E d : files' = [files EXCEPT ![m(s)] = @ \ d]
         /\ \/ res' = res \/ res' = [res EXCEPT ![m(s)] = {"pool"}]
            \/ res' = [res EXCEPT ![m(s)] = @ \cup {"print", "timer"}]
            \/ res' = [res EXCEPT ![m(s)] = @ \cup {"wq"}]
            \/ \E d : res' = [res EXCEPT ![m(s)] = @ \ d]
            \/ res' = [res EXCEPT ![m(s)] = IF Closing(s) THEN @ \ {"print"} ELSE @]
         /\ \/ root_dir' = root_dir
            \/ \E v \in {0, root'} : root_dir' = [root_dir EXCEPT ![m(s)] = v]
         /\ \/ module_dir' = module_dir
            \/ \E v \in BOOLEAN : module_dir' = [module_dir EXCEPT ![m(s)] = v]
<1> USE DEF Kernel, InitModule, CleanupModule, Lock0, LockDir, LockBusy, LockFailed, GaveUp,
      GetRootDir, NoRootDir, MakeModuleDir, NoModuleDir, DataInit, DataInitFails, RegisterCtl,
      RegisterCtlFails, PrintInit, PrintInitFails, CreateWorkqueue, WorkqueueFails, InitFailed,
      CleanupAndExit, UnregisterCtl, DataClose, Lock1, RelockFailed, RemoveDirs, RemoveRootDir,
      Unlock, Closed, Gone, Fault, fs, module, Goto, At
<1>1. UNCHANGED <<inst, refs, bufsize>>
  BY ZenonT(30)
<1>2. mod' = mod \/ \E v \in {"live", "absent"} : mod' = [mod EXCEPT ![m(s)] = v]
  BY ZenonT(30)
<1>3. \/ files' = files
      \/ \E v \in {Datafiles, files[m(s)] \cup {".cmd"}} : files' = [files EXCEPT ![m(s)] = v]
      \/ \E d : files' = [files EXCEPT ![m(s)] = @ \ d]
  BY ZenonT(30)
<1>4. \/ res' = res \/ res' = [res EXCEPT ![m(s)] = {"pool"}]
      \/ res' = [res EXCEPT ![m(s)] = @ \cup {"print", "timer"}]
      \/ res' = [res EXCEPT ![m(s)] = @ \cup {"wq"}]
      \/ \E d : res' = [res EXCEPT ![m(s)] = @ \ d]
      \/ res' = [res EXCEPT ![m(s)] = IF Closing(s) THEN @ \ {"print"} ELSE @]
  BY ZenonT(30)
<1>5. \/ root_dir' = root_dir
      \/ \E v \in {0, root'} : root_dir' = [root_dir EXCEPT ![m(s)] = v]
  BY ZenonT(30)
<1>6. \/ module_dir' = module_dir
      \/ \E v \in BOOLEAN : module_dir' = [module_dir EXCEPT ![m(s)] = v]
  BY ZenonT(30)
<1> QED
  BY <1>1, <1>2, <1>3, <1>4, <1>5, <1>6, Zenon

\* and to the rest.
LEMMA KernelFs ==
  ASSUME NEW s \in Process, Kernel(s)
  PROVE  /\ dirs' \in {dirs, dirs \cup {m(s)}, dirs \ {m(s)}}
         /\ left' \in {left, left \cup {m(s)}}
         /\ faults' = faults \/ (faults < MaxFaults /\ faults' = faults + 1)
         /\ lock' \in {lock, None, m(s)}
         /\ (root' \in {root, 0} /\ roots' = roots) \/ (root' = roots' /\ roots' = roots + 1)
<1> USE DEF Kernel, InitModule, CleanupModule, Lock0, LockDir, LockBusy, LockFailed, GaveUp,
      GetRootDir, NoRootDir, MakeModuleDir, NoModuleDir, DataInit, DataInitFails, RegisterCtl,
      RegisterCtlFails, PrintInit, PrintInitFails, CreateWorkqueue, WorkqueueFails, InitFailed,
      CleanupAndExit, UnregisterCtl, DataClose, Lock1, RelockFailed, RemoveDirs, RemoveRootDir,
      Unlock, Closed, Gone, Fault, fs, module, Goto, At
<1>1. dirs' \in {dirs, dirs \cup {m(s)}, dirs \ {m(s)}}
  BY ZenonT(30)
<1>2. left' \in {left, left \cup {m(s)}}
  BY ZenonT(30)
<1>3. faults' = faults \/ (faults < MaxFaults /\ faults' = faults + 1)
  BY ZenonT(30)
<1>4. lock' \in {lock, None, m(s)}
  BY ZenonT(30)
<1>5. (root' \in {root, 0} /\ roots' = roots) \/ (root' = roots' /\ roots' = roots + 1)
  BY ZenonT(30)
<1> QED
  BY <1>1, <1>2, <1>3, <1>4, <1>5, Zenon

\* So each of them is about s and its module alone.
LEMMA KernelFrame ==
  ASSUME TypeOK, NEW s \in Process, Kernel(s)
  PROVE  Frame(s) /\ Inside(s)
<1>1. m(s) \in Name /\ modname' = modname /\ Functions
  BY ModuleNames, FunctionsOK, KernelProcess DEF m
<1>2. \A t \in Process \ {s} :
        /\ pc'[t] = pc[t] /\ attempt'[t] = attempt[t] /\ tries'[t] = tries[t]
        /\ arg'[t] = arg[t] /\ owns'[t] = owns[t]
  BY <1>1, KernelProcess DEF Functions
<1>3. \A n \in Name \ {m(s)} :
        /\ mod'[n] = mod[n] /\ inst'[n] = inst[n] /\ refs'[n] = refs[n]
        /\ root_dir'[n] = root_dir[n] /\ files'[n] = files[n] /\ res'[n] = res[n]
  BY <1>1, KernelModule DEF Functions
<1>4. \A n \in Name \ {m(s)} : (n \in dirs') = (n \in dirs) /\ (n \in left') = (n \in left)
  BY KernelFs
<1> QED
  BY <1>1, <1>2, <1>3, <1>4, KernelProcess DEF Frame, Inside

\* They keep the types.
LEMMA KernelTypes ==
  ASSUME TypeOK, NEW s \in Process, Kernel(s)
  PROVE  TypeOK'
<1>1. m(s) \in Name
  BY ModuleNames DEF m
<1>2. UNCHANGED <<modname, rivals, attempt, arg, inst, refs, bufsize>>
  BY KernelProcess, KernelModule
<1>3. pc' \in [Process -> Idle \cup InKernel \cup InUser]
  BY KernelProcess DEF TypeOK, Idle, InUser
<1>4. tries' \in [Process -> 0..NUMTRIES] /\ owns' \in [Process -> Nat]
  <2>1. tries[s] \in 0..NUMTRIES /\ inst[m(s)] \in Nat /\ NUMTRIES \in Nat
    BY <1>1, InsertionAssumption DEF TypeOK
  <2> QED
    BY <2>1, KernelProcess DEF TypeOK
<1>5. mod' \in [Name -> {"absent", "coming", "live", "going"}]
  BY <1>1, KernelModule DEF TypeOK
<1>6. module_dir' \in [Name -> BOOLEAN]
  BY <1>1, KernelModule, Zenon DEF TypeOK
<1>7. /\ files' \in [Name -> SUBSET (Datafiles \cup {".cmd"})]
      /\ res' \in [Name -> SUBSET Resource]
  BY <1>1, KernelModule DEF TypeOK, Resource
<1>8. dirs' \subseteq Name /\ left' \subseteq Name /\ lock' \in Name \cup {None, "stale"}
  BY <1>1, KernelFs DEF TypeOK
<1>9. roots' \in Nat /\ roots <= roots' /\ root' \in 0..roots'
  BY KernelFs DEF TypeOK
<1>10. root_dir' \in [Name -> 0..roots']
  BY <1>1, <1>9, KernelModule DEF TypeOK
<1>11. faults' \in 0..MaxFaults
  BY InsertionAssumption, KernelFs DEF TypeOK
<1> QED
  BY <1>2, <1>3, <1>4, <1>5, <1>6, <1>7, <1>8, <1>9, <1>10, <1>11 DEF TypeOK

-----------------------------------------------------------------------------
\* The steps of a process outside init_module and delete_module.
Outside(s) ==
  /\ UNCHANGED modname
  /\ \/ InsertExists(s) \/ SendRelocations(s) \/ Stapio(s) \/ NoChannel(s) \/ Killed(s)
     \/ Retry(s) /\ ~(attempt[s] = 1 /\ MayDelete(s))
     \/ RemoveModule(s) /\ ~MayDelete(s)
     \/ Start(s)

\* They touch nothing but who has the channel open.
LEMMA OutsideMoves ==
  ASSUME TypeOK, NEW s \in Process, Outside(s)
  PROVE  /\ UNCHANGED <<fs, mod, inst, bufsize, root_dir, module_dir, res, owns, faults, left,
                       modname, tries>>
         /\ pc[s] \notin InKernel /\ pc'[s] \notin InKernel
         /\ \A t \in Process : t # s => pc'[t] = pc[t]
         /\ \/ refs' = refs /\ pc[s] \notin {"relocating", "running"}
            \/ refs' = [refs EXCEPT ![m(s)] = @ \ {s}]
            \/ /\ MayOpen(s) /\ refs' = [refs EXCEPT ![m(s)] = @ \cup {s}]
               /\ pc'[s] \in {"relocating", "running"}
<1>0. DOMAIN pc = Process /\ modname' = modname
  BY Zenon DEF TypeOK, Outside
<1> USE <1>0 DEF m, fs, module, Goto, At, InKernel
<1>1. CASE InsertExists(s) \/ NoChannel(s)
  BY <1>1 DEF InsertExists, NoChannel, OpenFails
<1>2. CASE SendRelocations(s)
  BY <1>2 DEF SendRelocations, Open, Close
<1>3. CASE Stapio(s)
  BY <1>3 DEF Stapio, Open, Close
<1>4. CASE Killed(s)
  BY <1>4 DEF Killed
<1>5. CASE Retry(s) /\ ~(attempt[s] = 1 /\ MayDelete(s))
  BY <1>5 DEF Retry
<1>6. CASE RemoveModule(s) /\ ~MayDelete(s)
  BY <1>6 DEF RemoveModule
<1>7. CASE Start(s)
  BY <1>7 DEF Start
<1> QED
  BY <1>1, <1>2, <1>3, <1>4, <1>5, <1>6, <1>7, ZenonT(30) DEF Outside

\* They keep the types.
LEMMA OutsideTypes ==
  ASSUME TypeOK, NEW s \in Process, Outside(s), UNCHANGED rivals \/ Start(s)
  PROVE  TypeOK'
<1>1. UNCHANGED <<fs, mod, inst, bufsize, root_dir, module_dir, res, owns, faults, left,
                  modname, tries>>
  BY OutsideMoves
<1>2. UNCHANGED <<lock, root, roots, dirs, files>>
  BY <1>1 DEF fs
<1>3. /\ pc' \in [Process -> Idle \cup InKernel \cup InUser]
      /\ attempt' \in [Process -> 0 .. 2]
  <2> USE DEF TypeOK, Goto, At, Idle, InUser
  <2>1. CASE InsertExists(s) \/ NoChannel(s) \/ Killed(s)
    BY <2>1 DEF InsertExists, NoChannel, OpenFails, Killed
  <2>2. CASE SendRelocations(s) \/ Stapio(s)
    BY <2>2 DEF SendRelocations, Stapio, Open, Close
  <2>3. CASE Retry(s) /\ ~(attempt[s] = 1 /\ MayDelete(s))
    BY <2>3 DEF Retry
  <2>4. CASE RemoveModule(s) /\ ~MayDelete(s)
    BY <2>4 DEF RemoveModule
  <2>5. CASE Start(s)
    BY <2>5 DEF Start
  <2> QED
    BY <2>1, <2>2, <2>3, <2>4, <2>5, ZenonT(30) DEF Outside
<1>4. refs' \in [Name -> SUBSET Process]
  <2>1. \/ refs' = refs \/ refs' = [refs EXCEPT ![m(s)] = @ \ {s}]
        \/ refs' = [refs EXCEPT ![m(s)] = @ \cup {s}]
    BY OutsideMoves
  <2>2. refs \in [Name -> SUBSET Process]
    BY DEF TypeOK
  <2> QED
    BY <2>1, <2>2
<1>5. rivals' \subseteq Process /\ arg' \in [Process -> BufSizes \cup {0}]
  <2>1. CASE Start(s)
    BY <2>1 DEF Start, TypeOK
  <2>2. CASE ~Start(s)
    <3>1. arg' = arg
      BY <2>2, ZenonT(30) DEF Outside, InsertExists, NoChannel, OpenFails, Killed,
         SendRelocations, Stapio, Open, Close, Retry, RemoveModule
    <3> QED
      BY <2>2, <3>1 DEF TypeOK
  <2> QED
    BY <2>1, <2>2
<1> QED
  BY <1>1, <1>2, <1>3, <1>4, <1>5 DEF TypeOK

-----------------------------------------------------------------------------
\* Where init and exit hold the lock.
Holding == {"root", "dir", "data", "rmdir"}

\* Nobody else is where the lock is held if s holds it or takes it.
LEMMA LockedEnough ==
  ASSUME TypeOK, OneInside, Locked, NEW s \in Process, Frame(s),
         lock' = lock \/ lock = None \/ pc[s] \in Holding,
         pc'[s] \in Holding => lock' = m(s)
  PROVE  Locked'
<1> SUFFICES ASSUME NEW t \in Process, pc'[t] \in Holding PROVE lock' = modname'[t]
  BY DEF Locked, Holding, m
<1> USE DEF m
<1>1. modname' = modname
  BY DEF Frame
<1>2. CASE t = s
  BY <1>1, <1>2
<1>3. CASE t # s
  <2>1. pc[t] \in Holding
    BY <1>3 DEF Frame
  <2>2. lock = modname[t] /\ lock # None
    BY <2>1, ModuleNames, InsertionAssumption DEF Locked, Holding
  <2>3. pc[s] \notin Holding
    BY <1>3, <2>1, <2>2 DEF OneInside, Inside, InKernel, Holding, Locked
  <2> QED
    BY <1>1, <2>2, <2>3
<1> QED
  BY <1>2, <1>3

\* The steps that take the lock find it free, and those that release it had it.
LEMMA KernelLocked ==
  ASSUME TypeOK, OneInside, Locked, NEW s \in Process, Kernel(s)
  PROVE  Locked'
<1> USE DEF m, Goto, At, Holding
<1> DEFINE moves == /\ lock' = lock \/ lock = None \/ pc[s] \in Holding
                    /\ pc'[s] \in Holding => lock' = m(s)
<1>0. DOMAIN pc = Process /\ (pc[s] \in Holding => lock = m(s))
  BY FunctionsOK DEF Functions, Locked
<1>1. ASSUME Lock0(s) \/ Lock1(s) PROVE moves
  BY <1>0, <1>1 DEF Lock0, Lock1, LockDir, LockBusy, fs
<1>2. ASSUME GetRootDir(s) \/ MakeModuleDir(s) PROVE moves
  BY <1>0, <1>2 DEF GetRootDir, MakeModuleDir
<1>3. ASSUME \/ NoRootDir(s) \/ NoModuleDir(s) \/ DataInit(s) \/ DataInitFails(s) \/ RemoveDirs(s)
      PROVE  moves
  BY <1>0, <1>3 DEF NoRootDir, NoModuleDir, DataInit, DataInitFails, RemoveDirs
<1>4. ASSUME \/ LockFailed(s) \/ RegisterCtl(s) \/ RegisterCtlFails(s) \/ PrintInit(s)
             \/ PrintInitFails(s) \/ CreateWorkqueue(s) \/ WorkqueueFails(s)
      PROVE  moves
  <2>1. lock' = lock /\ pc'[s] \notin Holding
    BY <1>0, <1>4 DEF LockFailed, RegisterCtl, RegisterCtlFails, PrintInit, PrintInitFails,
                      CreateWorkqueue, WorkqueueFails, fs
  <2> QED
    BY <2>1
<1>5. ASSUME \/ InitFailed(s) \/ CleanupAndExit(s) \/ UnregisterCtl(s) \/ DataClose(s)
             \/ RelockFailed(s) \/ Closed(s)
      PROVE  moves
  <2>1. lock' = lock /\ pc'[s] \notin Holding
    BY <1>0, <1>5 DEF InitFailed, CleanupAndExit, UnregisterCtl, DataClose, RelockFailed, Closed, fs
  <2> QED
    BY <2>1
<1>6. moves
  BY <1>1, <1>2, <1>3, <1>4, <1>5, ZenonT(30) DEF Kernel, InitModule, CleanupModule
<1> QED
  BY <1>6, KernelFrame, LockedEnough

-----------------------------------------------------------------------------
\* A step that leaves the directories alone keeps the root directory.
LEMMA RootEnough ==
  ASSUME TypeOK, TypeOK', OneInside, RootKept, NEW s \in Process, Frame(s),
         root' = root, dirs' = dirs,
         root_dir'[m(s)] = root_dir[m(s)] \/ (Inside(s) /\ root_dir'[m(s)] = 0),
         pc[s] # "dir", pc'[s] # "dir"
  PROVE  RootKept'
<1> USE DEF m
<1>1. modname' = modname /\ \A n \in Name : root_dir'[n] \in {0, root_dir[n]}
  BY DEF Frame
<1>2. \A t \in Process : pc[t] = "dir" <=> pc'[t] = "dir"
  BY DEF Frame
<1>3. \A t \in Process : pc[t] = "dir" => root_dir'[m(t)] = root_dir[m(t)]
  BY ModuleNames DEF Frame, OneInside, Inside, InKernel
<1> QED
  BY <1>1, <1>2, <1>3 DEF RootKept, RootValid

\* Init makes the root directory or finds it, and only the last module that
\* points to it removes it.
LEMMA KernelRoot ==
  ASSUME TypeOK, TypeOK', OneInside, Locked, RootKept, NEW s \in Process, MadeBy(s), Kernel(s)
  PROVE  RootKept'
<1> USE DEF m, Goto, At
<1>1. Frame(s) /\ Inside(s) /\ m(s) \in Name /\ modname' = modname /\ Functions
  BY KernelFrame, ModuleNames, FunctionsOK DEF Frame
<1>2. \A t \in Process : t # s /\ Inside(t) => m(t) # m(s)
  BY <1>1 DEF OneInside
<1>3. ASSUME pc[s] \in Holding, NEW t \in Process, t # s PROVE pc[t] # "dir"
  BY <1>1, <1>2, <1>3 DEF Locked, Holding, Inside, InKernel
<1>4. CASE GetRootDir(s)
  <2>0. roots \in Nat
    BY DEF TypeOK
  <2>1. /\ pc[s] = "root" /\ pc' = [pc EXCEPT ![s] = "dir"] /\ dirs' = dirs
        /\ root_dir' = [root_dir EXCEPT ![m(s)] = root']
        /\ root' # 0 /\ (root # 0 => root' = root)
    BY <1>4, <2>0 DEF GetRootDir
  <2>2. \A n \in Name : n # m(s) /\ root_dir[n] # 0 => root_dir'[n] = root' /\ n \in dirs'
    BY <1>1, <1>3, <2>1 DEF Holding, RootKept, RootValid, TypeOK
  <2>3. pc'[s] = "dir" /\ root_dir'[m(s)] = root'
    BY <1>1, <2>1 DEF TypeOK
  <2>4. \A n \in Name : n # m(s) => root_dir'[n] = root_dir[n]
    BY <1>1 DEF Frame
  <2>5. \A t \in Process : t # s => pc'[t] # "dir"
    BY <1>1, <1>3, <2>1 DEF Holding, Frame
  <2> QED
    BY <1>1, <2>1, <2>2, <2>3, <2>4, <2>5 DEF RootKept, RootValid
<1>5. CASE MakeModuleDir(s)
  <2>1. /\ pc[s] = "dir" /\ pc'[s] = "data" /\ dirs' = dirs \cup {m(s)}
        /\ UNCHANGED <<root, root_dir>>
    BY <1>1, <1>5 DEF MakeModuleDir, Functions
  <2>2. root # 0
    BY <1>1, <2>1 DEF RootKept, RootValid
  <2>3. \A t \in Process : pc'[t] # "dir"
    BY <1>1, <1>3, <2>1 DEF Holding, Frame
  <2>4. \A n \in Name : root_dir[n] # 0 => n \in dirs'
    BY <1>3, <2>1 DEF Holding, RootKept
  <2> QED
    BY <2>1, <2>2, <2>3, <2>4 DEF RootKept, RootValid
<1>6. CASE NoModuleDir(s) \/ RemoveDirs(s)
  <2>1. /\ pc[s] \in Holding /\ pc'[s] # "dir" /\ dirs \ {m(s)} \subseteq dirs' /\ dirs' \subseteq dirs
        /\ root' = IF root_dir[m(s)] # 0 /\ dirs' = {} THEN 0 ELSE root
        /\ root_dir' = [root_dir EXCEPT ![m(s)] = 0]
    BY <1>1, <1>6 DEF NoModuleDir, RemoveDirs, RemoveRootDir, Holding, Functions
  <2>2. \A t \in Process : pc'[t] # "dir"
    BY <1>1, <1>3, <2>1 DEF Frame
  <2>3. \A n \in Name : root_dir'[n] # 0 => n # m(s) /\ root_dir'[n] = root_dir[n] /\ n \in dirs'
    BY <1>1, <1>3, <2>1 DEF RootKept, Functions
  <2>4. dirs' # {} => root' # 0
    BY <2>1 DEF RootKept, RootValid
  <2> QED
    BY <2>1, <2>2, <2>3, <2>4 DEF RootKept, RootValid
<1>7. CASE DataInitFails(s)
  <2>1. /\ pc[s] = "data" /\ pc'[s] = "initfailed" /\ dirs' = dirs /\ m(s) \in dirs
        /\ root' = IF root_dir[m(s)] # 0 /\ dirs' = {} THEN 0 ELSE root
        /\ root_dir'[m(s)] = 0
    BY <1>1, <1>7 DEF DataInitFails, RemoveRootDir, MadeBy, Made, Functions
  <2> QED
    BY <1>1, <2>1, RootEnough
<1>8. CASE InitFailed(s) \/ Closed(s)
  <2>1. /\ pc[s] # "dir" /\ pc'[s] # "dir" /\ dirs' = dirs /\ root' = root /\ root_dir'[m(s)] = 0
    BY <1>1, <1>8 DEF InitFailed, Closed, Gone, fs, Functions
  <2> QED
    BY <1>1, <2>1, RootEnough
<1>9. CASE \/ Lock0(s) \/ LockFailed(s) \/ NoRootDir(s) \/ DataInit(s)
           \/ RegisterCtl(s) \/ RegisterCtlFails(s) \/ PrintInit(s) \/ PrintInitFails(s)
  <2>1. pc[s] # "dir" /\ pc'[s] # "dir" /\ UNCHANGED <<dirs, root, root_dir>>
    BY <1>1, <1>9 DEF Lock0, LockFailed, NoRootDir, DataInit, RegisterCtl, RegisterCtlFails,
       PrintInit, PrintInitFails, LockDir, LockBusy, GaveUp, fs, module, Functions
  <2> QED
    BY <1>1, <2>1, RootEnough
<1>10. CASE \/ CreateWorkqueue(s) \/ WorkqueueFails(s) \/ CleanupAndExit(s) \/ UnregisterCtl(s)
            \/ DataClose(s) \/ Lock1(s) \/ RelockFailed(s)
  <2>1. pc[s] # "dir" /\ pc'[s] # "dir" /\ UNCHANGED <<dirs, root, root_dir>>
    BY <1>1, <1>10 DEF CreateWorkqueue, WorkqueueFails, CleanupAndExit, UnregisterCtl, DataClose,
       Lock1, RelockFailed, LockDir, LockBusy, GaveUp, fs, module, Functions
  <2> QED
    BY <1>1, <2>1, RootEnough
<1> QED
  BY <1>4, <1>5, <1>6, <1>7, <1>8, <1>9, <1>10, ZenonT(30) DEF Kernel, InitModule, CleanupModule

-----------------------------------------------------------------------------
\* What the types say of a process and of a module.
LEMMA TypesAt ==
  TypeOK => /\ \A t \in Process : m(t) \in Name /\ owns[t] \in Nat
            /\ \A n \in Name : /\ inst[n] \in Nat /\ refs[n] \subseteq Process
                              /\ mod[n] \in {"absent", "coming", "live", "going"}
BY ModuleNames DEF TypeOK, m

\* A module becomes live under the process that owns the new instance, and goes
\* away only when nobody has its channel open, or when nobody owns it yet.
LEMMA KernelChannels ==
  ASSUME TypeOK, TypeOK', OneInside, Channels, NEW s \in Process, MadeBy(s), Kernel(s)
  PROVE  Channels'
<1> USE DEF m, Goto, At
<1>1. Frame(s) /\ Inside(s) /\ modname' = modname /\ UNCHANGED <<inst, refs>>
  BY KernelFrame, KernelProcess, KernelModule, Zenon
<1>2. /\ Functions
      /\ \A t \in Process : m(t) \in Name /\ owns[t] \in Nat
      /\ \A n \in Name : inst[n] \in Nat /\ refs[n] \subseteq Process
  BY TypesAt, FunctionsOK
<1>3. \A n \in Name : \A t \in refs[n] :
        t \in Process /\ t # s /\ m(t) = n /\ pc'[t] \in {"relocating", "running"}
  BY <1>1, <1>2 DEF Channels, Inside, InKernel, Frame
<1>4. CASE CreateWorkqueue(s)
  <2>1. /\ mod' = [mod EXCEPT ![m(s)] = "live"]
        /\ owns' = [owns EXCEPT ![s] = inst[m(s)]]
    BY <1>4 DEF CreateWorkqueue
  <2>2. \A t \in Process : owns'[t] <= inst'[m(t)']
    BY <1>1, <1>2, <2>1 DEF Channels, Functions
  <2>3. \A t \in Process : mod'[m(t)'] = "coming" => owns'[t] < inst'[m(t)']
    BY <1>1, <1>2, <2>1 DEF Channels, Functions
  <2>4. \A n \in Name : mod'[n] = "going" => refs'[n] = {}
    BY <1>1, <1>2, <2>1 DEF Channels, Functions
  <2>5. \A n \in Name : \A t \in refs'[n] :
          /\ m(t)' = n /\ pc'[t] \in {"relocating", "running"}
          /\ owns'[t] = inst'[n] => mod'[n] = "live"
    BY <1>1, <1>2, <1>3, <2>1 DEF Channels, Functions
  <2> QED
    BY <2>2, <2>3, <2>4, <2>5, Zenon DEF Channels
<1>5. CASE InitFailed(s) \/ Closed(s)
  <2>1. mod' = [mod EXCEPT ![m(s)] = "absent"] /\ owns' = owns
    BY <1>5 DEF InitFailed, Closed, Gone
  <2>2. mod[m(s)] \in {"coming", "going"}
    BY <1>5 DEF InitFailed, Closed, MadeBy, Made
  <2> QED
    BY <1>1, <1>2, <1>3, <2>1, <2>2 DEF Channels, Functions
<1>6. CASE ~CreateWorkqueue(s) /\ ~InitFailed(s) /\ ~Closed(s)
  <2>1. UNCHANGED <<mod, owns>>
    BY <1>6, ZenonT(30) DEF Kernel, InitModule, CleanupModule, Lock0, LockFailed, GetRootDir, NoRootDir,
         MakeModuleDir, NoModuleDir, DataInit, DataInitFails, RegisterCtl, RegisterCtlFails,
         PrintInit, PrintInitFails, WorkqueueFails, CleanupAndExit, UnregisterCtl, DataClose,
         Lock1, RelockFailed, RemoveDirs, LockDir, LockBusy, module
  <2> QED
    BY <1>1, <1>2, <1>3, <2>1 DEF Channels
<1> QED
  BY <1>4, <1>5, <1>6

\* A step of init_module or delete_module keeps the invariant.
LEMMA KernelKeeps ==
  ASSUME InsertionInv, NEW s \in Process, Kernel(s)
  PROVE  InsertionInv'
<1>1. /\ TypeOK /\ TypeOK' /\ OneInside /\ InTransit /\ Settled /\ Locked /\ RootKept /\ Channels
      /\ Frame(s) /\ Inside(s)
  BY KernelTypes, KernelFrame DEF InsertionInv
<1>2. MadeBy(s)
  BY <1>1 DEF InTransit
<1>3. Local(s)'
  BY <1>1, <1>2, KernelLocal
<1>4. OneInside' /\ InTransit' /\ Settled'
  BY <1>1, <1>3, LocalEnough
<1> QED
  BY <1>1, <1>2, <1>4, KernelLocked, KernelRoot, KernelChannels DEF InsertionInv
=============================================================================
