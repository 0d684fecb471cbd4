----------------------------- MODULE Insertion -----------------------------
(***************************************************************************)
(* Insertion and removal of modules: staprun and the stapio it becomes     *)
(* (staprun.c, ctl.c, mainloop.c), and the module's transport coming and   *)
(* going (transport.c, control.c, relay_v2.c, debugfs.c).  Modules share   *)
(* the debugfs directory "systemtap", which the first one makes and the    *)
(* last one removes, under the lock directory "systemtap_lock".            *)
(*                                                                         *)
(* A process executes the module's init and exit code inside its           *)
(* init_module and delete_module calls.  debugfs and the module loader are *)
(* the kernel's.                                                           *)
(***************************************************************************)
EXTENDS Integers, FiniteSets, BufferSize

None == "none"

CONSTANTS
  Name,       \* names of modules
  Process,    \* staprun processes
  Modnames,   \* the ways in which they may be for the modules
  NUMTRIES,   \* how often the lock directory is tried again (50)
  BufSizes,   \* the values of -b to consider, 0 if not given
  FreeMB,     \* free and buffered memory
  MaxFaults   \* bound: calls of the kernel that fail

ASSUME InsertionAssumption ==
  /\ Modnames \subseteq [Process -> Name]
  /\ NUMTRIES \in Nat /\ MaxFaults \in Nat /\ FreeMB \in Nat
  /\ BufSizes \subseteq BufferArg \cup {0}
  /\ None \notin Name

VARIABLES
  (* debugfs *)
  lock,       \* the module whose lock directory exists; "stale": of one that died
  root,       \* which "systemtap" directory there is, 0 if none
  roots,      \* how many there have been
  dirs,       \* the module directories in it
  files,      \* the files in the directory of each module
  (* a module *)
  mod,        \* "absent", "coming", "live" or "going"
  inst,       \* counts its insertions
  refs,       \* the processes that have its control channel open
  bufsize,    \* _stp_bufsize
  root_dir,   \* __stp_root_dir: the directory it points to, or 0
  module_dir, \* __stp_module_dir # NULL
  res,        \* the resources it holds
  (* a process *)
  modname,    \* the module it is for
  pc,
  attempt,    \* of insert_stap_module
  tries,      \* numtries
  arg,        \* its -b
  owns,       \* the instance it inserted, or 0
  (* history *)
  faults,     \* calls that failed
  left,       \* modules that left their directory behind
  rivals      \* processes that were at a module at the same time as another

fs == <<lock, root, roots, dirs, files>>
module == <<mod, inst, refs, bufsize, root_dir, module_dir, res>>
process == <<modname, pc, attempt, tries, arg, owns>>
vars == <<fs, module, process, faults, left, rivals>>

m(s) == modname[s]
Goto(s, l) == pc' = [pc EXCEPT ![s] = l]
At(s, l) == pc[s] = l

(* a call of the kernel fails *)
Fault == faults < MaxFaults /\ faults' = faults + 1

(* where a process can be: not running, in one of its calls of init_module and
   delete_module, or in its own code *)
Idle == {"start", "failed", "exited", "removed"}
InKernel == {"lock", "root", "dir", "data", "ctl", "print", "wq", "initfailed", "cleanup",
             "unregister", "fsclose", "relock", "rmdir", "closed"}
InUser == {"insert", "returned", "inserted", "relocating", "exec", "running", "delete"}
Resource == {"pool", "print", "timer", "wq"}
Datafiles == {"dropped", "trace"}

-----------------------------------------------------------------------------
(* _stp_lock_transport_dir: the creation of the lock directory is the lock;
   init and exit then go on at different places *)
LockDir(s, from, to) ==
  /\ At(s, from) /\ lock = None
  /\ lock' = m(s)
  /\ Goto(s, to)
  /\ UNCHANGED <<root, roots, dirs, files, module, attempt, tries, arg, owns, faults, left>>

LockBusy(s, from) ==
  /\ At(s, from) /\ lock # None
  /\ tries[s] < NUMTRIES
  /\ tries' = [tries EXCEPT ![s] = @ + 1]
  /\ UNCHANGED <<fs, module, pc, attempt, arg, owns, faults, left>>

(* mutant: the tries are not limited *)
GaveUpNever(s, from) == FALSE

GaveUp(s, from) == At(s, from) /\ lock # None /\ tries[s] = NUMTRIES

(* _stp_unlock_transport_dir *)
Unlock == lock' = None

(* mutant: the directory is removed although others use it *)
RemoveRootAlways(s) ==
  /\ root' = IF root_dir[m(s)] # 0 THEN 0 ELSE root
  /\ root_dir' = [root_dir EXCEPT ![m(s)] = 0]
  /\ UNCHANGED roots

(* _stp_remove_root_dir: dirs' is what is left in it *)
RemoveRootDir(s) ==
  /\ root' = IF root_dir[m(s)] # 0 /\ dirs' = {} THEN 0 ELSE root
  /\ root_dir' = [root_dir EXCEPT ![m(s)] = 0]
  /\ UNCHANGED roots

-----------------------------------------------------------------------------
(* _stp_transport_init, in the init_module call of s *)

Lock0(s) == LockDir(s, "lock", "root") \/ LockBusy(s, "lock")

LockFailed(s) ==
  /\ GaveUp(s, "lock")
  /\ Goto(s, "initfailed")
  /\ UNCHANGED <<fs, module, attempt, tries, arg, owns, faults, left>>

(* _stp_get_root_dir: created, or found if it is already there *)
GetRootDir(s) ==
  /\ At(s, "root")
  /\ IF root = 0 THEN roots' = roots + 1 /\ root' = roots + 1
     ELSE UNCHANGED <<root, roots>>
  /\ root_dir' = [root_dir EXCEPT ![m(s)] = root']
  /\ Goto(s, "dir")
  /\ UNCHANGED <<lock, dirs, files, mod, inst, refs, bufsize, module_dir, res, attempt, tries,
                 arg, owns, faults, left>>

NoRootDir(s) ==
  /\ At(s, "root") /\ Fault
  /\ Unlock
  /\ Goto(s, "initfailed")
  /\ UNCHANGED <<root, roots, dirs, files, module, attempt, tries, arg, owns, left>>

(* debugfs_create_dir (module_name, root_dir) *)
MakeModuleDir(s) ==
  /\ At(s, "dir") /\ m(s) \notin dirs
  /\ dirs' = dirs \cup {m(s)}
  /\ module_dir' = [module_dir EXCEPT ![m(s)] = TRUE]
  /\ Goto(s, "data")
  /\ UNCHANGED <<lock, root, roots, files, mod, inst, refs, bufsize, root_dir, res, attempt,
                 tries, arg, owns, faults, left>>

NoModuleDir(s) ==
  /\ At(s, "dir")
  /\ Fault \/ (m(s) \in dirs /\ UNCHANGED faults)
  /\ UNCHANGED dirs /\ RemoveRootDir(s)
  /\ Unlock
  /\ Goto(s, "initfailed")
  /\ UNCHANGED <<files, mod, inst, refs, bufsize, module_dir, res, attempt, tries, arg, owns, left>>

(* _stp_transport_data_fs_init: the "dropped" file, the memory, relay_open *)
Fits(b) == NPages(b, 1) <= FreeMB * MB * PagesPerUnit

DataInit(s) ==
  /\ At(s, "data") /\ Fits(bufsize[m(s)])
  /\ files' = [files EXCEPT ![m(s)] = Datafiles]
  /\ Unlock
  /\ Goto(s, "ctl")
  /\ UNCHANGED <<root, roots, dirs, module, attempt, tries, arg, owns, faults, left>>

(* its own error path removes the files; _stp_transport_fs_init then removes the
   root directory if it is empty, but not the module's directory in it *)
DataInitFails(s) ==
  /\ At(s, "data")
  /\ Fault \/ (~Fits(bufsize[m(s)]) /\ UNCHANGED faults)
  /\ UNCHANGED dirs /\ RemoveRootDir(s)
  /\ Unlock
  /\ left' = left \cup {m(s)}
  /\ Goto(s, "initfailed")
  /\ UNCHANGED <<files, mod, inst, refs, bufsize, module_dir, res, attempt, tries, arg, owns>>

(* _stp_register_ctl_channel: the message pool and the ".cmd" file *)
RegisterCtl(s) ==
  /\ At(s, "ctl")
  /\ files' = [files EXCEPT ![m(s)] = @ \cup {".cmd"}]
  /\ res' = [res EXCEPT ![m(s)] = {"pool"}]
  /\ Goto(s, "print")
  /\ UNCHANGED <<lock, root, roots, dirs, mod, inst, refs, bufsize, root_dir, module_dir, attempt,
                 tries, arg, owns, faults, left>>

RegisterCtlFails(s) ==
  /\ At(s, "ctl") /\ Fault
  /\ Goto(s, "fsclose")
  /\ UNCHANGED <<fs, module, attempt, tries, arg, owns, left>>

PrintInit(s) ==
  /\ At(s, "print")
  /\ res' = [res EXCEPT ![m(s)] = @ \cup {"print", "timer"}]
  /\ Goto(s, "wq")
  /\ UNCHANGED <<fs, mod, inst, refs, bufsize, root_dir, module_dir, attempt, tries, arg, owns,
                 faults, left>>

PrintInitFails(s) ==
  /\ At(s, "print") /\ Fault
  /\ Goto(s, "unregister")
  /\ UNCHANGED <<fs, module, attempt, tries, arg, owns, left>>

(* create_workqueue, STP_TRANSPORT, and init_module returns 0 *)
CreateWorkqueue(s) ==
  /\ At(s, "wq")
  /\ res' = [res EXCEPT ![m(s)] = @ \cup {"wq"}]
  /\ mod' = [mod EXCEPT ![m(s)] = "live"]
  /\ owns' = [owns EXCEPT ![s] = inst[m(s)]]
  /\ Goto(s, "inserted")
  /\ UNCHANGED <<fs, inst, refs, bufsize, root_dir, module_dir, attempt, tries, arg, faults, left>>

(* mutant: err3 forgets the print buffers *)
WorkqueueFailsLeaky(s) ==
  /\ At(s, "wq") /\ Fault
  /\ Goto(s, "unregister")
  /\ UNCHANGED <<fs, module, attempt, tries, arg, owns, left>>

(* err3: _stp_print_cleanup *)
WorkqueueFails(s) ==
  /\ At(s, "wq") /\ Fault
  /\ res' = [res EXCEPT ![m(s)] = @ \ {"print"}]
  /\ Goto(s, "unregister")
  /\ UNCHANGED <<fs, mod, inst, refs, bufsize, root_dir, module_dir, attempt, tries, arg, owns, left>>

-----------------------------------------------------------------------------
(* _stp_transport_close, in the delete_module call of s; init's error path joins
   it at _stp_unregister_ctl_channel or at _stp_transport_fs_close *)

Closing(s) == mod[m(s)] = "going"

(* _stp_cleanup_and_exit stops the timer, then destroy_workqueue *)
CleanupAndExit(s) ==
  /\ At(s, "cleanup")
  /\ res' = [res EXCEPT ![m(s)] = @ \ {"timer", "wq"}]
  /\ Goto(s, "unregister")
  /\ UNCHANGED <<fs, mod, inst, refs, bufsize, root_dir, module_dir, attempt, tries, arg, owns,
                 faults, left>>

UnregisterCtl(s) ==
  /\ At(s, "unregister")
  /\ files' = [files EXCEPT ![m(s)] = @ \ {".cmd"}]
  /\ res' = [res EXCEPT ![m(s)] = @ \ {"pool"}]
  /\ Goto(s, "fsclose")
  /\ UNCHANGED <<lock, root, roots, dirs, mod, inst, refs, bufsize, root_dir, module_dir, attempt,
                 tries, arg, owns, faults, left>>

(* _stp_transport_fs_close: the data files first *)
DataClose(s) ==
  /\ At(s, "fsclose")
  /\ files' = [files EXCEPT ![m(s)] = @ \ Datafiles]
  /\ res' = [res EXCEPT ![m(s)] = @ \ {"timer"}]
  /\ tries' = [tries EXCEPT ![s] = 0]
  /\ Goto(s, "relock")
  /\ UNCHANGED <<lock, root, roots, dirs, mod, inst, refs, bufsize, root_dir, module_dir, attempt,
                 arg, owns, faults, left>>

Lock1(s) == LockDir(s, "relock", "rmdir") \/ LockBusy(s, "relock")

RemoveDirs(s) ==
  /\ At(s, "rmdir")
  /\ dirs' = dirs \ {m(s)}
  /\ module_dir' = [module_dir EXCEPT ![m(s)] = FALSE]
  /\ RemoveRootDir(s)
  /\ Unlock
  /\ Goto(s, "closed")
  /\ UNCHANGED <<files, mod, inst, refs, bufsize, res, attempt, tries, arg, owns, faults, left>>

(* the lock is not to be had: the directories stay *)
RelockFailed(s) ==
  /\ GaveUp(s, "relock")
  /\ left' = left \cup {m(s)}
  /\ Goto(s, "closed")
  /\ UNCHANGED <<fs, module, attempt, tries, arg, owns, faults>>

(* the module's memory is freed and its statics with it *)
Gone(s) ==
  /\ mod' = [mod EXCEPT ![m(s)] = "absent"]
  /\ root_dir' = [root_dir EXCEPT ![m(s)] = 0]
  /\ module_dir' = [module_dir EXCEPT ![m(s)] = FALSE]

(* _stp_print_cleanup ends cleanup_module; in init's error path the buffers are
   gone by now *)
Closed(s) ==
  /\ At(s, "closed")
  /\ res' = [res EXCEPT ![m(s)] = IF Closing(s) THEN @ \ {"print"} ELSE @]
  /\ Gone(s)
  /\ Goto(s, IF ~Closing(s) THEN "returned" ELSE IF attempt[s] = 0 THEN "removed" ELSE "insert")
  /\ UNCHANGED <<fs, inst, refs, bufsize, attempt, tries, arg, owns, faults, left>>

InitFailed(s) ==
  /\ At(s, "initfailed")
  /\ Gone(s)
  /\ Goto(s, "returned")
  /\ UNCHANGED <<fs, inst, refs, bufsize, res, attempt, tries, arg, owns, faults, left>>

-----------------------------------------------------------------------------
(* staprun: main and init_staprun *)

Start(s) ==
  LET others == {t \in Process \ {s} : m(t) = m(s) /\ pc[t] \notin Idle} IN
  /\ At(s, "start")
  /\ \E b \in BufSizes : arg' = [arg EXCEPT ![s] = b]
  /\ attempt' = [attempt EXCEPT ![s] = 1]
  /\ rivals' = IF others = {} THEN rivals ELSE rivals \cup others \cup {s}
  /\ Goto(s, "insert")
  /\ UNCHANGED <<fs, module, tries, owns, faults, left>>

(* insert_module: a new instance, whose init runs in this call *)
InsertModule(s) ==
  /\ At(s, "insert") /\ mod[m(s)] = "absent"
  /\ mod' = [mod EXCEPT ![m(s)] = "coming"]
  /\ inst' = [inst EXCEPT ![m(s)] = @ + 1]
  /\ bufsize' = [bufsize EXCEPT ![m(s)] = arg[s]]
  /\ tries' = [tries EXCEPT ![s] = 0]
  /\ Goto(s, "lock")
  /\ UNCHANGED <<fs, refs, root_dir, module_dir, res, attempt, arg, owns, faults, left>>

(* EEXIST *)
InsertExists(s) ==
  /\ At(s, "insert") /\ mod[m(s)] # "absent"
  /\ Goto(s, "returned")
  /\ UNCHANGED <<fs, module, attempt, tries, arg, owns, faults, left>>

(* mutant: the module's users are not counted *)
MayDeleteUsed(s) == mod[m(s)] = "live"

(* delete_module (modname, O_NONBLOCK) succeeds only on a live module that
   nobody uses *)
MayDelete(s) == mod[m(s)] = "live" /\ refs[m(s)] = {}

(* mutant: the second insertion is tried at once *)
RetryAtOnce(s) ==
  /\ At(s, "returned")
  /\ IF attempt[s] = 1
     THEN Goto(s, "insert") /\ attempt' = [attempt EXCEPT ![s] = 2]
     ELSE Goto(s, "failed") /\ UNCHANGED attempt
  /\ UNCHANGED <<fs, module, tries, arg, owns, faults, left>>

(* the first attempt failed: try to unload, then insert again *)
Retry(s) ==
  /\ At(s, "returned")
  /\ IF attempt[s] = 1
     THEN /\ attempt' = [attempt EXCEPT ![s] = 2]
          /\ IF MayDelete(s)
             THEN mod' = [mod EXCEPT ![m(s)] = "going"] /\ Goto(s, "cleanup")
             ELSE Goto(s, "insert") /\ UNCHANGED mod
     ELSE Goto(s, "failed") /\ UNCHANGED <<attempt, mod>>
  /\ UNCHANGED <<fs, inst, refs, bufsize, root_dir, module_dir, res, tries, arg, owns, faults, left>>

(* init_ctl_channel in send_relocations, then in init_stapio after the exec;
   EBUSY if someone else has it *)
MayOpen(s) == ".cmd" \in files[m(s)] /\ mod[m(s)] # "going" /\ refs[m(s)] = {}

Open(s, from, to) ==
  /\ At(s, from) /\ MayOpen(s)
  /\ refs' = [refs EXCEPT ![m(s)] = @ \cup {s}]
  /\ Goto(s, to)
  /\ UNCHANGED <<fs, mod, inst, bufsize, root_dir, module_dir, res, attempt, tries, arg, owns,
                 faults, left>>

(* exit (1), and the module stays *)
OpenFails(s, from) ==
  /\ At(s, from) /\ ~MayOpen(s)
  /\ Goto(s, "exited")
  /\ UNCHANGED <<fs, module, attempt, tries, arg, owns, faults, left>>

Close(s, from, to) ==
  /\ At(s, from)
  /\ refs' = [refs EXCEPT ![m(s)] = @ \ {s}]
  /\ attempt' = [attempt EXCEPT ![s] = 0]
  /\ Goto(s, to)
  /\ UNCHANGED <<fs, mod, inst, bufsize, root_dir, module_dir, res, tries, arg, owns, faults, left>>

SendRelocations(s) == Open(s, "inserted", "relocating") \/ Close(s, "relocating", "exec")
Stapio(s) == Open(s, "exec", "running") \/ Close(s, "running", "delete")
NoChannel(s) == OpenFails(s, "inserted") \/ OpenFails(s, "exec")

(* cleanup_and_exit runs staprun -d *)
RemoveModule(s) ==
  /\ At(s, "delete")
  /\ IF MayDelete(s)
     THEN mod' = [mod EXCEPT ![m(s)] = "going"] /\ Goto(s, "cleanup")
     ELSE Goto(s, "exited") /\ UNCHANGED mod
  /\ UNCHANGED <<fs, inst, refs, bufsize, root_dir, module_dir, res, attempt, tries, arg, owns,
                 faults, left>>

(* SIGKILL: the process is gone and its file closed, the module is not *)
Killed(s) ==
  /\ pc[s] \in {"inserted", "relocating", "exec", "running", "delete"}
  /\ refs' = [refs EXCEPT ![m(s)] = @ \ {s}]
  /\ Goto(s, "exited")
  /\ UNCHANGED <<fs, mod, inst, bufsize, root_dir, module_dir, res, attempt, tries, arg, owns,
                 faults, left>>

-----------------------------------------------------------------------------
(* A module may be left from a stapio that was killed, and the lock directory
   from a module that died in its init. *)
Init ==
  /\ lock \in {None, "stale"}
  /\ mod \in [Name -> {"absent", "live"}]
  /\ dirs = {n \in Name : mod[n] = "live"}
  /\ root = (IF dirs = {} THEN 0 ELSE 1) /\ roots = root
  /\ files = [n \in Name |-> IF n \in dirs THEN Datafiles \cup {".cmd"} ELSE {}]
  /\ inst = [n \in Name |-> 0] /\ refs = [n \in Name |-> {}] /\ bufsize = [n \in Name |-> 0]
  /\ root_dir = [n \in Name |-> IF n \in dirs THEN root ELSE 0]
  /\ module_dir = [n \in Name |-> n \in dirs]
  /\ res = [n \in Name |-> IF n \in dirs THEN Resource ELSE {}]
  /\ modname \in Modnames /\ pc = [s \in Process |-> "start"]
  /\ attempt = [s \in Process |-> 0] /\ tries = [s \in Process |-> 0]
  /\ arg = [s \in Process |-> 0] /\ owns = [s \in Process |-> 0]
  /\ faults = 0 /\ left = {} /\ rivals = {}

InitModule(s) ==
  \/ Lock0(s) \/ LockFailed(s) \/ GetRootDir(s) \/ NoRootDir(s)
  \/ MakeModuleDir(s) \/ NoModuleDir(s) \/ DataInit(s) \/ DataInitFails(s)
  \/ RegisterCtl(s) \/ RegisterCtlFails(s) \/ PrintInit(s) \/ PrintInitFails(s)
  \/ CreateWorkqueue(s) \/ WorkqueueFails(s) \/ InitFailed(s)

CleanupModule(s) ==
  \/ CleanupAndExit(s) \/ UnregisterCtl(s) \/ DataClose(s)
  \/ Lock1(s) \/ RelockFailed(s) \/ RemoveDirs(s) \/ Closed(s)

User(s) ==
  \/ InsertModule(s) \/ InsertExists(s) \/ Retry(s) \/ SendRelocations(s) \/ Stapio(s) \/ NoChannel(s)
  \/ RemoveModule(s) \/ Killed(s)

Kernel(s) == (InitModule(s) \/ CleanupModule(s)) /\ UNCHANGED <<modname, rivals>>

Next ==
  \E s \in Process :
    \/ Kernel(s)
    \/ User(s) /\ UNCHANGED <<modname, rivals>>
    \/ Start(s) /\ UNCHANGED modname

Spec == Init /\ [][Next]_vars

(* init_module and delete_module are not interrupted *)
FairSpec == Spec /\ \A s \in Process : WF_vars(Kernel(s))

-----------------------------------------------------------------------------
TypeOK ==
  /\ lock \in Name \cup {None, "stale"}
  /\ root \in 0..roots /\ roots \in Nat
  /\ dirs \subseteq Name
  /\ files \in [Name -> SUBSET (Datafiles \cup {".cmd"})]
  /\ mod \in [Name -> {"absent", "coming", "live", "going"}]
  /\ inst \in [Name -> Nat]
  /\ refs \in [Name -> SUBSET Process]
  /\ bufsize \in [Name -> BufSizes \cup {0}]
  /\ root_dir \in [Name -> 0..roots]
  /\ module_dir \in [Name -> BOOLEAN]
  /\ res \in [Name -> SUBSET Resource]
  /\ modname \in Modnames /\ pc \in [Process -> Idle \cup InKernel \cup InUser]
  /\ attempt \in [Process -> 0..2] /\ tries \in [Process -> 0..NUMTRIES]
  /\ arg \in [Process -> BufSizes \cup {0}] /\ owns \in [Process -> Nat]
  /\ faults \in 0..MaxFaults /\ left \subseteq Name /\ rivals \subseteq Process

(* The pointer to the "systemtap" directory that a module keeps from its init to
   its exit, with no reference to the directory, still points to the directory
   that is there: no other module has removed it in between, and no module's
   directory is left without it. *)
RootValid ==
  /\ \A n \in Name : root_dir[n] # 0 => root_dir[n] = root
  /\ dirs # {} => root # 0

(* No file is without its directory.  Once a module is gone, by a failed init at
   whichever step or by its removal, no file, buffer, timer or work queue of it is
   left; its directory is left only if the data files could not be made or the
   lock could not be had. *)
NothingLeft ==
  \A n \in Name :
    /\ files[n] # {} => n \in dirs
    /\ mod[n] = "absent" => /\ files[n] = {} /\ res[n] = {}
                            /\ n \in dirs => n \in left

(* A process that has the control channel of the module it inserted open finds
   the module there, with its work queue, message pool and print buffers. *)
OwnChannelSafe ==
  \A n \in Name : \A s \in refs[n] :
    owns[s] = inst[n] => mod[n] = "live" /\ {"pool", "print", "wq"} \subseteq res[n]

(* The same of any process that has it open.  Not so when one staprun replaces the
   module between another's staprun and stapio: that stapio may then open the new
   module's channel before its work queue is made. *)
ChannelSafe ==
  \A n \in Name : refs[n] # {} => mod[n] = "live" /\ {"pool", "print", "wq"} \subseteq res[n]

(* What may make staprun give up. *)
Excuse(s) == faults > 0 \/ s \in rivals \/ ~Fits(arg[s]) \/ tries[s] = NUMTRIES

(* A module left behind by a killed stapio does not block a rerun: staprun fails
   to insert its module only if a call failed, the buffer does not fit, the lock
   is not to be had, another staprun is at the same module, or an earlier one
   left the module's directory behind. *)
RerunWorks == \A s \in Process : pc[s] = "failed" => Excuse(s) \/ m(s) \in left

(* The same without the directory left behind.  Not so after a buffer that did
   not fit: the directory that the failed init leaves blocks every later insertion
   of the module, whatever its buffer. *)
NotBlocked == \A s \in Process : pc[s] = "failed" => Excuse(s)

(* An open trace buffer has the size its session asked for with -b, in 16
   sub-buffers at least, and in 64 at most if they are smaller than a megabyte. *)
BufferAsAsked ==
  \A n \in Name : "trace" \in files[n] /\ bufsize[n] # 0 => AsAsked(bufsize[n])

(* An insertion or a removal once begun comes to its end, though the lock
   directory be one that nobody will ever remove. *)
CallReturns == \A s \in Process : pc[s] \in InKernel ~> pc[s] \notin InKernel
=============================================================================
