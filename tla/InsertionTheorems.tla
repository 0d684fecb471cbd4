------------------------- MODULE InsertionTheorems -------------------------
(***************************************************************************)
(* Why insertions and removals of modules leave nothing behind.  Besides   *)
(* the steps of module InsertionProofs there are the calls of init_module  *)
(* and delete_module (Enters), and the other steps of a process (Outside). *)
(* Then what staprun's -b and its second attempt come to: a buffer of the  *)
(* size asked for (module BufferSize), and a rerun that what an earlier    *)
(* session has left behind does not block.                                 *)
(***************************************************************************)
EXTENDS InsertionProofs

-----------------------------------------------------------------------------
\* A process calls init_module for an absent module, or delete_module for a
\* live one that nobody uses.
Enters(s) ==
  /\ UNCHANGED modname
  /\ \/ InsertModule(s)
     \/ Retry(s) /\ attempt[s] = 1 /\ MayDelete(s)
     \/ RemoveModule(s) /\ MayDelete(s)

\* What the two calls do.
LEMMA EnterMoves ==
  ASSUME NEW s \in Process, Enters(s)
  PROVE  /\ pc[s] \in {"insert", "returned", "delete"}
         /\ UNCHANGED <<fs, root_dir, module_dir, res, refs, owns, left, faults, arg, modname>>
         /\ attempt' = attempt \/ attempt' = [attempt EXCEPT ![s] = 2]
         /\ tries' = tries \/ tries' = [tries EXCEPT ![s] = 0]
         /\ bufsize' = bufsize \/ bufsize' = [bufsize EXCEPT ![m(s)] = arg[s]]
         /\ \/ /\ pc' = [pc EXCEPT ![s] = "lock"] /\ mod[m(s)] = "absent"
               /\ mod' = [mod EXCEPT ![m(s)] = "coming"] /\ inst' = [inst EXCEPT ![m(s)] = @ + 1]
            \/ /\ pc' = [pc EXCEPT ![s] = "cleanup"] /\ mod[m(s)] = "live" /\ refs[m(s)] = {}
               /\ mod' = [mod EXCEPT ![m(s)] = "going"] /\ inst' = inst
<1> USE DEF Goto, At
<1>1. CASE InsertModule(s)
  BY <1>1, Zenon DEF InsertModule, Enters
<1>2. CASE Retry(s) /\ attempt[s] = 1 /\ MayDelete(s)
  BY <1>2, Zenon DEF Retry, MayDelete, Enters
<1>3. CASE RemoveModule(s) /\ MayDelete(s)
  BY <1>3, Zenon DEF RemoveModule, MayDelete, Enters
<1> QED
  BY <1>1, <1>2, <1>3, Zenon DEF Enters

\* They are about the caller and its module.
LEMMA EnterFrame ==
  ASSUME TypeOK, NEW s \in Process, Enters(s)
  PROVE  Frame(s) /\ faults' = faults /\ left' = left
<1>1. m(s) \in Name /\ Functions
  BY ModuleNames, FunctionsOK DEF m
<1> QED
  BY <1>1, EnterMoves DEF Frame, Functions, fs

\* They keep the types,
LEMMA EnterTypes ==
  ASSUME TypeOK, NEW s \in Process, Enters(s), UNCHANGED rivals
  PROVE  TypeOK'
<1>1. m(s) \in Name /\ arg[s] \in BufSizes \cup {0}
  BY ModuleNames DEF m, TypeOK
<1>2. UNCHANGED <<fs, root_dir, module_dir, res, refs, owns, left, faults, arg, modname, rivals>>
  BY EnterMoves
<1>3. /\ pc' \in [Process -> Idle \cup InKernel \cup InUser]
      /\ mod' \in [Name -> {"absent", "coming", "live", "going"}]
  <2>1. /\ \E l \in InKernel : pc' = [pc EXCEPT ![s] = l]
        /\ \E v \in {"coming", "going"} : mod' = [mod EXCEPT ![m(s)] = v]
    BY EnterMoves DEF InKernel
  <2> QED
    BY <1>1, <2>1 DEF TypeOK
<1>4. attempt' \in [Process -> 0..2] /\ tries' \in [Process -> 0..NUMTRIES]
  <2>1. attempt' = attempt \/ attempt' = [attempt EXCEPT ![s] = 2]
    BY EnterMoves
  <2>2. tries' = tries \/ tries' = [tries EXCEPT ![s] = 0]
    BY EnterMoves
  <2>3. 0 \in 0..NUMTRIES
    BY InsertionAssumption
  <2> QED
    BY <2>1, <2>2, <2>3 DEF TypeOK
<1>5. inst' \in [Name -> Nat] /\ bufsize' \in [Name -> BufSizes \cup {0}]
  <2>1. inst' = inst \/ inst' = [inst EXCEPT ![m(s)] = @ + 1]
    BY EnterMoves
  <2>2. bufsize' = bufsize \/ bufsize' = [bufsize EXCEPT ![m(s)] = arg[s]]
    BY EnterMoves
  <2> QED
    BY <1>1, <2>1, <2>2 DEF TypeOK
<1> QED
  BY <1>2, <1>3, <1>4, <1>5 DEF TypeOK, fs

\* and the channels: nobody owns the new instance yet, and nobody has the
\* channel of a module that goes.
LEMMA EnterChannels ==
  ASSUME TypeOK, Channels, NEW s \in Process, Enters(s)
  PROVE  Channels'
<1> USE DEF m
<1>1. /\ m(s) \in Name /\ Functions /\ UNCHANGED <<refs, owns, modname>>
      /\ \A t \in Process : m(t) \in Name /\ owns[t] \in Nat
      /\ \A n \in Name : inst[n] \in Nat /\ refs[n] \subseteq Process
  BY TypesAt, FunctionsOK, EnterMoves
<1>2. \A n \in Name : \A t \in refs[n] : m(t) = n /\ pc'[t] \in {"relocating", "running"}
  BY <1>1, EnterMoves DEF Channels, Functions
<1>3. CASE /\ mod' = [mod EXCEPT ![m(s)] = "coming"] /\ mod[m(s)] = "absent"
           /\ inst' = [inst EXCEPT ![m(s)] = @ + 1]
  <2>1. /\ \A n \in Name : mod'[n] = IF n = m(s) THEN "coming" ELSE mod[n]
        /\ \A n \in Name : inst'[n] = IF n = m(s) THEN inst[n] + 1 ELSE inst[n]
    BY <1>1, <1>3 DEF Functions
  <2>2. \A t \in Process : owns[t] <= inst[m(t)] /\ (mod[m(t)] = "coming" => owns[t] < inst[m(t)])
    BY DEF Channels
  <2>3. \A t \in Process : owns[t] <= inst'[m(t)] /\ (mod'[m(t)] = "coming" => owns[t] < inst'[m(t)])
    BY <1>1, <2>1, <2>2
  <2>4. \A n \in Name : \A t \in refs[n] : owns[t] = inst'[n] => mod'[n] = "live"
    BY <1>1, <1>2, <2>1, <2>2 DEF Channels
  <2> QED
    BY <1>1, <1>2, <2>1, <2>3, <2>4 DEF Channels
<1>4. CASE mod' = [mod EXCEPT ![m(s)] = "going"] /\ inst' = inst /\ refs[m(s)] = {}
  <2>1. \A n \in Name : mod'[n] = IF n = m(s) THEN "going" ELSE mod[n]
    BY <1>1, <1>4 DEF Functions
  <2> QED
    BY <1>1, <1>2, <1>4, <2>1 DEF Channels
<1> QED
  BY <1>3, <1>4, EnterMoves

\* So they keep the invariant: nobody is inside the module then.
LEMMA EnterKeeps ==
  ASSUME InsertionInv, NEW s \in Process, Enters(s), UNCHANGED rivals
  PROVE  InsertionInv'
<1>1. /\ TypeOK /\ TypeOK' /\ OneInside /\ InTransit /\ Settled /\ Locked /\ RootKept /\ Channels
      /\ Frame(s) /\ m(s) \in Name /\ m(s)' = m(s) /\ Functions
  BY ModuleNames, FunctionsOK, EnterTypes, EnterFrame, EnterMoves DEF InsertionInv, m
<1>2. /\ \/ pc'[s] = "lock" /\ mod[m(s)] = "absent" /\ mod'[m(s)] = "coming"
         \/ pc'[s] = "cleanup" /\ mod[m(s)] = "live" /\ mod'[m(s)] = "going"
      /\ UNCHANGED <<lock, root, dirs, files, root_dir, res, left>> /\ pc[s] # "dir"
  BY <1>1, EnterMoves DEF Functions, fs
<1>3. Local(s)'
  <2>1. SettledAt(m(s))
    BY <1>1 DEF Settled
  <2> QED
    BY <1>1, <1>2, <2>1 DEF Local, MadeBy, Made, Inside, InKernel, SettledAt
<1>4. OneInside' /\ InTransit' /\ Settled'
  BY <1>1, <1>2, <1>3, LocalEnough
<1>5. Locked'
  BY <1>1, <1>2, LockedEnough DEF Holding
<1>6. RootKept'
  BY <1>1, <1>2, RootEnough
<1> QED
  BY <1>1, <1>4, <1>5, <1>6, EnterChannels DEF InsertionInv

-----------------------------------------------------------------------------
\* They keep the invariant: a channel can be opened only of a module that has
\* its ".cmd" file and is not going.
LEMMA OutsideKeeps ==
  ASSUME InsertionInv, NEW s \in Process, Outside(s), UNCHANGED rivals \/ Start(s)
  PROVE  InsertionInv'
<1> USE DEF m
<1>1. /\ TypeOK /\ TypeOK' /\ OneInside /\ InTransit /\ Settled /\ Locked /\ RootKept /\ Channels
      /\ m(s) \in Name /\ Functions
  BY OutsideTypes, ModuleNames, FunctionsOK DEF InsertionInv
<1>2. /\ UNCHANGED <<lock, root, roots, dirs, files, mod, inst, root_dir, res, owns, left, modname>>
      /\ pc[s] \notin InKernel /\ pc'[s] \notin InKernel
      /\ \A t \in Process : t # s => pc'[t] = pc[t]
  BY <1>1, OutsideMoves DEF fs
<1>3. \A t \in Process : /\ Inside(t)' = Inside(t) /\ (Inside(t) => pc'[t] = pc[t])
                        /\ (Inside(t) => MadeBy(t)' = MadeBy(t))
  BY <1>2 DEF Inside, MadeBy
<1>4. OneInside'
  BY <1>1, <1>2, <1>3 DEF OneInside
<1>5. InTransit'
  BY <1>1, <1>2, <1>3 DEF InTransit
<1>6. Settled'
  BY <1>1, <1>2 DEF Settled, SettledAt
<1>7. \A t \in Process : (pc'[t] \in Holding => pc[t] \in Holding) /\ (pc'[t] = "dir" <=> pc[t] = "dir")
  BY <1>2 DEF Holding, InKernel
<1>8. Locked'
  BY <1>1, <1>2, <1>7 DEF Locked, Holding
<1>9. RootKept'
  BY <1>1, <1>2, <1>7 DEF RootKept, RootValid
<1>10. Channels'
  <2>0. \A n \in Name : refs[n] \subseteq Process /\ mod[n] \in {"absent", "coming", "live", "going"}
    BY <1>1, TypesAt
  <2>1. CASE refs' = refs /\ pc[s] \notin {"relocating", "running"}
    BY <1>1, <1>2, <2>1, <2>0 DEF Channels
  <2>2. CASE refs' = [refs EXCEPT ![m(s)] = @ \ {s}]
    <3>1. \A n \in Name : refs'[n] \subseteq refs[n] /\ (n = m(s) => s \notin refs'[n])
      BY <1>1, <2>2 DEF Functions
    <3> QED
      BY <1>1, <1>2, <2>0, <3>1 DEF Channels
  <2>3. CASE /\ MayOpen(s) /\ refs' = [refs EXCEPT ![m(s)] = @ \cup {s}]
             /\ pc'[s] \in {"relocating", "running"}
    <3>1. mod[m(s)] \in {"coming", "live"}
      BY <1>1, <2>3, <2>0 DEF MayOpen, Settled, SettledAt
    <3>2. \A n \in Name : \A t \in refs'[n] : t \in refs[n] \/ (t = s /\ n = m(s))
      BY <1>1, <2>3 DEF Functions
    <3>3. mod[m(s)] = "coming" => owns[s] < inst[m(s)]
      BY <1>1 DEF Channels
    <3>4. owns[s] \in Nat /\ inst[m(s)] \in Nat
      BY <1>1, TypesAt
    <3>5. \A n \in Name : mod[n] = "going" => refs'[n] = refs[n]
      BY <1>1, <2>3, <3>1 DEF Functions
    <3>6. \A n \in Name : \A t \in refs'[n] : m(t) = n /\ pc'[t] \in {"relocating", "running"}
      BY <1>1, <1>2, <2>3, <2>0, <3>2 DEF Channels
    <3>7. \A n \in Name : \A t \in refs'[n] : owns[t] = inst[n] => mod[n] = "live"
      BY <1>1, <3>1, <3>2, <3>3, <3>4 DEF Channels
    <3> QED
      BY <1>1, <1>2, <3>5, <3>6, <3>7 DEF Channels
  <2> QED
    BY <1>1, <2>1, <2>2, <2>3, OutsideMoves
<1> QED
  BY <1>1, <1>4, <1>5, <1>6, <1>8, <1>9, <1>10 DEF InsertionInv

-----------------------------------------------------------------------------
Step(s) ==
  \/ Kernel(s)
  \/ User(s) /\ UNCHANGED <<modname, rivals>>
  \/ Start(s) /\ UNCHANGED modname

\* Every step is one of the three kinds.
LEMMA StepKinds ==
  ASSUME NEW s \in Process, Step(s)
  PROVE  \/ Kernel(s)
         \/ Enters(s) /\ UNCHANGED rivals
         \/ Outside(s) /\ (UNCHANGED rivals \/ Start(s))
BY Zenon DEF Step, User, Enters, Outside

\* What init_module, delete_module and the processes around them rely on holds
\* always: the state of a module is what its init or exit has made so far.
THEOREM InsertionInvariant == Spec => []InsertionInv
<1>1. Init => InsertionInv
  <2> SUFFICES ASSUME Init PROVE InsertionInv
    OBVIOUS
  <2> USE DEF m
  <2>1. /\ dirs \subseteq Name /\ root \in {0, 1} /\ roots = root
        /\ (dirs = {} => root = 0) /\ (dirs # {} => root = 1)
    BY DEF Init
  <2>2. /\ \A s \in Process : pc[s] = "start" /\ owns[s] = 0
        /\ \A n \in Name : inst[n] = 0 /\ refs[n] = {}
    BY DEF Init
  <2>3. \A n \in Name : mod[n] \in {"absent", "live"} /\ (n \in dirs <=> mod[n] = "live")
    BY DEF Init
  <2>4. TypeOK
    <3>1. /\ lock \in Name \cup {None, "stale"} /\ root \in 0..roots /\ roots \in Nat
      BY <2>1 DEF Init
    <3>2. /\ files \in [Name -> SUBSET (Datafiles \cup {".cmd"})]
          /\ mod \in [Name -> {"absent", "coming", "live", "going"}]
          /\ res \in [Name -> SUBSET Resource]
      BY DEF Init
    <3>3. /\ inst \in [Name -> Nat] /\ refs \in [Name -> SUBSET Process]
          /\ bufsize \in [Name -> BufSizes \cup {0}]
      BY DEF Init
    <3>4. module_dir \in [Name -> BOOLEAN]
      <4>1. module_dir = [n \in Name |-> n \in dirs]
        BY DEF Init
      <4>2. \A n \in Name : (n \in dirs) \in BOOLEAN
        OBVIOUS
      <4> QED
        BY <4>1, <4>2, Zenon
    <3>5. root_dir \in [Name -> 0..roots]
      BY <2>1 DEF Init
    <3>6. /\ modname \in Modnames /\ pc \in [Process -> Idle \cup InKernel \cup InUser]
          /\ attempt \in [Process -> 0..2] /\ tries \in [Process -> 0..NUMTRIES]
          /\ arg \in [Process -> BufSizes \cup {0}] /\ owns \in [Process -> Nat]
      BY InsertionAssumption DEF Init, Idle
    <3>7. faults \in 0..MaxFaults /\ left \subseteq Name /\ rivals \subseteq Process
      BY InsertionAssumption DEF Init
    <3> QED
      BY <2>1, <3>1, <3>2, <3>3, <3>4, <3>5, <3>6, <3>7 DEF TypeOK
  <2>5. OneInside /\ InTransit /\ Locked
    BY <2>2, <2>3 DEF OneInside, InTransit, Locked, Inside, InKernel
  <2>6. Settled
    BY <2>3 DEF Settled, SettledAt, AllFiles, Init
  <2>7. RootKept
    BY <2>1, <2>2 DEF RootKept, RootValid, Init
  <2>8. Channels
    <3>1. \A s \in Process : m(s) \in Name
      BY <2>4, ModuleNames
    <3> QED
      BY <2>2, <2>3, <3>1 DEF Channels
  <2> QED
    BY <2>4, <2>5, <2>6, <2>7, <2>8 DEF InsertionInv
<1>2. InsertionInv /\ [Next]_vars => InsertionInv'
  <2> SUFFICES ASSUME InsertionInv, [Next]_vars PROVE InsertionInv'
    OBVIOUS
  <2>1. CASE Next
    <3>1. PICK s \in Process : Step(s)
      BY <2>1, Zenon DEF Next, Step
    <3> QED
      BY <3>1, StepKinds, KernelKeeps, EnterKeeps, OutsideKeeps
  <2>2. CASE UNCHANGED vars
    <3>1. UNCHANGED <<lock, root, roots, dirs, files>> /\ UNCHANGED module /\ UNCHANGED process
          /\ UNCHANGED <<faults, left, rivals>>
      BY <2>2, Zenon DEF vars, fs
    <3> USE DEF m, module, process
    <3>2. TypeOK'
      BY <3>1 DEF InsertionInv, TypeOK
    <3>3. OneInside' /\ Settled' /\ Locked'
      BY <3>1 DEF InsertionInv, OneInside, Inside, Settled, SettledAt, Locked
    <3>4. InTransit'
      BY <3>1 DEF InsertionInv, InTransit, Inside, MadeBy
    <3>5. RootKept' /\ Channels'
      BY <3>1, Zenon DEF InsertionInv, RootKept, RootValid, Channels
    <3> QED
      BY <3>2, <3>3, <3>4, <3>5 DEF InsertionInv
  <2> QED
    BY <2>1, <2>2
<1> QED
  BY <1>1, <1>2, PTL DEF Spec

\* No module's pointer to the "systemtap" directory goes stale.
THEOREM RootStaysValid == Spec => []RootValid
<1>1. InsertionInv => RootValid
  BY DEF InsertionInv, RootKept
<1> QED
  BY <1>1, InsertionInvariant, PTL

\* A module that is gone has left nothing, but for its directory where the code
\* gives up on it.
THEOREM NothingIsLeft == Spec => []NothingLeft
<1>1. InsertionInv => NothingLeft
  <2> SUFFICES ASSUME InsertionInv, NEW n \in Name
               PROVE  /\ files[n] # {} => n \in dirs
                      /\ mod[n] = "absent" =>
                           files[n] = {} /\ res[n] = {} /\ (n \in dirs => n \in left)
    BY Zenon DEF NothingLeft
  <2>1. SettledAt(n) /\ mod[n] \in {"absent", "coming", "live", "going"}
    BY DEF InsertionInv, Settled, TypeOK
  <2>2. CASE mod[n] \in {"absent", "live"}
    BY <2>1, <2>2 DEF SettledAt
  <2>3. CASE mod[n] \in {"coming", "going"}
    <3>1. PICK s \in Process : Inside(s) /\ m(s) = n /\ MadeBy(s)
      BY <2>3 DEF InsertionInv, InTransit
    <3>2. files[n] # {} => n \in dirs
      BY <3>1 DEF MadeBy, Made, Inside, InKernel
    <3> QED
      BY <2>3, <3>2
  <2> QED
    BY <2>1, <2>2, <2>3
<1> QED
  BY <1>1, InsertionInvariant, PTL

\* The module that a process has inserted and has open stays whole.
THEOREM OwnChannelIsSafe == Spec => []OwnChannelSafe
<1>1. InsertionInv => OwnChannelSafe
  BY DEF InsertionInv, Channels, Settled, SettledAt, OwnChannelSafe, Resource
<1> QED
  BY <1>1, InsertionInvariant, PTL

-----------------------------------------------------------------------------
(* Buffers and reruns *)

\* The loop of _stp_transport_init ends at one of the sizes from 64 kB to
\* 1 MB: below 1 MB because at most 64 sub-buffers are left, and the size
\* before it, if there is one, left more than 64.
LEMMA LoopEnd ==
  ASSUME NEW b \in BufferArg
  PROVE  /\ SubbufSize(b) \in {1, 2, 4, 8, MB}
         /\ Enough(b, SubbufSize(b))
         /\ \A v \in Doubled : v < SubbufSize(b) => ~Enough(b, v)
<1> DEFINE P(u) == u \in Doubled /\ Enough(b, u) /\ \A v \in Doubled : v < u => ~Enough(b, v)
<1>1. Enough(b, MB)
  BY DEF Enough, MB
<1>2. \E u \in Doubled : P(u)
  <2>1. CASE Enough(b, 1)
    BY <2>1 DEF Doubled, MB
  <2>2. CASE ~Enough(b, 1) /\ Enough(b, 2)
    BY <2>2 DEF Doubled, MB
  <2>3. CASE ~Enough(b, 1) /\ ~Enough(b, 2) /\ Enough(b, 4)
    BY <2>3 DEF Doubled, MB
  <2>4. CASE ~Enough(b, 1) /\ ~Enough(b, 2) /\ ~Enough(b, 4) /\ Enough(b, 8)
    BY <2>4 DEF Doubled, MB
  <2>5. CASE ~Enough(b, 1) /\ ~Enough(b, 2) /\ ~Enough(b, 4) /\ ~Enough(b, 8)
    BY <2>5, <1>1 DEF Doubled, MB
  <2> QED BY <2>1, <2>2, <2>3, <2>4, <2>5
<1>3. SubbufSize(b) = CHOOSE u \in Doubled :
                        Enough(b, u) /\ \A v \in Doubled : v < u => ~Enough(b, v)
  <2>1. b # 0
    BY DEF BufferArg
  <2> QED BY <2>1, Zenon DEF SubbufSize
<1>4. P(SubbufSize(b))
  BY <1>2, <1>3, Zenon
<1> QED
  BY <1>1, <1>4 DEF Doubled, MB

\* Every size that `staprun -b' lets through becomes a buffer of exactly that
\* size: the 32-bit product does not wrap, and no division loses a remainder.
THEOREM BufferAsked ==
  ASSUME NEW b \in BufferArg
  PROVE  AsAsked(b)
<1>1. Size(b) = b * 16
  BY DEF Size, Unsigned, Word, MB, BufferArg
<1>2. /\ SubbufSize(b) \in {1, 2, 4, 8, MB}
      /\ Enough(b, SubbufSize(b))
      /\ \A v \in Doubled : v < SubbufSize(b) => ~Enough(b, v)
  BY LoopEnd
<1>3. Nsubbufs(b) = Size(b) \div SubbufSize(b)
  <2>1. b # 0
    BY DEF BufferArg
  <2> QED BY <2>1 DEF Nsubbufs
<1> DEFINE u == SubbufSize(b)
<1> HIDE DEF u
<1>4. \A v \in {1, 2, 4, 8} : v < u => (b * 16) \div v > 64
  BY <1>1, <1>2 DEF Enough, Doubled, MB, BufferArg, u
<1>5. CASE u = 1
  <2>1. Nsubbufs(b) = b * 16 /\ b * 16 <= 64
    BY <1>1, <1>2, <1>3, <1>5 DEF u, Enough, MB, BufferArg
  <2> QED BY <1>5, <2>1 DEF u, AsAsked, MB, BufferArg
<1>6. CASE u = 2
  <2>1. Nsubbufs(b) = b * 8 /\ b * 8 <= 64 /\ b * 16 > 64
    BY <1>1, <1>2, <1>3, <1>4, <1>6 DEF u, Enough, MB, BufferArg
  <2> QED BY <1>6, <2>1 DEF u, AsAsked, MB, BufferArg
<1>7. CASE u = 4
  <2>1. Nsubbufs(b) = b * 4 /\ b * 4 <= 64 /\ b * 8 > 64
    BY <1>1, <1>2, <1>3, <1>4, <1>7 DEF u, Enough, MB, BufferArg
  <2> QED BY <1>7, <2>1 DEF u, AsAsked, MB, BufferArg
<1>8. CASE u = 8
  <2>1. Nsubbufs(b) = b * 2 /\ b * 2 <= 64 /\ b * 4 > 64
    BY <1>1, <1>2, <1>3, <1>4, <1>8 DEF u, Enough, MB, BufferArg
  <2> QED BY <1>8, <2>1 DEF u, AsAsked, MB, BufferArg
<1>9. CASE u = MB
  <2>1. Nsubbufs(b) = b /\ b * 2 > 64
    BY <1>1, <1>2, <1>3, <1>4, <1>9 DEF u, Enough, MB, BufferArg
  <2> QED BY <1>9, <2>1 DEF u, AsAsked, MB, BufferArg
<1> QED
  BY <1>2, <1>5, <1>6, <1>7, <1>8, <1>9 DEF u

\* So has every trace buffer that a module opens.
THEOREM BuffersAsAsked == Spec => []BufferAsAsked
<1>1. InsertionInv => BufferAsAsked
  <2> SUFFICES ASSUME InsertionInv, NEW n \in Name, bufsize[n] # 0
               PROVE  AsAsked(bufsize[n])
    BY DEF BufferAsAsked
  <2>1. bufsize[n] \in BufferArg
    BY InsertionAssumption DEF InsertionInv, TypeOK
  <2> QED
    BY <2>1, BufferAsked
<1> QED
  BY <1>1, InsertionInvariant, PTL

-----------------------------------------------------------------------------
\* No other staprun is at the module of s.
Alone(s) == \A t \in Process : t # s /\ m(t) = m(s) => pc[t] \in Idle

Excused(s) == Excuse(s) \/ m(s) \in left

\* A failure that has no excuse is not the last: init fails for a reason, and
\* when the module is inserted again nothing of it is in the way.
RetriedAt(s) ==
  /\ pc[s] = "insert" /\ attempt[s] # 1 /\ s \notin rivals => mod[m(s)] = "absent"
  /\ pc[s] = "initfailed" => Excused(s)
  /\ pc[s] \in {"unregister", "fsclose", "relock", "rmdir", "closed"} /\ mod[m(s)] = "coming"
       => faults > 0
  /\ pc[s] = "returned" /\ attempt[s] # 1 => Excused(s)
  /\ pc[s] = "failed" => Excused(s)

Retried ==
  \A s \in Process : RetriedAt(s) /\ (s \in rivals \/ pc[s] \in Idle \/ Alone(s))

\* What excuses a failure is not taken back.
Grows == faults' \in Nat /\ faults' >= faults /\ left \subseteq left' /\ rivals \subseteq rivals'

\* Not by a step of init or exit.
LEMMA KernelGrows ==
  ASSUME TypeOK, NEW s \in Process, Kernel(s)
  PROVE  Grows
<1>1. UNCHANGED rivals /\ (faults' = faults \/ faults' = faults + 1) /\ left \subseteq left'
  BY KernelProcess, KernelFs
<1>2. faults \in Nat
  BY DEF TypeOK
<1> QED
  BY <1>1, <1>2 DEF Grows

\* The other steps leave the attempts and the options of the other processes.
LEMMA OutsideFrame ==
  ASSUME TypeOK, NEW s \in Process, Outside(s)
  PROVE  \A t \in Process \ {s} : attempt'[t] = attempt[t] /\ arg'[t] = arg[t]
<1>1. /\ \/ attempt' = attempt
         \/ \E v : attempt' = [attempt EXCEPT ![s] = v]
      /\ arg' = arg \/ \E v : arg' = [arg EXCEPT ![s] = v]
  BY ZenonT(30) DEF Outside, InsertExists, NoChannel, OpenFails, Killed, SendRelocations, Stapio,
     Open, Close, Retry, RemoveModule, Start
<1> QED
  BY <1>1 DEF TypeOK

\* A step of s leaves what it finds of the other processes: those at the same
\* module are rivals, or one of the two is not running.
LEMMA OthersRetried ==
  ASSUME InsertionInv, Retried, NEW s \in Process, Step(s), RetriedAt(s)'
  PROVE  Retried'
<1> USE DEF m
<1>1. TypeOK /\ m(s) \in Name
  BY ModuleNames DEF InsertionInv
<1>2. /\ Grows /\ modname' = modname
      /\ \A t \in Process \ {s} :
           pc'[t] = pc[t] /\ attempt'[t] = attempt[t] /\ tries'[t] = tries[t] /\ arg'[t] = arg[t]
      /\ \A n \in Name \ {m(s)} : mod'[n] = mod[n]
  <2>0. faults \in Nat
    BY <1>1 DEF TypeOK
  <2>1. CASE Kernel(s)
    BY <1>1, <2>1, KernelFrame, KernelGrows DEF Frame
  <2>2. CASE Enters(s) /\ UNCHANGED rivals
    <3>1. Frame(s) /\ faults' = faults /\ left' = left
      BY <1>1, <2>2, EnterFrame
    <3> QED
      BY <1>1, <2>0, <2>2, <3>1 DEF Frame, Grows
  <2>3. CASE Outside(s) /\ (UNCHANGED rivals \/ Start(s))
    <3>1. UNCHANGED <<mod, faults, left, modname, tries>> /\ \A t \in Process : t # s => pc'[t] = pc[t]
      BY <1>1, <2>3, OutsideMoves
    <3>2. rivals \subseteq rivals'
      BY <2>3 DEF Start
    <3> QED
      BY <1>1, <2>0, <2>3, <3>1, <3>2, OutsideFrame DEF Grows
  <2> QED
    BY <2>1, <2>2, <2>3, StepKinds
<1>3. \A t \in Process : t \in rivals \/ pc[t] \in Idle \/ Alone(t)
  BY DEF Retried
<1>4. pc[s] \in Idle => Start(s) /\ mod' = mod
  <2>1. CASE Kernel(s)
    BY <1>1, <2>1, KernelFrame DEF Inside, InKernel, Idle
  <2>2. CASE User(s)
    BY <2>2, Zenon DEF User, InsertModule, InsertExists, Retry, SendRelocations, Stapio, Open, Close,
       NoChannel, OpenFails, RemoveModule, Killed, At, Idle
  <2>3. CASE Start(s)
    BY <2>3 DEF Start, module
  <2> QED
    BY <2>1, <2>2, <2>3 DEF Step
<1>5. Start(s) => \A t \in Process \ {s} : m(t) = m(s) /\ pc[t] \notin Idle => {s, t} \subseteq rivals'
  <2> SUFFICES ASSUME Start(s), NEW t \in Process \ {s}, m(t) = m(s), pc[t] \notin Idle
               PROVE  {s, t} \subseteq rivals'
    OBVIOUS
  <2> DEFINE others == {u \in Process \ {s} : m(u) = m(s) /\ pc[u] \notin Idle}
  <2>1. t \in others /\ rivals' = (IF others = {} THEN rivals ELSE rivals \cup others \cup {s})
    BY DEF Start
  <2> QED
    BY <2>1
<1>6. ASSUME NEW t \in Process PROVE t \in rivals' \/ pc'[t] \in Idle \/ Alone(t)'
  BY <1>2, <1>3, <1>4, <1>5 DEF Alone, Grows
<1>7. ASSUME NEW t \in Process \ {s} PROVE RetriedAt(t)'
  <2>1. RetriedAt(t) /\ m(t) \in Name
    BY <1>1, ModuleNames DEF Retried
  <2>2. Excused(t) => Excused(t)'
    <3>1. faults \in Nat /\ faults' >= faults /\ (faults > 0 => faults' > 0)
      BY <1>1, <1>2 DEF TypeOK, Grows
    <3> QED
      BY <1>1, <1>2, <3>1 DEF Excused, Excuse, Grows
  <2>3. faults > 0 => faults' > 0
    BY <1>1, <1>2 DEF TypeOK, Grows
  <2>4. pc[t] = "insert" /\ t \notin rivals' => mod'[m(t)] = mod[m(t)]
    BY <1>2, <1>3, <1>4, <2>1 DEF Alone, Idle, Grows
  <2>5. Inside(t) => mod'[m(t)] = mod[m(t)]
    <3>1. CASE m(t) # m(s)
      BY <1>2, <2>1, <3>1
    <3>2. CASE m(t) = m(s) /\ Inside(t)
      <4>1. ~Inside(s)
        BY <3>2 DEF InsertionInv, OneInside
      <4>2. mod[m(t)] \in {"coming", "going"}
        BY <3>2 DEF InsertionInv, InTransit, MadeBy, Made, Inside, InKernel
      <4>3. ~Enters(s)
        BY <3>2, <4>2 DEF Enters, InsertModule, MayDelete
      <4>4. Outside(s)
        BY <1>1, <4>1, <4>3, StepKinds, KernelFrame
      <4> QED
        BY <1>1, <4>4, OutsideMoves
    <3> QED
      BY <3>1, <3>2
  <2>6. pc'[t] = pc[t] /\ attempt'[t] = attempt[t] /\ rivals \subseteq rivals' /\ m(t)' = m(t)
    BY <1>2 DEF Grows
  <2>7. pc[t] \in {"unregister", "fsclose", "relock", "rmdir", "closed"} => Inside(t)
    BY DEF Inside, InKernel
  <2> QED
    BY <2>1, <2>2, <2>3, <2>4, <2>5, <2>6, <2>7 DEF RetriedAt
<1> QED
  BY <1>6, <1>7 DEF Retried

\* A step of init or exit leaves a reason for a failure.
LEMMA KernelRetried ==
  ASSUME TypeOK, NEW s \in Process, MadeBy(s), RetriedAt(s), Kernel(s)
  PROVE  RetriedAt(s)'
<1>20. faults \in Nat /\ Functions
  BY FunctionsOK DEF TypeOK
<1>0. /\ modname' = modname /\ m(s)' = m(s) /\ m(s) \in Name
      /\ DOMAIN pc = Process /\ DOMAIN mod = Name /\ faults \in Nat
  BY <1>20, ModuleNames, KernelFrame DEF Frame, m, Functions
<1>1. Excused(s) /\ UNCHANGED <<arg, tries>> /\ Grows => Excused(s)'
  BY <1>0 DEF Excused, Excuse, Grows
<1> USE DEF Goto, At
<1>2. CASE \/ Lock0(s) \/ GetRootDir(s) \/ MakeModuleDir(s) \/ DataInit(s) \/ RegisterCtl(s)
           \/ PrintInit(s) \/ CreateWorkqueue(s)
  <2>1. pc'[s] \in {"lock", "root", "dir", "data", "ctl", "print", "wq", "inserted"}
    <3>1. CASE Lock0(s)
      BY <1>0, <3>1 DEF Lock0, LockDir, LockBusy
    <3>2. CASE GetRootDir(s) \/ MakeModuleDir(s)
      BY <1>0, <3>2 DEF GetRootDir, MakeModuleDir
    <3>3. CASE DataInit(s) \/ RegisterCtl(s)
      BY <1>0, <3>3 DEF DataInit, RegisterCtl
    <3>4. CASE PrintInit(s) \/ CreateWorkqueue(s)
      BY <1>0, <3>4 DEF PrintInit, CreateWorkqueue
    <3> QED
      BY <1>2, <3>1, <3>2, <3>3, <3>4
  <2> QED
    BY <2>1 DEF RetriedAt
<1>3. CASE LockFailed(s)
  <2>1. pc'[s] = "initfailed" /\ tries'[s] = NUMTRIES
    BY <1>0, <1>3 DEF LockFailed, GaveUp
  <2> QED
    BY <2>1 DEF RetriedAt, Excused, Excuse
<1>4. CASE NoRootDir(s)
  <2>1. pc'[s] = "initfailed" /\ faults' > 0
    BY <1>0, <1>4 DEF NoRootDir, Fault
  <2> QED
    BY <2>1 DEF RetriedAt, Excused, Excuse
<1>5. CASE NoModuleDir(s)
  <2>1. pc'[s] = "initfailed" /\ (faults' > 0 \/ m(s) \in dirs)
    BY <1>0, <1>5 DEF NoModuleDir, Fault
  <2>2. m(s) \in dirs => m(s)' \in left'
    BY <1>0, <1>5 DEF NoModuleDir, MadeBy, Made
  <2> QED
    BY <2>1, <2>2 DEF RetriedAt, Excused, Excuse
<1>6. CASE DataInitFails(s)
  <2>1. pc'[s] = "initfailed" /\ m(s)' \in left'
    BY <1>0, <1>6 DEF DataInitFails
  <2> QED
    BY <2>1 DEF RetriedAt, Excused
<1>7. CASE RegisterCtlFails(s) \/ PrintInitFails(s) \/ WorkqueueFails(s)
  <2>1. pc'[s] \in {"unregister", "fsclose"} /\ faults' > 0
    BY <1>0, <1>7 DEF RegisterCtlFails, PrintInitFails, WorkqueueFails, Fault
  <2> QED
    BY <2>1 DEF RetriedAt
<1>8. CASE InitFailed(s)
  <2>1. pc'[s] = "returned" /\ Excused(s)'
    BY <1>0, <1>1, <1>8, KernelGrows DEF InitFailed, RetriedAt
  <2> QED
    BY <2>1 DEF RetriedAt
<1>9. CASE CleanupAndExit(s)
  <2>1. pc'[s] = "unregister" /\ mod'[m(s)'] = "going"
    BY <1>0, <1>9 DEF CleanupAndExit, MadeBy, Made
  <2> QED
    BY <2>1 DEF RetriedAt
<1>10. CASE UnregisterCtl(s) \/ DataClose(s) \/ Lock1(s) \/ RelockFailed(s) \/ RemoveDirs(s)
  <2>1. /\ pc[s] \in {"unregister", "fsclose", "relock", "rmdir"} /\ mod' = mod
        /\ pc'[s] \in {"fsclose", "relock", "rmdir", "closed"} /\ faults' = faults
    BY <1>0, <1>10 DEF UnregisterCtl, DataClose, Lock1, LockDir, LockBusy, RelockFailed, GaveUp,
       RemoveDirs, module
  <2> QED
    BY <1>0, <2>1 DEF RetriedAt
<1>11. CASE Closed(s)
  <2>1. /\ pc[s] = "closed" /\ mod'[m(s)'] = "absent" /\ faults' = faults
        /\ pc'[s] = (IF ~Closing(s) THEN "returned" ELSE IF attempt[s] = 0 THEN "removed" ELSE "insert")
    BY <1>0, <1>11 DEF Closed, Gone
  <2>2. ~Closing(s) => faults > 0
    BY <2>1 DEF Closing, MadeBy, Made, RetriedAt
  <2> QED
    BY <2>1, <2>2 DEF RetriedAt, Excused, Excuse
<1> QED
  BY <1>2, <1>3, <1>4, <1>5, <1>6, <1>7, <1>8, <1>9, <1>10, <1>11, ZenonT(30)
     DEF Kernel, InitModule, CleanupModule

\* So does every step of the process itself.  Before the second attempt of a
\* process that has no rival, delete_module finds a live module unused.
LEMMA UserRetried ==
  ASSUME InsertionInv, Retried, NEW s \in Process, User(s) \/ Start(s), modname' = modname,
         rivals \subseteq rivals'
  PROVE  RetriedAt(s)'
<1>0. /\ m(s)' = m(s) /\ m(s) \in Name /\ RetriedAt(s) /\ TypeOK
      /\ DOMAIN pc = Process /\ DOMAIN attempt = Process
  BY ModuleNames, FunctionsOK DEF m, InsertionInv, Functions, Retried
<1> USE DEF Goto, At
<1>1. CASE InsertModule(s) \/ SendRelocations(s) \/ Stapio(s) \/ NoChannel(s) \/ Killed(s)
  <2>1. pc'[s] \in {"lock", "relocating", "exec", "running", "delete", "exited"}
    <3>1. CASE InsertModule(s) \/ NoChannel(s) \/ Killed(s)
      BY <1>0, <3>1 DEF InsertModule, NoChannel, OpenFails, Killed
    <3>2. CASE SendRelocations(s) \/ Stapio(s)
      BY <1>0, <3>2 DEF SendRelocations, Stapio, Open, Close
    <3> QED
      BY <1>1, <3>1, <3>2
  <2> QED
    BY <2>1 DEF RetriedAt
<1>2. CASE RemoveModule(s)
  <2>1. pc'[s] \in {"cleanup", "exited"}
    BY <1>0, <1>2 DEF RemoveModule
  <2> QED
    BY <2>1 DEF RetriedAt
<1>3. CASE Start(s)
  <2>1. pc'[s] = "insert" /\ attempt'[s] = 1
    BY <1>0, <1>3 DEF Start
  <2> QED
    BY <2>1 DEF RetriedAt
<1>4. CASE InsertExists(s)
  <2>1. /\ pc[s] = "insert" /\ mod[m(s)] # "absent"
        /\ pc'[s] = "returned" /\ attempt' = attempt
    BY <1>0, <1>4 DEF InsertExists
  <2>2. attempt[s] # 1 => s \in rivals
    BY <1>0, <2>1 DEF RetriedAt
  <2>3. attempt'[s] # 1 => Excused(s)'
    BY <2>1, <2>2 DEF Excused, Excuse
  <2> QED
    BY <2>1, <2>3 DEF RetriedAt
<1>5. CASE Retry(s) /\ attempt[s] # 1
  <2>1. /\ pc[s] = "returned" /\ pc'[s] = "failed"
        /\ UNCHANGED <<faults, left, arg, tries>>
    BY <1>0, <1>5 DEF Retry
  <2>2. Excused(s)
    BY <1>0, <1>5, <2>1 DEF RetriedAt
  <2>3. Excused(s)'
    BY <1>0, <2>1, <2>2 DEF Excused, Excuse
  <2> QED
    BY <2>1, <2>3 DEF RetriedAt
<1>6. CASE Retry(s) /\ attempt[s] = 1 /\ MayDelete(s)
  <2>1. pc'[s] = "cleanup"
    BY <1>0, <1>6 DEF Retry
  <2> QED
    BY <2>1 DEF RetriedAt
<1>7. CASE Retry(s) /\ attempt[s] = 1 /\ ~MayDelete(s)
  <2>1. /\ pc[s] = "returned" /\ pc'[s] = "insert" /\ mod' = mod
    BY <1>0, <1>7 DEF Retry
  <2>2. ASSUME s \notin rivals PROVE mod[m(s)] = "absent"
    <3>1. Alone(s)
      BY <2>1, <2>2 DEF Retried, Idle
    <3>2. refs[m(s)] = {}
      <4>1. \A t \in refs[m(s)] : t \in Process /\ m(t) = m(s) /\ pc[t] \in {"relocating", "running"}
        BY <1>0, TypesAt DEF InsertionInv, Channels
      <4> QED
        BY <2>1, <3>1, <4>1 DEF Alone, Idle
    <3>3. mod[m(s)] \notin {"coming", "going"}
      BY <1>0, <2>1, <3>1 DEF InsertionInv, InTransit, Inside, InKernel, Alone, Idle
    <3> QED
      BY <1>0, <1>7, <3>2, <3>3, TypesAt DEF MayDelete
  <2> QED
    BY <1>0, <2>1, <2>2 DEF RetriedAt
<1> QED
  BY <1>1, <1>2, <1>3, <1>4, <1>5, <1>6, <1>7, ZenonT(30) DEF User

\* A staprun that gives up had a reason: what an earlier session has left behind
\* is removed by its own retry.
THEOREM RerunsWork == Spec => []RerunWorks
<1>1. Init => Retried
  BY DEF Init, Retried, RetriedAt, Idle
<1>2. InsertionInv /\ Retried /\ [Next]_vars => Retried'
  <2> SUFFICES ASSUME InsertionInv, Retried, [Next]_vars PROVE Retried'
    OBVIOUS
  <2>1. CASE Next
    <3>1. PICK s \in Process : Step(s)
      BY <2>1, Zenon DEF Next, Step
    <3>2. CASE Kernel(s)
      <4>1. TypeOK /\ MadeBy(s) /\ RetriedAt(s)
        BY <3>2, KernelFrame DEF InsertionInv, InTransit, Retried
      <4> QED
        BY <3>1, <3>2, <4>1, KernelRetried, OthersRetried
    <3>3. CASE ~Kernel(s)
      <4>1. (User(s) \/ Start(s)) /\ modname' = modname /\ rivals \subseteq rivals'
        BY <3>1, <3>3 DEF Step, Start
      <4> QED
        BY <3>1, <4>1, UserRetried, OthersRetried
    <3> QED
      BY <3>2, <3>3
  <2>2. CASE UNCHANGED vars
    <3>1. /\ UNCHANGED <<mod, pc, modname, attempt, tries, arg, faults, left, rivals>>
      BY <2>2 DEF vars, module, process
    <3> QED
      BY <3>1 DEF Retried, RetriedAt, Alone, Excused, Excuse, m
  <2> QED
    BY <2>1, <2>2
<1>3. Retried => RerunWorks
  BY DEF Retried, RetriedAt, Excused, RerunWorks
<1> QED
  BY <1>1, <1>2, <1>3, InsertionInvariant, PTL DEF Spec
=============================================================================
