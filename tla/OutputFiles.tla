---------------------------- MODULE OutputFiles ----------------------------
(***************************************************************************)
(* Output file switching in stapio (relay.c): every reader thread moves on *)
(* to a new file when the current one is full (-S size,N) or when SIGUSR2  *)
(* asks for it, and keeps the newest N files.                              *)
(*                                                                         *)
(* A file's name has its number and the time of its creation in it, so the *)
(* reader remembers the times in a ring, time_backlog.                     *)
(***************************************************************************)
EXTENDS Integers, FiniteSets, FiniteSetsExt

CONSTANTS
  Cpu,         \* reader threads
  fsize_max,
  Limits,      \* the values of fnum_max (-S size,N) stapio may be started with
  NEED_PPOLL,  \* stapio is built with its own ppoll
  Sizes,       \* what a read may return
  MaxFnum,     \* bound: file numbers
  MaxSignals,  \* bound: SIGUSR2 from the user
  MaxTime      \* bound: the clock

ASSUME OutputAssumption ==
  /\ IsFiniteSet(Cpu) /\ Cpu # {}
  /\ fsize_max \in Nat /\ Limits \subseteq Nat
  /\ NEED_PPOLL \in BOOLEAN
  /\ Sizes \subseteq Nat \ {0}
  /\ MaxFnum \in Nat /\ MaxSignals \in Nat /\ MaxTime \in Nat

VARIABLES
  fnum_max,
  rpc,          \* "enter" (about to ppoll), "poll", "read" or "done"
  pending,      \* SIGUSR2 is pending for the reader
  switch_file,
  fnum, wsize,
  files,        \* <<number, time>> of the files that exist
  backlog,      \* time_backlog
  now,
  signals,      \* SIGUSR2 sent by the user
  switches      \* switches each reader made because of switch_file

vars == <<fnum_max, rpc, pending, switch_file, fnum, wsize, files, backlog, now, signals, switches>>

-----------------------------------------------------------------------------
(* mutant of BacklogOrder: one less for every number *)
BacklogOrderLow ==
  LET bits == CHOOSE o \in 0..fnum_max : 2^o > fnum_max /\ \A p \in 0..(o - 1) : 2^p <= fnum_max
  IN IF fnum_max = 0 THEN 0 ELSE bits - 1

(* init_backlog: the number of bits of fnum_max, one less for a power of two *)
BacklogOrder ==
  LET bits == CHOOSE o \in 0..fnum_max : 2^o > fnum_max /\ \A p \in 0..(o - 1) : 2^p <= fnum_max
  IN IF fnum_max = 0 THEN 0 ELSE IF fnum_max = 2^(bits - 1) THEN bits - 1 ELSE bits

(* fnum & BACKLOG_MASK *)
Place(n) == n % 2^BacklogOrder

Oldest(c) == <<fnum[c] + 1 - fnum_max, backlog[c][Place(fnum[c] + 1 - fnum_max)]>>

(* open_outfile: when there are N files, the oldest is removed, under the name
   that it was given when it was opened *)
Kept(c) ==
  IF fnum_max > 0 /\ fnum[c] + 1 >= fnum_max THEN files[c] \ {Oldest(c)} ELSE files[c]

(* switch_outfile and open_outfile in reader c *)
SwitchOutfile(c) ==
  /\ fnum[c] < MaxFnum
  /\ fnum' = [fnum EXCEPT ![c] = @ + 1]
  /\ files' = [files EXCEPT ![c] = Kept(c) \cup {<<fnum[c] + 1, now>>}]
  /\ backlog' = IF fnum_max > 0 THEN [backlog EXCEPT ![c][Place(fnum[c] + 1)] = now]
                ELSE backlog

-----------------------------------------------------------------------------
(* switchfile_handler: unless a switch is in progress, ask every reader with
   switch_file and a SIGUSR2 of its own *)
Busy == \E c \in Cpu : switch_file[c]
Asked == IF Busy THEN switch_file ELSE [c \in Cpu |-> TRUE]

(* What is pending once reader c has handled its SIGUSR2.  The one it sends to
   itself meanwhile stays pending until the next ppoll; the replacement for
   ppoll has it delivered at once, and ignored. *)
Handled(c) ==
  [d \in Cpu |-> IF d = c THEN ~Busy /\ ~NEED_PPOLL ELSE pending[d] \/ ~Busy]

(* the user sends SIGUSR2; stapio's main thread handles it *)
UserSignal ==
  /\ signals < MaxSignals
  /\ signals' = signals + 1
  /\ switch_file' = Asked
  /\ pending' = [c \in Cpu |-> pending[c] \/ ~Busy]
  /\ UNCHANGED <<rpc, fnum, wsize, files, backlog, now, switches>>

Tick ==
  /\ now < MaxTime
  /\ now' = now + 1
  /\ UNCHANGED <<rpc, pending, switch_file, fnum, wsize, files, backlog, signals, switches>>

(* ppoll unblocks SIGUSR2: in the replacement, before it polls *)
PollEnter(c) ==
  /\ rpc[c] = "enter"
  /\ rpc' = [rpc EXCEPT ![c] = "poll"]
  /\ IF NEED_PPOLL /\ pending[c]
     THEN switch_file' = Asked /\ pending' = Handled(c)
     ELSE UNCHANGED <<switch_file, pending>>
  /\ UNCHANGED <<fnum, wsize, files, backlog, now, signals, switches>>

(* ppoll returns, for data or after its timeout: the signal stays blocked *)
PollReturns(c) ==
  /\ rpc[c] = "poll"
  /\ rpc' = [rpc EXCEPT ![c] = "read"]
  /\ IF NEED_PPOLL /\ pending[c]
     THEN switch_file' = Asked /\ pending' = Handled(c)
     ELSE UNCHANGED <<switch_file, pending>>
  /\ UNCHANGED <<fnum, wsize, files, backlog, now, signals, switches>>

(* ppoll is interrupted: the handler runs, then the reader switches if asked *)
PollInterrupted(c) ==
  /\ rpc[c] = "poll" /\ pending[c]
  /\ rpc' = [rpc EXCEPT ![c] = "read"]
  /\ pending' = Handled(c)
  /\ IF Asked[c]
     THEN /\ SwitchOutfile(c)
          /\ switch_file' = [Asked EXCEPT ![c] = FALSE]
          /\ wsize' = [wsize EXCEPT ![c] = 0]
          /\ switches' = [switches EXCEPT ![c] = @ + 1]
     ELSE switch_file' = Asked /\ UNCHANGED <<fnum, wsize, files, backlog, switches>>
  /\ UNCHANGED <<now, signals>>

(* a read of rc bytes: switch first if asked, or if the file would be too big.
   Without -S, wsize is not looked at and not modelled. *)
ReadData(c, rc) ==
  /\ rpc[c] = "read"
  /\ IF (fsize_max > 0 /\ wsize[c] + rc > fsize_max) \/ switch_file[c]
     THEN /\ SwitchOutfile(c)
          /\ switch_file' = [switch_file EXCEPT ![c] = FALSE]
          /\ wsize' = [wsize EXCEPT ![c] = rc]
          /\ switches' = [switches EXCEPT ![c] = @ + IF switch_file[c] THEN 1 ELSE 0]
     ELSE /\ fsize_max > 0
          /\ wsize' = [wsize EXCEPT ![c] = @ + rc]
          /\ UNCHANGED <<switch_file, fnum, files, backlog, switches>>
  /\ UNCHANGED <<rpc, pending, now, signals>>

ReadEmpty(c) ==
  /\ rpc[c] = "read"
  /\ rpc' = [rpc EXCEPT ![c] = "enter"]
  /\ UNCHANGED <<pending, switch_file, fnum, wsize, files, backlog, now, signals, switches>>

(* opening or writing the output fails: the reader sends SIGTERM and ends *)
ReaderFails(c) ==
  /\ rpc[c] \in {"poll", "read"}
  /\ rpc' = [rpc EXCEPT ![c] = "done"]
  /\ files' = [files EXCEPT ![c] = Kept(c)] \/ UNCHANGED files
  /\ UNCHANGED <<pending, switch_file, fnum, wsize, backlog, now, signals, switches>>

-----------------------------------------------------------------------------
(* init_relayfs: file 0 of every reader is open *)
Init ==
  /\ fnum_max \in Limits
  /\ rpc = [c \in Cpu |-> "enter"]
  /\ pending = [c \in Cpu |-> FALSE] /\ switch_file = [c \in Cpu |-> FALSE]
  /\ fnum = [c \in Cpu |-> 0] /\ wsize = [c \in Cpu |-> 0]
  /\ files = [c \in Cpu |-> {<<0, 0>>}]
  /\ backlog = [c \in Cpu |-> [i \in 0..(2^BacklogOrder - 1) |-> 0]]
  /\ now = 0 /\ signals = 0 /\ switches = [c \in Cpu |-> 0]

Reader(c) ==
  \/ PollEnter(c) \/ PollReturns(c) \/ PollInterrupted(c)
  \/ \E rc \in Sizes : ReadData(c, rc)
  \/ ReadEmpty(c) \/ ReaderFails(c)

Next == (UserSignal \/ Tick \/ \E c \in Cpu : Reader(c)) /\ UNCHANGED fnum_max

Spec == Init /\ [][Next]_vars

-----------------------------------------------------------------------------
(* Every variable stays within its type; in particular a file holds more than
   fsize_max only if one read did. *)
TypeOK ==
  /\ fnum_max \in Limits
  /\ rpc \in [Cpu -> {"enter", "poll", "read", "done"}]
  /\ pending \in [Cpu -> BOOLEAN] /\ switch_file \in [Cpu -> BOOLEAN]
  /\ fnum \in [Cpu -> 0..MaxFnum] /\ wsize \in [Cpu -> 0..Max(Sizes \cup {fsize_max})]
  /\ files \in [Cpu -> SUBSET ((0..MaxFnum) \X (0..MaxTime))]
  /\ backlog \in [Cpu -> [0..(2^BacklogOrder - 1) -> 0..MaxTime]]
  /\ now \in 0..MaxTime /\ signals \in 0..MaxSignals /\ switches \in [Cpu -> Nat]

(* The files that exist are exactly the newest N, whatever the clock did
   between switches: the ring of times always finds the oldest file's name. *)
NewestKept ==
  \A c \in Cpu : rpc[c] # "done" =>
    {f[1] : f \in files[c]} =
      (IF fnum_max = 0 THEN 0 ELSE Max({0, fnum[c] - fnum_max + 1}))..fnum[c]

(* Every reader switches files at most once for a SIGUSR2 of the user. *)
OneSwitchPerSignal == \A c \in Cpu : switches[c] <= signals

(* With -S size,N the numbers of the output files stay below N: the usage
   text says that stapio goes back to the first one. *)
FirstFileReused == fnum_max > 0 => \A c \in Cpu : fnum[c] < fnum_max
=============================================================================
