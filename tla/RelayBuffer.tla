---------------------------- MODULE RelayBuffer ----------------------------
(***************************************************************************)
(* The data path of one relay buffer: probes flush their print buffers     *)
(* into it (print_flush.c, relay_v2.c), a reader thread of stapio copies   *)
(* it to the output (relay.c).  The buffer and its file are the kernel's   *)
(* relay interface, modelled from how this code uses it.                   *)
(*                                                                         *)
(* The unit of space is a cell; cells are numbered in the order in which   *)
(* they were accepted.  _stp_print_lock (one buffer) or disabled           *)
(* preemption (a buffer per CPU) keeps flushes apart; in bulk mode the     *)
(* reader may run between a flush's header and its data.                   *)
(***************************************************************************)
EXTENDS Integers, Sequences, FiniteSets

CONSTANTS
  NSubbufs, SubbufSize,  \* _stp_nsubbufs, _stp_subbuf_size
  Builds,                \* the build options to consider
  MaxCells,              \* bound: cells accepted
  MaxAttach,             \* bound: staprun -A
  MaxDropped             \* bound: reservations refused

ASSUME RelayAssumption ==
  /\ NSubbufs \in Nat \ {0} /\ SubbufSize \in Nat \ {0}
  /\ Builds \subseteq [bulk : BOOLEAN, need_ppoll : BOOLEAN]
  /\ MaxCells \in Nat /\ MaxAttach \in Nat /\ MaxDropped \in Nat

VARIABLES
  transport_state,   \* "RUNNING" or "STOPPED"
  overwrite_flag,
  subbufs_produced, subbufs_consumed, bytes_consumed,
  offset,            \* SubbufSize + 1: the buffer was full at the last switch
  subbuf,            \* the cells in each sub-buffer
  wakeup,            \* _stp_relay_data.wakeup
  dropped,           \* _stp_relay_data.dropped
  failures,          \* _stp_transport_failures
  ncells,            \* cells accepted so far
  pdu,               \* the data, in cells, that the header just written announces; or 0
  headers,           \* the headers written: <<cell, pdu_len>>
  rpc,               \* reader: "enter" and "poll" (in ppoll), "asleep", "read",
                     \* "empty" (read got EAGAIN), "done", "none"
  sigusr2,           \* SIGUSR2 is pending for the reader
  stop_threads,
  failed,            \* the reader could not write the output
  out,               \* cells written by this stapio
  fresh,             \* the reader can still see the final flush
  torn,              \* it has read sub-buffers out of order
  attaches,
  build              \* STP_BULKMODE, and NEED_PPOLL: stapio has its own ppoll

buffer == <<subbufs_produced, offset, subbuf>>
taken == <<subbufs_consumed, bytes_consumed>>
reader == <<rpc, sigusr2, stop_threads, failed, out, fresh, torn>>
written == <<ncells, pdu, headers>>
vars == <<transport_state, overwrite_flag, buffer, taken, wakeup, dropped, failures, written,
          reader, attaches, build>>

Slot(i) == i % NSubbufs
Attached == rpc # "none"
Full == SubbufSize + 1

-----------------------------------------------------------------------------
(* the sub-buffers produced once the current one is closed *)
Produced == IF offset = Full THEN subbufs_produced ELSE subbufs_produced + 1

(* mutant of SubbufStart: off by one *)
SubbufStartOffByOne == overwrite_flag \/ Produced - subbufs_consumed <= NSubbufs

(* __stp_relay_subbuf_start_callback: may the next sub-buffer be started? *)
SubbufStart == overwrite_flag \/ Produced - subbufs_consumed < NSubbufs

(* __stp_relay_switch_subbuf, and the kernel's own one in relay_flush: close
   the current sub-buffer and start the next with the given cells *)
SwitchSubbuf(cells) ==
  /\ subbufs_produced' = Produced
  /\ IF SubbufStart
     THEN /\ offset' = Len(cells)
          /\ subbuf' = [subbuf EXCEPT ![Slot(Produced)] = cells]
          /\ UNCHANGED dropped
     ELSE /\ offset' = Full
          /\ dropped' = dropped + 1
          /\ UNCHANGED subbuf

(* _stp_data_write_reserve: all the cells or none, which is a transport failure *)
Accepts(len) == offset + len <= SubbufSize \/ SubbufStart

Reserve(len) ==
  LET cells == [i \in 1..len |-> ncells + i] IN
    /\ IF offset + len <= SubbufSize
       THEN /\ offset' = offset + len
            /\ subbuf' = [subbuf EXCEPT ![Slot(subbufs_produced)] = @ \o cells]
            /\ UNCHANGED <<subbufs_produced, wakeup, dropped>>
       ELSE /\ SwitchSubbuf(cells)
            /\ wakeup' = (wakeup \/ (offset # Full /\ rpc = "asleep"))
    /\ ncells' = IF Accepts(len) THEN ncells + len ELSE ncells
    /\ failures' = IF Accepts(len) THEN failures ELSE failures + 1
    /\ UNCHANGED <<transport_state, overwrite_flag, taken, reader, attaches, build>>

(* stp_print_flush of len cells, stream mode *)
Flush(len) ==
  /\ transport_state = "RUNNING" /\ ~build.bulk
  /\ ncells + len <= MaxCells /\ dropped < MaxDropped
  /\ Reserve(len)
  /\ UNCHANGED <<pdu, headers>>

(* stp_print_flush of len cells, bulk mode: the struct _stp_trace (one cell)
   first; if it is refused the flush is over *)
FlushHeader(len) ==
  /\ transport_state = "RUNNING" /\ build.bulk /\ pdu = 0
  /\ ncells + 1 + len <= MaxCells /\ dropped < MaxDropped
  /\ Reserve(1)
  /\ pdu' = IF Accepts(1) THEN len ELSE 0
  /\ headers' = IF Accepts(1) THEN headers \cup {<<ncells + 1, len>>} ELSE headers

(* then the data; if they are refused the header stays *)
FlushData ==
  /\ pdu # 0
  /\ Reserve(pdu)
  /\ pdu' = 0
  /\ UNCHANGED headers

(* mutant of WakeupTimer: the flag is cleared and nobody is woken *)
WakeupTimerLost ==
  /\ transport_state = "RUNNING" /\ wakeup
  /\ wakeup' = FALSE
  /\ UNCHANGED <<transport_state, overwrite_flag, buffer, taken, dropped, failures, written,
                 reader, attaches, build>>

(* __stp_relay_wakeup_timer *)
WakeupTimer ==
  /\ transport_state = "RUNNING" /\ wakeup
  /\ wakeup' = FALSE
  /\ rpc' = IF rpc = "asleep" /\ subbufs_produced # subbufs_consumed THEN "read" ELSE rpc
  /\ UNCHANGED <<transport_state, overwrite_flag, buffer, taken, dropped, failures, written,
                 sigusr2, stop_threads, failed, out, fresh, torn, attaches, build>>

(* _stp_transport_data_fs_stop, when the probes are gone: no more timer; relay_flush closes the current
   sub-buffer and wakes a sleeping reader *)
DataStop ==
  /\ transport_state = "RUNNING" /\ pdu = 0
  /\ transport_state' = "STOPPED"
  /\ SwitchSubbuf(<<>>)
  /\ rpc' = IF rpc = "asleep" /\ offset # Full THEN "read" ELSE rpc
  /\ fresh' = (~stop_threads /\ rpc # "empty")
  /\ UNCHANGED <<overwrite_flag, taken, wakeup, failures, written, sigusr2, stop_threads,
                 failed, out, torn, attaches, build>>

-----------------------------------------------------------------------------
(* Where the next read starts: when the writer has lapped the reader, at the
   oldest sub-buffer that is still whole. *)
Lapped == offset # Full /\ subbufs_produced - subbufs_consumed >= NSubbufs
ReadSubbuf == IF Lapped THEN subbufs_produced - NSubbufs + 1 ELSE subbufs_consumed
ReadByte == IF Lapped THEN 0 ELSE bytes_consumed

(* A reservation was refused since the writer lapped the reader: the read goes on at
   the reader's old place, where newer sub-buffers lie before older ones. *)
Misplaced == offset = Full /\ subbufs_produced - subbufs_consumed > NSubbufs

CellsFrom(i, b) == SubSeq(subbuf[Slot(i)], b + 1, Len(subbuf[Slot(i)]))
InBuffer(i) == i < subbufs_produced \/ (i = subbufs_produced /\ offset # Full)

(* cells accepted and not yet read *)
Unread ==
  LET rest[i \in ReadSubbuf..(subbufs_produced + 1)] ==
        IF ~InBuffer(i) THEN <<>>
        ELSE CellsFrom(i, IF i = ReadSubbuf THEN ReadByte ELSE 0) \o rest[i + 1]
  IN rest[ReadSubbuf]

(* reader_thread: ppoll.  The replacement for ppoll unblocks SIGUSR2 before
   it polls, and the handler then runs too early to interrupt the poll. *)
PollEnter ==
  /\ rpc = "enter"
  /\ rpc' = "poll"
  /\ sigusr2' = (sigusr2 /\ ~build.need_ppoll)
  /\ UNCHANGED <<transport_state, overwrite_flag, buffer, taken, wakeup, dropped, failures,
                 written, stop_threads, failed, out, fresh, torn, attaches, build>>

(* mutant of Poll: the signal is looked at first *)
PollSignalFirst ==
  /\ rpc = "poll" \/ (rpc = "asleep" /\ sigusr2)
  /\ rpc' = IF sigusr2 /\ stop_threads THEN "done"
            ELSE IF sigusr2 \/ subbufs_produced # subbufs_consumed THEN "read"
            ELSE "asleep"
  /\ sigusr2' = FALSE
  /\ UNCHANGED <<transport_state, overwrite_flag, buffer, taken, wakeup, dropped, failures,
                 written, stop_threads, failed, out, fresh, torn, attaches, build>>

(* poll finds a sub-buffer to read, a signal, or nothing, in this order *)
Poll ==
  /\ rpc = "poll" \/ (rpc = "asleep" /\ sigusr2)
  /\ rpc' = IF subbufs_produced # subbufs_consumed THEN "read"
            ELSE IF ~sigusr2 THEN "asleep"
            ELSE IF stop_threads THEN "done" ELSE "read"
  /\ sigusr2' = FALSE
  /\ UNCHANGED <<transport_state, overwrite_flag, buffer, taken, wakeup, dropped, failures,
                 written, stop_threads, failed, out, fresh, torn, attaches, build>>

(* 200 ms in stream mode; in bulk mode 10 s if NEED_PPOLL, and never if not *)
PollTimeout ==
  /\ rpc = "asleep" /\ (~build.bulk \/ build.need_ppoll)
  /\ rpc' = "read"
  /\ UNCHANGED <<transport_state, overwrite_flag, buffer, taken, wakeup, dropped, failures,
                 written, sigusr2, stop_threads, failed, out, fresh, torn, attaches, build>>

(* read and write what one sub-buffer holds; a sub-buffer that is read to its
   end and is not being filled is consumed *)
ReadData ==
  /\ rpc = "read" /\ InBuffer(ReadSubbuf)
  /\ LET cells == CellsFrom(ReadSubbuf, ReadByte)
         last == ReadSubbuf = subbufs_produced
     IN /\ ~(last /\ cells = <<>>)
        /\ subbufs_consumed' = IF last THEN ReadSubbuf ELSE ReadSubbuf + 1
        /\ bytes_consumed' = IF last THEN ReadByte + Len(cells) ELSE 0
        /\ torn' = (torn \/ Misplaced)
        /\ \/ out' = out \o cells /\ UNCHANGED <<rpc, failed>>
           \/ cells # <<>> /\ rpc' = "done" /\ failed' = TRUE /\ UNCHANGED out
  /\ UNCHANGED <<transport_state, overwrite_flag, buffer, wakeup, dropped, failures, written,
                 sigusr2, stop_threads, fresh, attaches, build>>

(* read returns EAGAIN *)
ReadEmpty ==
  /\ rpc = "read"
  /\ ~InBuffer(ReadSubbuf) \/ (ReadSubbuf = subbufs_produced
                               /\ CellsFrom(ReadSubbuf, ReadByte) = <<>>)
  /\ subbufs_consumed' = ReadSubbuf /\ bytes_consumed' = ReadByte
  /\ rpc' = "empty"
  /\ fresh' = FALSE
  /\ UNCHANGED <<transport_state, overwrite_flag, buffer, wakeup, dropped, failures, written,
                 sigusr2, stop_threads, failed, out, torn, attaches, build>>

(* mutant of LoopTest: stop_threads is not tested *)
LoopTestNever ==
  /\ rpc = "empty"
  /\ rpc' = "enter"
  /\ UNCHANGED <<transport_state, overwrite_flag, buffer, taken, wakeup, dropped, failures,
                 written, sigusr2, stop_threads, failed, out, fresh, torn, attaches, build>>

(* while (!stop_threads) *)
LoopTest ==
  /\ rpc = "empty"
  /\ rpc' = IF stop_threads THEN "done" ELSE "enter"
  /\ UNCHANGED <<transport_state, overwrite_flag, buffer, taken, wakeup, dropped, failures,
                 written, sigusr2, stop_threads, failed, out, fresh, torn, attaches, build>>

(* close_relayfs in stapio's main thread, after STP_EXIT or to detach *)
CloseRelayfs ==
  /\ Attached /\ ~stop_threads
  /\ transport_state = "STOPPED" \/ attaches < MaxAttach
  /\ stop_threads' = TRUE
  /\ sigusr2' = (rpc # "done")
  /\ UNCHANGED <<transport_state, overwrite_flag, buffer, taken, wakeup, dropped, failures,
                 written, rpc, failed, out, fresh, torn, attaches, build>>

(* the reader has been joined and the control channel closed: _stp_detach, which
   sets the flag unless _stp_exit_flag is set; it is before the transport stops *)
Detach ==
  /\ rpc = "done" /\ stop_threads
  /\ rpc' = "none"
  /\ overwrite_flag' \in {overwrite_flag, overwrite_flag \/ transport_state = "RUNNING"}
  /\ UNCHANGED <<transport_state, buffer, taken, wakeup, dropped, failures, written, sigusr2,
                 stop_threads, failed, out, fresh, torn, attaches, build>>

(* staprun -A: _stp_attach, then init_relayfs starts a reader *)
Attach ==
  /\ rpc = "none" /\ attaches < MaxAttach
  /\ attaches' = attaches + 1
  /\ overwrite_flag' = FALSE
  /\ rpc' = "enter" /\ out' = <<>>
  /\ sigusr2' = FALSE /\ stop_threads' = FALSE /\ failed' = FALSE /\ fresh' = TRUE
  /\ torn' = FALSE
  /\ UNCHANGED <<transport_state, buffer, taken, wakeup, dropped, failures, written, build>>

-----------------------------------------------------------------------------
(* stapio has opened the trace file and started the reader *)
Init ==
  /\ transport_state = "RUNNING" /\ overwrite_flag = FALSE
  /\ subbufs_produced = 0 /\ subbufs_consumed = 0 /\ bytes_consumed = 0
  /\ offset = 0 /\ subbuf = [i \in 0..(NSubbufs - 1) |-> <<>>]
  /\ wakeup = FALSE /\ dropped = 0 /\ failures = 0
  /\ ncells = 0 /\ pdu = 0 /\ headers = {}
  /\ rpc = "enter" /\ sigusr2 = FALSE /\ stop_threads = FALSE /\ failed = FALSE
  /\ out = <<>> /\ fresh = TRUE /\ torn = FALSE /\ attaches = 0
  /\ build \in Builds

Reader == PollEnter \/ Poll \/ PollTimeout \/ ReadData \/ ReadEmpty \/ LoopTest

Next ==
  \/ \E len \in 1..SubbufSize : Flush(len) \/ FlushHeader(len)
  \/ FlushData
  \/ WakeupTimer \/ DataStop
  \/ Reader
  \/ CloseRelayfs \/ Detach \/ Attach

Spec == Init /\ [][Next]_vars

(* the reader is scheduled and its timeouts expire; the timer fires *)
FairSpec == Spec /\ WF_vars(Reader) /\ WF_vars(WakeupTimer)

-----------------------------------------------------------------------------
(* Every variable stays within its type. *)
TypeOK ==
  /\ transport_state \in {"RUNNING", "STOPPED"}
  /\ overwrite_flag \in BOOLEAN /\ wakeup \in BOOLEAN
  /\ subbufs_produced \in Nat /\ subbufs_consumed \in 0..subbufs_produced
  /\ bytes_consumed \in 0..SubbufSize
  /\ offset \in 0..Full
  /\ DOMAIN subbuf = 0..(NSubbufs - 1)
  /\ \A i \in DOMAIN subbuf : Len(subbuf[i]) <= SubbufSize
  /\ rpc \in {"enter", "poll", "asleep", "read", "empty", "done", "none"}
  /\ sigusr2 \in BOOLEAN /\ stop_threads \in BOOLEAN
  /\ failed \in BOOLEAN /\ fresh \in BOOLEAN /\ torn \in BOOLEAN
  /\ ncells \in 0..MaxCells /\ dropped \in 0..(MaxDropped + 1) /\ failures \in Nat
  /\ attaches \in 0..MaxAttach /\ build \in Builds
  /\ pdu \in 0..SubbufSize /\ headers \subseteq (1..MaxCells) \X (1..SubbufSize)

(* While stapio is attached, what it has written followed by what it can
   still read is an unbroken run of the cells that were accepted, up to the
   newest one; and until the first detach, from the first one on.  A reservation
   is refused whole; what was accepted is never cut, reordered or overwritten
   under the reader.  The exception is a reader that comes back to a buffer
   that was overwritten and then refused a reservation. *)
Lossless ==
  Attached /\ ~failed /\ ~torn /\ ~Misplaced =>
    LET s == out \o Unread IN
      /\ \A i \in 1..(Len(s) - 1) : s[i + 1] = s[i] + 1
      /\ s # <<>> => s[Len(s)] = ncells
      /\ attaches = 0 => Len(s) = ncells

(* A reader thread that stops, on EINTR without a last read or at the loop's
   test, leaves nothing behind of a session that has ended: poll prefers data
   to the signal.  The exception is a reader that met the empty buffer before
   the final flush and tests stop_threads after it. *)
FinalDrain ==
  transport_state = "STOPPED" /\ rpc = "done" /\ ~failed /\ fresh => Unread = <<>>

(* "length of data after this trace": the cells that follow a header are the
   data it announces, and not the next header. *)
DataAfterTrace ==
  \A h \in headers : \A c \in (h[1] + 1)..(h[1] + h[2]) :
    \A g \in headers : g[1] # c

(* In stream mode, what an attached stapio can read reaches its output, although
   the last sub-buffer is not full and nobody is woken for it. *)
Delivered(c) ==
  (c \in {Unread[i] : i \in 1..Len(Unread)} /\ Attached /\ ~build.bulk) ~>
    (c \in {out[i] : i \in 1..Len(out)} \/ stop_threads \/ failed \/ torn)

(* A full sub-buffer is read. *)
SubbufRead ==
  (subbufs_produced # subbufs_consumed /\ Attached) ~>
    (subbufs_produced = subbufs_consumed \/ transport_state = "STOPPED"
       \/ stop_threads \/ failed)

(* pthread_join in close_relayfs returns, even if the signal was taken before
   the reader polled. *)
JoinReturns == stop_threads ~> (rpc \in {"done", "none"})
=============================================================================
