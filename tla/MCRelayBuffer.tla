--------------------------- MODULE MCRelayBuffer ---------------------------
(* Instances of RelayBuffer for TLC; the .cfg files give the constants. *)
EXTENDS RelayBuffer

Stream == [bulk |-> FALSE, need_ppoll |-> TRUE]
Bulk == [bulk |-> TRUE, need_ppoll |-> FALSE]
MCBuilds == {Stream, Bulk}
BulkOnly == {Bulk}

(* What was accepted while stapio is attached is read: in both modes every full
   sub-buffer, for which writers only set a flag that the timer looks at, and in
   stream mode every cell, although nobody is woken for the last ones. *)
DataRead == SubbufRead /\ \A c \in 1..MaxCells : Delivered(c)
=============================================================================
