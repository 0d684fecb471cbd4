----------------------------- MODULE BufferSize -----------------------------
(***************************************************************************)
(* The size of the trace buffer, as _stp_transport_init computes it from   *)
(* the module parameter _stp_bufsize (megabytes, 0 if not given), and the  *)
(* pages _stp_transport_data_fs_init asks for.  The code counts bytes in   *)
(* the 32 bits of an unsigned int; all its sizes are multiples of 64 kB,   *)
(* which is the unit here, and 2^32 bytes are 2^16 units.                  *)
(***************************************************************************)
EXTENDS Integers

MB == 16
Word == 65536
PagesPerUnit == 16
Unsigned(n) == n % Word

(* unsigned size = _stp_bufsize * 1024 * 1024 *)
Size(bufsize) == Unsigned(bufsize * MB)

(* mutant: the limit on the sub-buffers' number is tested after the doubling *)
EnoughLate(bufsize, subbuf) == subbuf >= 2 * MB \/ Size(bufsize) \div subbuf <= 64

(* the loop stops at this _stp_subbuf_size *)
Enough(bufsize, subbuf) == subbuf >= MB \/ Size(bufsize) \div subbuf <= 64

Doubled == {1, 2, 4, 8, MB, 2 * MB}

(* 65536 bytes, doubled until it is enough *)
SubbufSize(bufsize) ==
  IF bufsize = 0 THEN 4
  ELSE CHOOSE u \in Doubled : Enough(bufsize, u) /\ \A v \in Doubled : v < u => ~Enough(bufsize, v)

Nsubbufs(bufsize) == IF bufsize = 0 THEN 8 ELSE Size(bufsize) \div SubbufSize(bufsize)

(* npages: the product of the two unsigned ints wraps before it is widened *)
NPages(bufsize, cpus) == Unsigned(SubbufSize(bufsize) * Nsubbufs(bufsize)) * cpus * PagesPerUnit

(* what staprun -b lets through *)
BufferArg == 1..4095

(* The buffer has the size asked for, of 16 sub-buffers at least, and 64 at most
   if they are smaller than a megabyte. *)
AsAsked(bufsize) ==
  /\ SubbufSize(bufsize) * Nsubbufs(bufsize) = bufsize * MB
  /\ Nsubbufs(bufsize) >= 16
  /\ SubbufSize(bufsize) < MB => Nsubbufs(bufsize) <= 64
  /\ SubbufSize(bufsize) <= MB
=============================================================================
