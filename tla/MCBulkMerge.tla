---------------------------- MODULE MCBulkMerge ----------------------------
(* Three CPUs, four flushes of one or two words, two refusals. *)
EXTENDS BulkMerge
=============================================================================
