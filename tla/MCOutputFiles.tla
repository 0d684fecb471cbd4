--------------------------- MODULE MCOutputFiles ---------------------------
(* Instances of OutputFiles for TLC; the .cfg files give the constants. *)
EXTENDS OutputFiles
=============================================================================
