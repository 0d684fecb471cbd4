---------------------------- MODULE MCTargetCmd ----------------------------
(* Instances of TargetCmd for TLC; the .cfg files give the constants. *)
EXTENDS TargetCmd
=============================================================================
