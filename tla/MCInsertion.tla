---------------------------- MODULE MCInsertion ----------------------------
(* Two staprun processes, for the same module or for different ones. *)
EXTENDS Insertion

MCName == {"a", "b"}
MCProcess == {"s", "t"}
MCModnames == {[s |-> "a", t |-> "a"], [s |-> "a", t |-> "b"]}
=============================================================================
