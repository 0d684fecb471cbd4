---------------------------- MODULE AtomicProbes ----------------------------
(***************************************************************************)
(* What a script may rely on when its probes share global variables: a     *)
(* probe that hits either runs its body while no conflicting body runs     *)
(* anywhere, or is dropped as a whole and counted.  There are no locks     *)
(* here, and no attempts.                                                  *)
(***************************************************************************)
EXTENDS Naturals

CONSTANTS Cpu, Probe,
          Conflicts      \* the pairs of probes that may not run together

VARIABLES at,            \* on each CPU: no probe, one that has hit, or a body
          probe,         \* the probe concerned
          begun,         \* bodies begun
          dropped        \* hits dropped

vars == <<at, probe, begun, dropped>>

Init ==
  /\ at = [c \in Cpu |-> "out"]
  /\ probe \in [Cpu -> Probe]
  /\ begun = 0
  /\ dropped = 0

Hit(c, p) ==
  /\ at[c] = "out"
  /\ at' = [at EXCEPT ![c] = "waiting"]
  /\ probe' = [probe EXCEPT ![c] = p]
  /\ UNCHANGED <<begun, dropped>>

Begin(c) ==
  /\ at[c] = "waiting"
  /\ \A d \in Cpu \ {c} : at[d] = "in" => <<probe[c], probe[d]>> \notin Conflicts
  /\ at' = [at EXCEPT ![c] = "in"]
  /\ begun' = begun + 1
  /\ UNCHANGED <<probe, dropped>>

Drop(c) ==
  /\ at[c] = "waiting"
  /\ at' = [at EXCEPT ![c] = "out"]
  /\ dropped' = dropped + 1
  /\ UNCHANGED <<probe, begun>>

End(c) ==
  /\ at[c] = "in"
  /\ at' = [at EXCEPT ![c] = "out"]
  /\ UNCHANGED <<probe, begun, dropped>>

Next ==
  \E c \in Cpu :
    \/ \E p \in Probe : Hit(c, p)
    \/ Begin(c)
    \/ Drop(c)
    \/ End(c)

Spec == Init /\ [][Next]_vars
=============================================================================
