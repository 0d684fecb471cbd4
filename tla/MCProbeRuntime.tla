--------------------------- MODULE MCProbeRuntime ---------------------------
(***************************************************************************)
(* Two CPUs; group 1 stands for kprobes and timers, whose unregistration   *)
(* waits for running handlers, group 2 for tracepoints and markers.        *)
(***************************************************************************)
EXTENDS ProbeRuntime, TLC

CONSTANTS cpu1, cpu2

MCCpu == {cpu1, cpu2}
Symmetry == Permutations(MCCpu)
=============================================================================
