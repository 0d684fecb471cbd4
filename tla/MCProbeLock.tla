---------------------------- MODULE MCProbeLock ----------------------------
(***************************************************************************)
(* Four globals: 1 and 2 are taken in opposite roles by two probes, 3 is a *)
(* statistic, 4 is written only by a begin probe and so read unlocked.     *)
(***************************************************************************)
EXTENDS ProbeLock, TLC

CONSTANTS cpu1, cpu2, cpu3, swap, pows, collect, report, begin

MCCpu == {cpu1, cpu2, cpu3}
MCStats == {3}
MCProbe == {swap, pows, collect, report, begin}
MCLocking == {swap, pows, collect, report}

MCRead ==
  (swap :> {1, 4}) @@ (pows :> {2, 4}) @@ (collect :> {1}) @@ (report :> {3})
    @@ (begin :> {})

MCWritten ==
  (swap :> {2}) @@ (pows :> {1}) @@ (collect :> {3}) @@ (report :> {})
    @@ (begin :> {4})

=============================================================================
