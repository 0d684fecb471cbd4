---------------------------- MODULE MCTaskFinder ----------------------------
(* Small instances of TaskFinder: threads of which one runs when the       *)
(* module is loaded, two executables, a target that names the first and    *)
(* wants mmap, and one that names every executable and wants munmap.       *)
EXTENDS TaskFinder

MCProcname == [g \in Target |-> IF g = "tA" THEN "a" ELSE AnyPath]
MCPid == [g \in Target |-> AnyPid]
MCWants == [g \in Target |-> IF g = "tA" THEN {"mmap"} ELSE {"munmap"}]
=============================================================================
