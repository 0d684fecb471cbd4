SPECIFICATION Spec
CONSTANTS
    Thread = {1, 2}
    Running = {1}
    Path = {"a", "b"}
    Target = {"tA", "tAll"}
    Procname <- MCProcname
    Pid <- MCPid
    Wants <- MCWants
    AnyPath = "any"
    AnyPid = 0
    Syscall = {"mmap", "munmap"}
    MapEntries = 1
    MaxEvents = 2
INVARIANTS AllFound DeadForgotten NoStaleEntry
PROPERTIES StopWaits StopReturns
CHECK_DEADLOCK FALSE
