SPECIFICATION Spec
CONSTANTS
    c1 = c1
    c2 = c2
    Procs <- Two
    Cpus = {c1, c2}
    LateCpus = {}
    MaxSignals = 2
    Algorithm = "FIFO"
    InitialEstimate = 1
    Estimates = {1}
    Script <- IoLastScripts
INVARIANTS
    SyscallReachesTheKernel
CHECK_DEADLOCK FALSE
