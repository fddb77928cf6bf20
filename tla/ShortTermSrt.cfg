SPECIFICATION Spec
CONSTANTS
    c1 = c1
    c2 = c2
    Procs <- Two
    Cpus = {c1, c2}
    LateCpus = {}
    MaxSignals = 2
    Algorithm = "SRT"
    InitialEstimate = 1
    Estimates = {0, 1}
    Script <- ShortScripts
INVARIANTS
    TypeOK
    OneProcessPerCpu
    FreeMeansUnheld
    ReadyProcessHasOnePlace
    RunningProcessIsNamed
    FinishedAtTheEnd
PROPERTIES
    SyscallBlocks
    FreshBeforeAged
SYMMETRY CpuSymmetry
CHECK_DEADLOCK FALSE
