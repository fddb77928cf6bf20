SPECIFICATION FairSpec
CONSTANTS
    c1 = c1
    c2 = c2
    Procs <- Three
    Cpus = {c1, c2}
    LateCpus = {}
    MaxSignals = 2
    Algorithm = "FIFO"
    InitialEstimate = 1
    Estimates = {1}
    Script <- MixedScripts
INVARIANTS
    NoLostWakeup
PROPERTIES
    ImplementsFairly
    EveryReadyProcessRuns
CHECK_DEADLOCK FALSE
