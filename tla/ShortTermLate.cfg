SPECIFICATION Spec
CONSTANTS
    c1 = c1
    c2 = c2
    Procs <- Two
    Cpus = {c1, c2}
    LateCpus = {c2}
    MaxSignals = 2
    Algorithm = "FIFO"
    InitialEstimate = 1
    Estimates = {1}
    Script <- IoLastScripts
INVARIANTS
    FreeMeansUnheld
PROPERTIES
    ImplementsSafely
CHECK_DEADLOCK FALSE
