SPECIFICATION Spec
CONSTANTS
    p1 = p1
    p2 = p2
    p3 = p3
    Procs <- Three
    Initial = p1
    Frames = 2
    Need <- OneTwoOne
    Loadable <- ButP3
    Asks <- IoAndDump
    Overlap = FALSE
    WriteOutcomes <- Written
    NewAlgorithm = "PMCP"
INVARIANTS
    TypeOK
    
    FramesSuffice
    EndedHoldsNoMemory
    ExitIsServed

    
CHECK_DEADLOCK FALSE
