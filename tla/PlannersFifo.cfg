SPECIFICATION FairSpec
CONSTANTS
    p1 = p1
    p2 = p2
    p3 = p3
    Procs <- Two
    Initial = p1
    Frames = 1
    Need <- OneFrameEach
    Loadable <- Two
    Asks <- IoForAll
    Overlap = FALSE
    WriteOutcomes <- Written
    NewAlgorithm = "FIFO"
INVARIANTS
    FramesSuffice

    
CHECK_DEADLOCK FALSE
