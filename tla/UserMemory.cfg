SPECIFICATION FairSpec
CONSTANTS
    p1 = p1
    p2 = p2
    Plp = plp
    Pmp = pmp
    Procs <- Two
    Frames <- TwoFrames
    Need <- OneAndTwo
    Overruns <- OnlyP1
    Overlap = FALSE
    WriteOutcomes <- Always
    LateReturns = FALSE
INVARIANTS
    TypeOK
    OneOwner
    NoFrameLost
    PagesSurvive
    EndedIsForgotten
PROPERTIES
    ImplementsMemory
    RequestsAreAnswered
CHECK_DEADLOCK FALSE
