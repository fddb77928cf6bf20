SPECIFICATION Spec
CONSTANTS
    Cpus = {"c1", "c2"}
    Procs = {"p1", "p2"}
    Frames = {0, 1, 2}
    Need <- TwoAndOne
    Pages = {0, 1}
    Values = {v1, v2}
    Settings <- Sound
    EntriesPerPage = 2
    NumberOfLevels = 2
SYMMETRY Written
INVARIANTS
    TypeOK
    ReadsLastWrite
    WaitingIsWrittenBack
PROPERTY
    VictimIsCheapest
CHECK_DEADLOCK FALSE
