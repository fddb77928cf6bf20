SPECIFICATION FairSpec
CONSTANTS
    d1 = d1
    d2 = d2
    h1 = h1
    h2 = h2
    Procs <- ZeroAndOne
    Devices = {d1, d2}
    Names <- DiskOnly
    NameOf <- TwoDisks
    Handlers = {h1, h2}
    Stoppable = {}
    Crashable = {}
INVARIANTS
    TypeOK
    BusyMeansUsed
    QueuedIsBlocked
PROPERTIES
    ImplementsPool
CHECK_DEADLOCK FALSE
