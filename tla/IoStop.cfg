SPECIFICATION Spec
CONSTANTS
    d1 = d1
    d2 = d2
    h1 = h1
    h2 = h2
    Procs <- OneAndTwo
    Devices = {d1, d2}
    Names <- DiskOnly
    NameOf <- TwoDisks
    Handlers = {h1, h2}
    Stoppable = {d1}
    Crashable = {d1}
INVARIANTS
    OneUserPerDevice
    QueuedOnce
PROPERTIES
    NoEarlyWakeup
    DisconnectionFindsItsProcess
SYMMETRY HandlerSymmetry
CHECK_DEADLOCK FALSE
