SPECIFICATION Spec
CONSTANTS
    d1 = d1
    d2 = d2
    h1 = h1
    h2 = h2
    Procs <- OneAndTwo
    Devices = {d1}
    Names <- DiskOnly
    NameOf <- OneDisk
    Handlers = {h1, h2}
    Stoppable = {}
    Crashable = {}
INVARIANTS
    FreeDeviceServesQueue
CHECK_DEADLOCK FALSE
