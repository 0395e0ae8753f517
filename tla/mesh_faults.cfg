\* Every fault, the build without assert()
SPECIFICATION MeshSpec
CONSTANTS
    n1 = n1
    n2 = n2
    cb = cb
    None = None
    Devices <- MCDevices
    RSSIs <- MCRSSIs
    Callbacks <- MCCallbacks
    Faults <- MCAllFaults
    Asserts = FALSE
INVARIANTS
    TypeOK
    OneScanTimer
    NeverStranded
    ConnectionHasCandidate
    CallbackHasTimer
    TimersBounded
