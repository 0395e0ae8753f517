\* Only connecting fails: connect(1) fails, a client polls, connect(0) dereferences null
SPECIFICATION MeshSpec
CONSTANTS
    n1 = n1
    n2 = n2
    cb = cb
    None = None
    Devices <- MCDevices
    RSSIs <- MCRSSIs
    Callbacks <- MCCallbacks
    Faults <- MCConnectFault
    Asserts = FALSE
INVARIANT
    NoNullDeref
