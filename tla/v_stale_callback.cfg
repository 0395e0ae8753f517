\* The 500 ms timer of a connection that a send has broken calls the waiting callback
SPECIFICATION MeshSpec
CONSTANTS
    n1 = n1
    n2 = n2
    cb = cb
    None = None
    Devices <- MCDevices
    RSSIs <- MCRSSIs
    Callbacks <- MCCallbacks
    Faults <- MCLinkFaults
    Asserts = FALSE
PROPERTY
    CallbackWhenReady
