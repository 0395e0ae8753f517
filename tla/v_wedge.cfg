\* StartDiscovery fails once: no discovery is ever started again
SPECIFICATION MeshFairSpec
CONSTANTS
    n1 = n1
    n2 = n2
    cb = cb
    None = None
    Devices <- MCDevices
    RSSIs <- MCRSSIs
    Callbacks <- MCCallbacks
    Faults <- MCWedgeFaults
    Asserts = FALSE
PROPERTY
    AlwaysReconnects
