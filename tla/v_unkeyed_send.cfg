\* pair(1) fails, a client polls and sends: a packet is encrypted without a key
SPECIFICATION MeshSpec
CONSTANTS
    n1 = n1
    n2 = n2
    cb = cb
    None = None
    Devices <- MCDevices
    RSSIs <- MCRSSIs
    Callbacks <- MCCallbacks
    Faults <- MCLinkFaults
    Asserts = TRUE
INVARIANT
    KeyBeforeEncrypt
