\* A working connection is replaced, and its link dropped, by a scan that is out of date
SPECIFICATION MeshSpec
CONSTANTS
    n1 = n1
    n2 = n2
    cb = cb
    None = None
    Devices <- MCDevices
    RSSIs <- MCRSSIs
    Callbacks <- MCCallbacks
    Faults <- MCLinkFaults
    Asserts = FALSE
PROPERTY
    MaintainsWorking
