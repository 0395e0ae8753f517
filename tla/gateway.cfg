\* Commands through failing connections, pairings and writes, and crashes
SPECIFICATION FairSpec
CONSTANTS
    n1 = n1
    n2 = n2
    light = light
    malformed = malformed
    None = None
    Devices <- MCDevices
    RSSIs <- MCRSSIs
    Commands <- MCCommands
    Packets <- MCPackets
    Callbacks <- MCCallbacks
    Faults <- MCLinkFaults
    Asserts = TRUE
INVARIANTS
    GatewayTypeOK
    ConsumingIffIdle
    EnabledWhileConsuming
    OneDeferred
    DeferredHasDriver
    LinksOwned
    ScanMatchesDiscovery
PROPERTIES
    SlotSpec
    MeshSpec
    AlwaysReconnects
    AlwaysResumes
    CallbackCalled
