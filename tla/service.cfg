\* Messages through crashes, boots, broker outages and commands held back
SPECIFICATION FairSpec
CONSTANTS
    MaxMessages = 4
    Arrivals <- MCBothArrivals
INVARIANTS
    ServiceTypeOK
    InOrder
    NoneForgotten
    ConsumesIffFree
PROPERTIES
    SourceSpec
    EventDrains
    AlwaysServes
