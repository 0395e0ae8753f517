\* Every combination of present, absent and broken members
SPECIFICATION WireSpec
CONSTANTS
    Absent = Absent
    Null = Null
    Broken = Broken
    None = None
    Garbled = Garbled
    Nodes <- MCNodes
    Brightnesses <- MCBrightnesses
    Levels <- MCLevels
    Mireds <- MCMireds
    Followed <- MCFollowed
    Light <- MCLight
    Proxy <- MCProxy
    Address <- MCAddress
    MaxTries = 1
    MaxPairings = 3
    MaxReports = 1
    MaxNumber = 2
INVARIANTS
    WireTypeOK
    TypeOK
    RightLight
    UpToTheError
    WarmerIsYellower
    CommandTakesEffect
    ReportsTrue
PROPERTIES
    NoOtherEffect
