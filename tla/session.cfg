\* Connections replaced, paired again and dropped while notifications wait
SPECIFICATION Spec
CONSTANTS
    n1 = n1
    n2 = n2
    None = None
    Devices <- MCDevices
    NodeIds <- MCNodeIds
    SeqModulus = 4
    MaxSubscriptions = 2
    MaxCallbacks = 3
INVARIANTS
    TypeOK
    SequenceFresh
    SlotsServed
    AvailableAfterReport
