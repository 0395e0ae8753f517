\* The broker restarts: nobody connects to it again
SPECIFICATION FairSpec
CONSTANTS
    MaxMessages = 1
    Arrivals <- MCQueueFirst
PROPERTY
    Reconnects
