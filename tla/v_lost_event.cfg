\* The event of a message is overwritten: it stays in the queue
SPECIFICATION SourceFairSpec
CONSTANTS
    MaxMessages = 2
    Arrivals <- MCQueueFirst
PROPERTY
    QueueDrains
CHECK_DEADLOCK FALSE
