SPECIFICATION FairSpec
CONSTANTS
    Apps = {a1}
    Service = Service
    NoThread = NoThread
    SeqModulus = 4
    Stamps = {1}
    DataLens = {1}
    PartialOffsets = {0, 1}
    MaxSendSegmentSize = 1
    SchedulingTimeout = 2
    ExpireTimeout = 0
    CheckInterval = 3
    MaxCalls = 1
    MaxTime = 1
CHECK_DEADLOCK FALSE
PROPERTY QueuedIsSettled
