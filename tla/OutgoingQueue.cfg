SPECIFICATION FairSpec
CONSTANTS
    Apps = {a1}
    Service = Service
    NoThread = NoThread
    SeqModulus = 2
    Stamps = {0, 2}
    DataLens = {1, 3}
    PartialOffsets = {0}
    MaxSendSegmentSize = 2
    SchedulingTimeout = 2
    ExpireTimeout = 1
    CheckInterval = 3
    MaxCalls = 2
    MaxTime = 2
CHECK_DEADLOCK FALSE
INVARIANTS
    TypeOK
    Accounted
    SequenceFollowsQueue
    SegmentsCoverData
    MarkedOnce
    ExpiresWhatItExamined
    
    
PROPERTIES
    QueuedIsSettled
    
