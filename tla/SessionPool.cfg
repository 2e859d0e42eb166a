SPECIFICATION FairSpec
CONSTANTS
    s1 = s1
    s2 = s2
    Sessions = {s1, s2}
    Elements = {e1, e2}
    Apps = {a1}
    Service = Service
    NoThread = NoThread
    NoSession = NoSession
    Socket <- DualSockets
    SchedulingTimeouts = {0, 2000}
    CheckInterval = 1000
    MaxRemovals = 2
INVARIANTS
    TypeOK
    ServedSessionLive
    CopyNotDangling
    NoDuplicateSession
    
    HighestSocketPlusOne
    IndInv
PROPERTIES
    RemovedIsPurged
    PendingIsTakenIn
