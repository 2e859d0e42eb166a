SPECIFICATION Spec
CONSTANTS
    SSRCs <- MCSSRCs
    Compounds <- MCCompounds
    sourceBucketsNum = 2
    CountModulus = 8
    WordModulus = 16
    rtcpMinInterval = 4
    PerMember = 2
    Randoms = {4, 11}
    rtcpCheckInterval = 2
    Backoff = 2
    StartTime = 20
    MaxPending = 1
    MaxTime = 24
INVARIANT PreviousIsPast
CHECK_DEADLOCK FALSE
