SPECIFICATION Spec
CONSTANTS
    SeqModulus = 8
    WordModulus = 4096
    MinValids = {0, 1, 2}
    MaxPacketDropout = 4
    MaxPacketMisorder = 3
    Lossless = FALSE
    MaxIndex = 13
    MaxPackets = 5
INVARIANT TypeOK
PROPERTIES
    
    FollowsSender
    FractionOfInterval
