SPECIFICATION Spec
SYMMETRY Symmetry
CONSTANTS
    Sources = {s1, s2}
    Links = {l1, l2, l3, l4}
    Null = Null
    NoPacket = NoPacket
    LastSeq = 3
    Seqs <- MCSeqs
    Timestamp <- MCTimestamp
    EndToEndDelay = FALSE
    Reordering = "inside"
    Duplicates = "last"
    Queries = {"any", "only"}
CHECK_DEADLOCK FALSE
INVARIANTS
    TypeOK
    
    NothingLost
    NoLeak
PROPERTIES
    
    ImplementsQueue
