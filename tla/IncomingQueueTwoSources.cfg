SPECIFICATION Spec
SYMMETRY Symmetry
CONSTANTS
    Sources = {s1, s2}
    Links = {l1, l2, l3}
    Null = Null
    NoPacket = NoPacket
    LastSeq = 3
    Seqs <- MCSeqs
    Timestamp <- MCTimestamp
    EndToEndDelay = FALSE
    Reordering = "none"
    Duplicates = "none"
    Queries = {"first"}
CHECK_DEADLOCK FALSE
INVARIANT NothingLost
