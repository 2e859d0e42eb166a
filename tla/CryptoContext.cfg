SPECIFICATION Spec
CONSTANTS
    Half = 4
    RocModulus = 4
    ReplayWindowSize = 3
    FirstSeqs <- MCFirstSeqs
    AcrossWrap = FALSE
INVARIANTS TypeOK InStep NoneAgain
 
