SPECIFICATION FairSpec
CONSTANTS
    Radix = 2
    ControlMarker = 1
    MaxControlMessage = 2
    DataRuns <- MCDataRuns
    Messages <- MCMessages
    MaxSent = 4
    MaxChunk = 3
INVARIANTS
    TypeOK
    DecodesInOrder
    NothingStuck
PROPERTY
    EventuallyDecoded
CHECK_DEADLOCK FALSE
