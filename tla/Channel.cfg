CONSTANTS
    MaxSeq = 6
    Reach = 3
    DiffModulus = 8
    MinAckPackets = 2
    MaxAckPackets = 4
    MaxAckCount = 4
SPECIFICATION FairSpec
INVARIANTS
    TypeOK
    AckOnlyReceived
    FlushCoversOwed
    OwedHasTimer
    DestroyedOnce
PROPERTIES
    AckSequenceAdvances
    AckedUnlessOvertaken
CHECK_DEADLOCK FALSE
