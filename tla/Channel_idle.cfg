CONSTANTS
    MaxSeq = 3
    Reach = 3
    DiffModulus = 8
    MinAckPackets = 2
    MaxAckPackets = 4
    MaxAckCount = 4
SPECIFICATION Spec
INVARIANTS
    IdleTimerDisarmed
CHECK_DEADLOCK FALSE
