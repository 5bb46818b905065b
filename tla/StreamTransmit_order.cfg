SPECIFICATION Spec
CONSTANTS
    Streams = {s1, s2}
    TopLevel = {s1}
    Accepted = {s2}
    Datagrams = {s1}
    Priorities = {0, 1}
    Sizes = {0, 1}
    SidSpace = 3
    Keys = {1, 2}
    MaxCounter = 4
    MaxBytes = 2
    MaxQueue = 2
    s1 = s1
    s2 = s2
INVARIANT
    TxQueueInOrder
CHECK_DEADLOCK FALSE
