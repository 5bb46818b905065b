SPECIFICATION Spec
CONSTANTS
    Streams = {s1, s2}
    TopLevel = {s1}
    Accepted = {s2}
    Datagrams = {s1}
    Priorities = {0, 1}
    Sizes = {1}
    SidSpace = 3
    Keys = {1, 2}
    MaxCounter = 4
    MaxBytes = 1
    MaxQueue = 2
    s1 = s1
    s2 = s2
INVARIANTS
    TypeOK
    EnqueuedOnce
    SendersReady
    LowestFirst
    SidTableExact
    NoOrphanFrames
    NoStreamForgotten
CHECK_DEADLOCK FALSE
