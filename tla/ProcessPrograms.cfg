SPECIFICATION Spec
CONSTANTS
    LongSize = 2
    MaxText = 3
    MaxStops = 4
    MaxSignals = 2
    MqSenders = {"t1"}
    MqReceivers = {"v1", "v2"}
    MqLoops = 2
    MaxMsgNums = {1, 2}
    MsgSize = 2
    MaxQueues = 2
    SarSenders = {"t1", "t2"}
    gTimes = 2
    ShmWriters = {"w1", "w2"}
    ShmReaders = {"q1", "q2"}
    TextLen = 3
    ShmSizes = {0, 1, 3}
    MaxMemories = 2
    Waiters = {"w1", "w2"}
    TicksPerS = 2
    SemValueMax = 3
    MaxPosts = 4
    Lockers = {"l1", "l2"}
    Copiers = {"c1"}
    RecordBytes = 2
    CNT = 2
    BufferLen = 3
INVARIANTS
    TypeOK ChildrenAreKnown MessagesAccounted SharedHold
PROPERTIES
    WaitsEnd
CHECK_DEADLOCK FALSE
