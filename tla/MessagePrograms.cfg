SPECIFICATION Spec
CONSTANTS
    r1 = r1
    r2 = r2
    s1 = s1
    s2 = s2
    Receivers = {r1, r2}
    Senders = {s1, s2}
    NoFifo = NoFifo
    FifoCapacity = 2
    MaxSigints = 2
    NumSenders = 3
    UdpQueueLen = 2
INVARIANTS TypeOK NamesAndSocketsKept
PROPERTIES EverybodyStops
CHECK_DEADLOCK FALSE
