SPECIFICATION Spec
CONSTANTS
    s1 = s1
    s2 = s2
    Transmitters = {s1, s2}
    Indexes = {0, 1}
    MAX_SEND_THREAD_NUM = 1
    SendSizes = {"full", "byte"}
    MaxNumbered = 2
    MaxTwice = 1
    SnoMod = 3
    PACKET_NUM = 5
    TextNum = 2
    LetterA = 1
    Word = 16
    PING_NUM = 3
    MaxPolls = 1
    Stamps = {0, 8, 15}
    MaxForeign = 1
    Macs = {"m1", "m2"}
    Addresses = {1, 2}
    Ports = {50000, 50302}
    OptionWords = {4}
    Cuts = {6, 10}
    RAW_NUM = 20
    ArpMacs = {"m1", "m2"}
    NoMac = "none"
    MAX_ARP_REQUEST_TIMES = 3
    ArpQueueLen = 2
    MaxConn = 3
    FD_SETSIZE = 6
    MaxMsg = 1
    Runs = {"c1", "c2"}
    RecordLen = 2
    Records = 2
    RecvLens = {0, 1, 3}
    MaxOpenFds = 1
INVARIANT ShownIsAskedFor
CHECK_DEADLOCK FALSE
