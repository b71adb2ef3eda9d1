SPECIFICATION Spec
CONSTANTS
    t1 = t1
    t2 = t2
    t3 = t3
    LogThreads = {t1, t2, t3}
    LogRecord = 2
    MaxFileSize = 3
    LogLoops = 4
    CasThreads = {t1, t2, t3}
    LOOP_NUM = 2
    Groups = {{t1, t2}, {t3}}
    Adders = {t1, t3}
    NoThread = NoThread
    MaxRounds = 2
    MaxLockErrors = 2
    MAX_MSG_NUM = 2
    MaxSent = 6
INVARIANTS TypeOK WithinBounds DoneCounts MutexHolds
PROPERTIES StampNear
CHECK_DEADLOCK FALSE
