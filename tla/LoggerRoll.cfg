SPECIFICATION LogSpec
CONSTANTS
    LogThreads = {t1, t2}
    LogRecord = 2
    MaxFileSize = 5
    LogLoops = 4
    t1 = t1
    t2 = t2
INVARIANT RecentRecordsKept
CHECK_DEADLOCK FALSE
