SPECIFICATION Spec
CONSTANTS
  MaxConn = 2
  MaxMsg = 1
  FirstFd = 4
INVARIANT BroadcastReachesEveryone
CHECK_DEADLOCK FALSE
