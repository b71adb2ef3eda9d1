SPECIFICATION Spec
CONSTANTS
  MaxConn = 3
  MaxMsg = 1
  FirstFd = 4
INVARIANTS TypeOK ArrayMeansClients OneAcceptor
CHECK_DEADLOCK FALSE
