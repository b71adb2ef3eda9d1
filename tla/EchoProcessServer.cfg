SPECIFICATION FairSpec
CONSTANTS
  MaxConn = 2
  MaxMsg = 1
  MaxStop = 1
INVARIANTS TypeOK OwnConnectionOwnZombie
PROPERTIES ImplementsService EveryoneInAndOut
CHECK_DEADLOCK FALSE
