SPECIFICATION FairSpec
CONSTANTS
  MaxConn = 3
  MaxMsg = 1
  FdLimit = 2
INVARIANTS TypeOK RaceOnlyToLater
PROPERTIES OrphansStay LatestIsServed
CHECK_DEADLOCK FALSE
