SPECIFICATION FairSpec
CONSTANTS
    FileLen = 4
    Block = 2
    NameLen = 2
    OldLens = {0, 5}
INVARIANTS TypeOK FileStartsAsSent
PROPERTIES ReceiverEnds ImplementsTransfer
CHECK_DEADLOCK FALSE
