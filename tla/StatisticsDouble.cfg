SPECIFICATION StatFairSpec
CONSTANTS
    Hold = 1
    Delay = 2
    Conflict = 4
    MaxCount = 6
INVARIANTS StatTypeOK LostNoneShownAll
PROPERTIES CountReachesTotal
