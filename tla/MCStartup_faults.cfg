SPECIFICATION MCFairSpec
CONSTANTS
    Elements <- MCElements
    Offered <- MCOffered
    MaxFaults = 3
INVARIANTS StartsInOrder ContentLoaded
PROPERTIES ComesUp
