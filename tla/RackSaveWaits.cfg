SPECIFICATION PoolSpec
CONSTANTS
    c1 = c1
    c2 = c2
    c3 = c3
    NoOne = NoOne
    MaxPieces = 2
    Caller <- MCCaller
INVARIANT
    SavesNeedOneConnection
