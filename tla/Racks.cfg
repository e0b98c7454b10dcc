SPECIFICATION RacksSpec
CONSTANTS
    i1 = i1
    i2 = i2
    r1 = r1
    r2 = r2
    c1 = c1
    c2 = c2
    c3 = c3
    NoRack = NoRack
    NoOne = NoOne
    MaxPieces = 2
    Item <- MCItem
    Rack <- MCRack
    Caller <- MCCaller
    Size = {2, 3}
    Position = {0, 1, 2, 3}
    Units = {1, 2}
PROPERTIES
    LayoutKeptByItems
    CallsEnd
