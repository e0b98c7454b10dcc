SPECIFICATION RequestsSpec
CONSTANTS
    u1 = u1
    w1 = w1
    w2 = w2
    j1 = j1
    j2 = j2
    p1 = p1
    p2 = p2
    NoName = NoName
    NoWord = NoWord
    MaxFailures = 2
    Lock = 2
    Day = 3
    Name <- MCName
    Word <- MCWord
    Jti <- MCJti
    Proc <- MCProc
    Asset <- MCAsset
    KindOf <- MCKindOf
INVARIANTS
    FailuresBounded
    
    OneRowPerItemLink
    NothingIsInherited
PROPERTY
    LocksEnd
