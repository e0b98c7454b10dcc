SPECIFICATION Spec
CONSTANTS
    i1 = i1
    i2 = i2
    s1 = s1
    s2 = s2
    t1 = t1
    t2 = t2
    Null = Null
    Item <- MCItem
    Software <- MCSoftware
    Title <- MCTitle
    Quantity = {1, 3}
    CpuCount = {0, 1}
    CoreCount = {0, 2}
    Copies = {0, 1, 2}
SYMMETRY MCPairSymmetry
INVARIANTS
    LicenceRespected
    InstallationsAreMetered
PROPERTY
    ImplementsPools
