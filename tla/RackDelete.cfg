SPECIFICATION Spec
CONSTANTS
    i1 = i1
    i2 = i2
    r1 = r1
    r2 = r2
    NoRack = NoRack
    Item <- MCItem
    Rack <- MCRack
    Size = {2, 3}
    Position = {0, 1, 2, 3}
    Units = {1, 2}
SYMMETRY MCSymmetry
PROPERTY
    UsedRackNotDeleted
