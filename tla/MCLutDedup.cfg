SPECIFICATION LutSpec
CONSTANTS
    n1 = n1
    n2 = n2
    n3 = n3
    LutNet <- MCNet
    Root <- MCRoot
    MaxWidth = 4
    Lut <- MCLut
    LutDesigns <- MCDesigns
INVARIANTS
    FunctionKept
    DistinctAtEnd
PROPERTIES
    Terminates
