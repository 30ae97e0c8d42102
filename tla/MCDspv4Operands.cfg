SPECIFICATION OperandsSpec
CONSTANTS
    AWidth = 4
    BWidth = 2
    CWidth = 6
    DWidth = 3
    PWidth = 6
    Inputs = 6
    None = None
    Designs <- MCDesigns
INVARIANTS
    RefoldKeepsValues
    ResultKeptIfRegular
    FitMeansPlaced
