SPECIFICATION Spec
CONSTANTS
    Inv <- MCInv
    Pin <- MCPin
    Net <- MCNet
    Designs <- MCDesigns
INVARIANTS
    ValuesKept
    ReadsDriven
    
    OrderDoesNotMatter
