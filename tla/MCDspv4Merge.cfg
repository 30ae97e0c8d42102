SPECIFICATION Spec
CONSTANTS
    Acc <- MCAcc
    Free <- MCFree
    Control <- MCControl
    NoNet = NoNet
    Modulus = 3
    Designs <- MCDesigns
    Inputs <- MCInputs
INVARIANTS
    SumsDriven
PROPERTIES
    SameAsRTL
    Terminates
