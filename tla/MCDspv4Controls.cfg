SPECIFICATION Spec
CONSTANTS
    k1 = k1
    k2 = k2
    r1 = r1
    e1 = e1
    e2 = e2
    e3 = e3
    e4 = e4
    Clk = {k1, k2}
    Net = {r1, e1, e2, e3, e4}
    One = One
    NoReg = NoReg
    NoClk = NoClk
    MaxCE = 3
    Offers <- MCOffers
INVARIANTS
    ControlsKept
    MGuardIdle
    
PROPERTIES
    PinsWrittenAlike
