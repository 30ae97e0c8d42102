SPECIFICATION Spec
CONSTANTS
    Root <- MCRoot
    Open <- MCOpen
    Nothing <- MCNothing
    Tie <- MCTie
    Pad <- MCPad
    NewFlop <- MCNewFlop
    SimdNumbered <- MCSimdNumbered
    MergedName <- MCMergedName
    SplitName <- MCSplitName
    BlockType <- MCBlockType
    Designs <- MCDesigns
INVARIANTS
    
    PairsPackedIfRegular
    PortsKept
    AtOnePad
CHECK_DEADLOCK FALSE
