SPECIFICATION Spec
CONSTANTS
    Mul <- MCMul
    Add <- MCAdd
    Flop <- MCFlop
    NoCell = NoCell
    Bit <- MCBit
    Y <- MCY
    Ctl <- MCCtl
    Designs <- MCDesigns
INVARIANTS
    QueuedOnce
    
    
    NoUserlessCopy
    OneDriver
