SPECIFICATION Spec
CONSTANTS
    NoPort = NoPort
    Unset = Unset
    Cell <- MCCell
    Flop <- MCFlop
    Net <- MCNet
    Const <- MCConst
    Outputs <- MCOutputs
    Shared <- MCShared
    Idle <- MCIdle
    Designs <- MCDesigns
INVARIANTS
    RulesAsWritten
    PathsKeptIfRegular
PROPERTIES
