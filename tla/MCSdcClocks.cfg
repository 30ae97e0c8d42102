SPECIFICATION Spec
CONSTANTS
    Wire <- MCWire
    Name <- MCName
    Command <- MCCommand
    Designs <- MCDesigns
    NoTarget = 1000
    MaxRuns = 4
INVARIANTS
    BuffersAgree
    DividersAgreeIfFlat
    SecondRunIdle
