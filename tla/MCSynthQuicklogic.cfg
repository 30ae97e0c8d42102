SPECIFICATION Spec
CONSTANTS
    Top <- MCTop
    CopyName <- MCCopyName
    IpFile <- MCIpFile
    ClockedTypes <- MCClockedTypes
    Metrics <- MCMetrics
    Sources <- MCSources
INVARIANTS
    
    FusedWhole
    LoweredChecked
    ClocksOfBlif
PROPERTIES
    BlifKeepsDesign
