SPECIFICATION Dspv2Spec
CONSTANTS
    Tie <- MCTie
    Fresh <- MCFresh
    V4Name <- MCV4Name
    Extra <- MCExtra
    Class <- MCClass
    MixedSigns <- MCMixedSigns
    Dspv2Designs <- MCDesigns
INVARIANTS
    
    
    
    CascadesPrivate
CHECK_DEADLOCK FALSE
