CONSTANTS
    Workers = {ctrl}
    Controller = ctrl
    N = 2
    NamesReused = FALSE
    MaxSpecs = 3
    MaxFaults = 2
    ctrl = ctrl
    podwatcher = podwatcher

SPECIFICATION FairSpec
CHECK_DEADLOCK FALSE

INVARIANTS
    TypeOK
    NoOrphanedEffects
    AtRestMatchesDeclaration

PROPERTIES
    CleanedOnlyWhenDeleting
    LegacyHandedOver
    HoldsEffects
    
