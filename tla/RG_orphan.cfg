CONSTANTS
    Workers = {ctrl, podwatcher}
    Controller = ctrl
    N = 1
    NamesReused = FALSE
    MaxSpecs = 2
    MaxFaults = 0
    ctrl = ctrl
    podwatcher = podwatcher


SPECIFICATION Spec
CHECK_DEADLOCK FALSE

INVARIANTS
    AtRestMatchesDeclaration
