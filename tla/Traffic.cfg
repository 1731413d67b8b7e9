SPECIFICATION Spec

CONSTANTS
    Workloads = {"web"}
    AddressLists <- AddressesOfWeb
    Kinded = {}
    Modes = {"off", "always", "if-blocked-by-otterize"}
    MaxChanges = 1
    MaxFaults = 1

CHECK_DEADLOCK FALSE

INVARIANTS
    TypeOK
    ExternalMatchesAtRest

PROPERTIES
    ExternalSettles
    
    
    MetricsMatch
    WebhooksAdmitted
