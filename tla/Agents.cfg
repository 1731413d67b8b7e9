CONSTANTS
    Pods = {"pod1", "pod2"}
    Targets = {"server"}
    Kinded = {"server"}
    PodsStart = TRUE
    Edits = TRUE
    NamesReused = FALSE
    Clients = {"c"}
    Brokers = {"broker"}
    DefaultEnforced = TRUE
    KafkaSpecs <- SmallKafkaSpecs
    TopicsConfs <- SmallTopicsConfs
    Postgres = {"pg"}
    MySQL = {"my"}
    Databases = {"d", "e"}
    Tables = {"t", "u"}
    Operations = {"select", "insert"}
    Configured = {"my"}
    DatabaseSpecs <- SmallDatabaseSpecs
    Accounts = {"sa"}
    Documents = {"d1", "d2", "d3"}
    DocumentsReused = FALSE
    MaxChanges <- FewChanges
    MaxFaults = 1

SPECIFICATION Spec
CHECK_DEADLOCK FALSE
INVARIANTS
    TypeOK
    LiveLabelsMatch
    ServersMatchAtRest
    
PROPERTIES
    LabelsServed
    KafkaReleasedClean
    KafkaClientsServed
    
    
    AzureNothingElseAllowed
    GcpPolicyBinds
