CONSTANTS
    Strings = {"server"}
    Namespaces = {"here", "there"}
    Resources = {"x"}
    Here = "here"
    Clients = {"a"}
    DottedClients = {}
    LowercaseClients = {}
    Users = {"u"}
    Served = {"v1alpha3", "v1beta1", "v2alpha1", "v2beta1"}
    WrittenCalls <- Calls
    WrittenTargets <- Targets
    StrictMode = FALSE
    MaxWrites = 2
    Names = {"n", "m"}
    MaxConfigs = 4
    Keys = {"k", "l"}
    Buffer = 2
    MaxBatch = 2
    MaxItems = 4

SPECIFICATION Spec
CHECK_DEADLOCK FALSE

INVARIANTS
    DeclaredMeaningKept
    UniqueUnlessRaced
    NoCountLost

PROPERTIES
    OperatorGetsThrough
    ServerTrusted
    CloudCaughtUp
    BatchersGoOn
