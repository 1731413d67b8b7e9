CONSTANTS
    a = a
    b = b
    n1 = n1
    n2 = n2
    intents = intents
    services = services
    Services = {a, b}
    Namespaces = {n1, n2}
    NamespaceOf <- MCNamespaceOf
    Targets <- Mutual
    Callers = {intents}
    IntentsController = intents
    SeparatePolicies = FALSE
    EgressEnabled = TRUE
    EnforcementDefault = FALSE
    EnforcedNamespaces = {n2}
    RestrictToNamespaces = {}
    PolicyCacheLag = FALSE
    MaxChanges = 3
    MaxFaults = 1

SPECIFICATION EitherSpec
CHECK_DEADLOCK FALSE

INVARIANTS
    TypesOK
    MatchAtRest
    RemovalsUnwanted

PROPERTIES
    PoliciesConverge
