CONSTANTS
    a = a
    b = b
    n1 = n1
    n2 = n2
    intents = intents
    services = services
    Services = {a, b}
    Namespaces = {n1, n2}
    NamespaceOf <- MCNamespaceOf
    Targets <- OneWay
    Callers = {intents, services}
    IntentsController = intents
    SeparatePolicies = FALSE
    EgressEnabled = FALSE
    EnforcementDefault = TRUE
    EnforcedNamespaces = {}
    RestrictToNamespaces = {}
    PolicyCacheLag = FALSE
    MaxChanges = 1
    MaxFaults = 0

SPECIFICATION Spec
CHECK_DEADLOCK FALSE

INVARIANTS
    PoliciesMatchDeclarations
