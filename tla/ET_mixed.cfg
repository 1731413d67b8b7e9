CONSTANTS
    web = web
    canary = canary
    Workloads = {web, canary}
    AddressLists <- TwoWorkloads
    Kinded = {}
    Modes = {"if-blocked-by-otterize"}
    MaxChanges = 0
    MaxFaults = 0

SPECIFICATION FairSpec
CHECK_DEADLOCK FALSE

PROPERTIES
    Settles
