CONSTANTS
    pod1 = pod1
    pod2 = pod2
    server1 = server1
    server2 = server2
    Pods = {pod1, pod2}
    Targets = {server1, server2}
    Kinded = {server2}
    PodsStart = FALSE
    Edits = FALSE
    NamesReused = FALSE
    MaxChanges = 1
    MaxFaults = 0

SPECIFICATION Spec
CHECK_DEADLOCK FALSE

INVARIANTS
    RemovedWithIntents
