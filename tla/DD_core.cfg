CONSTANTS
    front = front
    back = back
    Names = {front, back}
    Kinds = {"OttrLegacy", "Deployment"}
    ProtectedServices <- ByName
    Recreate = FALSE
    MaxChanges = 2
    MaxFaults = 1

SPECIFICATION FairSpec
CHECK_DEADLOCK FALSE

INVARIANTS
    TypeOK
    ProtectedAtRest

PROPERTIES
    KeepsProtection
    Heals
