CONSTANTS
    front = front
    back = back
    Names = {front}
    Kinds = {"OttrLegacy", "Deployment"}
    ProtectedServices <- ByKind
    Recreate = FALSE
    MaxChanges = 0
    MaxFaults = 0

SPECIFICATION Spec
CHECK_DEADLOCK FALSE

PROPERTIES
    KeepsProtection
