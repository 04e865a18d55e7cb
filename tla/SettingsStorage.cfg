SPECIFICATION Spec
CONSTANTS
    Popups = {p1, p2}
    Keys = {k1}
    LegacyKey = k0
    Testing = TRUE
    Mixes <- McMixes
INVARIANTS
    TypeOK
    AcknowledgedIsStored
PROPERTIES
    ChoicesAreNotUndone
CHECK_DEADLOCK FALSE
