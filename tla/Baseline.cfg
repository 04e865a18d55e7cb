SPECIFICATION Spec
CONSTANTS
    h1 = h1
    h2 = h2
    x1 = x1
    x2 = x2
    Handles = {h1, h2}
    Executions = {x1, x2}
    Controls = {"activate"}
    Transports = {"inline", "staged"}
    ItemCount = 2
    MaxRevision = 9
    MaxObservations = 7
    MaxReservationSlots = 2
    MaxWindows = 1
    MaxEvents = 2
INVARIANTS
    TypeOK
    AskedAtMostOnce
    OutcomesAreHonest
    StoredIsUsable
PROPERTIES
    NoEffectAfterStop
SYMMETRY Symmetry
CHECK_DEADLOCK FALSE
