SPECIFICATION FairSpec
CONSTANTS
    Tabs = {t1}
    Routes = {a, b}
    Settings = {s, z}
    Stages = {}
    Modes = {"current"}
    ReservationLimit = 2
    IntentLimit = 1
    SurfaceLimit = 1
    StageLimit = 1
    MaxIntents = 1
    MaxOps = 1
    MaxSurfaces = 0
    QueueBound = 2
    Scenarios <- AdmissionScenarios
INVARIANTS
    TypeOK
PROPERTIES
    NoGrantAfterRevocation
    RevocationTakesEffect
CHECK_DEADLOCK FALSE
