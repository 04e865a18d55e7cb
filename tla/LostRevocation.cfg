SPECIFICATION Spec
CONSTANTS
    Tabs = {t1}
    Routes = {a, b}
    Settings = {s}
    Stages = {}
    Modes = {"current"}
    ReservationLimit = 2
    IntentLimit = 1
    SurfaceLimit = 1
    StageLimit = 1
    MaxIntents = 1
    MaxOps = 1
    MaxSurfaces = 0
    QueueBound = 1
    Scenarios <- LossScenarios
PROPERTIES
    NoGrantAfterRevocation
CHECK_DEADLOCK FALSE
