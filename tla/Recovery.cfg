SPECIFICATION Spec
CONSTANTS
    Tabs = {t1}
    Routes = {a, b}
    Settings = {s, z}
    Stages = {}
    Modes = {"current"}
    ReservationLimit = 3
    IntentLimit = 2
    SurfaceLimit = 1
    StageLimit = 1
    MaxIntents = 2
    MaxOps = 2
    MaxSurfaces = 0
    QueueBound = 1
    Scenarios <- RecoveryScenarios
INVARIANTS
    OneExportPerTab
    GrantsAreSound
CHECK_DEADLOCK FALSE
