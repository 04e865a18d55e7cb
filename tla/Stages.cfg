SPECIFICATION Spec
CONSTANTS
    Tabs = {t1, t2}
    Routes = {a}
    Settings = {s}
    Stages = {x}
    Modes = {"current"}
    ReservationLimit = 2
    IntentLimit = 2
    SurfaceLimit = 1
    StageLimit = 1
    MaxIntents = 4
    MaxOps = 4
    MaxSurfaces = 0
    QueueBound = 1
    Scenarios <- StageScenarios
INVARIANTS
    StageHasOneOwner
    ClaimHasRoom
    PreviewIsExclusive
PROPERTIES
    StageIsAccountedFor
    ImplementsAuthority
    CapabilitiesAreRetained
CHECK_DEADLOCK FALSE
