SPECIFICATION Spec
CONSTANTS
    Tabs = {t1}
    Routes = {a, b}
    Settings = {s}
    Stages = {x, y}
    Modes = {"selected"}
    ReservationLimit = 2
    IntentLimit = 1
    SurfaceLimit = 1
    StageLimit = 1
    MaxIntents = 1
    MaxOps = 1
    MaxSurfaces = 2
    QueueBound = 1
    Scenarios <- SelectionScenarios
INVARIANTS
    DiskIsHydratable
PROPERTIES
    TerminalIsFinal
CHECK_DEADLOCK FALSE
