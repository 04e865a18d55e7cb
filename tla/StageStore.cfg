SPECIFICATION FairSpec
CONSTANTS
    StageIds <- McStageIds
    Kinds <- McKinds
    Chunks = 2
    PruneLimit = 1
    Mixes <- McMixes
INVARIANTS
    TypeOK
    AcknowledgedIsStored
    NothingIsStranded
PROPERTIES
    StagesAreSwept
CHECK_DEADLOCK FALSE
