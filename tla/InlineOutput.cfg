SPECIFICATION FairSpec
CONSTANTS
    Jobs = {j1, j2}
    Kinds <- McKinds
    Mixes <- McMixes
INVARIANTS
    TypeOK
    TransfersAreProtected
    OutcomeIsHonest
PROPERTIES
    EverythingIsReleased
CHECK_DEADLOCK FALSE
