SPECIFICATION Spec
CONSTANTS
    Items = 3
    Chunks = 2
    Resolvers = {r1, r2}
    Mixes <- McMixes
    Previews = {1, 2}
    StagesEach = 1
    StageLimit = 1
    Allowances <- McAllowances
    r1 = r1
    r2 = r2
INVARIANTS
    TypeOK
    ResultsAreTrue
    ResourcesAreOwned
PROPERTIES
    DispatchIsGuarded
    RevokedIsWithdrawn
    CapturesEnd
CHECK_DEADLOCK FALSE
