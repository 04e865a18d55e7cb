SPECIFICATION FairSpec
CONSTANTS
    Stages = {s1}
    Kinds = {"archive", "binary"}
    Mixes <- LossesAndFailures
INVARIANTS
    TypeOK
    BytesOutliveReaders
    CleanupIsAssured
    ReportIsHonest
PROPERTIES
    DownloadIsCleanedUp
