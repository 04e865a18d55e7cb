SPECIFICATION Spec
CONSTANTS
    Stages = {s1}
    Kinds = {"binary"}
    Mixes <- NoFailures
INVARIANTS
    BytesOutliveDownload
