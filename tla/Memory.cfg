\* One writer and the job, on a host ahead of UTC, with Chroma calls that may raise.
SPECIFICATION FairSpec
CONSTANTS
    Writers = {w1}
    Clients = {"acme", "globex", "former"}
    Targets <- MCTargets
    MaxAge = 2
    UtcOffset = 1
    MaxFailures = 2
    MaxTime = 3
    MaxEntries = 2
INVARIANTS
    TypeOK
    CompletedRunLeavesNothingOld
PROPERTIES
    OnlyOldPruned
    OldEntriesGo
CHECK_DEADLOCK FALSE
