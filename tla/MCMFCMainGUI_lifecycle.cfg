SPECIFICATION FairSpec

CONSTANTS
    NumThreads = 2
    Faults = {"enter"}
    MaxStarts = 3
    MaxQueue = 3

INVARIANTS
    TypeOK
    ExitPerWorker
    StopReleases
    NoWorkerLeft

PROPERTIES
    ImplementsLifecycle
    StopReturns
