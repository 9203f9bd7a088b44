SPECIFICATION Spec

CONSTANTS
    NumThreads = 2
    Faults = {"socket"}
    MaxStarts = 2
    MaxQueue = 2

INVARIANTS
    NoWorkerLeft
