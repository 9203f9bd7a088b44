SPECIFICATION FairProcSpec
CONSTANTS
    NumThreads = 2
    Faults = {"port"}
    MaxStarts = 2
    MaxQueue = 1
    Main = Main
    None = None
    MainFaults = {"open", "afx"}
    Requests = {"answer"}
INVARIANTS
    ProcTypeOK
    SingletonsAlive
    OwnersInside
PROPERTY
    KeepsLifecycle
