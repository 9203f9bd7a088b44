SPECIFICATION ProcSpec
CONSTANTS
    NumThreads = 2
    Faults = {}
    MaxStarts = 1
    MaxQueue = 2
    Main = Main
    None = None
    MainFaults = {}
    Requests <- AllRequests
INVARIANTS
    HeapSerialized
CHECK_DEADLOCK FALSE
