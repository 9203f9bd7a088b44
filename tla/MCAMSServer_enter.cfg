SPECIFICATION ProcSpec
CONSTANTS
    NumThreads = 2
    Faults = {"enter"}
    MaxStarts = 1
    MaxQueue = 1
    Main = Main
    None = None
    MainFaults = {}
    Requests <- AllRequests
INVARIANTS
    SingletonsAlive
CHECK_DEADLOCK FALSE
