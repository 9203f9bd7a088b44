SPECIFICATION ProcSpec
CONSTANTS
    NumThreads = 2
    Faults = {"port", "thread", "socket", "acceptex", "post", "enter"}
    MaxStarts = 2
    MaxQueue = 1
    Main = Main
    None = None
    MainFaults = {}
    Requests = {"logged"}
INVARIANTS
    RunningServes
    JoinsHandles
CHECK_DEADLOCK FALSE
CONSTRAINT DialogsOpen
