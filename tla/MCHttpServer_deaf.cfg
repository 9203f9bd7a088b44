SPECIFICATION Spec

CONSTANTS
    Cells = {c1, c2, c3, c4}
    Socks = {s1, s2, s3}
    NoSock = NoSock
    Irps = {i1, i2, i3, i4}
    Idle = Idle
    Listen = Listen
    Workers = {w1, w2}
    Env = {"raw"}
    Faults = {}
    MaxClients = 1
    MaxMsgs = 1
    MaxPostAccept = 1
    BadDescriptor = {"fault", "wild"}

INVARIANTS
    ReceivesOnce
