SPECIFICATION Spec

CONSTANTS
    Cells = {c1, c2, c3, c4}
    Socks = {s1, s2, s3, s4, s5}
    NoSock = NoSock
    Irps = {i1, i2, i3, i4, i5}
    Idle = Idle
    Listen = Listen
    Workers = {w1, w2}
    Env = {}
    Faults = {}
    MaxClients = 1
    MaxMsgs = 2
    MaxPostAccept = 1
    BadDescriptor = {"fault", "wild"}

INVARIANTS
    NoCrash
