SPECIFICATION Spec

CONSTANTS
    Cells = {c1, c2, c3, c4, c5, c6, c7, c8, c9, c10}
    Socks = {s1, s2, s3, s4}
    NoSock = NoSock
    Irps = {i1, i2, i3, i4, i5, i6}
    Idle = Idle
    Listen = Listen
    Workers = {w1, w2}
    Env = {"act", "close", "pipeline"}
    Faults = {}
    MaxClients = 1
    MaxMsgs = 2
    MaxPostAccept = 2
    BadDescriptor = {"fault", "wild"}

SYMMETRY Symmetry

CONSTRAINT UntilMisread

INVARIANTS
    TypeOK
    ExclusiveIO
    OnlySendsDangle
    AcceptPool
    ReceivesOnce
    CrashNeedsMisread
    AtMostOneReply
