SPECIFICATION Spec

CONSTANTS
    Cells = {c1, c2, c3, c4, c5, c6, c7, c8}
    Socks = {s1, s2, s3}
    NoSock = NoSock
    Irps = {i1, i2, i3, i4, i5}
    Idle = Idle
    Listen = Listen
    Workers = {w1, w2}
    Env = {"split", "raw", "act", "close", "reset"}
    Faults = {"socket", "acceptex", "assoc", "recv", "send"}
    MaxClients = 1
    MaxMsgs = 2
    MaxPostAccept = 1
    BadDescriptor = {"fault", "wild"}

SYMMETRY Symmetry

CONSTRAINT UntilMisread

INVARIANTS
    ExclusiveIO
    OnlySendsDangle
    CrashNeedsMisread
    AcceptPoolBound
    AtMostOneReply
