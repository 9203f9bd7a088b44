SPECIFICATION FairSpec

CONSTANTS
    Cells = {c1, c2, c3, c4, c5, c6}
    Socks = {s1, s2, s3}
    NoSock = NoSock
    Irps = {i1, i2, i3, i4}
    Idle = Idle
    Listen = Listen
    Workers = {w1, w2}
    Env = {}
    Faults = {}
    MaxClients = 2
    MaxMsgs = 1
    MaxPostAccept = 1
    BadDescriptor = {"fault", "wild"}

CONSTRAINT UntilMisread

PROPERTIES
    RequestAnswered
    ClientAccepted

INVARIANTS
    ExclusiveIO
    AtMostOneReply
    NoOrphanIO
