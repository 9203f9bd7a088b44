---------------------------- MODULE CompletionPort ----------------------------
(***************************************************************************)
(* External: what the server relies on from Windows and from its clients.  *)
(* Overlapped operations are I/O request packets (Irps) that the kernel    *)
(* completes in any order; each completion appends one packet to the FIFO  *)
(* completion port.  Clients connect, send, close and reset.               *)
(***************************************************************************)
EXTENDS PerIOData, FiniteSets

CONSTANTS Irps,         \* kernel request packets
          Idle,         \* an Irp that is not in use
          Listen,       \* completion key of the listen socket
          Env,          \* what clients and network may do besides asking
          Faults,       \* the calls that may fail
          MaxClients,   \* bound: connection attempts
          MaxMsgs       \* bound: messages per connection

EnvKinds   == {"split", "pipeline", "raw", "act", "close", "reset"}
FaultKinds == {"socket", "acceptex", "assoc", "recv", "send"}

ASSUME PortAssumption ==
    /\ Env \subseteq EnvKinds
    /\ Faults \subseteq FaultKinds
    /\ Listen \notin Socks
    /\ MaxClients \in Nat
    /\ MaxMsgs \in Nat

VARIABLES irp,       \* outstanding overlapped operation of each Irp, or Idle
          port,      \* completion packets, oldest first
          sock,      \* state of each SOCKET
          assoc,     \* sockets associated with the port
          connects,  \* connection attempts made so far
          backlog,   \* connections waiting to be accepted
          wire,      \* bytes sent by the client and not received yet
          sent,      \* messages sent on each connection
          replies    \* responses handed to WSASend on each connection

netVars  == <<sock, assoc, connects, backlog, wire, sent, replies>>
portVars == <<irp, port>>

Keys      == Socks \cup {Listen}
SockState == {"none", "fresh", "up", "fin", "rst"}

(* wild: the operation writes outside the object's own buffer.             *)
Operation == [cell: Cells, key: Keys, kind: OpTypes, sock: Socks, wild: BOOLEAN]

(* ok and n are what GetQueuedCompletionStatus returns; kind is the        *)
(* operation that completed, which the server cannot see.                  *)
Packet == [cell: Cells, key: Keys, kind: OpTypes, ok: BOOLEAN, n: {0, 1}]

ASSUME IdleAssumption == Idle \notin Operation

PortInit ==
    /\ irp = [i \in Irps |-> Idle]
    /\ port = <<>>
    /\ sock = [s \in Socks |-> "none"]
    /\ assoc = {}
    /\ connects = 0
    /\ backlog = 0
    /\ wire = [s \in Socks |-> <<>>]
    /\ sent = [s \in Socks |-> 0]
    /\ replies = [s \in Socks |-> 0]

PortTypeOK ==
    /\ irp \in [Irps -> Operation \cup {Idle}]
    /\ port \in Seq(Packet)
    /\ sock \in [Socks -> SockState]
    /\ assoc \subseteq Socks
    /\ connects \in 0..MaxClients
    /\ backlog \in 0..connects
    /\ wire \in [Socks -> Seq(Tokens)]
    /\ sent \in [Socks -> 0..MaxMsgs]
    /\ replies \in [Socks -> Nat]

-----------------------------------------------------------------------------
Busy(i) == irp[i] # Idle

(* Some operation or some packet of the port still names cell c.           *)
Referenced(c) ==
    \/ \E i \in Irps : Busy(i) /\ irp[i].cell = c
    \/ \E n \in DOMAIN port : port[n].cell = c

(* The addresses operator new can return: any that is free, be it still    *)
(* named or not.  (Which of those that nothing names is immaterial.)       *)
Fresh ==
    LET unnamed == {c \in Cells \ live : ~Referenced(c)}
    IN {c \in Cells \ live : c \in unnamed => c = CHOOSE d \in unnamed : TRUE}

(* WSARecv, WSASend, AcceptEx: one more outstanding operation.             *)
Overlapped(c, k, t, s, w) ==
    \E i \in Irps :
        /\ ~Busy(i)
        /\ i = CHOOSE j \in Irps : ~Busy(j)
        /\ irp' = [irp EXCEPT ![i] =
                     [cell |-> c, key |-> k, kind |-> t, sock |-> s, wild |-> w]]

(* The operation of i ends and its packet is queued.                       *)
Complete(i, ok, n) ==
    /\ irp' = [irp EXCEPT ![i] = Idle]
    /\ port' = Append(port, [cell |-> irp[i].cell, key |-> irp[i].key,
                             kind |-> irp[i].kind, ok |-> ok, n |-> n])

(* The bytes land at the start of the buffer, over what was there.         *)
Overwrite(b, d) == d \o SubSeq(b, Len(d) + 1, Len(b))

-----------------------------------------------------------------------------
KernelAccept(i) ==
    /\ Busy(i) /\ irp[i].kind = ACCEPT_POSTED
    /\ backlog > 0
    /\ backlog' = backlog - 1
    /\ \/ /\ sock' = [sock EXCEPT ![irp[i].sock] = "up"]
          /\ Complete(i, TRUE, 0)
       \/ /\ "reset" \in Env
          /\ Complete(i, FALSE, 0)
          /\ UNCHANGED sock
    /\ UNCHANGED <<heapVars, assoc, connects, wire, sent, replies>>

KernelRecv(i) ==
    /\ Busy(i) /\ irp[i].kind = RECV_POSTED
    /\ LET s == irp[i].sock
           c == irp[i].cell
       IN \/ \E k \in 1..Len(wire[s]) :
                /\ "split" \in Env \/ k = Len(wire[s])
                /\ sock[s] \in {"up", "fin"}
                /\ wire' = [wire EXCEPT ![s] = SubSeq(@, k + 1, Len(@))]
                /\ buf' = IF irp[i].wild \/ c \notin live THEN buf
                          ELSE [buf EXCEPT ![c] =
                                  Overwrite(@, SubSeq(wire[s], 1, k))]
                /\ Complete(i, TRUE, 1)
          \/ /\ sock[s] = "fin" /\ wire[s] = <<>>
             /\ Complete(i, TRUE, 0)
             /\ UNCHANGED <<wire, buf>>
          \/ /\ sock[s] = "rst"
             /\ Complete(i, FALSE, 0)
             /\ UNCHANGED <<wire, buf>>
    /\ UNCHANGED <<live, op, acceptsocket, sock, assoc, connects, backlog,
                   sent, replies>>

KernelSend(i) ==
    /\ Busy(i) /\ irp[i].kind = SEND_POSTED
    /\ \/ Complete(i, TRUE, 1)
       \/ sock[irp[i].sock] = "rst" /\ Complete(i, FALSE, 0)
    /\ UNCHANGED <<heapVars, netVars>>

Kernel(i) == KernelAccept(i) \/ KernelRecv(i) \/ KernelSend(i)

-----------------------------------------------------------------------------
ClientConnect ==
    /\ connects < MaxClients
    /\ connects' = connects + 1
    /\ backlog' = backlog + 1
    /\ UNCHANGED <<heapVars, portVars, sock, assoc, wire, sent, replies>>

HeadsSent == {"GET"} \cup (IF "raw" \in Env THEN {"RAW"} ELSE {})
                     \cup (IF "act" \in Env THEN {"ACT"} ELSE {})

(* Without "pipeline" a client waits for the answer before it asks again.  *)
ClientSend(s) ==
    /\ sock[s] = "up"
    /\ sent[s] < MaxMsgs
    /\ "pipeline" \in Env \/ replies[s] >= sent[s]
    /\ \E h \in HeadsSent : wire' = [wire EXCEPT ![s] = @ \o <<h, "END">>]
    /\ sent' = [sent EXCEPT ![s] = @ + 1]
    /\ UNCHANGED <<heapVars, portVars, sock, assoc, connects, backlog, replies>>

ClientClose(s) ==
    /\ sock[s] = "up"
    /\ \/ "close" \in Env /\ sock' = [sock EXCEPT ![s] = "fin"]
       \/ "reset" \in Env /\ sock' = [sock EXCEPT ![s] = "rst"]
    /\ UNCHANGED <<heapVars, portVars, assoc, connects, backlog, wire, sent,
                   replies>>

Client == ClientConnect \/ \E s \in Socks : ClientSend(s) \/ ClientClose(s)
=============================================================================
