-------------------------- MODULE HttpServerProofs --------------------------
(***************************************************************************)
(* Proofs about HttpServer for every number of objects, sockets, packets   *)
(* and workers, every set of client behaviours and of failing calls, and   *)
(* whichever free block operator new hands out.                            *)
(***************************************************************************)
EXTENDS HttpServer, TLAPS, SequenceTheorems

-----------------------------------------------------------------------------
(* Who has a connection's key: a receive, a send, a packet with bytes, and *)
(* a worker inside DoRecv.  DoRecv and PostSend use the key as a socket.   *)
IrpKeys ==
    \A i \in Irps : Busy(i) /\ irp[i].kind # ACCEPT_POSTED => irp[i].key \in Socks
PacketKeys == \A n \in 1..Len(port) : port[n].n > 0 => port[n].key \in Socks
WorkerKeys == \A w \in Workers : wpc[w] \in RecvPCs => wkey[w] \in Socks

TypeInv == TypeOK /\ IrpKeys /\ PacketKeys /\ WorkerKeys

-----------------------------------------------------------------------------
(* A new operation is a well-formed one in the place of an idle one.       *)
LEMMA OverlappedType ==
    ASSUME PortTypeOK, IrpKeys,
           NEW c \in Cells, NEW k \in Keys, NEW t \in OpTypes, NEW s \in Socks,
           NEW d \in BOOLEAN,
           t # ACCEPT_POSTED => k \in Socks,
           Overlapped(c, k, t, s, d)
    PROVE  irp' \in [Irps -> Operation \cup {Idle}] /\ IrpKeys'
<1> DEFINE o == [cell |-> c, key |-> k, kind |-> t, sock |-> s, wild |-> d]
<1>1. o \in Operation
  BY DEF Operation
<1>2. PICK i \in Irps : irp' = [irp EXCEPT ![i] = o]
  BY DEF Overlapped
<1>3. irp' \in [Irps -> Operation \cup {Idle}]
  BY <1>1, <1>2 DEF PortTypeOK
<1>4. ASSUME NEW j \in Irps, irp'[j] # Idle, irp'[j].kind # ACCEPT_POSTED
      PROVE  irp'[j].key \in Socks
  <2>1. CASE j = i
    BY <1>2, <1>4, <2>1 DEF PortTypeOK
  <2>2. CASE j # i
    BY <1>2, <1>4, <2>2 DEF PortTypeOK, IrpKeys, Busy
  <2> QED BY <2>1, <2>2
<1> QED BY <1>3, <1>4 DEF IrpKeys, Busy

(* A completion turns a well-formed operation into a well-formed packet.   *)
LEMMA CompleteType ==
    ASSUME PortTypeOK, IrpKeys, PacketKeys, NEW i \in Irps, Busy(i),
           NEW ok \in BOOLEAN, NEW n \in {0, 1},
           n > 0 => irp[i].kind # ACCEPT_POSTED,
           Complete(i, ok, n)
    PROVE  /\ irp' \in [Irps -> Operation \cup {Idle}]
           /\ port' \in Seq(Packet)
           /\ IrpKeys'
           /\ PacketKeys'
<1> DEFINE p == [cell |-> irp[i].cell, key |-> irp[i].key,
                 kind |-> irp[i].kind, ok |-> ok, n |-> n]
<1>1. p \in Packet
  BY DEF PortTypeOK, Busy, Operation, Packet
<1>2. /\ irp' = [irp EXCEPT ![i] = Idle]
      /\ port' = Append(port, p)
  BY DEF Complete
<1>3. /\ port \in Seq(Packet)
      /\ irp \in [Irps -> Operation \cup {Idle}]
  BY DEF PortTypeOK
<1>4. port' \in Seq(Packet) /\ irp' \in [Irps -> Operation \cup {Idle}]
  BY <1>1, <1>2, <1>3
<1>5. IrpKeys'
  BY <1>2, <1>3 DEF IrpKeys, Busy
<1>6. ASSUME NEW m \in 1..Len(port'), port'[m].n > 0
      PROVE  port'[m].key \in Socks
  <2>1. /\ Len(port') = Len(port) + 1
        /\ Len(port) \in Nat
        /\ m <= Len(port) => port'[m] = port[m]
        /\ m = Len(port) + 1 => port'[m] = p
    BY <1>2, <1>3
  <2>2. CASE m = Len(port) + 1
    BY <1>6, <2>1, <2>2 DEF IrpKeys
  <2>3. CASE m # Len(port) + 1
    BY <1>6, <2>1, <2>3 DEF PacketKeys
  <2> QED BY <2>2, <2>3
<1> QED BY <1>4, <1>5, <1>6 DEF PacketKeys

LEMMA PostRecvType ==
    ASSUME HeapTypeOK, PortTypeOK, IrpKeys,
           NEW s \in Socks, NEW c \in Cells, NEW d \in {"own", "fault", "wild"},
           PostRecv(s, c, d)
    PROVE  /\ op' \in [Cells -> OpTypes]
           /\ irp' \in [Irps -> Operation \cup {Idle}]
           /\ IrpKeys'
<1>1. op' \in [Cells -> OpTypes]
  BY DEF PostRecv, HeapTypeOK, OpTypes
<1>2. CASE irp' = irp
  BY <1>1, <1>2 DEF PortTypeOK, IrpKeys, Busy
<1>3. CASE Overlapped(c, s, RECV_POSTED, s, d = "wild")
  <2>1. s \in Keys /\ RECV_POSTED \in OpTypes /\ (d = "wild") \in BOOLEAN
    BY DEF Keys, OpTypes
  <2> QED BY <1>1, <1>3, <2>1, OverlappedType
<1> QED BY <1>2, <1>3 DEF PostRecv

LEMMA PostNewRecvType ==
    ASSUME HeapTypeOK, PortTypeOK, IrpKeys, ServerTypeOK,
           NEW s \in Socks, PostNewRecv(s)
    PROVE  /\ HeapTypeOK'
           /\ irp' \in [Irps -> Operation \cup {Idle}]
           /\ IrpKeys'
           /\ reused' \subseteq Cells
<1>1. PICK c \in Fresh :
        /\ New(c)
        /\ acceptsocket' = [acceptsocket EXCEPT ![c] = NoSock]
        /\ PostRecv(s, c, "own")
  BY DEF PostNewRecv
<1>2. c \in Cells
  BY DEF Fresh
<1>3. /\ op' \in [Cells -> OpTypes]
      /\ irp' \in [Irps -> Operation \cup {Idle}]
      /\ IrpKeys'
  BY <1>1, <1>2, PostRecvType
<1>4. live' \subseteq Cells /\ buf' \in [Cells -> Seq(Tokens)]
  BY <1>1, <1>2 DEF New, GetNewIOData, HeapTypeOK
<1>5. acceptsocket' \in [Cells -> Socks \cup {NoSock}]
  BY <1>1 DEF HeapTypeOK
<1>6. reused' \subseteq Cells
  BY <1>1, <1>2 DEF New, ServerTypeOK
<1> QED BY <1>3, <1>4, <1>5, <1>6 DEF HeapTypeOK

LEMMA PostNewAcceptType ==
    ASSUME HeapTypeOK, PortTypeOK, IrpKeys, ServerTypeOK, PostNewAccept
    PROVE  /\ HeapTypeOK'
           /\ irp' \in [Irps -> Operation \cup {Idle}]
           /\ IrpKeys'
           /\ sock' \in [Socks -> SockState]
           /\ reused' \subseteq Cells
<1>1. PICK c \in Fresh : New(c) /\ PostAcceptEx(c)
  BY DEF PostNewAccept
<1>2. c \in Cells
  BY DEF Fresh
<1>3. live' \subseteq Cells /\ buf' \in [Cells -> Seq(Tokens)]
  BY <1>1, <1>2 DEF New, GetNewIOData, HeapTypeOK
<1>4. op' \in [Cells -> OpTypes] /\ acceptsocket' \in [Cells -> Socks \cup {NoSock}]
  BY <1>1, <1>2 DEF PostAcceptEx, HeapTypeOK, OpTypes
<1>5. sock' \in [Socks -> SockState]
  BY <1>1 DEF PostAcceptEx, PortTypeOK, SockState
<1>6. irp' \in [Irps -> Operation \cup {Idle}] /\ IrpKeys'
  <2>1. CASE irp' = irp
    BY <2>1 DEF PortTypeOK, IrpKeys, Busy
  <2>2. CASE \E s \in Socks : Overlapped(c, Listen, ACCEPT_POSTED, s, FALSE)
    <3>1. PICK s \in Socks : Overlapped(c, Listen, ACCEPT_POSTED, s, FALSE)
      BY <2>2
    <3>2. Listen \in Keys /\ ACCEPT_POSTED \in OpTypes
      BY DEF Keys, OpTypes
    <3> QED BY <1>2, <3>1, <3>2, OverlappedType
  <2> QED BY <1>1, <2>1, <2>2 DEF PostAcceptEx
<1>7. reused' \subseteq Cells
  BY <1>1, <1>2 DEF New, ServerTypeOK
<1> QED BY <1>3, <1>4, <1>5, <1>6, <1>7 DEF HeapTypeOK
-----------------------------------------------------------------------------
(* Everything a client or the kernel does keeps the types.                 *)
LEMMA ClientType ==
    ASSUME TypeInv, Client, UNCHANGED serverVars
    PROVE  TypeInv'
<1> USE PortAssumption DEF TypeInv, TypeOK, serverVars, histVars, workVars, heapVars,
        portVars
<1>1. ServerTypeOK' /\ WorkerKeys'
  BY DEF ServerTypeOK, WorkerKeys
<1>2. HeapTypeOK' /\ IrpKeys' /\ PacketKeys'
  BY DEF Client, ClientConnect, ClientSend, ClientClose, HeapTypeOK, IrpKeys,
         PacketKeys, Busy
<1>3. CASE ClientConnect
  <2>1. PortTypeOK'
    BY <1>3 DEF ClientConnect, PortTypeOK
  <2> QED BY <1>1, <1>2, <2>1
<1>4. ASSUME NEW s \in Socks, ClientSend(s)
      PROVE  TypeInv'
  <2>1. PICK h \in HeadsSent : wire' = [wire EXCEPT ![s] = @ \o <<h, "END">>]
    BY <1>4 DEF ClientSend
  <2>2. <<h, "END">> \in Seq(Tokens)
    BY DEF HeadsSent, Tokens, Heads
  <2>3. wire' \in [Socks -> Seq(Tokens)]
    BY <2>1, <2>2 DEF PortTypeOK
  <2>4. sent' \in [Socks -> 0..MaxMsgs]
    BY <1>4 DEF ClientSend, PortTypeOK
  <2>5. PortTypeOK'
    BY <1>4, <2>3, <2>4 DEF ClientSend, PortTypeOK
  <2> QED BY <1>1, <1>2, <2>5
<1>5. ASSUME NEW s \in Socks, ClientClose(s)
      PROVE  TypeInv'
  <2>1. PortTypeOK'
    BY <1>5 DEF ClientClose, PortTypeOK, SockState
  <2> QED BY <1>1, <1>2, <2>1
<1> QED BY <1>3, <1>4, <1>5 DEF Client

LEMMA KernelType ==
    ASSUME TypeInv, NEW i \in Irps, Kernel(i),
           UNCHANGED serverVars
    PROVE  TypeInv'
<1> USE DEF TypeInv, TypeOK, serverVars, histVars, workVars, heapVars, netVars
<1>1. ServerTypeOK' /\ WorkerKeys'
  BY DEF ServerTypeOK, WorkerKeys
<1>2. CASE KernelAccept(i)
  <2>1. PICK ok \in BOOLEAN : Complete(i, ok, 0)
    BY <1>2 DEF KernelAccept
  <2>2. /\ irp' \in [Irps -> Operation \cup {Idle}]
        /\ port' \in Seq(Packet)
        /\ IrpKeys' /\ PacketKeys'
    BY <1>2, <2>1, CompleteType DEF KernelAccept
  <2>3. backlog' \in 0..connects' /\ sock' \in [Socks -> SockState]
    <3>1. sock \in [Socks -> SockState] /\ backlog \in 0..connects
          /\ connects \in 0..MaxClients /\ MaxClients \in Nat
      BY PortAssumption DEF PortTypeOK
    <3>2. /\ backlog > 0 /\ backlog' = backlog - 1 /\ connects' = connects
          /\ sock' = sock \/ sock' = [sock EXCEPT ![irp[i].sock] = "up"]
      BY <1>2 DEF KernelAccept
    <3>3. backlog' \in 0..connects'
      BY <3>1, <3>2
    <3>4. sock' \in [Socks -> SockState]
      BY <3>1, <3>2 DEF SockState
    <3> QED BY <3>3, <3>4
  <2>4. HeapTypeOK' /\ PortTypeOK'
    BY <1>2, <2>2, <2>3 DEF KernelAccept, PortTypeOK, HeapTypeOK
  <2> QED BY <1>1, <2>2, <2>4
<1>3. CASE KernelRecv(i)
  <2> DEFINE s == irp[i].sock
             c == irp[i].cell
  <2>1. PICK ok \in BOOLEAN, n \in {0, 1} : Complete(i, ok, n)
    BY <1>3 DEF KernelRecv
  <2>2. irp[i].kind # ACCEPT_POSTED /\ Busy(i)
    BY <1>3 DEF KernelRecv, RECV_POSTED, ACCEPT_POSTED
  <2>3. /\ irp' \in [Irps -> Operation \cup {Idle}]
        /\ port' \in Seq(Packet)
        /\ IrpKeys' /\ PacketKeys'
    BY <2>1, <2>2, CompleteType
  <2>4. s \in Socks /\ c \in Cells
    BY <2>2 DEF PortTypeOK, Busy, Operation
  <2>5. wire' \in [Socks -> Seq(Tokens)] /\ buf' \in [Cells -> Seq(Tokens)]
    <3>1. CASE UNCHANGED <<wire, buf>>
      BY <3>1 DEF PortTypeOK, HeapTypeOK
    <3>2. ASSUME NEW k \in 1..Len(wire[s]),
                 wire' = [wire EXCEPT ![s] = SubSeq(@, k + 1, Len(@))],
                 buf' = IF irp[i].wild \/ c \notin live THEN buf
                        ELSE [buf EXCEPT ![c] =
                                Overwrite(@, SubSeq(wire[s], 1, k))]
          PROVE  wire' \in [Socks -> Seq(Tokens)] /\ buf' \in [Cells -> Seq(Tokens)]
      <4>1. wire[s] \in Seq(Tokens) /\ buf[c] \in Seq(Tokens)
        BY <2>4 DEF PortTypeOK, HeapTypeOK
      <4>2. /\ SubSeq(wire[s], k + 1, Len(wire[s])) \in Seq(Tokens)
            /\ SubSeq(wire[s], 1, k) \in Seq(Tokens)
        BY <4>1
      <4>3. Overwrite(buf[c], SubSeq(wire[s], 1, k)) \in Seq(Tokens)
        <5> DEFINE d == SubSeq(wire[s], 1, k)
        <5>1. Len(d) \in Nat
          BY <4>2
        <5>2. SubSeq(buf[c], Len(d) + 1, Len(buf[c])) \in Seq(Tokens)
          BY <4>1, <5>1
        <5> HIDE DEF d
        <5> QED BY <4>2, <5>2 DEF Overwrite, d
      <4> QED BY <3>2, <4>2, <4>3 DEF PortTypeOK, HeapTypeOK
    <3> QED BY <1>3, <3>1, <3>2 DEF KernelRecv
  <2>6. HeapTypeOK' /\ PortTypeOK'
    BY <1>3, <2>3, <2>5 DEF KernelRecv, PortTypeOK, HeapTypeOK
  <2> QED BY <1>1, <2>3, <2>6
<1>4. CASE KernelSend(i)
  <2>1. PICK ok \in BOOLEAN, n \in {0, 1} : Complete(i, ok, n)
    BY <1>4 DEF KernelSend
  <2>2. irp[i].kind # ACCEPT_POSTED /\ Busy(i)
    BY <1>4 DEF KernelSend, SEND_POSTED, ACCEPT_POSTED
  <2>3. /\ irp' \in [Irps -> Operation \cup {Idle}]
        /\ port' \in Seq(Packet)
        /\ IrpKeys' /\ PacketKeys'
    BY <2>1, <2>2, CompleteType
  <2>4. HeapTypeOK' /\ PortTypeOK'
    BY <1>4, <2>3 DEF KernelSend, PortTypeOK, HeapTypeOK
  <2> QED BY <1>1, <2>3, <2>4
<1> QED BY <1>2, <1>3, <1>4 DEF Kernel
-----------------------------------------------------------------------------
(* Every step of Start's loop and of a worker keeps the types.             *)
LEMMA CrashType == ASSUME TypeInv, Crash PROVE TypeInv'
BY DEF TypeInv, TypeOK, HeapTypeOK, PortTypeOK, ServerTypeOK, IrpKeys, PacketKeys,
       WorkerKeys, Busy, Crash, heapVars, portVars, netVars, workVars, histVars

LEMMA StartPostType == ASSUME TypeInv, StartPost PROVE TypeInv'
<1> USE DEF TypeInv, TypeOK
<1>1. PostNewAccept
  BY DEF StartPost
<1>2. /\ HeapTypeOK'
      /\ irp' \in [Irps -> Operation \cup {Idle}]
      /\ IrpKeys'
      /\ sock' \in [Socks -> SockState] /\ reused' \subseteq Cells
  BY <1>1, PostNewAcceptType
<1>3. toPost' \in 0..MaxPostAccept
  BY ServerAssumption DEF StartPost, ServerTypeOK
<1>4. PortTypeOK' /\ PacketKeys'
  BY <1>2 DEF StartPost, PortTypeOK, PacketKeys
<1>5. ServerTypeOK' /\ WorkerKeys'
  BY <1>2, <1>3 DEF StartPost, ServerTypeOK, WorkerKeys, workVars
<1> QED BY <1>2, <1>4, <1>5

LEMMA WorkerThreadType ==
    ASSUME TypeInv, NEW w \in Workers, WorkerThread(w)
    PROVE  TypeInv'
<1> USE DEF TypeInv, TypeOK, heapVars, netVars, workVars
<1> DEFINE p == Head(port)
<1>1. /\ port \in Seq(Packet) /\ port # <<>> /\ port' = Tail(port)
      /\ irp' = irp
  BY DEF WorkerThread, PortTypeOK
<1>2. /\ p \in Packet /\ p = port[1]
      /\ port' \in Seq(Packet)
      /\ Len(port') = Len(port) - 1
      /\ Len(port) \in Nat /\ Len(port) > 0
      /\ \A m \in 1..Len(port') : port'[m] = port[m + 1]
  BY <1>1, HeadTailProperties
<1>3. PacketKeys'
  BY <1>2 DEF PacketKeys
<1>4. HeapTypeOK' /\ PortTypeOK' /\ IrpKeys'
  BY <1>1, <1>2 DEF WorkerThread, HeapTypeOK, PortTypeOK, IrpKeys, Busy
<1>5. p.cell \in Cells /\ p.key \in Keys
  BY <1>2 DEF Packet
<1>6. PICK t \in TypeRead(p.cell) :
          IF Dispatched(p, t)
          THEN /\ Goto(w, IF t = ACCEPT_POSTED THEN "accept" ELSE "recv")
               /\ wcell' = [wcell EXCEPT ![w] = p.cell]
               /\ wkey' = [wkey EXCEPT ![w] = p.key]
               /\ misread' = (misread \/ Misreads(p, t))
          ELSE UNCHANGED <<workVars, misread>>
  BY DEF WorkerThread
<1>6a. misread' \in BOOLEAN /\ reused' = reused
  BY <1>6 DEF WorkerThread, ServerTypeOK, Misreads
<1>7. CASE ~Dispatched(p, t)
  BY <1>3, <1>4, <1>6, <1>7, <1>6a DEF ServerTypeOK, WorkerKeys, WorkerThread
<1>8. CASE Dispatched(p, t) /\ t = ACCEPT_POSTED
  <2>1. wpc' = [wpc EXCEPT ![w] = "accept"]
    BY <1>6, <1>8 DEF Goto
  <2>2. ServerTypeOK'
    BY <1>5, <1>6, <1>8, <1>6a, <2>1
    DEF ServerTypeOK, WorkerThread, PCs, AcceptPCs, RecvPCs
  <2>3. WorkerKeys'
    BY <1>6, <1>8, <2>1 DEF ServerTypeOK, WorkerKeys, RecvPCs
  <2> QED BY <1>3, <1>4, <2>2, <2>3
<1>9. CASE Dispatched(p, t) /\ t # ACCEPT_POSTED
  <2>1. wpc' = [wpc EXCEPT ![w] = "recv"]
    BY <1>6, <1>9 DEF Goto
  <2>2. ServerTypeOK'
    BY <1>5, <1>6, <1>9, <1>6a, <2>1
    DEF ServerTypeOK, WorkerThread, PCs, AcceptPCs, RecvPCs
  <2>3. p.key \in Socks
    BY <1>2, <1>9 DEF Dispatched, PacketKeys
  <2>4. WorkerKeys'
    BY <1>6, <1>9, <2>1, <2>3 DEF ServerTypeOK, WorkerKeys
  <2> QED BY <1>3, <1>4, <2>2, <2>4
<1> QED BY <1>7, <1>8, <1>9

LEMMA DeleteType ==
    ASSUME TypeInv, NEW w \in Workers, NEW next \in PCs,
           next \in RecvPCs => wpc[w] \in RecvPCs,
           Delete(w, next)
    PROVE  TypeInv'
<1>1. CASE wcell[w] \notin live
  BY <1>1, CrashType DEF Delete
<1>2. CASE wcell[w] \in live
  <2> USE <1>2 DEF TypeInv, TypeOK, Delete, RemoveIOData, Goto
  <2>1. HeapTypeOK'
    BY DEF HeapTypeOK
  <2>2. PortTypeOK' /\ IrpKeys' /\ PacketKeys'
    BY DEF PortTypeOK, IrpKeys, PacketKeys, Busy, portVars, netVars
  <2>3. ServerTypeOK' /\ WorkerKeys'
    BY DEF ServerTypeOK, WorkerKeys, histVars
  <2> QED BY <2>1, <2>2, <2>3
<1> QED BY <1>1, <1>2

LEMMA AcceptingType ==
    ASSUME TypeInv, NEW w \in Workers, Accepting(w)
    PROVE  TypeInv'
<1> USE DEF TypeInv, TypeOK
<1>1. CASE DoAcceptEx(w)
  <2> DEFINE s == acceptsocket[wcell[w]]
  <2>1. CASE wcell[w] \notin live
    BY <1>1, <2>1, CrashType DEF DoAcceptEx
  <2>2. CASE wcell[w] \in live /\ UNCHANGED <<heapVars, irp, assoc, reused>>
             /\ Goto(w, "wait")
    BY <1>1, <2>2
    DEF DoAcceptEx, heapVars, HeapTypeOK, PortTypeOK, ServerTypeOK, IrpKeys, PacketKeys,
        WorkerKeys, Busy, Goto, PCs, RecvPCs
  <2>3. CASE /\ wcell[w] \in live
             /\ s \notin assoc \cup {NoSock} /\ assoc' = assoc \cup {s}
             /\ PostNewRecv(s) /\ Goto(w, "unlisten")
    <3>1. s \in Socks
      BY <2>3 DEF ServerTypeOK, HeapTypeOK
    <3>2. /\ HeapTypeOK' /\ irp' \in [Irps -> Operation \cup {Idle}] /\ IrpKeys'
          /\ reused' \subseteq Cells
      BY <2>3, <3>1, PostNewRecvType
    <3>3. PortTypeOK' /\ PacketKeys'
      BY <1>1, <2>3, <3>1, <3>2 DEF DoAcceptEx, PortTypeOK, PacketKeys
    <3>4. ServerTypeOK' /\ WorkerKeys'
      BY <1>1, <2>3, <3>2
      DEF DoAcceptEx, ServerTypeOK, WorkerKeys, Goto, PCs, AcceptPCs, RecvPCs
    <3> QED BY <3>2, <3>3, <3>4
  <2> QED BY <1>1, <2>1, <2>2, <2>3 DEF DoAcceptEx
<1>2. CASE RemoveListen(w)
  <2>1. "repost" \in PCs /\ "repost" \notin RecvPCs
    BY DEF PCs, AcceptPCs, RecvPCs
  <2> QED BY <1>2, <2>1, DeleteType DEF RemoveListen
<1>3. CASE RepostAccept(w)
  <2>1. /\ HeapTypeOK'
        /\ irp' \in [Irps -> Operation \cup {Idle}]
        /\ IrpKeys'
        /\ sock' \in [Socks -> SockState] /\ reused' \subseteq Cells
    BY <1>3, PostNewAcceptType DEF RepostAccept
  <2>2. PortTypeOK' /\ PacketKeys'
    BY <1>3, <2>1 DEF RepostAccept, PortTypeOK, PacketKeys
  <2>3. ServerTypeOK' /\ WorkerKeys'
    BY <1>3, <2>1 DEF RepostAccept, ServerTypeOK, WorkerKeys, Goto, PCs, RecvPCs
  <2> QED BY <2>1, <2>2, <2>3
<1> QED BY <1>1, <1>2, <1>3 DEF Accepting
LEMMA ReceivingType ==
    ASSUME TypeInv, NEW w \in Workers, Receiving(w)
    PROVE  TypeInv'
<1> USE DEF TypeInv, TypeOK
<1>1. ASSUME wpc[w] \in RecvPCs
      PROVE  wkey[w] \in Socks /\ wkey[w] \in Keys /\ wcell[w] \in Cells
  BY <1>1 DEF WorkerKeys, Keys, ServerTypeOK
<1>2. CASE DoRecv(w)
  <2>1. wpc[w] = "recv"
    BY <1>2 DEF DoRecv
  <2>2. wkey[w] \in Socks /\ wcell[w] \in Cells
    BY <1>1, <2>1 DEF RecvPCs
  <2>3. CASE wcell[w] \notin live
    BY <1>2, <2>3, CrashType DEF DoRecv
  <2>4. CASE wcell[w] \in live
    <3>1. /\ op' \in [Cells -> OpTypes]
          /\ buf' \in [Cells -> Seq(Tokens)]
          /\ irp' \in [Irps -> Operation \cup {Idle}]
          /\ IrpKeys'
          /\ \E l \in {"wait", "send", "rearm"} : Goto(w, l)
      <4>1. CASE Incomplete(w)
        <5>1. PICK d \in {"own", "fault", "wild"} : PostRecv(wkey[w], wcell[w], d)
          BY <4>1, DescriptorAssumption DEF Incomplete
        <5> QED BY <2>2, <4>1, <5>1, PostRecvType DEF Incomplete, HeapTypeOK
      <4>2. CASE PrepareSend(w)
        <5>1. op' \in [Cells -> OpTypes] /\ buf' \in [Cells -> Seq(Tokens)]
          <6>1. SEND_POSTED \in OpTypes
            BY DEF OpTypes
          <6>2. op' = [op EXCEPT ![wcell[w]] = SEND_POSTED]
                /\ buf' = [buf EXCEPT ![wcell[w]] = <<>>]
            BY <4>2 DEF PrepareSend
          <6>3. <<>> \in Seq(Tokens)
            OBVIOUS
          <6>4. op' \in [Cells -> OpTypes]
            BY <6>1, <6>2 DEF HeapTypeOK
          <6> QED BY <6>2, <6>3, <6>4 DEF HeapTypeOK
        <5>2. irp' \in [Irps -> Operation \cup {Idle}] /\ IrpKeys'
          BY <4>2 DEF PrepareSend, PortTypeOK, IrpKeys, Busy
        <5>3. \E l \in {"wait", "send", "rearm"} : Goto(w, l)
          <6>1. PICK built \in BOOLEAN : Goto(w, IF built THEN "send" ELSE "rearm")
            BY <4>2 DEF PrepareSend, BuildSend
          <6> QED BY <6>1
        <5> QED BY <5>1, <5>2, <5>3
      <4>3. CASE Refuse(w)
        BY <4>3 DEF Refuse, HeapTypeOK, PortTypeOK, IrpKeys, Busy
      <4> QED BY <1>2, <2>4, <4>1, <4>2, <4>3 DEF DoRecv
    <3>2. UNCHANGED <<live, acceptsocket, port, netVars, wcell, wkey, toPost,
                      crashed, histVars>>
      BY <1>2, <2>4 DEF DoRecv
    <3>3. HeapTypeOK' /\ PortTypeOK' /\ PacketKeys'
      BY <3>1, <3>2 DEF HeapTypeOK, PortTypeOK, PacketKeys, netVars
    <3>4. ServerTypeOK'
      BY <3>1, <3>2 DEF ServerTypeOK, histVars, Goto, PCs, RecvPCs
    <3>5. WorkerKeys'
      BY <2>2, <3>1, <3>2 DEF ServerTypeOK, WorkerKeys, Goto
    <3> QED BY <3>1, <3>3, <3>4, <3>5
  <2> QED BY <2>3, <2>4
<1>3. CASE PostSend(w)
  <2>1. /\ wkey[w] \in Socks /\ wkey[w] \in Keys /\ wcell[w] \in Cells
        /\ SEND_POSTED \in OpTypes
    BY <1>1, <1>3 DEF PostSend, RecvPCs, OpTypes
  <2>2. irp' \in [Irps -> Operation \cup {Idle}] /\ IrpKeys'
    <3>1. CASE irp' = irp
      BY <3>1 DEF PortTypeOK, IrpKeys, Busy
    <3>2. CASE Overlapped(wcell[w], wkey[w], SEND_POSTED, wkey[w], FALSE)
      BY <2>1, <3>2, OverlappedType
    <3> QED BY <1>3, <3>1, <3>2 DEF PostSend
  <2>3. replies' \in [Socks -> Nat]
    <3>1. /\ replies \in [Socks -> Nat]
          /\ \/ replies' = replies
             \/ replies' = [replies EXCEPT ![wkey[w]] = @ + 1]
      BY <1>3 DEF PostSend, PortTypeOK
    <3>2. CASE replies' = [replies EXCEPT ![wkey[w]] = @ + 1]
      BY <2>1, <3>1, <3>2
    <3> QED BY <3>1, <3>2
  <2>4. HeapTypeOK' /\ PortTypeOK' /\ PacketKeys'
    BY <1>3, <2>2, <2>3 DEF PostSend, heapVars, HeapTypeOK, PortTypeOK, PacketKeys
  <2>5. ServerTypeOK'
    BY <1>3 DEF PostSend, ServerTypeOK, histVars, Goto, PCs, RecvPCs
  <2>6. WorkerKeys'
    BY <1>3, <2>1 DEF PostSend, ServerTypeOK, WorkerKeys, Goto
  <2> QED BY <2>2, <2>4, <2>5, <2>6
<1>4. CASE RemoveSent(w)
  <2>1. "rearm" \in PCs /\ wpc[w] \in RecvPCs
    BY <1>4 DEF RemoveSent, PCs, RecvPCs
  <2> QED BY <1>4, <2>1, DeleteType DEF RemoveSent
<1>5. CASE Rearm(w)
  <2>1. wkey[w] \in Socks
    BY <1>1, <1>5 DEF Rearm, RecvPCs
  <2>2. /\ HeapTypeOK' /\ irp' \in [Irps -> Operation \cup {Idle}] /\ IrpKeys'
        /\ reused' \subseteq Cells
    BY <1>5, <2>1, PostNewRecvType DEF Rearm
  <2>3. PortTypeOK' /\ PacketKeys'
    BY <1>5, <2>2 DEF Rearm, netVars, PortTypeOK, PacketKeys
  <2>4. ServerTypeOK' /\ WorkerKeys'
    BY <1>5, <2>2 DEF Rearm, ServerTypeOK, WorkerKeys, Goto, PCs, RecvPCs
  <2> QED BY <2>2, <2>3, <2>4
<1> QED BY <1>2, <1>3, <1>4, <1>5 DEF Receiving

LEMMA StutterType == ASSUME TypeInv, UNCHANGED vars PROVE TypeInv'
BY DEF TypeInv, TypeOK, HeapTypeOK, PortTypeOK, ServerTypeOK, IrpKeys, PacketKeys,
       WorkerKeys, Busy, vars, serverVars, histVars, heapVars, portVars, netVars,
       workVars

-----------------------------------------------------------------------------
LEMMA InitType == Init => TypeInv
<1> SUFFICES ASSUME Init PROVE TypeInv
  OBVIOUS
<1> USE DEF Init
<1>1. HeapTypeOK
  BY DEF HeapInit, HeapTypeOK, OpTypes
<1>2. PortTypeOK
  BY PortAssumption DEF PortInit, PortTypeOK, SockState
<1>3. ServerTypeOK
  <2>1. wcell \in [Workers -> Cells]
    BY HeapAssumption DEF ServerInit
  <2>2. wpc \in [Workers -> PCs] /\ wkey \in [Workers -> Keys]
    BY DEF ServerInit, PCs, Keys
  <2>3. toPost \in 0..MaxPostAccept
    BY ServerAssumption DEF ServerInit
  <2>4. crashed \in BOOLEAN /\ reused \subseteq Cells /\ misread \in BOOLEAN
    BY DEF ServerInit
  <2> QED BY <2>1, <2>2, <2>3, <2>4 DEF ServerTypeOK
<1>4. IrpKeys /\ PacketKeys
  BY DEF PortInit, IrpKeys, PacketKeys, Busy
<1>5. WorkerKeys
  BY DEF ServerInit, WorkerKeys, RecvPCs
<1> QED BY <1>1, <1>2, <1>3, <1>4, <1>5 DEF TypeInv, TypeOK

LEMMA NextType == TypeInv /\ [Next]_vars => TypeInv'
<1> SUFFICES ASSUME TypeInv, [Next]_vars PROVE TypeInv'
  OBVIOUS
<1>1. ASSUME NEW w \in Workers, Worker(w) PROVE TypeInv'
  BY <1>1, WorkerThreadType, AcceptingType, ReceivingType DEF Worker
<1>2. CASE StartPost
  BY <1>2, StartPostType
<1>3. ASSUME NEW i \in Irps, Kernel(i), UNCHANGED serverVars
      PROVE  TypeInv'
  BY <1>3, KernelType
<1>4. CASE Client /\ UNCHANGED serverVars
  BY <1>4, ClientType
<1>5. CASE UNCHANGED vars
  BY <1>5, StutterType
<1> QED BY <1>1, <1>2, <1>3, <1>4, <1>5 DEF Next, Quiet

(* Every reachable state is well-typed, also after a misread packet:       *)
(* in particular DoRecv and PostSend get the key of a connection and never *)
(* the listen handle, whatever order the packets come in.                  *)
THEOREM TypeCorrect == Spec => []TypeOK
<1>1. Init => TypeInv
  BY InitType
<1>2. TypeInv /\ [Next]_vars => TypeInv'
  BY NextType
<1>3. TypeInv => TypeOK
  BY DEF TypeInv
<1> QED BY <1>1, <1>2, <1>3, PTL DEF Spec
=============================================================================
