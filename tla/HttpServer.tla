------------------------------ MODULE HttpServer ------------------------------
(***************************************************************************)
(* The server the program runs: the receive path of HttpServer on top of   *)
(* the accept path of IOCPServer, and the whole next-state relation.       *)
(***************************************************************************)
EXTENDS IOCPServer

CONSTANT BadDescriptor   \* what WSARecv does with a WSABUF past the object

ASSUME DescriptorAssumption ==
    BadDescriptor \subseteq {"fault", "wild"} /\ BadDescriptor # {}

Init == HeapInit /\ PortInit /\ ServerInit

TypeOK == HeapTypeOK /\ PortTypeOK /\ ServerTypeOK

-----------------------------------------------------------------------------
(* Mutant: does not look at the last four characters.                      *)
CheckRecvBufEndShort(b) == Len(b) > 2 /\ b[Len(b)] = "END"

(* The text received so far ends in an empty line.                         *)
CheckRecvBufEnd(b) == b # <<>> /\ b[Len(b)] = "END"

HasGet(b) == \E i \in DOMAIN b : b[i] \in {"GET", "ACT"}

(* Can HandleHttpData build a payload?  It is given the text behind the    *)
(* first '?'.  It builds none for an activation query, but sscanf_s is     *)
(* called without the size of its buffer and may hand over an empty text,  *)
(* which is answered with an error.                                        *)
BuildSend(b) ==
    IF \E i \in DOMAIN b : b[i] = "GET" /\ \A j \in 1..(i - 1) : b[j] # "ACT"
    THEN {TRUE} ELSE BOOLEAN

(* An incomplete message posts its object again.  bytestransfer, the       *)
(* length received so far, is added to a pointer to databuf, so any length *)
(* but 0 makes WSARecv read its WSABUF past the object.                    *)
Incomplete(w) ==
    /\ \E d \in IF buf[wcell[w]] = <<>> THEN {"own"} ELSE BadDescriptor :
          PostRecv(wkey[w], wcell[w], d)
    /\ Goto(w, "rearm")
    /\ UNCHANGED buf

(* Mutant: forgets operationtype = SEND_POSTED.                            *)
PrepareSendUntyped(w) ==
    /\ buf' = [buf EXCEPT ![wcell[w]] = <<>>]
    /\ \E built \in BuildSend(buf[wcell[w]]) :
          Goto(w, IF built THEN "send" ELSE "rearm")
    /\ UNCHANGED <<op, irp>>

(* ResetIOBuf and the start of PostSend: the object becomes the response,  *)
(* or, when no payload is built, is left behind.                           *)
PrepareSend(w) ==
    /\ buf' = [buf EXCEPT ![wcell[w]] = <<>>]
    /\ op' = [op EXCEPT ![wcell[w]] = SEND_POSTED]
    /\ \E built \in BuildSend(buf[wcell[w]]) :
          Goto(w, IF built THEN "send" ELSE "rearm")
    /\ UNCHANGED irp

(* A complete message without GET ends the handler: no receive is posted.  *)
Refuse(w) == Goto(w, "wait") /\ UNCHANGED <<op, buf, irp>>

DoRecv(w) ==
    /\ wpc[w] = "recv"
    /\ IF wcell[w] \notin live THEN Crash
       ELSE /\ \/ ~CheckRecvBufEnd(buf[wcell[w]]) /\ Incomplete(w)
               \/ /\ CheckRecvBufEnd(buf[wcell[w]])
                  /\ IF HasGet(buf[wcell[w]]) THEN PrepareSend(w) ELSE Refuse(w)
            /\ UNCHANGED <<live, acceptsocket, port, netVars, wcell, wkey,
                           toPost, crashed, histVars>>

(* Mutant: WSA_IO_PENDING is taken for a failure and the call repeated.    *)
PostSendAgain(w) ==
    /\ wpc[w] = "send"
    /\ LET s == wkey[w]
       IN /\ sock[s] \in {"up", "fin"}
          /\ wcell[w] \in live
          /\ Overlapped(wcell[w], s, SEND_POSTED, s, FALSE)
          /\ replies' = [replies EXCEPT ![s] = @ + 1]
    /\ UNCHANGED <<heapVars, port, sock, assoc, connects, backlog, wire, sent,
                   workVars, toPost, crashed, histVars>>

(* WSASend.  A failed call leaves the object behind.                       *)
PostSend(w) ==
    /\ wpc[w] = "send"
    /\ LET s == wkey[w]
       IN \/ /\ sock[s] \in {"up", "fin"}
             /\ wcell[w] \in live
             /\ Overlapped(wcell[w], s, SEND_POSTED, s, FALSE)
             /\ replies' = [replies EXCEPT ![s] = @ + 1]
             /\ Goto(w, "remove")
          \/ /\ \/ sock[s] \notin {"up", "fin"}
                \/ wcell[w] \notin live
                \/ "send" \in Faults
             /\ Goto(w, "rearm")
             /\ UNCHANGED <<irp, replies>>
    /\ UNCHANGED <<heapVars, port, sock, assoc, connects, backlog, wire, sent,
                   wcell, wkey, toPost, crashed, histVars>>

(* Mutant: leaves the object of the response to somebody else.             *)
RemoveSentNever(w) ==
    /\ wpc[w] = "remove"
    /\ Goto(w, "rearm")
    /\ UNCHANGED <<heapVars, portVars, netVars, wcell, wkey, toPost, crashed,
                   histVars>>

(* The end of PostSend deletes the object, sent or not.                    *)
RemoveSent(w) == wpc[w] = "remove" /\ Delete(w, "rearm")

(* Mutant: posts the next receive on the object of the response.           *)
RearmSame(w) ==
    /\ wpc[w] = "rearm"
    /\ PostRecv(wkey[w], wcell[w], "own")
    /\ Goto(w, "wait")
    /\ UNCHANGED <<live, buf, acceptsocket, port, netVars, wcell, wkey, toPost,
                   crashed, histVars>>

(* The end of DoRecv posts a receive on a new object.                      *)
Rearm(w) ==
    /\ wpc[w] = "rearm"
    /\ PostNewRecv(wkey[w])
    /\ Goto(w, "wait")
    /\ UNCHANGED <<port, netVars, wcell, wkey, toPost, crashed, misread>>

Receiving(w) == DoRecv(w) \/ PostSend(w) \/ RemoveSent(w) \/ Rearm(w)

-----------------------------------------------------------------------------
Worker(w) == WorkerThread(w) \/ Accepting(w) \/ Receiving(w)

(* Nothing to do until a client acts; also the end of a crashed process.   *)
Quiet ==
    /\ crashed \/ (port = <<>> /\ toPost = 0 /\ \A w \in Workers : wpc[w] = "wait")
    /\ UNCHANGED vars

Next ==
    \/ /\ ~crashed
       /\ \/ \E w \in Workers : Worker(w)
          \/ StartPost
          \/ (\E i \in Irps : Kernel(i)) /\ UNCHANGED serverVars
          \/ Client /\ UNCHANGED serverVars
    \/ Quiet

Spec == Init /\ [][Next]_vars

(* Threads are scheduled and the kernel finishes what it can; clients owe  *)
(* nothing.                                                                *)
Fairness ==
    /\ \A w \in Workers : WF_vars(~crashed /\ Worker(w))
    /\ WF_vars(~crashed /\ StartPost)
    /\ \A i \in Irps :
          WF_vars(~crashed /\ Kernel(i) /\ UNCHANGED serverVars)

FairSpec == Spec /\ Fairness

-----------------------------------------------------------------------------
(* The worker holds the object of the packet it took.                      *)
Holding(w) == wpc[w] \in {"accept", "unlisten", "recv", "send", "remove"}

(* An accept or a receive that is under way, or its packet, names cell c.  *)
Awaited(c) ==
    \/ \E i \in Irps : Busy(i) /\ irp[i].cell = c /\ irp[i].kind # SEND_POSTED
    \/ \E n \in DOMAIN port : port[n].cell = c /\ port[n].kind # SEND_POSTED

(* The properties of the handlers say what holds until a packet is misread *)
(* for the first time: operator new may reuse each block that PostSend     *)
(* frees under a send, but the packet of that send has not been taken for  *)
(* one of the object that is in the block since.                           *)

(* While a handler works on a PerIOData object, the object is allocated,   *)
(* no other worker holds it, and no accept and no receive, under way or    *)
(* queued, names it: WorkerThread, DoAcceptEx, DoRecv and PostSend take no *)
(* lock.                                                                   *)
ExclusiveIO ==
    misread \/ \A w \in Workers : Holding(w) =>
        /\ wcell[w] \in live
        /\ \A x \in Workers \ {w} : Holding(x) => wcell[x] # wcell[w]
        /\ ~Awaited(wcell[w])

(* Only the object of a send is ever deleted or turned to another use      *)
(* before its packet is taken: the object of an accept or a receive is     *)
(* there, with its operationtype, and no second one names it.              *)
OnlySendsDangle ==
    misread \/
        /\ \A i \in Irps : Busy(i) /\ irp[i].kind # SEND_POSTED =>
               irp[i].cell \in live /\ op[irp[i].cell] = irp[i].kind
        /\ \A n \in DOMAIN port : port[n].kind # SEND_POSTED =>
               port[n].cell \in live /\ op[port[n].cell] = port[n].kind

(* No handler goes through a PerIOData object that RemoveIOData deleted,   *)
(* and none deletes it twice: "just do it in the end of one io here", says *)
(* PostSend of its delete.                                                 *)
NoCrash == ~crashed

(* Nothing but a misread packet makes a handler go through a deleted       *)
(* object or delete one twice, whatever fails and in whatever order the    *)
(* workers run.                                                            *)
CrashNeedsMisread == crashed => misread

(* The turns of the accept loop: each is an accept Start has to post, an   *)
(* AcceptEx under way, its packet, or a handler that will post it again.   *)
AcceptTurns ==
      toPost
    + Cardinality({i \in Irps : Busy(i) /\ irp[i].kind = ACCEPT_POSTED})
    + Cardinality({n \in DOMAIN port : port[n].kind = ACCEPT_POSTED})
    + Cardinality({w \in Workers : wpc[w] \in AcceptPCs})

(* The server keeps MAX_POST_ACCEPT accepts going: DoAcceptEx posts one    *)
(* accept for each one it takes, whatever the workers' order.              *)
AcceptPool == misread \/ AcceptTurns = MaxPostAccept

(* Calls that fail lose accepts, and no path posts one twice.              *)
AcceptPoolBound == misread \/ AcceptTurns <= MaxPostAccept

(* The turns of the receive loop of connection s.                          *)
RecvTurns(s) ==
      Cardinality({i \in Irps : Busy(i) /\ irp[i].kind = RECV_POSTED
                                       /\ irp[i].sock = s})
    + Cardinality({n \in DOMAIN port : port[n].kind = RECV_POSTED
                                       /\ port[n].key = s})
    + Cardinality({w \in Workers : wpc[w] \in RecvPCs /\ wkey[w] = s})

(* An open connection has exactly one receive going or in a handler: it    *)
(* never goes deaf, and DoRecv never runs for it in two workers at once.   *)
ReceivesOnce == misread \/ \A s \in assoc : sock[s] = "up" => RecvTurns(s) = 1

(* DoRecv answers on the connection that asked: an answer is sent only     *)
(* where a message came from, and once.                                    *)
AnswersWhoAsked == \A s \in Socks : replies[s] <= sent[s]

(* PostSend answers no message twice.                                      *)
AtMostOneReply == misread \/ AnswersWhoAsked

(* Every allocated PerIOData object is named by an accept or a receive or  *)
(* is in a handler: nothing else could ever delete it.                     *)
NoOrphanIO ==
    misread \/ \A c \in live :
        Awaited(c) \/ \E w \in Workers : Holding(w) /\ wcell[w] = c

(* Every request of a client that waits for its answer is answered.        *)
RequestAnswered ==
    \A s \in Socks : replies[s] < sent[s] ~> misread \/ replies[s] = sent[s]

(* Every connection that waits in the backlog is accepted.                 *)
ClientAccepted == backlog > 0 ~> misread \/ backlog = 0
=============================================================================
