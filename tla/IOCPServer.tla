------------------------------ MODULE IOCPServer ------------------------------
(***************************************************************************)
(* The base class: worker threads that take packets off the completion     *)
(* port, the accept path, and PostRecv.  HttpServer extends this module    *)
(* with the receive path it overrides.  Start's loop that posts the first  *)
(* accepts runs on the GUI thread while the workers already run.           *)
(*                                                                         *)
(* A handler is cut into steps where another thread or the kernel can see  *)
(* its effects: posting an operation, freeing an object, posting again.    *)
(***************************************************************************)
EXTENDS CompletionPort

CONSTANTS Workers,         \* worker threads
          MaxPostAccept    \* MAX_POST_ACCEPT

ASSUME ServerAssumption == MaxPostAccept \in Nat

VARIABLES wpc,      \* where each worker is
          wcell,    \* periodata of the packet it handles
          wkey,     \* sockethandle of the packet it handles
          toPost,   \* accepts Start has still to post
          crashed,  \* the process died of an access violation
          reused,   \* history: objects in a block that was still named
          misread   \* history: a packet was taken for one of another object

workVars == <<wpc, wcell, wkey>>
histVars == <<reused, misread>>
serverVars == <<workVars, toPost, crashed, histVars>>
vars == <<heapVars, portVars, netVars, serverVars>>

(* wait: in GetQueuedCompletionStatus; accept, unlisten, repost: inside    *)
(* DoAcceptEx; recv, send, remove, rearm: inside DoRecv.                   *)
AcceptPCs == {"accept", "unlisten", "repost"}
RecvPCs   == {"recv", "send", "remove", "rearm"}
PCs       == {"wait"} \cup AcceptPCs \cup RecvPCs

ServerInit ==
    /\ wpc = [w \in Workers |-> "wait"]
    /\ wcell = [w \in Workers |-> CHOOSE c \in Cells : TRUE]
    /\ wkey = [w \in Workers |-> Listen]
    /\ toPost = MaxPostAccept
    /\ crashed = FALSE
    /\ reused = {} /\ misread = FALSE

ServerTypeOK ==
    /\ wpc \in [Workers -> PCs]
    /\ wcell \in [Workers -> Cells]
    /\ wkey \in [Workers -> Keys]
    /\ toPost \in 0..MaxPostAccept
    /\ crashed \in BOOLEAN
    /\ reused \subseteq Cells /\ misread \in BOOLEAN

Goto(w, l) == wpc' = [wpc EXCEPT ![w] = l]

Crash ==
    /\ crashed' = TRUE
    /\ UNCHANGED <<heapVars, portVars, netVars, workVars, toPost, histVars>>

-----------------------------------------------------------------------------
(* The packet is handed to DoAcceptEx or DoRecv; every other outcome (an   *)
(* error, a closed connection, a finished send, no known type) is logged.  *)
Dispatched(p, t) ==
    /\ p.ok
    /\ t = ACCEPT_POSTED \/ (t = RECV_POSTED /\ p.n > 0)

(* The type t is not that of the operation that p completes, and could be  *)
(* read because the object of that operation has been deleted: there is    *)
(* none at its address or another one.                                     *)
Misreads(p, t) == t # p.kind /\ (p.cell \notin live \/ p.cell \in reused)

(* Mutant: a finished send posts a receive of its own.                     *)
WorkerThreadRearms(w) ==
    /\ wpc[w] = "wait"
    /\ port # <<>>
    /\ port' = Tail(port)
    /\ \E t \in TypeRead(Head(port).cell) :
          IF Dispatched(Head(port), t) \/ t = SEND_POSTED
          THEN /\ Goto(w, CASE t = ACCEPT_POSTED -> "accept"
                           [] t = RECV_POSTED   -> "recv"
                           [] t = SEND_POSTED   -> "rearm")
               /\ wcell' = [wcell EXCEPT ![w] = Head(port).cell]
               /\ wkey' = [wkey EXCEPT ![w] = Head(port).key]
               /\ misread' = (misread \/ Misreads(Head(port), t))
          ELSE UNCHANGED <<workVars, misread>>
    /\ UNCHANGED <<heapVars, irp, netVars, toPost, crashed, reused>>

(* One pass of the loop up to the switch.                                  *)
WorkerThread(w) ==
    /\ wpc[w] = "wait"
    /\ port # <<>>
    /\ port' = Tail(port)
    /\ \E t \in TypeRead(Head(port).cell) :
          IF Dispatched(Head(port), t)
          THEN /\ Goto(w, IF t = ACCEPT_POSTED THEN "accept" ELSE "recv")
               /\ wcell' = [wcell EXCEPT ![w] = Head(port).cell]
               /\ wkey' = [wkey EXCEPT ![w] = Head(port).key]
               /\ misread' = (misread \/ Misreads(Head(port), t))
          ELSE UNCHANGED <<workVars, misread>>
    /\ UNCHANGED <<heapVars, irp, netVars, toPost, crashed, reused>>

-----------------------------------------------------------------------------
(* WSARecv on the object's own buffer ("own"), or through a WSABUF read    *)
(* past the end of the object, which the call rejects ("fault") or takes   *)
(* for a buffer somewhere else ("wild").                                   *)
PostRecv(s, c, d) ==
    /\ op' = [op EXCEPT ![c] = RECV_POSTED]
    /\ \/ /\ d # "fault" /\ sock[s] \in {"up", "fin"}
          /\ Overlapped(c, s, RECV_POSTED, s, d = "wild")
       \/ /\ d = "fault" \/ sock[s] \notin {"up", "fin"} \/ "recv" \in Faults
          /\ UNCHANGED irp

(* A socket for the next client, then AcceptEx.  Either call may fail, and *)
(* then nothing posts this accept again.                                   *)
PostAcceptEx(c) ==
    \/ /\ "socket" \in Faults
       /\ op' = [op EXCEPT ![c] = NULL_POSTED]
       /\ acceptsocket' = [acceptsocket EXCEPT ![c] = NoSock]
       /\ UNCHANGED <<irp, sock>>
    \/ /\ op' = [op EXCEPT ![c] = ACCEPT_POSTED]
       /\ \/ /\ "acceptex" \in Faults
             /\ acceptsocket' = [acceptsocket EXCEPT ![c] = NoSock]
             /\ UNCHANGED <<irp, sock>>
          \/ \E s \in Socks :
                /\ sock[s] = "none"
                /\ s = CHOOSE r \in Socks : sock[r] = "none"
                /\ sock' = [sock EXCEPT ![s] = "fresh"]
                /\ acceptsocket' = [acceptsocket EXCEPT ![c] = s]
                /\ Overlapped(c, Listen, ACCEPT_POSTED, s, FALSE)

(* A new object; does something still name its block?                      *)
New(c) ==
    /\ GetNewIOData(c)
    /\ reused' = IF Referenced(c) THEN reused \cup {c} ELSE reused \ {c}

(* A receive on a new object.                                              *)
PostNewRecv(s) ==
    \E c \in Fresh :
        /\ New(c)
        /\ acceptsocket' = [acceptsocket EXCEPT ![c] = NoSock]
        /\ PostRecv(s, c, "own")

(* An accept on a new object.                                              *)
PostNewAccept == \E c \in Fresh : New(c) /\ PostAcceptEx(c)

(* Mutant: one turn too many, i <= MAX_POST_ACCEPT.                        *)
StartPostOneMore ==
    /\ toPost >= 0
    /\ toPost' = toPost - 1
    /\ PostNewAccept
    /\ UNCHANGED <<port, assoc, connects, backlog, wire, sent, replies,
                   workVars, crashed, misread>>

(* Mutant: takes WSA_IO_PENDING for a failure and turns once more.         *)
StartPostRetries ==
    /\ toPost > 0
    /\ PostNewAccept
    /\ UNCHANGED <<port, assoc, connects, backlog, wire, sent, replies,
                   workVars, toPost, crashed, misread>>

(* The loop of Start.                                                      *)
StartPost ==
    /\ toPost > 0
    /\ toPost' = toPost - 1
    /\ PostNewAccept
    /\ UNCHANGED <<port, assoc, connects, backlog, wire, sent, replies,
                   workVars, crashed, misread>>

-----------------------------------------------------------------------------
(* DoAcceptEx up to its PostRecv: a SocketHandle for the accepted socket,  *)
(* associated with the port, and a first receive on a new object.  When    *)
(* the association fails (a socket has one association at most) the        *)
(* handler gives up.  In a freed object databuf.buf is NULL or garbage,    *)
(* and reading the addresses through it ends the process.                  *)
DoAcceptEx(w) ==
    /\ wpc[w] = "accept"
    /\ IF wcell[w] \notin live THEN Crash
       ELSE LET s == acceptsocket[wcell[w]]
            IN /\ \/ /\ "assoc" \in Faults \/ s \in assoc \cup {NoSock}
                     /\ Goto(w, "wait")
                     /\ UNCHANGED <<heapVars, irp, assoc, reused>>
                  \/ /\ s \notin assoc \cup {NoSock}
                     /\ assoc' = assoc \cup {s}
                     /\ PostNewRecv(s)
                     /\ Goto(w, "unlisten")
               /\ UNCHANGED <<port, sock, connects, backlog, wire, sent, replies,
                              wcell, wkey, toPost, crashed, misread>>

(* delete of an object another thread has already deleted.                 *)
Delete(w, next) ==
    IF wcell[w] \notin live THEN Crash
    ELSE /\ RemoveIOData(wcell[w])
         /\ Goto(w, next)
         /\ UNCHANGED <<portVars, netVars, wcell, wkey, toPost, crashed, histVars>>

(* Mutant: returns without posting the next accept.                        *)
RemoveListenOnly(w) == wpc[w] = "unlisten" /\ Delete(w, "wait")

(* DoAcceptEx, delete old one.                                             *)
RemoveListen(w) == wpc[w] = "unlisten" /\ Delete(w, "repost")

(* DoAcceptEx, post new one.                                               *)
RepostAccept(w) ==
    /\ wpc[w] = "repost"
    /\ PostNewAccept
    /\ Goto(w, "wait")
    /\ UNCHANGED <<port, assoc, connects, backlog, wire, sent, replies,
                   wcell, wkey, toPost, crashed, misread>>

Accepting(w) == DoAcceptEx(w) \/ RemoveListen(w) \/ RepostAccept(w)
=============================================================================
