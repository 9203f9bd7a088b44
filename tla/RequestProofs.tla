---------------------------- MODULE RequestProofs ----------------------------
(***************************************************************************)
(* What becomes of a request and of the object it was received in.  The    *)
(* server keeps no table of requests: that each is answered at most once,  *)
(* and that no object is lost, follows from who can name an object.        *)
(***************************************************************************)
EXTENDS LoopProofs

(* Where a receive will put its bytes: at the start of an empty buffer, or *)
(* (through a WSABUF past the object) anywhere but there, the text in the  *)
(* buffer then staying the incomplete one it was.                          *)
RecvBuffers ==
    \A i \in Irps : Busy(i) /\ irp[i].kind = RECV_POSTED =>
        /\ irp[i].key = irp[i].sock
        /\ IF irp[i].wild THEN ~CheckRecvBufEnd(buf[irp[i].cell])
           ELSE buf[irp[i].cell] = <<>>

(* A worker at l is in a handler for object c and connection s.            *)
AtWork(l, c, s) == \E w \in Workers : wpc[w] = l /\ wcell[w] = c /\ wkey[w] = s

(* A receive of connection s into object c is finished.                    *)
Received(c, s) ==
    \E n \in 1..Len(port) : /\ port[n].cell = c /\ port[n].key = s
                            /\ port[n].kind = RECV_POSTED

(* The objects that hold a message of connection s still to be answered.   *)
Ready(s) ==
    {c \in Cells : \/ /\ CheckRecvBufEnd(buf[c])
                      /\ Received(c, s) \/ AtWork("recv", c, s)
                   \/ AtWork("send", c, s)}

(* The messages that end in q.                                             *)
Ends(q) == Cardinality(Marked(q, {"END"}))

(* A message sent is on the wire, in an object, answered or lost: these    *)
(* three never count it twice.                                             *)
Answers ==
    \A s \in Socks : /\ IsFiniteSet(Ready(s))
                     /\ replies[s] + Ends(wire[s]) + Cardinality(Ready(s)) <= sent[s]

ReplyInv == RecvBuffers /\ Answers
-----------------------------------------------------------------------------
LEMMA AnswerNumbers ==
    ASSUME TypeInv, NEW s \in Socks
    PROVE  Ends(wire[s]) \in Nat /\ replies[s] \in Nat /\ sent[s] \in Nat
<1>1. wire[s] \in Seq(Tokens)
  BY DEF TypeInv, TypeOK, PortTypeOK
<1>2. replies[s] \in Nat /\ sent[s] \in Nat
  BY PortAssumption DEF TypeInv, TypeOK, PortTypeOK
<1> QED BY <1>1, <1>2, MarkedFinite DEF Ends

(* Bytes that leave the wire take the ends among them along.               *)
LEMMA DropEnds ==
    ASSUME NEW T, NEW q \in Seq(T), NEW k \in 1..Len(q)
    PROVE  /\ Ends(SubSeq(q, k + 1, Len(q))) \in Nat /\ Ends(q) \in Nat
           /\ Ends(SubSeq(q, k + 1, Len(q))) + One(q[k] = "END") <= Ends(q)
<1> DEFINE n == Len(q)
           r == SubSeq(q, k + 1, n)
           Rest == Marked(q, {"END"}) \ {k}
           f == [m \in Marked(r, {"END"}) |-> m + k]
<1>1. /\ n \in Nat /\ k \in 1..n /\ DOMAIN q = 1..n
      /\ r \in Seq(T) /\ DOMAIN r = 1..(n - k)
      /\ \A m \in 1..(n - k) : r[m] = q[m + k]
  <2>1. n \in Nat /\ DOMAIN q = 1..n
    BY LenProperties
  <2>2. \A m \in (k + 1)..n : q[m] \in T
    BY <2>1, ElementOfSeq
  <2> HIDE DEF n
  <2>3. /\ r \in Seq(T) /\ Len(r) = IF k + 1 <= n THEN n - (k + 1) + 1 ELSE 0
        /\ \A m \in 1..(n - (k + 1) + 1) : r[m] = q[k + 1 + m - 1]
    BY <2>1, <2>2, SubSeqProperties DEF n
  <2>4. DOMAIN r = 1..(n - k)
    BY <2>1, <2>3, LenProperties DEF n
  <2> QED BY <2>1, <2>3, <2>4 DEF n
<1> HIDE DEF n, r
<1>2. IsFiniteSet(Marked(q, {"END"})) /\ IsFiniteSet(Marked(r, {"END"}))
  BY <1>1, MarkedFinite
<1>3. f \in Injection(Marked(r, {"END"}), Rest)
  <2>1. \A m \in Marked(r, {"END"}) : m \in 1..(n - k) /\ m + k \in Rest
    BY <1>1 DEF Marked
  <2>2. \A a, b \in Marked(r, {"END"}) : f[a] = f[b] => a = b
    BY <2>1
  <2> QED BY <2>1, <2>2, Fun_IsInj
<1> HIDE DEF f
<1>4. IsFiniteSet(Rest)
  BY <1>2, FS_RemoveElement
<1>5. Cardinality(Marked(r, {"END"})) <= Cardinality(Rest)
  BY <1>2, <1>3, <1>4, FS_Injection DEF ExistsInjection
<1>6. Cardinality(Rest) + One(q[k] = "END") = Cardinality(Marked(q, {"END"}))
  <2>1. k \in Marked(q, {"END"}) <=> q[k] = "END"
    BY <1>1 DEF Marked
  <2>2. Cardinality(Rest) = IF k \in Marked(q, {"END"})
                            THEN Cardinality(Marked(q, {"END"})) - 1
                            ELSE Cardinality(Marked(q, {"END"}))
    BY <1>2, FS_RemoveElement
  <2>3. Cardinality(Marked(q, {"END"})) \in Nat
    BY <1>2, FS_CardinalityType
  <2> QED BY <2>1, <2>2, <2>3 DEF One
<1>7. /\ Cardinality(Rest) \in Nat /\ Cardinality(Marked(r, {"END"})) \in Nat
      /\ Cardinality(Marked(q, {"END"})) \in Nat
  BY <1>2, <1>4, FS_CardinalityType
<1>8. One(q[k] = "END") \in Nat
  BY DEF One
<1> QED BY <1>5, <1>6, <1>7, <1>8 DEF Ends, r, n

(* A client that asks adds one message.                                    *)
LEMMA AddEnds ==
    ASSUME NEW q \in Seq(Tokens), NEW h \in Heads
    PROVE  Ends(q \o <<h, "END">>) = Ends(q) + 1
<1> DEFINE q1 == Append(q, h)
           q2 == Append(q1, "END")
<1>1. h \in Tokens /\ "END" \in Tokens /\ h # "END"
  BY DEF Tokens, Heads
<1>2. q \o <<h, "END">> = q2 /\ q1 \in Seq(Tokens)
  BY <1>1
<1>3. Ends(q1) = Ends(q) + One(h \in {"END"}) /\ Ends(q) \in Nat
  BY <1>1, CountAppend, MarkedFinite DEF Ends
<1> HIDE DEF q1
<1>4. Ends(q2) = Ends(q1) + One("END" \in {"END"})
  BY <1>1, <1>2, CountAppend DEF Ends
<1>5. One("END" \in {"END"}) = 1 /\ One(h \in {"END"}) = 0
  BY <1>1 DEF One
<1> HIDE DEF q2
<1>6. Ends(q2) = Ends(q) + 1
  BY <1>3, <1>4, <1>5
<1> QED BY <1>2, <1>6
-----------------------------------------------------------------------------
(* Most steps add no unanswered message.                                   *)
LEMMA ReadyShrinks ==
    ASSUME TypeInv, Answers, UNCHANGED <<wire, sent, replies>>,
           \A s \in Socks : Ready(s)' \subseteq Ready(s)
    PROVE  Answers'
<1>1. ASSUME NEW s \in Socks
      PROVE  /\ IsFiniteSet(Ready(s)')
             /\ replies[s] + Ends(wire[s]) + Cardinality(Ready(s)') <= sent[s]
  <2>1. IsFiniteSet(Ready(s)') /\ Cardinality(Ready(s)') <= Cardinality(Ready(s))
    BY FS_Subset DEF Answers
  <2>2. Cardinality(Ready(s)') \in Nat /\ Cardinality(Ready(s)) \in Nat
    BY <2>1, FS_CardinalityType DEF Answers
  <2> QED BY <2>1, <2>2, AnswerNumbers DEF Answers
<1>2. \A s \in Socks : Ends(wire[s])' = Ends(wire[s])
  OBVIOUS
<1> QED BY <1>1, <1>2 DEF Answers

(* A step that leaves the buffers as they are, or empties some, queues no  *)
(* packet and moves no worker to "recv" or "send".                         *)
LEMMA ReadyStays ==
    ASSUME TypeInv, TypeInv', ReplyInv, UNCHANGED <<port, wire, sent, replies>>,
           \A c \in Cells : buf'[c] \in {buf[c], <<>>},
           \A w \in Workers : wpc'[w] \in {"recv", "send"} =>
               wpc'[w] = wpc[w] /\ wcell'[w] = wcell[w] /\ wkey'[w] = wkey[w]
    PROVE  Answers'
<1>1. \A c \in Cells : CheckRecvBufEnd(buf'[c]) => CheckRecvBufEnd(buf[c])
  BY DEF CheckRecvBufEnd
<1>2. ASSUME NEW c, NEW s, NEW l \in {"recv", "send"}, AtWork(l, c, s)'
      PROVE  AtWork(l, c, s)
  BY <1>2 DEF AtWork
<1>3. ASSUME NEW s \in Socks, NEW c \in Ready(s)' PROVE c \in Ready(s)
  <2>1. Received(c, s)' <=> Received(c, s)
    BY DEF Received
  <2>2. c \in Cells
    BY DEF Ready
  <2>3. CASE AtWork("send", c, s)'
    BY <1>2, <2>2, <2>3 DEF Ready
  <2>4. CASE CheckRecvBufEnd(buf[c])' /\ (Received(c, s)' \/ AtWork("recv", c, s)')
    BY <1>1, <1>2, <2>1, <2>2, <2>4 DEF Ready
  <2> QED BY <2>3, <2>4 DEF Ready
<1> QED BY <1>3, ReadyShrinks DEF ReplyInv

(* The receive buffers after a step that posts no operation, ...           *)
LEMMA BuffersStay ==
    ASSUME TypeInv, RecvBuffers, irp' = irp,
           \A c \in Cells : buf'[c] \in {buf[c], <<>>}
    PROVE  RecvBuffers'
<1>1. ASSUME NEW i \in Irps, Busy(i) PROVE irp[i].cell \in Cells
  BY <1>1, CellsNamed DEF TypeInv, TypeOK
<1> QED BY <1>1 DEF RecvBuffers, CheckRecvBufEnd, Busy

(* ... and after one that posts an operation.                              *)
LEMMA BuffersPost ==
    ASSUME TypeInv, RecvBuffers,
           \A e \in Cells : buf'[e] \in {buf[e], <<>>},
           NEW c \in Cells, NEW k, NEW t, NEW s, NEW d, Overlapped(c, k, t, s, d),
           t = RECV_POSTED =>
              /\ k = s
              /\ IF d THEN ~CheckRecvBufEnd(buf'[c]) ELSE buf'[c] = <<>>
    PROVE  RecvBuffers'
<1> DEFINE o == [cell |-> c, key |-> k, kind |-> t, sock |-> s, wild |-> d]
<1>1. PICK i \in Irps : irp' = [irp EXCEPT ![i] = o]
  BY DEF Overlapped
<1>2. irp'[i] = o /\ \A j \in Irps \ {i} : irp'[j] = irp[j]
  BY <1>1 DEF TypeInv, TypeOK, PortTypeOK
<1>3. ASSUME NEW j \in Irps, Busy(j) PROVE irp[j].cell \in Cells
  BY <1>3, CellsNamed DEF TypeInv, TypeOK
<1> QED BY <1>2, <1>3 DEF RecvBuffers, CheckRecvBufEnd, Busy
-----------------------------------------------------------------------------
LEMMA NewRecvReplies ==
    ASSUME TypeInv, TypeInv', Own, ReplyInv,
           UNCHANGED <<port, wire, sent, replies, wcell, wkey>>,
           \A w \in Workers : wpc'[w] \in {"recv", "send"} => wpc'[w] = wpc[w],
           (\E s \in Socks : PostNewRecv(s)) \/ PostNewAccept
    PROVE  ReplyInv'
<1>1. PICK c \in Cells :
        /\ buf' = [buf EXCEPT ![c] = <<>>]
        /\ (\E s \in Socks : PostRecv(s, c, "own")) \/ PostAcceptEx(c)
  BY DEF PostNewRecv, PostNewAccept, New, GetNewIOData, Fresh
<1>2. buf'[c] = <<>> /\ \A e \in Cells : buf'[e] \in {buf[e], <<>>}
  BY <1>1 DEF TypeInv, TypeOK, HeapTypeOK
<1>3. Answers'
  BY <1>2, ReadyStays
<1>4. \/ irp' = irp
      \/ \E s : Overlapped(c, s, RECV_POSTED, s, FALSE)
      \/ \E s : Overlapped(c, Listen, ACCEPT_POSTED, s, FALSE)
  <2>1. ASSUME NEW s \in Socks, PostRecv(s, c, "own")
        PROVE  irp' = irp \/ Overlapped(c, s, RECV_POSTED, s, FALSE)
    <3>1. irp' = irp \/ Overlapped(c, s, RECV_POSTED, s, "own" = "wild")
      BY <2>1 DEF PostRecv
    <3>2. ("own" = "wild") = FALSE
      OBVIOUS
    <3> QED BY <3>1, <3>2
  <2>2. ASSUME PostAcceptEx(c)
        PROVE  irp' = irp \/ \E s : Overlapped(c, Listen, ACCEPT_POSTED, s, FALSE)
    BY <2>2, Zenon DEF PostAcceptEx
  <2> QED BY <1>1, <2>1, <2>2
<1>5. RecvBuffers'
  <2>1. CASE irp' = irp
    BY <1>2, <2>1, BuffersStay DEF ReplyInv
  <2>2. ASSUME NEW s, Overlapped(c, s, RECV_POSTED, s, FALSE) PROVE RecvBuffers'
    BY <1>2, <2>2, BuffersPost DEF ReplyInv
  <2>3. ASSUME NEW s, Overlapped(c, Listen, ACCEPT_POSTED, s, FALSE) PROVE RecvBuffers'
    <3>1. ACCEPT_POSTED # RECV_POSTED
      BY DEF ACCEPT_POSTED, RECV_POSTED
    <3> QED BY <1>2, <2>3, <3>1, BuffersPost DEF ReplyInv
  <2> QED BY <1>4, <2>1, <2>2, <2>3
<1> QED BY <1>3, <1>5 DEF ReplyInv

(* A worker that moves on inside a handler, its buffer as it was.          *)
LEMMA HandlerReplies ==
    ASSUME TypeInv, TypeInv', ReplyInv, NEW w \in Workers, NEW l, Goto(w, l),
           l \notin {"recv", "send"},
           UNCHANGED <<buf, irp, port, wire, sent, replies, wcell, wkey>>
    PROVE  ReplyInv'
<1>1. \A x \in Workers : wpc'[x] \in {"recv", "send"} => wpc'[x] = wpc[x]
  BY DEF Goto, TypeInv, TypeOK, ServerTypeOK
<1>2. \A c \in Cells : buf'[c] \in {buf[c], <<>>}
  OBVIOUS
<1>3. Answers'
  BY <1>1, <1>2, ReadyStays
<1>4. RecvBuffers'
  BY <1>2, BuffersStay DEF ReplyInv
<1> QED BY <1>3, <1>4 DEF ReplyInv

LEMMA AcceptingReplies ==
    ASSUME TypeInv, TypeInv', Own, ReplyInv, NEW w \in Workers, Accepting(w)
    PROVE  ReplyInv'
<1>1. wpc \in [Workers -> PCs]
  BY DEF TypeInv, TypeOK, ServerTypeOK
<1>2. CASE DoAcceptEx(w)
  <2>1. wcell[w] \in live
    BY <1>2, HeldLive DEF DoAcceptEx, Holding
  <2> DEFINE s == acceptsocket[wcell[w]]
  <2>2. /\ \/ Goto(w, "wait") /\ UNCHANGED <<heapVars, irp>>
           \/ s # NoSock /\ PostNewRecv(s) /\ Goto(w, "unlisten")
        /\ UNCHANGED <<port, wire, sent, replies, wcell, wkey>>
    BY <1>2, <2>1 DEF DoAcceptEx
  <2>3. CASE Goto(w, "wait") /\ UNCHANGED <<heapVars, irp>>
    BY <2>2, <2>3, HandlerReplies DEF heapVars
  <2>4. CASE s # NoSock /\ PostNewRecv(s) /\ Goto(w, "unlisten")
    <3>1. s \in Socks
      BY <2>1, <2>4 DEF TypeInv, TypeOK, HeapTypeOK
    <3>2. \A x \in Workers : wpc'[x] \in {"recv", "send"} => wpc'[x] = wpc[x]
      BY <1>1, <2>4 DEF Goto
    <3>3. \E r \in Socks : PostNewRecv(r)
      BY <2>4, <3>1
    <3> QED BY <2>2, <3>2, <3>3, NewRecvReplies
  <2> QED BY <2>2, <2>3, <2>4
<1>3. CASE RemoveListen(w)
  <2>1. wcell[w] \in live
    BY <1>3, HeldLive DEF RemoveListen, Holding
  <2> QED BY <1>3, <2>1, HandlerReplies
          DEF RemoveListen, Delete, RemoveIOData, portVars, netVars
<1>4. CASE RepostAccept(w)
  <2>1. \A x \in Workers : wpc'[x] \in {"recv", "send"} => wpc'[x] = wpc[x]
    BY <1>1, <1>4 DEF RepostAccept, Goto
  <2> QED BY <1>4, <2>1, NewRecvReplies DEF RepostAccept
<1> QED BY <1>2, <1>3, <1>4 DEF Accepting

LEMMA StartPostReplies ==
    ASSUME TypeInv, TypeInv', Own, ReplyInv, StartPost
    PROVE  ReplyInv'
BY NewRecvReplies DEF StartPost, workVars

(* DoRecv either leaves the message in its object for PostSend or drops it.*)
LEMMA DoRecvReplies ==
    ASSUME TypeInv, TypeInv', Own, ReplyInv, NEW w \in Workers, DoRecv(w)
    PROVE  ReplyInv'
<1>1. PICK c \in Cells : c = wcell[w]
  BY DEF TypeInv, TypeOK, ServerTypeOK
<1>2. /\ wpc[w] = "recv" /\ c \in live
      /\ UNCHANGED <<port, wire, sent, replies, wcell, wkey>>
  BY <1>1, HeldLive DEF DoRecv, Holding, netVars
<1>3. wpc \in [Workers -> PCs] /\ buf \in [Cells -> Seq(Tokens)]
  BY DEF TypeInv, TypeOK, HeapTypeOK, ServerTypeOK
<1>4. \/ ~CheckRecvBufEnd(buf[c]) /\ Incomplete(w)
      \/ CheckRecvBufEnd(buf[c]) /\ PrepareSend(w)
      \/ Refuse(w)
  BY <1>1, <1>2 DEF DoRecv
<1>5. CASE ~CheckRecvBufEnd(buf[c]) /\ Incomplete(w)
  <2>1. Goto(w, "rearm") /\ buf' = buf
    BY <1>5 DEF Incomplete
  <2>2. \A x \in Workers : wpc'[x] \in {"recv", "send"} => wpc'[x] = wpc[x]
    BY <1>3, <2>1 DEF Goto
  <2>3. Answers'
    BY <1>2, <2>1, <2>2, ReadyStays
  <2>4. PICK d \in IF buf[c] = <<>> THEN {"own"} ELSE BadDescriptor :
            PostRecv(wkey[w], c, d)
    BY <1>1, <1>5 DEF Incomplete
  <2>5. irp' = irp \/ Overlapped(c, wkey[w], RECV_POSTED, wkey[w], d = "wild")
    BY <2>4 DEF PostRecv
  <2>6. CASE irp' = irp
    BY <2>1, <2>3, <2>6, BuffersStay DEF ReplyInv
  <2>7. CASE Overlapped(c, wkey[w], RECV_POSTED, wkey[w], d = "wild") /\ d # "fault"
    <3>1. IF d = "wild" THEN ~CheckRecvBufEnd(buf[c]) ELSE buf[c] = <<>>
      BY <1>5, <2>7, DescriptorAssumption
    <3>2. RecvBuffers'
      BY <2>1, <2>7, <3>1, BuffersPost DEF ReplyInv
    <3> QED BY <2>3, <3>2 DEF ReplyInv
  <2>8. d = "fault" => irp' = irp
    BY <2>4 DEF PostRecv
  <2> QED BY <2>5, <2>6, <2>7, <2>8
<1>6. CASE CheckRecvBufEnd(buf[c]) /\ PrepareSend(w)
  <2>1. /\ buf' = [buf EXCEPT ![c] = <<>>] /\ irp' = irp
        /\ \E l \in {"send", "rearm"} : Goto(w, l)
    BY <1>1, <1>6 DEF PrepareSend
  <2>2. \A e \in Cells : buf'[e] \in {buf[e], <<>>}
    BY <1>3, <2>1
  <2>3. RecvBuffers'
    BY <2>1, <2>2, BuffersStay DEF ReplyInv
  <2>4. ASSUME NEW s \in Socks, NEW e \in Ready(s)' PROVE e \in Ready(s)
    <3>1. CheckRecvBufEnd(buf'[e]) => CheckRecvBufEnd(buf[e])
      BY <2>2 DEF Ready, CheckRecvBufEnd
    <3>2. Received(e, s)' <=> Received(e, s)
      BY <1>2 DEF Received
    <3>3. AtWork("recv", e, s)' => AtWork("recv", e, s)
      BY <1>2, <1>3, <2>1 DEF AtWork, Goto
    <3>4. AtWork("send", e, s)' =>
             \/ AtWork("send", e, s)
             \/ e = c /\ AtWork("recv", c, s)
      BY <1>1, <1>2, <1>3, <2>1 DEF AtWork, Goto
    <3> QED BY <1>6, <3>1, <3>2, <3>3, <3>4 DEF Ready
  <2>5. Answers'
    BY <1>2, <2>4, ReadyShrinks DEF ReplyInv
  <2> QED BY <2>3, <2>5 DEF ReplyInv
<1>7. CASE Refuse(w)
  BY <1>2, <1>7, HandlerReplies DEF Refuse
<1> QED BY <1>4, <1>5, <1>6, <1>7

(* A message that is answered is no longer ready: nothing names the object *)
(* that PostSend holds, and no other worker holds it.                      *)
LEMMA PostSendReplies ==
    ASSUME TypeInv, TypeInv', Own, ReplyInv, NEW w \in Workers, PostSend(w)
    PROVE  ReplyInv'
<1>1. PICK c \in Cells : c = wcell[w]
  BY DEF TypeInv, TypeOK, ServerTypeOK
<1>2. PICK s \in Socks : s = wkey[w]
  BY DEF PostSend, TypeInv, WorkerKeys, RecvPCs
<1>3. /\ wpc[w] = "send" /\ wpc \in [Workers -> PCs]
      /\ UNCHANGED <<buf, port, wire, sent, wcell, wkey>>
  BY DEF PostSend, TypeInv, TypeOK, ServerTypeOK, heapVars
<1>4. \/ /\ Overlapped(c, s, SEND_POSTED, s, FALSE)
         /\ replies' = [replies EXCEPT ![s] = @ + 1]
         /\ Goto(w, "remove")
      \/ Goto(w, "rearm") /\ irp' = irp /\ replies' = replies
  BY <1>1, <1>2 DEF PostSend
<1>5. CASE Goto(w, "rearm") /\ irp' = irp /\ replies' = replies
  BY <1>3, <1>5, HandlerReplies
<1>6. CASE /\ Overlapped(c, s, SEND_POSTED, s, FALSE)
           /\ replies' = [replies EXCEPT ![s] = @ + 1]
           /\ Goto(w, "remove")
  <2>1. RecvBuffers'
    <3>1. SEND_POSTED # RECV_POSTED
      BY DEF SEND_POSTED, RECV_POSTED
    <3>2. \A e \in Cells : buf'[e] \in {buf[e], <<>>}
      BY <1>3
    <3> QED BY <1>6, <3>1, <3>2, BuffersPost DEF ReplyInv
  <2>2. c \in Ready(s)
    BY <1>1, <1>2, <1>3 DEF Ready, AtWork
  <2>3. \A x \in Workers : /\ x # w => wpc'[x] = wpc[x]
                           /\ wpc'[w] = "remove"
    BY <1>3, <1>6 DEF Goto
  <2>4. ASSUME NEW r \in Socks, NEW e \in Ready(r)' PROVE e \in Ready(r)
    <3>1. \A l \in {"recv", "send"} : AtWork(l, e, r)' => AtWork(l, e, r)
      BY <1>3, <2>3 DEF AtWork
    <3>2. Received(e, r)' <=> Received(e, r)
      BY <1>3 DEF Received
    <3> QED BY <1>3, <3>1, <3>2 DEF Ready
  <2>5. c \notin Ready(s)'
    <3>1. ~Awaited(c) /\ \A x \in Workers \ {w} : Holding(x) => wcell[x] # c
      BY <1>1, <1>3 DEF Own, Exclusive, Holding
    <3>2. ~Received(c, s)'
      BY <1>3, <3>1, AwaitedDef
      DEF Received, WaitsPacket, RECV_POSTED, SEND_POSTED, TypeInv, TypeOK
    <3>3. \A l \in {"recv", "send"} : ~AtWork(l, c, s)'
      BY <1>3, <2>3, <3>1 DEF AtWork, Holding
    <3> QED BY <3>2, <3>3 DEF Ready
  <2>6. ASSUME NEW r \in Socks
        PROVE  /\ IsFiniteSet(Ready(r)')
               /\ replies'[r] + Ends(wire[r]) + Cardinality(Ready(r)') <= sent[r]
    <3>1. IsFiniteSet(Ready(r))
          /\ replies[r] + Ends(wire[r]) + Cardinality(Ready(r)) <= sent[r]
      BY DEF ReplyInv, Answers
    <3>2. CASE r = s
      <4>1. Ready(s)' \subseteq Ready(s) \ {c}
        BY <2>4, <2>5
      <4>2. IsFiniteSet(Ready(s) \ {c})
            /\ Cardinality(Ready(s) \ {c}) = Cardinality(Ready(s)) - 1
        BY <2>2, <3>1, <3>2, FS_RemoveElement
      <4>3. IsFiniteSet(Ready(s)')
            /\ Cardinality(Ready(s)') <= Cardinality(Ready(s)) - 1
        BY <4>1, <4>2, FS_Subset
      <4>4. Cardinality(Ready(s)) \in Nat /\ Cardinality(Ready(s)') \in Nat
        BY <3>1, <3>2, <4>3, FS_CardinalityType
      <4>5. replies'[s] = replies[s] + 1
        BY <1>6 DEF TypeInv, TypeOK, PortTypeOK
      <4> QED BY <3>1, <3>2, <4>3, <4>4, <4>5, AnswerNumbers
    <3>3. CASE r # s
      <4>1. IsFiniteSet(Ready(r)') /\ Cardinality(Ready(r)') <= Cardinality(Ready(r))
        BY <2>4, <3>1, FS_Subset
      <4>2. Cardinality(Ready(r)) \in Nat /\ Cardinality(Ready(r)') \in Nat
        BY <3>1, <4>1, FS_CardinalityType
      <4>3. replies'[r] = replies[r]
        BY <1>6, <3>3 DEF TypeInv, TypeOK, PortTypeOK
      <4> QED BY <3>1, <4>1, <4>2, <4>3, AnswerNumbers
    <3> QED BY <3>2, <3>3
  <2>7. \A r \in Socks : Ends(wire[r])' = Ends(wire[r]) /\ sent'[r] = sent[r]
    BY <1>3
  <2>8. Answers'
    BY <2>6, <2>7 DEF Answers
  <2> QED BY <2>1, <2>8 DEF ReplyInv
<1> QED BY <1>4, <1>5, <1>6

LEMMA ReceivingReplies ==
    ASSUME TypeInv, TypeInv', Own, ReplyInv, NEW w \in Workers, Receiving(w)
    PROVE  ReplyInv'
<1>1. CASE RemoveSent(w)
  <2>1. wcell[w] \in live
    BY <1>1, HeldLive DEF RemoveSent, Holding
  <2> QED BY <1>1, <2>1, HandlerReplies
          DEF RemoveSent, Delete, RemoveIOData, portVars, netVars
<1>2. CASE Rearm(w)
  <2>1. wkey[w] \in Socks
    BY <1>2 DEF Rearm, TypeInv, WorkerKeys, RecvPCs
  <2>2. \A x \in Workers : wpc'[x] \in {"recv", "send"} => wpc'[x] = wpc[x]
    BY <1>2 DEF Rearm, Goto, TypeInv, TypeOK, ServerTypeOK
  <2> QED BY <1>2, <2>1, <2>2, NewRecvReplies DEF Rearm, netVars
<1> QED BY <1>1, <1>2, DoRecvReplies, PostSendReplies DEF Receiving

(* The worker that takes a message takes it off the port.                  *)
LEMMA WorkerThreadReplies ==
    ASSUME TypeInv, TypeInv', Own, ReplyInv, NEW w \in Workers, WorkerThread(w),
           ~misread'
    PROVE  ReplyInv'
<1> DEFINE p == Head(port)
           len == Len(port)
<1>1. /\ port # <<>> /\ port' = Tail(port)
      /\ UNCHANGED <<buf, irp, wire, sent, replies>>
  BY DEF WorkerThread, heapVars, netVars
<1>2. /\ len \in Nat \ {0} /\ p = port[1] /\ Len(port') = len - 1
      /\ \A m \in 1..(len - 1) : port'[m] = port[m + 1]
  BY <1>1, HeadTailProperties, LenProperties, EmptySeq DEF TypeInv, TypeOK, PortTypeOK
<1>3. /\ wpc[w] = "wait" /\ wpc'[w] \in {"wait", "accept", "recv"}
      /\ wpc'[w] = "recv" => /\ p.kind = RECV_POSTED
                             /\ wkey'[w] = p.key /\ wcell'[w] = p.cell
      /\ \A x \in Workers \ {w} : /\ wpc'[x] = wpc[x]
                                  /\ wkey'[x] = wkey[x] /\ wcell'[x] = wcell[x]
  BY Dispatch
<1> HIDE DEF p, len
<1>4. ASSUME NEW s \in Socks, NEW c \in Ready(s)' PROVE c \in Ready(s)
  <2>1. Received(c, s)' => Received(c, s)
    <3>1. ASSUME NEW m \in 1..(len - 1) PROVE m + 1 \in 1..len
      BY <1>2
    <3> QED BY <1>2, <3>1 DEF Received, len
  <2>2. AtWork("send", c, s)' => AtWork("send", c, s)
    BY <1>3 DEF AtWork
  <2>3. AtWork("recv", c, s)' => AtWork("recv", c, s) \/ Received(c, s)
    <3>1. 1 \in 1..len
      BY <1>2
    <3> QED BY <1>2, <1>3, <3>1 DEF AtWork, Received, len
  <2>4. c \in Cells /\ buf' = buf
    BY <1>1 DEF Ready
  <2> QED BY <2>1, <2>2, <2>3, <2>4 DEF Ready
<1>5. Answers'
  BY <1>1, <1>4, ReadyShrinks DEF ReplyInv
<1>6. RecvBuffers'
  BY <1>1, BuffersStay DEF ReplyInv
<1> QED BY <1>5, <1>6 DEF ReplyInv
-----------------------------------------------------------------------------
(* What a receive delivers into an empty buffer.                           *)
LEMMA Delivered ==
    ASSUME NEW T, NEW q \in Seq(T), NEW k \in 1..Len(q)
    PROVE  CheckRecvBufEnd(Overwrite(<<>>, SubSeq(q, 1, k))) <=> q[k] = "END"
<1> DEFINE d == SubSeq(q, 1, k)
<1>1. Len(q) \in Nat /\ k \in Nat \ {0} /\ \A m \in 1..k : q[m] \in T
  BY LenProperties, ElementOfSeq
<1>2. d \in Seq(T) /\ Len(d) = k /\ d[k] = q[k]
  BY <1>1, SubSeqProperties
<1> HIDE DEF d
<1>3. SubSeq(<<>>, Len(d) + 1, Len(<<>>)) = <<>>
  BY <1>1, <1>2, SubSeqEmpty
<1>4. Overwrite(<<>>, d) = d
  BY <1>2, <1>3, ConcatEmptySeq DEF Overwrite
<1>5. d # <<>>
  BY <1>1, <1>2
<1> QED BY <1>2, <1>4, <1>5 DEF CheckRecvBufEnd, d

(* The operation that ends is no longer one; the others are as they were,  *)
(* and so are their buffers, whatever lands in its own.                    *)
LEMMA BuffersLeft ==
    ASSUME TypeInv, Own, RecvBuffers, NEW i \in Irps, Busy(i),
           irp' = [irp EXCEPT ![i] = Idle],
           \A c \in Cells \ {irp[i].cell} : buf'[c] = buf[c],
           irp[i].kind = RECV_POSTED \/ buf' = buf
    PROVE  RecvBuffers'
<1>1. /\ irp'[i] = Idle
      /\ \A j \in Irps \ {i} : irp'[j] = irp[j]
  BY DEF TypeInv, TypeOK, PortTypeOK
<1>2. ASSUME NEW j \in Irps \ {i}, Busy(j), irp[j].kind = RECV_POSTED
      PROVE  buf'[irp[j].cell] = buf[irp[j].cell]
  BY <1>2, CellsNamed
  DEF Own, NamedOnce, OneIrp, WaitsIrp, RECV_POSTED, SEND_POSTED, TypeInv, TypeOK
<1> QED BY <1>1, <1>2 DEF RecvBuffers, Busy

(* A completion that brings no whole message.                              *)
LEMMA CompleteReplies ==
    ASSUME TypeInv, TypeInv', Own, ReplyInv, NEW i \in Irps, Busy(i),
           NEW ok, NEW n, Complete(i, ok, n), UNCHANGED workVars,
           \A s \in Socks : Ends(wire'[s]) <= Ends(wire[s]),
           UNCHANGED <<sent, replies>>,
           \A c \in Cells \ {irp[i].cell} : buf'[c] = buf[c],
           irp[i].kind = RECV_POSTED => ~CheckRecvBufEnd(buf'[irp[i].cell]),
           irp[i].kind # RECV_POSTED => buf' = buf
    PROVE  ReplyInv'
<1> DEFINE p == [cell |-> irp[i].cell, key |-> irp[i].key,
                 kind |-> irp[i].kind, ok |-> ok, n |-> n]
           len == Len(port)
<1>1. irp' = [irp EXCEPT ![i] = Idle] /\ port' = Append(port, p)
  BY DEF Complete
<1>2. /\ len \in Nat /\ Len(port') = len + 1 /\ port'[len + 1] = p
      /\ \A m \in 1..len : port'[m] = port[m]
  BY <1>1, LenProperties DEF TypeInv, TypeOK, PortTypeOK
<1> HIDE DEF len
<1>3. RecvBuffers'
  BY <1>1, BuffersLeft DEF ReplyInv
<1>4. ASSUME NEW s \in Socks, NEW c \in Ready(s)' PROVE c \in Ready(s)
  <2>1. AtWork("send", c, s)' => AtWork("send", c, s)
    BY DEF AtWork, workVars
  <2>2. AtWork("recv", c, s)' => AtWork("recv", c, s)
    BY DEF AtWork, workVars
  <2>3. Received(c, s)' => \/ Received(c, s)
                           \/ c = irp[i].cell /\ irp[i].kind = RECV_POSTED
    BY <1>2 DEF Received, len
  <2>4. c \in Cells
    BY DEF Ready
  <2>5. CheckRecvBufEnd(buf'[c]) => /\ CheckRecvBufEnd(buf[c])
                                    /\ ~(c = irp[i].cell /\ irp[i].kind = RECV_POSTED)
    BY <2>4
  <2> QED BY <2>1, <2>2, <2>3, <2>4, <2>5 DEF Ready
<1>5. ASSUME NEW s \in Socks
      PROVE  /\ IsFiniteSet(Ready(s)')
             /\ replies[s] + Ends(wire'[s]) + Cardinality(Ready(s)') <= sent[s]
  <2>1. IsFiniteSet(Ready(s)') /\ Cardinality(Ready(s)') <= Cardinality(Ready(s))
    BY <1>4, FS_Subset DEF ReplyInv, Answers
  <2>2. Cardinality(Ready(s)') \in Nat /\ Cardinality(Ready(s)) \in Nat
    BY <2>1, FS_CardinalityType DEF ReplyInv, Answers
  <2>3. Ends(wire'[s]) \in Nat
    <3>1. wire'[s] \in Seq(Tokens)
      BY DEF TypeInv, TypeOK, PortTypeOK
    <3> QED BY <3>1, MarkedFinite DEF Ends
  <2> QED BY <2>1, <2>2, <2>3, AnswerNumbers DEF ReplyInv, Answers
<1>6. Answers'
  BY <1>5 DEF Answers
<1> QED BY <1>3, <1>6 DEF ReplyInv

(* A receive that takes the end of a message off the wire: the message     *)
(* moves into the object of the receive.                                   *)
LEMMA MessageReplies ==
    ASSUME TypeInv, TypeInv', Own, ReplyInv, NEW i \in Irps, Busy(i),
           irp[i].kind = RECV_POSTED, NEW ok, NEW n, Complete(i, ok, n),
           UNCHANGED <<workVars, sent, replies>>,
           \A c \in Cells \ {irp[i].cell} : buf'[c] = buf[c],
           NEW r \in Socks, r = irp[i].key,
           \A s \in Socks \ {r} : wire'[s] = wire[s],
           Ends(wire'[r]) + 1 <= Ends(wire[r])
    PROVE  ReplyInv'
<1> DEFINE o == irp[i].cell
           p == [cell |-> o, key |-> irp[i].key,
                 kind |-> irp[i].kind, ok |-> ok, n |-> n]
           len == Len(port)
<1>1. irp' = [irp EXCEPT ![i] = Idle] /\ port' = Append(port, p)
  BY DEF Complete
<1>2. /\ len \in Nat /\ Len(port') = len + 1 /\ port'[len + 1] = p
      /\ \A m \in 1..len : port'[m] = port[m]
  BY <1>1, LenProperties DEF TypeInv, TypeOK, PortTypeOK
<1> HIDE DEF len, o
<1>3. RecvBuffers'
  BY <1>1, BuffersLeft DEF ReplyInv
<1>4. ASSUME NEW s \in Socks, NEW c \in Ready(s)'
      PROVE  c \in Ready(s) \/ (c = o /\ s = r)
  <2>1. AtWork("send", c, s)' => AtWork("send", c, s)
    BY DEF AtWork, workVars
  <2>2. AtWork("recv", c, s)' => AtWork("recv", c, s)
    BY DEF AtWork, workVars
  <2>3. Received(c, s)' => Received(c, s) \/ (c = o /\ s = r)
    BY <1>2 DEF Received, len
  <2>4. c \in Cells
    BY DEF Ready
  <2>5. CASE c # o
    <3>1. buf'[c] = buf[c]
      BY <2>4, <2>5 DEF o
    <3> QED BY <2>1, <2>2, <2>3, <2>4, <2>5, <3>1 DEF Ready
  <2>6. CASE c = o
    <3>1. Awaited(o)
      BY DEF Awaited, o, RECV_POSTED, SEND_POSTED
    <3>2. ~AtWork("recv", c, s) /\ ~AtWork("send", c, s)
      BY <2>6, <3>1 DEF Own, Exclusive, Holding, AtWork
    <3>3. ~Received(c, s)
      BY <2>6 DEF Own, NamedOnce, IrpOrPacket, Received, o, WaitsIrp, WaitsPacket,
                  RECV_POSTED, SEND_POSTED
    <3> QED BY <2>1, <2>2, <2>3, <2>6, <3>2, <3>3 DEF Ready
  <2> QED BY <2>5, <2>6
<1>5. ASSUME NEW s \in Socks
      PROVE  /\ IsFiniteSet(Ready(s)')
             /\ replies[s] + Ends(wire'[s]) + Cardinality(Ready(s)') <= sent[s]
  <2>1. /\ IsFiniteSet(Ready(s)) /\ Cardinality(Ready(s)) \in Nat
        /\ replies[s] + Ends(wire[s]) + Cardinality(Ready(s)) <= sent[s]
    BY FS_CardinalityType DEF ReplyInv, Answers
  <2>2. Ends(wire'[s]) \in Nat
    <3>1. wire'[s] \in Seq(Tokens)
      BY DEF TypeInv, TypeOK, PortTypeOK
    <3> QED BY <3>1, MarkedFinite DEF Ends
  <2>3. CASE s = r
    <3>1. Ready(s)' \subseteq Ready(s) \cup {o}
      BY <1>4
    <3>2. /\ IsFiniteSet(Ready(s) \cup {o})
          /\ Cardinality(Ready(s) \cup {o}) \in {Cardinality(Ready(s)), Cardinality(Ready(s)) + 1}
      BY <2>1, FS_AddElement
    <3>3. /\ IsFiniteSet(Ready(s)')
          /\ Cardinality(Ready(s)') <= Cardinality(Ready(s) \cup {o})
      BY <3>1, <3>2, FS_Subset
    <3>4. Cardinality(Ready(s)') \in Nat
      BY <3>3, FS_CardinalityType
    <3> QED BY <2>1, <2>2, <2>3, <3>2, <3>3, <3>4, AnswerNumbers
  <2>4. CASE s # r
    <3>1. Ready(s)' \subseteq Ready(s)
      BY <1>4, <2>4
    <3>2. IsFiniteSet(Ready(s)') /\ Cardinality(Ready(s)') <= Cardinality(Ready(s))
      BY <2>1, <3>1, FS_Subset
    <3>3. Cardinality(Ready(s)') \in Nat /\ Ends(wire'[s]) = Ends(wire[s])
      BY <2>4, <3>2, FS_CardinalityType
    <3> QED BY <2>1, <2>2, <3>2, <3>3, AnswerNumbers
  <2> QED BY <2>3, <2>4
<1>6. Answers'
  BY <1>5 DEF Answers
<1> QED BY <1>3, <1>6 DEF ReplyInv

LEMMA KernelRecvReplies ==
    ASSUME TypeInv, TypeInv', Own, ReplyInv, NEW i \in Irps, KernelRecv(i),
           UNCHANGED serverVars
    PROVE  ReplyInv'
<1> DEFINE s == irp[i].sock
           c == irp[i].cell
<1>1. /\ Busy(i) /\ irp[i].kind = RECV_POSTED
      /\ UNCHANGED <<workVars, sent, replies>>
  BY DEF KernelRecv, serverVars
<1>2. /\ irp[i].key = s /\ s \in Socks /\ c \in Cells
      /\ IF irp[i].wild THEN ~CheckRecvBufEnd(buf[c]) ELSE buf[c] = <<>>
  BY <1>1 DEF ReplyInv, RecvBuffers, Busy, Operation, TypeInv, TypeOK, PortTypeOK
<1>3. /\ wire \in [Socks -> Seq(Tokens)] /\ buf \in [Cells -> Seq(Tokens)]
  BY DEF TypeInv, TypeOK, PortTypeOK, HeapTypeOK
<1>4. ~CheckRecvBufEnd(buf[c])
  BY <1>2 DEF CheckRecvBufEnd
<1>5. ASSUME NEW ok, NEW n, Complete(i, ok, n), UNCHANGED <<wire, buf>>
      PROVE  ReplyInv'
  <2>1. \A r \in Socks : Ends(wire'[r]) <= Ends(wire[r])
    BY <1>5, AnswerNumbers
  <2> QED BY <1>1, <1>4, <1>5, <2>1, CompleteReplies
<1>6. ASSUME NEW k \in 1..Len(wire[s]), Complete(i, TRUE, 1),
             wire' = [wire EXCEPT ![s] = SubSeq(@, k + 1, Len(@))],
             buf' = IF irp[i].wild \/ c \notin live THEN buf
                    ELSE [buf EXCEPT ![c] = Overwrite(@, SubSeq(wire[s], 1, k))]
      PROVE  ReplyInv'
  <2>1. wire[s] \in Seq(Tokens) /\ wire'[s] = SubSeq(wire[s], k + 1, Len(wire[s]))
        /\ \A r \in Socks \ {s} : wire'[r] = wire[r]
    BY <1>2, <1>3, <1>6
  <2>2. \A e \in Cells \ {c} : buf'[e] = buf[e]
    BY <1>3, <1>6
  <2>3. /\ Ends(wire'[s]) \in Nat /\ Ends(wire[s]) \in Nat
        /\ Ends(wire'[s]) + One(wire[s][k] = "END") <= Ends(wire[s])
    BY <2>1, DropEnds
  <2>4. \/ buf'[c] = buf[c]
        \/ buf'[c] = Overwrite(<<>>, SubSeq(wire[s], 1, k))
    BY <1>2, <1>3, <1>6
  <2>5. CASE wire[s][k] = "END"
    <3>1. Ends(wire'[s]) + 1 <= Ends(wire[s])
      BY <2>3, <2>5 DEF One
    <3> HIDE DEF s, c
    <3> QED BY <1>1, <1>2, <1>6, <2>1, <2>2, <3>1, MessageReplies DEF c
  <2>6. CASE wire[s][k] # "END"
    <3>1. Ends(wire'[s]) <= Ends(wire[s])
      BY <2>3, <2>6 DEF One
    <3>2. \A r \in Socks : Ends(wire'[r]) <= Ends(wire[r])
      <4>1. ASSUME NEW r \in Socks, r # s PROVE Ends(wire'[r]) <= Ends(wire[r])
        BY <2>1, <4>1, AnswerNumbers
      <4> QED BY <3>1, <4>1
    <3>3. ~CheckRecvBufEnd(buf'[c])
      BY <1>4, <2>1, <2>4, <2>6, Delivered
    <3> QED BY <1>1, <1>6, <2>2, <3>2, <3>3, CompleteReplies
  <2> QED BY <2>5, <2>6
<1> QED BY <1>5, <1>6 DEF KernelRecv

LEMMA KernelReplies ==
    ASSUME TypeInv, TypeInv', Own, ReplyInv, NEW i \in Irps, Kernel(i),
           UNCHANGED serverVars
    PROVE  ReplyInv'
<1>1. CASE KernelAccept(i) \/ KernelSend(i)
  <2>1. /\ Busy(i) /\ irp[i].kind # RECV_POSTED
        /\ UNCHANGED <<wire, buf, sent, replies>>
        /\ \E ok, n : Complete(i, ok, n)
    BY <1>1, Zenon DEF KernelAccept, KernelSend, heapVars, netVars, ACCEPT_POSTED,
       RECV_POSTED, SEND_POSTED
  <2> UNCHANGED workVars
    BY DEF serverVars
  <2>2. \A r \in Socks : Ends(wire'[r]) <= Ends(wire[r])
    BY <2>1, AnswerNumbers
  <2> QED BY <2>1, <2>2, CompleteReplies
<1> QED BY <1>1, KernelRecvReplies DEF Kernel

LEMMA ClientReplies ==
    ASSUME TypeInv, TypeInv', ReplyInv, Client, UNCHANGED serverVars
    PROVE  ReplyInv'
<1>1. UNCHANGED <<buf, irp, port, wpc, wcell, wkey, replies>>
  BY DEF Client, ClientConnect, ClientSend, ClientClose, heapVars, portVars, workVars,
         serverVars
<1>2. RecvBuffers'
  BY <1>1, BuffersStay DEF ReplyInv
<1>3. \A s \in Socks : Ready(s)' = Ready(s)
  BY <1>1 DEF Ready, AtWork, Received
<1>4. CASE UNCHANGED <<wire, sent>>
  BY <1>1, <1>2, <1>3, <1>4, ReadyShrinks DEF ReplyInv
<1>5. ASSUME NEW s \in Socks, ClientSend(s) PROVE ReplyInv'
  <2>1. PICK h \in HeadsSent : wire' = [wire EXCEPT ![s] = @ \o <<h, "END">>]
    BY <1>5 DEF ClientSend
  <2>2. h \in Heads
    BY DEF HeadsSent, Heads
  <2>3. /\ wire[s] \in Seq(Tokens) /\ wire'[s] = wire[s] \o <<h, "END">>
        /\ sent'[s] = sent[s] + 1
        /\ \A r \in Socks \ {s} : wire'[r] = wire[r] /\ sent'[r] = sent[r]
    BY <1>5, <2>1 DEF ClientSend, TypeInv, TypeOK, PortTypeOK
  <2>4. Ends(wire'[s]) = Ends(wire[s]) + 1
    BY <2>2, <2>3, AddEnds
  <2>5. ASSUME NEW r \in Socks
        PROVE  /\ IsFiniteSet(Ready(r))
               /\ replies[r] + Ends(wire'[r]) + Cardinality(Ready(r)) <= sent'[r]
    <3>1. /\ IsFiniteSet(Ready(r)) /\ Cardinality(Ready(r)) \in Nat
          /\ replies[r] + Ends(wire[r]) + Cardinality(Ready(r)) <= sent[r]
      BY FS_CardinalityType DEF ReplyInv, Answers
    <3>2. \/ Ends(wire'[r]) = Ends(wire[r]) + 1 /\ sent'[r] = sent[r] + 1
          \/ Ends(wire'[r]) = Ends(wire[r]) /\ sent'[r] = sent[r]
      BY <2>3, <2>4
    <3> QED BY <3>1, <3>2, AnswerNumbers
  <2>6. Answers'
    BY <1>1, <1>3, <2>5 DEF Answers
  <2> QED BY <1>2, <2>6 DEF ReplyInv
<1> QED BY <1>4, <1>5 DEF Client, ClientConnect, ClientClose

LEMMA SameReplies == ASSUME ReplyInv, UNCHANGED vars PROVE ReplyInv'
BY DEF vars, heapVars, portVars, netVars, serverVars, workVars, ReplyInv, RecvBuffers, Answers,
       Ready, AtWork, Received, Ends, Busy

LEMMA InitReplies == Init => ReplyInv
<1> SUFFICES ASSUME Init PROVE ReplyInv
  OBVIOUS
<1>1. RecvBuffers
  BY DEF Init, PortInit, RecvBuffers, Busy
<1>2. ASSUME NEW s \in Socks
      PROVE  /\ IsFiniteSet(Ready(s))
             /\ replies[s] + Ends(wire[s]) + Cardinality(Ready(s)) <= sent[s]
  <2>1. Ready(s) = {}
    BY DEF Init, HeapInit, ServerInit, Ready, CheckRecvBufEnd, AtWork
  <2>2. wire[s] = <<>> /\ replies[s] = 0 /\ sent[s] = 0
    BY DEF Init, PortInit
  <2>3. Marked(<<>>, {"END"}) = {}
    BY DEF Marked
  <2>4. Cardinality({}) = 0 /\ IsFiniteSet({})
    BY FS_EmptySet
  <2>5. Ends(wire[s]) = 0
    BY <2>2, <2>3, <2>4 DEF Ends
  <2>6. IsFiniteSet(Ready(s)) /\ Cardinality(Ready(s)) = 0
    BY <2>1, <2>4
  <2> QED BY <2>2, <2>5, <2>6
<1> QED BY <1>1, <1>2 DEF ReplyInv, Answers

LEMMA NextReplies ==
    ~misread' /\ TypeInv /\ Own /\ ReplyInv /\ [Next]_vars => ReplyInv'
<1> SUFFICES ASSUME ~misread', TypeInv, Own, ReplyInv, [Next]_vars PROVE ReplyInv'
  OBVIOUS
<1>1. TypeInv'
  BY NextType
<1>2. ASSUME NEW w \in Workers, Worker(w) PROVE ReplyInv'
  BY <1>1, <1>2, WorkerThreadReplies, AcceptingReplies, ReceivingReplies DEF Worker
<1>3. CASE StartPost
  BY <1>1, <1>3, StartPostReplies
<1>4. ASSUME NEW i \in Irps, Kernel(i), UNCHANGED serverVars
      PROVE  ReplyInv'
  BY <1>1, <1>4, KernelReplies
<1>5. CASE Client /\ UNCHANGED serverVars
  BY <1>1, <1>5, ClientReplies
<1>6. CASE UNCHANGED vars
  BY <1>6, SameReplies
<1> QED BY <1>2, <1>3, <1>4, <1>5, <1>6 DEF Next, Quiet

(* PostSend answers no message twice until a packet is misread, however    *)
(* messages are split and run together, however often connections break,   *)
(* and whatever calls fail.                                                *)
THEOREM NoSecondReply == Spec => []AtMostOneReply
<1> DEFINE Inv == TypeInv /\ (misread \/ (Own /\ ReplyInv))
<1>1. Init => Inv
  BY InitType, InitOwn, InitReplies
<1>2. Inv /\ [Next]_vars => Inv'
  <2> SUFFICES ASSUME Inv, [Next]_vars, ~misread' PROVE (Own /\ ReplyInv)'
    BY NextType
  <2>1. Own /\ ReplyInv
    BY MisreadStays
  <2> QED BY <2>1, NextOwn, NextReplies
<1>3. Inv => AtMostOneReply
  <2> SUFFICES ASSUME TypeInv, ReplyInv, NEW s \in Socks PROVE replies[s] <= sent[s]
    BY DEF AtMostOneReply, AnswersWhoAsked
  <2>1. /\ Cardinality(Ready(s)) \in Nat
        /\ replies[s] + Ends(wire[s]) + Cardinality(Ready(s)) <= sent[s]
    BY FS_CardinalityType DEF ReplyInv, Answers
  <2> QED BY <2>1, AnswerNumbers
<1> QED BY <1>1, <1>2, <1>3, PTL DEF Spec
-----------------------------------------------------------------------------
(* The objects.  In an undisturbed run every handler finds the operation   *)
(* it posts accepted and an answer to give: no object is left behind.      *)
Undisturbed == Faults = {} /\ Env \subseteq {"pipeline"}

(* An operation or packet that a handler will be called with names c.      *)
Expected(c) ==
    \/ \E i \in Irps : Busy(i) /\ irp[i].cell = c /\ irp[i].kind # SEND_POSTED
    \/ \E n \in 1..Len(port) : port[n].cell = c /\ port[n].kind # SEND_POSTED

InHand(c) == \E w \in Workers : Holding(w) /\ wcell[w] = c

NoneLost == \A c \in live : Expected(c) \/ InHand(c)

HasAct(b) == \E j \in DOMAIN b : b[j] = "ACT"
NoActs == (\A s \in Socks : ~HasAct(wire[s])) /\ (\A c \in Cells : ~HasAct(buf[c]))
Unclosed == \A s \in Socks : sock[s] \notin {"fin", "rst"}

HeldInv == NoneLost /\ NoActs /\ Unclosed

LEMMA UndisturbedIsPlain == Undisturbed => Plain
BY DEF Undisturbed, Plain, Smooth

(* A new operation is expected, and every other is so still.               *)
LEMMA ExpectedPost ==
    ASSUME PortTypeOK, port' = port, NEW c \in Cells, NEW k \in Keys,
           NEW t \in OpTypes, NEW s \in Socks, Overlapped(c, k, t, s, FALSE)
    PROVE  /\ \A e : Expected(e) => Expected(e)'
           /\ t # SEND_POSTED => Expected(c)'
<1> DEFINE o == [cell |-> c, key |-> k, kind |-> t, sock |-> s, wild |-> FALSE]
<1>1. PICK i \in Irps : ~Busy(i) /\ irp' = [irp EXCEPT ![i] = o]
  BY DEF Overlapped
<1>2. /\ irp[i] = Idle /\ irp'[i] = o
      /\ \A j \in Irps \ {i} : irp'[j] = irp[j]
  BY <1>1 DEF PortTypeOK, Busy
<1>3. o # Idle
  <2>1. o \in Operation
    BY DEF Operation
  <2> QED BY <2>1, IdleAssumption
<1>4. ASSUME NEW e, Expected(e) PROVE Expected(e)'
  BY <1>2, <1>4 DEF Expected, Busy
<1>5. t # SEND_POSTED => Expected(c)'
  BY <1>2, <1>3 DEF Expected, Busy
<1> QED BY <1>4, <1>5

(* A step on a new object of a worker that keeps what it holds, or lets go *)
(* of nothing.                                                             *)
LEMMA NewHeld ==
    ASSUME Faults = {}, TypeInv, NoneLost,
           port' = port, wcell' = wcell,
           \A w \in Workers : Holding(w) => Holding(w)',
           (\E s \in Socks : sock[s] \in Open /\ PostNewRecv(s)) \/ PostNewAccept
    PROVE  NoneLost'
<1>1. PICK c \in Fresh :
        /\ New(c)
        /\ \/ \E s \in Socks : sock[s] \in Open /\ PostRecv(s, c, "own")
           \/ PostAcceptEx(c)
  BY DEF PostNewRecv, PostNewAccept
<1>2. c \in Cells /\ live' = live \cup {c}
  BY <1>1 DEF Fresh, New, GetNewIOData
<1>3. \E k \in Keys : \E t \in {ACCEPT_POSTED, RECV_POSTED} : \E s \in Socks :
          Overlapped(c, k, t, s, FALSE)
  <2>1. ASSUME NEW s \in Socks, sock[s] \in Open, PostRecv(s, c, "own")
        PROVE  Overlapped(c, s, RECV_POSTED, s, FALSE)
    <3>1. Overlapped(c, s, RECV_POSTED, s, "own" = "wild")
      BY <2>1 DEF PostRecv, Open
    <3>2. ("own" = "wild") = FALSE
      OBVIOUS
    <3> QED BY <3>1, <3>2
  <2>2. ASSUME PostAcceptEx(c)
        PROVE  \E s \in Socks : Overlapped(c, Listen, ACCEPT_POSTED, s, FALSE)
    BY <2>2 DEF PostAcceptEx
  <2> QED BY <1>1, <2>1, <2>2 DEF Keys
<1>4. (\A e : Expected(e) => Expected(e)') /\ Expected(c)'
  <2>1. /\ {ACCEPT_POSTED, RECV_POSTED} \subseteq OpTypes
        /\ ACCEPT_POSTED # SEND_POSTED /\ RECV_POSTED # SEND_POSTED
    BY DEF OpTypes, ACCEPT_POSTED, RECV_POSTED, SEND_POSTED
  <2> QED BY <1>2, <1>3, <2>1, ExpectedPost DEF TypeInv, TypeOK
<1>5. \A e : InHand(e) => InHand(e)'
  BY DEF InHand
<1> QED BY <1>2, <1>4, <1>5 DEF NoneLost

(* Worker w works on, or deletes the object it holds.                      *)
LEMMA WorkHeld ==
    ASSUME TypeInv, NoneLost, NEW w \in Workers, NEW l, Goto(w, l), wcell' = wcell,
           live' \subseteq live,
           Holding(w)' \/ wcell[w] \notin live' \/ ~Holding(w),
           \A e : Expected(e) => Expected(e)'
    PROVE  NoneLost'
<1>1. \A x \in Workers \ {w} : wpc'[x] = wpc[x]
  BY DEF Goto, TypeInv, TypeOK, ServerTypeOK
<1>2. ASSUME NEW e \in live', InHand(e) PROVE InHand(e)'
  BY <1>1, <1>2 DEF InHand, Holding
<1> QED BY <1>2 DEF NoneLost

LEMMA SameExpected ==
    ASSUME irp' = irp, port' = port
    PROVE  \A e : Expected(e) => Expected(e)'
BY DEF Expected, Busy

LEMMA AcceptingHeld ==
    ASSUME Smooth, TypeInv, Own, AcceptInv, RecvInv, NoneLost,
           NEW w \in Workers, Accepting(w)
    PROVE  NoneLost'
<1>1. wpc \in [Workers -> PCs]
  BY DEF TypeInv, TypeOK, ServerTypeOK
<1>2. CASE DoAcceptEx(w)
  <2> DEFINE r == acceptsocket[wcell[w]]
  <2>1. wpc[w] = "accept" /\ wcell[w] \in live /\ r \in Socks \ assoc
    BY <1>2, HeldLive, FreshSocket DEF DoAcceptEx, Holding
  <2>2. /\ PostNewRecv(r) /\ Goto(w, "unlisten") /\ port' = port /\ wcell' = wcell
    BY <1>2, <2>1, HeapAssumption DEF DoAcceptEx, Smooth
  <2>3. sock[r] \in Open
    BY <2>1 DEF RecvInv, Handler
  <2>4. \A x \in Workers : Holding(x) => Holding(x)'
    BY <1>1, <2>2 DEF Goto, Holding
  <2> QED BY <2>1, <2>2, <2>3, <2>4, NewHeld DEF Smooth
<1>3. CASE RemoveListen(w)
  <2>1. wcell[w] \in live
    BY <1>3, HeldLive DEF RemoveListen, Holding
  <2> QED BY <1>3, <2>1, SameExpected, WorkHeld
          DEF RemoveListen, Delete, RemoveIOData, portVars
<1>4. CASE RepostAccept(w)
  <2>1. \A x \in Workers : Holding(x) => Holding(x)'
    BY <1>1, <1>4 DEF RepostAccept, Goto, Holding
  <2> QED BY <1>4, <2>1, NewHeld DEF RepostAccept, Smooth
<1> QED BY <1>2, <1>3, <1>4 DEF Accepting

(* A request that came in whole, and from a client that is still there, is *)
(* answered.                                                               *)
LEMMA ReceivingHeld ==
    ASSUME Smooth, TypeInv, Own, AcceptInv, RecvInv, HeldInv,
           NEW w \in Workers, Receiving(w)
    PROVE  NoneLost'
<1>1. wpc \in [Workers -> PCs] /\ wcell[w] \in Cells
  BY DEF TypeInv, TypeOK, ServerTypeOK
<1>2. wpc[w] \in RecvPCs /\ wkey[w] \in Socks /\ sock[wkey[w]] \in Open
  <2>1. wpc[w] \in RecvPCs
    BY DEF Receiving, DoRecv, PostSend, RemoveSent, Rearm, RecvPCs
  <2> QED BY <2>1, AssocIsOpen DEF RecvInv, Handler
<1>3. CASE DoRecv(w)
  <2>1. wpc[w] = "recv" /\ PrepareSend(w) /\ UNCHANGED <<live, port, wcell>>
    BY <1>3, PlainRecv
  <2>2. BuildSend(buf[wcell[w]]) = {TRUE}
    <3>1. HasGet(buf[wcell[w]])
      BY <2>1 DEF RecvInv, Handler, Full
    <3>2. ~HasAct(buf[wcell[w]])
      BY <1>1 DEF HeldInv, NoActs
    <3>3. buf[wcell[w]] \in Seq(Tokens)
      BY <1>1 DEF TypeInv, TypeOK, HeapTypeOK
    <3>4. PICK j \in DOMAIN buf[wcell[w]] : buf[wcell[w]][j] = "GET"
      BY <3>1, <3>2 DEF HasGet, HasAct
    <3>5. \A m \in 1..(j - 1) : m \in DOMAIN buf[wcell[w]]
      BY <3>3, <3>4
    <3> QED BY <3>2, <3>4, <3>5 DEF BuildSend, HasAct
  <2>3. Goto(w, "send") /\ irp' = irp
    BY <2>1, <2>2 DEF PrepareSend
  <2>4. Holding(w)'
    BY <1>1, <2>3 DEF Goto, Holding
  <2> QED BY <2>1, <2>3, <2>4, SameExpected, WorkHeld DEF HeldInv
<1>4. CASE PostSend(w)
  <2>1. wpc[w] = "send" /\ wcell[w] \in live
    BY <1>4, HeldLive DEF PostSend, Holding
  <2>2. /\ Overlapped(wcell[w], wkey[w], SEND_POSTED, wkey[w], FALSE)
        /\ Goto(w, "remove") /\ live' = live /\ port' = port /\ wcell' = wcell
    BY <1>2, <1>4, <2>1 DEF PostSend, Open, Smooth, heapVars
  <2>3. Holding(w)'
    BY <1>1, <2>2 DEF Goto, Holding
  <2>4. \A e : Expected(e) => Expected(e)'
    <3>1. SEND_POSTED \in OpTypes /\ wkey[w] \in Keys
      BY <1>2 DEF OpTypes, Keys
    <3> QED BY <1>1, <1>2, <2>2, <3>1, ExpectedPost DEF TypeInv, TypeOK
  <2> QED BY <2>2, <2>3, <2>4, WorkHeld DEF HeldInv
<1>5. CASE RemoveSent(w)
  <2>1. wcell[w] \in live
    BY <1>5, HeldLive DEF RemoveSent, Holding
  <2> QED BY <1>5, <2>1, SameExpected, WorkHeld
          DEF HeldInv, RemoveSent, Delete, RemoveIOData, portVars
<1>6. CASE Rearm(w)
  <2>1. \A x \in Workers : Holding(x) => Holding(x)'
    BY <1>1, <1>6 DEF Rearm, Goto, Holding
  <2> QED BY <1>2, <1>6, <2>1, NewHeld DEF HeldInv, Rearm, Smooth
<1> QED BY <1>3, <1>4, <1>5, <1>6 DEF Receiving

(* What a packet names, the worker that takes it holds.                    *)
LEMMA WorkerThreadHeld ==
    ASSUME TypeInv, TypeInv', Own, AcceptInv, RecvInv, HeldInv,
           NEW w \in Workers, WorkerThread(w), ~misread'
    PROVE  NoneLost'
<1> DEFINE p == Head(port)
           len == Len(port)
<1>1. /\ port # <<>> /\ port' = Tail(port) /\ irp' = irp /\ live' = live
  BY DEF WorkerThread, heapVars
<1>2. /\ len \in Nat \ {0} /\ p = port[1] /\ Len(port') = len - 1
      /\ \A m \in 1..(len - 1) : port'[m] = port[m + 1]
  BY <1>1, HeadTailProperties, LenProperties, EmptySeq DEF TypeInv, TypeOK, PortTypeOK
<1>3. /\ wpc[w] = "wait"
      /\ p.kind \in {ACCEPT_POSTED, RECV_POSTED, SEND_POSTED}
      /\ p.ok /\ p.kind = ACCEPT_POSTED => wpc'[w] = "accept"
      /\ p.ok /\ p.kind = RECV_POSTED /\ p.n > 0 => wpc'[w] = "recv"
      /\ wpc'[w] # "wait" => wcell'[w] = p.cell
      /\ \A x \in Workers \ {w} : wpc'[x] = wpc[x] /\ wcell'[x] = wcell[x]
  BY Dispatch DEF KindKept
<1> HIDE DEF p, len
<1>4. p.kind # SEND_POSTED => Holding(w)' /\ wcell'[w] = p.cell
  <2>1. 1 \in 1..len
    BY <1>2
  <2>2. p.kind = ACCEPT_POSTED => p.ok
    BY <1>2, <2>1 DEF AcceptInv, AcceptOk, len
  <2>3. p.kind = RECV_POSTED => p.ok /\ p.n > 0
    <3>1. p.kind = RECV_POSTED => /\ p.key \in assoc
                                  /\ Arrived(p) \/ sock[p.key] = "fin"
      BY <1>2, <2>1 DEF RecvInv, QueuedPackets, len
    <3> QED BY <3>1, AssocIsOpen DEF HeldInv, Unclosed, Arrived
  <2> QED BY <1>3, <2>2, <2>3 DEF Holding
<1>5. ASSUME NEW c \in live, InHand(c) PROVE InHand(c)'
  BY <1>3, <1>5 DEF InHand, Holding
<1>6. ASSUME NEW c \in live, Expected(c) PROVE Expected(c)' \/ InHand(c)'
  <2>1. CASE \E i \in Irps : Busy(i) /\ irp[i].cell = c /\ irp[i].kind # SEND_POSTED
    BY <1>1, <2>1 DEF Expected, Busy
  <2>2. ASSUME NEW n \in 1..len, port[n].cell = c, port[n].kind # SEND_POSTED
        PROVE  Expected(c)' \/ InHand(c)'
    <3>1. CASE n = 1
      BY <1>2, <1>4, <2>2, <3>1 DEF InHand
    <3>2. CASE n # 1
      <4>1. n - 1 \in 1..(len - 1) /\ port'[n - 1] = port[n]
        BY <1>2, <3>2
      <4> QED BY <1>2, <2>2, <4>1 DEF Expected
    <3> QED BY <3>1, <3>2
  <2> QED BY <1>6, <2>1, <2>2 DEF Expected, len
<1> QED BY <1>1, <1>5, <1>6 DEF HeldInv, NoneLost

LEMMA KernelHeld ==
    ASSUME TypeInv, HeldInv, NEW i \in Irps, Kernel(i),
           UNCHANGED serverVars
    PROVE  NoneLost'
<1>1. /\ Busy(i) /\ live' = live /\ wpc' = wpc /\ wcell' = wcell
      /\ \E ok, n : Complete(i, ok, n)
  BY Zenon DEF Kernel, KernelAccept, KernelRecv, KernelSend, heapVars, workVars,
               serverVars
<1>2. PICK ok, n : Complete(i, ok, n)
  BY <1>1
<1> DEFINE p == [cell |-> irp[i].cell, key |-> irp[i].key,
                 kind |-> irp[i].kind, ok |-> ok, n |-> n]
           len == Len(port)
<1>3. /\ irp'[i] = Idle /\ \A j \in Irps \ {i} : irp'[j] = irp[j]
      /\ port' = Append(port, p)
  BY <1>2 DEF Complete, TypeInv, TypeOK, PortTypeOK
<1>4. /\ len \in Nat /\ Len(port') = len + 1 /\ port'[len + 1] = p
      /\ \A m \in 1..len : port'[m] = port[m]
  BY <1>3, LenProperties DEF TypeInv, TypeOK, PortTypeOK
<1> HIDE DEF len
<1>5. ASSUME NEW c, Expected(c) PROVE Expected(c)'
  <2>1. len + 1 \in 1..(len + 1) /\ \A m \in 1..len : m \in 1..(len + 1)
    BY <1>4
  <2>2. CASE \E j \in Irps : Busy(j) /\ irp[j].cell = c /\ irp[j].kind # SEND_POSTED
    BY <1>3, <1>4, <2>1, <2>2 DEF Expected, Busy
  <2>3. CASE \E m \in 1..len : port[m].cell = c /\ port[m].kind # SEND_POSTED
    BY <1>4, <2>1, <2>3 DEF Expected
  <2> QED BY <1>5, <2>2, <2>3 DEF Expected, len
<1>6. \A c : InHand(c) => InHand(c)'
  BY <1>1 DEF InHand, Holding
<1> QED BY <1>1, <1>5, <1>6 DEF HeldInv, NoneLost

(* The text that a step moves, and the connections it ends.                *)
LEMMA SameText ==
    ASSUME NoActs, TypeInv, wire' = wire,
           buf' = buf \/ \E c \in Cells : buf' = [buf EXCEPT ![c] = <<>>]
    PROVE  NoActs'
<1>1. \A c \in Cells : buf'[c] \in {buf[c], <<>>}
  BY DEF TypeInv, TypeOK, HeapTypeOK
<1>2. ~HasAct(<<>>)
  BY DEF HasAct
<1>3. \A c \in Cells : ~HasAct(buf'[c])
  BY <1>1, <1>2 DEF NoActs
<1>4. \A s \in Socks : ~HasAct(wire'[s])
  BY DEF NoActs
<1> QED BY <1>3, <1>4 DEF NoActs

LEMMA KernelText ==
    ASSUME Plain, TypeInv, RecvInv, NoActs, NEW i \in Irps, Kernel(i)
    PROVE  NoActs'
<1>1. CASE KernelAccept(i) \/ KernelSend(i)
  BY <1>1, SameText DEF KernelAccept, KernelSend, heapVars, netVars
<1>2. CASE KernelRecv(i)
  <2> DEFINE s == irp[i].sock
             c == irp[i].cell
  <2>1. /\ Busy(i) /\ irp[i].kind = RECV_POSTED /\ s \in Socks /\ c \in Cells
        /\ ~irp[i].wild /\ buf[c] = <<>>
    BY <1>2 DEF KernelRecv, RecvInv, PendingOps, Busy, Operation, TypeInv, TypeOK,
       PortTypeOK
  <2>2. /\ wire \in [Socks -> Seq(Tokens)] /\ buf \in [Cells -> Seq(Tokens)]
    BY DEF TypeInv, TypeOK, PortTypeOK, HeapTypeOK
  <2>3. CASE wire' = wire /\ buf' = buf
    BY <2>3, SameText
  <2>4. ASSUME NEW k \in 1..Len(wire[s]), k = Len(wire[s]),
               wire' = [wire EXCEPT ![s] = SubSeq(@, k + 1, Len(@))],
               buf' = IF irp[i].wild \/ c \notin live THEN buf
                      ELSE [buf EXCEPT ![c] = Overwrite(@, SubSeq(wire[s], 1, k))]
        PROVE  NoActs'
    <3>1. wire[s] \in Seq(Tokens)
      BY <2>1, <2>2
    <3>2. /\ Overwrite(<<>>, SubSeq(wire[s], 1, Len(wire[s]))) = wire[s]
          /\ SubSeq(wire[s], Len(wire[s]) + 1, Len(wire[s])) = <<>>
      BY <3>1, OverwriteEmpty
    <3> HIDE DEF s, c
    <3>3. wire' = [wire EXCEPT ![s] = <<>>]
      BY <2>1, <2>2, <2>4, <3>2
    <3>4. buf' = buf \/ buf' = [buf EXCEPT ![c] = wire[s]]
      BY <2>1, <2>2, <2>4, <3>2
    <3>5. ~HasAct(<<>>)
      BY DEF HasAct
    <3>6. \A r \in Socks : ~HasAct(wire'[r])
      BY <2>1, <2>2, <3>3, <3>5 DEF NoActs
    <3>7. \A e \in Cells : ~HasAct(buf'[e])
      BY <2>1, <2>2, <3>4 DEF NoActs
    <3> QED BY <3>6, <3>7 DEF NoActs
  <2> QED BY <1>2, <2>3, <2>4 DEF KernelRecv, Plain
<1> QED BY <1>1, <1>2 DEF Kernel

LEMMA ClientText ==
    ASSUME Undisturbed, TypeInv, NoActs, Client
    PROVE  NoActs'
<1>1. CASE UNCHANGED <<wire, buf>>
  BY <1>1, SameText
<1>2. ASSUME NEW s \in Socks, ClientSend(s) PROVE NoActs'
  <2>1. /\ wire \in [Socks -> Seq(Tokens)] /\ buf' = buf
        /\ wire' = [wire EXCEPT ![s] = @ \o <<"GET", "END">>]
    BY <1>2 DEF ClientSend, HeadsSent, Undisturbed, heapVars, TypeInv, TypeOK, PortTypeOK
  <2>2. wire'[s] = wire[s] \o <<"GET", "END">> /\ wire[s] \in Seq(Tokens)
    BY <2>1
  <2>3. ~HasAct(wire'[s])
    BY <2>2 DEF NoActs, HasAct
  <2>4. \A r \in Socks \ {s} : wire'[r] = wire[r]
    BY <2>1
  <2> QED BY <2>1, <2>3, <2>4 DEF NoActs
<1> QED BY <1>1, <1>2 DEF Client, ClientConnect, ClientClose, heapVars

LEMMA NewText ==
    ASSUME (\E s : PostNewRecv(s)) \/ PostNewAccept
    PROVE  \E c \in Cells : buf' = [buf EXCEPT ![c] = <<>>]
BY DEF PostNewRecv, PostNewAccept, New, GetNewIOData, Fresh

LEMMA WorkerText ==
    ASSUME TypeInv, Own, RecvInv, NoActs, NEW w \in Workers, Worker(w)
    PROVE  NoActs'
<1>1. wcell[w] \in Cells
  BY DEF TypeInv, TypeOK, ServerTypeOK
<1>2. CASE WorkerThread(w)
  BY <1>2, SameText DEF WorkerThread, heapVars, netVars
<1>3. CASE DoAcceptEx(w)
  BY <1>3, HeldLive, NewText, SameText DEF DoAcceptEx, Holding, heapVars
<1>4. CASE RemoveListen(w)
  BY <1>4, HeldLive, SameText DEF RemoveListen, Holding, Delete, RemoveIOData, netVars
<1>5. CASE RepostAccept(w)
  BY <1>5, NewText, SameText DEF RepostAccept
<1>6. CASE DoRecv(w)
  BY <1>1, <1>6, PlainRecv, SameText DEF PrepareSend, netVars
<1>7. CASE PostSend(w)
  BY <1>7, SameText DEF PostSend, heapVars
<1>8. CASE RemoveSent(w)
  BY <1>8, HeldLive, SameText DEF RemoveSent, Holding, Delete, RemoveIOData, netVars
<1>9. CASE Rearm(w)
  BY <1>9, NewText, SameText DEF Rearm, netVars
<1> QED BY <1>2, <1>3, <1>4, <1>5, <1>6, <1>7, <1>8, <1>9
        DEF Worker, Accepting, Receiving

LEMMA NextUnclosed ==
    ASSUME Undisturbed, TypeInv, Unclosed, [Next]_vars
    PROVE  Unclosed'
<1>1. \/ sock' = sock
      \/ \E s \in Socks : \E v \in {"fresh", "up"} : sock' = [sock EXCEPT ![s] = v]
  <2>1. CASE PostNewAccept
    BY <2>1 DEF PostNewAccept, PostAcceptEx
  <2>2. ASSUME NEW w \in Workers, Worker(w)
        PROVE  sock' = sock \/ PostNewAccept
    BY <2>2 DEF Worker, WorkerThread, Accepting, DoAcceptEx, RemoveListen, RepostAccept,
       Delete, Receiving, DoRecv, PostSend, RemoveSent, Rearm, Crash, netVars
  <2>3. ASSUME NEW i \in Irps, Kernel(i)
        PROVE  sock' = sock \/ sock' = [sock EXCEPT ![irp[i].sock] = "up"]
    BY <2>3 DEF Kernel, KernelAccept, KernelRecv, KernelSend, netVars
  <2>4. ASSUME NEW i \in Irps, Kernel(i)
        PROVE  irp[i].sock \in Socks
    BY <2>4 DEF Kernel, KernelAccept, KernelRecv, KernelSend, Busy, Operation, TypeInv,
       TypeOK, PortTypeOK
  <2>5. Client => sock' = sock
    BY DEF Client, ClientConnect, ClientSend, ClientClose, Undisturbed
  <2>6. UNCHANGED vars => sock' = sock
    BY DEF vars, netVars
  <2> QED BY <2>1, <2>2, <2>3, <2>4, <2>5, <2>6 DEF Next, StartPost, Quiet
<1> QED BY <1>1 DEF Unclosed, TypeInv, TypeOK, PortTypeOK

LEMMA InitHeld == Init => HeldInv
BY DEF Init, HeapInit, PortInit, HeldInv, NoneLost, NoActs, HasAct, Unclosed

LEMMA NextHeld ==
    /\ ~misread' /\ Undisturbed /\ TypeInv /\ Own /\ AcceptInv /\ RecvInv /\ HeldInv
    /\ [Next]_vars
    => HeldInv'
<1> SUFFICES ASSUME ~misread', Undisturbed, TypeInv, Own, AcceptInv, RecvInv,
                    HeldInv, [Next]_vars
             PROVE  HeldInv'
  OBVIOUS
<1>1. TypeInv' /\ Plain /\ Smooth
  BY NextType, UndisturbedIsPlain DEF Plain
<1>2. Unclosed'
  BY NextUnclosed DEF HeldInv
<1>3. ASSUME NEW w \in Workers, Worker(w) PROVE NoneLost' /\ NoActs'
  BY <1>1, <1>3, WorkerThreadHeld, AcceptingHeld, ReceivingHeld, WorkerText
  DEF Worker, HeldInv
<1>4. CASE StartPost
  <2>1. NoneLost'
    BY <1>4, NewHeld DEF StartPost, HeldInv, Undisturbed, workVars, Holding
  <2>2. NoActs'
    BY <1>4, NewText, SameText DEF StartPost, HeldInv
  <2> QED BY <1>2, <2>1, <2>2 DEF HeldInv
<1>5. ASSUME NEW i \in Irps, Kernel(i), UNCHANGED serverVars
      PROVE  NoneLost' /\ NoActs'
  BY <1>1, <1>5, KernelHeld, KernelText DEF HeldInv
<1>6. CASE Client /\ UNCHANGED serverVars
  <2>1. UNCHANGED <<live, irp, port, wpc, wcell>>
    BY <1>6 DEF Client, ClientConnect, ClientSend, ClientClose, heapVars, portVars,
       workVars, serverVars
  <2>2. NoneLost'
    BY <2>1 DEF HeldInv, NoneLost, Expected, InHand, Holding, Busy
  <2> QED BY <1>2, <1>6, <2>2, ClientText DEF HeldInv
<1>7. CASE UNCHANGED vars
  <2>1. UNCHANGED <<live, irp, port, wpc, wcell, wire, buf>>
    BY <1>7 DEF vars, heapVars, portVars, netVars, serverVars, workVars
  <2>2. NoneLost'
    BY <2>1 DEF HeldInv, NoneLost, Expected, InHand, Holding, Busy
  <2>3. NoActs'
    BY <2>1, SameText DEF HeldInv
  <2> QED BY <1>2, <2>2, <2>3 DEF HeldInv
<1> QED BY <1>2, <1>3, <1>4, <1>5, <1>6, <1>7 DEF Next, Quiet, HeldInv

(* No PerIOData object is lost before a packet is misread: while no call   *)
(* fails, and clients send whole queries and stay, every allocated object  *)
(* is named by an operation or a packet or is in a handler.  Each of the   *)
(* conditions is one that the code needs: a failed call, a message in      *)
(* pieces, one without GET, an activation query and a close each leave an  *)
(* object behind.                                                          *)
THEOREM NothingLost == Undisturbed => (Spec => []NoOrphanIO)
<1> SUFFICES ASSUME Undisturbed PROVE Spec => []NoOrphanIO
  OBVIOUS
<1> DEFINE Inv == TypeInv /\ (misread \/ (Own /\ AcceptInv /\ RecvInv /\ HeldInv))
<1>1. Init => Inv
  BY InitType, InitOwn, InitAccept, InitRecv, InitHeld
<1>2. Inv /\ [Next]_vars => Inv'
  <2> SUFFICES ASSUME Inv, [Next]_vars, ~misread'
               PROVE  (Own /\ AcceptInv /\ RecvInv /\ HeldInv)'
    BY NextType
  <2>1. Own /\ AcceptInv /\ RecvInv /\ HeldInv
    BY MisreadStays
  <2> QED BY <2>1, UndisturbedIsPlain, NextOwn, NextAccept, NextRecv, NextHeld DEF Plain
<1>3. Inv => NoOrphanIO
  <2> SUFFICES ASSUME TypeInv, HeldInv, NEW c \in live, ~InHand(c) PROVE Awaited(c)
    BY DEF NoOrphanIO, InHand
  <2>1. Expected(c)
    BY DEF HeldInv, NoneLost
  <2> QED BY <2>1, AwaitedDef DEF Expected, WaitsIrp, WaitsPacket, TypeInv, TypeOK
<1> QED BY <1>1, <1>2, <1>3, PTL DEF Spec
=============================================================================
