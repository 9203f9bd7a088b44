----------------------------- MODULE LoopProofs -----------------------------
(***************************************************************************)
(* The two loops of the server.  Nobody counts accepts and receives in the *)
(* code: each handler posts one operation for the one it took.  The proofs *)
(* count them, as operations under way, packets and handlers.              *)
(***************************************************************************)
EXTENDS OwnershipProofs, CountingProofs

At == [w \in Workers |-> <<wpc[w], wkey[w]>>]

(* How many operations are in I, packets in P, workers at a place in W.    *)
Ops(I) == Cardinality(Placed(irp, Irps, I))
Pks(P) == Cardinality(Marked(port, P))
Wks(W) == Cardinality(Placed(At, Workers, W))

Finite == IsFiniteSet(Irps) /\ IsFiniteSet(Workers)

LEMMA CountsAreNumbers ==
    ASSUME Finite, PortTypeOK, NEW I, NEW P, NEW W
    PROVE  Ops(I) \in Nat /\ Pks(P) \in Nat /\ Wks(W) \in Nat
<1>1. port \in Seq(Packet)
  BY DEF PortTypeOK
<1> QED BY <1>1, PlacedFinite, MarkedFinite DEF Finite, Ops, Pks, Wks

LEMMA OpsCount ==
    ASSUME Finite, NEW I, NEW i \in Irps, \A j \in Irps \ {i} : irp'[j] = irp[j]
    PROVE  Ops(I)' = Ops(I) + One(irp'[i] \in I) - One(irp[i] \in I)
<1>1. IsFiniteSet(Irps)
  BY DEF Finite
<1> QED BY <1>1, CountPlace DEF Ops

(* An operation is posted.                                                 *)
LEMMA PostCount ==
    ASSUME Finite, PortTypeOK, NEW I, Idle \notin I,
           NEW c, NEW k, NEW t, NEW s, NEW d, Overlapped(c, k, t, s, d)
    PROVE  Ops(I)' = Ops(I) + One([cell |-> c, key |-> k, kind |-> t,
                                   sock |-> s, wild |-> d] \in I)
<1> DEFINE o == [cell |-> c, key |-> k, kind |-> t, sock |-> s, wild |-> d]
<1>1. PICK i \in Irps : ~Busy(i) /\ irp' = [irp EXCEPT ![i] = o]
  BY DEF Overlapped
<1>2. irp'[i] = o /\ irp[i] = Idle /\ \A j \in Irps \ {i} : irp'[j] = irp[j]
  BY <1>1 DEF PortTypeOK, Busy
<1> HIDE DEF o
<1>3. Ops(I)' = Ops(I) + One(irp'[i] \in I) - One(irp[i] \in I)
  BY <1>2, OpsCount
<1>4. Ops(I) \in Nat
  BY CountsAreNumbers
<1>5. Ops(I)' = Ops(I) + One(o \in I)
  BY <1>2, <1>3, <1>4 DEF One
<1> QED BY <1>5 DEF o

(* An operation ends in a packet.                                          *)
LEMMA CompleteCount ==
    ASSUME Finite, PortTypeOK, PortTypeOK', NEW I, Idle \notin I, NEW P,
           NEW i \in Irps, Busy(i), NEW ok \in BOOLEAN, NEW n \in {0, 1},
           Complete(i, ok, n)
    PROVE  /\ Ops(I)' = Ops(I) - One(irp[i] \in I)
           /\ Pks(P)' = Pks(P) + One([cell |-> irp[i].cell, key |-> irp[i].key,
                                      kind |-> irp[i].kind, ok |-> ok, n |-> n] \in P)
<1> DEFINE p == [cell |-> irp[i].cell, key |-> irp[i].key,
                 kind |-> irp[i].kind, ok |-> ok, n |-> n]
<1>1. irp'[i] = Idle /\ \A j \in Irps \ {i} : irp'[j] = irp[j]
  BY DEF Complete, PortTypeOK
<1>2. p \in Packet /\ port \in Seq(Packet) /\ port' = Append(port, p)
  BY DEF Complete, PortTypeOK, Busy, Operation, Packet
<1> HIDE DEF p
<1>3. Ops(I)' = Ops(I) + One(irp'[i] \in I) - One(irp[i] \in I)
  BY <1>1, OpsCount
<1>4. Ops(I) \in Nat
  BY CountsAreNumbers
<1>5. Ops(I)' = Ops(I) - One(irp[i] \in I)
  BY <1>1, <1>3, <1>4 DEF One
<1>6. Pks(P)' = Pks(P) + One(p \in P)
  BY <1>2, CountAppend DEF Pks
<1> QED BY <1>5, <1>6 DEF p

(* A packet is taken.                                                      *)
LEMMA TakeCount ==
    ASSUME PortTypeOK, NEW P, port # <<>>, port' = Tail(port)
    PROVE  Pks(P)' = Pks(P) - One(Head(port) \in P)
<1>1. port \in Seq(Packet) /\ Tail(port) \in Seq(Packet)
  BY HeadTailProperties DEF PortTypeOK
<1>2. /\ Pks(P)' = Cardinality(Marked(Tail(port), P))
      /\ Cardinality(Marked(Tail(port), P)) \in Nat
  BY <1>1, MarkedFinite DEF Pks
<1>3. Pks(P) = Cardinality(Marked(Tail(port), P)) + One(Head(port) \in P)
  BY <1>1, CountTail DEF Pks
<1>4. One(Head(port) \in P) \in Int
  BY DEF One
<1> QED BY <1>2, <1>3, <1>4

(* A worker goes on.                                                       *)
LEMMA MoveCount ==
    ASSUME Finite, NEW W, NEW w \in Workers,
           \A x \in Workers \ {w} : wpc'[x] = wpc[x] /\ wkey'[x] = wkey[x]
    PROVE  Wks(W)' = Wks(W) + One(<<wpc'[w], wkey'[w]>> \in W)
                            - One(<<wpc[w], wkey[w]>> \in W)
<1>1. /\ At[w] = <<wpc[w], wkey[w]>> /\ At'[w] = <<wpc'[w], wkey'[w]>>
      /\ \A x \in Workers \ {w} : At'[x] = At[x]
  BY DEF At
<1>2. Cardinality(Placed(At', Workers, W)) =
          Cardinality(Placed(At, Workers, W)) + One(At'[w] \in W) - One(At[w] \in W)
  <2>1. IsFiniteSet(Workers)
    BY DEF Finite
  <2>2. \A x \in Workers \ {w} : At'[x] = At[x]
    BY <1>1
  <2> HIDE DEF At
  <2> QED BY <2>1, <2>2, CountPlace
<1> QED BY <1>1, <1>2 DEF Wks

LEMMA SameCounts ==
    ASSUME NEW I, NEW P, NEW W
    PROVE  /\ irp' = irp => Ops(I)' = Ops(I)
           /\ port' = port => Pks(P)' = Pks(P)
           /\ wpc' = wpc /\ wkey' = wkey => Wks(W)' = Wks(W)
BY DEF Ops, Pks, Wks, At
-----------------------------------------------------------------------------
(* The accept loop.                                                        *)
AcceptOps == {o \in Operation : o.kind = ACCEPT_POSTED}
AcceptPks == {p \in Packet : p.kind = ACCEPT_POSTED}
AcceptWks == AcceptPCs \X Keys

LEMMA AcceptSum ==
    ASSUME TypeInv
    PROVE  AcceptTurns = toPost + Ops(AcceptOps) + Pks(AcceptPks) + Wks(AcceptWks)
<1>1. {i \in Irps : Busy(i) /\ irp[i].kind = ACCEPT_POSTED} =
          Placed(irp, Irps, AcceptOps)
  BY IdleAssumption DEF TypeInv, TypeOK, PortTypeOK, Placed, AcceptOps, Busy
<1>2. \A n \in DOMAIN port : port[n] \in Packet
  BY DEF TypeInv, TypeOK, PortTypeOK
<1>3. {n \in DOMAIN port : port[n].kind = ACCEPT_POSTED} = Marked(port, AcceptPks)
  BY <1>2 DEF Marked, AcceptPks
<1>4. {w \in Workers : wpc[w] \in AcceptPCs} = Placed(At, Workers, AcceptWks)
  BY DEF TypeInv, TypeOK, ServerTypeOK, Placed, At, AcceptWks
<1> QED BY <1>1, <1>3, <1>4 DEF AcceptTurns, Ops, Pks, Wks

LEMMA AcceptMove ==
    ASSUME Finite, TypeInv, TypeInv', NEW w \in Workers,
           \A x \in Workers \ {w} : wpc'[x] = wpc[x] /\ wkey'[x] = wkey[x]
    PROVE  Wks(AcceptWks)' = Wks(AcceptWks) + One(wpc'[w] \in AcceptPCs)
                                            - One(wpc[w] \in AcceptPCs)
<1>1. /\ <<wpc'[w], wkey'[w]>> \in AcceptWks <=> wpc'[w] \in AcceptPCs
      /\ <<wpc[w], wkey[w]>> \in AcceptWks <=> wpc[w] \in AcceptPCs
  BY DEF TypeInv, TypeOK, ServerTypeOK, AcceptWks
<1>2. /\ One(<<wpc'[w], wkey'[w]>> \in AcceptWks) = One(wpc'[w] \in AcceptPCs)
      /\ One(<<wpc[w], wkey[w]>> \in AcceptWks) = One(wpc[w] \in AcceptPCs)
  BY <1>1 DEF One
<1> QED BY <1>2, MoveCount

(* Receives and sends are no turns of the accept loop, ...                 *)
LEMMA NoAcceptPosted ==
    ASSUME Finite, PortTypeOK,
           irp' = irp \/ \E c, k, s, d : \E t \in {RECV_POSTED, SEND_POSTED} :
                            Overlapped(c, k, t, s, d)
    PROVE  Ops(AcceptOps)' = Ops(AcceptOps)
<1>1. Idle \notin AcceptOps /\ Ops(AcceptOps) \in Nat
  BY IdleAssumption, CountsAreNumbers DEF AcceptOps
<1>2. CASE irp' = irp
  BY <1>2 DEF Ops
<1>3. ASSUME NEW c, NEW k, NEW s, NEW d, NEW t \in {RECV_POSTED, SEND_POSTED},
             Overlapped(c, k, t, s, d)
      PROVE  Ops(AcceptOps)' = Ops(AcceptOps)
  <2> DEFINE o == [cell |-> c, key |-> k, kind |-> t, sock |-> s, wild |-> d]
  <2>1. o \notin AcceptOps
    BY DEF AcceptOps, ACCEPT_POSTED, RECV_POSTED, SEND_POSTED
  <2>2. Ops(AcceptOps)' = Ops(AcceptOps) + One(o \in AcceptOps)
    BY <1>1, <1>3, PostCount
  <2> QED BY <1>1, <2>1, <2>2 DEF One
<1> QED BY <1>2, <1>3

(* ... and PostAcceptEx posts one turn, or none when a call fails.         *)
LEMMA NewAcceptPosted ==
    ASSUME Finite, TypeInv, PostNewAccept
    PROVE  /\ Ops(AcceptOps)' \in {Ops(AcceptOps), Ops(AcceptOps) + 1}
           /\ Faults = {} => Ops(AcceptOps)' = Ops(AcceptOps) + 1
<1>1. Idle \notin AcceptOps /\ Ops(AcceptOps) \in Nat
  BY IdleAssumption, CountsAreNumbers DEF AcceptOps, TypeInv, TypeOK
<1>2. PICK c \in Cells : PostAcceptEx(c)
  BY DEF PostNewAccept, Fresh
<1>3. \/ irp' = irp /\ Faults # {}
      \/ \E s \in Socks : Overlapped(c, Listen, ACCEPT_POSTED, s, FALSE)
  BY <1>2 DEF PostAcceptEx
<1>4. ASSUME NEW s \in Socks, Overlapped(c, Listen, ACCEPT_POSTED, s, FALSE)
      PROVE  Ops(AcceptOps)' = Ops(AcceptOps) + 1
  <2> DEFINE o == [cell |-> c, key |-> Listen, kind |-> ACCEPT_POSTED,
                   sock |-> s, wild |-> FALSE]
  <2>1. o \in AcceptOps
    BY DEF AcceptOps, Operation, Keys, OpTypes
  <2>2. Ops(AcceptOps)' = Ops(AcceptOps) + One(o \in AcceptOps)
    BY <1>1, <1>4, PostCount DEF TypeInv, TypeOK
  <2> QED BY <1>1, <2>1, <2>2 DEF One
<1>5. irp' = irp => Ops(AcceptOps)' = Ops(AcceptOps)
  BY DEF Ops
<1> QED BY <1>3, <1>4, <1>5

(* A packet taken off the port goes where its operation belongs.           *)
LEMMA Dispatch ==
    ASSUME TypeInv, TypeInv', Own, NEW w \in Workers, WorkerThread(w),
           ~misread'
    PROVE  /\ Head(port) \in Packet /\ Head(port).cell \in Cells
           /\ KindKept(Head(port).cell, Head(port).kind)
           /\ wpc[w] = "wait" /\ wpc'[w] \in {"wait", "accept", "recv"}
           /\ wpc'[w] = "accept" <=> Head(port).ok /\ Head(port).kind = ACCEPT_POSTED
           /\ wpc'[w] = "recv" <=> /\ Head(port).ok /\ Head(port).kind = RECV_POSTED
                                  /\ Head(port).n > 0
           /\ wpc'[w] # "wait" => wkey'[w] = Head(port).key /\ wcell'[w] = Head(port).cell
           /\ wpc'[w] = "wait" => wkey'[w] = wkey[w] /\ wcell'[w] = wcell[w]
           /\ \A x \in Workers \ {w} : /\ wpc'[x] = wpc[x]
                                      /\ wkey'[x] = wkey[x] /\ wcell'[x] = wcell[x]
<1> DEFINE p == Head(port)
<1>1. /\ wpc[w] = "wait" /\ port # <<>> /\ port' = Tail(port)
      /\ irp' = irp /\ live' = live /\ op' = op
  BY DEF WorkerThread, heapVars
<1>2. port \in Seq(Packet) /\ p = port[1] /\ 1 \in 1..Len(port)
  BY <1>1, HeadTailProperties, LenProperties, EmptySeq DEF TypeInv, TypeOK, PortTypeOK
<1>3. p \in Packet /\ p.cell \in Cells /\ p.ok \in BOOLEAN /\ p.key \in Keys
  <2>1. p \in Packet
    BY <1>2, ElementOfSeq
  <2> HIDE DEF p
  <2> QED BY <2>1 DEF Packet
<1>4. KindKept(p.cell, p.kind)
  BY <1>2 DEF Own, NamedOnce, PacketKind
<1>5. PICK t \in TypeRead(p.cell) :
          IF Dispatched(p, t)
          THEN /\ Goto(w, IF t = ACCEPT_POSTED THEN "accept" ELSE "recv")
               /\ wcell' = [wcell EXCEPT ![w] = p.cell]
               /\ wkey' = [wkey EXCEPT ![w] = p.key]
               /\ misread' = (misread \/ Misreads(p, t))
          ELSE UNCHANGED workVars
  BY DEF WorkerThread
<1>7. p.kind # SEND_POSTED => t = p.kind
  BY <1>4 DEF TypeRead, KindKept
<1>8. wpc \in [Workers -> PCs] /\ wkey \in [Workers -> Keys] /\ wcell \in [Workers -> Cells]
  BY DEF TypeInv, TypeOK, ServerTypeOK
<1> HIDE DEF p
<1>9. CASE Dispatched(p, t)
  <2>0. ~Misreads(p, t)
    BY <1>5, <1>9
  <2>1. /\ p.ok /\ p.kind = t
        /\ t = ACCEPT_POSTED \/ (t = RECV_POSTED /\ p.n > 0)
    BY <1>3, <1>4, <1>5, <1>9, <2>0, ReadRight DEF Dispatched
  <2>2. /\ wpc'[w] = IF t = ACCEPT_POSTED THEN "accept" ELSE "recv"
        /\ wkey'[w] = p.key /\ wcell'[w] = p.cell
        /\ \A x \in Workers \ {w} : /\ wpc'[x] = wpc[x]
                                   /\ wkey'[x] = wkey[x] /\ wcell'[x] = wcell[x]
    BY <1>5, <1>8, <1>9 DEF Goto
  <2> QED BY <1>1, <1>3, <1>4, <2>1, <2>2 DEF p, ACCEPT_POSTED, RECV_POSTED
<1>10. CASE ~Dispatched(p, t)
  <2>1. wpc' = wpc /\ wkey' = wkey /\ wcell' = wcell
    BY <1>5, <1>10 DEF workVars
  <2>2. /\ ~(p.ok /\ p.kind = ACCEPT_POSTED)
        /\ ~(p.ok /\ p.kind = RECV_POSTED /\ p.n > 0)
    BY <1>7, <1>10 DEF Dispatched, ACCEPT_POSTED, RECV_POSTED, SEND_POSTED
  <2> QED BY <1>1, <1>3, <1>4, <2>1, <2>2 DEF p
<1> QED BY <1>9, <1>10
-----------------------------------------------------------------------------
(* What keeps the accept loop from losing a turn when no call fails: the   *)
(* socket of each accept is a new one of its own, which no other handler   *)
(* has associated with the port.                                           *)
Accept(c) == c \in live /\ op[c] = ACCEPT_POSTED
Unlisted(c) == \E w \in Workers : wpc[w] = "unlisten" /\ wcell[w] = c

AcceptSocks ==
    \A c \in Cells : Accept(c) =>
        /\ acceptsocket[c] \in Socks
        /\ sock[acceptsocket[c]] # "none"
        /\ acceptsocket[c] \in assoc => Unlisted(c)
AcceptsDiffer ==
    \A c, d \in Cells :
        Accept(c) /\ Accept(d) /\ acceptsocket[c] = acceptsocket[d] => c = d
AcceptHeld ==
    \A w \in Workers :
        wpc[w] \in {"accept", "unlisten"} => op[wcell[w]] = ACCEPT_POSTED
AcceptOk == \A n \in 1..Len(port) : port[n].kind = ACCEPT_POSTED => port[n].ok
AssocOpen == \A s \in assoc : sock[s] # "none"

AcceptInv == AcceptSocks /\ AcceptsDiffer /\ AcceptHeld /\ AcceptOk /\ AssocOpen

Smooth == Faults = {} /\ "reset" \notin Env

(* No turn is added, and none is lost when nothing fails.                  *)
Kept ==
    /\ AcceptTurns \in Int /\ AcceptTurns' \in Int
    /\ AcceptTurns' <= AcceptTurns
    /\ Smooth /\ AcceptInv => AcceptTurns' = AcceptTurns

LEMMA AcceptSumNext ==
    TypeInv' => AcceptTurns' = toPost' + Ops(AcceptOps)' + Pks(AcceptPks)'
                                       + Wks(AcceptWks)'
<1>1. TypeInv => AcceptTurns = toPost + Ops(AcceptOps) + Pks(AcceptPks) + Wks(AcceptWks)
  BY AcceptSum
<1>2. (TypeInv => AcceptTurns = toPost + Ops(AcceptOps) + Pks(AcceptPks)
                                       + Wks(AcceptWks))'
  BY <1>1, PTL
<1> QED BY <1>2

(* The sum of the turns after a step.                                      *)
LEMMA KeptSum ==
    ASSUME Finite, TypeInv, TypeInv', NEW change \in Int,
           toPost' + Ops(AcceptOps)' + Pks(AcceptPks)' + Wks(AcceptWks)'
             = toPost + Ops(AcceptOps) + Pks(AcceptPks) + Wks(AcceptWks) + change,
           change <= 0, Smooth /\ AcceptInv => change = 0
    PROVE  Kept
<1>1. /\ Ops(AcceptOps) \in Nat /\ Pks(AcceptPks) \in Nat /\ Wks(AcceptWks) \in Nat
      /\ toPost \in Int
  BY CountsAreNumbers, ServerAssumption DEF TypeInv, TypeOK, ServerTypeOK
<1>2. AcceptTurns' = AcceptTurns + change /\ AcceptTurns \in Int
  BY <1>1, AcceptSum, AcceptSumNext
<1> QED BY <1>2 DEF Kept

LEMMA WorkerThreadKept ==
    ASSUME Finite, TypeInv, TypeInv', Own, NEW w \in Workers, WorkerThread(w),
           ~misread'
    PROVE  Kept
<1> DEFINE p == Head(port)
           taken == One(p \in AcceptPks)
           begun == One(wpc'[w] \in AcceptPCs)
<1>1. /\ port # <<>> /\ port' = Tail(port) /\ irp' = irp /\ toPost' = toPost
  BY DEF WorkerThread
<1>2. Ops(AcceptOps)' = Ops(AcceptOps)
  BY <1>1 DEF Ops
<1>3. Pks(AcceptPks)' = Pks(AcceptPks) - taken
  BY <1>1, TakeCount DEF TypeInv, TypeOK
<1>4. Wks(AcceptWks)' = Wks(AcceptWks) + begun
  <2>1. /\ wpc[w] \notin AcceptPCs
        /\ \A x \in Workers \ {w} : wpc'[x] = wpc[x] /\ wkey'[x] = wkey[x]
    BY Dispatch DEF AcceptPCs
  <2>2. Wks(AcceptWks) \in Nat
    BY CountsAreNumbers DEF TypeInv, TypeOK
  <2> QED BY <2>1, <2>2, AcceptMove DEF One
<1>5. wpc'[w] \in AcceptPCs <=> p.ok /\ p \in AcceptPks
  BY Dispatch DEF AcceptPCs, AcceptPks
<1>6. Smooth /\ AcceptInv /\ p \in AcceptPks => p.ok
  <2>1. 1 \in 1..Len(port) /\ p = port[1]
    BY <1>1, HeadTailProperties, LenProperties, EmptySeq DEF TypeInv, TypeOK, PortTypeOK
  <2> QED BY <2>1 DEF AcceptInv, AcceptOk, AcceptPks
<1>7. /\ begun - taken \in Int /\ begun - taken <= 0
      /\ Smooth /\ AcceptInv => begun - taken = 0
  BY <1>5, <1>6 DEF One
<1>8. /\ Ops(AcceptOps) \in Nat /\ Pks(AcceptPks) \in Nat /\ Wks(AcceptWks) \in Nat
      /\ toPost \in Int /\ taken \in Int /\ begun \in Int
  BY CountsAreNumbers, ServerAssumption DEF TypeInv, TypeOK, ServerTypeOK, One
<1> HIDE DEF taken, begun
<1>9. toPost' + Ops(AcceptOps)' + Pks(AcceptPks)' + Wks(AcceptWks)'
        = toPost + Ops(AcceptOps) + Pks(AcceptPks) + Wks(AcceptWks) + (begun - taken)
  BY <1>1, <1>2, <1>3, <1>4, <1>8
<1> QED BY <1>7, <1>9, KeptSum

LEMMA StartPostKept ==
    ASSUME Finite, TypeInv, TypeInv', StartPost
    PROVE  Kept
<1> DEFINE change == Ops(AcceptOps)' - Ops(AcceptOps) - 1
<1>1. /\ PostNewAccept /\ toPost' = toPost - 1 /\ port' = port
      /\ wpc' = wpc /\ wkey' = wkey
  BY DEF StartPost, workVars
<1>2. Pks(AcceptPks)' = Pks(AcceptPks) /\ Wks(AcceptWks)' = Wks(AcceptWks)
  BY <1>1, SameCounts
<1>3. /\ Ops(AcceptOps)' \in {Ops(AcceptOps), Ops(AcceptOps) + 1}
      /\ Smooth => Ops(AcceptOps)' = Ops(AcceptOps) + 1
  BY <1>1, NewAcceptPosted DEF Smooth
<1>4. /\ Ops(AcceptOps) \in Nat /\ Pks(AcceptPks) \in Nat /\ Wks(AcceptWks) \in Nat
      /\ toPost \in Int
  BY CountsAreNumbers, ServerAssumption DEF TypeInv, TypeOK, ServerTypeOK
<1>5. /\ change \in Int /\ change <= 0
      /\ Smooth /\ AcceptInv => change = 0
  BY <1>3, <1>4
<1>6. toPost' + Ops(AcceptOps)' + Pks(AcceptPks)' + Wks(AcceptWks)'
        = toPost + Ops(AcceptOps) + Pks(AcceptPks) + Wks(AcceptWks) + change
  BY <1>1, <1>2, <1>3, <1>4
<1> HIDE DEF change
<1> QED BY <1>5, <1>6, KeptSum

LEMMA KernelKept ==
    ASSUME Finite, TypeInv, TypeInv', NEW i \in Irps, Kernel(i),
           UNCHANGED serverVars
    PROVE  Kept
<1> DEFINE p(ok, n) == [cell |-> irp[i].cell, key |-> irp[i].key,
                        kind |-> irp[i].kind, ok |-> ok, n |-> n]
<1>1. Busy(i) /\ irp[i] \in Operation
  BY DEF Kernel, KernelAccept, KernelRecv, KernelSend, TypeInv, TypeOK, PortTypeOK, Busy
<1>2. PICK ok \in BOOLEAN, n \in {0, 1} : Complete(i, ok, n)
  BY DEF Kernel, KernelAccept, KernelRecv, KernelSend
<1>3. Idle \notin AcceptOps
  BY IdleAssumption DEF AcceptOps
<1>4. /\ Ops(AcceptOps)' = Ops(AcceptOps) - One(irp[i] \in AcceptOps)
      /\ Pks(AcceptPks)' = Pks(AcceptPks) + One(p(ok, n) \in AcceptPks)
  BY <1>1, <1>2, <1>3, CompleteCount DEF TypeInv, TypeOK
<1>5. irp[i] \in AcceptOps <=> p(ok, n) \in AcceptPks
  BY <1>1 DEF AcceptOps, AcceptPks, Operation, Packet
<1>6. One(irp[i] \in AcceptOps) = One(p(ok, n) \in AcceptPks)
      /\ One(irp[i] \in AcceptOps) \in Int
  BY <1>5 DEF One
<1>7. toPost' = toPost /\ Wks(AcceptWks)' = Wks(AcceptWks)
  BY SameCounts DEF workVars, serverVars
<1>8. /\ Ops(AcceptOps) \in Nat /\ Pks(AcceptPks) \in Nat /\ Wks(AcceptWks) \in Nat
      /\ toPost \in Int
  BY CountsAreNumbers, ServerAssumption DEF TypeInv, TypeOK, ServerTypeOK
<1> HIDE DEF p
<1>9. toPost' + Ops(AcceptOps)' + Pks(AcceptPks)' + Wks(AcceptWks)'
        = toPost + Ops(AcceptOps) + Pks(AcceptPks) + Wks(AcceptWks) + 0
  BY <1>4, <1>6, <1>7, <1>8
<1> QED BY <1>9, KeptSum

(* A step of handler w that posts no accept and stays in the accept path   *)
(* or outside of it.                                                       *)
LEMMA HandlerKept ==
    ASSUME Finite, TypeInv, TypeInv', NEW w \in Workers, NEW l, Goto(w, l),
           wpc[w] \in AcceptPCs <=> l \in AcceptPCs,
           wkey' = wkey, port' = port, toPost' = toPost,
           irp' = irp \/ \E c, k, s, d : \E t \in {RECV_POSTED, SEND_POSTED} :
                            Overlapped(c, k, t, s, d)
    PROVE  Kept
<1>1. wpc'[w] = l /\ \A x \in Workers \ {w} : wpc'[x] = wpc[x]
  BY DEF Goto, TypeInv, TypeOK, ServerTypeOK
<1>2. /\ Ops(AcceptOps) \in Nat /\ Pks(AcceptPks) \in Nat /\ Wks(AcceptWks) \in Nat
      /\ toPost \in Int
  BY CountsAreNumbers, ServerAssumption DEF TypeInv, TypeOK, ServerTypeOK
<1>3. Wks(AcceptWks)' = Wks(AcceptWks)
  BY <1>1, <1>2, AcceptMove DEF One
<1>4. Ops(AcceptOps)' = Ops(AcceptOps) /\ Pks(AcceptPks)' = Pks(AcceptPks)
  BY NoAcceptPosted, SameCounts DEF TypeInv, TypeOK
<1>5. toPost' + Ops(AcceptOps)' + Pks(AcceptPks)' + Wks(AcceptWks)'
        = toPost + Ops(AcceptOps) + Pks(AcceptPks) + Wks(AcceptWks) + 0
  BY <1>2, <1>3, <1>4
<1> QED BY <1>5, KeptSum

LEMMA NewRecvOverlapped ==
    ASSUME NEW s, PostNewRecv(s)
    PROVE  irp' = irp \/ \E c, k, r, d : \E t \in {RECV_POSTED, SEND_POSTED} :
                            Overlapped(c, k, t, r, d)
<1>1. PICK c \in Fresh : PostRecv(s, c, "own")
  BY DEF PostNewRecv
<1>2. irp' = irp \/ \E d : Overlapped(c, s, RECV_POSTED, s, d)
  BY <1>1, Zenon DEF PostRecv
<1> QED BY <1>2

(* Inside DoAcceptEx nobody else works on the object, and none of its      *)
(* socket is associated yet.                                               *)
LEMMA FreshSocket ==
    ASSUME TypeInv, Own, AcceptInv, NEW w \in Workers, wpc[w] = "accept"
    PROVE  acceptsocket[wcell[w]] \in Socks \ assoc
<1>1. wcell[w] \in Cells /\ Accept(wcell[w])
  BY DEF TypeInv, TypeOK, ServerTypeOK, Own, Exclusive, Holding, Accept, AcceptInv,
         AcceptHeld
<1>2. ~Unlisted(wcell[w])
  BY DEF Unlisted, Own, Exclusive, Holding
<1> QED BY <1>1, <1>2 DEF AcceptInv, AcceptSocks

LEMMA AcceptingKept ==
    ASSUME Finite, TypeInv, TypeInv', Own, NEW w \in Workers, Accepting(w)
    PROVE  Kept
<1> DEFINE gone == One(wpc[w] \in AcceptPCs)
<1>1. wpc \in [Workers -> PCs]
  BY DEF TypeInv, TypeOK, ServerTypeOK
<1>2. /\ Ops(AcceptOps) \in Nat /\ Pks(AcceptPks) \in Nat /\ Wks(AcceptWks) \in Nat
      /\ toPost \in Int
  BY CountsAreNumbers, ServerAssumption DEF TypeInv, TypeOK, ServerTypeOK
<1>3. CASE DoAcceptEx(w)
  <2> DEFINE s == acceptsocket[wcell[w]]
  <2>1. wpc[w] = "accept" /\ wcell[w] \in live
    BY <1>3, HeldLive DEF DoAcceptEx, Holding
  <2>2. /\ \/ /\ "assoc" \in Faults \/ s \in assoc \cup {NoSock}
              /\ Goto(w, "wait") /\ irp' = irp
           \/ PostNewRecv(s) /\ Goto(w, "unlisten")
        /\ port' = port /\ wkey' = wkey /\ toPost' = toPost
    BY <1>3, <2>1 DEF DoAcceptEx
  <2>3. CASE PostNewRecv(s) /\ Goto(w, "unlisten")
    BY <2>1, <2>2, <2>3, NewRecvOverlapped, HandlerKept DEF AcceptPCs
  <2>4. CASE /\ "assoc" \in Faults \/ s \in assoc \cup {NoSock}
             /\ Goto(w, "wait") /\ irp' = irp
    <3>1. ~(Smooth /\ AcceptInv)
      BY <2>1, <2>4, FreshSocket, HeapAssumption DEF Smooth
    <3>2. wpc'[w] = "wait" /\ \A x \in Workers \ {w} : wpc'[x] = wpc[x]
      BY <1>1, <2>4 DEF Goto
    <3>3. Wks(AcceptWks)' = Wks(AcceptWks) - 1
      BY <1>2, <2>1, <2>2, <3>2, AcceptMove DEF One, AcceptPCs
    <3>4. Ops(AcceptOps)' = Ops(AcceptOps) /\ Pks(AcceptPks)' = Pks(AcceptPks)
      BY <2>2, <2>4, SameCounts
    <3>5. toPost' + Ops(AcceptOps)' + Pks(AcceptPks)' + Wks(AcceptWks)'
            = toPost + Ops(AcceptOps) + Pks(AcceptPks) + Wks(AcceptWks) + (-1)
      BY <1>2, <2>2, <3>3, <3>4
    <3> QED BY <3>1, <3>5, KeptSum
  <2> QED BY <2>2, <2>3, <2>4
<1>4. CASE RemoveListen(w)
  <2>1. wpc[w] = "unlisten" /\ wcell[w] \in live /\ Delete(w, "repost")
    BY <1>4, HeldLive DEF RemoveListen, Holding
  <2>2. /\ Goto(w, "repost") /\ irp' = irp /\ port' = port
        /\ wkey' = wkey /\ toPost' = toPost
    BY <2>1 DEF Delete, portVars
  <2> QED BY <2>1, <2>2, HandlerKept DEF AcceptPCs
<1>5. CASE RepostAccept(w)
  <2> DEFINE change == Ops(AcceptOps)' - Ops(AcceptOps) - 1
  <2>1. /\ wpc[w] = "repost" /\ PostNewAccept /\ Goto(w, "wait")
        /\ port' = port /\ wkey' = wkey /\ toPost' = toPost
    BY <1>5 DEF RepostAccept
  <2>2. wpc'[w] = "wait" /\ \A x \in Workers \ {w} : wpc'[x] = wpc[x]
    BY <1>1, <2>1 DEF Goto
  <2>3. Wks(AcceptWks)' = Wks(AcceptWks) - 1
    BY <1>2, <2>1, <2>2, AcceptMove DEF One, AcceptPCs
  <2>4. /\ Ops(AcceptOps)' \in {Ops(AcceptOps), Ops(AcceptOps) + 1}
        /\ Smooth => Ops(AcceptOps)' = Ops(AcceptOps) + 1
        /\ Pks(AcceptPks)' = Pks(AcceptPks)
    BY <2>1, NewAcceptPosted, SameCounts DEF Smooth
  <2>5. change \in Int /\ change <= 0 /\ (Smooth => change = 0)
    BY <1>2, <2>4
  <2>6. toPost' + Ops(AcceptOps)' + Pks(AcceptPks)' + Wks(AcceptWks)'
          = toPost + Ops(AcceptOps) + Pks(AcceptPks) + Wks(AcceptWks) + change
    BY <1>2, <2>1, <2>3, <2>4
  <2> HIDE DEF change
  <2> QED BY <2>5, <2>6, KeptSum
<1> QED BY <1>3, <1>4, <1>5 DEF Accepting

LEMMA ReceivingKept ==
    ASSUME Finite, TypeInv, TypeInv', Own, NEW w \in Workers, Receiving(w)
    PROVE  Kept
<1>1. wpc[w] \in RecvPCs /\ wpc[w] \notin AcceptPCs
  BY DEF Receiving, DoRecv, PostSend, RemoveSent, Rearm, RecvPCs, AcceptPCs
<1>2. CASE DoRecv(w)
  <2>1. /\ Incomplete(w) \/ PrepareSend(w) \/ Refuse(w)
        /\ port' = port /\ wkey' = wkey /\ toPost' = toPost
    BY <1>2, HeldLive DEF DoRecv, Holding
  <2>2. \E l \in {"rearm", "send", "wait"} : Goto(w, l)
    BY <2>1 DEF Incomplete, PrepareSend, Refuse
  <2>3. irp' = irp \/ \E c, k, s, d : \E t \in {RECV_POSTED, SEND_POSTED} :
                         Overlapped(c, k, t, s, d)
    <3>1. CASE Incomplete(w)
      <4>1. PICK d : PostRecv(wkey[w], wcell[w], d)
        BY <3>1 DEF Incomplete
      <4>2. irp' = irp \/ \E b : Overlapped(wcell[w], wkey[w], RECV_POSTED, wkey[w], b)
        BY <4>1, Zenon DEF PostRecv
      <4> QED BY <4>2
    <3> QED BY <2>1, <3>1 DEF PrepareSend, Refuse
  <2> QED BY <1>1, <2>1, <2>2, <2>3, HandlerKept DEF AcceptPCs
<1>3. CASE PostSend(w)
  <2>1. /\ port' = port /\ wkey' = wkey /\ toPost' = toPost
        /\ \E l \in {"remove", "rearm"} : Goto(w, l)
        /\ irp' = irp \/ Overlapped(wcell[w], wkey[w], SEND_POSTED, wkey[w], FALSE)
    BY <1>3 DEF PostSend
  <2> QED BY <1>1, <2>1, HandlerKept DEF AcceptPCs
<1>4. CASE RemoveSent(w)
  <2>1. wcell[w] \in live /\ Delete(w, "rearm")
    BY <1>4, HeldLive DEF RemoveSent, Holding
  <2>2. /\ Goto(w, "rearm") /\ irp' = irp /\ port' = port
        /\ wkey' = wkey /\ toPost' = toPost
    BY <2>1 DEF Delete, portVars
  <2> QED BY <1>1, <2>2, HandlerKept DEF AcceptPCs
<1>5. CASE Rearm(w)
  <2>1. /\ PostNewRecv(wkey[w]) /\ Goto(w, "wait")
        /\ port' = port /\ wkey' = wkey /\ toPost' = toPost
    BY <1>5 DEF Rearm
  <2> QED BY <1>1, <2>1, NewRecvOverlapped, HandlerKept DEF AcceptPCs
<1> QED BY <1>2, <1>3, <1>4, <1>5 DEF Receiving

LEMMA SameKept ==
    ASSUME Finite, TypeInv, TypeInv', UNCHANGED <<irp, port, workVars, toPost>>
    PROVE  Kept
<1>1. /\ Ops(AcceptOps) \in Nat /\ Pks(AcceptPks) \in Nat /\ Wks(AcceptWks) \in Nat
      /\ toPost \in Int
  BY CountsAreNumbers, ServerAssumption DEF TypeInv, TypeOK, ServerTypeOK
<1>2. toPost' + Ops(AcceptOps)' + Pks(AcceptPks)' + Wks(AcceptWks)'
        = toPost + Ops(AcceptOps) + Pks(AcceptPks) + Wks(AcceptWks) + 0
  BY <1>1, SameCounts DEF workVars
<1> QED BY <1>2, KeptSum

LEMMA NextKept == ~misread' /\ Finite /\ TypeInv /\ Own /\ [Next]_vars => Kept
<1> SUFFICES ASSUME ~misread', Finite, TypeInv, Own, [Next]_vars PROVE Kept
  OBVIOUS
<1>1. TypeInv'
  BY NextType
<1>2. ASSUME NEW w \in Workers, Worker(w) PROVE Kept
  BY <1>1, <1>2, WorkerThreadKept, AcceptingKept, ReceivingKept DEF Worker
<1>3. CASE StartPost
  BY <1>1, <1>3, StartPostKept
<1>4. ASSUME NEW i \in Irps, Kernel(i), UNCHANGED serverVars
      PROVE  Kept
  BY <1>1, <1>4, KernelKept
<1>5. CASE Client /\ UNCHANGED serverVars
  BY <1>1, <1>5, SameKept DEF Client, ClientConnect, ClientSend, ClientClose, portVars,
                        serverVars
<1>6. CASE UNCHANGED vars
  BY <1>1, <1>6, SameKept DEF vars, portVars, serverVars
<1> QED BY <1>2, <1>3, <1>4, <1>5, <1>6 DEF Next, Quiet

LEMMA InitTurns == Init /\ Finite => AcceptTurns = MaxPostAccept
<1> SUFFICES ASSUME Init, Finite PROVE AcceptTurns = MaxPostAccept
  OBVIOUS
<1>1. {i \in Irps : Busy(i) /\ irp[i].kind = ACCEPT_POSTED} = {}
  BY DEF Init, PortInit, Busy
<1>2. {n \in DOMAIN port : port[n].kind = ACCEPT_POSTED} = {}
  BY DEF Init, PortInit
<1>3. {w \in Workers : wpc[w] \in AcceptPCs} = {}
  BY DEF Init, ServerInit, AcceptPCs
<1>4. Cardinality({}) = 0
  BY FS_EmptySet
<1>5. toPost = MaxPostAccept
  BY DEF Init, ServerInit
<1>6. AcceptTurns = toPost + 0 + 0 + 0
  BY <1>1, <1>2, <1>3, <1>4 DEF AcceptTurns
<1> QED BY <1>5, <1>6, ServerAssumption

(* Calls that fail lose accepts, but until a packet is misread no history  *)
(* of failures and no order of the workers, Start and the kernel ever adds *)
(* one.                                                                    *)
THEOREM AcceptsBounded == Finite => (Spec => []AcceptPoolBound)
<1> SUFFICES ASSUME Finite PROVE Spec => []AcceptPoolBound
  OBVIOUS
<1> DEFINE Inv == TypeInv /\ (misread \/ (Own /\ AcceptTurns <= MaxPostAccept))
<1>1. Init => Inv
  BY InitType, InitOwn, InitTurns, ServerAssumption
<1>2. Inv /\ [Next]_vars => Inv'
  <2> SUFFICES ASSUME Inv, [Next]_vars, ~misread' PROVE Own' /\ AcceptTurns' <= MaxPostAccept
    BY NextType
  <2>1. Own /\ AcceptTurns <= MaxPostAccept
    BY MisreadStays
  <2>2. Own' /\ Kept
    BY <2>1, NextOwn, NextKept
  <2> QED BY <2>1, <2>2, ServerAssumption DEF Kept
<1>3. Inv => AcceptPoolBound
  BY DEF AcceptPoolBound
<1> QED BY <1>1, <1>2, <1>3, PTL DEF Spec
-----------------------------------------------------------------------------
(* AcceptInv is inductive when no call fails.                              *)

(* A step that makes no new accept.                                        *)
LEMMA NoNewAccept ==
    ASSUME AcceptInv, TypeInv, assoc' = assoc,
           \A s \in Socks : sock[s] # "none" => sock'[s] # "none",
           \A c \in Cells : Accept(c)' => Accept(c) /\ acceptsocket'[c] = acceptsocket[c],
           \A x \in Workers : wpc[x] = "unlisten" =>
               \/ wpc'[x] = "unlisten" /\ wcell'[x] = wcell[x]
               \/ \A c \in Cells : c = wcell[x] => ~Accept(c)'
    PROVE  AcceptSocks' /\ AcceptsDiffer' /\ AssocOpen'
<1>1. assoc \subseteq Socks
  BY DEF TypeInv, TypeOK, PortTypeOK
<1>2. ASSUME NEW c \in Cells, Accept(c)'
      PROVE  /\ acceptsocket'[c] \in Socks
             /\ sock'[acceptsocket'[c]] # "none"
             /\ acceptsocket'[c] \in assoc' => Unlisted(c)'
  <2>1. Accept(c) /\ acceptsocket'[c] = acceptsocket[c]
    BY <1>2
  <2>2. /\ acceptsocket[c] \in Socks /\ sock[acceptsocket[c]] # "none"
        /\ acceptsocket[c] \in assoc => Unlisted(c)
    BY <2>1 DEF AcceptInv, AcceptSocks
  <2>3. Unlisted(c) => Unlisted(c)'
    BY <1>2 DEF Unlisted
  <2> QED BY <2>1, <2>2, <2>3
<1>3. AcceptSocks'
  BY <1>2 DEF AcceptSocks
<1>4. AcceptsDiffer'
  BY DEF AcceptInv, AcceptsDiffer
<1>5. AssocOpen'
  BY <1>1 DEF AcceptInv, AssocOpen
<1> QED BY <1>3, <1>4, <1>5

(* PostAcceptEx makes one on a new object with a new socket.               *)
LEMMA NewAccept ==
    ASSUME Faults = {}, AcceptInv, TypeInv, PostNewAccept, assoc' = assoc,
           \A x \in Workers : wpc[x] = "unlisten" =>
               wpc'[x] = "unlisten" /\ wcell'[x] = wcell[x]
    PROVE  /\ AcceptSocks' /\ AcceptsDiffer' /\ AssocOpen'
           /\ \A c \in live : op'[c] = op[c]
<1>1. PICK c \in Fresh : New(c) /\ PostAcceptEx(c)
  BY DEF PostNewAccept
<1>2. c \in Cells /\ c \notin live /\ live' = live \cup {c}
  BY <1>1 DEF Fresh, New, GetNewIOData
<1>3. PICK s \in Socks : /\ op' = [op EXCEPT ![c] = ACCEPT_POSTED]
                         /\ sock[s] = "none"
                         /\ sock' = [sock EXCEPT ![s] = "fresh"]
                         /\ acceptsocket' = [acceptsocket EXCEPT ![c] = s]
  BY <1>1 DEF PostAcceptEx
<1>4. /\ op \in [Cells -> OpTypes] /\ acceptsocket \in [Cells -> Socks \cup {NoSock}]
      /\ sock \in [Socks -> SockState] /\ assoc \subseteq Socks /\ live \subseteq Cells
  BY DEF TypeInv, TypeOK, HeapTypeOK, PortTypeOK
<1>5. /\ op'[c] = ACCEPT_POSTED /\ acceptsocket'[c] = s /\ sock'[s] = "fresh"
      /\ \A d \in Cells \ {c} : op'[d] = op[d] /\ acceptsocket'[d] = acceptsocket[d]
      /\ \A r \in Socks \ {s} : sock'[r] = sock[r]
  BY <1>2, <1>3, <1>4
<1>6. s \notin assoc
  BY <1>3 DEF AcceptInv, AssocOpen
<1>7. ASSUME NEW d \in Cells, d # c, Accept(d)'
      PROVE  /\ Accept(d) /\ acceptsocket'[d] = acceptsocket[d]
             /\ acceptsocket[d] \in Socks \ {s}
             /\ sock[acceptsocket[d]] # "none"
             /\ acceptsocket[d] \in assoc => Unlisted(d)'
  <2>1. Accept(d) /\ acceptsocket'[d] = acceptsocket[d]
    BY <1>2, <1>5, <1>7 DEF Accept
  <2>2. Unlisted(d) => Unlisted(d)'
    BY DEF Unlisted
  <2>3. /\ acceptsocket[d] \in Socks
        /\ sock[acceptsocket[d]] # "none"
        /\ acceptsocket[d] \in assoc => Unlisted(d)
    BY <2>1 DEF AcceptInv, AcceptSocks
  <2> QED BY <1>3, <2>1, <2>2, <2>3
<1>8. AcceptSocks'
  <2>1. ASSUME NEW d \in Cells, Accept(d)'
        PROVE  /\ acceptsocket'[d] \in Socks
               /\ sock'[acceptsocket'[d]] # "none"
               /\ acceptsocket'[d] \in assoc' => Unlisted(d)'
    <3>1. CASE d = c
      BY <1>5, <1>6, <3>1
    <3>2. CASE d # c
      BY <1>5, <1>7, <2>1, <3>2
    <3> QED BY <3>1, <3>2
  <2> QED BY <2>1 DEF AcceptSocks
<1>9. AcceptsDiffer'
  <2>1. ASSUME NEW d \in Cells, NEW e \in Cells, Accept(d)', Accept(e)',
               acceptsocket'[d] = acceptsocket'[e]
        PROVE  d = e
    <3>1. CASE d = c \/ e = c
      BY <1>5, <1>7, <2>1, <3>1
    <3>2. CASE d # c /\ e # c
      BY <1>7, <2>1, <3>2 DEF AcceptInv, AcceptsDiffer
    <3> QED BY <3>1, <3>2
  <2> QED BY <2>1 DEF AcceptsDiffer
<1>10. AssocOpen'
  BY <1>4, <1>5 DEF AcceptInv, AssocOpen
<1> QED BY <1>2, <1>4, <1>5, <1>8, <1>9, <1>10

(* The objects other handlers hold keep their type.                        *)
LEMMA StillHeld ==
    ASSUME AcceptInv, Own, NEW x \in Workers, wpc'[x] = wpc[x], wcell'[x] = wcell[x],
           \A c \in live : c = wcell[x] => op'[c] = op[c]
    PROVE  wpc'[x] \in {"accept", "unlisten"} => op'[wcell'[x]] = ACCEPT_POSTED
BY DEF AcceptInv, AcceptHeld, Own, Exclusive, Holding

LEMMA OkKept == ASSUME AcceptInv, port' = port PROVE AcceptOk'
BY DEF AcceptInv, AcceptOk

LEMMA WorkerThreadAccept ==
    ASSUME TypeInv, TypeInv', Own, AcceptInv, NEW w \in Workers, WorkerThread(w),
           ~misread'
    PROVE  AcceptInv'
<1>1. /\ port # <<>> /\ port' = Tail(port) /\ live' = live /\ op' = op
      /\ acceptsocket' = acceptsocket /\ sock' = sock /\ assoc' = assoc
  BY DEF WorkerThread, heapVars, netVars
<1>2. AcceptSocks' /\ AcceptsDiffer' /\ AssocOpen'
  BY <1>1, Dispatch, NoNewAccept DEF Accept
<1>3. ASSUME NEW x \in Workers, wpc'[x] \in {"accept", "unlisten"}
      PROVE  op'[wcell'[x]] = ACCEPT_POSTED
  <2>1. CASE x = w
    BY <1>1, <1>3, <2>1, Dispatch DEF KindKept, ACCEPT_POSTED, SEND_POSTED
  <2>2. CASE x # w
    BY <1>1, <1>3, <2>2, Dispatch, StillHeld
  <2> QED BY <2>1, <2>2
<1>4. AcceptOk'
  <2>1. /\ Len(port) \in Nat \ {0} /\ Len(port') = Len(port) - 1
        /\ \A m \in 1..(Len(port) - 1) : port'[m] = port[m + 1]
    BY <1>1, HeadTailProperties, LenProperties, EmptySeq DEF TypeInv, TypeOK, PortTypeOK
  <2> QED BY <2>1 DEF AcceptInv, AcceptOk
<1> QED BY <1>2, <1>3, <1>4 DEF AcceptInv, AcceptHeld

LEMMA StartPostAccept ==
    ASSUME Smooth, TypeInv, Own, AcceptInv, StartPost
    PROVE  AcceptInv'
<1>1. /\ PostNewAccept /\ assoc' = assoc /\ port' = port
      /\ wpc' = wpc /\ wcell' = wcell
  BY DEF StartPost, workVars
<1>2. /\ AcceptSocks' /\ AcceptsDiffer' /\ AssocOpen'
      /\ \A c \in live : op'[c] = op[c]
  BY <1>1, NewAccept DEF Smooth
<1>3. \A x \in Workers : wpc'[x] \in {"accept", "unlisten"} =>
                             op'[wcell'[x]] = ACCEPT_POSTED
  BY <1>1, <1>2, StillHeld
<1> QED BY <1>1, <1>2, <1>3, OkKept DEF AcceptInv, AcceptHeld

LEMMA KernelAccepts ==
    ASSUME Smooth, TypeInv, TypeInv', Own, AcceptInv, NEW i \in Irps, Kernel(i),
           UNCHANGED serverVars
    PROVE  AcceptInv'
<1>1. /\ live' = live /\ op' = op /\ acceptsocket' = acceptsocket /\ assoc' = assoc
      /\ wpc' = wpc /\ wcell' = wcell
  BY DEF Kernel, KernelAccept, KernelRecv, KernelSend, heapVars, netVars, workVars,
         serverVars
<1>2. \A s \in Socks : sock[s] # "none" => sock'[s] # "none"
  <2>1. sock' = sock \/ sock' = [sock EXCEPT ![irp[i].sock] = "up"]
    BY DEF Kernel, KernelAccept, KernelRecv, KernelSend, netVars
  <2> QED BY <2>1 DEF TypeInv, TypeOK, PortTypeOK
<1>3. AcceptSocks' /\ AcceptsDiffer' /\ AssocOpen'
  BY <1>1, <1>2, NoNewAccept DEF Accept
<1>4. AcceptHeld'
  BY <1>1 DEF AcceptInv, AcceptHeld
<1>5. PICK ok \in BOOLEAN, n \in {0, 1} :
          Complete(i, ok, n) /\ (irp[i].kind = ACCEPT_POSTED => ok)
  <2>1. CASE KernelAccept(i)
    BY <2>1 DEF KernelAccept, Smooth
  <2>2. CASE KernelRecv(i)
    BY <2>2 DEF KernelRecv, ACCEPT_POSTED, RECV_POSTED
  <2>3. CASE KernelSend(i)
    BY <2>3 DEF KernelSend, ACCEPT_POSTED, SEND_POSTED
  <2> QED BY <2>1, <2>2, <2>3 DEF Kernel
<1>6. AcceptOk'
  <2> DEFINE p == [cell |-> irp[i].cell, key |-> irp[i].key,
                   kind |-> irp[i].kind, ok |-> ok, n |-> n]
  <2>1. port' = Append(port, p) /\ port \in Seq(Packet)
    BY <1>5 DEF Complete, TypeInv, TypeOK, PortTypeOK
  <2>2. p.kind = ACCEPT_POSTED => p.ok
    BY <1>5
  <2> HIDE DEF p
  <2>3. /\ Len(port) \in Nat /\ Len(port') = Len(port) + 1
        /\ \A m \in 1..Len(port) : port'[m] = port[m]
        /\ port'[Len(port) + 1] = p
    BY <2>1
  <2> QED BY <2>2, <2>3 DEF AcceptInv, AcceptOk
<1> QED BY <1>3, <1>4, <1>6 DEF AcceptInv

(* A step of handler w on its own object, or on a new one for a receive.   *)
LEMMA HandlerAccept ==
    ASSUME TypeInv, Own, AcceptInv, NEW w \in Workers, NEW l, Goto(w, l),
           l \notin {"accept", "unlisten"},
           port' = port, assoc' = assoc, sock' = sock, wcell' = wcell,
           \A c \in Cells : Accept(c)' => Accept(c) /\ acceptsocket'[c] = acceptsocket[c],
           \A c \in live : c # wcell[w] \/ ~Holding(w) => op'[c] = op[c],
           wpc[w] = "unlisten" => wcell[w] \notin live'
    PROVE  AcceptInv'
<1>1. wpc'[w] = l /\ \A x \in Workers \ {w} : wpc'[x] = wpc[x]
  BY DEF Goto, TypeInv, TypeOK, ServerTypeOK
<1>2. \A x \in Workers : wpc[x] = "unlisten" =>
          \/ wpc'[x] = "unlisten" /\ wcell'[x] = wcell[x]
          \/ \A c \in Cells : c = wcell[x] => ~Accept(c)'
  BY <1>1 DEF Accept
<1>3. AcceptSocks' /\ AcceptsDiffer' /\ AssocOpen'
  BY <1>2, NoNewAccept
<1>4. ASSUME NEW x \in Workers, wpc'[x] \in {"accept", "unlisten"}
      PROVE  op'[wcell'[x]] = ACCEPT_POSTED
  <2>1. x # w /\ wpc'[x] = wpc[x] /\ Holding(x)
    BY <1>1, <1>4 DEF Holding
  <2>2. Holding(w) => wcell[x] # wcell[w]
    BY <2>1 DEF Own, Exclusive
  <2> QED BY <1>4, <2>1, <2>2, StillHeld
<1> QED BY <1>3, <1>4, OkKept DEF AcceptInv, AcceptHeld

(* A receive on a new object changes no other.                             *)
LEMMA NewRecvHeap ==
    ASSUME TypeInv, NEW s, PostNewRecv(s)
    PROVE  /\ \A c \in live : /\ c \in live' /\ op'[c] = op[c]
                              /\ acceptsocket'[c] = acceptsocket[c]
           /\ \A c \in live' : c \in live \/ op'[c] = RECV_POSTED
<1>1. PICK c \in Fresh : /\ New(c)
                         /\ acceptsocket' = [acceptsocket EXCEPT ![c] = NoSock]
                         /\ PostRecv(s, c, "own")
  BY DEF PostNewRecv
<1>2. c \in Cells /\ c \notin live
  BY DEF Fresh
<1> QED BY <1>1, <1>2 DEF New, GetNewIOData, PostRecv, TypeInv, TypeOK, HeapTypeOK

LEMMA DoAcceptExAccept ==
    ASSUME Smooth, TypeInv, Own, AcceptInv, NEW w \in Workers, DoAcceptEx(w)
    PROVE  AcceptInv'
<1> DEFINE s == acceptsocket[wcell[w]]
<1>1. wpc[w] = "accept" /\ wcell[w] \in live /\ Holding(w) /\ wcell[w] \in Cells
  BY HeldLive DEF DoAcceptEx, Holding, TypeInv, TypeOK, ServerTypeOK
<1>2. s \in Socks \ assoc
  BY <1>1, FreshSocket
<1>3. /\ assoc' = assoc \cup {s} /\ PostNewRecv(s) /\ Goto(w, "unlisten")
      /\ port' = port /\ sock' = sock /\ wcell' = wcell
  BY <1>1, <1>2, HeapAssumption DEF DoAcceptEx, Smooth
<1>4. wpc'[w] = "unlisten" /\ \A x \in Workers \ {w} : wpc'[x] = wpc[x]
  BY <1>3 DEF Goto, TypeInv, TypeOK, ServerTypeOK
<1>5. /\ \A c \in live : /\ c \in live' /\ op'[c] = op[c]
                         /\ acceptsocket'[c] = acceptsocket[c]
      /\ \A c \in Cells : Accept(c)' => Accept(c)
  BY <1>3, NewRecvHeap DEF Accept, ACCEPT_POSTED, RECV_POSTED
<1>6. /\ Accept(wcell[w]) /\ sock[s] # "none"
  BY <1>1 DEF AcceptInv, AcceptHeld, AcceptSocks, Accept
<1>7. ASSUME NEW c \in Cells, Accept(c)'
      PROVE  /\ acceptsocket'[c] \in Socks
             /\ sock'[acceptsocket'[c]] # "none"
             /\ acceptsocket'[c] \in assoc' => Unlisted(c)'
  <2>1. Accept(c) /\ acceptsocket'[c] = acceptsocket[c]
    BY <1>5, <1>7 DEF Accept
  <2>2. /\ acceptsocket[c] \in Socks
        /\ sock[acceptsocket[c]] # "none"
        /\ acceptsocket[c] \in assoc => Unlisted(c)
    BY <2>1 DEF AcceptInv, AcceptSocks
  <2>3. Unlisted(c) => Unlisted(c)'
    BY <1>1, <1>3, <1>4 DEF Unlisted
  <2>4. acceptsocket[c] = s => c = wcell[w]
    BY <1>1, <1>6, <2>1 DEF AcceptInv, AcceptsDiffer
  <2>5. Unlisted(wcell[w])'
    BY <1>3, <1>4 DEF Unlisted
  <2>6. acceptsocket[c] = s => Unlisted(c)'
    BY <1>3, <1>4, <2>4 DEF Unlisted
  <2> QED BY <1>3, <2>1, <2>2, <2>3, <2>6
<1>8. AcceptSocks'
  BY <1>7 DEF AcceptSocks
<1>9. AcceptsDiffer'
  BY <1>5 DEF AcceptInv, AcceptsDiffer, Accept
<1>10. AssocOpen'
  BY <1>3, <1>6 DEF AcceptInv, AssocOpen
<1>11. ASSUME NEW x \in Workers, wpc'[x] \in {"accept", "unlisten"}
       PROVE  op'[wcell'[x]] = ACCEPT_POSTED
  <2>1. CASE x = w
    BY <1>1, <1>3, <1>5, <1>6, <2>1 DEF Accept
  <2>2. CASE x # w
    BY <1>3, <1>4, <1>5, <1>11, <2>2, StillHeld
  <2> QED BY <2>1, <2>2
<1> QED BY <1>3, <1>8, <1>9, <1>10, <1>11, OkKept DEF AcceptInv, AcceptHeld

LEMMA DeleteAccept ==
    ASSUME TypeInv, Own, AcceptInv, NEW w \in Workers, Holding(w),
           NEW l \in {"repost", "rearm"}, Delete(w, l)
    PROVE  AcceptInv'
<1>1. /\ live' = live \ {wcell[w]} /\ op' = op /\ acceptsocket' = acceptsocket
      /\ Goto(w, l) /\ port' = port /\ assoc' = assoc /\ sock' = sock /\ wcell' = wcell
  BY HeldLive DEF Delete, RemoveIOData, portVars, netVars
<1> QED BY <1>1, HandlerAccept DEF Accept

LEMMA RepostAcceptAccept ==
    ASSUME Smooth, TypeInv, Own, AcceptInv, NEW w \in Workers, RepostAccept(w)
    PROVE  AcceptInv'
<1>1. /\ wpc[w] = "repost" /\ PostNewAccept /\ Goto(w, "wait")
      /\ assoc' = assoc /\ port' = port /\ wcell' = wcell
  BY DEF RepostAccept
<1>2. wpc'[w] = "wait" /\ \A x \in Workers \ {w} : wpc'[x] = wpc[x]
  BY <1>1 DEF Goto, TypeInv, TypeOK, ServerTypeOK
<1>3. /\ AcceptSocks' /\ AcceptsDiffer' /\ AssocOpen'
      /\ \A c \in live : op'[c] = op[c]
  BY <1>1, <1>2, NewAccept DEF Smooth
<1>4. \A x \in Workers : wpc'[x] \in {"accept", "unlisten"} =>
                             op'[wcell'[x]] = ACCEPT_POSTED
  BY <1>1, <1>2, <1>3, StillHeld
<1> QED BY <1>1, <1>3, <1>4, OkKept DEF AcceptInv, AcceptHeld

LEMMA ReceivingAccept ==
    ASSUME TypeInv, Own, AcceptInv, NEW w \in Workers, Receiving(w)
    PROVE  AcceptInv'
<1>1. wcell[w] \in Cells /\ op \in [Cells -> OpTypes] /\ live \subseteq Cells
  BY DEF TypeInv, TypeOK, ServerTypeOK, HeapTypeOK
<1>2. CASE DoRecv(w)
  <2>1. /\ Holding(w) /\ wpc[w] = "recv"
        /\ Incomplete(w) \/ PrepareSend(w) \/ Refuse(w)
        /\ live' = live /\ acceptsocket' = acceptsocket
        /\ port' = port /\ assoc' = assoc /\ sock' = sock /\ wcell' = wcell
    BY <1>2, HeldLive DEF DoRecv, Holding, netVars
  <2>2. PICK l \in {"rearm", "send", "wait"} : Goto(w, l)
    BY <2>1 DEF Incomplete, PrepareSend, Refuse
  <2>3. op' = op \/ \E t \in {RECV_POSTED, SEND_POSTED} : op' = [op EXCEPT ![wcell[w]] = t]
    BY <2>1 DEF Incomplete, PrepareSend, Refuse, PostRecv
  <2>4. \A c \in Cells : Accept(c)' => Accept(c)
    BY <1>1, <2>1, <2>3 DEF Accept, ACCEPT_POSTED, RECV_POSTED, SEND_POSTED
  <2>5. \A c \in live : c # wcell[w] => op'[c] = op[c]
    BY <1>1, <2>3
  <2> QED BY <2>1, <2>2, <2>4, <2>5, HandlerAccept
<1>3. CASE PostSend(w)
  <2>1. /\ wpc[w] = "send" /\ live' = live /\ op' = op /\ acceptsocket' = acceptsocket
        /\ port' = port /\ assoc' = assoc /\ sock' = sock /\ wcell' = wcell
        /\ \E l \in {"remove", "rearm"} : Goto(w, l)
    BY <1>3 DEF PostSend, heapVars
  <2> QED BY <2>1, HandlerAccept DEF Accept
<1>4. CASE RemoveSent(w)
  BY <1>4, DeleteAccept DEF RemoveSent, Holding
<1>5. CASE Rearm(w)
  <2>1. /\ wpc[w] = "rearm" /\ PostNewRecv(wkey[w]) /\ Goto(w, "wait")
        /\ port' = port /\ assoc' = assoc /\ sock' = sock /\ wcell' = wcell
    BY <1>5 DEF Rearm, netVars
  <2>2. /\ \A c \in live : op'[c] = op[c]
        /\ \A c \in Cells : Accept(c)' => Accept(c) /\ acceptsocket'[c] = acceptsocket[c]
    BY <2>1, NewRecvHeap DEF Accept, ACCEPT_POSTED, RECV_POSTED
  <2> QED BY <2>1, <2>2, HandlerAccept
<1> QED BY <1>2, <1>3, <1>4, <1>5 DEF Receiving

LEMMA ClientAccepts ==
    ASSUME TypeInv, AcceptInv, Client, UNCHANGED serverVars
    PROVE  AcceptInv'
<1>1. /\ live' = live /\ op' = op /\ acceptsocket' = acceptsocket /\ assoc' = assoc
      /\ port' = port /\ wpc' = wpc /\ wcell' = wcell
  BY DEF Client, ClientConnect, ClientSend, ClientClose, heapVars, portVars, workVars,
         serverVars
<1>2. \A s \in Socks : sock[s] # "none" => sock'[s] # "none"
  BY DEF Client, ClientConnect, ClientSend, ClientClose, TypeInv, TypeOK, PortTypeOK
<1>3. AcceptSocks' /\ AcceptsDiffer' /\ AssocOpen'
  BY <1>1, <1>2, NoNewAccept DEF Accept
<1> QED BY <1>1, <1>3 DEF AcceptInv, AcceptHeld, AcceptOk

LEMMA SameAccept == ASSUME AcceptInv, UNCHANGED vars PROVE AcceptInv'
BY DEF vars, heapVars, portVars, netVars, workVars, serverVars, AcceptInv, AcceptSocks,
       AcceptsDiffer, AcceptHeld, AcceptOk, AssocOpen, Accept, Unlisted

LEMMA InitAccept == Init => AcceptInv
BY DEF Init, HeapInit, PortInit, ServerInit, AcceptInv, AcceptSocks, AcceptsDiffer,
       AcceptHeld, AcceptOk, AssocOpen, Accept

LEMMA NextAccept ==
    ~misread' /\ Smooth /\ TypeInv /\ Own /\ AcceptInv /\ [Next]_vars => AcceptInv'
<1> SUFFICES ASSUME ~misread', Smooth, TypeInv, Own, AcceptInv, [Next]_vars
             PROVE  AcceptInv'
  OBVIOUS
<1>1. TypeInv'
  BY NextType
<1>2. ASSUME NEW w \in Workers, Worker(w) PROVE AcceptInv'
  <2>1. CASE RemoveListen(w)
    BY <2>1, DeleteAccept DEF RemoveListen, Holding
  <2> QED BY <1>1, <1>2, <2>1, WorkerThreadAccept, DoAcceptExAccept, RepostAcceptAccept,
             ReceivingAccept DEF Worker, Accepting
<1>3. CASE StartPost
  BY <1>3, StartPostAccept
<1>4. ASSUME NEW i \in Irps, Kernel(i), UNCHANGED serverVars
      PROVE  AcceptInv'
  BY <1>1, <1>4, KernelAccepts
<1>5. CASE Client /\ UNCHANGED serverVars
  BY <1>5, ClientAccepts
<1>6. CASE UNCHANGED vars
  BY <1>6, SameAccept
<1> QED BY <1>2, <1>3, <1>4, <1>5, <1>6 DEF Next, Quiet

(* When no call fails and no connection is reset while it is accepted, the *)
(* server keeps exactly MAX_POST_ACCEPT accepts going until a packet is    *)
(* misread, whatever the order in which Start, the workers and the kernel  *)
(* take their turns.                                                       *)
THEOREM AcceptsKept == Finite /\ Smooth => (Spec => []AcceptPool)
<1> SUFFICES ASSUME Finite, Smooth PROVE Spec => []AcceptPool
  OBVIOUS
<1> DEFINE Inv == /\ TypeInv
                  /\ misread \/ (Own /\ AcceptInv /\ AcceptTurns = MaxPostAccept)
<1>1. Init => Inv
  BY InitType, InitOwn, InitAccept, InitTurns
<1>2. Inv /\ [Next]_vars => Inv'
  <2> SUFFICES ASSUME Inv, [Next]_vars, ~misread'
               PROVE  (Own /\ AcceptInv /\ AcceptTurns = MaxPostAccept)'
    BY NextType
  <2>1. Own /\ AcceptInv /\ AcceptTurns = MaxPostAccept
    BY MisreadStays
  <2> QED BY <2>1, NextOwn, NextKept, NextAccept DEF Kept
<1>3. Inv => AcceptPool
  BY DEF AcceptPool
<1> QED BY <1>1, <1>2, <1>3, PTL DEF Spec
-----------------------------------------------------------------------------
(* The receive loops.  In a plain run no call fails, no connection is      *)
(* reset and every message arrives whole and with a GET; clients may       *)
(* pipeline, ask for an activation, and close.                             *)
Plain == Smooth /\ "split" \notin Env /\ "raw" \notin Env

Open == {"up", "fin"}
Full(b) == CheckRecvBufEnd(b) /\ HasGet(b)
Arrived(p) == p.ok /\ p.n > 0

(* An accept under way has a socket nobody uses yet; a receive is on an    *)
(* empty buffer and for the connection that is its key.                    *)
PendingOps ==
    \A i \in Irps : Busy(i) =>
        /\ irp[i].kind = ACCEPT_POSTED =>
               acceptsocket[irp[i].cell] = irp[i].sock /\ sock[irp[i].sock] = "fresh"
        /\ irp[i].kind = RECV_POSTED =>
               /\ irp[i].key = irp[i].sock /\ irp[i].sock \in assoc
               /\ ~irp[i].wild /\ buf[irp[i].cell] = <<>>

(* The packet of a receive brings a request, or the end of a closed        *)
(* connection.                                                             *)
QueuedPackets ==
    \A n \in 1..Len(port) :
        /\ port[n].kind = ACCEPT_POSTED => sock[acceptsocket[port[n].cell]] \in Open
        /\ port[n].kind = RECV_POSTED =>
               /\ port[n].key \in assoc
               /\ IF Arrived(port[n]) THEN Full(buf[port[n].cell])
                                      ELSE sock[port[n].key] = "fin"

Handler(w) ==
    /\ wpc[w] = "accept" => sock[acceptsocket[wcell[w]]] \in Open
    /\ wpc[w] = "recv" => Full(buf[wcell[w]])
    /\ wpc[w] \in RecvPCs => wkey[w] \in assoc

FullWires == \A s \in Socks : wire[s] = <<>> \/ Full(wire[s])
AssocOpened == \A s \in assoc : sock[s] \in Open

RecvInv ==
    /\ PendingOps /\ QueuedPackets /\ (\A w \in Workers : Handler(w))
    /\ FullWires /\ AssocOpened

(* The receive loop starts with the association and ends with the          *)
(* connection.                                                             *)
Turns ==
    \A s \in Socks : IF s \in assoc THEN sock[s] = "up" => RecvTurns(s) = 1
                                    ELSE RecvTurns(s) = 0

RecvOps(s) == {o \in Operation : o.kind = RECV_POSTED /\ o.sock = s}
RecvPks(s) == {p \in Packet : p.kind = RECV_POSTED /\ p.key = s}
RecvWks(s) == RecvPCs \X {s}

LEMMA RecvSum ==
    ASSUME TypeInv, NEW s
    PROVE  RecvTurns(s) = Ops(RecvOps(s)) + Pks(RecvPks(s)) + Wks(RecvWks(s))
<1>1. {i \in Irps : Busy(i) /\ irp[i].kind = RECV_POSTED /\ irp[i].sock = s} =
          Placed(irp, Irps, RecvOps(s))
  BY IdleAssumption DEF TypeInv, TypeOK, PortTypeOK, Placed, RecvOps, Busy
<1>2. \A n \in DOMAIN port : port[n] \in Packet
  BY DEF TypeInv, TypeOK, PortTypeOK
<1>3. {n \in DOMAIN port : port[n].kind = RECV_POSTED /\ port[n].key = s} =
          Marked(port, RecvPks(s))
  BY <1>2 DEF Marked, RecvPks
<1>4. {w \in Workers : wpc[w] \in RecvPCs /\ wkey[w] = s} =
          Placed(At, Workers, RecvWks(s))
  BY DEF Placed, At, RecvWks
<1> QED BY <1>1, <1>3, <1>4 DEF RecvTurns, Ops, Pks, Wks

LEMMA RecvSumPrime ==
    ASSUME NEW s
    PROVE  TypeInv' => RecvTurns(s)' = Ops(RecvOps(s))' + Pks(RecvPks(s))'
                                                        + Wks(RecvWks(s))'
<1>1. TypeInv => RecvTurns(s) = Ops(RecvOps(s)) + Pks(RecvPks(s)) + Wks(RecvWks(s))
  BY RecvSum
<1>2. (TypeInv => RecvTurns(s) = Ops(RecvOps(s)) + Pks(RecvPks(s))
                                                 + Wks(RecvWks(s)))'
  BY <1>1, PTL
<1> QED BY <1>2

(* The change of the turns in a step.                                      *)
LEMMA RecvSumNext ==
    ASSUME Finite, TypeInv, TypeInv', NEW s, NEW change \in Int,
           Ops(RecvOps(s))' + Pks(RecvPks(s))' + Wks(RecvWks(s))'
             = Ops(RecvOps(s)) + Pks(RecvPks(s)) + Wks(RecvWks(s)) + change
    PROVE  RecvTurns(s) \in Int /\ RecvTurns(s)' = RecvTurns(s) + change
<1>1. RecvTurns(s) = Ops(RecvOps(s)) + Pks(RecvPks(s)) + Wks(RecvWks(s))
  BY RecvSum
<1>2. RecvTurns(s)' = Ops(RecvOps(s))' + Pks(RecvPks(s))' + Wks(RecvWks(s))'
  BY RecvSumPrime
<1>3. Ops(RecvOps(s)) \in Nat /\ Pks(RecvPks(s)) \in Nat /\ Wks(RecvWks(s)) \in Nat
  BY CountsAreNumbers DEF TypeInv, TypeOK
<1> QED BY <1>1, <1>2, <1>3

LEMMA RecvMove ==
    ASSUME Finite, NEW s, NEW w \in Workers,
           \A x \in Workers \ {w} : wpc'[x] = wpc[x] /\ wkey'[x] = wkey[x]
    PROVE  Wks(RecvWks(s))' = Wks(RecvWks(s))
                              + One(wpc'[w] \in RecvPCs /\ wkey'[w] = s)
                              - One(wpc[w] \in RecvPCs /\ wkey[w] = s)
<1>1. /\ <<wpc'[w], wkey'[w]>> \in RecvWks(s) <=> wpc'[w] \in RecvPCs /\ wkey'[w] = s
      /\ <<wpc[w], wkey[w]>> \in RecvWks(s) <=> wpc[w] \in RecvPCs /\ wkey[w] = s
  BY DEF RecvWks
<1>2. /\ One(<<wpc'[w], wkey'[w]>> \in RecvWks(s)) =
             One(wpc'[w] \in RecvPCs /\ wkey'[w] = s)
      /\ One(<<wpc[w], wkey[w]>> \in RecvWks(s)) =
             One(wpc[w] \in RecvPCs /\ wkey[w] = s)
  BY <1>1 DEF One
<1> QED BY <1>2, MoveCount

LEMMA NoRecvPosted ==
    ASSUME Finite, PortTypeOK, NEW s,
           irp' = irp \/ \E c, k, r, d : \E t \in {ACCEPT_POSTED, SEND_POSTED} :
                            Overlapped(c, k, t, r, d)
    PROVE  Ops(RecvOps(s))' = Ops(RecvOps(s))
<1>1. Idle \notin RecvOps(s) /\ Ops(RecvOps(s)) \in Nat
  BY IdleAssumption, CountsAreNumbers DEF RecvOps
<1>2. CASE irp' = irp
  BY <1>2 DEF Ops
<1>3. ASSUME NEW c, NEW k, NEW r, NEW d, NEW t \in {ACCEPT_POSTED, SEND_POSTED},
             Overlapped(c, k, t, r, d)
      PROVE  Ops(RecvOps(s))' = Ops(RecvOps(s))
  <2> DEFINE o == [cell |-> c, key |-> k, kind |-> t, sock |-> r, wild |-> d]
  <2>1. o \notin RecvOps(s)
    BY DEF RecvOps, ACCEPT_POSTED, RECV_POSTED, SEND_POSTED
  <2>2. Ops(RecvOps(s))' = Ops(RecvOps(s)) + One(o \in RecvOps(s))
    BY <1>1, <1>3, PostCount
  <2> QED BY <1>1, <2>1, <2>2 DEF One
<1> QED BY <1>2, <1>3

(* A receive is posted on a new, empty buffer.                             *)
LEMMA NewRecvPending ==
    ASSUME Faults = {}, TypeInv, NEW r, sock[r] \in Open, PostNewRecv(r)
    PROVE  \E c \in Cells : Overlapped(c, r, RECV_POSTED, r, FALSE) /\ buf'[c] = <<>>
<1>1. PICK c \in Fresh : New(c) /\ PostRecv(r, c, "own")
  BY DEF PostNewRecv
<1>2. c \in Cells /\ buf'[c] = <<>>
  BY <1>1 DEF Fresh, New, GetNewIOData, TypeInv, TypeOK, HeapTypeOK
<1>3. Overlapped(c, r, RECV_POSTED, r, "own" = "wild")
  BY <1>1 DEF PostRecv, Open
<1>4. Overlapped(c, r, RECV_POSTED, r, FALSE)
  <2>1. ("own" = "wild") = FALSE
    OBVIOUS
  <2> QED BY <1>3, <2>1
<1> QED BY <1>2, <1>4

LEMMA NewRecvPosted ==
    ASSUME Finite, Faults = {}, TypeInv, NEW r \in Socks, sock[r] \in Open,
           PostNewRecv(r), NEW s
    PROVE  Ops(RecvOps(s))' = Ops(RecvOps(s)) + One(s = r)
<1>1. PICK c \in Cells : Overlapped(c, r, RECV_POSTED, r, FALSE)
  BY NewRecvPending
<1> DEFINE o == [cell |-> c, key |-> r, kind |-> RECV_POSTED, sock |-> r,
                 wild |-> FALSE]
<1>2. o \in RecvOps(s) <=> s = r
  BY DEF RecvOps, Operation, Keys, OpTypes
<1>3. One(o \in RecvOps(s)) = One(s = r)
  BY <1>2 DEF One
<1>4. Idle \notin RecvOps(s)
  BY IdleAssumption DEF RecvOps
<1>5. Ops(RecvOps(s))' = Ops(RecvOps(s)) + One(o \in RecvOps(s))
  BY <1>1, <1>4, PostCount DEF TypeInv, TypeOK
<1> QED BY <1>3, <1>5

(* The turns stay as they are.                                             *)
LEMMA TurnsStay ==
    ASSUME Turns, assoc' = assoc,
           \A s \in Socks : RecvTurns(s)' = RecvTurns(s),
           \A s \in Socks : s \in assoc /\ sock'[s] = "up" => sock[s] = "up"
    PROVE  Turns'
BY DEF Turns

(* A step of handler w that posts no receive and stays in the receive path *)
(* or outside of it.                                                       *)
LEMMA HandlerTurns ==
    ASSUME Finite, TypeInv, TypeInv', Turns, NEW w \in Workers, NEW l, Goto(w, l),
           wpc[w] \in RecvPCs <=> l \in RecvPCs,
           wkey' = wkey, port' = port, assoc' = assoc,
           \A s \in Socks : s \in assoc /\ sock'[s] = "up" => sock[s] = "up",
           irp' = irp \/ \E c, k, r, d : \E t \in {ACCEPT_POSTED, SEND_POSTED} :
                            Overlapped(c, k, t, r, d)
    PROVE  Turns'
<1>1. wpc'[w] = l /\ \A x \in Workers \ {w} : wpc'[x] = wpc[x]
  BY DEF Goto, TypeInv, TypeOK, ServerTypeOK
<1>2. ASSUME NEW s \in Socks PROVE RecvTurns(s)' = RecvTurns(s)
  <2>1. /\ Ops(RecvOps(s)) \in Nat /\ Pks(RecvPks(s)) \in Nat
        /\ Wks(RecvWks(s)) \in Nat
    BY CountsAreNumbers DEF TypeInv, TypeOK
  <2>2. Wks(RecvWks(s))' = Wks(RecvWks(s))
                           + One(wpc'[w] \in RecvPCs /\ wkey'[w] = s)
                           - One(wpc[w] \in RecvPCs /\ wkey[w] = s)
    BY <1>1, RecvMove
  <2>3. Wks(RecvWks(s))' = Wks(RecvWks(s))
    BY <1>1, <2>1, <2>2 DEF One
  <2>4. Ops(RecvOps(s))' = Ops(RecvOps(s)) /\ Pks(RecvPks(s))' = Pks(RecvPks(s))
    BY NoRecvPosted, SameCounts DEF TypeInv, TypeOK
  <2>5. Ops(RecvOps(s))' + Pks(RecvPks(s))' + Wks(RecvWks(s))'
          = Ops(RecvOps(s)) + Pks(RecvPks(s)) + Wks(RecvWks(s)) + 0
    BY <2>1, <2>3, <2>4
  <2>6. RecvTurns(s) \in Int /\ RecvTurns(s)' = RecvTurns(s) + 0
    BY <2>5, RecvSumNext
  <2> QED BY <2>6
<1> QED BY <1>2, TurnsStay

(* A step that changes no turn at all.                                     *)
LEMMA SameTurns ==
    ASSUME Finite, TypeInv, TypeInv', Turns, assoc' = assoc,
           UNCHANGED <<port, workVars>>,
           irp' = irp \/ \E c, k, r, d : Overlapped(c, k, ACCEPT_POSTED, r, d),
           \A s \in Socks : s \in assoc /\ sock'[s] = "up" => sock[s] = "up"
    PROVE  Turns'
<1>1. ASSUME NEW s \in Socks PROVE RecvTurns(s)' = RecvTurns(s)
  <2>1. /\ Ops(RecvOps(s)) \in Nat /\ Pks(RecvPks(s)) \in Nat
        /\ Wks(RecvWks(s)) \in Nat
    BY CountsAreNumbers DEF TypeInv, TypeOK
  <2>2. /\ Ops(RecvOps(s))' = Ops(RecvOps(s)) /\ Pks(RecvPks(s))' = Pks(RecvPks(s))
        /\ Wks(RecvWks(s))' = Wks(RecvWks(s))
    BY NoRecvPosted, SameCounts DEF workVars, TypeInv, TypeOK
  <2>3. Ops(RecvOps(s))' + Pks(RecvPks(s))' + Wks(RecvWks(s))'
          = Ops(RecvOps(s)) + Pks(RecvPks(s)) + Wks(RecvWks(s)) + 0
    BY <2>1, <2>2
  <2>4. RecvTurns(s) \in Int /\ RecvTurns(s)' = RecvTurns(s) + 0
    BY <2>3, RecvSumNext
  <2> QED BY <2>4
<1> QED BY <1>1, TurnsStay

(* The association begins the loop of the accepted connection.             *)
LEMMA DoAcceptExTurns ==
    ASSUME Finite, Smooth, TypeInv, TypeInv', Own, AcceptInv, RecvInv, Turns,
           NEW w \in Workers, DoAcceptEx(w)
    PROVE  Turns'
<1> DEFINE r == acceptsocket[wcell[w]]
<1>1. wpc[w] = "accept" /\ wcell[w] \in live /\ r \in Socks \ assoc
  BY HeldLive, FreshSocket DEF DoAcceptEx, Holding
<1>2. /\ assoc' = assoc \cup {r} /\ PostNewRecv(r) /\ Goto(w, "unlisten")
      /\ port' = port /\ sock' = sock /\ wkey' = wkey
  BY <1>1, HeapAssumption DEF DoAcceptEx, Smooth
<1>3. sock[r] \in Open
  BY <1>1 DEF RecvInv, Handler
<1> HIDE DEF r
<1>4. \A s : Ops(RecvOps(s))' = Ops(RecvOps(s)) + One(s = r)
  BY <1>1, <1>2, <1>3, NewRecvPosted DEF Smooth
<1>5. wpc'[w] = "unlisten" /\ \A x \in Workers \ {w} : wpc'[x] = wpc[x]
  BY <1>2 DEF Goto, TypeInv, TypeOK, ServerTypeOK
<1>6. ASSUME NEW s \in Socks
      PROVE  RecvTurns(s) \in Int /\ RecvTurns(s)' = RecvTurns(s) + One(s = r)
  <2>1. /\ Ops(RecvOps(s)) \in Nat /\ Pks(RecvPks(s)) \in Nat
        /\ Wks(RecvWks(s)) \in Nat /\ One(s = r) \in Int
    BY CountsAreNumbers DEF TypeInv, TypeOK, One
  <2>2. Wks(RecvWks(s))' = Wks(RecvWks(s))
                           + One(wpc'[w] \in RecvPCs /\ wkey'[w] = s)
                           - One(wpc[w] \in RecvPCs /\ wkey[w] = s)
    BY <1>2, <1>5, RecvMove
  <2>3. Wks(RecvWks(s))' = Wks(RecvWks(s))
    BY <1>1, <1>5, <2>1, <2>2 DEF One, RecvPCs
  <2>4. Pks(RecvPks(s))' = Pks(RecvPks(s))
    BY <1>2, SameCounts
  <2>5. Ops(RecvOps(s))' + Pks(RecvPks(s))' + Wks(RecvWks(s))'
          = Ops(RecvOps(s)) + Pks(RecvPks(s)) + Wks(RecvWks(s)) + One(s = r)
    BY <1>4, <2>1, <2>3, <2>4
  <2> QED BY <2>1, <2>5, RecvSumNext
<1> QED BY <1>1, <1>2, <1>6 DEF Turns, One

(* DoRecv ends with the next receive.                                      *)
LEMMA RearmTurns ==
    ASSUME Finite, Smooth, TypeInv, TypeInv', RecvInv, Turns,
           NEW w \in Workers, Rearm(w)
    PROVE  Turns'
<1> DEFINE r == wkey[w]
<1>1. /\ wpc[w] = "rearm" /\ PostNewRecv(r) /\ Goto(w, "wait") /\ wkey' = wkey
      /\ port' = port /\ assoc' = assoc /\ sock' = sock
  BY DEF Rearm, netVars
<1>2. r \in Socks /\ sock[r] \in Open
  BY <1>1 DEF RecvInv, Handler, AssocOpened, RecvPCs, TypeInv, TypeOK, PortTypeOK
<1>3. wpc'[w] = "wait" /\ \A x \in Workers \ {w} : wpc'[x] = wpc[x]
  BY <1>1 DEF Goto, TypeInv, TypeOK, ServerTypeOK
<1>4. \A s : Ops(RecvOps(s))' = Ops(RecvOps(s)) + One(s = r)
  BY <1>1, <1>2, NewRecvPosted DEF Smooth
<1>5. ASSUME NEW s \in Socks PROVE RecvTurns(s)' = RecvTurns(s)
  <2>1. /\ Ops(RecvOps(s)) \in Nat /\ Pks(RecvPks(s)) \in Nat
        /\ Wks(RecvWks(s)) \in Nat /\ One(s = r) \in Int
    BY CountsAreNumbers DEF TypeInv, TypeOK, One
  <2>2. Wks(RecvWks(s))' = Wks(RecvWks(s))
                           + One(wpc'[w] \in RecvPCs /\ wkey'[w] = s)
                           - One(wpc[w] \in RecvPCs /\ wkey[w] = s)
    BY <1>1, <1>3, RecvMove
  <2>3. Wks(RecvWks(s))' = Wks(RecvWks(s)) - One(s = r)
    BY <1>1, <1>3, <2>1, <2>2 DEF One, RecvPCs
  <2>4. Pks(RecvPks(s))' = Pks(RecvPks(s))
    BY <1>1, SameCounts
  <2>5. Ops(RecvOps(s))' + Pks(RecvPks(s))' + Wks(RecvWks(s))'
          = Ops(RecvOps(s)) + Pks(RecvPks(s)) + Wks(RecvWks(s)) + 0
    BY <1>4, <2>1, <2>3, <2>4
  <2>6. RecvTurns(s) \in Int /\ RecvTurns(s)' = RecvTurns(s) + 0
    BY <2>5, RecvSumNext
  <2> QED BY <2>6
<1> QED BY <1>1, <1>5, TurnsStay

(* A packet of a receive begins a handler, or the connection is closed.    *)
LEMMA WorkerThreadTurns ==
    ASSUME Finite, TypeInv, TypeInv', Own, RecvInv, Turns,
           NEW w \in Workers, WorkerThread(w),
           ~misread'
    PROVE  Turns'
<1> DEFINE p == Head(port)
           taken(s) == One(p \in RecvPks(s))
           begun(s) == One(wpc'[w] \in RecvPCs /\ wkey'[w] = s)
<1>1. /\ port # <<>> /\ port' = Tail(port) /\ irp' = irp
      /\ assoc' = assoc /\ sock' = sock
  BY DEF WorkerThread, netVars
<1>2. p \in Packet /\ 1 \in 1..Len(port) /\ p = port[1]
  BY <1>1, Dispatch, HeadTailProperties, LenProperties, EmptySeq
  DEF TypeInv, TypeOK, PortTypeOK
<1>3. ASSUME NEW s \in Socks
      PROVE  /\ RecvTurns(s) \in Int /\ taken(s) \in Int /\ begun(s) \in Int
             /\ RecvTurns(s)' = RecvTurns(s) + (begun(s) - taken(s))
  <2>1. /\ Ops(RecvOps(s)) \in Nat /\ Pks(RecvPks(s)) \in Nat
        /\ Wks(RecvWks(s)) \in Nat /\ taken(s) \in Int /\ begun(s) \in Int
    BY CountsAreNumbers DEF TypeInv, TypeOK, One
  <2>2. Ops(RecvOps(s))' = Ops(RecvOps(s))
    BY <1>1 DEF Ops
  <2>3. Pks(RecvPks(s))' = Pks(RecvPks(s)) - taken(s)
    BY <1>1, TakeCount DEF TypeInv, TypeOK
  <2>4. Wks(RecvWks(s))' = Wks(RecvWks(s)) + begun(s)
    <3>1. /\ wpc[w] \notin RecvPCs
          /\ \A x \in Workers \ {w} : wpc'[x] = wpc[x] /\ wkey'[x] = wkey[x]
      BY Dispatch DEF RecvPCs
    <3>2. One(wpc[w] \in RecvPCs /\ wkey[w] = s) = 0
      BY <3>1 DEF One
    <3>3. Wks(RecvWks(s))' = Wks(RecvWks(s)) + begun(s)
                             - One(wpc[w] \in RecvPCs /\ wkey[w] = s)
      BY <3>1, RecvMove
    <3> HIDE DEF begun
    <3> QED BY <2>1, <3>2, <3>3
  <2> HIDE DEF taken, begun
  <2>5. Ops(RecvOps(s))' + Pks(RecvPks(s))' + Wks(RecvWks(s))'
          = Ops(RecvOps(s)) + Pks(RecvPks(s)) + Wks(RecvWks(s)) + (begun(s) - taken(s))
    BY <2>1, <2>2, <2>3, <2>4
  <2> QED BY <2>1, <2>5, RecvSumNext
<1>4. ASSUME NEW s \in Socks
      PROVE  /\ taken(s) = begun(s) \/ (s \in assoc /\ sock[s] # "up")
             /\ s \notin assoc => taken(s) = begun(s)
  <2>1. wpc'[w] \in RecvPCs /\ wkey'[w] = s <=> Arrived(p) /\ p \in RecvPks(s)
    BY <1>2, Dispatch DEF RecvPCs, RecvPks, Arrived
  <2>2. p \in RecvPks(s) => s \in assoc /\ (Arrived(p) \/ sock[s] # "up")
    BY <1>2 DEF RecvInv, QueuedPackets, RecvPks
  <2> QED BY <2>1, <2>2 DEF One
<1> HIDE DEF taken, begun
<1> QED BY <1>1, <1>3, <1>4 DEF Turns

(* An operation ends: its turn is handed on to the packet.                 *)
LEMMA KernelTurns ==
    ASSUME Finite, TypeInv, TypeInv', RecvInv, Turns, NEW i \in Irps, Kernel(i),
           UNCHANGED serverVars
    PROVE  Turns'
<1> DEFINE p(ok, n) == [cell |-> irp[i].cell, key |-> irp[i].key,
                        kind |-> irp[i].kind, ok |-> ok, n |-> n]
<1>1. Busy(i) /\ irp[i] \in Operation
  BY DEF Kernel, KernelAccept, KernelRecv, KernelSend, TypeInv, TypeOK, PortTypeOK, Busy
<1>2. PICK ok \in BOOLEAN, n \in {0, 1} : Complete(i, ok, n)
  BY DEF Kernel, KernelAccept, KernelRecv, KernelSend
<1>3. assoc' = assoc
  BY DEF Kernel, KernelAccept, KernelRecv, KernelSend, netVars
<1>4. ASSUME NEW s \in Socks PROVE RecvTurns(s)' = RecvTurns(s)
  <2>1. /\ Ops(RecvOps(s)) \in Nat /\ Pks(RecvPks(s)) \in Nat
        /\ Wks(RecvWks(s)) \in Nat
    BY CountsAreNumbers DEF TypeInv, TypeOK
  <2>2. Idle \notin RecvOps(s)
    BY IdleAssumption DEF RecvOps
  <2>3. /\ Ops(RecvOps(s))' = Ops(RecvOps(s)) - One(irp[i] \in RecvOps(s))
        /\ Pks(RecvPks(s))' = Pks(RecvPks(s)) + One(p(ok, n) \in RecvPks(s))
    BY <1>1, <1>2, <2>2, CompleteCount DEF TypeInv, TypeOK
  <2>4. irp[i].kind = RECV_POSTED => irp[i].key = irp[i].sock
    BY <1>1 DEF RecvInv, PendingOps
  <2>5. irp[i] \in RecvOps(s) <=> p(ok, n) \in RecvPks(s)
    BY <1>1, <2>4 DEF RecvOps, RecvPks, Operation, Packet
  <2>6. One(irp[i] \in RecvOps(s)) = One(p(ok, n) \in RecvPks(s))
        /\ One(irp[i] \in RecvOps(s)) \in Int
    BY <2>5 DEF One
  <2>7. Wks(RecvWks(s))' = Wks(RecvWks(s))
    BY SameCounts DEF workVars, serverVars
  <2> HIDE DEF p
  <2>8. Ops(RecvOps(s))' + Pks(RecvPks(s))' + Wks(RecvWks(s))'
          = Ops(RecvOps(s)) + Pks(RecvPks(s)) + Wks(RecvWks(s)) + 0
    BY <2>1, <2>3, <2>6, <2>7
  <2>9. RecvTurns(s) \in Int /\ RecvTurns(s)' = RecvTurns(s) + 0
    BY <2>8, RecvSumNext
  <2> QED BY <2>9
<1>5. \A s \in Socks : s \in assoc /\ sock'[s] = "up" => sock[s] = "up"
  <2>1. CASE KernelAccept(i)
    <3>1. irp[i].sock \in Socks \ assoc
      BY <1>1, <2>1 DEF KernelAccept, RecvInv, PendingOps, AssocOpened, Open, Operation
    <3>2. sock' = sock \/ sock' = [sock EXCEPT ![irp[i].sock] = "up"]
      BY <2>1 DEF KernelAccept
    <3> QED BY <3>1, <3>2 DEF TypeInv, TypeOK, PortTypeOK
  <2>2. CASE KernelRecv(i) \/ KernelSend(i)
    BY <2>2 DEF KernelRecv, KernelSend, netVars
  <2> QED BY <2>1, <2>2 DEF Kernel
<1> QED BY <1>3, <1>4, <1>5, TurnsStay
-----------------------------------------------------------------------------
(* RecvInv is inductive in plain runs.                                     *)
SameCell(c) == acceptsocket'[c] = acceptsocket[c] /\ buf'[c] = buf[c]

(* A new operation is pending as PendingOps says.                          *)
PostsPending ==
    \E c \in Cells : \E k, s : \E t \in {ACCEPT_POSTED, RECV_POSTED, SEND_POSTED} :
        /\ Overlapped(c, k, t, s, FALSE)
        /\ t = ACCEPT_POSTED => acceptsocket'[c] = s /\ sock'[s] = "fresh"
        /\ t = RECV_POSTED => k = s /\ s \in assoc' /\ buf'[c] = <<>>

LEMMA AcceptSocket ==
    ASSUME Own, AcceptInv, NEW c \in Cells, KindKept(c, ACCEPT_POSTED)
    PROVE  acceptsocket[c] \in Socks
BY DEF KindKept, AcceptInv, AcceptSocks, Accept, ACCEPT_POSTED, SEND_POSTED

(* A step of the server other than WorkerThread: it changes only objects   *)
(* that nothing names, and only sockets nobody uses yet.                   *)
LEMMA ServerRecv ==
    ASSUME TypeInv, Own, AcceptInv, RecvInv,
           port' = port, wire' = wire, assoc \subseteq assoc',
           \A s \in Socks : sock[s] # "none" => sock'[s] = sock[s],
           \A s \in assoc' : s \in Socks /\ sock[s] \in Open,
           \A c \in Cells : Awaited(c) => SameCell(c),
           irp' = irp \/ PostsPending,
           \A x \in Workers :
                \/ Handler(x)'
                \/ /\ wpc'[x] = wpc[x] /\ wkey'[x] = wkey[x] /\ wcell'[x] = wcell[x]
                   /\ Holding(x) => SameCell(wcell[x])
    PROVE  RecvInv'
<1>1. /\ \A i \in Irps : Busy(i) => irp[i] \in Operation
      /\ \A i \in Irps : WaitsIrp(i) => SameCell(irp[i].cell)
      /\ \A n \in 1..Len(port) : port[n] \in Packet /\ port[n].cell \in Cells
      /\ \A n \in 1..Len(port) : WaitsPacket(n) => SameCell(port[n].cell)
  <2>1. \A i \in Irps : Busy(i) => irp[i] \in Operation
    BY DEF TypeInv, TypeOK, PortTypeOK, Busy
  <2>2. \A n \in 1..Len(port) : port[n] \in Packet
    BY ElementOfSeq DEF TypeInv, TypeOK, PortTypeOK
  <2> QED BY <2>1, <2>2, CellsNamed, AwaitedDef DEF WaitsIrp, TypeInv, TypeOK
<1>2. ASSUME NEW i \in Irps, Busy(i), irp'[i] = irp[i]
      PROVE  /\ irp'[i].kind = ACCEPT_POSTED =>
                    /\ acceptsocket'[irp'[i].cell] = irp'[i].sock
                    /\ sock'[irp'[i].sock] = "fresh"
             /\ irp'[i].kind = RECV_POSTED =>
                    /\ irp'[i].key = irp'[i].sock /\ irp'[i].sock \in assoc'
                    /\ ~irp'[i].wild /\ buf'[irp'[i].cell] = <<>>
  <2>1. /\ irp[i].sock \in Socks
        /\ irp[i].kind \in {ACCEPT_POSTED, RECV_POSTED} => SameCell(irp[i].cell)
    BY <1>1, <1>2
    DEF Operation, WaitsIrp, ACCEPT_POSTED, RECV_POSTED, SEND_POSTED
  <2> QED BY <1>2, <2>1 DEF RecvInv, PendingOps, SameCell
<1>3. PendingOps'
  <2>1. CASE irp' = irp
    BY <1>2, <2>1 DEF PendingOps, Busy
  <2>2. ASSUME NEW c \in Cells, NEW k, NEW s,
               NEW t \in {ACCEPT_POSTED, RECV_POSTED, SEND_POSTED},
               Overlapped(c, k, t, s, FALSE),
               t = ACCEPT_POSTED => acceptsocket'[c] = s /\ sock'[s] = "fresh",
               t = RECV_POSTED => k = s /\ s \in assoc' /\ buf'[c] = <<>>
        PROVE  PendingOps'
    <3> DEFINE o == [cell |-> c, key |-> k, kind |-> t, sock |-> s, wild |-> FALSE]
    <3>1. PICK i \in Irps : ~Busy(i) /\ irp' = [irp EXCEPT ![i] = o]
      BY <2>2 DEF Overlapped
    <3>2. irp'[i] = o /\ \A j \in Irps \ {i} : irp'[j] = irp[j]
      BY <3>1 DEF TypeInv, TypeOK, PortTypeOK
    <3>3. \A j \in Irps \ {i} : irp'[j] # Idle =>
              /\ irp'[j].kind = ACCEPT_POSTED =>
                     /\ acceptsocket'[irp'[j].cell] = irp'[j].sock
                     /\ sock'[irp'[j].sock] = "fresh"
              /\ irp'[j].kind = RECV_POSTED =>
                     /\ irp'[j].key = irp'[j].sock /\ irp'[j].sock \in assoc'
                     /\ ~irp'[j].wild /\ buf'[irp'[j].cell] = <<>>
      BY <1>2, <3>2 DEF Busy
    <3> QED BY <2>2, <3>2, <3>3 DEF PendingOps, Busy
  <2> QED BY <2>1, <2>2 DEF PostsPending
<1>4. QueuedPackets'
  <2>1. ASSUME NEW n \in 1..Len(port)
        PROVE  /\ port[n].kind = ACCEPT_POSTED => sock'[acceptsocket'[port[n].cell]] \in Open
               /\ port[n].kind = RECV_POSTED =>
                      /\ port[n].key \in assoc'
                      /\ IF Arrived(port[n]) THEN Full(buf'[port[n].cell])
                                             ELSE sock'[port[n].key] = "fin"
    <3>1. /\ port[n].kind = ACCEPT_POSTED => sock[acceptsocket[port[n].cell]] \in Open
          /\ port[n].kind = RECV_POSTED =>
                 /\ port[n].key \in assoc
                 /\ IF Arrived(port[n]) THEN Full(buf[port[n].cell])
                                        ELSE sock[port[n].key] = "fin"
      BY DEF RecvInv, QueuedPackets
    <3>2. /\ port[n].kind \in {ACCEPT_POSTED, RECV_POSTED} => SameCell(port[n].cell)
          /\ KindKept(port[n].cell, port[n].kind)
      BY <1>1 DEF Own, NamedOnce, PacketKind, WaitsPacket, ACCEPT_POSTED,
                  RECV_POSTED, SEND_POSTED
    <3>3. port[n].kind = ACCEPT_POSTED => acceptsocket[port[n].cell] \in Socks
      BY <1>1, <3>2, AcceptSocket
    <3> QED BY <3>1, <3>2, <3>3 DEF SameCell, Open
  <2> QED BY <2>1 DEF QueuedPackets
<1>5. ASSUME NEW x \in Workers PROVE Handler(x)'
  <2>1. CASE /\ wpc'[x] = wpc[x] /\ wkey'[x] = wkey[x] /\ wcell'[x] = wcell[x]
             /\ Holding(x) => SameCell(wcell[x])
    <3>1. Handler(x)
      BY DEF RecvInv
    <3>2. wpc[x] = "accept" => /\ acceptsocket[wcell[x]] \in Socks
                               /\ SameCell(wcell[x])
      BY <2>1, FreshSocket DEF Holding
    <3>3. wpc[x] = "recv" => SameCell(wcell[x])
      BY <2>1 DEF Holding
    <3> QED BY <2>1, <3>1, <3>2, <3>3 DEF Handler, SameCell, Open
  <2> QED BY <2>1
<1>6. FullWires'
  BY DEF RecvInv, FullWires
<1>7. AssocOpened'
  BY DEF AssocOpened, Open
<1> QED BY <1>3, <1>4, <1>5, <1>6, <1>7 DEF RecvInv

(* A new object takes nothing from anybody.                                *)
LEMMA NewSame ==
    ASSUME TypeInv, Own, PostNewAccept \/ \E s : PostNewRecv(s),
           NEW c \in Cells, Awaited(c) \/ c \in live
    PROVE  SameCell(c)
<1>1. PICK d \in Fresh :
          /\ New(d)
          /\ \E s \in Socks \cup {NoSock} : acceptsocket' = [acceptsocket EXCEPT ![d] = s]
  BY DEF PostNewAccept, PostNewRecv, PostAcceptEx
<1>2. d \in Cells /\ d # c
  BY AwaitedLive DEF Fresh, Own, TypeInv, TypeOK
<1> QED BY <1>1, <1>2 DEF New, GetNewIOData, SameCell, TypeInv, TypeOK, HeapTypeOK

(* With PostAcceptEx goes a new socket.                                    *)
LEMMA NewAcceptPending ==
    ASSUME Faults = {}, TypeInv, PostNewAccept
    PROVE  /\ \E c \in Cells, s \in Socks :
                  /\ Overlapped(c, Listen, ACCEPT_POSTED, s, FALSE)
                  /\ acceptsocket'[c] = s /\ sock'[s] = "fresh"
           /\ \A s \in Socks : sock[s] # "none" => sock'[s] = sock[s]
<1>1. PICK c \in Fresh : PostAcceptEx(c)
  BY DEF PostNewAccept
<1>2. PICK s \in Socks : /\ sock[s] = "none"
                         /\ sock' = [sock EXCEPT ![s] = "fresh"]
                         /\ acceptsocket' = [acceptsocket EXCEPT ![c] = s]
                         /\ Overlapped(c, Listen, ACCEPT_POSTED, s, FALSE)
  BY <1>1 DEF PostAcceptEx
<1>3. c \in Cells
  BY DEF Fresh
<1> QED BY <1>2, <1>3 DEF TypeInv, TypeOK, HeapTypeOK, PortTypeOK

LEMMA AssocIsOpen ==
    ASSUME TypeInv, RecvInv
    PROVE  \A s \in assoc : s \in Socks /\ sock[s] \in Open
BY DEF RecvInv, AssocOpened, TypeInv, TypeOK, PortTypeOK

LEMMA StartPostRecv ==
    ASSUME Smooth, TypeInv, Own, AcceptInv, RecvInv, StartPost
    PROVE  RecvInv'
<1>1. /\ PostNewAccept /\ port' = port /\ assoc' = assoc /\ wire' = wire
      /\ wpc' = wpc /\ wkey' = wkey /\ wcell' = wcell
  BY DEF StartPost, workVars
<1>2. \A x \in Workers : Holding(x) => SameCell(wcell[x])
  BY <1>1, NewSame DEF Own, Exclusive, TypeInv, TypeOK, ServerTypeOK
<1>3. \A c \in Cells : Awaited(c) => SameCell(c)
  BY <1>1, NewSame
<1>4. PostsPending
  BY <1>1, NewAcceptPending DEF PostsPending, Smooth, ACCEPT_POSTED, RECV_POSTED
<1> QED BY <1>1, <1>2, <1>3, <1>4, NewAcceptPending, AssocIsOpen, ServerRecv DEF Smooth

(* Handler w goes on to l; the others stay.                                *)
LEMMA HandlerRecv ==
    ASSUME TypeInv, Own, AcceptInv, RecvInv, NEW w \in Workers, NEW l, Goto(w, l),
           port' = port, wire' = wire, wcell' = wcell, wkey' = wkey,
           assoc \subseteq assoc',
           \A s \in Socks : sock[s] # "none" => sock'[s] = sock[s],
           \A s \in assoc' : s \in Socks /\ sock[s] \in Open,
           \A c \in Cells : Awaited(c) => SameCell(c),
           \A c \in live : c # wcell[w] => SameCell(c),
           Holding(w) \/ \A c \in live : SameCell(c),
           irp' = irp \/ PostsPending,
           l \notin {"accept", "recv"},
           l \in RecvPCs => wpc[w] \in RecvPCs
    PROVE  RecvInv'
<1>1. wpc'[w] = l /\ \A x \in Workers \ {w} : wpc'[x] = wpc[x]
  BY DEF Goto, TypeInv, TypeOK, ServerTypeOK
<1>2. ASSUME NEW x \in Workers \ {w}, Holding(x) PROVE SameCell(wcell[x])
  BY <1>2 DEF Own, Exclusive
<1>3. Handler(w)'
  BY <1>1 DEF RecvInv, Handler
<1>4. \A x \in Workers :
          \/ Handler(x)'
          \/ /\ wpc'[x] = wpc[x] /\ wkey'[x] = wkey[x] /\ wcell'[x] = wcell[x]
             /\ Holding(x) => SameCell(wcell[x])
  BY <1>1, <1>2, <1>3
<1> QED BY <1>4, ServerRecv

LEMMA DoAcceptExRecv ==
    ASSUME Smooth, TypeInv, Own, AcceptInv, RecvInv,
           NEW w \in Workers, DoAcceptEx(w)
    PROVE  RecvInv'
<1> DEFINE r == acceptsocket[wcell[w]]
<1>1. wpc[w] = "accept" /\ wcell[w] \in live /\ r \in Socks \ assoc /\ Holding(w)
  BY HeldLive, FreshSocket DEF DoAcceptEx, Holding
<1>2. /\ assoc' = assoc \cup {r} /\ PostNewRecv(r) /\ Goto(w, "unlisten")
      /\ port' = port /\ sock' = sock /\ wire' = wire /\ wkey' = wkey /\ wcell' = wcell
  BY <1>1, HeapAssumption DEF DoAcceptEx, Smooth
<1>3. sock[r] \in Open
  BY <1>1 DEF RecvInv, Handler
<1> HIDE DEF r
<1>4. PICK c \in Cells : Overlapped(c, r, RECV_POSTED, r, FALSE) /\ buf'[c] = <<>>
  BY <1>2, <1>3, NewRecvPending DEF Smooth
<1>5. PostsPending
  BY <1>2, <1>4 DEF PostsPending, ACCEPT_POSTED, RECV_POSTED
<1>6. \A d \in Cells : Awaited(d) => SameCell(d)
  BY <1>2, NewSame
<1>7. \A d \in live : SameCell(d)
  BY <1>2, NewSame DEF TypeInv, TypeOK, HeapTypeOK
<1>8. \A s \in assoc' : s \in Socks /\ sock[s] \in Open
  BY <1>1, <1>2, <1>3, AssocIsOpen
<1> QED BY <1>1, <1>2, <1>5, <1>6, <1>7, <1>8, HandlerRecv DEF RecvPCs

LEMMA RepostAcceptRecv ==
    ASSUME Smooth, TypeInv, Own, AcceptInv, RecvInv,
           NEW w \in Workers, RepostAccept(w)
    PROVE  RecvInv'
<1>1. /\ PostNewAccept /\ Goto(w, "wait") /\ port' = port /\ assoc' = assoc
      /\ wire' = wire /\ wkey' = wkey /\ wcell' = wcell
  BY DEF RepostAccept
<1>2. \A c \in Cells : Awaited(c) => SameCell(c)
  BY <1>1, NewSame
<1>3. \A c \in live : SameCell(c)
  BY <1>1, NewSame DEF TypeInv, TypeOK, HeapTypeOK
<1>4. PostsPending
  BY <1>1, NewAcceptPending DEF PostsPending, Smooth, ACCEPT_POSTED, RECV_POSTED
<1> QED BY <1>1, <1>2, <1>3, <1>4, NewAcceptPending, AssocIsOpen, HandlerRecv
        DEF Smooth, RecvPCs

LEMMA DeleteRecv ==
    ASSUME TypeInv, Own, AcceptInv, RecvInv, NEW w \in Workers, Holding(w),
           NEW l, Delete(w, l),
           l = "repost" \/ (l = "rearm" /\ wpc[w] = "remove")
    PROVE  RecvInv'
<1>1. /\ Goto(w, l) /\ irp' = irp /\ port' = port /\ assoc' = assoc /\ sock' = sock
      /\ wire' = wire /\ wkey' = wkey /\ wcell' = wcell
      /\ \A c : SameCell(c)
  BY HeldLive DEF Delete, RemoveIOData, portVars, netVars, SameCell
<1> QED BY <1>1, AssocIsOpen, HandlerRecv DEF RecvPCs

(* In a plain run every message that arrives is a request.                 *)
LEMMA PlainRecv ==
    ASSUME Own, RecvInv, NEW w \in Workers, DoRecv(w)
    PROVE  /\ wpc[w] = "recv" /\ PrepareSend(w)
           /\ UNCHANGED <<live, acceptsocket, port, netVars, wcell, wkey,
                          toPost, crashed, histVars>>
<1>1. wpc[w] = "recv" /\ Full(buf[wcell[w]])
  BY DEF DoRecv, RecvInv, Handler
<1>2. wcell[w] \in live
  BY <1>1, HeldLive DEF Holding
<1> QED BY <1>1, <1>2 DEF DoRecv, Full

LEMMA ReceivingRecv ==
    ASSUME Smooth, TypeInv, Own, AcceptInv, RecvInv,
           NEW w \in Workers, Receiving(w)
    PROVE  RecvInv'
<1>1. CASE DoRecv(w)
  <2>1. /\ wpc[w] = "recv" /\ PrepareSend(w) /\ Holding(w)
        /\ acceptsocket' = acceptsocket /\ port' = port /\ wire' = wire
        /\ assoc' = assoc /\ sock' = sock /\ wcell' = wcell /\ wkey' = wkey
    BY <1>1, PlainRecv DEF netVars, Holding
  <2>2. /\ irp' = irp /\ buf' = [buf EXCEPT ![wcell[w]] = <<>>]
        /\ \E l \in {"send", "rearm"} : Goto(w, l)
    BY <2>1 DEF PrepareSend
  <2>3. \A c \in Cells : c # wcell[w] => SameCell(c)
    BY <2>1, <2>2 DEF SameCell, TypeInv, TypeOK, HeapTypeOK
  <2>4. ~Awaited(wcell[w])
    BY <2>1 DEF Own, Exclusive
  <2>5. /\ \A c \in Cells : Awaited(c) => SameCell(c)
        /\ \A c \in live : c # wcell[w] => SameCell(c)
    BY <2>3, <2>4 DEF TypeInv, TypeOK, HeapTypeOK
  <2> QED BY <2>1, <2>2, <2>5, AssocIsOpen, HandlerRecv DEF RecvPCs
<1>2. CASE PostSend(w)
  <2>1. /\ wpc[w] = "send" /\ port' = port /\ wire' = wire
        /\ assoc' = assoc /\ sock' = sock /\ wcell' = wcell /\ wkey' = wkey
        /\ \E l \in {"remove", "rearm"} : Goto(w, l)
        /\ irp' = irp \/ Overlapped(wcell[w], wkey[w], SEND_POSTED, wkey[w], FALSE)
        /\ \A c : SameCell(c)
    BY <1>2 DEF PostSend, heapVars, SameCell
  <2>2. wcell[w] \in Cells
    BY DEF TypeInv, TypeOK, ServerTypeOK
  <2>3. irp' = irp \/ PostsPending
    BY <2>1, <2>2 DEF PostsPending, ACCEPT_POSTED, RECV_POSTED, SEND_POSTED
  <2> QED BY <2>1, <2>3, AssocIsOpen, HandlerRecv DEF RecvPCs
<1>3. CASE RemoveSent(w)
  BY <1>3, DeleteRecv DEF RemoveSent, Holding
<1>4. CASE Rearm(w)
  <2> DEFINE r == wkey[w]
  <2>1. /\ wpc[w] = "rearm" /\ PostNewRecv(r) /\ Goto(w, "wait")
        /\ port' = port /\ assoc' = assoc /\ sock' = sock /\ wire' = wire
        /\ wkey' = wkey /\ wcell' = wcell
    BY <1>4 DEF Rearm, netVars
  <2>2. r \in assoc /\ r \in Socks /\ sock[r] \in Open
    BY <2>1, AssocIsOpen DEF RecvInv, Handler, RecvPCs
  <2> HIDE DEF r
  <2>3. PICK c \in Cells : Overlapped(c, r, RECV_POSTED, r, FALSE) /\ buf'[c] = <<>>
    BY <2>1, <2>2, NewRecvPending DEF Smooth
  <2>4. PostsPending
    BY <2>1, <2>2, <2>3 DEF PostsPending, ACCEPT_POSTED, RECV_POSTED
  <2>5. \A d \in Cells : Awaited(d) => SameCell(d)
    BY <2>1, NewSame
  <2>6. \A d \in live : SameCell(d)
    BY <2>1, NewSame DEF TypeInv, TypeOK, HeapTypeOK
  <2> QED BY <2>1, <2>4, <2>5, <2>6, AssocIsOpen, HandlerRecv DEF RecvPCs
<1> QED BY <1>1, <1>2, <1>3, <1>4 DEF Receiving

(* A packet that is taken gives its handler what it carries.               *)
LEMMA WorkerThreadRecv ==
    ASSUME TypeInv, TypeInv', Own, AcceptInv, RecvInv,
           NEW w \in Workers, WorkerThread(w),
           ~misread'
    PROVE  RecvInv'
<1> DEFINE p == Head(port)
<1>1. /\ port # <<>> /\ port' = Tail(port) /\ irp' = irp
      /\ buf' = buf /\ acceptsocket' = acceptsocket
      /\ sock' = sock /\ assoc' = assoc /\ wire' = wire
  BY DEF WorkerThread, heapVars, netVars
<1>2. PendingOps' /\ FullWires' /\ AssocOpened'
  BY <1>1 DEF RecvInv, PendingOps, FullWires, AssocOpened, Busy
<1>3. /\ Len(port) \in Nat \ {0} /\ Len(port') = Len(port) - 1
      /\ \A m \in 1..(Len(port) - 1) : port'[m] = port[m + 1]
      /\ p = port[1] /\ p \in Packet
  BY <1>1, Dispatch, HeadTailProperties, LenProperties, EmptySeq
  DEF TypeInv, TypeOK, PortTypeOK
<1>4. QueuedPackets'
  BY <1>1, <1>3 DEF RecvInv, QueuedPackets
<1>5. /\ p.kind = ACCEPT_POSTED => sock[acceptsocket[p.cell]] \in Open
      /\ p.kind = RECV_POSTED => /\ p.key \in assoc
                                 /\ Arrived(p) => Full(buf[p.cell])
  BY <1>3 DEF RecvInv, QueuedPackets
<1> HIDE DEF p
<1>6. Handler(w)'
  <2>1. wpc'[w] = "accept" => sock[acceptsocket[wcell'[w]]] \in Open
    BY <1>5, Dispatch DEF p
  <2>2. wpc'[w] = "recv" => Full(buf[wcell'[w]]) /\ wkey'[w] \in assoc
    BY <1>3, <1>5, Dispatch DEF p, Arrived
  <2>3. wpc'[w] \in RecvPCs => wpc'[w] = "recv"
    BY Dispatch DEF RecvPCs
  <2> QED BY <1>1, <2>1, <2>2, <2>3 DEF Handler
<1>7. ASSUME NEW x \in Workers, x # w PROVE Handler(x)'
  BY <1>1, <1>7, Dispatch DEF RecvInv, Handler
<1> QED BY <1>2, <1>4, <1>6, <1>7 DEF RecvInv

(* The operation of i ends.                                                *)
LEMMA CompleteRecv ==
    ASSUME TypeInv, Own, AcceptInv, RecvInv, NEW i \in Irps, Busy(i),
           NEW ok, NEW n, Complete(i, ok, n),
           UNCHANGED <<workVars, assoc, acceptsocket>>, FullWires',
           \A s \in Socks : sock[s] \in Open => sock'[s] = sock[s],
           \A j \in Irps \ {i} : Busy(j) /\ irp[j].kind = ACCEPT_POSTED =>
               sock'[irp[j].sock] = "fresh",
           \A c \in Cells :
               c # irp[i].cell \/ irp[i].kind = SEND_POSTED => buf'[c] = buf[c],
           irp[i].kind = ACCEPT_POSTED => sock'[acceptsocket[irp[i].cell]] \in Open,
           irp[i].kind = RECV_POSTED =>
               IF ok /\ n > 0 THEN Full(buf'[irp[i].cell]) ELSE sock'[irp[i].key] = "fin"
    PROVE  RecvInv'
<1> DEFINE p == [cell |-> irp[i].cell, key |-> irp[i].key,
                 kind |-> irp[i].kind, ok |-> ok, n |-> n]
           len == Len(port)
<1>1. irp'[i] = Idle /\ \A j \in Irps \ {i} : irp'[j] = irp[j]
  BY DEF Complete, TypeInv, TypeOK, PortTypeOK
<1>2. /\ len \in Nat /\ Len(port') = len + 1 /\ port'[len + 1] = p
      /\ \A m \in 1..len : port'[m] = port[m]
  BY DEF Complete, TypeInv, TypeOK, PortTypeOK
<1>3. /\ \A j \in Irps \ {i} : WaitsIrp(j) => buf'[irp[j].cell] = buf[irp[j].cell]
      /\ \A m \in 1..len : port[m].cell \in Cells
      /\ \A m \in 1..len : WaitsPacket(m) => buf'[port[m].cell] = buf[port[m].cell]
  BY CellsNamed
  DEF TypeInv, TypeOK, Own, NamedOnce, OneIrp, IrpOrPacket, WaitsIrp
<1> HIDE DEF len
<1>4. PendingOps'
  BY <1>1, <1>3
  DEF RecvInv, PendingOps, Busy, WaitsIrp, ACCEPT_POSTED, RECV_POSTED, SEND_POSTED
<1>5. QueuedPackets'
  <2>1. ASSUME NEW m \in 1..len
        PROVE  /\ port'[m].kind = ACCEPT_POSTED =>
                      sock'[acceptsocket'[port'[m].cell]] \in Open
               /\ port'[m].kind = RECV_POSTED =>
                      /\ port'[m].key \in assoc'
                      /\ IF Arrived(port'[m]) THEN Full(buf'[port'[m].cell])
                                              ELSE sock'[port'[m].key] = "fin"
    <3>1. /\ port[m].kind = ACCEPT_POSTED => sock[acceptsocket[port[m].cell]] \in Open
          /\ port[m].kind = RECV_POSTED =>
                 /\ port[m].key \in assoc
                 /\ IF Arrived(port[m]) THEN Full(buf[port[m].cell])
                                        ELSE sock[port[m].key] = "fin"
      BY DEF RecvInv, QueuedPackets, len
    <3>2. /\ port'[m] = port[m]
          /\ port[m].kind = RECV_POSTED => buf'[port[m].cell] = buf[port[m].cell]
      BY <1>2, <1>3 DEF WaitsPacket, RECV_POSTED, SEND_POSTED
    <3>3. port[m].kind = ACCEPT_POSTED => acceptsocket[port[m].cell] \in Socks
      BY <1>3, AcceptSocket DEF Own, NamedOnce, PacketKind, len
    <3>4. port[m].kind = RECV_POSTED => port[m].key \in Socks
      BY <3>1, AssocIsOpen
    <3> QED BY <3>1, <3>2, <3>3, <3>4 DEF Open
  <2>2. /\ p.kind = ACCEPT_POSTED => sock'[acceptsocket'[p.cell]] \in Open
        /\ p.kind = RECV_POSTED =>
               /\ p.key \in assoc'
               /\ IF Arrived(p) THEN Full(buf'[p.cell]) ELSE sock'[p.key] = "fin"
    BY DEF RecvInv, PendingOps, Arrived
  <2> HIDE DEF p
  <2> QED BY <1>2, <2>1, <2>2 DEF QueuedPackets
<1>6. ASSUME NEW x \in Workers PROVE Handler(x)'
  <2>1. wpc[x] = "recv" => buf'[wcell[x]] = buf[wcell[x]]
    BY AwaitedDef
    DEF Own, Exclusive, Holding, WaitsIrp, TypeInv, TypeOK, ServerTypeOK
  <2>2. Handler(x)
    BY DEF RecvInv
  <2>3. wpc[x] = "accept" => acceptsocket[wcell[x]] \in Socks
    BY FreshSocket
  <2> QED BY <2>1, <2>2, <2>3 DEF Handler, workVars
<1>7. AssocOpened'
  BY AssocIsOpen DEF AssocOpened
<1> QED BY <1>4, <1>5, <1>6, <1>7 DEF RecvInv

LEMMA OverwriteEmpty ==
    ASSUME NEW T, NEW q \in Seq(T)
    PROVE  /\ Overwrite(<<>>, SubSeq(q, 1, Len(q))) = q
           /\ SubSeq(q, Len(q) + 1, Len(q)) = <<>>
<1>1. Len(q) \in Nat /\ SubSeq(q, 1, Len(q)) = q
  BY LenProperties, SubSeqProperties
<1>2. SubSeq(<<>>, Len(q) + 1, Len(<<>>)) = <<>>
  BY <1>1, SubSeqProperties
<1>3. q \o <<>> = q
  BY ConcatEmptySeq
<1>4. SubSeq(q, Len(q) + 1, Len(q)) = <<>>
  BY <1>1, SubSeqProperties
<1> QED BY <1>1, <1>2, <1>3, <1>4 DEF Overwrite

LEMMA KernelAcceptRecv ==
    ASSUME Plain, TypeInv, Own, AcceptInv, RecvInv, NEW i \in Irps, KernelAccept(i),
           UNCHANGED serverVars
    PROVE  RecvInv'
<1>1. /\ Busy(i) /\ irp[i] \in Operation /\ irp[i].kind = ACCEPT_POSTED
      /\ Complete(i, TRUE, 0) /\ sock' = [sock EXCEPT ![irp[i].sock] = "up"]
      /\ buf' = buf /\ acceptsocket' = acceptsocket /\ assoc' = assoc /\ wire' = wire
  BY DEF KernelAccept, Plain, Smooth, heapVars, serverVars, TypeInv, TypeOK, PortTypeOK, Busy
<1>2. /\ acceptsocket[irp[i].cell] = irp[i].sock /\ irp[i].sock \in Socks
      /\ sock[irp[i].sock] = "fresh" /\ sock'[irp[i].sock] = "up"
      /\ \A s \in Socks : s # irp[i].sock => sock'[s] = sock[s]
  BY <1>1 DEF RecvInv, PendingOps, Operation, TypeInv, TypeOK, PortTypeOK
<1>3. ASSUME NEW j \in Irps \ {i}, Busy(j), irp[j].kind = ACCEPT_POSTED
      PROVE  sock'[irp[j].sock] = "fresh"
  <2>1. irp[j].sock \in Socks /\ acceptsocket[irp[j].cell] = irp[j].sock
        /\ sock[irp[j].sock] = "fresh"
    BY <1>3 DEF RecvInv, PendingOps, Operation, TypeInv, TypeOK, PortTypeOK, Busy
  <2>2. /\ irp[i].cell \in Cells /\ irp[j].cell \in Cells
        /\ irp[i].cell # irp[j].cell
        /\ Accept(irp[i].cell) /\ Accept(irp[j].cell)
    BY <1>1, <1>3, CellsNamed DEF Own, NamedOnce, OneIrp, IrpKind, KindKept, Accept,
       WaitsIrp, ACCEPT_POSTED, SEND_POSTED, TypeInv, TypeOK
  <2>3. irp[j].sock # irp[i].sock
    BY <1>2, <2>1, <2>2 DEF AcceptInv, AcceptsDiffer
  <2> QED BY <1>2, <2>1, <2>3
<1>4. \A s \in Socks : sock[s] \in Open => sock'[s] = sock[s]
  BY <1>1, <1>2 DEF Open
<1>5. FullWires'
  BY <1>1 DEF RecvInv, FullWires
<1>6. sock'[acceptsocket[irp[i].cell]] \in Open
  BY <1>2 DEF Open
<1>7. irp[i].kind # RECV_POSTED /\ \A c \in Cells : buf'[c] = buf[c]
  BY <1>1 DEF ACCEPT_POSTED, RECV_POSTED
<1>8. /\ Busy(i) /\ Complete(i, TRUE, 0)
      /\ UNCHANGED <<workVars, assoc, acceptsocket>>
  BY <1>1 DEF serverVars
<1> QED BY <1>3, <1>4, <1>5, <1>6, <1>7, <1>8, CompleteRecv

(* A receive completes with a whole request, or with nothing after a close.*)
LEMMA KernelRecvRecv ==
    ASSUME Plain, TypeInv, Own, AcceptInv, RecvInv, NEW i \in Irps, KernelRecv(i),
           UNCHANGED serverVars
    PROVE  RecvInv'
<1> DEFINE s == irp[i].sock
           c == irp[i].cell
<1>1. /\ Busy(i) /\ irp[i].kind = RECV_POSTED
      /\ sock' = sock /\ acceptsocket' = acceptsocket /\ assoc' = assoc
  BY DEF KernelRecv
<1>2. /\ irp[i].key = s /\ s \in Socks /\ sock[s] \in Open /\ ~irp[i].wild
      /\ c \in Cells /\ c \in live /\ buf[c] = <<>>
  <2>1. irp[i].key = s /\ s \in assoc /\ ~irp[i].wild /\ buf[c] = <<>>
    BY <1>1 DEF RecvInv, PendingOps
  <2>2. c \in Cells /\ c \in live
    BY <1>1, CellsNamed DEF Own, NamedOnce, IrpKind, KindKept, RECV_POSTED, SEND_POSTED,
       TypeInv, TypeOK
  <2> QED BY <2>1, <2>2, AssocIsOpen
<1>3. /\ wire \in [Socks -> Seq(Tokens)] /\ buf \in [Cells -> Seq(Tokens)]
  BY DEF TypeInv, TypeOK, PortTypeOK, HeapTypeOK
<1> HIDE DEF s, c
<1>4. \/ /\ wire[s] # <<>> /\ wire' = [wire EXCEPT ![s] = <<>>]
         /\ buf' = [buf EXCEPT ![c] = wire[s]]
         /\ Complete(i, TRUE, 1)
      \/ /\ sock[s] = "fin" /\ wire' = wire /\ buf' = buf
         /\ Complete(i, TRUE, 0)
  <2>1. ASSUME NEW k \in 1..Len(wire[s]), k = Len(wire[s]),
               wire' = [wire EXCEPT ![s] = SubSeq(@, k + 1, Len(@))],
               buf' = [buf EXCEPT ![c] = Overwrite(@, SubSeq(wire[s], 1, k))]
        PROVE  /\ wire[s] # <<>> /\ wire' = [wire EXCEPT ![s] = <<>>]
               /\ buf' = [buf EXCEPT ![c] = wire[s]]
    <3>1. wire[s] \in Seq(Tokens)
      BY <1>2, <1>3
    <3>2. /\ Overwrite(<<>>, SubSeq(wire[s], 1, Len(wire[s]))) = wire[s]
          /\ SubSeq(wire[s], Len(wire[s]) + 1, Len(wire[s])) = <<>>
      BY <3>1, OverwriteEmpty
    <3>3. wire[s] # <<>>
      BY <2>1
    <3> QED BY <1>2, <1>3, <2>1, <3>2, <3>3
  <2>2. \/ \E k \in 1..Len(wire[s]) :
              /\ k = Len(wire[s])
              /\ wire' = [wire EXCEPT ![s] = SubSeq(@, k + 1, Len(@))]
              /\ buf' = [buf EXCEPT ![c] = Overwrite(@, SubSeq(wire[s], 1, k))]
              /\ Complete(i, TRUE, 1)
        \/ /\ sock[s] = "fin" /\ Complete(i, TRUE, 0) /\ wire' = wire /\ buf' = buf
    BY <1>2 DEF KernelRecv, Plain, Open, s, c
  <2> QED BY <2>1, <2>2
<1>5. FullWires' /\ (wire[s] = <<>> \/ Full(wire[s]))
  BY <1>2, <1>3, <1>4 DEF RecvInv, FullWires
<1>6. \A j \in Irps \ {i} : Busy(j) /\ irp[j].kind = ACCEPT_POSTED =>
          sock'[irp[j].sock] = "fresh"
  BY <1>1 DEF RecvInv, PendingOps
<1>7. /\ \A d \in Cells :
             d # irp[i].cell \/ irp[i].kind = SEND_POSTED => buf'[d] = buf[d]
      /\ irp[i].kind # ACCEPT_POSTED
  BY <1>1, <1>3, <1>4 DEF c, ACCEPT_POSTED, RECV_POSTED, SEND_POSTED
<1>8. /\ UNCHANGED <<workVars, assoc, acceptsocket>>
      /\ \A r \in Socks : sock[r] \in Open => sock'[r] = sock[r]
  BY <1>1 DEF serverVars
<1>9. CASE /\ wire[s] # <<>> /\ buf' = [buf EXCEPT ![c] = wire[s]]
           /\ Complete(i, TRUE, 1)
  <2>1. Full(buf'[irp[i].cell])
    BY <1>2, <1>3, <1>5, <1>9 DEF c
  <2>2. 1 > 0
    OBVIOUS
  <2> QED BY <1>1, <1>5, <1>6, <1>7, <1>8, <1>9, <2>1, <2>2, CompleteRecv
<1>10. CASE sock[s] = "fin" /\ Complete(i, TRUE, 0)
  <2>1. sock'[irp[i].key] = "fin"
    BY <1>1, <1>2, <1>10
  <2>2. ~(0 > 0)
    OBVIOUS
  <2> QED BY <1>1, <1>5, <1>6, <1>7, <1>8, <1>10, <2>1, <2>2, CompleteRecv
<1> QED BY <1>4, <1>9, <1>10

LEMMA KernelSendRecv ==
    ASSUME TypeInv, Own, AcceptInv, RecvInv, NEW i \in Irps, KernelSend(i),
           UNCHANGED serverVars
    PROVE  RecvInv'
<1>1. /\ Busy(i) /\ irp[i].kind # ACCEPT_POSTED /\ irp[i].kind # RECV_POSTED
      /\ buf' = buf /\ wire' = wire /\ sock' = sock
      /\ UNCHANGED <<workVars, assoc, acceptsocket>>
  BY DEF KernelSend, heapVars, netVars, serverVars, ACCEPT_POSTED, RECV_POSTED, SEND_POSTED
<1>2. PICK ok, n : Complete(i, ok, n)
  BY DEF KernelSend
<1>3. \A j \in Irps \ {i} : Busy(j) /\ irp[j].kind = ACCEPT_POSTED =>
          sock'[irp[j].sock] = "fresh"
  BY <1>1 DEF RecvInv, PendingOps
<1>4. FullWires'
  BY <1>1 DEF RecvInv, FullWires
<1> QED BY <1>1, <1>2, <1>3, <1>4, CompleteRecv

(* A client appends a whole request, or closes.                            *)
LEMMA ClientRecv ==
    ASSUME Plain, TypeInv, AcceptInv, Own, RecvInv, Client,
           UNCHANGED serverVars
    PROVE  RecvInv'
<1>1. /\ buf' = buf /\ acceptsocket' = acceptsocket /\ irp' = irp /\ port' = port
      /\ assoc' = assoc /\ wpc' = wpc /\ wcell' = wcell /\ wkey' = wkey
  BY DEF Client, ClientConnect, ClientSend, ClientClose, heapVars, portVars, workVars,
         serverVars
<1>2. /\ sock \in [Socks -> SockState] /\ wire \in [Socks -> Seq(Tokens)]
  BY DEF TypeInv, TypeOK, PortTypeOK
<1>3. \A s \in Socks : /\ sock[s] \in Open => sock'[s] \in Open
                       /\ sock[s] = "fresh" => sock'[s] = "fresh"
                       /\ sock[s] = "fin" => sock'[s] = "fin"
  <2>1. \/ sock' = sock
        \/ \E s \in Socks : sock[s] = "up" /\ sock' = [sock EXCEPT ![s] = "fin"]
    BY DEF Client, ClientConnect, ClientSend, ClientClose, Plain, Smooth
  <2> QED BY <1>2, <2>1 DEF Open
<1>4. FullWires'
  <2>1. CASE wire' = wire
    BY <2>1 DEF RecvInv, FullWires
  <2>2. ASSUME NEW s \in Socks, NEW h \in HeadsSent,
               wire' = [wire EXCEPT ![s] = @ \o <<h, "END">>]
        PROVE  FullWires'
    <3>1. h \in {"GET", "ACT"}
      BY DEF HeadsSent, Plain
    <3>2. wire'[s] = wire[s] \o <<h, "END">> /\ wire[s] \in Seq(Tokens)
      BY <1>2, <2>2
    <3>3. Full(wire'[s])
      <4> DEFINE b == wire'[s]
                 n == Len(wire[s])
      <4>1. /\ n \in Nat /\ Len(b) = n + 2 /\ DOMAIN b = 1..(n + 2)
            /\ b[n + 1] = h /\ b[n + 2] = "END"
        BY <3>1, <3>2 DEF Tokens, Heads
      <4>2. b # <<>>
        BY <4>1
      <4> HIDE DEF b, n
      <4>3. CheckRecvBufEnd(b)
        BY <4>1, <4>2 DEF CheckRecvBufEnd
      <4>4. HasGet(b)
        BY <3>1, <4>1 DEF HasGet
      <4> QED BY <4>3, <4>4 DEF Full, b
    <3>4. \A r \in Socks \ {s} : wire'[r] = wire[r]
      BY <1>2, <2>2
    <3> QED BY <3>3, <3>4 DEF RecvInv, FullWires
  <2> QED BY <2>1, <2>2 DEF Client, ClientConnect, ClientSend, ClientClose
<1>5. PendingOps'
  <2>1. \A i \in Irps : Busy(i) => irp[i].sock \in Socks
    BY DEF Busy, Operation, TypeInv, TypeOK, PortTypeOK
  <2> QED BY <1>1, <1>3, <2>1 DEF RecvInv, PendingOps, Busy
<1>6. QueuedPackets'
  <2>1. \A n \in 1..Len(port) :
            /\ port[n].kind = ACCEPT_POSTED => acceptsocket[port[n].cell] \in Socks
            /\ port[n].kind = RECV_POSTED => port[n].key \in Socks
    BY CellsNamed, AcceptSocket, AssocIsOpen
    DEF RecvInv, QueuedPackets, Own, NamedOnce, PacketKind, TypeInv, TypeOK
  <2> QED BY <1>1, <1>3, <2>1 DEF RecvInv, QueuedPackets
<1>7. \A w \in Workers : Handler(w)'
  <2>1. ASSUME NEW w \in Workers PROVE Handler(w)'
    <3>1. Handler(w)
      BY DEF RecvInv
    <3>2. wpc[w] = "accept" => acceptsocket[wcell[w]] \in Socks
      BY FreshSocket
    <3> QED BY <1>1, <1>3, <3>1, <3>2 DEF Handler, Open
  <2> QED BY <2>1
<1>8. AssocOpened'
  BY <1>1, <1>3, AssocIsOpen DEF AssocOpened, Open
<1> QED BY <1>4, <1>5, <1>6, <1>7, <1>8 DEF RecvInv

LEMMA SameRecv == ASSUME RecvInv, UNCHANGED vars PROVE RecvInv'
BY DEF vars, heapVars, portVars, netVars, workVars, serverVars, RecvInv, PendingOps, QueuedPackets,
       Handler, FullWires, AssocOpened, Busy

LEMMA InitRecv == Init => RecvInv
BY DEF Init, HeapInit, PortInit, ServerInit, RecvInv, PendingOps, QueuedPackets,
       Handler, FullWires, AssocOpened, Busy, RecvPCs

LEMMA NextRecv ==
    ~misread' /\ Plain /\ TypeInv /\ Own /\ AcceptInv /\ RecvInv /\ [Next]_vars => RecvInv'
<1> SUFFICES ASSUME ~misread', Plain, TypeInv, Own, AcceptInv, RecvInv, [Next]_vars
             PROVE  RecvInv'
  OBVIOUS
<1>1. TypeInv' /\ Smooth
  BY NextType DEF Plain
<1>2. ASSUME NEW w \in Workers, Worker(w) PROVE RecvInv'
  <2>1. CASE RemoveListen(w)
    BY <2>1, DeleteRecv DEF RemoveListen, Holding
  <2> QED BY <1>1, <1>2, <2>1, WorkerThreadRecv, DoAcceptExRecv, RepostAcceptRecv,
             ReceivingRecv DEF Worker, Accepting
<1>3. CASE StartPost
  BY <1>1, <1>3, StartPostRecv
<1>4. ASSUME NEW i \in Irps, Kernel(i), UNCHANGED serverVars
      PROVE  RecvInv'
  BY <1>4, KernelAcceptRecv, KernelRecvRecv, KernelSendRecv DEF Kernel
<1>5. CASE Client /\ UNCHANGED serverVars
  BY <1>5, ClientRecv
<1>6. CASE UNCHANGED vars
  BY <1>6, SameRecv
<1> QED BY <1>2, <1>3, <1>4, <1>5, <1>6 DEF Next, Quiet
-----------------------------------------------------------------------------
(* With RecvInv every step keeps the turns.                                *)
LEMMA AcceptingTurns ==
    ASSUME Finite, Plain, TypeInv, TypeInv', Own, AcceptInv, RecvInv, Turns,
           NEW w \in Workers, Accepting(w)
    PROVE  Turns'
<1>1. CASE DoAcceptEx(w)
  BY <1>1, DoAcceptExTurns DEF Plain
<1>2. CASE RemoveListen(w)
  <2>1. wpc[w] = "unlisten" /\ Delete(w, "repost") /\ wcell[w] \in live
    BY <1>2, HeldLive DEF RemoveListen, Holding
  <2>2. /\ Goto(w, "repost") /\ irp' = irp /\ port' = port /\ wkey' = wkey
        /\ assoc' = assoc /\ sock' = sock
    BY <2>1 DEF Delete, portVars, netVars
  <2> QED BY <2>1, <2>2, HandlerTurns DEF RecvPCs
<1>3. CASE RepostAccept(w)
  <2>1. /\ wpc[w] = "repost" /\ PostNewAccept /\ Goto(w, "wait")
        /\ port' = port /\ wkey' = wkey /\ assoc' = assoc
    BY <1>3 DEF RepostAccept
  <2>2. /\ \E c, k, r, d : \E t \in {ACCEPT_POSTED, SEND_POSTED} :
              Overlapped(c, k, t, r, d)
        /\ \A s \in Socks : sock[s] # "none" => sock'[s] = sock[s]
    BY <2>1, NewAcceptPending DEF Plain, Smooth
  <2>3. \A s \in Socks : s \in assoc /\ sock'[s] = "up" => sock[s] = "up"
    BY <2>2, AssocIsOpen DEF Open
  <2> QED BY <2>1, <2>2, <2>3, HandlerTurns DEF RecvPCs
<1> QED BY <1>1, <1>2, <1>3 DEF Accepting

LEMMA ReceivingTurns ==
    ASSUME Finite, Plain, TypeInv, TypeInv', Own, RecvInv, Turns,
           NEW w \in Workers, Receiving(w)
    PROVE  Turns'
<1>1. CASE DoRecv(w)
  <2>1. /\ wpc[w] = "recv" /\ PrepareSend(w) /\ port' = port /\ wkey' = wkey
        /\ assoc' = assoc /\ sock' = sock
    BY <1>1, PlainRecv DEF netVars
  <2>2. irp' = irp /\ \E l \in {"send", "rearm"} : Goto(w, l)
    BY <2>1 DEF PrepareSend
  <2> QED BY <2>1, <2>2, HandlerTurns DEF RecvPCs
<1>2. CASE PostSend(w)
  <2>1. /\ wpc[w] = "send" /\ port' = port /\ wkey' = wkey
        /\ assoc' = assoc /\ sock' = sock
        /\ \E l \in {"remove", "rearm"} : Goto(w, l)
        /\ irp' = irp \/ Overlapped(wcell[w], wkey[w], SEND_POSTED, wkey[w], FALSE)
    BY <1>2 DEF PostSend
  <2> QED BY <2>1, HandlerTurns DEF RecvPCs
<1>3. CASE RemoveSent(w)
  <2>1. wpc[w] = "remove" /\ Delete(w, "rearm") /\ wcell[w] \in live
    BY <1>3, HeldLive DEF RemoveSent, Holding
  <2>2. /\ Goto(w, "rearm") /\ irp' = irp /\ port' = port /\ wkey' = wkey
        /\ assoc' = assoc /\ sock' = sock
    BY <2>1 DEF Delete, portVars, netVars
  <2> QED BY <2>1, <2>2, HandlerTurns DEF RecvPCs
<1>4. CASE Rearm(w)
  BY <1>4, RearmTurns DEF Plain
<1> QED BY <1>1, <1>2, <1>3, <1>4 DEF Receiving

LEMMA StartPostTurns ==
    ASSUME Finite, Plain, TypeInv, TypeInv', RecvInv, Turns, StartPost
    PROVE  Turns'
<1>1. /\ PostNewAccept /\ port' = port /\ assoc' = assoc /\ UNCHANGED workVars
  BY DEF StartPost
<1>2. /\ \E c, k, r, d : Overlapped(c, k, ACCEPT_POSTED, r, d)
      /\ \A s \in Socks : sock[s] # "none" => sock'[s] = sock[s]
  BY <1>1, NewAcceptPending DEF Plain, Smooth
<1>3. \A s \in Socks : s \in assoc /\ sock'[s] = "up" => sock[s] = "up"
  BY <1>2, AssocIsOpen DEF Open
<1> QED BY <1>1, <1>2, <1>3, SameTurns

LEMMA ClientTurns ==
    ASSUME Finite, TypeInv, TypeInv', Turns, Client, UNCHANGED serverVars
    PROVE  Turns'
<1>1. /\ irp' = irp /\ port' = port /\ assoc' = assoc /\ UNCHANGED workVars
      /\ \/ sock' = sock
         \/ \E s \in Socks : \E t \in {"fin", "rst"} : sock' = [sock EXCEPT ![s] = t]
  BY DEF Client, ClientConnect, ClientSend, ClientClose, portVars,
                        serverVars
<1>2. \A s \in Socks : s \in assoc /\ sock'[s] = "up" => sock[s] = "up"
  BY <1>1 DEF TypeInv, TypeOK, PortTypeOK
<1> QED BY <1>1, <1>2, SameTurns

LEMMA InitTurnsRecv == Init => Turns
<1> SUFFICES ASSUME Init, NEW s \in Socks PROVE s \notin assoc /\ RecvTurns(s) = 0
  BY DEF Turns
<1>1. /\ {i \in Irps : Busy(i) /\ irp[i].kind = RECV_POSTED /\ irp[i].sock = s} = {}
      /\ {n \in DOMAIN port : port[n].kind = RECV_POSTED /\ port[n].key = s} = {}
      /\ {w \in Workers : wpc[w] \in RecvPCs /\ wkey[w] = s} = {}
      /\ s \notin assoc
  BY DEF Init, PortInit, ServerInit, Busy, RecvPCs
<1>2. RecvTurns(s) = 0 + 0 + 0
  BY <1>1, FS_EmptySet DEF RecvTurns
<1> QED BY <1>1, <1>2

LEMMA NextTurns ==
    /\ ~misread' /\ Finite /\ Plain
    /\ TypeInv /\ Own /\ AcceptInv /\ RecvInv /\ Turns /\ [Next]_vars
    => Turns'
<1> SUFFICES ASSUME ~misread', Finite, Plain, TypeInv, Own, AcceptInv, RecvInv,
                    Turns, [Next]_vars
             PROVE  Turns'
  OBVIOUS
<1>1. TypeInv'
  BY NextType
<1>2. ASSUME NEW w \in Workers, Worker(w) PROVE Turns'
  BY <1>1, <1>2, WorkerThreadTurns, AcceptingTurns, ReceivingTurns DEF Worker
<1>3. CASE StartPost
  BY <1>1, <1>3, StartPostTurns
<1>4. ASSUME NEW i \in Irps, Kernel(i), UNCHANGED serverVars
      PROVE  Turns'
  BY <1>1, <1>4, KernelTurns
<1>5. CASE Client /\ UNCHANGED serverVars
  BY <1>1, <1>5, ClientTurns
<1>6. CASE UNCHANGED vars
  BY <1>1, <1>6, SameTurns DEF vars, portVars, netVars, serverVars
<1> QED BY <1>2, <1>3, <1>4, <1>5, <1>6 DEF Next, Quiet

(* When no call fails, no connection is reset and every message arrives    *)
(* whole and with a GET, an open connection has, until a packet is         *)
(* misread, exactly one receive under way, queued or in a handler: DoRecv  *)
(* never loses its turn and never runs for one connection in two workers.  *)
THEOREM ReceivesKept == Finite /\ Plain => (Spec => []ReceivesOnce)
<1> SUFFICES ASSUME Finite, Plain PROVE Spec => []ReceivesOnce
  OBVIOUS
<1> DEFINE Inv == TypeInv /\ (misread \/ (Own /\ AcceptInv /\ RecvInv /\ Turns))
<1>1. Init => Inv
  BY InitType, InitOwn, InitAccept, InitRecv, InitTurnsRecv
<1>2. Inv /\ [Next]_vars => Inv'
  <2> SUFFICES ASSUME Inv, [Next]_vars, ~misread'
               PROVE  (Own /\ AcceptInv /\ RecvInv /\ Turns)'
    BY NextType
  <2>1. Own /\ AcceptInv /\ RecvInv /\ Turns
    BY MisreadStays
  <2> QED BY <2>1, NextOwn, NextAccept, NextRecv, NextTurns DEF Plain
<1>3. Inv => ReceivesOnce
  BY DEF Turns, ReceivesOnce, TypeInv, TypeOK, PortTypeOK
<1> QED BY <1>1, <1>2, <1>3, PTL DEF Spec
=============================================================================
