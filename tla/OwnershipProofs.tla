--------------------------- MODULE OwnershipProofs ---------------------------
(***************************************************************************)
(* No lock guards a PerIOData object.  What keeps two workers, or a worker *)
(* and the kernel, apart is that an object is awaited by one accept or     *)
(* receive, or by its packet, or held by one worker.  This is Own, which   *)
(* every step keeps that misreads no packet, whichever free block operator *)
(* new hands out: sends may name blocks that are free or in other use.     *)
(***************************************************************************)
EXTENDS HttpServerProofs

(* What the object at c is to an operation or a packet of kind k that      *)
(* names it.  The object of an accept or a receive is there and has the    *)
(* type k.  The one of a send may be gone, but while it has not been       *)
(* replaced it has the type of a send.                                     *)
KindKept(c, k) ==
    /\ k \in {ACCEPT_POSTED, RECV_POSTED, SEND_POSTED}
    /\ k = SEND_POSTED => (c \in live \ reused => op[c] = SEND_POSTED)
    /\ k # SEND_POSTED => c \in live /\ op[c] = k

WaitsIrp(i) == Busy(i) /\ irp[i].kind # SEND_POSTED
WaitsPacket(n) == port[n].kind # SEND_POSTED

OneIrp ==
    \A i, j \in Irps :
        WaitsIrp(i) /\ WaitsIrp(j) /\ irp[i].cell = irp[j].cell => i = j
IrpOrPacket ==
    \A i \in Irps, n \in 1..Len(port) :
        WaitsIrp(i) /\ WaitsPacket(n) => irp[i].cell # port[n].cell
OnePacket ==
    \A m, n \in 1..Len(port) :
        WaitsPacket(m) /\ WaitsPacket(n) /\ port[m].cell = port[n].cell => m = n
IrpKind == \A i \in Irps : Busy(i) => KindKept(irp[i].cell, irp[i].kind)
PacketKind == \A n \in 1..Len(port) : KindKept(port[n].cell, port[n].kind)

(* Each awaited object is awaited once, and under its own type.            *)
NamedOnce == OneIrp /\ IrpOrPacket /\ OnePacket /\ IrpKind /\ PacketKind

Exclusive ==
    \A w \in Workers : Holding(w) =>
        /\ wcell[w] \in live
        /\ \A x \in Workers \ {w} : Holding(x) => wcell[x] # wcell[w]
        /\ ~Awaited(wcell[w])

(* The type t of the object that a worker at l holds.                      *)
TypedFor(l, t) ==
    /\ l \in {"send", "remove"} => t = SEND_POSTED
    /\ l = "recv" => t = RECV_POSTED
HeldTyped == \A w \in Workers : TypedFor(wpc[w], op[wcell[w]])

Own == NamedOnce /\ Exclusive /\ HeldTyped /\ NoCrash

OwnInv == misread \/ Own
-----------------------------------------------------------------------------
(* Lemmas about NamedOnce.                                                 *)
LEMMA AwaitedDef ==
    ASSUME PortTypeOK, NEW c
    PROVE  /\ Awaited(c) <=> \/ \E i \in Irps : WaitsIrp(i) /\ irp[i].cell = c
                             \/ \E n \in 1..Len(port) :
                                    WaitsPacket(n) /\ port[n].cell = c
           /\ Referenced(c) <=> \/ \E i \in Irps : Busy(i) /\ irp[i].cell = c
                                \/ \E n \in 1..Len(port) : port[n].cell = c
           /\ Awaited(c) => Referenced(c)
<1>1. DOMAIN port = 1..Len(port)
  BY LenProperties DEF PortTypeOK
<1> QED BY <1>1 DEF Awaited, Referenced, WaitsIrp, WaitsPacket

LEMMA CellsNamed ==
    ASSUME PortTypeOK
    PROVE  /\ \A i \in Irps : Busy(i) => irp[i].cell \in Cells
           /\ \A n \in 1..Len(port) : port[n].cell \in Cells
<1>1. \A i \in Irps : Busy(i) => irp[i].cell \in Cells
  BY DEF PortTypeOK, Busy, Operation
<1>2. \A n \in 1..Len(port) : port[n] \in Packet
  BY ElementOfSeq DEF PortTypeOK
<1> QED BY <1>1, <1>2 DEF Packet

LEMMA AwaitedLive ==
    ASSUME PortTypeOK, NamedOnce, NEW c, Awaited(c)
    PROVE  c \in live
<1>1. CASE \E i \in Irps : WaitsIrp(i) /\ irp[i].cell = c
  BY <1>1 DEF NamedOnce, IrpKind, KindKept, WaitsIrp
<1>2. CASE \E n \in 1..Len(port) : WaitsPacket(n) /\ port[n].cell = c
  BY <1>2 DEF NamedOnce, PacketKind, KindKept, WaitsPacket
<1> QED BY <1>1, <1>2, AwaitedDef

(* A step does not turn the object of a send that is still named into      *)
(* another one, or marks it as replaced.                                   *)
Steady(c) ==
    c \in live' \ reused' =>
        \/ ~Referenced(c)
        \/ op'[c] = SEND_POSTED
        \/ c \in live \ reused /\ op'[c] = op[c]

(* An operation or packet that stays keeps what it is promised.            *)
LEMMA KindStays ==
    ASSUME NEW c \in Cells, NEW k, KindKept(c, k), Steady(c), Referenced(c),
           k # SEND_POSTED => op'[c] = op[c] /\ c \in live'
    PROVE  KindKept(c, k)'
BY DEF KindKept, Steady

(* Changes to objects that nobody awaits keep every awaited object.        *)
LEMMA KeepNamed ==
    ASSUME PortTypeOK, NamedOnce, irp' = irp, port' = port,
           \A c \in Cells : Steady(c),
           \A c \in Cells : Awaited(c) => op'[c] = op[c] /\ c \in live'
    PROVE  NamedOnce' /\ \A e : Awaited(e)' <=> Awaited(e)
<1>1. OneIrp' /\ IrpOrPacket' /\ OnePacket'
  BY DEF NamedOnce, OneIrp, IrpOrPacket, OnePacket, WaitsIrp, WaitsPacket, Busy
<1>2. ASSUME NEW i \in Irps, Busy(i)
      PROVE  KindKept(irp[i].cell, irp[i].kind)'
  <2> DEFINE c == irp[i].cell
             k == irp[i].kind
  <2>1. c \in Cells /\ KindKept(c, k) /\ Referenced(c)
    BY <1>2, CellsNamed, AwaitedDef DEF NamedOnce, IrpKind
  <2>2. k # SEND_POSTED => op'[c] = op[c] /\ c \in live'
    BY <1>2, <2>1, AwaitedDef DEF WaitsIrp
  <2>3. Steady(c)
    BY <2>1
  <2>4. \A e \in Cells : \A l : e = c /\ l = k => KindKept(e, l)'
    BY <2>1, <2>2, <2>3, KindStays
  <2>5. c' = c /\ k' = k
    OBVIOUS
  <2> QED BY <2>1, <2>4, <2>5 DEF KindKept
<1>3. ASSUME NEW n \in 1..Len(port)
      PROVE  KindKept(port[n].cell, port[n].kind)'
  <2> DEFINE c == port[n].cell
             k == port[n].kind
  <2>1. c \in Cells /\ KindKept(c, k) /\ Referenced(c)
    BY <1>3, CellsNamed, AwaitedDef DEF NamedOnce, PacketKind
  <2>2. k # SEND_POSTED => op'[c] = op[c] /\ c \in live'
    BY <1>3, <2>1, AwaitedDef DEF WaitsPacket
  <2>3. Steady(c)
    BY <2>1
  <2> QED BY <2>1, <2>2, <2>3 DEF KindKept, Steady
<1>4. \A e : Awaited(e)' <=> Awaited(e)
  BY DEF Awaited, Busy
<1> QED BY <1>1, <1>2, <1>3, <1>4 DEF NamedOnce, IrpKind, PacketKind, Busy

(* Posting an operation on a live object that nobody awaits.               *)
LEMMA PostNamed ==
    ASSUME PortTypeOK, NamedOnce, NEW c \in Cells, NEW k, NEW s, NEW d,
           NEW t \in {ACCEPT_POSTED, RECV_POSTED, SEND_POSTED},
           ~Awaited(c), c \in live', op'[c] = t, port' = port,
           \A e \in Cells : Steady(e),
           \A e \in Cells \ {c} : op'[e] = op[e] /\ (e \in live => e \in live'),
           Overlapped(c, k, t, s, d)
    PROVE  /\ NamedOnce'
           /\ \A e \in Cells \ {c} : Awaited(e)' => Awaited(e)
           /\ t = SEND_POSTED => ~Awaited(c)'
<1> DEFINE o == [cell |-> c, key |-> k, kind |-> t, sock |-> s, wild |-> d]
<1>1. PICK i \in Irps : ~Busy(i) /\ irp' = [irp EXCEPT ![i] = o]
  BY DEF Overlapped
<1>2. /\ irp'[i] = o
      /\ \A j \in Irps \ {i} : irp'[j] = irp[j]
  BY <1>1 DEF PortTypeOK
<1>3. \A j \in Irps : WaitsIrp(j) => irp[j].cell \in Cells \ {c}
  BY CellsNamed, AwaitedDef DEF WaitsIrp
<1>4. \A n \in 1..Len(port) : WaitsPacket(n) => port[n].cell \in Cells \ {c}
  BY CellsNamed, AwaitedDef
<1>5. OneIrp'
  BY <1>2, <1>3 DEF NamedOnce, OneIrp, WaitsIrp, Busy
<1>6. IrpOrPacket' /\ OnePacket'
  BY <1>2, <1>4 DEF NamedOnce, IrpOrPacket, OnePacket, WaitsIrp, WaitsPacket, Busy
<1>7. ASSUME NEW j \in Irps, irp'[j] # Idle
      PROVE  KindKept(irp[j].cell, irp[j].kind)'
  <2>1. CASE j = i
    BY <1>2, <2>1 DEF KindKept
  <2>2. CASE j # i
    <3>1. Busy(j) /\ irp'[j] = irp[j]
      BY <1>2, <1>7, <2>2 DEF Busy
    <3>2. /\ irp[j].cell \in Cells /\ KindKept(irp[j].cell, irp[j].kind)
          /\ Referenced(irp[j].cell)
      BY <3>1, CellsNamed, AwaitedDef DEF NamedOnce, IrpKind
    <3>3. irp[j].kind # SEND_POSTED => irp[j].cell \in Cells \ {c}
      BY <1>3, <3>1 DEF WaitsIrp
    <3>4. Steady(irp[j].cell)
      BY <3>2
    <3> QED BY <3>1, <3>2, <3>3, <3>4 DEF KindKept, Steady
  <2> QED BY <2>1, <2>2
<1>8. ASSUME NEW n \in 1..Len(port)
      PROVE  KindKept(port[n].cell, port[n].kind)'
  <2>1. /\ port[n].cell \in Cells /\ KindKept(port[n].cell, port[n].kind)
        /\ Referenced(port[n].cell)
    BY <1>8, CellsNamed, AwaitedDef DEF NamedOnce, PacketKind
  <2>2. port[n].kind # SEND_POSTED => port[n].cell \in Cells \ {c}
    BY <1>4, <1>8 DEF WaitsPacket
  <2>3. Steady(port[n].cell)
    BY <2>1
  <2> QED BY <2>1, <2>2, <2>3 DEF KindKept, Steady
<1>9. NamedOnce'
  BY <1>5, <1>6, <1>7, <1>8 DEF NamedOnce, IrpKind, PacketKind, Busy
<1>10. ASSUME NEW e \in Cells, Awaited(e)', e # c \/ t = SEND_POSTED
       PROVE  Awaited(e)
  <2>1. CASE \E j \in Irps : irp'[j] # Idle /\ irp'[j].cell = e
                                           /\ irp'[j].kind # SEND_POSTED
    BY <1>2, <1>10, <2>1 DEF Awaited, Busy
  <2>2. CASE \E n \in DOMAIN port : port[n].cell = e /\ port[n].kind # SEND_POSTED
    BY <2>2 DEF Awaited
  <2> QED BY <1>10, <2>1, <2>2 DEF Awaited, Busy
<1> QED BY <1>9, <1>10

(* A completion hands the name on from the operation to its packet.        *)
LEMMA CompleteNamed ==
    ASSUME PortTypeOK, NamedOnce, NEW i \in Irps, Busy(i), NEW ok, NEW n,
           Complete(i, ok, n), live' = live, op' = op, reused' = reused
    PROVE  NamedOnce' /\ \A e \in Cells : Awaited(e)' => Awaited(e)
<1> DEFINE p == [cell |-> irp[i].cell, key |-> irp[i].key,
                 kind |-> irp[i].kind, ok |-> ok, n |-> n]
           len == Len(port)
<1>1. /\ irp'[i] = Idle
      /\ \A j \in Irps \ {i} : irp'[j] = irp[j]
  BY DEF Complete, PortTypeOK
<1>2. /\ len \in Nat /\ Len(port') = len + 1
      /\ port'[len + 1] = p
      /\ \A m \in 1..len : port'[m] = port[m]
      /\ DOMAIN port' = 1..(len + 1) /\ DOMAIN port = 1..len
  BY DEF Complete, PortTypeOK
<1> HIDE DEF len
<1> USE DEF WaitsIrp, WaitsPacket
<1>3. OneIrp'
  BY <1>1 DEF NamedOnce, OneIrp, Busy
<1>4. IrpOrPacket'
  BY <1>1, <1>2 DEF NamedOnce, OneIrp, IrpOrPacket, Busy, len
<1>5. OnePacket'
  BY <1>2 DEF NamedOnce, IrpOrPacket, OnePacket, len
<1>6. IrpKind'
  BY <1>1 DEF NamedOnce, IrpKind, KindKept, Busy
<1>7. PacketKind'
  BY <1>2 DEF NamedOnce, IrpKind, PacketKind, KindKept, len
<1>8. ASSUME NEW e \in Cells, Awaited(e)' PROVE Awaited(e)
  <2>1. CASE \E j \in Irps : irp'[j] # Idle /\ irp'[j].cell = e
                                           /\ irp'[j].kind # SEND_POSTED
    BY <1>1, <2>1 DEF Awaited, Busy
  <2>2. CASE \E m \in 1..(len + 1) : port'[m].cell = e
                                     /\ port'[m].kind # SEND_POSTED
    BY <1>2, <2>2 DEF Awaited
  <2> QED BY <1>2, <1>8, <2>1, <2>2 DEF Awaited, Busy
<1> QED BY <1>3, <1>4, <1>5, <1>6, <1>7, <1>8 DEF NamedOnce

(* The worker that takes a packet takes its name along.                    *)
LEMMA TakeNamed ==
    ASSUME PortTypeOK, NamedOnce, port # <<>>, port' = Tail(port), irp' = irp,
           live' = live, op' = op, reused' = reused
    PROVE  /\ NamedOnce'
           /\ \A e \in Cells : Awaited(e)' => Awaited(e)
           /\ \E c \in Cells :
                 /\ c = Head(port).cell
                 /\ KindKept(c, Head(port).kind)
                 /\ Head(port).kind # SEND_POSTED => Awaited(c) /\ ~Awaited(c)'
<1> DEFINE len == Len(port)
<1>1. /\ port \in Seq(Packet) /\ len \in Nat \ {0}
      /\ Head(port) = port[1]
      /\ Len(port') = len - 1
      /\ \A m \in 1..(len - 1) : port'[m] = port[m + 1]
      /\ DOMAIN port = 1..len /\ DOMAIN port' = 1..(len - 1)
  BY HeadTailProperties, LenProperties, EmptySeq DEF PortTypeOK
<1> HIDE DEF len
<1> USE DEF WaitsIrp, WaitsPacket
<1>2. OneIrp' /\ IrpKind'
  BY DEF NamedOnce, OneIrp, IrpKind, KindKept, Busy
<1>3. IrpOrPacket'
  BY <1>1 DEF NamedOnce, IrpOrPacket, Busy, len
<1>4. OnePacket'
  BY <1>1 DEF NamedOnce, OnePacket, len
<1>5. PacketKind'
  BY <1>1 DEF NamedOnce, PacketKind, KindKept, len
<1>6. ASSUME NEW e \in Cells, Awaited(e)' PROVE Awaited(e)
  <2>1. CASE \E j \in Irps : irp[j] # Idle /\ irp[j].cell = e
                                          /\ irp[j].kind # SEND_POSTED
    BY <2>1 DEF Awaited, Busy
  <2>2. CASE \E m \in 1..(len - 1) : port'[m].cell = e
                                     /\ port'[m].kind # SEND_POSTED
    BY <1>1, <2>2 DEF Awaited
  <2> QED BY <1>1, <1>6, <2>1, <2>2 DEF Awaited, Busy
<1>7. PICK c \in Cells : c = port[1].cell
  BY <1>1, CellsNamed DEF len
<1>8. port[1].kind # SEND_POSTED => ~Awaited(c)'
  <2>1. ASSUME NEW j \in Irps, irp[j] # Idle, irp[j].kind # SEND_POSTED,
               port[1].kind # SEND_POSTED
        PROVE  irp[j].cell # c
    BY <1>1, <1>7, <2>1 DEF NamedOnce, IrpOrPacket, Busy, len
  <2>2. ASSUME NEW m \in 1..(len - 1), port'[m].kind # SEND_POSTED,
               port[1].kind # SEND_POSTED
        PROVE  port'[m].cell # c
    BY <1>1, <1>7, <2>2 DEF NamedOnce, OnePacket, len
  <2> QED BY <1>1, <2>1, <2>2 DEF Awaited, Busy
<1>9. /\ c = Head(port).cell /\ KindKept(c, Head(port).kind)
      /\ port[1].kind # SEND_POSTED => Awaited(c)
  BY <1>1, <1>7 DEF NamedOnce, PacketKind, Awaited, len
<1> QED BY <1>1, <1>2, <1>3, <1>4, <1>5, <1>6, <1>7, <1>8, <1>9 DEF NamedOnce

(* An operation on a new object: no live object and no name is touched.    *)
LEMMA NewNamed ==
    ASSUME HeapTypeOK, PortTypeOK, NamedOnce, port' = port,
           (\E s \in Socks : PostNewRecv(s)) \/ PostNewAccept
    PROVE  /\ NamedOnce'
           /\ live \subseteq live'
           /\ \A e \in live : op'[e] = op[e] /\ (Awaited(e)' => Awaited(e))
<1>1. PICK c \in Fresh :
        /\ New(c)
        /\ (\E s \in Socks : PostRecv(s, c, "own")) \/ PostAcceptEx(c)
  BY DEF PostNewRecv, PostNewAccept
<1>2. c \in Cells /\ c \notin live
  BY DEF Fresh
<1>3. ~Awaited(c)
  BY <1>2, AwaitedLive
<1>4. /\ live' = live \cup {c}
      /\ Referenced(c) => reused' = reused \cup {c}
      /\ ~Referenced(c) => reused' = reused \ {c}
  BY <1>1 DEF New, GetNewIOData
<1>5. PICK t \in OpTypes : op' = [op EXCEPT ![c] = t]
  BY <1>1 DEF PostRecv, PostAcceptEx, OpTypes
<1>6. \A e \in Cells \ {c} : op'[e] = op[e] /\ (e \in live => e \in live')
  BY <1>4, <1>5 DEF HeapTypeOK
<1>7. \A e \in Cells : Steady(e)
  BY <1>4, <1>6 DEF Steady
<1>8. CASE irp' = irp
  <2>1. \A e \in Cells : Awaited(e) => op'[e] = op[e] /\ e \in live'
    BY <1>3, <1>6, AwaitedLive
  <2>2. NamedOnce' /\ \A e : Awaited(e)' <=> Awaited(e)
    BY <1>7, <1>8, <2>1, KeepNamed
  <2> QED BY <1>2, <1>4, <1>6, <2>2 DEF HeapTypeOK
<1>9. ASSUME NEW k, NEW s, NEW d, NEW u \in {ACCEPT_POSTED, RECV_POSTED},
             Overlapped(c, k, u, s, d), op' = [op EXCEPT ![c] = u]
      PROVE  /\ NamedOnce'
             /\ \A e \in Cells \ {c} : Awaited(e)' => Awaited(e)
  <2>1. op'[c] = u /\ c \in live'
    BY <1>2, <1>4, <1>9 DEF HeapTypeOK
  <2>2. u \in {ACCEPT_POSTED, RECV_POSTED, SEND_POSTED}
    OBVIOUS
  <2> QED BY <1>2, <1>3, <1>6, <1>7, <1>9, <2>1, <2>2, PostNamed
<1>10. \/ irp' = irp
       \/ \E k, s, d : \E u \in {ACCEPT_POSTED, RECV_POSTED} :
             Overlapped(c, k, u, s, d) /\ op' = [op EXCEPT ![c] = u]
  <2>1. ASSUME NEW s \in Socks, PostRecv(s, c, "own")
        PROVE  irp' = irp \/ \E d : /\ Overlapped(c, s, RECV_POSTED, s, d)
                                    /\ op' = [op EXCEPT ![c] = RECV_POSTED]
    BY <2>1, Zenon DEF PostRecv
  <2>2. ASSUME PostAcceptEx(c)
        PROVE  irp' = irp \/ \E s, d :
                                /\ Overlapped(c, Listen, ACCEPT_POSTED, s, d)
                                /\ op' = [op EXCEPT ![c] = ACCEPT_POSTED]
    BY <2>2, Zenon DEF PostAcceptEx
  <2> QED BY <1>1, <2>1, <2>2
<1> QED BY <1>2, <1>4, <1>6, <1>8, <1>9, <1>10 DEF HeapTypeOK
-----------------------------------------------------------------------------
(* A step of worker w, or of no worker, keeps Exclusive and HeldTyped if   *)
(* it leaves the objects that the other workers hold as they are and hands *)
(* w only an object that nobody else holds.                                *)
LEMMA OthersKeep ==
    ASSUME TypeInv, TypeInv', Own, NEW w \in Workers,
           \A x \in Workers \ {w} : wpc'[x] = wpc[x] /\ wcell'[x] = wcell[x],
           \A x \in Workers \ {w} : \A e \in Cells :
               Holding(x) /\ wcell[x] = e =>
                   e \in live' /\ op'[e] = op[e] /\ (Awaited(e)' => Awaited(e)),
           \A e \in Cells :
               Holding(w)' /\ wcell'[w] = e =>
                   /\ e \in live'
                   /\ ~Awaited(e)'
                   /\ TypedFor(wpc'[w], op'[e])
                   /\ \A x \in Workers \ {w} : Holding(x) => wcell[x] # e
    PROVE  Exclusive' /\ HeldTyped'
<1>1. wcell \in [Workers -> Cells] /\ wcell' \in [Workers -> Cells]
  BY DEF TypeInv, TypeOK, ServerTypeOK
<1>2. \A x \in Workers \ {w} : Holding(x)' <=> Holding(x)
  BY DEF Holding
<1>3. ASSUME NEW y \in Workers, Holding(y)'
      PROVE  /\ wcell'[y] \in live'
             /\ \A x \in Workers \ {y} : Holding(x)' => wcell'[x] # wcell'[y]
             /\ ~Awaited(wcell[y])'
             /\ TypedFor(wpc'[y], op'[wcell'[y]])
  <2>1. PICK e \in Cells : e = wcell'[y]
    BY <1>1
  <2>2. CASE y = w
    <3>1. /\ e \in live'
          /\ ~Awaited(e)'
          /\ TypedFor(wpc'[w], op'[e])
          /\ \A x \in Workers \ {w} : Holding(x) => wcell[x] # e
      BY <1>3, <2>1, <2>2
    <3>2. ~Awaited(wcell[y])'
      BY <2>1, <2>2, <3>1 DEF Awaited, Busy
    <3> QED BY <1>2, <2>1, <2>2, <3>1, <3>2
  <2>3. CASE y # w
    <3>1. Holding(y) /\ wcell[y] = e /\ wpc'[y] = wpc[y]
      BY <1>2, <1>3, <2>1, <2>3
    <3>2. e \in live' /\ op'[e] = op[e] /\ (Awaited(e)' => Awaited(e))
      BY <2>3, <3>1
    <3>3. ~Awaited(e)
      BY <3>1 DEF Own, Exclusive
    <3>4. ~Awaited(wcell[y])'
      BY <2>1, <3>1, <3>2, <3>3 DEF Awaited, Busy
    <3>5. TypedFor(wpc[y], op[e])
      BY <3>1 DEF Own, HeldTyped
    <3>6. ASSUME NEW x \in Workers \ {y}, Holding(x)'
          PROVE  wcell'[x] # e
      <4>1. CASE x = w
        BY <1>1, <2>3, <3>1, <3>6, <4>1
      <4>2. CASE x # w
        BY <1>2, <3>1, <3>6, <4>2 DEF Own, Exclusive
      <4> QED BY <4>1, <4>2
    <3> QED BY <2>1, <3>1, <3>2, <3>4, <3>5, <3>6
  <2> QED BY <2>2, <2>3
<1>4. Exclusive'
  BY <1>3 DEF Exclusive
<1>5. HeldTyped'
  BY <1>3 DEF HeldTyped, TypedFor, Holding
<1> QED BY <1>4, <1>5

(* A packet that is not misread finds the object it was queued for.        *)
LEMMA ReadRight ==
    ASSUME TypeInv, Own, NEW p \in Packet, KindKept(p.cell, p.kind),
           NEW t \in TypeRead(p.cell), Dispatched(p, t), ~Misreads(p, t)
    PROVE  t = p.kind /\ p.cell \in live /\ op[p.cell] = t
BY DEF KindKept, TypeRead, Dispatched, Misreads, ACCEPT_POSTED, RECV_POSTED,
       SEND_POSTED, NULL_POSTED

LEMMA WorkerThreadOwn ==
    ASSUME TypeInv, TypeInv', Own, NEW w \in Workers, WorkerThread(w), ~misread'
    PROVE  Own'
<1> USE DEF TypeInv, TypeOK
<1>1. /\ port # <<>> /\ port' = Tail(port) /\ irp' = irp
      /\ live' = live /\ op' = op /\ crashed' = crashed /\ reused' = reused
  BY DEF WorkerThread, heapVars
<1>2. /\ NamedOnce'
      /\ \A e \in Cells : Awaited(e)' => Awaited(e)
  BY <1>1, TakeNamed DEF Own
<1>3. PICK c \in Cells : /\ c = Head(port).cell
                         /\ KindKept(c, Head(port).kind)
                         /\ Head(port).kind # SEND_POSTED =>
                                Awaited(c) /\ ~Awaited(c)'
  BY <1>1, TakeNamed DEF Own
<1>4. NoCrash'
  BY <1>1 DEF Own, NoCrash
<1>5. PICK t \in TypeRead(c) :
          IF Dispatched(Head(port), t)
          THEN /\ Goto(w, IF t = ACCEPT_POSTED THEN "accept" ELSE "recv")
               /\ wcell' = [wcell EXCEPT ![w] = c]
               /\ misread' = (misread \/ Misreads(Head(port), t))
          ELSE UNCHANGED <<wpc, wcell>>
  BY <1>3 DEF WorkerThread, workVars
<1>6. CASE ~Dispatched(Head(port), t)
  <2>1. UNCHANGED <<wpc, wcell>>
    BY <1>5, <1>6
  <2>2. ASSUME NEW e \in Cells, Holding(w)', wcell'[w] = e
        PROVE  /\ e \in live'
               /\ ~Awaited(e)'
               /\ \A x \in Workers \ {w} : Holding(x) => wcell[x] # e
    BY <1>1, <1>2, <2>1, <2>2 DEF Own, Exclusive, Holding
  <2>3. \A y \in Workers : TypedFor(wpc'[y], op'[wcell'[y]])
    BY <1>1, <2>1 DEF Own, HeldTyped
  <2>4. Exclusive' /\ HeldTyped'
    BY <1>1, <1>2, <2>1, <2>2, <2>3, OthersKeep DEF Own, Exclusive
  <2> QED BY <1>2, <1>4, <2>4 DEF Own
<1>7. CASE Dispatched(Head(port), t)
  <2>1. Head(port) \in Packet
    BY <1>1, HeadTailProperties DEF PortTypeOK
  <2>2. t = Head(port).kind /\ c \in live /\ op[c] = t
    <3> DEFINE p == Head(port)
    <3>1. ~Misreads(p, t)
      BY <1>5, <1>7
    <3>2. p \in Packet /\ p.cell = c /\ KindKept(p.cell, p.kind) /\ Dispatched(p, t)
      BY <1>3, <1>7, <2>1
    <3> HIDE DEF p
    <3>3. t = p.kind /\ p.cell \in live /\ op[p.cell] = t
      BY <1>5, <3>1, <3>2, ReadRight
    <3> QED BY <3>2, <3>3 DEF p
  <2>3. t \in {ACCEPT_POSTED, RECV_POSTED} /\ t # SEND_POSTED
    BY <1>7 DEF Dispatched, ACCEPT_POSTED, RECV_POSTED, SEND_POSTED
  <2>4. Awaited(c) /\ ~Awaited(c)'
    BY <1>3, <2>2, <2>3
  <2>5. /\ wpc'[w] = IF t = ACCEPT_POSTED THEN "accept" ELSE "recv"
        /\ wcell'[w] = c
        /\ \A x \in Workers \ {w} : wpc'[x] = wpc[x] /\ wcell'[x] = wcell[x]
    BY <1>5, <1>7 DEF Goto, ServerTypeOK
  <2>6. TypedFor(wpc'[w], op'[c])
    BY <1>1, <2>2, <2>3, <2>5 DEF TypedFor
  <2>7. \A x \in Workers \ {w} : Holding(x) => wcell[x] # c
    BY <2>4 DEF Own, Exclusive
  <2>8. Exclusive' /\ HeldTyped'
    <3>1. \A x \in Workers \ {w} : \A e \in Cells :
             Holding(x) /\ wcell[x] = e =>
                 e \in live' /\ op'[e] = op[e] /\ (Awaited(e)' => Awaited(e))
      BY <1>1, <1>2 DEF Own, Exclusive
    <3>2. \A e \in Cells :
             Holding(w)' /\ wcell'[w] = e =>
                 /\ e \in live'
                 /\ ~Awaited(e)'
                 /\ TypedFor(wpc'[w], op'[e])
                 /\ \A x \in Workers \ {w} : Holding(x) => wcell[x] # e
      BY <1>1, <2>2, <2>4, <2>5, <2>6, <2>7
    <3> QED BY <2>5, <3>1, <3>2, OthersKeep
  <2> QED BY <1>2, <1>4, <2>8 DEF Own
<1> QED BY <1>6, <1>7
-----------------------------------------------------------------------------
(* A step that moves no worker and takes nothing from a live object.       *)
LEMMA NobodyMoves ==
    ASSUME TypeInv, Own, wpc' = wpc, wcell' = wcell, live \subseteq live',
           \A e \in live : op'[e] = op[e] /\ (Awaited(e)' => Awaited(e))
    PROVE  Exclusive' /\ HeldTyped'
<1>1. ASSUME NEW y \in Workers, Holding(y)
      PROVE  /\ wcell[y] \in live'
             /\ ~Awaited(wcell[y])'
             /\ TypedFor(wpc[y], op'[wcell[y]])
  <2>1. PICK e \in live : e = wcell[y]
    BY <1>1 DEF Own, Exclusive
  <2>2. ~Awaited(e)'
    BY <1>1, <2>1 DEF Own, Exclusive
  <2>3. ~Awaited(wcell[y])'
    BY <2>1, <2>2 DEF Awaited, Busy
  <2> QED BY <1>1, <2>1, <2>3 DEF Own, HeldTyped
<1>2. Exclusive'
  <2>1. \A y \in Workers : Holding(y)' <=> Holding(y)
    BY DEF Holding
  <2>2. ASSUME NEW y \in Workers, Holding(y)'
        PROVE  /\ wcell'[y] \in live'
               /\ \A x \in Workers \ {y} : Holding(x)' => wcell'[x] # wcell'[y]
               /\ ~Awaited(wcell[y])'
    BY <1>1, <2>1, <2>2 DEF Own, Exclusive
  <2> QED BY <2>2 DEF Exclusive
<1>3. HeldTyped'
  BY <1>1 DEF HeldTyped, TypedFor, Holding
<1> QED BY <1>2, <1>3

LEMMA StartPostOwn == ASSUME TypeInv, Own, StartPost PROVE Own'
<1>1. /\ PostNewAccept /\ port' = port /\ wpc' = wpc /\ wcell' = wcell
      /\ crashed' = crashed
  BY DEF StartPost, workVars
<1>2. /\ NamedOnce' /\ live \subseteq live'
      /\ \A e \in live : op'[e] = op[e] /\ (Awaited(e)' => Awaited(e))
  BY <1>1, NewNamed DEF Own, TypeInv, TypeOK
<1>3. Exclusive' /\ HeldTyped'
  BY <1>1, <1>2, NobodyMoves
<1> QED BY <1>1, <1>2, <1>3 DEF Own, NoCrash

LEMMA KernelOwn ==
    ASSUME TypeInv, Own, NEW i \in Irps, Kernel(i), UNCHANGED serverVars
    PROVE  Own'
<1>1. /\ Busy(i) /\ live' = live /\ op' = op /\ reused' = reused
      /\ wpc' = wpc /\ wcell' = wcell /\ crashed' = crashed
      /\ \E ok, n : Complete(i, ok, n)
  BY Zenon DEF Kernel, KernelAccept, KernelRecv, KernelSend, heapVars, workVars,
               serverVars, histVars
<1>2. NamedOnce' /\ \A e \in Cells : Awaited(e)' => Awaited(e)
  BY <1>1, CompleteNamed DEF Own, TypeInv, TypeOK
<1>3. live \subseteq Cells
  BY DEF TypeInv, TypeOK, HeapTypeOK
<1>4. Exclusive' /\ HeldTyped'
  BY <1>1, <1>2, <1>3, NobodyMoves
<1> QED BY <1>1, <1>2, <1>4 DEF Own, NoCrash

(* Clients and stuttering touch none of the variables Own is about.        *)
LEMMA SameOwn ==
    ASSUME Own, UNCHANGED <<live, op, irp, port, wpc, wcell, crashed, reused>>
    PROVE  Own'
BY DEF Own, NamedOnce, OneIrp, IrpOrPacket, OnePacket, IrpKind, PacketKind, KindKept,
       WaitsIrp, WaitsPacket, Exclusive, Holding, HeldTyped, NoCrash, Awaited, Busy
-----------------------------------------------------------------------------
(* The three kinds of step a worker takes inside a handler.                *)
(* It posts an operation on a new object.                                  *)
LEMMA NewStepOwn ==
    ASSUME TypeInv, TypeInv', Own, NEW w \in Workers, NEW l, Goto(w, l),
           (\E s \in Socks : PostNewRecv(s)) \/ PostNewAccept,
           port' = port, wcell' = wcell, crashed' = crashed,
           l \notin {"recv", "send", "remove"}, Holding(w)' => Holding(w)
    PROVE  Own'
<1>1. /\ NamedOnce' /\ live \subseteq live'
      /\ \A e \in live : op'[e] = op[e] /\ (Awaited(e)' => Awaited(e))
  BY NewNamed DEF Own, TypeInv, TypeOK
<1>2. wpc'[w] = l /\ \A x \in Workers \ {w} : wpc'[x] = wpc[x]
  BY DEF Goto, TypeInv, TypeOK, ServerTypeOK
<1>3. \A x \in Workers \ {w} : \A e \in Cells :
         Holding(x) /\ wcell[x] = e =>
             e \in live' /\ op'[e] = op[e] /\ (Awaited(e)' => Awaited(e))
  BY <1>1 DEF Own, Exclusive
<1>4. ASSUME NEW e \in Cells, Holding(w)', wcell[w] = e
      PROVE  /\ e \in live' /\ ~Awaited(e)'
             /\ TypedFor(wpc'[w], op'[e])
             /\ \A x \in Workers \ {w} : Holding(x) => wcell[x] # e
  <2>1. e \in live /\ ~Awaited(e)
    BY <1>4 DEF Own, Exclusive
  <2>2. \A x \in Workers \ {w} : Holding(x) => wcell[x] # e
    BY <1>4 DEF Own, Exclusive
  <2>3. TypedFor(wpc'[w], op'[e])
    BY <1>2 DEF TypedFor
  <2> QED BY <1>1, <1>4, <2>1, <2>2, <2>3
<1>5. Exclusive' /\ HeldTyped'
  BY <1>2, <1>3, <1>4, OthersKeep
<1> QED BY <1>1, <1>5 DEF Own, NoCrash

(* It changes or deletes its own object.                                   *)
LEMMA KeepStepOwn ==
    ASSUME TypeInv, TypeInv', Own, NEW w \in Workers, NEW l, Goto(w, l),
           NEW c \in Cells, c = wcell[w], Holding(w),
           irp' = irp, port' = port, wcell' = wcell, crashed' = crashed,
           reused' = reused, live' \subseteq live,
           \A e \in Cells \ {c} : op'[e] = op[e] /\ (e \in live => e \in live'),
           op'[c] \in {op[c], SEND_POSTED},
           Holding(w)' => c \in live' /\ TypedFor(l, op'[c])
    PROVE  Own'
<1>1. /\ ~Awaited(c)
      /\ \A x \in Workers \ {w} : Holding(x) => wcell[x] # c
  BY DEF Own, Exclusive
<1>2. NamedOnce' /\ \A e : Awaited(e)' <=> Awaited(e)
  <2>1. \A e \in Cells : Steady(e)
    BY DEF Steady
  <2>2. \A e \in Cells : Awaited(e) => op'[e] = op[e] /\ e \in live'
    BY <1>1, AwaitedLive DEF Own, TypeInv, TypeOK
  <2> QED BY <2>1, <2>2, KeepNamed DEF Own, TypeInv, TypeOK
<1>3. wpc'[w] = l /\ \A x \in Workers \ {w} : wpc'[x] = wpc[x]
  BY DEF Goto, TypeInv, TypeOK, ServerTypeOK
<1>4. \A x \in Workers \ {w} : \A e \in Cells :
         Holding(x) /\ wcell[x] = e =>
             e \in live' /\ op'[e] = op[e] /\ (Awaited(e)' => Awaited(e))
  BY <1>1, <1>2 DEF Own, Exclusive
<1>5. \A e \in Cells :
         Holding(w)' /\ wcell'[w] = e =>
             /\ e \in live'
             /\ ~Awaited(e)'
             /\ TypedFor(wpc'[w], op'[e])
             /\ \A x \in Workers \ {w} : Holding(x) => wcell[x] # e
  BY <1>1, <1>2, <1>3
<1>6. Exclusive' /\ HeldTyped'
  BY <1>3, <1>4, <1>5, OthersKeep
<1> QED BY <1>2, <1>6 DEF Own, NoCrash

(* It posts an operation on its own object.                                *)
LEMMA PostStepOwn ==
    ASSUME TypeInv, TypeInv', Own, NEW w \in Workers, NEW l, Goto(w, l),
           NEW c \in Cells, c = wcell[w], Holding(w),
           NEW k, NEW s, NEW d, NEW t \in {RECV_POSTED, SEND_POSTED},
           Overlapped(c, k, t, s, d), op[c] = t, op' = op, live' = live,
           port' = port, wcell' = wcell, crashed' = crashed, reused' = reused,
           Holding(w)' => l = "remove" /\ t = SEND_POSTED
    PROVE  Own'
<1>1. /\ c \in live /\ ~Awaited(c)
      /\ \A x \in Workers \ {w} : Holding(x) => wcell[x] # c
  BY DEF Own, Exclusive
<1>2. /\ NamedOnce'
      /\ \A e \in Cells \ {c} : Awaited(e)' => Awaited(e)
      /\ t = SEND_POSTED => ~Awaited(c)'
  <2>1. t \in {ACCEPT_POSTED, RECV_POSTED, SEND_POSTED}
    OBVIOUS
  <2>2. \A e \in Cells : Steady(e)
    BY DEF Steady
  <2> QED BY <1>1, <2>1, <2>2, PostNamed DEF Own, TypeInv, TypeOK
<1>3. wpc'[w] = l /\ \A x \in Workers \ {w} : wpc'[x] = wpc[x]
  BY DEF Goto, TypeInv, TypeOK, ServerTypeOK
<1>4. \A x \in Workers \ {w} : \A e \in Cells :
         Holding(x) /\ wcell[x] = e =>
             e \in live' /\ op'[e] = op[e] /\ (Awaited(e)' => Awaited(e))
  BY <1>1, <1>2 DEF Own, Exclusive
<1>5. \A e \in Cells :
         Holding(w)' /\ wcell'[w] = e =>
             /\ e \in live'
             /\ ~Awaited(e)'
             /\ TypedFor(wpc'[w], op'[e])
             /\ \A x \in Workers \ {w} : Holding(x) => wcell[x] # e
  BY <1>1, <1>2, <1>3 DEF TypedFor
<1>6. Exclusive' /\ HeldTyped'
  BY <1>3, <1>4, <1>5, OthersKeep
<1> QED BY <1>2, <1>6 DEF Own, NoCrash

(* A handler that runs finds its object allocated.                         *)
LEMMA HeldLive ==
    ASSUME Own, NEW w \in Workers, Holding(w)
    PROVE  wcell[w] \in live
BY DEF Own, Exclusive
-----------------------------------------------------------------------------
(* delete of the object of an accept, or of a send.                        *)
LEMMA DeleteOwn ==
    ASSUME TypeInv, TypeInv', Own, NEW w \in Workers,
           wpc[w] \in {"unlisten", "remove"},
           NEW l \in {"repost", "rearm"}, Delete(w, l)
    PROVE  Own'
<1>1. PICK c \in Cells : c = wcell[w]
  BY DEF TypeInv, TypeOK, ServerTypeOK
<1>2. Holding(w)
  BY DEF Holding
<1>3. RemoveIOData(c) /\ Goto(w, l) /\ irp' = irp /\ port' = port
      /\ wcell' = wcell /\ crashed' = crashed /\ reused' = reused
  BY <1>1, <1>2, HeldLive DEF Delete, portVars, histVars
<1>4. live' = live \ {c} /\ op' = op
  BY <1>3 DEF RemoveIOData
<1>5. ~Holding(w)'
  BY <1>3 DEF Holding, Goto, TypeInv, TypeOK, ServerTypeOK
<1> QED BY <1>1, <1>2, <1>3, <1>4, <1>5, KeepStepOwn

LEMMA AcceptingOwn ==
    ASSUME TypeInv, TypeInv', Own, NEW w \in Workers, Accepting(w)
    PROVE  Own'
<1>1. CASE DoAcceptEx(w)
  <2>1. wpc[w] = "accept" /\ Holding(w)
    BY <1>1 DEF DoAcceptEx, Holding
  <2>2. wcell[w] \in live
    BY <2>1, HeldLive
  <2> DEFINE s == acceptsocket[wcell[w]]
  <2>3. /\ \/ Goto(w, "wait") /\ UNCHANGED <<heapVars, irp, reused>>
           \/ s # NoSock /\ PostNewRecv(s) /\ Goto(w, "unlisten")
        /\ UNCHANGED <<port, wcell, crashed>>
    BY <1>1, <2>2 DEF DoAcceptEx
  <2>4. CASE Goto(w, "wait") /\ UNCHANGED <<heapVars, irp, reused>>
    <3>1. ~Holding(w)'
      BY <2>4 DEF Holding, Goto, TypeInv, TypeOK, ServerTypeOK
    <3>2. live' = live /\ op' = op
      BY <2>4 DEF heapVars
    <3>3. PICK c \in Cells : c = wcell[w]
      BY DEF TypeInv, TypeOK, ServerTypeOK
    <3> QED BY <2>1, <2>3, <2>4, <3>1, <3>2, <3>3, KeepStepOwn
  <2>5. CASE s # NoSock /\ PostNewRecv(s) /\ Goto(w, "unlisten")
    <3>1. s \in Socks
      BY <2>2, <2>5 DEF TypeInv, TypeOK, HeapTypeOK
    <3>2. \E r \in Socks : PostNewRecv(r)
      BY <2>5, <3>1
    <3>3. Holding(w)' => Holding(w)
      BY <2>1
    <3> QED BY <2>3, <2>5, <3>2, <3>3, NewStepOwn
  <2> QED BY <2>3, <2>4, <2>5
<1>2. CASE RemoveListen(w)
  BY <1>2, DeleteOwn DEF RemoveListen
<1>3. CASE RepostAccept(w)
  <2>1. /\ PostNewAccept /\ Goto(w, "wait")
        /\ port' = port /\ wcell' = wcell /\ crashed' = crashed
    BY <1>3 DEF RepostAccept
  <2>2. ~Holding(w)'
    BY <2>1 DEF Holding, Goto, TypeInv, TypeOK, ServerTypeOK
  <2> QED BY <2>1, <2>2, NewStepOwn
<1> QED BY <1>1, <1>2, <1>3 DEF Accepting

LEMMA DoRecvOwn ==
    ASSUME TypeInv, TypeInv', Own, NEW w \in Workers, DoRecv(w)
    PROVE  Own'
<1>1. wpc[w] = "recv" /\ Holding(w)
  BY DEF DoRecv, Holding
<1>2. PICK c \in Cells : c = wcell[w]
  BY DEF TypeInv, TypeOK, ServerTypeOK
<1>3. /\ Incomplete(w) \/ PrepareSend(w) \/ Refuse(w)
      /\ live' = live /\ port' = port /\ wcell' = wcell /\ crashed' = crashed
      /\ reused' = reused
  BY <1>1, HeldLive DEF DoRecv, histVars
<1>4. /\ op \in [Cells -> OpTypes] /\ wpc \in [Workers -> PCs]
      /\ op[c] = RECV_POSTED
  BY <1>1, <1>2 DEF TypeInv, TypeOK, HeapTypeOK, ServerTypeOK, Own, HeldTyped, TypedFor
<1>5. CASE Incomplete(w)
  <2>1. PICK d : PostRecv(wkey[w], c, d)
    BY <1>2, <1>5 DEF Incomplete
  <2>2. /\ Goto(w, "rearm") /\ ~Holding(w)'
        /\ op' = op
    BY <1>4, <1>5, <2>1 DEF Incomplete, PostRecv, Goto, Holding
  <2>3. irp' = irp \/ \E b : Overlapped(c, wkey[w], RECV_POSTED, wkey[w], b)
    BY <2>1, Zenon DEF PostRecv
  <2>4. CASE irp' = irp
    BY <1>1, <1>2, <1>3, <2>2, <2>4, KeepStepOwn
  <2>5. CASE \E b : Overlapped(c, wkey[w], RECV_POSTED, wkey[w], b)
    BY <1>1, <1>2, <1>3, <1>4, <2>2, <2>5, PostStepOwn
  <2> QED BY <2>3, <2>4, <2>5
<1>6. CASE PrepareSend(w)
  <2>1. PICK l \in {"send", "rearm"} : Goto(w, l)
    BY <1>6 DEF PrepareSend
  <2>2. /\ irp' = irp /\ op'[c] = SEND_POSTED
        /\ \A e \in Cells \ {c} : op'[e] = op[e]
    BY <1>2, <1>4, <1>6 DEF PrepareSend
  <2>3. c \in live /\ TypedFor(l, op'[c])
    BY <1>1, <1>2, <2>2, HeldLive DEF TypedFor
  <2> QED BY <1>1, <1>2, <1>3, <2>1, <2>2, <2>3, KeepStepOwn
<1>7. CASE Refuse(w)
  <2>1. Goto(w, "wait") /\ ~Holding(w)' /\ op' = op /\ irp' = irp
    BY <1>4, <1>7 DEF Refuse, Goto, Holding
  <2> QED BY <1>1, <1>2, <1>3, <2>1, KeepStepOwn
<1> QED BY <1>3, <1>5, <1>6, <1>7

LEMMA ReceivingOwn ==
    ASSUME TypeInv, TypeInv', Own, NEW w \in Workers, Receiving(w)
    PROVE  Own'
<1>1. PICK c \in Cells : c = wcell[w]
  BY DEF TypeInv, TypeOK, ServerTypeOK
<1>2. wpc \in [Workers -> PCs]
  BY DEF TypeInv, TypeOK, ServerTypeOK
<1>3. CASE PostSend(w)
  <2>1. /\ wpc[w] = "send" /\ Holding(w) /\ op[c] = SEND_POSTED
        /\ live' = live /\ op' = op /\ port' = port /\ wcell' = wcell
        /\ crashed' = crashed /\ reused' = reused
    BY <1>1, <1>3 DEF PostSend, Holding, heapVars, histVars, Own, HeldTyped, TypedFor
  <2>2. \/ /\ Overlapped(c, wkey[w], SEND_POSTED, wkey[w], FALSE)
           /\ Goto(w, "remove")
        \/ irp' = irp /\ Goto(w, "rearm")
    BY <1>1, <1>3 DEF PostSend
  <2>3. CASE /\ Overlapped(c, wkey[w], SEND_POSTED, wkey[w], FALSE)
             /\ Goto(w, "remove")
    BY <1>1, <2>1, <2>3, PostStepOwn
  <2>4. CASE irp' = irp /\ Goto(w, "rearm")
    <3>1. ~Holding(w)'
      BY <1>2, <2>4 DEF Goto, Holding
    <3> QED BY <1>1, <2>1, <2>4, <3>1, KeepStepOwn
  <2> QED BY <2>2, <2>3, <2>4
<1>4. CASE RemoveSent(w)
  BY <1>4, DeleteOwn DEF RemoveSent
<1>5. CASE Rearm(w)
  <2>1. /\ wpc[w] = "rearm" /\ PostNewRecv(wkey[w]) /\ Goto(w, "wait")
        /\ port' = port /\ wcell' = wcell /\ crashed' = crashed
    BY <1>5 DEF Rearm
  <2>2. wkey[w] \in Socks
    BY <2>1 DEF TypeInv, WorkerKeys, RecvPCs
  <2>3. ~Holding(w)'
    BY <1>2, <2>1 DEF Holding, Goto
  <2>4. \E s \in Socks : PostNewRecv(s)
    BY <2>1, <2>2
  <2> QED BY <2>1, <2>3, <2>4, NewStepOwn
<1> QED BY <1>3, <1>4, <1>5, DoRecvOwn DEF Receiving
-----------------------------------------------------------------------------
LEMMA InitOwn == Init => Own
<1> SUFFICES ASSUME Init PROVE Own
  OBVIOUS
<1>1. \A w \in Workers : wpc[w] = "wait"
  BY DEF Init, ServerInit
<1>2. \A i \in Irps : ~Busy(i)
  BY DEF Init, PortInit, Busy
<1>3. Len(port) = 0
  BY DEF Init, PortInit
<1>4. NamedOnce
  BY <1>2, <1>3
  DEF NamedOnce, OneIrp, IrpOrPacket, OnePacket, IrpKind, PacketKind, WaitsIrp
<1>5. Exclusive /\ HeldTyped
  BY <1>1 DEF Exclusive, Holding, HeldTyped, TypedFor
<1> QED BY <1>4, <1>5 DEF Own, NoCrash, Init, ServerInit

(* Once a packet has been misread, this stays on record.                   *)
LEMMA MisreadStays == TypeInv /\ [Next]_vars /\ misread => misread'
<1> SUFFICES ASSUME TypeInv, [Next]_vars, misread PROVE misread'
  OBVIOUS
<1> USE DEF serverVars, histVars
<1>1. ASSUME NEW w \in Workers, Worker(w) PROVE misread'
  <2>1. CASE WorkerThread(w)
    BY <2>1 DEF WorkerThread
  <2>2. CASE Accepting(w)
    BY <2>2 DEF Accepting, DoAcceptEx, RemoveListen, RepostAccept, Delete, Crash
  <2>3. CASE Receiving(w)
    BY <2>3 DEF Receiving, DoRecv, PostSend, RemoveSent, Rearm, Delete, Crash
  <2> QED BY <1>1, <2>1, <2>2, <2>3 DEF Worker
<1>2. CASE StartPost
  BY <1>2 DEF StartPost
<1>3. CASE UNCHANGED serverVars
  BY <1>3
<1>4. CASE UNCHANGED vars
  BY <1>4 DEF vars
<1> QED BY <1>1, <1>2, <1>3, <1>4 DEF Next, Quiet

LEMMA NextOwn == TypeInv /\ Own /\ [Next]_vars => misread' \/ Own'
<1> SUFFICES ASSUME TypeInv, Own, [Next]_vars, ~misread' PROVE Own'
  OBVIOUS
<1>1. TypeInv'
  BY NextType
<1>2. ASSUME NEW w \in Workers, Worker(w) PROVE Own'
  BY <1>1, <1>2, WorkerThreadOwn, AcceptingOwn, ReceivingOwn DEF Worker
<1>3. CASE StartPost
  BY <1>3, StartPostOwn
<1>4. ASSUME NEW i \in Irps, Kernel(i), UNCHANGED serverVars
      PROVE  Own'
  BY <1>4, KernelOwn
<1>5. CASE Client /\ UNCHANGED serverVars
  BY <1>5, SameOwn DEF Client, ClientConnect, ClientSend, ClientClose, heapVars,
                       portVars, workVars, serverVars, histVars
<1>6. CASE UNCHANGED vars
  BY <1>6, SameOwn DEF vars, heapVars, portVars, workVars, serverVars, histVars
<1> QED BY <1>2, <1>3, <1>4, <1>5, <1>6 DEF Next, Quiet

(* Own up to the first misread packet, in every behaviour.                 *)
LEMMA OwnAlways == Spec => [](TypeInv /\ OwnInv)
<1>1. Init => TypeInv /\ OwnInv
  BY InitType, InitOwn DEF OwnInv
<1>2. TypeInv /\ OwnInv /\ [Next]_vars => (TypeInv /\ OwnInv)'
  BY NextType, NextOwn, MisreadStays DEF OwnInv
<1> QED BY <1>1, <1>2, PTL DEF Spec

(* Until a packet is misread no two workers, and no worker and the kernel, *)
(* ever work on one PerIOData object, although the handlers take no lock:  *)
(* for any number of workers, clients and messages, whatever calls fail,   *)
(* and also when operator new reuses at once each block that PostSend      *)
(* frees under a send.                                                     *)
THEOREM Ownership == Spec => []ExclusiveIO
<1>1. TypeInv /\ OwnInv => ExclusiveIO
  BY DEF OwnInv, Own, Exclusive, ExclusiveIO
<1> QED BY <1>1, OwnAlways, PTL

(* Nothing but a misread packet, one whose block got a new object of       *)
(* another type, makes a handler go through a deleted PerIOData object or  *)
(* delete one twice: the delete in PostSend is the only source.            *)
THEOREM CrashByMisread == Spec => []CrashNeedsMisread
<1>1. TypeInv /\ OwnInv => CrashNeedsMisread
  BY DEF OwnInv, Own, NoCrash, CrashNeedsMisread
<1> QED BY <1>1, OwnAlways, PTL

(* Until a packet is misread only sends lead to deleted or replaced        *)
(* objects: whichever block operator new hands out, the object of a        *)
(* pending accept or receive, or of its packet, is the one it was posted   *)
(* on.                                                                     *)
THEOREM SendsDangle == Spec => []OnlySendsDangle
<1>1. TypeInv /\ OwnInv => OnlySendsDangle
  <2> SUFFICES ASSUME TypeInv, Own PROVE OnlySendsDangle
    BY DEF OwnInv, OnlySendsDangle
  <2>1. DOMAIN port = 1..Len(port)
    BY LenProperties DEF TypeInv, TypeOK, PortTypeOK
  <2> QED BY <2>1 DEF Own, NamedOnce, IrpKind, PacketKind, KindKept, OnlySendsDangle
<1> QED BY <1>1, OwnAlways, PTL
=============================================================================
