-------------------------- MODULE MFCMainGUIProofs --------------------------
(***************************************************************************)
(* Proofs about MFCMainGUI for every number of threads, of starts and of   *)
(* packets.  What holds with any set of failing calls comes first; then    *)
(* what Start and Stop achieve when a Start fails, if it does, before it   *)
(* has a port, and when exit packets get lost: nothing is left of a server *)
(* that was stopped, and MFCMainGUI implements the safety part of          *)
(* ServerLifecycle.                                                        *)
(***************************************************************************)
EXTENDS MFCMainGUI, CountingProofs

-----------------------------------------------------------------------------
(* Inside the loops of Start and Stop the slot is a slot, and Start has a  *)
(* number and a port.                                                      *)
InLoops ==
    /\ gui = "spawn" => slot \in Slots
    /\ gui = "exit" => slot \in Slots /\ threadnum = NumThreads
    /\ gui \in {"spawn", "socket", "accept"} =>
          /\ starts \in Ports
          /\ completeport = starts /\ completeport \in openports
          /\ threadnum = NumThreads

(* A thread waits for a port that is open.                                 *)
WaitsOpen == \A t \in Threads : tpc[t] = "wait" => tport[t] \in openports

TypeInv == TypeOK /\ InLoops /\ WaitsOpen

PacketKinds == {"io", "exit"}

(* Packets put into a port and taken off it.                               *)
LEMMA QueueAppend ==
    ASSUME queue \in [Ports -> Seq(PacketKinds)], NEW p \in Ports,
           NEW k \in PacketKinds, queue' = [queue EXCEPT ![p] = Append(@, k)]
    PROVE  queue' \in [Ports -> Seq(PacketKinds)]
BY AppendProperties

LEMMA QueueTail ==
    ASSUME queue \in [Ports -> Seq(PacketKinds)], NEW p \in Ports,
           queue[p] # <<>>, queue' = [queue EXCEPT ![p] = Tail(queue[p])]
    PROVE  queue' \in [Ports -> Seq(PacketKinds)]
BY HeadTailProperties

-----------------------------------------------------------------------------
LEMMA Numbers ==
    /\ 0 \in 0..MaxStarts
    /\ \A n \in 0..MaxStarts : n < MaxStarts => n + 1 \in Ports
    /\ \A p \in Ports : p \in 0..MaxStarts
    /\ \A n \in 1..(NumThreads + 1) : n # NumThreads + 1 <=> n \in Slots
    /\ \A i \in Slots : i \in Nat /\ i + 1 \in 1..(NumThreads + 1)
    /\ \A i \in Slots : i # NumThreads => i + 1 \in Slots
    /\ 1 \in Slots /\ 1 \in 1..(NumThreads + 1) /\ NumThreads # 0
    /\ \A p \in Ports, i \in Slots : <<p, i>> \in Threads
BY GuiAssumption DEF Ports, Slots, Threads

LEMMA TypeInit == ASSUME Init PROVE TypeInv
<1>1. \A p \in Ports : <<>> \in Seq({"io", "exit"})
  BY EmptySeq
<1>2. 0 \in 0..MaxStarts
  BY GuiAssumption
<1> QED BY <1>1, <1>2, Numbers DEF Init, TypeInv, TypeOK, InLoops, WaitsOpen, GuiPCs

LEMMA TypeNext == ASSUME TypeInv, [Next]_vars PROVE TypeInv'
<1> USE Numbers DEF TypeInv, TypeOK, InLoops, WaitsOpen, GuiPCs, guiVars, handleVars, threadVars
<1>1. CASE Login
  BY <1>1 DEF Login
<1>2. CASE StartServer
  <2>1. starts + 1 \in Ports /\ starts' = starts + 1 /\ starts' \in 0..MaxStarts
    BY <1>2 DEF StartServer
  <2>2. /\ completeport' \in 0..MaxStarts /\ openports' \subseteq Ports
        /\ openports \subseteq openports'
        /\ threadnum' \in {0, NumThreads}
        /\ gui' \in {"spawn", "idle"} /\ slot' = 1
    BY <1>2, <2>1 DEF StartServer
  <2>3. InLoops' /\ WaitsOpen'
    BY <1>2, <2>1, <2>2 DEF StartServer
  <2> QED BY <1>2, <2>1, <2>2, <2>3 DEF StartServer
<1>3. CASE BeginThread
  <2>1. slot \in Slots /\ <<starts, slot>> \in Threads
    BY <1>3 DEF BeginThread
  <2>2. threadhandle' \in [Slots -> Threads \cup {Null}]
    BY <1>3, <2>1 DEF BeginThread
  <2>3. openhandles' \subseteq Threads
    BY <1>3, <2>1 DEF BeginThread
  <2>4. tpc' \in [Threads -> {"none", "loop", "wait", "busy", "done"}]
    BY <1>3, <2>1 DEF BeginThread
  <2>5. slot' \in 1..(NumThreads + 1) /\ InLoops'
    BY <1>3, <2>1 DEF BeginThread
  <2> QED BY <1>3, <2>1, <2>2, <2>3, <2>4, <2>5 DEF BeginThread
<1>4. CASE InitializeSocket
  <2>1. starts \in Ports
    BY <1>4 DEF InitializeSocket
  <2>2. ssocket' \in 0..MaxStarts /\ opensocks' \subseteq Ports
    BY <1>4, <2>1 DEF InitializeSocket
  <2> QED BY <1>4, <2>2 DEF InitializeSocket
<1>5. CASE PostAccepts
  <2>1. completeport \in Ports
    BY <1>5 DEF PostAccepts
  <2>2. serving' \subseteq Ports /\ serverruning' \in BOOLEAN
    BY <1>5, <2>1 DEF PostAccepts
  <2> QED BY <1>5, <2>2 DEF PostAccepts
<1>6. CASE StopServer \/ SubmitSqlData \/ OnSysCommand
  BY <1>6 DEF StopServer, SubmitSqlData, OnSysCommand, BeginStop
<1>7. CASE OnOK
  BY <1>7 DEF OnOK
<1>8. CASE PostExit
  <2>1. queue' \in [Ports -> Seq(PacketKinds)]
    BY <1>8, QueueAppend DEF PostExit, PacketKinds
  <2> QED BY <1>8, <2>1 DEF PostExit, PacketKinds
<1>9. CASE WaitForWorkers
  BY <1>9 DEF WaitForWorkers
<1>10. CASE CloseHandles
  BY <1>10 DEF CloseHandles
<1>11. ASSUME NEW t \in Threads, GetStatus(t) PROVE TypeInv'
  BY <1>11 DEF GetStatus
<1>12. ASSUME NEW t \in Threads, HandlePacket(t) PROVE TypeInv'
  BY <1>12 DEF HandlePacket
<1>13. ASSUME NEW t \in Threads, TakePacket(t) PROVE TypeInv'
  <2>1. tport[t] \in Ports /\ queue[tport[t]] # <<>>
    BY <1>13 DEF TakePacket
  <2>2. queue' \in [Ports -> Seq(PacketKinds)]
    BY <1>13, <2>1, QueueTail DEF TakePacket, PacketKinds
  <2> QED BY <1>13, <2>2 DEF TakePacket, PacketKinds
<1>14. ASSUME NEW p \in Ports, IoArrives(p) PROVE TypeInv'
  <2>1. queue' \in [Ports -> Seq(PacketKinds)]
    BY <1>14, QueueAppend DEF IoArrives, PacketKinds
  <2> QED BY <1>14, <2>1 DEF IoArrives, PacketKinds
<1>15. CASE UNCHANGED vars
  BY <1>15 DEF vars
<1> QED
  BY <1>1, <1>2, <1>3, <1>4, <1>5, <1>6, <1>7, <1>8, <1>9, <1>10, <1>11, <1>12,
     <1>13, <1>14, <1>15
  DEF Next, Start, Stop, User, WorkerThread, Ended

(* Every reachable state is well-typed, whatever fails.                    *)
THEOREM TypeCorrect == Spec => []TypeOK
<1>1. Init => TypeInv
  BY TypeInit
<1>2. TypeInv /\ [Next]_vars => TypeInv'
  BY TypeNext
<1>3. TypeInv => TypeOK
  BY DEF TypeInv
<1> QED BY <1>1, <1>2, <1>3, PTL DEF Spec

-----------------------------------------------------------------------------
(* Whatever fails: what keeps the workers of a server that runs alive.     *)

(* The port of the next Start has not been used.                           *)
Numbered ==
    /\ completeport <= starts
    /\ \A p \in openports : p <= starts
    /\ \A p \in Ports : p > starts => queue[p] = <<>>

(* Only Stop posts exit packets, and it closes the port they are in.       *)
HasExit(p) == \E n \in 1..Len(queue[p]) : queue[p][n] = "exit"

ExitsInStop ==
    \A p \in openports : HasExit(p) =>
        p = completeport /\ gui \in {"exit", "wait", "close"}

NotYetRunning ==
    gui \in {"login", "spawn", "socket", "accept", "restart"} => ~serverruning

AliveIfAny(t) == t = Null \/ Alive(t)

HandlesServe ==
    /\ gui = "spawn" => \A i \in Slots : i < slot => AliveIfAny(threadhandle[i])
    /\ gui \in {"socket", "accept"} \/ (gui = "idle" /\ serverruning) =>
           \A i \in Slots : AliveIfAny(threadhandle[i])
    /\ gui = "accept" => ssocket \in opensocks
    /\ gui = "idle" /\ serverruning =>
           /\ completeport \in openports /\ completeport \in serving
           /\ ssocket \in opensocks

ServeInv == TypeInv /\ Numbered /\ ExitsInStop /\ NotYetRunning /\ HandlesServe

(* Whatever fails: the threads in threadhandle are all open or have ended. *)
InTable == {threadhandle[i] : i \in Slots}

JoinInv ==
    /\ gui = "spawn" => \A i \in Slots :
           i < slot => threadhandle[i] = Null \/ threadhandle[i] \in openhandles
    /\ gui # "spawn" /\ Null \notin InTable =>
           InTable \subseteq openhandles \/ \A t \in InTable : tpc[t] = "done"
    /\ gui = "close" /\ Null \notin InTable => \A t \in InTable : tpc[t] = "done"
    /\ threadnum = 0 => InTable = {Null}

-----------------------------------------------------------------------------
LEMMA ServeInit == ASSUME Init PROVE ServeInv
<1>1. TypeInv
  BY TypeInit
<1>2. Numbered /\ NotYetRunning /\ HandlesServe
  BY DEF Init, Numbered, NotYetRunning, HandlesServe, AliveIfAny
<1>3. ExitsInStop
  BY DEF Init, ExitsInStop
<1> QED BY <1>1, <1>2, <1>3 DEF ServeInv

(* Where a queue is not new packets, there is no new exit packet.          *)
LEMMA NoNewExit ==
    ASSUME queue \in [Ports -> Seq(PacketKinds)], NEW p \in Ports,
           queue' \in [Ports -> Seq(PacketKinds)],
           \/ queue' = [queue EXCEPT ![p] = Append(@, "io")]
           \/ queue[p] # <<>> /\ queue' = [queue EXCEPT ![p] = Tail(queue[p])]
    PROVE  \A r \in Ports : HasExit(r)' => HasExit(r)
<1> SUFFICES ASSUME NEW r \in Ports, NEW n \in 1..Len(queue'[r]),
                    queue'[r][n] = "exit"
             PROVE  \E m \in 1..Len(queue[r]) : queue[r][m] = "exit"
  BY DEF HasExit
<1>1. CASE r # p
  BY <1>1
<1>2. CASE r = p /\ queue' = [queue EXCEPT ![p] = Append(@, "io")]
  <2>1. queue'[p] = Append(queue[p], "io") /\ queue[p] \in Seq(PacketKinds)
    BY <1>2
  <2>2. n <= Len(queue[p]) /\ queue'[p][n] = queue[p][n]
    BY <1>2, <2>1, AppendProperties DEF PacketKinds
  <2> QED BY <1>2, <2>2
<1>3. CASE r = p /\ queue[p] # <<>> /\ queue' = [queue EXCEPT ![p] = Tail(queue[p])]
  <2>1. queue'[p] = Tail(queue[p]) /\ queue[p] \in Seq(PacketKinds)
    BY <1>3
  <2>2. n + 1 \in 1..Len(queue[p]) /\ queue'[p][n] = queue[p][n + 1]
    BY <1>3, <2>1, HeadTailProperties
  <2> QED BY <1>3, <2>2
<1> QED BY <1>1, <1>2, <1>3

(* Steps of Start, Stop and the user that post no packet.                  *)
LEMMA ServeGUI ==
    ASSUME ServeInv, TypeInv',
           Login \/ StartServer \/ InitializeSocket \/ PostAccepts
             \/ StopServer \/ SubmitSqlData \/ OnSysCommand \/ OnOK
             \/ WaitForWorkers \/ CloseHandles
    PROVE  Numbered' /\ ExitsInStop' /\ NotYetRunning' /\ HandlesServe'
<1> USE DEF ServeInv, TypeInv, TypeOK
<1>1. queue' = queue /\ \A r \in Ports : HasExit(r)' <=> HasExit(r)
  BY DEF Login, StartServer, InitializeSocket, PostAccepts, StopServer, SubmitSqlData,
         OnSysCommand, BeginStop, OnOK, WaitForWorkers, CloseHandles, HasExit
<1>2. CASE StartServer
  <2>1. /\ starts' = starts + 1 /\ starts + 1 \in Ports
        /\ gui \in {"idle", "restart"} /\ gui' \in {"spawn", "idle"} /\ slot' = 1
        /\ serverruning' = serverruning /\ ~serverruning
        /\ openports' \subseteq openports \cup {starts + 1}
        /\ openports' \subseteq Ports
    BY <1>2, Numbers DEF StartServer, NotYetRunning
  <2>2. ~HasExit(starts + 1)
    <3>1. starts + 1 > starts
      BY DEF TypeOK
    <3>2. queue[starts + 1] = <<>>
      BY <2>1, <3>1 DEF Numbered
    <3>3. Len(queue[starts + 1]) = 0
      BY <3>2
    <3> QED BY <3>3 DEF HasExit
  <2>3. Numbered'
    <3>1. starts \in Nat /\ completeport \in Nat /\ \A p \in Ports : p \in Nat
      BY GuiAssumption DEF Ports
    <3>2. completeport' = starts + 1 \/ completeport' = 0
      BY <1>2 DEF StartServer
    <3>3. completeport' <= starts'
      BY <2>1, <3>1, <3>2
    <3>4. ASSUME NEW p \in openports' PROVE p <= starts'
      <4>1. CASE p \in openports
        <5>1. p <= starts /\ p \in Nat
          BY <3>1, <4>1 DEF Numbered
        <5> QED BY <2>1, <3>1, <5>1
      <4>2. CASE p = starts + 1
        BY <2>1, <3>1, <4>2
      <4> QED BY <2>1, <4>1, <4>2
    <3>5. \A p \in Ports : p > starts' => queue'[p] = <<>>
      BY <1>1, <2>1, <3>1 DEF Numbered
    <3> QED BY <3>3, <3>4, <3>5 DEF Numbered
  <2>4. ExitsInStop'
    BY <1>1, <2>1, <2>2 DEF ExitsInStop
  <2>5. \A i \in Slots : ~(i < 1)
    BY GuiAssumption DEF Slots
  <2> QED BY <2>1, <2>3, <2>4, <2>5 DEF NotYetRunning, HandlesServe
<1>3. CASE CloseHandles
  <2>1. /\ gui = "close" /\ gui' \in {"idle", "restart", "gone"}
        /\ serverruning' = FALSE
        /\ completeport' = completeport /\ starts' = starts
        /\ openports' = openports \ {completeport}
    BY <1>3 DEF CloseHandles
  <2>2. Numbered' /\ ExitsInStop'
    BY <1>1, <2>1 DEF Numbered, ExitsInStop
  <2> QED BY <2>1, <2>2 DEF NotYetRunning, HandlesServe
<1>4. ASSUME Login \/ InitializeSocket \/ PostAccepts \/ StopServer \/ SubmitSqlData
               \/ OnSysCommand \/ OnOK \/ WaitForWorkers
      PROVE  Numbered' /\ ExitsInStop' /\ NotYetRunning' /\ HandlesServe'
  <2>1. /\ starts' = starts /\ completeport' = completeport /\ openports' = openports
        /\ tpc' = tpc /\ threadhandle' = threadhandle
        /\ gui \in {"exit", "wait", "close"} => gui' \in {"exit", "wait", "close"}
    BY <1>4 DEF Login, InitializeSocket, PostAccepts, StopServer, SubmitSqlData,
                OnSysCommand, BeginStop, OnOK, WaitForWorkers, handleVars, threadVars
  <2>2. Numbered'
    BY <1>1, <2>1 DEF Numbered
  <2>3. ExitsInStop'
    BY <1>1, <2>1 DEF ExitsInStop
  <2>4. NotYetRunning'
    BY <1>4 DEF NotYetRunning, Login, InitializeSocket, PostAccepts, StopServer,
                SubmitSqlData, OnSysCommand, BeginStop, OnOK, WaitForWorkers
  <2>5. HandlesServe'
    BY <1>4, <2>1 DEF HandlesServe, AliveIfAny, Alive, NotYetRunning, InLoops, Login,
                InitializeSocket, PostAccepts, StopServer, SubmitSqlData, OnSysCommand,
                BeginStop, OnOK, WaitForWorkers, handleVars
  <2> QED BY <2>2, <2>3, <2>4, <2>5
<1> QED BY <1>2, <1>3, <1>4

LEMMA ServeBeginThread ==
    ASSUME ServeInv, TypeInv', BeginThread
    PROVE  Numbered' /\ ExitsInStop' /\ NotYetRunning' /\ HandlesServe'
<1> USE DEF ServeInv, TypeInv, TypeOK
<1>1. Numbered' /\ NotYetRunning'
  BY DEF BeginThread, Numbered, NotYetRunning
<1>2. ExitsInStop'
  BY DEF BeginThread, ExitsInStop, HasExit
<1>3. slot \in Slots /\ <<starts, slot>> \in Threads /\ slot' = slot + 1
  BY Numbers DEF BeginThread, InLoops
<1>4. threadhandle'[slot] = Null \/ tpc'[threadhandle'[slot]] = "loop"
  BY <1>3 DEF BeginThread
<1>5. \A t \in Threads : Alive(t) => Alive(t)'
  BY <1>3 DEF BeginThread, Alive
<1>6. ASSUME NEW i \in Slots, i # slot PROVE threadhandle'[i] = threadhandle[i]
  BY <1>3, <1>6 DEF BeginThread
<1>7. \A i \in Slots : threadhandle[i] \in Threads \cup {Null}
  OBVIOUS
<1>8. ASSUME NEW i \in Slots, i < slot' PROVE AliveIfAny(threadhandle[i])'
  <2>1. CASE i = slot
    BY <1>4, <2>1 DEF AliveIfAny, Alive
  <2>2. CASE i # slot
    <3>1. i < slot
      BY <1>3, <1>8, <2>2, GuiAssumption DEF Slots
    <3>2. AliveIfAny(threadhandle[i])
      BY <3>1 DEF BeginThread, HandlesServe
    <3> QED BY <1>5, <1>6, <1>7, <2>2, <3>2 DEF AliveIfAny
  <2> QED BY <2>1, <2>2
<1>9. gui' = "socket" => \A i \in Slots : i < slot'
  BY <1>3, GuiAssumption DEF BeginThread, Slots
<1> QED BY <1>1, <1>2, <1>8, <1>9 DEF BeginThread, HandlesServe

(* A worker ends only on an exit packet, and these are only there while    *)
(* Stop runs.                                                              *)
LEMMA ServeQueues ==
    ASSUME ServeInv, TypeInv',
           PostExit \/ (\E t \in Threads : WorkerThread(t)) \/ (\E p \in Ports : IoArrives(p))
    PROVE  Numbered' /\ ExitsInStop' /\ NotYetRunning' /\ HandlesServe'
<1> USE DEF ServeInv, TypeInv, TypeOK
<1>1. CASE PostExit
  <2>1. /\ gui = "exit" /\ gui' \in {"exit", "wait"}
        /\ \A p \in Ports : p # completeport \/ p \notin openports => queue'[p] = queue[p]
    BY <1>1 DEF PostExit
  <2>2. \A p \in Ports : p # completeport => (HasExit(p)' <=> HasExit(p))
    BY <2>1 DEF HasExit
  <2>3. Numbered' /\ NotYetRunning' /\ HandlesServe'
    BY <1>1, <2>1 DEF PostExit, handleVars, Numbered, NotYetRunning, HandlesServe
  <2>4. ExitsInStop'
    BY <1>1, <2>1, <2>2 DEF PostExit, handleVars, ExitsInStop
  <2> QED BY <2>3, <2>4
<1>2. ASSUME NEW t \in Threads, GetStatus(t) \/ HandlePacket(t)
      PROVE  Numbered' /\ ExitsInStop' /\ NotYetRunning' /\ HandlesServe'
  <2>1. Numbered' /\ NotYetRunning'
    BY <1>2 DEF GetStatus, HandlePacket, guiVars, handleVars, Numbered, NotYetRunning
  <2>2. ExitsInStop'
    BY <1>2 DEF GetStatus, HandlePacket, guiVars, handleVars, ExitsInStop, HasExit
  <2>3. \A s \in Threads : Alive(s) => Alive(s)'
    BY <1>2 DEF GetStatus, HandlePacket, Alive
  <2>4. threadhandle' = threadhandle /\ \A i \in Slots : threadhandle[i] \in Threads \cup {Null}
    BY <1>2 DEF GetStatus, HandlePacket, handleVars
  <2>5. \A i \in Slots : AliveIfAny(threadhandle[i]) => AliveIfAny(threadhandle[i])'
    BY <2>3, <2>4 DEF AliveIfAny
  <2>6. HandlesServe'
    BY <1>2, <2>5 DEF GetStatus, HandlePacket, guiVars, handleVars, HandlesServe
  <2> QED BY <2>1, <2>2, <2>6
<1>3. ASSUME NEW t \in Threads, TakePacket(t)
      PROVE  Numbered' /\ ExitsInStop' /\ NotYetRunning' /\ HandlesServe'
  <2> DEFINE p == tport[t]
  <2>1. /\ p \in Ports /\ p \in openports /\ queue[p] # <<>>
        /\ queue' = [queue EXCEPT ![p] = Tail(queue[p])]
    BY <1>3 DEF TakePacket, WaitsOpen
  <2>2. \A r \in Ports : HasExit(r)' => HasExit(r)
    BY <2>1, NoNewExit DEF PacketKinds
  <2>3. Numbered' /\ NotYetRunning'
    BY <1>3, <2>1 DEF TakePacket, guiVars, handleVars, Numbered, NotYetRunning
  <2>4. ExitsInStop'
    BY <1>3, <2>2 DEF TakePacket, guiVars, handleVars, ExitsInStop
  <2>5. CASE Head(queue[p]) = "exit"
    <3>1. HasExit(p)
      BY <2>1, <2>5, HeadTailProperties DEF HasExit
    <3>2. gui \in {"exit", "wait", "close"}
      BY <2>1, <3>1 DEF ExitsInStop
    <3> QED BY <1>3, <2>3, <2>4, <3>2 DEF TakePacket, guiVars, HandlesServe
  <2>6. CASE Head(queue[p]) # "exit"
    <3>1. tpc' = [tpc EXCEPT ![t] = "busy"]
      BY <1>3, <2>6 DEF TakePacket
    <3>2. HandlesServe'
      BY <1>3, <3>1 DEF TakePacket, guiVars, handleVars, HandlesServe, AliveIfAny, Alive
    <3> QED BY <2>3, <2>4, <3>2
  <2> QED BY <2>5, <2>6
<1>4. ASSUME NEW p \in Ports, IoArrives(p)
      PROVE  Numbered' /\ ExitsInStop' /\ NotYetRunning' /\ HandlesServe'
  <2>1. p \in openports /\ queue' = [queue EXCEPT ![p] = Append(@, "io")]
    BY <1>4 DEF IoArrives
  <2>2. \A r \in Ports : HasExit(r)' => HasExit(r)
    BY <2>1, NoNewExit DEF PacketKinds
  <2>3. Numbered'
    <3>1. p <= starts
      BY <2>1 DEF Numbered
    <3>2. \A r \in Ports : r > starts => queue'[r] = queue[r]
      BY <2>1, <3>1 DEF Ports
    <3> QED BY <1>4, <3>2 DEF IoArrives, guiVars, handleVars, Numbered
  <2>4. ExitsInStop' /\ NotYetRunning'
    BY <1>4, <2>2 DEF IoArrives, guiVars, handleVars, ExitsInStop, NotYetRunning
  <2>5. HandlesServe'
    BY <1>4 DEF IoArrives, guiVars, handleVars, threadVars, HandlesServe, AliveIfAny, Alive
  <2> QED BY <2>3, <2>4, <2>5
<1> QED BY <1>1, <1>2, <1>3, <1>4 DEF WorkerThread

LEMMA ServeNext == ASSUME ServeInv, [Next]_vars PROVE ServeInv'
<1>1. TypeInv'
  BY TypeNext DEF ServeInv
<1>2. CASE UNCHANGED vars
  BY <1>1, <1>2 DEF vars, guiVars, handleVars, threadVars, ServeInv, Numbered, ExitsInStop,
     HasExit, NotYetRunning, HandlesServe, AliveIfAny, Alive
<1>3. CASE Next
  BY <1>1, <1>2, <1>3, ServeGUI, ServeBeginThread, ServeQueues
  DEF Next, Start, Stop, User, Ended, ServeInv
<1> QED BY <1>2, <1>3

(* A server shown as running serves, after any history of failures.        *)
THEOREM AlwaysServes == Spec => []RunningServes
<1>1. Init => ServeInv
  BY ServeInit
<1>2. ServeInv /\ [Next]_vars => ServeInv'
  BY ServeNext
<1>3. ServeInv => RunningServes
  <2> SUFFICES ASSUME ServeInv, gui = "idle", serverruning, NEW t \in Handles \ {Null}
               PROVE  Alive(t)
    BY DEF ServeInv, HandlesServe, RunningServes
  <2>1. PICK i \in 1..threadnum : t = threadhandle[i]
    BY DEF Handles
  <2>2. i \in Slots
    BY <2>1, GuiAssumption DEF ServeInv, TypeInv, TypeOK, Slots
  <2> QED BY <2>1, <2>2 DEF ServeInv, HandlesServe, AliveIfAny
<1> QED BY <1>1, <1>2, <1>3, PTL DEF Spec

-----------------------------------------------------------------------------
LEMMA Tables ==
    ASSUME TypeInv
    PROVE  /\ threadnum = NumThreads => Handles = InTable
           /\ threadnum = 0 => Handles = {}
           /\ threadnum = 0 \/ threadnum = NumThreads
<1>1. threadnum = NumThreads => Handles = InTable
  BY DEF Handles, InTable, Slots
<1>2. threadnum = 0 => Handles = {}
  BY DEF Handles
<1> QED BY <1>1, <1>2 DEF TypeInv, TypeOK

(* Steps that change no handle, and after which the threads that had ended *)
(* have still ended.                                                       *)
LEMMA JoinKeep ==
    ASSUME JoinInv, gui # "spawn", gui' # "spawn",
           threadhandle' = threadhandle, openhandles' = openhandles,
           threadnum' = 0 => threadnum = 0,
           \A i \in Slots : tpc[threadhandle[i]] = "done" => tpc'[threadhandle[i]] = "done",
           gui' = "close" => gui = "close"
    PROVE  JoinInv'
<1>1. InTable' = InTable
  BY DEF InTable
<1>2. \A t \in InTable : tpc[t] = "done" => tpc'[t] = "done"
  BY DEF InTable
<1> QED BY <1>1, <1>2 DEF JoinInv

LEMMA JoinBeginThread ==
    ASSUME TypeInv, JoinInv, BeginThread
    PROVE  JoinInv'
<1> USE DEF TypeInv, TypeOK
<1>1. slot \in Slots /\ <<starts, slot>> \in Threads /\ slot' = slot + 1 /\ gui = "spawn"
  BY Numbers DEF BeginThread, InLoops
<1>2. \A i \in Slots : i # slot => threadhandle'[i] = threadhandle[i]
  BY <1>1 DEF BeginThread
<1>3. openhandles \subseteq openhandles'
  BY DEF BeginThread
<1>4. threadhandle'[slot] = Null \/ threadhandle'[slot] \in openhandles'
  BY <1>1 DEF BeginThread
<1>5. \A i \in Slots : i < slot' => i = slot \/ i < slot
  BY <1>1, GuiAssumption DEF Slots
<1>6. \A i \in Slots :
        i < slot' => threadhandle'[i] = Null \/ threadhandle'[i] \in openhandles'
  BY <1>1, <1>2, <1>3, <1>4, <1>5 DEF JoinInv
<1>7. gui' = "spawn" \/ (gui' = "socket" /\ \A i \in Slots : i < slot')
  BY <1>1, GuiAssumption DEF BeginThread, Slots
<1>8. gui' = "socket" /\ (Null \notin InTable)' => (InTable \subseteq openhandles)'
  BY <1>6, <1>7 DEF InTable
<1>9. threadnum' # 0
  BY <1>1, Numbers DEF BeginThread, InLoops
<1> QED BY <1>6, <1>7, <1>8, <1>9 DEF JoinInv

LEMMA JoinNext == ASSUME TypeInv, JoinInv, [Next]_vars PROVE JoinInv'
<1> USE DEF TypeInv, TypeOK
<1>1. \A i \in Slots : threadhandle[i] \in Threads \cup {Null}
  OBVIOUS
<1>2. Null \notin Threads
  BY DEF Threads, Ports, Slots, Null
<1>3. CASE StartServer
  <2>1. CASE gui' = "spawn"
    BY <1>3, <2>1, GuiAssumption DEF StartServer, JoinInv, Slots
  <2>2. CASE gui' # "spawn"
    BY <1>3, <2>2, JoinKeep DEF StartServer, threadVars
  <2> QED BY <2>1, <2>2
<1>4. CASE BeginThread
  BY <1>4, JoinBeginThread
<1>5. CASE InitializeSocket \/ PostAccepts \/ Login \/ StopServer \/ SubmitSqlData
             \/ OnSysCommand \/ OnOK \/ PostExit
  BY <1>5, JoinKeep DEF InitializeSocket, PostAccepts, Login, StopServer, SubmitSqlData,
     OnSysCommand, OnOK, BeginStop, PostExit, handleVars, threadVars
<1>6. CASE WaitForWorkers
  <2>1. gui = "wait" /\ gui' = "close" /\ UNCHANGED <<tpc, handleVars>>
    BY <1>6 DEF WaitForWorkers, threadVars
  <2>2. InTable' = InTable
    BY <2>1 DEF InTable, handleVars
  <2>3. ASSUME Null \notin InTable PROVE \A t \in InTable : tpc[t] = "done"
    <3>1. threadnum # 0
      BY <2>3 DEF JoinInv
    <3>2. Handles = InTable
      BY <3>1, Tables
    <3>3. InTable \subseteq openhandles => \A t \in InTable : tpc[t] = "done"
      BY <1>6, <3>2 DEF WaitForWorkers
    <3> QED BY <2>1, <2>3, <3>3 DEF JoinInv
  <2> QED BY <2>1, <2>2, <2>3 DEF JoinInv, handleVars
<1>7. CASE CloseHandles
  <2>1. gui = "close" /\ gui' \notin {"spawn", "close"}
    BY <1>7 DEF CloseHandles
  <2>2. InTable' = InTable
    BY <1>7 DEF InTable, CloseHandles
  <2>3. \A t \in Threads : tpc[t] = "done" => tpc'[t] = "done"
    BY <1>7 DEF CloseHandles
  <2>4. Null \notin InTable => InTable \subseteq Threads
    BY <1>1 DEF InTable
  <2>5. threadnum' = threadnum
    BY <1>7 DEF CloseHandles
  <2> QED BY <2>1, <2>2, <2>3, <2>4, <2>5 DEF JoinInv
<1>8. ASSUME NEW t \in Threads, WorkerThread(t) PROVE JoinInv'
  <2>1. \A u \in Threads : tpc[u] = "done" => tpc'[u] = "done"
    BY <1>8 DEF WorkerThread, GetStatus, TakePacket, HandlePacket
  <2>2. UNCHANGED <<guiVars, handleVars>>
    BY <1>8 DEF WorkerThread, GetStatus, TakePacket, HandlePacket
  <2>3. InTable' = InTable
    BY <2>2 DEF InTable, handleVars
  <2>4. Null \notin InTable => InTable \subseteq Threads
    BY <1>1 DEF InTable
  <2> QED BY <2>1, <2>2, <2>3, <2>4 DEF JoinInv, guiVars, handleVars
<1>9. ASSUME UNCHANGED <<guiVars, handleVars, tpc>> PROVE JoinInv'
  BY <1>9 DEF JoinInv, InTable, guiVars, handleVars
<1>10. CASE UNCHANGED vars
  BY <1>9, <1>10 DEF vars, threadVars
<1>11. ASSUME NEW p \in Ports, IoArrives(p) PROVE JoinInv'
  BY <1>9, <1>11 DEF IoArrives, threadVars
<1> QED
  BY <1>3, <1>4, <1>5, <1>6, <1>7, <1>8, <1>10, <1>11
  DEF Next, Start, Stop, User, Ended

(* When Stop goes on from its wait, no thread of a complete table is left, *)
(* whatever has failed before.                                             *)
THEOREM Joins == Spec => []JoinsHandles
<1>1. Init => TypeInv /\ JoinInv
  <2>1. Init => JoinInv
    BY Numbers DEF Init, JoinInv, InTable
  <2> QED BY <2>1, TypeInit
<1>2. TypeInv /\ JoinInv /\ [Next]_vars => (TypeInv /\ JoinInv)'
  BY TypeNext, JoinNext
<1>3. TypeInv /\ JoinInv => JoinsHandles
  <2> SUFFICES ASSUME TypeInv, JoinInv, gui = "close", Null \notin Handles
               PROVE  AliveSlots = {}
    BY DEF JoinsHandles
  <2>1. CASE threadnum = 0
    <3>1. \A i \in Slots : threadhandle[i] \in InTable
      BY DEF InTable
    <3>2. \A i \in Slots : threadhandle[i] = Null
      BY <2>1, <3>1 DEF JoinInv
    <3> QED BY <3>2 DEF AliveSlots
  <2>2. CASE threadnum # 0
    <3>1. \A t \in InTable : tpc[t] = "done"
      BY <2>2, Tables DEF JoinInv
    <3> QED BY <3>1 DEF InTable, AliveSlots, Alive
  <2> QED BY <2>1, <2>2
<1> QED BY <1>1, <1>2, <1>3, PTL DEF Spec
-----------------------------------------------------------------------------
(* The calls whose failure leaves no half-started server: the creation of  *)
(* the port, which is the first thing that Start does, and the posting of  *)
(* an exit packet, without which Stop only waits.                          *)
Benign == Faults \subseteq {"port", "post"}

(* Where Start has something open, or the server runs.                     *)
Starting == gui \in {"spawn", "socket", "accept"}
Down     == ~serverruning /\ ~Starting

(* The slots that the loop of InitializeIOCP has filled, and all slots     *)
(* afterwards.                                                             *)
Filled(i) == gui = "spawn" => i < slot

(* threadhandle holds the threads of the latest Start, and no other thread *)
(* is alive.                                                               *)
SlotOwn == \A i \in Slots : threadhandle[i] = Null \/ threadhandle[i][2] = i

LatestTable ==
    ~Down => /\ completeport = starts /\ openports = {starts}
             /\ threadnum = NumThreads
             /\ \A i \in Slots : Filled(i) =>
                    threadhandle[i] = <<starts, i>> /\ <<starts, i>> \in openhandles

LatestAlive ==
    \A t \in Threads : Alive(t) \/ t \in openhandles =>
        \E i \in Slots : t = <<starts, i>> /\ Filled(i)

(* Nothing is left of a server that is down.                               *)
NoneAlive == \A t \in Threads : ~Alive(t)

DownClean == Down => NoneAlive /\ openports = {} /\ openhandles = {}

SocketClean ==
    /\ opensocks \subseteq {ssocket}
    /\ Down \/ gui \in {"spawn", "socket"} => opensocks = {}

StopOrder ==
    /\ gui \in {"login", "restart", "gone"} => Down
    /\ gui = "close" => NoneAlive
    /\ serverruning => ~Starting

CleanInv ==
    SlotOwn /\ LatestTable /\ LatestAlive /\ DownClean /\ SocketClean /\ StopOrder

GoodInv == ServeInv /\ CleanInv

-----------------------------------------------------------------------------
LEMMA CleanInit == ASSUME Init PROVE CleanInv
BY DEF Init, CleanInv, SlotOwn, LatestTable, LatestAlive, DownClean, SocketClean,
       StopOrder, NoneAlive, Alive, Down, Starting, Filled

(* Steps that leave the handles alone and start no thread: inside one      *)
(* stage of Start, or outside of Start.                                    *)
LEMMA CleanKeep ==
    ASSUME CleanInv, UNCHANGED <<handleVars, starts, serverruning>>,
           \A t \in Threads : Alive(t)' => Alive(t),
           \/ UNCHANGED <<gui, slot>>
           \/ /\ ~Starting /\ ~Starting'
              /\ gui' \in {"login", "restart", "gone"} => ~serverruning
              /\ gui' = "close" => NoneAlive
    PROVE  CleanInv'
<1> USE DEF handleVars, Down, Starting
<1>1. (Down' <=> Down) /\ \A i \in Slots : Filled(i)' <=> Filled(i)
  BY DEF Filled
<1>2. NoneAlive => NoneAlive'
  BY DEF NoneAlive
<1>3. SlotOwn' /\ LatestTable'
  BY <1>1 DEF CleanInv, SlotOwn, LatestTable
<1>4. LatestAlive'
  BY <1>1 DEF CleanInv, LatestAlive
<1>5. DownClean' /\ SocketClean' /\ StopOrder'
  BY <1>1, <1>2 DEF CleanInv, DownClean, SocketClean, StopOrder
<1> QED BY <1>3, <1>4, <1>5 DEF CleanInv

(* A Start whose port cannot be created.                                   *)
LEMMA CleanNoPort ==
    ASSUME GoodInv, StartServer, gui' = "idle" PROVE CleanInv'
<1> USE DEF GoodInv, ServeInv, TypeInv, TypeOK
<1>1. Down /\ Down'
  BY DEF CleanInv, StopOrder, StartServer, Down, Starting
<1>2. UNCHANGED <<serverruning, openports, threadhandle, openhandles, ssocket, opensocks, tpc>>
  BY DEF StartServer, threadVars
<1>3. NoneAlive /\ NoneAlive' /\ openports' = {} /\ openhandles' = {} /\ opensocks' = {}
  BY <1>1, <1>2 DEF CleanInv, DownClean, SocketClean, NoneAlive, Alive
<1>4. SlotOwn' /\ LatestTable'
  BY <1>1, <1>2 DEF CleanInv, SlotOwn, LatestTable
<1>5. LatestAlive' /\ DownClean' /\ SocketClean'
  BY <1>1, <1>3 DEF LatestAlive, DownClean, SocketClean, NoneAlive
<1>6. StopOrder'
  BY <1>1 DEF StopOrder, Down, Starting
<1> QED BY <1>4, <1>5, <1>6 DEF CleanInv

LEMMA CleanStartServer ==
    ASSUME GoodInv, StartServer, gui' # "idle" PROVE CleanInv'
<1> USE DEF GoodInv, ServeInv, TypeInv, TypeOK
<1>1. Down
  BY DEF CleanInv, StopOrder, StartServer, Down, Starting
<1>2. /\ gui' = "spawn" /\ slot' = 1 /\ starts' = starts + 1
      /\ completeport' = starts + 1 /\ openports' = {starts + 1}
      /\ threadnum' = NumThreads
      /\ UNCHANGED <<serverruning, threadhandle, openhandles, opensocks, tpc>>
    BY <1>1 DEF StartServer, CleanInv, DownClean, threadVars
<1>3. openhandles = {} /\ opensocks = {} /\ NoneAlive /\ ~serverruning
  BY <1>1 DEF CleanInv, DownClean, SocketClean, Down
<1>4. \A i \in Slots : ~Filled(i)'
  BY <1>2, GuiAssumption DEF Filled, Slots
<1>5. NoneAlive'
  BY <1>2, <1>3 DEF NoneAlive, Alive
<1>6. ~Down' /\ StopOrder'
  BY <1>2, <1>3 DEF StopOrder, Down, Starting
<1>7. SlotOwn'
  BY <1>2 DEF CleanInv, SlotOwn
<1>8. LatestTable' /\ LatestAlive'
  BY <1>2, <1>3, <1>4, <1>5 DEF LatestTable, LatestAlive, NoneAlive
<1>9. DownClean' /\ SocketClean'
  BY <1>2, <1>3, <1>6 DEF DownClean, SocketClean
<1> QED BY <1>6, <1>7, <1>8, <1>9 DEF CleanInv

LEMMA CleanBeginThread ==
    ASSUME GoodInv, Benign, BeginThread PROVE CleanInv'
<1> USE DEF GoodInv, ServeInv, TypeInv, TypeOK
<1> DEFINE t == <<starts, slot>>
<1>1. slot \in Slots /\ t \in Threads /\ gui = "spawn" /\ slot' = slot + 1
  BY Numbers DEF BeginThread, InLoops
<1>2. /\ gui' \in {"spawn", "socket"}
      /\ threadhandle' = [threadhandle EXCEPT ![slot] = t]
      /\ openhandles' = openhandles \cup {t}
      /\ tpc' = [tpc EXCEPT ![t] = "loop"]
      /\ UNCHANGED <<serverruning, starts, completeport, openports, threadnum,
                     ssocket, opensocks>>
  BY DEF Benign, BeginThread
<1>3. ~Down /\ ~Down'
  BY <1>1, <1>2 DEF Down, Starting
<1>4. \A i \in Slots : Filled(i)' => i = slot \/ Filled(i)
  BY <1>1, GuiAssumption DEF BeginThread, Filled, Slots
<1>5. \A i \in Slots : i = slot \/ Filled(i) => Filled(i)'
  BY <1>1, GuiAssumption DEF Filled, Slots
<1>6. SlotOwn'
  BY <1>1, <1>2 DEF CleanInv, SlotOwn
<1>7. ASSUME NEW i \in Slots, Filled(i)'
      PROVE  threadhandle'[i] = <<starts, i>> /\ <<starts, i>> \in openhandles'
  <2>1. CASE i = slot
    BY <1>1, <1>2, <2>1
  <2>2. CASE i # slot
    BY <1>2, <1>3, <1>4, <1>7, <2>2 DEF CleanInv, LatestTable
  <2> QED BY <2>1, <2>2
<1>8. LatestTable'
  BY <1>2, <1>3, <1>7 DEF CleanInv, LatestTable
<1>9. ASSUME NEW u \in Threads, Alive(u)' \/ u \in openhandles'
      PROVE  \E i \in Slots : u = <<starts', i>> /\ Filled(i)'
  <2>1. CASE u = t
    BY <1>1, <1>2, <1>5, <2>1
  <2>2. CASE u # t
    <3>1. Alive(u) \/ u \in openhandles
      BY <1>2, <1>9, <2>2 DEF Alive
    <3>2. PICK i \in Slots : u = <<starts, i>> /\ Filled(i)
      BY <3>1 DEF CleanInv, LatestAlive
    <3> QED BY <1>2, <1>5, <3>2
  <2> QED BY <2>1, <2>2
<1>10. LatestAlive'
  BY <1>9 DEF LatestAlive
<1>11. DownClean' /\ SocketClean' /\ StopOrder'
  BY <1>1, <1>2, <1>3 DEF CleanInv, DownClean, SocketClean, StopOrder, Starting
<1> QED BY <1>6, <1>8, <1>10, <1>11 DEF CleanInv

(* The last two stages of Start.                                           *)
LEMMA CleanFinishStart ==
    ASSUME GoodInv, Benign, InitializeSocket \/ PostAccepts PROVE CleanInv'
<1>1. /\ gui \in {"socket", "accept"} /\ gui' \in {"accept", "idle"}
      /\ gui' = "idle" => serverruning'
      /\ gui' = "accept" => serverruning' = serverruning
      /\ UNCHANGED <<starts, completeport, openports, threadnum, threadhandle,
                     openhandles, tpc>>
  BY DEF Benign, InitializeSocket, PostAccepts, threadVars
<1>2. ~Down /\ ~Down'
  BY <1>1 DEF Down, Starting
<1>3. \A i \in Slots : Filled(i) /\ Filled(i)'
  BY <1>1 DEF Filled
<1>4. SlotOwn' /\ LatestTable'
  BY <1>1, <1>2, <1>3 DEF GoodInv, CleanInv, SlotOwn, LatestTable
<1>5. LatestAlive'
  BY <1>1, <1>3 DEF GoodInv, CleanInv, LatestAlive, Alive
<1>6. DownClean' /\ StopOrder'
  BY <1>1, <1>2 DEF GoodInv, CleanInv, DownClean, StopOrder, Starting
<1>7. SocketClean'
  BY <1>1, <1>2 DEF InitializeSocket, PostAccepts, GoodInv, CleanInv, SocketClean
<1> QED BY <1>4, <1>5, <1>6, <1>7 DEF CleanInv

(* The wait of Stop is for all threads that are alive.                     *)
LEMMA WaitsForAll ==
    ASSUME GoodInv, WaitForWorkers PROVE NoneAlive
<1> USE DEF GoodInv, ServeInv, TypeInv
<1>1. gui = "wait" /\ ~Starting
  BY DEF WaitForWorkers, Starting
<1>2. CASE Down
  BY <1>2 DEF CleanInv, DownClean
<1>3. CASE ~Down
  <2>1. \A i \in Slots : threadhandle[i] = <<starts, i>> /\ <<starts, i>> \in openhandles
    BY <1>1, <1>3 DEF CleanInv, LatestTable, Filled
  <2>2. Handles = InTable
    BY <1>3, Tables DEF CleanInv, LatestTable
  <2>3. \A i \in Slots : tpc[<<starts, i>>] = "done"
    BY <2>1, <2>2 DEF WaitForWorkers, InTable
  <2> QED BY <2>3 DEF CleanInv, LatestAlive, NoneAlive, Alive
<1> QED BY <1>2, <1>3

LEMMA CleanCloseHandles ==
    ASSUME GoodInv, CloseHandles PROVE CleanInv' /\ NoneAlive'
<1> USE DEF GoodInv, ServeInv, TypeInv, TypeOK
<1>1. /\ gui = "close" /\ gui' \in {"idle", "restart", "gone"}
      /\ serverruning' = FALSE
      /\ openhandles' = openhandles \ Handles /\ openports' = openports \ {completeport}
      /\ opensocks' = opensocks \ {ssocket}
      /\ UNCHANGED <<starts, threadhandle, completeport, ssocket>>
  BY DEF CloseHandles
<1>2. ~Starting /\ Down' /\ StopOrder' /\ NoneAlive
  BY <1>1 DEF Down, Starting, CleanInv, StopOrder
<1>3. NoneAlive'
  BY <1>2 DEF CloseHandles, NoneAlive, Alive
<1>4. opensocks' = {}
  BY <1>1 DEF CleanInv, SocketClean
<1>5. openports' = {} /\ openhandles' = {}
  <2>1. CASE Down
    BY <1>1, <2>1 DEF CleanInv, DownClean
  <2>2. CASE ~Down
    <3>1. openports' = {}
      BY <1>1, <2>2 DEF CleanInv, LatestTable
    <3>2. \A i \in Slots : threadhandle[i] = <<starts, i>>
      BY <1>1, <2>2 DEF CleanInv, LatestTable, Filled
    <3>3. Handles = InTable
      BY <2>2, Tables DEF CleanInv, LatestTable
    <3>4. ASSUME NEW h \in openhandles PROVE h \in Handles
      <4>1. PICK i \in Slots : h = <<starts, i>>
        BY DEF CleanInv, LatestAlive
      <4> QED BY <3>2, <3>3, <4>1 DEF InTable
    <3> QED BY <1>1, <3>1, <3>4
  <2> QED BY <2>1, <2>2
<1>6. SlotOwn' /\ LatestTable'
  BY <1>1, <1>2 DEF CleanInv, SlotOwn, LatestTable
<1>7. LatestAlive' /\ DownClean' /\ SocketClean'
  BY <1>3, <1>4, <1>5 DEF LatestAlive, DownClean, SocketClean, NoneAlive
<1> QED BY <1>2, <1>3, <1>6, <1>7 DEF CleanInv

LEMMA CleanNext ==
    ASSUME GoodInv, Benign, [Next]_vars PROVE CleanInv'
<1> USE DEF GoodInv, ServeInv, TypeInv, TypeOK
<1>1. CASE Login \/ StopServer \/ SubmitSqlData \/ OnSysCommand
  <2>1. /\ gui \in {"login", "idle"} /\ gui' \in {"idle", "gone", "exit", "wait"}
        /\ gui' = "gone" => gui = "login"
        /\ UNCHANGED <<handleVars, starts, serverruning, tpc>>
    BY <1>1 DEF Login, StopServer, SubmitSqlData, OnSysCommand, BeginStop, threadVars
  <2>2. gui = "login" => ~serverruning
    BY DEF CleanInv, StopOrder, Down
  <2> QED BY <2>1, <2>2, CleanKeep DEF Starting, Alive
<1>2. CASE StartServer
  BY <1>2, CleanStartServer, CleanNoPort
<1>3. CASE BeginThread
  BY <1>3, CleanBeginThread
<1>4. CASE InitializeSocket \/ PostAccepts
  BY <1>4, CleanFinishStart
<1>5. CASE OnOK
  BY <1>5 DEF Benign, OnOK
<1>6. CASE PostExit
  <2>1. /\ gui = "exit" /\ gui' \in {"exit", "wait"}
        /\ UNCHANGED <<handleVars, starts, serverruning, tpc>>
    BY <1>6 DEF PostExit, threadVars
  <2> QED BY <2>1, CleanKeep DEF Starting, Alive
<1>7. CASE WaitForWorkers
  <2>1. /\ gui = "wait" /\ gui' = "close"
        /\ UNCHANGED <<handleVars, starts, serverruning, tpc>>
    BY <1>7 DEF WaitForWorkers, threadVars
  <2> QED BY <1>7, <2>1, WaitsForAll, CleanKeep DEF Starting, Alive
<1>8. CASE CloseHandles
  BY <1>8, CleanCloseHandles
<1>9. ASSUME NEW t \in Threads, WorkerThread(t) PROVE CleanInv'
  <2>1. UNCHANGED <<guiVars, handleVars>>
    BY <1>9 DEF WorkerThread, GetStatus, TakePacket, HandlePacket
  <2>2. \A u \in Threads : Alive(u)' => Alive(u)
    BY <1>9 DEF WorkerThread, GetStatus, TakePacket, HandlePacket, Alive
  <2> QED BY <2>1, <2>2, CleanKeep DEF guiVars
<1>10. ASSUME UNCHANGED <<guiVars, handleVars, threadVars>> PROVE CleanInv'
  <2>1. \A u \in Threads : Alive(u)' => Alive(u)
    BY <1>10 DEF threadVars, Alive
  <2> QED BY <1>10, <2>1, CleanKeep DEF guiVars
<1>11. ASSUME NEW p \in Ports, IoArrives(p) PROVE CleanInv'
  BY <1>10, <1>11 DEF IoArrives
<1>12. CASE UNCHANGED vars
  BY <1>10, <1>12 DEF vars
<1> QED
  BY <1>1, <1>2, <1>3, <1>4, <1>5, <1>6, <1>7, <1>8, <1>9, <1>11, <1>12
  DEF Next, Start, Stop, User, Ended

LEMMA GoodAlways == ASSUME Benign PROVE Spec => []GoodInv
<1>1. Init => GoodInv
  BY ServeInit, CleanInit DEF GoodInv
<1>2. GoodInv /\ [Next]_vars => GoodInv'
  BY ServeNext, CleanNext DEF GoodInv
<1> QED BY <1>1, <1>2, PTL DEF Spec

(* When Stop returns, no worker is left, if no Start failed half-way and   *)
(* Enter did not end the dialog.                                           *)
THEOREM StopEndsWorkers == ASSUME Benign PROVE Spec => []NoWorkerLeft
<1>1. GoodInv => NoWorkerLeft
  BY DEF GoodInv, CleanInv, StopOrder, DownClean, NoneAlive, NoWorkerLeft
<1> QED BY <1>1, GoodAlways, PTL

(* And no port, no thread handle and no listen socket is open.             *)
THEOREM StopClosesAll == ASSUME Benign PROVE Spec => []StopReleases
<1>1. GoodInv => StopReleases
  BY DEF GoodInv, CleanInv, DownClean, SocketClean, Down, Starting, StopReleases
<1> QED BY <1>1, GoodAlways, PTL

-----------------------------------------------------------------------------
(* The refinement of ServerLifecycle.                                      *)
LEMMA Phases ==
    /\ Phase = "starting" <=> gui \in {"spawn", "socket", "accept"}
    /\ Phase = "stopping" <=> gui \in {"exit", "wait", "close"}
    /\ gui \notin {"spawn", "socket", "accept", "exit", "wait", "close"} =>
          Phase = IF serverruning THEN "running" ELSE "stopped"
BY DEF Phase

LEMMA NotNull == \A n \in Nat, i \in Slots : <<n, i>> # Null
<1> SUFFICES ASSUME NEW n \in Nat, NEW i \in Slots PROVE <<n, i>>[2] # Null[2]
  OBVIOUS
<1>1. i # 0
  BY GuiAssumption DEF Slots
<1> QED BY <1>1 DEF Null

LEMMA Workers ==
    ASSUME GoodInv
    PROVE  /\ NoneAlive => AliveSlots = {}
           /\ ~Down => AliveSlots = {i \in Slots : Filled(i) /\ Alive(<<starts, i>>)}
<1> USE DEF GoodInv, ServeInv, TypeInv, TypeOK
<1>1. \A i \in Slots : threadhandle[i] = Null \/ threadhandle[i] \in Threads
  OBVIOUS
<1>2. NoneAlive => AliveSlots = {}
  BY <1>1 DEF NoneAlive, AliveSlots
<1>3. ASSUME ~Down, NEW i \in Slots, i \in AliveSlots
      PROVE  Filled(i) /\ Alive(<<starts, i>>)
  <2>1. threadhandle[i] \in Threads /\ threadhandle[i][2] = i /\ Alive(threadhandle[i])
    BY <1>1, <1>3 DEF AliveSlots, CleanInv, SlotOwn
  <2>2. PICK j \in Slots : threadhandle[i] = <<starts, j>> /\ Filled(j)
    BY <2>1 DEF CleanInv, LatestAlive
  <2> QED BY <2>1, <2>2
<1>4. ASSUME ~Down, NEW i \in Slots, Filled(i), Alive(<<starts, i>>)
      PROVE  i \in AliveSlots
  <2>1. threadhandle[i] = <<starts, i>> /\ threadhandle[i] # Null
    BY <1>4, NotNull, GuiAssumption DEF CleanInv, LatestTable
  <2> QED BY <1>4, <2>1 DEF AliveSlots
<1>5. AliveSlots \subseteq Slots
  BY DEF AliveSlots
<1> QED BY <1>2, <1>3, <1>4, <1>5

(* Steps that end no thread of the table and start none.                   *)
LEMMA SameWorkers ==
    ASSUME threadhandle' = threadhandle,
           \A i \in Slots : threadhandle[i] # Null =>
               (Alive(threadhandle[i])' <=> Alive(threadhandle[i]))
    PROVE  AliveSlots' = AliveSlots
BY DEF AliveSlots

LEMMA RefineStart ==
    ASSUME GoodInv, Benign, Start PROVE [Life!LifeNext]_(Life!lifeVars)
<1> USE DEF GoodInv, ServeInv, TypeInv, TypeOK
<1>1. CASE StartServer
  <2>1. /\ Down /\ NoneAlive /\ gui \in {"idle", "restart"} /\ gui' \in {"spawn", "idle"}
        /\ serverruning' = serverruning
    BY <1>1 DEF StartServer, CleanInv, StopOrder, DownClean, Down, Starting
  <2>2. AliveSlots' = AliveSlots /\ AliveSlots = {}
    BY <1>1, <2>1, Workers, SameWorkers DEF StartServer, threadVars, Alive
  <2>3. Phase = "stopped" /\ Phase' = IF gui' = "spawn" THEN "starting" ELSE "stopped"
    BY <2>1 DEF Phase, Down
  <2> QED BY <2>2, <2>3 DEF Life!LifeNext, Life!Begin, Life!lifeVars
<1>2. CASE BeginThread
  <2> DEFINE t == <<starts, slot>>
  <2>1. /\ slot \in Slots /\ t \in Threads /\ t # Null /\ gui = "spawn"
        /\ gui' \in {"spawn", "socket"}
        /\ threadhandle' = [threadhandle EXCEPT ![slot] = t]
        /\ tpc' = [tpc EXCEPT ![t] = "loop"]
    BY <1>2, Numbers, GuiAssumption DEF Benign, BeginThread, InLoops, Null, Slots
  <2>2. slot \notin AliveSlots
    BY <2>1, Workers, GuiAssumption DEF Filled, Down, Starting, Slots
  <2>3. slot \in AliveSlots'
    BY <2>1 DEF AliveSlots, Alive
  <2>4. ASSUME NEW i \in Slots, i # slot PROVE i \in AliveSlots' <=> i \in AliveSlots
    <3>1. threadhandle'[i] = threadhandle[i] /\ threadhandle[i] # t
      BY <2>1, <2>4 DEF CleanInv, SlotOwn, Null
    <3>2. threadhandle[i] # Null => tpc'[threadhandle[i]] = tpc[threadhandle[i]]
      BY <2>1, <3>1
    <3> QED BY <3>1, <3>2 DEF AliveSlots, Alive
  <2>5. AliveSlots \subseteq Slots /\ AliveSlots' \subseteq Slots
    BY DEF AliveSlots
  <2>6. AliveSlots' = AliveSlots \cup {slot}
    BY <2>2, <2>3, <2>4, <2>5
  <2>7. Phase = "starting" /\ Phase' = "starting"
    BY <2>1 DEF Phase
  <2> QED BY <2>1, <2>2, <2>6, <2>7 DEF Life!LifeNext, Life!Spawn, Life!Slots, Slots
<1>3. CASE InitializeSocket
  <2>1. AliveSlots' = AliveSlots
    BY <1>3, SameWorkers DEF InitializeSocket, threadVars, Alive
  <2>2. Phase' = Phase
    BY <1>3 DEF Benign, InitializeSocket, Phase
  <2> QED BY <2>1, <2>2 DEF Life!lifeVars
<1>4. CASE PostAccepts
  <2>1. /\ gui = "accept" /\ gui' = "idle" /\ serverruning'
        /\ UNCHANGED <<threadhandle, tpc>>
    BY <1>4 DEF Benign, PostAccepts, threadVars
  <2>2. AliveSlots' = AliveSlots
    BY <2>1, SameWorkers DEF Alive
  <2>3. AliveSlots = Slots
    <3>1. \A i \in Slots : threadhandle[i] = <<starts, i>>
      BY <2>1 DEF CleanInv, LatestTable, Filled, Down, Starting
    <3>2. ASSUME NEW i \in Slots PROVE threadhandle[i] # Null
      <4>1. starts \in Nat
        BY GuiAssumption
      <4>2. <<starts, i>> # Null
        BY <4>1, NotNull
      <4> QED BY <3>1, <4>2
    <3>3. \A i \in Slots : Alive(threadhandle[i])
      BY <2>1, <3>2 DEF HandlesServe, AliveIfAny
    <3> QED BY <3>2, <3>3 DEF AliveSlots
  <2>4. Phase = "starting" /\ Phase' = "running"
    BY <2>1 DEF Phase
  <2> QED BY <2>2, <2>3, <2>4 DEF Life!LifeNext, Life!Run, Life!Slots, Slots
<1> QED BY <1>1, <1>2, <1>3, <1>4 DEF Start

LEMMA RefineUser ==
    ASSUME GoodInv, Benign, User PROVE [Life!LifeNext]_(Life!lifeVars)
<1>1. AliveSlots' = AliveSlots
  BY SameWorkers DEF User, Login, StopServer, SubmitSqlData, OnSysCommand, OnOK, BeginStop,
     handleVars, threadVars, Alive
<1>2. CASE Login
  <2>1. Phase' = Phase
    BY <1>2 DEF Login, Phase
  <2> QED BY <1>1, <2>1 DEF Life!lifeVars
<1>3. CASE StopServer \/ SubmitSqlData \/ OnSysCommand
  <2>1. Phase \in {"running", "stopped"} /\ Phase' = "stopping"
    BY <1>3 DEF StopServer, SubmitSqlData, OnSysCommand, BeginStop, Phase
  <2> QED BY <1>1, <2>1 DEF Life!LifeNext, Life!Halt
<1>4. CASE OnOK
  BY <1>4 DEF Benign, OnOK
<1> QED BY <1>2, <1>3, <1>4 DEF User

LEMMA RefineStop ==
    ASSUME GoodInv, Benign, Stop PROVE [Life!LifeNext]_(Life!lifeVars)
<1>1. CASE PostExit \/ WaitForWorkers
  <2>1. AliveSlots' = AliveSlots
    BY <1>1, SameWorkers DEF PostExit, WaitForWorkers, handleVars, threadVars, Alive
  <2>2. Phase' = Phase
    BY <1>1 DEF PostExit, WaitForWorkers, Phase
  <2> QED BY <2>1, <2>2 DEF Life!lifeVars
<1>2. CASE CloseHandles
  <2>1. NoneAlive /\ NoneAlive' /\ GoodInv'
    BY <1>2, CleanCloseHandles, ServeNext DEF GoodInv, CleanInv, StopOrder, CloseHandles,
       Next, Stop
  <2>2. AliveSlots = {} /\ AliveSlots' = {}
    <3>1. NoneAlive => AliveSlots = {}
      BY Workers
    <3>2. \A i \in Slots : threadhandle'[i] = Null \/ threadhandle'[i] \in Threads
      BY <2>1 DEF GoodInv, ServeInv, TypeInv, TypeOK
    <3> QED BY <2>1, <3>1, <3>2 DEF AliveSlots, NoneAlive
  <2>3. gui = "close" /\ gui' \in {"idle", "restart", "gone"} /\ serverruning' = FALSE
    BY <1>2 DEF CloseHandles, GoodInv, ServeInv, TypeInv, TypeOK
  <2>4. Phase = "stopping" /\ Phase' = "stopped"
    BY <2>3 DEF Phase
  <2> QED BY <2>2, <2>4 DEF Life!LifeNext, Life!Halted
<1> QED BY <1>1, <1>2 DEF Stop

(* A worker leaves only during a stop, on an exit packet of its port.      *)
LEMMA WorkerStep ==
    ASSUME GoodInv, NEW t \in Threads, WorkerThread(t)
    PROVE  /\ tpc'[t] # "done" => AliveSlots' = AliveSlots
           /\ tpc'[t] = "done" =>
                 /\ tpc[t] = "wait" /\ gui \in {"exit", "wait"} /\ ~Down
                 /\ \E i \in AliveSlots : AliveSlots' = AliveSlots \ {i}
<1> USE DEF GoodInv, ServeInv, TypeInv, TypeOK
<1>1. UNCHANGED <<guiVars, handleVars>>
  BY DEF WorkerThread, GetStatus, TakePacket, HandlePacket
<1>2. \A i \in Slots : threadhandle[i] = Null \/ threadhandle[i] \in Threads
  OBVIOUS
<1>3. CASE tpc'[t] # "done"
  <2>1. \A u \in Threads : Alive(u)' <=> Alive(u)
    BY <1>3 DEF WorkerThread, GetStatus, TakePacket, HandlePacket, Alive
  <2> QED BY <1>1, <1>2, <1>3, <2>1, SameWorkers DEF handleVars
<1>4. CASE tpc'[t] = "done"
  <2>1. /\ tpc[t] = "wait" /\ tpc' = [tpc EXCEPT ![t] = "done"]
        /\ queue[tport[t]] # <<>> /\ Head(queue[tport[t]]) = "exit"
    BY <1>4 DEF WorkerThread, GetStatus, TakePacket, HandlePacket
  <2>2. tport[t] \in Ports /\ tport[t] \in openports
    BY <2>1 DEF WaitsOpen
  <2>3. HasExit(tport[t])
    BY <2>1, <2>2, HeadTailProperties DEF HasExit
  <2>4. gui \in {"exit", "wait"}
    BY <2>1, <2>2, <2>3 DEF ExitsInStop, CleanInv, StopOrder, NoneAlive, Alive
  <2>5. ~Down
    BY <2>1 DEF CleanInv, DownClean, NoneAlive, Alive
  <2>6. PICK i \in Slots : t = <<starts, i>>
    BY <2>1 DEF CleanInv, LatestAlive, Alive
  <2>7. \A j \in Slots : threadhandle[j] = <<starts, j>> /\ <<starts, j>> # Null
    <3>1. \A j \in Slots : threadhandle[j] = <<starts, j>>
      BY <2>4, <2>5 DEF CleanInv, LatestTable, Filled
    <3> QED BY <3>1, NotNull, GuiAssumption
  <2>8. i \in AliveSlots /\ i \notin AliveSlots'
    BY <1>1, <2>1, <2>6, <2>7 DEF AliveSlots, Alive, handleVars
  <2>9. ASSUME NEW j \in Slots, j # i PROVE j \in AliveSlots' <=> j \in AliveSlots
    BY <1>1, <1>2, <2>1, <2>6, <2>7, <2>9 DEF AliveSlots, Alive, handleVars
  <2>10. AliveSlots \subseteq Slots /\ AliveSlots' \subseteq Slots
    BY DEF AliveSlots
  <2>11. AliveSlots' = AliveSlots \ {i}
    BY <2>8, <2>9, <2>10
  <2> QED BY <1>4, <2>1, <2>4, <2>5, <2>8, <2>11
<1> QED BY <1>3, <1>4

LEMMA RefineWorker ==
    ASSUME GoodInv, NEW t \in Threads, WorkerThread(t)
    PROVE  [Life!LifeNext]_(Life!lifeVars)
<1>1. Phase' = Phase
  BY DEF WorkerThread, GetStatus, TakePacket, HandlePacket, guiVars, Phase
<1>2. gui \in {"exit", "wait"} => Phase = "stopping"
  BY DEF Phase
<1> QED BY <1>1, <1>2, WorkerStep DEF Life!LifeNext, Life!Exit, Life!lifeVars

(* Every step of the dialogs, of Start and Stop and of the workers is a    *)
(* step that ServerLifecycle allows, or changes nothing it speaks of.      *)
THEOREM RefinesLifecycle ==
    ASSUME Benign
    PROVE  Spec => Life!LifeInit /\ [][Life!LifeNext]_(Life!lifeVars)
<1>1. Init => Life!LifeInit
  BY DEF Init, Life!LifeInit, Phase, AliveSlots
<1>2. GoodInv /\ [Next]_vars => [Life!LifeNext]_(Life!lifeVars)
  <2> SUFFICES ASSUME GoodInv, [Next]_vars PROVE [Life!LifeNext]_(Life!lifeVars)
    OBVIOUS
  <2>1. ASSUME UNCHANGED <<guiVars, handleVars, threadVars>>
        PROVE  [Life!LifeNext]_(Life!lifeVars)
    BY <2>1 DEF Life!lifeVars, Phase, AliveSlots, Alive, guiVars, handleVars, threadVars
  <2>2. CASE Start
    BY <2>2, RefineStart
  <2>3. CASE Stop
    BY <2>3, RefineStop
  <2>4. CASE User
    BY <2>4, RefineUser
  <2>5. ASSUME NEW t \in Threads, WorkerThread(t) PROVE [Life!LifeNext]_(Life!lifeVars)
    BY <2>5, RefineWorker
  <2>6. ASSUME NEW p \in Ports, IoArrives(p) PROVE [Life!LifeNext]_(Life!lifeVars)
    BY <2>1, <2>6 DEF IoArrives
  <2>7. CASE UNCHANGED vars
    BY <2>1, <2>7 DEF vars
  <2> QED BY <2>2, <2>3, <2>4, <2>5, <2>6, <2>7 DEF Next, Ended
<1> QED BY <1>1, <1>2, GoodAlways, PTL DEF Spec

-----------------------------------------------------------------------------
(* One exit packet for each worker: while a stop runs, the workers alive   *)
(* are as many as exit packets still to be posted or taken.                *)
ExitsIn(p) == Cardinality(Marked(queue[p], {"exit"}))

ExitCount ==
    gui \in {"exit", "wait"} /\ ~Down =>
        Cardinality(AliveSlots) = (threadnum + 1 - slot) + ExitsIn(completeport)

LEMMA ExitsAreNat ==
    ASSUME TypeInv, NEW p \in Ports PROVE ExitsIn(p) \in Nat
<1>1. queue[p] \in Seq(PacketKinds)
  BY DEF TypeInv, TypeOK, PacketKinds
<1> QED BY <1>1, MarkedFinite DEF ExitsIn

LEMMA ExitsAppend ==
    ASSUME TypeInv, NEW p \in Ports, NEW k \in PacketKinds,
           queue'[p] = Append(queue[p], k)
    PROVE  ExitsIn(p)' = ExitsIn(p) + (IF k = "exit" THEN 1 ELSE 0)
<1>1. queue[p] \in Seq(PacketKinds)
  BY DEF TypeInv, TypeOK, PacketKinds
<1>2. ExitsIn(p)' = ExitsIn(p) + One(k \in {"exit"})
  BY <1>1, CountAppend DEF ExitsIn
<1> QED BY <1>2 DEF One

LEMMA AliveFinite ==
    IsFiniteSet(AliveSlots) /\ IsFiniteSet(Slots) /\ Cardinality(Slots) = NumThreads
<1>1. IsFiniteSet(Slots) /\ Cardinality(Slots) = NumThreads
  BY FS_Interval, GuiAssumption DEF Slots
<1>2. AliveSlots \in SUBSET Slots
  BY DEF AliveSlots
<1> QED BY <1>1, <1>2, FS_Subset

(* A stop of a running server begins with all workers and no exit packet.  *)
LEMMA ExitsBegin ==
    ASSUME GoodInv, gui = "idle", ~Down, NEW next, BeginStop(next)
    PROVE  ExitCount'
<1> USE DEF GoodInv, ServeInv, TypeInv, TypeOK
<1>1. /\ slot' = 1 /\ threadnum' = threadnum /\ threadnum = NumThreads
      /\ completeport' = completeport /\ queue' = queue
      /\ UNCHANGED <<threadhandle, tpc>>
      /\ completeport \in openports /\ completeport \in Ports
  BY DEF BeginStop, handleVars, threadVars, CleanInv, LatestTable
<1>2. AliveSlots' = Slots
  <2>1. \A i \in Slots : threadhandle[i] = <<starts, i>>
    BY DEF CleanInv, LatestTable, Filled
  <2>2. ASSUME NEW i \in Slots PROVE threadhandle[i] # Null
    <3>1. starts \in Nat
      BY GuiAssumption
    <3>2. <<starts, i>> # Null
      BY <3>1, NotNull
    <3> QED BY <2>1, <3>2
  <2>3. \A i \in Slots : Alive(threadhandle[i])
    BY <2>2 DEF HandlesServe, AliveIfAny, Down, Starting
  <2> QED BY <1>1, <2>2, <2>3 DEF AliveSlots, Alive
<1>3. ExitsIn(completeport) = 0
  <2>1. ~HasExit(completeport)
    BY <1>1 DEF ExitsInStop
  <2>2. queue[completeport] \in Seq(PacketKinds)
    BY <1>1 DEF PacketKinds
  <2>3. Marked(queue[completeport], {"exit"}) = {}
    BY <2>1, <2>2 DEF Marked, HasExit
  <2> QED BY <2>3, FS_EmptySet DEF ExitsIn
<1>4. ExitsIn(completeport)' = ExitsIn(completeport)
  BY <1>1 DEF ExitsIn
<1>5. Cardinality(AliveSlots') = NumThreads
  BY <1>2, AliveFinite
<1> QED BY <1>1, <1>3, <1>4, <1>5, GuiAssumption DEF ExitCount

(* A packet of a worker counts until it is taken.                          *)
LEMMA ExitsOfWorker ==
    ASSUME GoodInv, ExitCount, NEW t \in Threads, WorkerThread(t)
    PROVE  ExitCount'
<1> USE DEF GoodInv, ServeInv, TypeInv, TypeOK
<1>1. UNCHANGED <<guiVars, handleVars>>
  BY DEF WorkerThread, GetStatus, TakePacket, HandlePacket
<1>2. SUFFICES ASSUME gui \in {"exit", "wait"}, ~Down
               PROVE  Cardinality(AliveSlots') =
                          (threadnum + 1 - slot) + ExitsIn(completeport)'
  BY <1>1 DEF ExitCount, Down, Starting, guiVars, handleVars
<1>3. /\ Cardinality(AliveSlots) = (threadnum + 1 - slot) + ExitsIn(completeport)
      /\ openports = {completeport} /\ completeport' = completeport
      /\ completeport \in Ports /\ ExitsIn(completeport) \in Nat
      /\ queue[completeport] \in Seq(PacketKinds)
      /\ threadnum \in Nat /\ slot \in Nat
  BY <1>1, <1>2, ExitsAreNat, GuiAssumption
  DEF ExitCount, CleanInv, LatestTable, handleVars, PacketKinds
<1>4. CASE ~TakePacket(t)
  <2>1. queue' = queue /\ tpc'[t] # "done"
    BY <1>4 DEF WorkerThread, GetStatus, HandlePacket
  <2> QED BY <1>3, <2>1, WorkerStep DEF ExitsIn
<1>5. CASE TakePacket(t)
  <2>1. /\ tport[t] = completeport /\ queue[completeport] # <<>>
        /\ queue'[completeport] = Tail(queue[completeport])
        /\ tpc'[t] = "done" <=> Head(queue[completeport]) = "exit"
    <3>1. tport[t] = completeport
      BY <1>3, <1>5 DEF TakePacket, WaitsOpen
    <3> QED BY <1>3, <1>5, <3>1 DEF TakePacket
  <2>2. ExitsIn(completeport) =
            ExitsIn(completeport)' + One(Head(queue[completeport]) \in {"exit"})
    BY <1>3, <2>1, CountTail DEF ExitsIn
  <2>3. ExitsIn(completeport)' \in Nat
    <3>1. Tail(queue[completeport]) \in Seq(PacketKinds)
      BY <1>3, <2>1, HeadTailProperties
    <3> QED BY <1>3, <2>1, <3>1, MarkedFinite DEF ExitsIn
  <2>4. CASE tpc'[t] = "done"
    <3>1. PICK i \in AliveSlots : AliveSlots' = AliveSlots \ {i}
      BY <2>4, WorkerStep
    <3>2. Cardinality(AliveSlots') = Cardinality(AliveSlots) - 1
      BY <3>1, AliveFinite, FS_RemoveElement
    <3>3. ExitsIn(completeport) = ExitsIn(completeport)' + 1
      BY <2>1, <2>2, <2>4 DEF One
    <3> QED BY <1>3, <2>3, <3>2, <3>3
  <2>5. CASE tpc'[t] # "done"
    <3>1. AliveSlots' = AliveSlots
      BY <2>5, WorkerStep
    <3>2. ExitsIn(completeport) = ExitsIn(completeport)'
      BY <2>1, <2>2, <2>3, <2>5 DEF One
    <3> QED BY <1>3, <3>1, <3>2
  <2> QED BY <2>4, <2>5
<1> QED BY <1>4, <1>5

LEMMA ExitsKeep ==
    ASSUME GoodInv, ExitCount, Faults \subseteq {"port"}, [Next]_vars
    PROVE  ExitCount'
<1> USE DEF GoodInv, ServeInv, TypeInv, TypeOK
<1>1. CASE StopServer \/ SubmitSqlData \/ OnSysCommand
  <2>1. CASE ~Down
    BY <1>1, <2>1, ExitsBegin DEF StopServer, SubmitSqlData, OnSysCommand
  <2>2. CASE Down
    <3>1. Down'
      BY <1>1, <2>2 DEF StopServer, SubmitSqlData, OnSysCommand, BeginStop, Down, Starting
    <3> QED BY <3>1 DEF ExitCount
  <2> QED BY <2>1, <2>2
<1>2. CASE PostExit
  <2>1. SUFFICES ASSUME ~Down PROVE ExitCount'
    <3>1. Down => Down'
      BY <1>2 DEF PostExit, Down, Starting
    <3> QED BY <2>1, <3>1 DEF ExitCount
  <2>2. /\ Cardinality(AliveSlots) = (threadnum + 1 - slot) + ExitsIn(completeport)
        /\ completeport \in openports /\ completeport \in Ports
        /\ queue[completeport] \in Seq(PacketKinds) /\ ExitsIn(completeport) \in Nat
        /\ threadnum \in Nat /\ slot \in Nat
    BY <1>2, <2>1, ExitsAreNat, GuiAssumption
    DEF PostExit, ExitCount, CleanInv, LatestTable, PacketKinds
  <2>3. /\ queue' = [queue EXCEPT ![completeport] = Append(@, "exit")]
        /\ slot' = slot + 1 /\ threadnum' = threadnum /\ completeport' = completeport
        /\ UNCHANGED <<threadhandle, tpc>>
    BY <1>2, <2>2 DEF PostExit, handleVars, threadVars
  <2>4. AliveSlots' = AliveSlots
    BY <2>3 DEF AliveSlots, Alive
  <2>5. ExitsIn(completeport)' = ExitsIn(completeport) + 1
    <3>1. queue'[completeport] = Append(queue[completeport], "exit")
      BY <2>2, <2>3
    <3>2. "exit" \in PacketKinds
      BY DEF PacketKinds
    <3>3. \A r \in Ports : completeport = r => ExitsIn(r)' = ExitsIn(r) + 1
      BY <3>1, <3>2, ExitsAppend
    <3> QED BY <2>2, <2>3, <3>3 DEF ExitsIn
  <2> QED BY <2>2, <2>3, <2>4, <2>5 DEF ExitCount
<1>3. ASSUME NEW t \in Threads, WorkerThread(t) PROVE ExitCount'
  BY <1>3, ExitsOfWorker
<1>4. ASSUME NEW p \in Ports, IoArrives(p) PROVE ExitCount'
  <2>1. SUFFICES ASSUME gui \in {"exit", "wait"}, ~Down
                 PROVE  /\ completeport \in Ports /\ AliveSlots' = AliveSlots
                        /\ ExitsIn(completeport)' = ExitsIn(completeport)
    BY <1>4 DEF IoArrives, guiVars, handleVars, ExitCount, Down, Starting
  <2>2. completeport \in Ports /\ AliveSlots' = AliveSlots
    BY <1>4, <2>1 DEF IoArrives, handleVars, threadVars, AliveSlots, Alive, CleanInv, LatestTable
  <2>3. CASE p # completeport
    BY <1>4, <2>2, <2>3 DEF IoArrives, handleVars, ExitsIn
  <2>4. CASE p = completeport
    <3>1. /\ queue'[completeport] = Append(queue[completeport], "io")
          /\ completeport' = completeport /\ queue[completeport] \in Seq(PacketKinds)
      BY <1>4, <2>2, <2>4 DEF IoArrives, handleVars, PacketKinds
    <3>2. "io" \in PacketKinds /\ ExitsIn(completeport) \in Nat
      BY <2>2, ExitsAreNat DEF PacketKinds
    <3>3. \A r \in Ports : completeport = r => ExitsIn(r)' = ExitsIn(r) + 0
      BY <3>1, <3>2, ExitsAppend
    <3> QED BY <2>2, <3>1, <3>2, <3>3 DEF ExitsIn
  <2> QED BY <2>2, <2>3, <2>4
<1>5. CASE Login \/ Start \/ WaitForWorkers \/ CloseHandles \/ OnOK
  <2>1. gui' \notin {"exit", "wait"}
    BY <1>5 DEF Login, Start, StartServer, BeginThread, InitializeSocket, PostAccepts,
                WaitForWorkers, CloseHandles, OnOK
  <2> QED BY <2>1 DEF ExitCount
<1>6. CASE UNCHANGED vars
  BY <1>6 DEF vars, guiVars, handleVars, threadVars, ExitCount, Down, Starting, AliveSlots,
              Alive, ExitsIn
<1> QED BY <1>1, <1>2, <1>3, <1>4, <1>5, <1>6 DEF Next, Stop, User, Ended

(* Stop ends every worker with the packet that was posted for it, when no  *)
(* packet is lost: none is left over, and none is missing.                 *)
THEOREM OneExitEach ==
    ASSUME Faults \subseteq {"port"} PROVE Spec => []ExitPerWorker
<1>1. Benign
  BY DEF Benign
<1>2. Init => ExitCount
  BY DEF Init, ExitCount
<1>3. GoodInv /\ ExitCount /\ [Next]_vars => ExitCount'
  BY ExitsKeep
<1>4. GoodInv /\ ExitCount => ExitPerWorker
  <2> SUFFICES ASSUME GoodInv, ExitCount, gui \in {"exit", "wait"}, completeport \in openports
               PROVE  Cardinality(AliveSlots) =
                          (threadnum + 1 - slot)
                        + Cardinality({n \in DOMAIN queue[completeport] :
                                         queue[completeport][n] = "exit"})
    BY DEF ExitPerWorker
  <2>1. ~Down
    BY DEF GoodInv, CleanInv, DownClean
  <2>2. Marked(queue[completeport], {"exit"}) =
            {n \in DOMAIN queue[completeport] : queue[completeport][n] = "exit"}
    BY DEF Marked
  <2> QED BY <2>1, <2>2 DEF ExitCount, ExitsIn
<1> QED BY <1>1, <1>2, <1>3, <1>4, GoodAlways, PTL DEF Spec
=============================================================================
