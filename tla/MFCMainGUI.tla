------------------------------ MODULE MFCMainGUI ------------------------------
(***************************************************************************)
(* The dialogs that start and stop the server, IOCPServer::Start and Stop, *)
(* and how the worker threads come and go.  One GUI thread runs the whole  *)
(* of Start or Stop inside a message handler, while workers run between    *)
(* its steps.  What a worker does with a packet is the subject of          *)
(* HttpServer; here it is an "io" packet that keeps it busy for a while.   *)
(*                                                                         *)
(* A Start is numbered; the number also names the completion port and the  *)
(* listen socket it creates, and with the slot in threadhandle its threads.*)
(***************************************************************************)
EXTENDS Naturals, Sequences, FiniteSets

CONSTANTS NumThreads,   \* threadnum: processors, at most MAX_THREAD_NUM
          Faults,       \* calls that may fail; "enter" if Enter may be pressed
          MaxStarts,    \* bound: calls of Start
          MaxQueue      \* bound: packets in a port when clients' I/O arrives

FaultKinds == {"port", "thread", "socket", "acceptex", "post", "enter"}

ASSUME GuiAssumption ==
    /\ NumThreads \in Nat \ {0}
    /\ Faults \subseteq FaultKinds
    /\ MaxStarts \in Nat
    /\ MaxQueue \in Nat

VARIABLES gui,            \* where the GUI thread is
          after,          \* where it goes when Stop returns
          slot,           \* i in the loops over threadhandle
          serverruning,   \* serverruning; the two buttons follow it
          starts,         \* number of the latest Start
          completeport,   \* the handle in IOCPServer, 0 for NULL
          openports,      \* ports that are open
          ssocket,        \* the listen socket in IOCPServer, 0 if invalid
          opensocks,      \* listen sockets that are open
          threadnum,      \* threadnum
          threadhandle,   \* threadhandle, 0 where _beginthreadex failed
          openhandles,    \* thread handles that are open
          serving,        \* ports that I/O of clients arrives at
          queue,          \* packets of each port
          tpc,            \* where each thread is
          tport           \* the port whose packets it waits for

guiVars    == <<gui, after, slot, serverruning, starts>>
handleVars == <<completeport, openports, ssocket, opensocks, threadnum,
                threadhandle, openhandles, serving>>
threadVars == <<tpc, tport>>
vars == <<guiVars, handleVars, queue, threadVars>>

Ports   == 1..MaxStarts
Slots   == 1..NumThreads
Threads == Ports \X Slots
Null    == <<0, 0>>

(* login, idle: waiting for the user; spawn, socket, accept: in Start;     *)
(* exit, wait, close: in Stop; restart: between the Stop and the Start of  *)
(* SubmitSqlData; gone: the dialog is closed and the server deleted.       *)
GuiPCs == {"login", "idle", "spawn", "socket", "accept", "exit", "wait",
           "close", "restart", "gone"}

Init ==
    /\ gui = "login" /\ after = "idle" /\ slot = 1
    /\ serverruning = FALSE
    /\ starts = 0
    /\ completeport = 0 /\ openports = {}
    /\ ssocket = 0 /\ opensocks = {}
    /\ threadnum = 0
    /\ threadhandle = [i \in Slots |-> Null] /\ openhandles = {}
    /\ serving = {}
    /\ queue = [p \in Ports |-> <<>>]
    /\ tpc = [t \in Threads |-> "none"]
    /\ tport = [t \in Threads |-> 0]

TypeOK ==
    /\ gui \in GuiPCs /\ after \in {"idle", "restart", "gone"}
    /\ slot \in 1..(NumThreads + 1)
    /\ serverruning \in BOOLEAN
    /\ starts \in 0..MaxStarts
    /\ completeport \in 0..MaxStarts /\ openports \subseteq Ports
    /\ ssocket \in 0..MaxStarts /\ opensocks \subseteq Ports
    /\ threadnum \in {0, NumThreads}
    /\ threadhandle \in [Slots -> Threads \cup {Null}]
    /\ openhandles \subseteq Threads
    /\ serving \subseteq Ports
    /\ queue \in [Ports -> Seq({"io", "exit"})]
    /\ tpc \in [Threads -> {"none", "loop", "wait", "busy", "done"}]
    /\ tport \in [Threads -> 0..MaxStarts]

-----------------------------------------------------------------------------
(* OnLogin with a name and a password opens the main dialog; closing the   *)
(* login dialog ends the program.                                          *)
Login ==
    /\ gui = "login"
    /\ gui' \in {"idle", "gone"}
    /\ UNCHANGED <<after, slot, serverruning, starts, handleVars, queue, threadVars>>

(* StartServer, from its button or from SubmitSqlData: the first half of   *)
(* InitializeIOCP.                                                         *)
StartServer ==
    /\ gui = "restart" \/ (gui = "idle" /\ ~serverruning)
    /\ starts < MaxStarts
    /\ starts' = starts + 1
    /\ \/ /\ completeport' = starts + 1
          /\ openports' = openports \cup {starts + 1}
          /\ threadnum' = NumThreads
          /\ gui' = "spawn"
       \/ /\ "port" \in Faults
          /\ completeport' = 0
          /\ gui' = "idle"
          /\ UNCHANGED <<openports, threadnum>>
    /\ slot' = 1
    /\ UNCHANGED <<after, serverruning, ssocket, opensocks, threadhandle,
                   openhandles, serving, queue, threadVars>>

(* Mutant: one turn too many, i <= threadnum.                              *)
BeginThreadOneMore ==
    /\ gui = "spawn"
    /\ LET t == <<starts, slot>>
       IN /\ threadhandle' = [threadhandle EXCEPT ![slot] = t]
          /\ openhandles' = openhandles \cup {t}
          /\ tpc' = [tpc EXCEPT ![t] = "loop"]
    /\ slot' = slot + 1
    /\ gui' = IF slot = NumThreads + 1 THEN "socket" ELSE "spawn"
    /\ UNCHANGED <<after, serverruning, starts, completeport, openports, ssocket,
                   opensocks, threadnum, serving, queue, tport>>

(* The loop of InitializeIOCP.  A failed _beginthreadex goes unnoticed.    *)
BeginThread ==
    /\ gui = "spawn"
    /\ LET t == <<starts, slot>>
       IN \/ /\ threadhandle' = [threadhandle EXCEPT ![slot] = t]
             /\ openhandles' = openhandles \cup {t}
             /\ tpc' = [tpc EXCEPT ![t] = "loop"]
          \/ /\ "thread" \in Faults
             /\ threadhandle' = [threadhandle EXCEPT ![slot] = Null]
             /\ UNCHANGED <<openhandles, tpc>>
    /\ slot' = slot + 1
    /\ gui' = IF slot = NumThreads THEN "socket" ELSE "spawn"
    /\ UNCHANGED <<after, serverruning, starts, completeport, openports, ssocket,
                   opensocks, threadnum, serving, queue, tport>>

(* WSASocket, the association with the port, setsockopt, bind and listen.  *)
(* A failed association leaves the socket open, the later ones close it.   *)
InitializeSocket ==
    /\ gui = "socket"
    /\ \/ /\ gui' = "accept"
          /\ ssocket' = starts /\ opensocks' = opensocks \cup {starts}
       \/ /\ "socket" \in Faults
          /\ gui' = "idle"
          /\ \/ ssocket' = 0 /\ opensocks' = opensocks
             \/ ssocket' = starts /\ opensocks' = opensocks \cup {starts}
             \/ ssocket' = starts /\ opensocks' = opensocks
    /\ UNCHANGED <<after, slot, serverruning, starts, completeport, openports,
                   threadnum, threadhandle, openhandles, serving, queue, threadVars>>

(* Mutant: StartServer does not look at what Start returns.                *)
PostAcceptsUnchecked ==
    /\ gui = "accept"
    /\ gui' = "idle"
    /\ serverruning' = TRUE
    /\ \/ serving' = serving \cup {completeport}
       \/ "acceptex" \in Faults /\ UNCHANGED serving
    /\ UNCHANGED <<after, slot, starts, completeport, openports, ssocket, opensocks,
                   threadnum, threadhandle, openhandles, queue, threadVars>>

(* GetAcceptExFuction, and the accepts that Start posts: from now on I/O   *)
(* arrives.                                                                *)
PostAccepts ==
    /\ gui = "accept"
    /\ gui' = "idle"
    /\ \/ serverruning' = TRUE /\ serving' = serving \cup {completeport}
       \/ "acceptex" \in Faults /\ UNCHANGED <<serverruning, serving>>
    /\ UNCHANGED <<after, slot, starts, completeport, openports, ssocket, opensocks,
                   threadnum, threadhandle, openhandles, queue, threadVars>>

-----------------------------------------------------------------------------
BeginStop(next) ==
    /\ gui' = IF threadnum = 0 THEN "wait" ELSE "exit"
    /\ slot' = 1
    /\ after' = next
    /\ UNCHANGED <<serverruning, starts, handleVars, queue, threadVars>>

(* The stop button; SubmitSqlData with valid input restarts the server; X  *)
(* stops it whether it runs or not, and closes the dialog.                 *)
StopServer    == gui = "idle" /\ serverruning /\ BeginStop("idle")
SubmitSqlData == /\ gui = "idle" /\ serverruning
                 /\ starts < MaxStarts
                 /\ BeginStop("restart")
OnSysCommand  == gui = "idle" /\ BeginStop("gone")

(* Enter in an input field of the main dialog, which has no default        *)
(* button, is IDOK.  OnOk does not override CDialog::OnOK, which ends the  *)
(* dialog; the server is deleted as it is.                                 *)
OnOK ==
    /\ gui = "idle" /\ "enter" \in Faults
    /\ gui' = "gone"
    /\ UNCHANGED <<after, slot, serverruning, starts, handleVars, queue, threadVars>>

(* The first loop of Stop.  A packet that cannot be posted is lost.        *)
PostExit ==
    /\ gui = "exit"
    /\ \/ /\ completeport \in openports
          /\ queue' = [queue EXCEPT ![completeport] = Append(@, "exit")]
       \/ /\ completeport \notin openports \/ "post" \in Faults
          /\ UNCHANGED queue
    /\ slot' = slot + 1
    /\ gui' = IF slot = threadnum THEN "wait" ELSE "exit"
    /\ UNCHANGED <<after, serverruning, starts, handleVars, threadVars>>

Handles == {threadhandle[i] : i \in 1..threadnum}

(* Mutant: bWaitAll is FALSE.                                              *)
WaitForAnyWorker ==
    /\ gui = "wait"
    /\ Handles \subseteq openhandles =>
           Handles = {} \/ \E t \in Handles : tpc[t] = "done"
    /\ gui' = "close"
    /\ UNCHANGED <<after, slot, serverruning, starts, handleVars, queue, threadVars>>

(* WaitForMultipleObjects fails at once when a handle is not open.         *)
WaitForWorkers ==
    /\ gui = "wait"
    /\ Handles \subseteq openhandles => \A t \in Handles : tpc[t] = "done"
    /\ gui' = "close"
    /\ UNCHANGED <<after, slot, serverruning, starts, handleVars, queue, threadVars>>

(* Mutant: closes the port only.                                           *)
CloseHandlesButSocket ==
    /\ gui = "close"
    /\ openhandles' = openhandles \ Handles
    /\ openports' = openports \ {completeport}
    /\ tpc' = [t \in Threads |->
                 IF tpc[t] = "wait" /\ tport[t] = completeport THEN "loop" ELSE tpc[t]]
    /\ serverruning' = FALSE
    /\ gui' = after
    /\ UNCHANGED <<after, slot, starts, completeport, ssocket, opensocks, threadnum,
                   threadhandle, serving, queue, tport>>

(* The rest of Stop and of StopServer; completeport keeps its value.  A    *)
(* thread that still waits for the port gets an error and tries again.     *)
CloseHandles ==
    /\ gui = "close"
    /\ openhandles' = openhandles \ Handles
    /\ opensocks' = opensocks \ {ssocket}
    /\ openports' = openports \ {completeport}
    /\ tpc' = [t \in Threads |->
                 IF tpc[t] = "wait" /\ tport[t] = completeport THEN "loop" ELSE tpc[t]]
    /\ serverruning' = FALSE
    /\ gui' = after
    /\ UNCHANGED <<after, slot, starts, completeport, ssocket, threadnum,
                   threadhandle, serving, queue, tport>>

-----------------------------------------------------------------------------
(* WorkerThread.  Each turn of its loop reads completeport again.  On a    *)
(* handle that is not open GetQueuedCompletionStatus fails, and the loop   *)
(* turns for nothing.                                                      *)
GetStatus(t) ==
    /\ tpc[t] = "loop"
    /\ completeport \in openports
    /\ tpc' = [tpc EXCEPT ![t] = "wait"]
    /\ tport' = [tport EXCEPT ![t] = completeport]
    /\ UNCHANGED <<guiVars, handleVars, queue>>

(* Mutant: on an exit packet keeprunning stays TRUE.                       *)
TakePacketAndStay(t) ==
    /\ tpc[t] = "wait"
    /\ LET q == queue[tport[t]]
       IN /\ q # <<>>
          /\ queue' = [queue EXCEPT ![tport[t]] = Tail(q)]
          /\ tpc' = [tpc EXCEPT ![t] = IF Head(q) = "exit" THEN "loop" ELSE "busy"]
    /\ UNCHANGED <<guiVars, handleVars, tport>>

(* A packet with key 0 ends the thread.                                    *)
TakePacket(t) ==
    /\ tpc[t] = "wait"
    /\ LET q == queue[tport[t]]
       IN /\ q # <<>>
          /\ queue' = [queue EXCEPT ![tport[t]] = Tail(q)]
          /\ tpc' = [tpc EXCEPT ![t] = IF Head(q) = "exit" THEN "done" ELSE "busy"]
    /\ UNCHANGED <<guiVars, handleVars, tport>>

HandlePacket(t) ==
    /\ tpc[t] = "busy"
    /\ tpc' = [tpc EXCEPT ![t] = "loop"]
    /\ UNCHANGED <<guiVars, handleVars, queue, tport>>

WorkerThread(t) == GetStatus(t) \/ TakePacket(t) \/ HandlePacket(t)

(* External: an operation of a client completes.                           *)
IoArrives(p) ==
    /\ p \in serving \cap openports
    /\ Len(queue[p]) < MaxQueue
    /\ queue' = [queue EXCEPT ![p] = Append(@, "io")]
    /\ UNCHANGED <<guiVars, handleVars, threadVars>>

-----------------------------------------------------------------------------
Start == StartServer \/ BeginThread \/ InitializeSocket \/ PostAccepts
Stop  == PostExit \/ WaitForWorkers \/ CloseHandles
User  == Login \/ StopServer \/ SubmitSqlData \/ OnSysCommand \/ OnOK

Ended == gui = "gone" /\ UNCHANGED vars

Next ==
    \/ Start \/ Stop \/ User
    \/ \E t \in Threads : WorkerThread(t)
    \/ \E p \in Ports : IoArrives(p)
    \/ Ended

Spec == Init /\ [][Next]_vars

(* A handler of the GUI thread that was entered runs on, and threads are   *)
(* scheduled; the user and the clients owe nothing.                        *)
Fairness ==
    /\ WF_vars(gui # "idle" /\ (Start \/ Stop))
    /\ \A t \in Threads : WF_vars(WorkerThread(t))

FairSpec == Spec /\ Fairness

-----------------------------------------------------------------------------
Alive(t) == tpc[t] \in {"loop", "wait", "busy"}

AliveSlots == {i \in Slots : threadhandle[i] # Null /\ Alive(threadhandle[i])}

(* Stop posts one exit packet for each worker, and FIFO order and one      *)
(* packet per thread make it end exactly the workers it was posted for:    *)
(* while it runs, the workers alive are those whose packet is still to be  *)
(* posted or taken.                                                        *)
ExitPerWorker ==
    gui \in {"exit", "wait"} /\ completeport \in openports =>
        Cardinality(AliveSlots) =
            (threadnum + 1 - slot)
          + Cardinality({n \in DOMAIN queue[completeport] :
                           queue[completeport][n] = "exit"})

(* When the GUI shows the server as running, its port and its listen       *)
(* socket are open and every worker that could be created is alive, after  *)
(* any history of stops, restarts and failed starts.                       *)
RunningServes ==
    gui = "idle" /\ serverruning =>
        /\ completeport \in openports /\ completeport \in serving
        /\ ssocket \in opensocks
        /\ \A t \in Handles \ {Null} : Alive(t)

(* A stopped server holds no port, no thread handle and no listen socket.  *)
StopReleases ==
    gui \in {"idle", "gone"} /\ ~serverruning =>
        openports = {} /\ openhandles = {} /\ opensocks = {}

(* When the wait of Stop returns, every thread in threadhandle has ended,  *)
(* even after failed starts and failed posts, if all could be created.     *)
JoinsHandles == gui = "close" /\ Null \notin Handles => AliveSlots = {}

(* "main thread can exit now!": when Stop returns, and when the dialogs    *)
(* are closed with the server stopped, no worker is left.                  *)
NoWorkerLeft ==
    gui = "close" \/ (gui = "gone" /\ ~serverruning) =>
        \A t \in Threads : ~Alive(t)

(* Stop returns.                                                           *)
StopReturns == gui \in {"exit", "wait", "close"} ~> gui \in {"idle", "restart", "gone"}

Phase == CASE gui \in {"spawn", "socket", "accept"} -> "starting"
           [] gui \in {"exit", "wait", "close"}     -> "stopping"
           [] OTHER -> IF serverruning THEN "running" ELSE "stopped"

Life == INSTANCE ServerLifecycle WITH
    NumThreads <- NumThreads, phase <- Phase, workers <- AliveSlots

(* Start and Stop keep the promise of ServerLifecycle when no call fails.  *)
ImplementsLifecycle == Life!Lifecycle
=============================================================================
