------------------------------ MODULE AMSServer ------------------------------
(***************************************************************************)
(* The process: _tmain with its two singletons, the log file and the mutex *)
(* for new and delete, and every thread that uses them.  The dialogs,      *)
(* Start, Stop and the threads are those of MFCMainGUI, with every failure *)
(* that MFCMainGUI knows; each of its steps is taken here together with    *)
(* the calls it makes.                                                     *)
(*                                                                         *)
(* A thread runs a script: the lines it writes to the log (a run of lines  *)
(* is one "log"), its sections under the heap mutex and its uses of the    *)
(* heap, in the order of the code.  It goes on when its script is done.    *)
(***************************************************************************)
EXTENDS MFCMainGUI

CONSTANTS Main,         \* the thread that runs _tmain and the dialogs
          None,         \* no thread
          MainFaults,   \* calls of _tmain that may fail
          Requests      \* bound: what packets may ask of a worker

JobNames == {"accept", "fails", "answer", "refuse", "more", "logged"}

ASSUME ProcessAssumption ==
    /\ Main \notin Threads /\ None \notin Threads \cup {Main}
    /\ MainFaults \subseteq {"open", "afx"}
    /\ Requests \subseteq JobNames

VARIABLES main,             \* where _tmain is
          logsingleton,     \* logsingletoninstance is not NULL
          mutexsingleton,   \* mutexsingletoninstance is not NULL
          logfd,            \* invalid or open
          logowner,         \* owner of logmutex
          heapowner,        \* owner of heapprotectmutex
          todo,             \* the calls a thread has still to make
          at                \* where it is in the first of them

singletons == <<logsingleton, mutexsingleton>>
owners     == <<logowner, heapowner>>
procVars   == <<main, singletons, logfd, owners, todo, at>>
allVars    == <<vars, procVars>>

Callers == {Main} \cup Threads
Calls   == {"log", "lock", "unlock", "heap"}
Places  == {"call", "write", "inside"}

ProcInit ==
    /\ Init
    /\ main = "log"
    /\ logsingleton = FALSE /\ mutexsingleton = FALSE
    /\ logfd = "invalid"
    /\ logowner = None /\ heapowner = None
    /\ todo = [t \in Callers |-> <<>>]
    /\ at = [t \in Callers |-> "call"]

ProcTypeOK ==
    /\ TypeOK
    /\ main \in {"log", "open", "mutex", "afx", "gui", "delmutex", "dellog",
                 "return", "done"}
    /\ logsingleton \in BOOLEAN /\ mutexsingleton \in BOOLEAN
    /\ logfd \in {"invalid", "open"}
    /\ logowner \in Callers \cup {None} /\ heapowner \in Callers \cup {None}
    /\ todo \in [Callers -> Seq(Calls)]
    /\ at \in [Callers -> Places]

-----------------------------------------------------------------------------
NextCall(t, c) == todo[t] # <<>> /\ Head(todo[t]) = c
Begins(t, c) == NextCall(t, c) /\ at[t] = "call"

Returns(t) ==
    /\ todo' = [todo EXCEPT ![t] = Tail(@)]
    /\ at' = [at EXCEPT ![t] = "call"]

At(t, place) == at' = [at EXCEPT ![t] = place] /\ UNCHANGED todo

(* WirteLogFile, which every AMS_DBUG ends in: WaitForSingleObject (which  *)
(* lets the owner of a mutex pass) on the mutex of the singleton.          *)
WaitLogMutex(t) ==
    /\ Begins(t, "log")
    /\ logsingleton
    /\ logowner \in {None, t}
    /\ logowner' = t
    /\ At(t, "write")
    /\ UNCHANGED <<vars, main, singletons, logfd, heapowner>>

(* Mutant: a failed WriteFile returns at once.                             *)
WriteOrReturn(t) ==
    /\ at[t] = "write"
    /\ logowner' = IF logfd = "invalid" THEN t ELSE None
    /\ Returns(t)
    /\ UNCHANGED <<vars, main, singletons, logfd, heapowner>>

(* The line is written, or that fails, and ReleaseMutex.                   *)
WriteLine(t) ==
    /\ at[t] = "write"
    /\ logowner' = None
    /\ Returns(t)
    /\ UNCHANGED <<vars, main, singletons, logfd, heapowner>>

WaitHeapProtectMutex(t) ==
    /\ Begins(t, "lock")
    /\ mutexsingleton
    /\ heapowner \in {None, t}
    /\ heapowner' = t
    /\ Returns(t)
    /\ UNCHANGED <<vars, main, singletons, logfd, logowner>>

ReleaseHeapProtectMutex(t) ==
    /\ Begins(t, "unlock")
    /\ mutexsingleton
    /\ heapowner' = None
    /\ Returns(t)
    /\ UNCHANGED <<vars, main, singletons, logfd, logowner>>

(* A new or a delete, and its end.                                         *)
EnterHeap(t) ==
    /\ Begins(t, "heap")
    /\ At(t, "inside")
    /\ UNCHANGED <<vars, main, singletons, logfd, owners>>

LeaveHeap(t) ==
    /\ at[t] = "inside"
    /\ Returns(t)
    /\ UNCHANGED <<vars, main, singletons, logfd, owners>>

CallStep(t) ==
    \/ WaitLogMutex(t) \/ WriteLine(t)
    \/ WaitHeapProtectMutex(t) \/ ReleaseHeapProtectMutex(t)
    \/ EnterHeap(t) \/ LeaveHeap(t)

-----------------------------------------------------------------------------
Idle(t) == todo[t] = <<>>
Calling(t, calls) == todo' = [todo EXCEPT ![t] = calls] /\ UNCHANGED at

NewFileLog ==
    /\ main = "log"
    /\ logsingleton' = TRUE
    /\ main' = "open"
    /\ UNCHANGED <<vars, mutexsingleton, logfd, owners, todo, at>>

(* A failure goes unnoticed.                                               *)
OpenLogFile ==
    /\ main = "open"
    /\ logfd' = "open" \/ ("open" \in MainFaults /\ UNCHANGED logfd)
    /\ main' = "mutex"
    /\ UNCHANGED <<vars, singletons, owners, todo, at>>

NewHeapMutex ==
    /\ main = "mutex"
    /\ mutexsingleton' = TRUE
    /\ main' = "afx"
    /\ Calling(Main, <<"log">>)
    /\ UNCHANGED <<vars, logsingleton, logfd, owners>>

(* When it fails, _tmain logs and returns without the two deletes.         *)
AfxWinInit ==
    /\ main = "afx" /\ Idle(Main)
    /\ main' = "gui" \/ ("afx" \in MainFaults /\ main' = "return")
    /\ Calling(Main, <<"log">>)
    /\ UNCHANGED <<vars, singletons, logfd, owners>>

ReturnEarly ==
    /\ main = "return" /\ Idle(Main)
    /\ main' = "done"
    /\ UNCHANGED <<vars, singletons, logfd, owners, todo, at>>

-----------------------------------------------------------------------------
(* Inside the dialogs: a step of MFCMainGUI, and the calls that follow it  *)
(* on the GUI thread.                                                      *)
InDialogs == main = "gui" /\ Idle(Main)

GUICalls(calls) ==
    /\ Calling(Main, calls)
    /\ UNCHANGED <<main, singletons, logfd, owners>>

OpenDialog  == InDialogs /\ Login        /\ GUICalls(<<>>)
CallStart   == InDialogs /\ StartServer  /\ GUICalls(<<"log">>)
NewWorker   == InDialogs /\ BeginThread  /\ GUICalls(<<>>)
SocketReady == InDialogs /\ InitializeSocket /\ GUICalls(<<"log">>)

(* PostAcceptEx on new objects, if Start gets that far.                    *)
StartReturns ==
    /\ InDialogs /\ PostAccepts
    /\ GUICalls(IF serverruning' THEN <<"log", "heap", "log">> ELSE <<"log">>)

UserStops  == InDialogs /\ (StopServer \/ SubmitSqlData \/ OnSysCommand)
                        /\ GUICalls(<<>>)
UserEnters == InDialogs /\ OnOK /\ GUICalls(<<>>)

ExitPosted ==
    /\ InDialogs /\ PostExit
    /\ GUICalls(IF queue' = queue THEN <<"log">> ELSE <<>>)

(* Mutant: the wait is for the packets, not for the threads.               *)
WorkersJoinedEarly == InDialogs /\ WaitForWorkers /\ GUICalls(<<>>)

(* A thread has ended when it has also written its last line.              *)
WorkersJoined ==
    /\ InDialogs /\ WaitForWorkers
    /\ Handles \subseteq openhandles => \A t \in Handles : Idle(t)
    /\ GUICalls(<<>>)

(* A thread that waited for the port logs the error it gets.               *)
StopReturned ==
    /\ InDialogs /\ CloseHandles
    /\ todo' = [t \in Callers |->
                  IF t = Main \/ (t \in Threads /\ tpc[t] # tpc'[t]) THEN <<"log">>
                  ELSE todo[t]]
    /\ UNCHANGED <<main, singletons, logfd, owners, at>>

(* The dialogs are closed; ~MFCMainGUI, if the login succeeded, deletes    *)
(* the server.                                                             *)
CloseGUI ==
    /\ InDialogs /\ gui = "gone"
    /\ main' = "delmutex"
    /\ \E calls \in {<<>>, <<"heap", "log">>} : Calling(Main, calls)
    /\ UNCHANGED <<vars, singletons, logfd, owners>>

(* Mutant: the two deletes of _tmain the other way round.                  *)
DeleteFileLogFirst ==
    /\ main = "delmutex" /\ Idle(Main)
    /\ logsingleton' = FALSE /\ mutexsingleton' = FALSE
    /\ main' = "dellog"
    /\ Calling(Main, <<"log">>)
    /\ UNCHANGED <<vars, logfd, owners>>

(* ~HeapProtectMutex logs.                                                 *)
DeleteHeapMutex ==
    /\ main = "delmutex" /\ Idle(Main)
    /\ mutexsingleton' = FALSE
    /\ main' = "dellog"
    /\ Calling(Main, <<"log">>)
    /\ UNCHANGED <<vars, logsingleton, logfd, owners>>

DeleteFileLog ==
    /\ main = "dellog" /\ Idle(Main)
    /\ logsingleton' = FALSE
    /\ logfd' = "invalid"
    /\ main' = "done"
    /\ UNCHANGED <<vars, mutexsingleton, owners, todo, at>>

Outside ==
    \/ NewFileLog \/ OpenLogFile \/ NewHeapMutex \/ AfxWinInit \/ ReturnEarly
    \/ CloseGUI \/ DeleteHeapMutex \/ DeleteFileLog
InStart == CallStart \/ NewWorker \/ SocketReady \/ StartReturns
InStop  == ExitPosted \/ WorkersJoined \/ StopReturned
ByUser  == OpenDialog \/ UserStops \/ UserEnters

-----------------------------------------------------------------------------
(* What a worker calls for one packet: DoAcceptEx, whole or until          *)
(* CreateIoCompletionPort fails; DoRecv with an answer and without one;    *)
(* an incomplete message; everything that is only logged.                  *)
RecvJobNoRelease == <<"log", "heap", "log", "heap", "log",
                      "lock", "heap", "log", "heap">>   \* mutant
RecvJob == <<"log", "heap", "log", "heap", "log",
             "lock", "heap", "unlock", "log", "heap">>

Job(r) ==
    CASE r = "accept" -> <<"log", "lock", "heap", "unlock", "log", "heap",
                           "lock", "heap", "unlock", "log", "heap">>
      [] r = "fails"  -> <<"log", "lock", "heap", "unlock", "log">>
      [] r = "answer" -> RecvJob
      [] r = "refuse" -> <<"log", "heap", "log", "heap", "log", "heap">>
      [] r = "more"   -> <<"log", "heap">>
      [] r = "logged" -> <<"log">>

WorkerCalls(t, calls) ==
    /\ Calling(t, calls)
    /\ UNCHANGED <<main, singletons, logfd, owners>>

WaitsForPacket(t) == Idle(t) /\ GetStatus(t) /\ WorkerCalls(t, <<>>)

(* The line of a thread that ends is its last.                             *)
TakesPacket(t) ==
    /\ Idle(t) /\ TakePacket(t)
    /\ IF tpc'[t] = "done" THEN WorkerCalls(t, <<"log">>)
       ELSE \E r \in Requests : WorkerCalls(t, Job(r))

PacketDone(t) == Idle(t) /\ HandlePacket(t) /\ WorkerCalls(t, <<>>)

(* GetQueuedCompletionStatus on a handle that is not open.                 *)
StatusFails(t) ==
    /\ Idle(t)
    /\ tpc[t] = "loop" /\ completeport \notin openports
    /\ WorkerCalls(t, <<"log">>)
    /\ UNCHANGED vars

ByWorker(t) ==
    WaitsForPacket(t) \/ TakesPacket(t) \/ PacketDone(t) \/ StatusFails(t)

ByClient == \E p \in Ports : IoArrives(p) /\ UNCHANGED procVars

ProcEnded == main = "done" /\ UNCHANGED allVars

ProcNext ==
    \/ Outside \/ InStart \/ InStop \/ ByUser
    \/ \E t \in Callers : CallStep(t)
    \/ \E t \in Threads : ByWorker(t)
    \/ ByClient
    \/ ProcEnded

ProcSpec == ProcInit /\ [][ProcNext]_allVars

(* A thread that is inside _tmain, Start or Stop runs on, threads are      *)
(* scheduled, and a mutex that comes free again and again goes to each of  *)
(* its waiters in turn.                                                    *)
ProcFairness ==
    /\ WF_allVars(Outside)
    /\ WF_allVars(gui # "idle" /\ (InStart \/ InStop))
    /\ \A t \in Callers : SF_allVars(CallStep(t))
    /\ \A t \in Threads : WF_allVars(ByWorker(t))

FairProcSpec == ProcSpec /\ ProcFairness

-----------------------------------------------------------------------------
(* Nobody calls a singleton that is not there yet or has been deleted:     *)
(* the constructors and destructors that log, and the workers until their  *)
(* very last line, lie between the two of FileLog.  It rests on the join   *)
(* of Stop, and so on every thread having been created.                    *)
SingletonsAlive ==
    \A t \in Callers :
        /\ NextCall(t, "log") => logsingleton
        /\ NextCall(t, "lock") \/ NextCall(t, "unlock") => mutexsingleton

(* A thread owns a mutex exactly while it is between its wait and its      *)
(* release, also when the file could not be opened.                        *)
Unlocks(t) == \E k \in DOMAIN todo[t] :
    todo[t][k] = "unlock" /\ \A j \in 1..(k - 1) : todo[t][j] # "lock"

OwnersInside ==
    \A t \in Callers :
        /\ logowner = t <=> at[t] = "write"
        /\ heapowner = t <=> Unlocks(t)

(* The locks do not get into the way of starting and stopping: the process *)
(* still has the progress that ServerLifecycle promises.                   *)
KeepsLifecycle == ImplementsLifecycle

(* ReadMe.txt: the mutex protects every new and delete.  GetNewIOData and  *)
(* the new and delete of HttpData do not take it.                          *)
HeapSerialized ==
    \A s, t \in Callers : at[s] = "inside" /\ at[t] = "inside" => s = t
=============================================================================
