---------------------------- MODULE ProcessProofs ----------------------------
(***************************************************************************)
(* Proofs about the process, for every number of workers and of starts: it *)
(* does what MFCMainGUI does, a mutex is owned exactly inside its section, *)
(* and, as long as Stop joins every worker, the singletons outlive all     *)
(* their callers.                                                          *)
(***************************************************************************)
EXTENDS AMSServer, MFCMainGUIProofs

-----------------------------------------------------------------------------
(* A thread inside a call has that call still in its script.               *)
CallsMade == \A t \in Callers :
    at[t] # "call" => NextCall(t, IF at[t] = "inside" THEN "heap" ELSE "log")

(* The main thread takes no heap mutex, and outside of the dialogs it only *)
(* logs what comes right before its next step.                             *)
MainCalls ==
    /\ todo[Main] \in Seq({"log", "heap"})
    /\ main \in {"log", "open", "mutex", "done"} => todo[Main] = <<>>

(* A thread that waits for a packet has nothing left to call.              *)
WaitIdle == \A t \in Threads : tpc[t] = "wait" => Idle(t)

DialogStages ==
    /\ main \in {"log", "open", "mutex", "afx", "return"} => gui = "login"
    /\ main \in {"delmutex", "dellog"} => gui = "gone"
    /\ main = "done" => gui \in {"login", "gone"}

SingletonStages ==
    /\ main \in {"open", "mutex", "afx", "gui", "delmutex", "dellog", "return"} => logsingleton
    /\ main \in {"afx", "gui", "delmutex", "return"} => mutexsingleton

ProcInv ==
    /\ TypeInv /\ ProcTypeOK /\ CallsMade /\ MainCalls /\ WaitIdle
    /\ DialogStages /\ SingletonStages

-----------------------------------------------------------------------------
LEMMA MainIsNoWorker ==
    Main \notin Threads /\ Main \in Callers /\ Threads \subseteq Callers /\ None \notin Callers
BY ProcessAssumption DEF Callers

LEMMA TailOfScript ==
    ASSUME NEW S, NEW s \in Seq(S), s # <<>> PROVE Tail(s) \in Seq(S)
BY HeadTailProperties

LEMMA JobsAreScripts == \A r \in JobNames : Job(r) \in Seq(Calls)
<1>1. Job("accept") \in Seq(Calls)
  BY DEF Job, Calls
<1>2. Job("fails") \in Seq(Calls)
  BY DEF Job, Calls
<1>3. Job("answer") \in Seq(Calls)
  BY DEF Job, RecvJob, Calls
<1>4. Job("refuse") \in Seq(Calls)
  BY DEF Job, Calls
<1>5. Job("more") \in Seq(Calls) /\ Job("logged") \in Seq(Calls)
  BY DEF Job, Calls
<1> QED BY <1>1, <1>2, <1>3, <1>4, <1>5 DEF JobNames

(* Every step is one of MFCMainGUI, or none of its business.               *)
LEMMA ProcStep == ASSUME [ProcNext]_allVars PROVE [Next]_vars
<1>1. CASE InStart \/ InStop \/ ByUser
  BY <1>1 DEF InStart, InStop, ByUser, CallStart, NewWorker, SocketReady, StartReturns,
     ExitPosted, WorkersJoined, StopReturned, OpenDialog, UserStops, UserEnters, Next,
     Start, Stop, User
<1>2. CASE Outside
  BY <1>2 DEF Outside, NewFileLog, OpenLogFile, NewHeapMutex, AfxWinInit, ReturnEarly,
     CloseGUI, DeleteHeapMutex, DeleteFileLog
<1>3. ASSUME NEW t \in Callers, CallStep(t) PROVE UNCHANGED vars
  BY <1>3 DEF CallStep, WaitLogMutex, WriteLine, WaitHeapProtectMutex,
     ReleaseHeapProtectMutex, EnterHeap, LeaveHeap
<1>4. ASSUME NEW t \in Threads, ByWorker(t) PROVE Next \/ UNCHANGED vars
  BY <1>4 DEF ByWorker, WaitsForPacket, TakesPacket, PacketDone, StatusFails, Next,
     WorkerThread
<1>5. CASE ByClient
  BY <1>5 DEF ByClient, Next
<1>6. CASE UNCHANGED allVars \/ ProcEnded
  BY <1>6 DEF allVars, ProcEnded
<1> QED BY <1>1, <1>2, <1>3, <1>4, <1>5, <1>6 DEF ProcNext

LEMMA ProcStarts == ASSUME ProcInit PROVE ProcInv
<1> USE DEF ProcInit
<1>1. TypeInv
  BY TypeInit
<1>2. ProcTypeOK
  <2>1. todo \in [Callers -> Seq(Calls)] /\ at \in [Callers -> Places]
    BY EmptySeq DEF Places
  <2> QED BY <1>1, <2>1 DEF ProcTypeOK, TypeInv
<1>3. CallsMade /\ MainCalls /\ WaitIdle
  BY MainIsNoWorker DEF CallsMade, MainCalls, WaitIdle, Idle
<1>4. DialogStages /\ SingletonStages
  BY DEF DialogStages, SingletonStages, Init
<1> QED BY <1>1, <1>2, <1>3, <1>4 DEF ProcInv

-----------------------------------------------------------------------------
(* The end of a call.                                                      *)
LEMMA ReturnsKeep ==
    ASSUME ProcInv, NEW t \in Callers, Returns(t), todo[t] # <<>>, tpc' = tpc
    PROVE  /\ todo' \in [Callers -> Seq(Calls)]
           /\ at' \in [Callers -> Places]
           /\ CallsMade' /\ WaitIdle'
           /\ todo'[Main] \in Seq({"log", "heap"})
           /\ todo[Main] = <<>> => todo'[Main] = <<>>
<1> USE MainIsNoWorker DEF ProcInv, ProcTypeOK
<1>1. todo[t] \in Seq(Calls) /\ Tail(todo[t]) \in Seq(Calls)
  BY TailOfScript
<1>2. /\ todo' = [todo EXCEPT ![t] = Tail(todo[t])]
      /\ at' = [at EXCEPT ![t] = "call"]
  BY DEF Returns
<1>3. todo' \in [Callers -> Seq(Calls)]
  BY <1>1, <1>2
<1>4. at' \in [Callers -> Places]
  BY <1>2 DEF Places
<1>5. CallsMade'
  <2> SUFFICES ASSUME NEW s \in Callers, at'[s] # "call"
               PROVE  NextCall(s, IF at[s] = "inside" THEN "heap" ELSE "log")'
    BY <1>2 DEF CallsMade
  <2>1. s # t /\ todo'[s] = todo[s] /\ at'[s] = at[s]
    BY <1>2
  <2> QED BY <2>1 DEF CallsMade, NextCall
<1>6. WaitIdle'
  BY <1>2 DEF WaitIdle, Idle
<1>7. /\ todo'[Main] \in Seq({"log", "heap"})
      /\ todo[Main] = <<>> => todo'[Main] = <<>>
  <2>1. CASE t = Main
    BY <1>2, <2>1, TailOfScript DEF MainCalls
  <2>2. CASE t # Main
    BY <1>2, <2>2 DEF MainCalls
  <2> QED BY <2>1, <2>2
<1> QED BY <1>3, <1>4, <1>5, <1>6, <1>7

LEMMA CallStepKeeps ==
    ASSUME ProcInv, TypeInv', NEW t \in Callers, CallStep(t) PROVE ProcInv'
<1> USE DEF ProcInv, ProcTypeOK
<1>1. /\ UNCHANGED <<vars, main, singletons, logfd>>
      /\ todo[t] # <<>>
      /\ logowner' \in Callers \cup {None} /\ heapowner' \in Callers \cup {None}
  BY DEF CallStep, WaitLogMutex, WriteLine, WaitHeapProtectMutex,
         ReleaseHeapProtectMutex, EnterHeap, LeaveHeap, Begins, NextCall, CallsMade, owners
<1>2. /\ UNCHANGED <<gui, tpc, main, logsingleton, mutexsingleton, logfd>>
      /\ DialogStages' /\ SingletonStages' /\ TypeOK'
  BY <1>1 DEF DialogStages, SingletonStages, singletons, vars, guiVars, threadVars, TypeInv
<1>3. CASE Returns(t)
  <2>1. ProcTypeOK' /\ CallsMade' /\ WaitIdle'
    BY <1>1, <1>2, <1>3, ReturnsKeep
  <2>2. MainCalls'
    BY <1>1, <1>2, <1>3, ReturnsKeep DEF MainCalls
  <2> QED BY <1>2, <2>1, <2>2
<1>4. ASSUME NEW place \in {"write", "inside"}, At(t, place),
             Head(todo[t]) = IF place = "inside" THEN "heap" ELSE "log"
      PROVE  ProcInv'
  <2>1. todo' = todo /\ at' = [at EXCEPT ![t] = place]
    BY <1>4 DEF At
  <2>2. ProcTypeOK' /\ CallsMade'
    BY <1>1, <1>2, <1>4, <2>1 DEF CallsMade, NextCall, Places
  <2>3. MainCalls' /\ WaitIdle'
    BY <1>2, <2>1 DEF MainCalls, WaitIdle, Idle
  <2> QED BY <1>2, <2>2, <2>3
<1> QED
  BY <1>3, <1>4 DEF CallStep, WaitLogMutex, WriteLine, WaitHeapProtectMutex,
     ReleaseHeapProtectMutex, EnterHeap, LeaveHeap, Begins, NextCall

-----------------------------------------------------------------------------
(* Threads that have nothing to call begin a script.                       *)
LEMMA ScriptsKeep ==
    ASSUME ProcInv, at' = at, todo' \in [Callers -> Seq(Calls)],
           \A t \in Callers : todo'[t] = todo[t] \/ Idle(t)
    PROVE  CallsMade'
BY DEF ProcInv, CallsMade, NextCall, Idle

(* The main thread goes on to its next step, with calls of its own.        *)
LEMMA MainStepKeeps ==
    ASSUME ProcInv, TypeInv', Idle(Main), NEW calls \in Seq({"log", "heap"}),
           \/ Calling(Main, calls)
           \/ calls = <<>> /\ UNCHANGED <<todo, at>>,
           \A t \in Threads : tpc'[t] = "wait" => tpc[t] = "wait",
           main' \in {"open", "mutex", "afx", "gui", "delmutex", "dellog", "return", "done"},
           main' \in {"open", "mutex", "done"} => calls = <<>>,
           UNCHANGED owners,
           logfd' \in {"invalid", "open"},
           logsingleton' \in BOOLEAN, mutexsingleton' \in BOOLEAN,
           DialogStages', SingletonStages'
    PROVE  ProcInv'
<1> USE MainIsNoWorker DEF ProcInv, ProcTypeOK
<1>1. calls \in Seq(Calls)
  BY DEF Calls
<1>2. todo' = [todo EXCEPT ![Main] = calls] /\ at' = at
  BY DEF Calling, Idle
<1>3. ProcTypeOK'
  BY <1>1, <1>2 DEF owners, TypeInv
<1>4. CallsMade'
  BY <1>2, <1>3, ScriptsKeep
<1>5. MainCalls' /\ WaitIdle'
  BY <1>2 DEF MainCalls, WaitIdle, Idle
<1> QED BY <1>3, <1>4, <1>5

LEMMA Scripts ==
    /\ <<>> \in Seq({"log", "heap"}) /\ <<"log">> \in Seq({"log", "heap"})
    /\ <<"heap", "log">> \in Seq({"log", "heap"})
    /\ <<"log", "heap", "log">> \in Seq({"log", "heap"})
OBVIOUS

(* _tmain before and after the dialogs.                                    *)
LEMMA OutsideKeeps == ASSUME ProcInv, TypeInv', Outside PROVE ProcInv'
<1> USE Scripts DEF ProcInv, ProcTypeOK, singletons
<1>1. /\ UNCHANGED <<gui, tpc, owners>> /\ Idle(Main)
      /\ logsingleton' \in BOOLEAN /\ mutexsingleton' \in BOOLEAN
      /\ logfd' \in {"invalid", "open"}
  BY DEF Outside, NewFileLog, OpenLogFile, NewHeapMutex, AfxWinInit, ReturnEarly, CloseGUI,
         DeleteHeapMutex, DeleteFileLog, InDialogs, MainCalls, Idle, vars, guiVars, threadVars
<1>2. DialogStages'
  BY <1>1 DEF DialogStages, Outside, NewFileLog, OpenLogFile, NewHeapMutex, AfxWinInit,
              ReturnEarly, CloseGUI, DeleteHeapMutex, DeleteFileLog
<1>3. SingletonStages'
  BY DEF SingletonStages, Outside, NewFileLog, OpenLogFile, NewHeapMutex, AfxWinInit,
         ReturnEarly, CloseGUI, InDialogs, DeleteHeapMutex, DeleteFileLog
<1>4. CASE NewFileLog \/ OpenLogFile \/ ReturnEarly \/ DeleteFileLog
  BY <1>1, <1>2, <1>3, <1>4, MainStepKeeps
  DEF NewFileLog, OpenLogFile, ReturnEarly, DeleteFileLog
<1>5. CASE NewHeapMutex \/ AfxWinInit \/ DeleteHeapMutex
  BY <1>1, <1>2, <1>3, <1>5, MainStepKeeps DEF NewHeapMutex, AfxWinInit, DeleteHeapMutex
<1>6. CASE CloseGUI
  <2>1. PICK calls \in {<<>>, <<"heap", "log">>} : Calling(Main, calls)
    BY <1>6 DEF CloseGUI
  <2> QED BY <1>1, <1>2, <1>3, <1>6, <2>1, MainStepKeeps DEF CloseGUI
<1> QED BY <1>4, <1>5, <1>6 DEF Outside

(* The dialogs, Start and Stop, but for the return of Stop.                *)
LEMMA DialogStep ==
    ASSUME InStart \/ ByUser \/ ExitPosted \/ WorkersJoined
    PROVE  /\ InDialogs
           /\ \E calls \in {<<>>, <<"log">>, <<"log", "heap", "log">>} : GUICalls(calls)
           /\ TypeOK => \A t \in Threads : tpc'[t] = "wait" => tpc[t] = "wait"
<1>1. CASE NewWorker
  BY <1>1 DEF NewWorker, BeginThread, TypeOK
<1>2. CASE CallStart \/ SocketReady
  BY <1>2 DEF CallStart, SocketReady, StartServer, InitializeSocket, threadVars
<1>3. CASE StartReturns
  BY <1>3 DEF StartReturns, PostAccepts, threadVars
<1>4. CASE ByUser
  BY <1>4 DEF ByUser, OpenDialog, UserStops, UserEnters, Login, StopServer, SubmitSqlData,
     OnSysCommand, BeginStop, OnOK, threadVars
<1>5. CASE ExitPosted
  BY <1>5 DEF ExitPosted, PostExit, threadVars
<1>6. CASE WorkersJoined
  BY <1>6 DEF WorkersJoined, WaitForWorkers, threadVars
<1> QED BY <1>1, <1>2, <1>3, <1>4, <1>5, <1>6 DEF InStart

LEMMA DialogKeeps ==
    ASSUME ProcInv, TypeInv', InStart \/ ByUser \/ ExitPosted \/ WorkersJoined
    PROVE  ProcInv'
<1> USE Scripts DEF ProcInv, ProcTypeOK
<1>1. PICK calls \in {<<>>, <<"log">>, <<"log", "heap", "log">>} : GUICalls(calls)
  BY DialogStep
<1>2. /\ main = "gui" /\ main' = "gui" /\ Idle(Main) /\ Calling(Main, calls)
      /\ UNCHANGED <<logsingleton, mutexsingleton, logfd, owners>>
  BY <1>1, DialogStep DEF GUICalls, InDialogs, singletons
<1>3. DialogStages' /\ SingletonStages'
  BY <1>2 DEF DialogStages, SingletonStages
<1> QED BY <1>2, <1>3, DialogStep, MainStepKeeps

LEMMA StopReturnedKeeps == ASSUME ProcInv, TypeInv', StopReturned PROVE ProcInv'
<1> USE MainIsNoWorker DEF ProcInv, ProcTypeOK
<1>1. /\ main = "gui" /\ main' = "gui" /\ Idle(Main) /\ at' = at
      /\ UNCHANGED <<logsingleton, mutexsingleton, logfd, owners>>
      /\ todo' = [t \in Callers |->
                    IF t = Main \/ (t \in Threads /\ tpc[t] # tpc'[t]) THEN <<"log">>
                    ELSE todo[t]]
  BY DEF StopReturned, InDialogs, singletons
<1>2. \A t \in Threads : tpc'[t] # tpc[t] => tpc[t] = "wait" /\ tpc'[t] = "loop"
  BY DEF StopReturned, CloseHandles, TypeInv, TypeOK
<1>3. <<"log">> \in Seq(Calls) /\ <<"log">> \in Seq({"log", "heap"})
  BY DEF Calls
<1>4. ProcTypeOK'
  BY <1>1, <1>3 DEF owners, TypeInv
<1>5. CallsMade'
  BY <1>1, <1>2, <1>4, ScriptsKeep DEF WaitIdle, Callers
<1>6. MainCalls' /\ WaitIdle'
  BY <1>1, <1>2, <1>3 DEF MainCalls, WaitIdle, Idle
<1>7. DialogStages' /\ SingletonStages'
  BY <1>1 DEF DialogStages, SingletonStages
<1> QED BY <1>4, <1>5, <1>6, <1>7

-----------------------------------------------------------------------------
(* Who owns a mutex.  A script releases the heap mutex once for every time *)
(* it takes it, and not before; outside of a section it does not release.  *)
Releases(s) == \E k \in DOMAIN s : s[k] = "unlock" /\ \A j \in 1..(k - 1) : s[j] # "lock"

Sections(s) ==
    /\ \A j \in DOMAIN s : s[j] = "lock" =>
         \E k \in DOMAIN s : j < k /\ s[k] = "unlock" /\ \A l \in (j + 1)..(k - 1) : s[l] # "lock"
    /\ \A j, k \in DOMAIN s : s[j] = "unlock" /\ s[k] = "unlock" /\ j < k =>
         \E l \in (j + 1)..(k - 1) : s[l] = "lock"

(* Sections stay whole when a call returns, and the call that returns is   *)
(* what opens or closes one.                                               *)
LEMMA TailOfSections ==
    ASSUME NEW s \in Seq(Calls), s # <<>>, Sections(s)
    PROVE  /\ Sections(Tail(s))
           /\ Head(s) = "lock" => Releases(Tail(s))
           /\ Head(s) = "unlock" => Releases(s) /\ ~Releases(Tail(s))
           /\ Head(s) \notin {"lock", "unlock"} => (Releases(Tail(s)) <=> Releases(s))
<1> DEFINE u == Tail(s)
<1>1. /\ DOMAIN s = 1..Len(s) /\ DOMAIN u = 1..Len(u) /\ Len(u) = Len(s) - 1
      /\ \A k \in 1..Len(u) : u[k] = s[k + 1]
      /\ Len(s) \in Nat \ {0} /\ Head(s) = s[1]
  BY HeadTailProperties, EmptySeq
<1> HIDE DEF u
<1>2. ASSUME NEW j \in DOMAIN u, u[j] = "lock"
      PROVE  \E k \in DOMAIN u : j < k /\ u[k] = "unlock" /\ \A l \in (j + 1)..(k - 1) : u[l] # "lock"
  <2>1. j + 1 \in DOMAIN s /\ s[j + 1] = "lock"
    BY <1>1, <1>2
  <2>2. PICK k \in DOMAIN s : j + 1 < k /\ s[k] = "unlock" /\ \A l \in ((j + 1) + 1)..(k - 1) :
                                 s[l] # "lock"
    BY <2>1 DEF Sections
  <2>3. k - 1 \in DOMAIN u /\ j < k - 1 /\ u[k - 1] = "unlock"
    BY <1>1, <2>2
  <2>4. ASSUME NEW l \in (j + 1)..(k - 2) PROVE u[l] # "lock"
    <3>1. l + 1 \in (j + 2)..(k - 1) /\ l \in 1..Len(u)
      BY <1>1, <2>2
    <3> QED BY <1>1, <2>2, <3>1
  <2> QED BY <1>1, <2>2, <2>3, <2>4
<1>3. ASSUME NEW j \in DOMAIN u, NEW k \in DOMAIN u, u[j] = "unlock", u[k] = "unlock", j < k
      PROVE  \E l \in (j + 1)..(k - 1) : u[l] = "lock"
  <2>1. /\ j + 1 \in DOMAIN s /\ k + 1 \in DOMAIN s /\ j + 1 < k + 1
        /\ s[j + 1] = "unlock" /\ s[k + 1] = "unlock"
    BY <1>1, <1>3
  <2>2. PICK l \in (j + 2)..k : s[l] = "lock"
    BY <1>1, <2>1 DEF Sections
  <2>3. l - 1 \in (j + 1)..(k - 1) /\ u[l - 1] = "lock"
    BY <1>1, <2>1, <2>2
  <2> QED BY <2>3
<1>4. ASSUME Head(s) = "lock" PROVE Releases(u)
  <2>1. PICK k \in DOMAIN s : 1 < k /\ s[k] = "unlock" /\ \A l \in 2..(k - 1) : s[l] # "lock"
    BY <1>1, <1>4 DEF Sections
  <2>2. k - 1 \in DOMAIN u /\ u[k - 1] = "unlock"
    BY <1>1, <2>1
  <2>3. ASSUME NEW l \in 1..(k - 2) PROVE u[l] # "lock"
    <3>1. l + 1 \in 2..(k - 1) /\ l \in 1..Len(u)
      BY <1>1, <2>1
    <3> QED BY <1>1, <2>1, <3>1
  <2> QED BY <1>1, <2>1, <2>2, <2>3 DEF Releases
<1>5. ASSUME Head(s) = "unlock" PROVE Releases(s) /\ ~Releases(u)
  <2>1. Releases(s)
    BY <1>1, <1>5 DEF Releases
  <2>2. SUFFICES ASSUME NEW k \in DOMAIN u, u[k] = "unlock", \A j \in 1..(k - 1) : u[j] # "lock"
                 PROVE  FALSE
    BY <2>1 DEF Releases
  <2>3. 1 \in DOMAIN s /\ k + 1 \in DOMAIN s /\ s[k + 1] = "unlock" /\ 1 < k + 1
    BY <1>1, <2>2
  <2>4. PICK l \in 2..k : s[l] = "lock"
    BY <1>1, <1>5, <2>3 DEF Sections
  <2>5. l - 1 \in 1..(k - 1) /\ u[l - 1] = "lock"
    BY <1>1, <2>2, <2>4
  <2> QED BY <2>2, <2>5
<1>6. ASSUME Head(s) \notin {"lock", "unlock"} PROVE Releases(u) <=> Releases(s)
  <2>1. ASSUME NEW k \in DOMAIN u, u[k] = "unlock", \A j \in 1..(k - 1) : u[j] # "lock"
        PROVE  Releases(s)
    <3>1. k + 1 \in DOMAIN s /\ s[k + 1] = "unlock"
      BY <1>1, <2>1
    <3>2. ASSUME NEW j \in 1..k PROVE s[j] # "lock"
      <4>1. CASE j = 1
        BY <1>1, <1>6, <4>1
      <4>2. CASE j # 1
        <5>1. j - 1 \in 1..(k - 1) /\ j - 1 \in 1..Len(u) /\ (j - 1) + 1 = j
          BY <1>1, <4>2
        <5> QED BY <1>1, <2>1, <5>1
      <4> QED BY <4>1, <4>2
    <3> QED BY <1>1, <3>1, <3>2 DEF Releases
  <2>2. ASSUME NEW k \in DOMAIN s, s[k] = "unlock", \A j \in 1..(k - 1) : s[j] # "lock"
        PROVE  Releases(u)
    <3>1. k - 1 \in DOMAIN u /\ u[k - 1] = "unlock"
      BY <1>1, <1>6, <2>2
    <3>2. ASSUME NEW j \in 1..(k - 2) PROVE u[j] # "lock"
      <4>1. j + 1 \in 1..(k - 1) /\ j \in 1..Len(u)
        BY <1>1, <3>1
      <4> QED BY <1>1, <2>2, <4>1
    <3> QED BY <1>1, <3>1, <3>2 DEF Releases
  <2> QED BY <2>1, <2>2 DEF Releases
<1> QED BY <1>2, <1>3, <1>4, <1>5, <1>6 DEF Sections, u

(* The scripts that are begun are whole and begin outside of a section.    *)
Fresh(s) == Sections(s) /\ ~Releases(s)

LEMMA QuietIsFresh ==
    ASSUME NEW S, NEW s \in Seq(S), "lock" \notin S, "unlock" \notin S
    PROVE  Fresh(s)
<1>1. \A k \in DOMAIN s : s[k] \in S
  OBVIOUS
<1> QED BY <1>1 DEF Fresh, Sections, Releases

LEMMA JobsAreFresh == \A r \in JobNames : Fresh(Job(r))
<1>1. Fresh(Job("accept"))
  <2> DEFINE job == Job("accept")
  <2>1. /\ DOMAIN job = 1..11 /\ job[2] = "lock" /\ job[4] = "unlock"
        /\ job[7] = "lock" /\ job[9] = "unlock"
        /\ \A k \in DOMAIN job : /\ job[k] = "lock" => k \in {2, 7}
                                 /\ job[k] = "unlock" => k \in {4, 9}
    BY DEF Job
  <2> HIDE DEF job
  <2> QED BY <2>1 DEF Fresh, Sections, Releases, job
<1>2. Fresh(Job("fails"))
  <2> DEFINE job == Job("fails")
  <2>1. /\ DOMAIN job = 1..5 /\ job[2] = "lock" /\ job[4] = "unlock"
        /\ \A k \in DOMAIN job : /\ job[k] = "lock" => k = 2
                                 /\ job[k] = "unlock" => k = 4
    BY DEF Job
  <2> QED BY <2>1 DEF Fresh, Sections, Releases
<1>3. Fresh(Job("answer"))
  <2> DEFINE job == Job("answer")
  <2>1. /\ DOMAIN job = 1..10 /\ job[6] = "lock" /\ job[8] = "unlock"
        /\ \A k \in DOMAIN job : /\ job[k] = "lock" => k = 6
                                 /\ job[k] = "unlock" => k = 8
    BY DEF Job, RecvJob
  <2> QED BY <2>1 DEF Fresh, Sections, Releases
<1>4. \A r \in {"refuse", "more", "logged"} : Fresh(Job(r))
  <2>1. Job("refuse") \in Seq({"log", "heap"})
    BY DEF Job
  <2>2. Job("more") \in Seq({"log", "heap"}) /\ Job("logged") \in Seq({"log", "heap"})
    BY DEF Job
  <2> QED BY <2>1, <2>2, QuietIsFresh
<1> QED BY <1>1, <1>2, <1>3, <1>4 DEF JobNames

-----------------------------------------------------------------------------
(* A worker that has nothing to call begins a script, and does not wait.   *)
LEMMA WorkerBegins ==
    ASSUME TypeOK, NEW t \in Threads, ByWorker(t)
    PROVE  /\ Idle(t) /\ gui' = gui
           /\ \E calls \in Seq(Calls) :
                 WorkerCalls(t, calls) /\ Fresh(calls) /\ (tpc'[t] = "wait" => calls = <<>>)
           /\ \A s \in Threads \ {t} : tpc'[s] = tpc[s]
<1> USE DEF TypeOK
<1>1. /\ <<>> \in Seq(Calls) /\ <<"log">> \in Seq(Calls)
      /\ Fresh(<<>>) /\ Fresh(<<"log">>)
  <2>1. <<>> \in Seq({"log", "heap"}) /\ <<"log">> \in Seq({"log", "heap"})
    BY Scripts
  <2>2. Fresh(<<>>) /\ Fresh(<<"log">>)
    BY <2>1, QuietIsFresh
  <2>3. <<>> \in Seq(Calls) /\ <<"log">> \in Seq(Calls)
    BY DEF Calls
  <2> QED BY <2>2, <2>3
<1>2. CASE WaitsForPacket(t)
  BY <1>1, <1>2 DEF WaitsForPacket, GetStatus, guiVars
<1>3. CASE PacketDone(t)
  BY <1>1, <1>3 DEF PacketDone, HandlePacket, guiVars
<1>4. CASE StatusFails(t)
  BY <1>1, <1>4 DEF StatusFails, vars, guiVars, threadVars
<1>5. CASE TakesPacket(t)
  <2>1. /\ Idle(t) /\ gui' = gui /\ tpc'[t] \in {"done", "busy"}
        /\ \A s \in Threads \ {t} : tpc'[s] = tpc[s]
    BY <1>5 DEF TakesPacket, TakePacket, guiVars
  <2>2. WorkerCalls(t, <<"log">>) \/ \E r \in JobNames : WorkerCalls(t, Job(r))
    BY <1>5, ProcessAssumption DEF TakesPacket
  <2> QED BY <1>1, <2>1, <2>2, JobsAreScripts, JobsAreFresh
<1> QED BY <1>2, <1>3, <1>4, <1>5 DEF ByWorker

LEMMA ByWorkerKeeps ==
    ASSUME ProcInv, TypeInv', NEW t \in Threads, ByWorker(t) PROVE ProcInv'
<1> USE MainIsNoWorker DEF ProcInv, ProcTypeOK
<1>1. PICK calls \in Seq(Calls) : WorkerCalls(t, calls) /\ (tpc'[t] = "wait" => calls = <<>>)
  BY WorkerBegins
<1>2. /\ Idle(t) /\ gui' = gui /\ \A s \in Threads \ {t} : tpc'[s] = tpc[s]
      /\ todo' = [todo EXCEPT ![t] = calls] /\ at' = at
      /\ UNCHANGED <<main, logsingleton, mutexsingleton, logfd, owners>>
  BY <1>1, WorkerBegins DEF WorkerCalls, Calling, singletons
<1>3. ProcTypeOK'
  BY <1>1, <1>2 DEF owners, TypeInv
<1>4. CallsMade'
  BY <1>2, <1>3, ScriptsKeep
<1>5. MainCalls' /\ WaitIdle'
  BY <1>1, <1>2 DEF MainCalls, WaitIdle, Idle
<1>6. DialogStages' /\ SingletonStages'
  BY <1>2 DEF DialogStages, SingletonStages
<1> QED BY <1>3, <1>4, <1>5, <1>6

LEMMA ProcKeeps == ASSUME ProcInv, [ProcNext]_allVars PROVE ProcInv'
<1>1. TypeInv'
  BY ProcStep, TypeNext DEF ProcInv
<1>2. ASSUME UNCHANGED <<procVars, gui, tpc>> PROVE ProcInv'
  BY <1>1, <1>2 DEF procVars, singletons, owners, ProcInv, ProcTypeOK, TypeInv, CallsMade,
     NextCall, MainCalls, WaitIdle, Idle, DialogStages, SingletonStages
<1>3. CASE ByClient
  BY <1>2, <1>3 DEF ByClient, IoArrives, guiVars, threadVars
<1>4. CASE UNCHANGED allVars \/ ProcEnded
  BY <1>2, <1>4 DEF allVars, ProcEnded, vars, guiVars, threadVars
<1>5. CASE InStart \/ InStop \/ ByUser
  BY <1>1, <1>5, DialogKeeps, StopReturnedKeeps DEF InStop
<1> QED BY <1>1, <1>3, <1>4, <1>5, OutsideKeeps, CallStepKeeps, ByWorkerKeeps DEF ProcNext

LEMMA ProcAlways == ProcSpec => []ProcInv
<1>1. ProcInit => ProcInv
  BY ProcStarts
<1>2. ProcInv /\ [ProcNext]_allVars => ProcInv'
  BY ProcKeeps
<1> QED BY <1>1, <1>2, PTL DEF ProcSpec

(* Every reachable state of the process is well-typed, whatever fails.     *)
THEOREM ProcTypeCorrect == ProcSpec => []ProcTypeOK
<1>1. ProcInv => ProcTypeOK
  BY DEF ProcInv
<1> QED BY <1>1, ProcAlways, PTL

(* The process implements MFCMainGUI: the log and the mutexes delay what   *)
(* the dialogs and the workers do and add nothing to it, so everything     *)
(* proved of MFCMainGUI holds of the process.                              *)
THEOREM ProcRefinesGUI == ProcSpec => Spec
<1>1. ProcInit => Init
  BY DEF ProcInit
<1>2. [ProcNext]_allVars => [Next]_vars
  BY ProcStep
<1> QED BY <1>1, <1>2, PTL DEF ProcSpec, Spec

-----------------------------------------------------------------------------
InSections == \A t \in Callers : Sections(todo[t])

OwnersInv == InSections /\ OwnersInside

LEMMA OwnersStart == ASSUME ProcInit PROVE OwnersInv
<1>1. \A t \in Callers : todo[t] = <<>> /\ at[t] = "call" /\ logowner # t /\ heapowner # t
  BY MainIsNoWorker DEF ProcInit
<1>2. Fresh(<<>>)
  BY DEF Fresh, Sections, Releases
<1> QED BY <1>1, <1>2 DEF OwnersInv, InSections, OwnersInside, Unlocks, Fresh, Releases

(* A thread takes or gives back a mutex, and nobody else had it.           *)
LEMMA OwnersOfCall ==
    ASSUME ProcInv, OwnersInv, NEW t \in Callers, CallStep(t) PROVE OwnersInv'
<1> USE MainIsNoWorker DEF ProcInv, ProcTypeOK
<1>1. /\ todo[t] # <<>> /\ todo[t] \in Seq(Calls)
      /\ Sections(todo[t]) /\ (heapowner = t <=> Releases(todo[t]))
      /\ logowner = t <=> at[t] = "write"
  BY DEF CallStep, WaitLogMutex, WriteLine, WaitHeapProtectMutex, Releases, Unlocks,
         ReleaseHeapProtectMutex, EnterHeap, LeaveHeap, Begins, NextCall, CallsMade,
         OwnersInv, InSections, OwnersInside
<1>2. SUFFICES /\ \A s \in Callers \ {t} : /\ todo'[s] = todo[s] /\ at'[s] = at[s]
                                           /\ logowner' = s <=> logowner = s
                                           /\ heapowner' = s <=> heapowner = s
               /\ Sections(todo'[t]) /\ (heapowner' = t <=> Releases(todo'[t]))
               /\ logowner' = t <=> at'[t] = "write"
  <2>1. SUFFICES ASSUME NEW s \in Callers
                 PROVE  /\ Sections(todo'[s]) /\ (heapowner' = s <=> Releases(todo'[s]))
                        /\ logowner' = s <=> at'[s] = "write"
    BY DEF OwnersInv, InSections, OwnersInside, Unlocks, Releases
  <2>2. /\ Sections(todo[s]) /\ (heapowner = s <=> Releases(todo[s]))
        /\ logowner = s <=> at[s] = "write"
    BY DEF OwnersInv, InSections, OwnersInside, Unlocks, Releases
  <2>3. CASE s = t
    BY <1>2, <2>3
  <2>4. CASE s # t
    BY <1>2, <2>2, <2>4
  <2> QED BY <2>3, <2>4
<1>3. CASE WaitLogMutex(t) \/ EnterHeap(t)
  <2>1. /\ UNCHANGED <<todo, heapowner>>
        /\ \A s \in Callers \ {t} : at'[s] = at[s] /\ (logowner' = s <=> logowner = s)
        /\ logowner' = t <=> at'[t] = "write"
    BY <1>1, <1>3 DEF WaitLogMutex, EnterHeap, At, Begins, owners
  <2> QED BY <1>1, <2>1
<1>4. CASE WriteLine(t) \/ LeaveHeap(t)
  <2>1. /\ Returns(t) /\ UNCHANGED heapowner /\ logowner' # t
        /\ \A s \in Callers \ {t} : logowner' = s <=> logowner = s
        /\ Head(todo[t]) \in {"log", "heap"}
    BY <1>1, <1>4 DEF WriteLine, LeaveHeap, CallsMade, NextCall, owners
  <2> QED BY <1>1, <2>1, TailOfSections DEF Returns
<1>5. CASE WaitHeapProtectMutex(t) \/ ReleaseHeapProtectMutex(t)
  <2>1. /\ Returns(t) /\ UNCHANGED logowner /\ at[t] = "call"
        /\ \/ Head(todo[t]) = "lock" /\ heapowner' = t /\ heapowner \in {None, t}
           \/ Head(todo[t]) = "unlock" /\ heapowner' = None
    BY <1>5 DEF WaitHeapProtectMutex, ReleaseHeapProtectMutex, Begins, NextCall
  <2> QED BY <1>1, <2>1, TailOfSections DEF Returns
<1> QED BY <1>3, <1>4, <1>5 DEF CallStep

(* Threads that have nothing to call begin a script.                       *)
LEMMA OwnersOfScripts ==
    ASSUME OwnersInv, UNCHANGED <<at, owners>>,
           \A s \in Callers : todo'[s] = todo[s] \/ (Idle(s) /\ Fresh(todo'[s]))
    PROVE  OwnersInv'
<1> SUFFICES ASSUME NEW s \in Callers
             PROVE  /\ Sections(todo'[s]) /\ (heapowner = s <=> Releases(todo'[s]))
                    /\ logowner = s <=> at[s] = "write"
  BY DEF OwnersInv, InSections, OwnersInside, Unlocks, Releases, owners
<1>1. /\ Sections(todo[s]) /\ (heapowner = s <=> Releases(todo[s]))
      /\ logowner = s <=> at[s] = "write"
  BY DEF OwnersInv, InSections, OwnersInside, Unlocks, Releases
<1>2. CASE todo'[s] = todo[s]
  BY <1>1, <1>2
<1>3. CASE Idle(s) /\ Fresh(todo'[s])
  <2>1. ~Releases(todo[s])
    BY <1>3 DEF Idle, Releases
  <2> QED BY <1>1, <1>3, <2>1 DEF Fresh
<1> QED BY <1>2, <1>3

LEMMA OwnersKeep == ASSUME ProcInv, OwnersInv, [ProcNext]_allVars PROVE OwnersInv'
<1> USE MainIsNoWorker
<1>1. todo \in [Callers -> Seq(Calls)]
  BY DEF ProcInv, ProcTypeOK
<1>2. CASE UNCHANGED procVars
  BY <1>2, OwnersOfScripts DEF procVars
<1>3. CASE \E t \in Callers : CallStep(t)
  BY <1>3, OwnersOfCall
<1>4. CASE Outside \/ InStart \/ ByUser \/ ExitPosted \/ WorkersJoined
  <2>1. SUFFICES ASSUME NEW calls \in Seq({"log", "heap"}), Idle(Main),
                        Calling(Main, calls) \/ UNCHANGED <<todo, at>>, UNCHANGED owners
                 PROVE  OwnersInv'
    <3>1. CASE Outside
      BY <3>1, Scripts DEF Outside, NewFileLog, OpenLogFile, NewHeapMutex, AfxWinInit,
         ReturnEarly, CloseGUI, DeleteHeapMutex, DeleteFileLog, InDialogs, ProcInv,
         MainCalls, Idle
    <3>2. CASE ~Outside
      BY <1>4, <3>2, DialogStep, Scripts DEF GUICalls, InDialogs
    <3> QED BY <3>1, <3>2
  <2>2. Fresh(calls)
    BY QuietIsFresh
  <2>3. \A s \in Callers : todo'[s] = todo[s] \/ (Idle(s) /\ Fresh(todo'[s]))
    BY <1>1, <2>1, <2>2 DEF Calling
  <2> QED BY <2>1, <2>3, OwnersOfScripts DEF Calling
<1>5. CASE StopReturned
  <2>1. Fresh(<<"log">>)
    BY Scripts, QuietIsFresh
  <2>2. \A t \in Threads : tpc'[t] # tpc[t] => Idle(t)
    BY <1>5 DEF StopReturned, CloseHandles, ProcInv, TypeInv, TypeOK, WaitIdle
  <2>3. \A s \in Callers : todo'[s] = todo[s] \/ (Idle(s) /\ Fresh(todo'[s]))
    BY <1>1, <1>5, <2>1, <2>2 DEF StopReturned, InDialogs
  <2> QED BY <1>5, <2>3, OwnersOfScripts DEF StopReturned
<1>6. ASSUME NEW t \in Threads, ByWorker(t) PROVE OwnersInv'
  <2>1. PICK calls \in Seq(Calls) : WorkerCalls(t, calls) /\ Fresh(calls)
    BY <1>6, WorkerBegins DEF ProcInv, TypeInv
  <2>2. Idle(t)
    BY <1>6, WorkerBegins DEF ProcInv, TypeInv
  <2> QED BY <1>1, <2>1, <2>2, OwnersOfScripts DEF WorkerCalls, Calling
<1>7. CASE ByClient \/ ProcEnded \/ UNCHANGED allVars
  BY <1>2, <1>7 DEF ByClient, ProcEnded, allVars
<1> QED BY <1>3, <1>4, <1>5, <1>6, <1>7 DEF ProcNext, InStop

(* A mutex is owned exactly by the thread that is between its wait and its *)
(* release, whatever fails and however the dialogs end.                    *)
THEOREM OwnersAreInside == ProcSpec => []OwnersInside
<1>1. ProcInit => OwnersInv
  BY OwnersStart
<1>2. ProcInv /\ OwnersInv /\ [ProcNext]_allVars => OwnersInv'
  BY OwnersKeep
<1>3. OwnersInv => OwnersInside
  BY DEF OwnersInv
<1> QED BY <1>1, <1>2, <1>3, ProcAlways, PTL DEF ProcSpec

-----------------------------------------------------------------------------
(* Only the threads of a server that is not down call anything, and none   *)
(* does when Stop has joined them.                                         *)
QuietInv == \A t \in Threads :
    ~Idle(t) => ~Down /\ gui # "close" /\ t[1] = starts

LEMMA QuietKeep ==
    ASSUME QuietInv,
           \A t \in Threads : Idle(t) => Idle(t)',
           \/ \A t \in Threads : Idle(t)
           \/ starts' = starts /\ (~Down => ~Down') /\ (gui' = "close" => gui = "close")
    PROVE  QuietInv'
BY DEF QuietInv

(* A step of the main thread that gives no calls to a worker.              *)
LEMMA IdleKept ==
    ASSUME ProcInv, NEW calls, Calling(Main, calls) \/ UNCHANGED todo
    PROVE  \A t \in Threads : Idle(t)' <=> Idle(t)
BY MainIsNoWorker DEF ProcInv, ProcTypeOK, Calling, Idle

LEMMA QuietNext ==
    ASSUME Benign, ProcInv, GoodInv, QuietInv, [ProcNext]_allVars PROVE QuietInv'
<1> USE MainIsNoWorker DEF GoodInv, ServeInv
<1>1. todo \in [Callers -> Seq(Calls)]
  BY DEF ProcInv, ProcTypeOK
<1>2. ASSUME UNCHANGED <<gui, serverruning, starts>>, \A t \in Threads : Idle(t) => Idle(t)'
      PROVE  QuietInv'
  BY <1>2, QuietKeep DEF Down, Starting
<1>3. CASE Outside
  <2>1. UNCHANGED vars /\ \E calls : Calling(Main, calls) \/ UNCHANGED todo
    BY <1>3 DEF Outside, NewFileLog, OpenLogFile, NewHeapMutex, AfxWinInit, ReturnEarly,
       CloseGUI, DeleteHeapMutex, DeleteFileLog
  <2> QED BY <1>2, <2>1, IdleKept DEF vars, guiVars
<1>4. CASE \E t \in Callers : CallStep(t)
  <2>1. PICK t \in Callers : CallStep(t)
    BY <1>4
  <2>2. UNCHANGED vars /\ (UNCHANGED todo \/ Returns(t)) /\ todo[t] # <<>>
    BY <2>1 DEF CallStep, WaitLogMutex, WriteLine, WaitHeapProtectMutex,
       ReleaseHeapProtectMutex, EnterHeap, LeaveHeap, At, Begins, NextCall, ProcInv, CallsMade
  <2> QED BY <1>1, <1>2, <2>2 DEF Returns, Idle, vars, guiVars
<1>5. CASE ByClient \/ ProcEnded \/ UNCHANGED allVars
  BY <1>2, <1>5 DEF ByClient, IoArrives, ProcEnded, allVars, procVars, vars, guiVars, Idle
<1>6. ASSUME NEW t \in Threads, ByWorker(t) PROVE QuietInv'
  <2>1. UNCHANGED guiVars /\ Alive(t)
    BY <1>6 DEF ByWorker, WaitsForPacket, TakesPacket, PacketDone, StatusFails, GetStatus,
       TakePacket, HandlePacket, vars, Alive
  <2>2. ~Down /\ gui # "close" /\ t[1] = starts
    BY <2>1 DEF CleanInv, DownClean, StopOrder, NoneAlive, LatestAlive
  <2>3. \A s \in Threads \ {t} : Idle(s)' <=> Idle(s)
    BY <1>1, <1>6 DEF ByWorker, WaitsForPacket, TakesPacket, PacketDone, StatusFails,
       WorkerCalls, Calling, Idle
  <2> QED BY <2>1, <2>2, <2>3 DEF QuietInv, Down, Starting, guiVars
<1>7. CASE InStart \/ ByUser \/ ExitPosted \/ WorkersJoined
  <2>1. \A t \in Threads : Idle(t)' <=> Idle(t)
    BY <1>7, DialogStep, IdleKept DEF GUICalls
  <2>2. CASE CallStart
    <3>1. Down
      BY <2>2 DEF CallStart, StartServer, CleanInv, StopOrder, Down, Starting
    <3> QED BY <2>1, <3>1, QuietKeep DEF QuietInv
  <2>3. CASE NewWorker \/ SocketReady \/ StartReturns
    <3>1. starts' = starts /\ ~Down' /\ gui' # "close"
      BY <2>3 DEF NewWorker, SocketReady, StartReturns, BeginThread, InitializeSocket,
         PostAccepts, Benign, Down, Starting
    <3> QED BY <2>1, <3>1, QuietKeep
  <2>4. CASE ByUser
    <3>1. /\ starts' = starts /\ serverruning' = serverruning
          /\ gui \in {"login", "idle"} /\ gui' \in {"idle", "gone", "exit", "wait"}
      BY <2>4 DEF ByUser, OpenDialog, UserStops, UserEnters, Login, StopServer, SubmitSqlData,
         OnSysCommand, BeginStop, OnOK
    <3> QED BY <2>1, <3>1, QuietKeep DEF Down, Starting
  <2>5. CASE ExitPosted
    <3>1. /\ starts' = starts /\ serverruning' = serverruning
          /\ gui = "exit" /\ gui' \in {"exit", "wait"}
      BY <2>5 DEF ExitPosted, PostExit
    <3> QED BY <2>1, <3>1, QuietKeep DEF Down, Starting
  <2>6. CASE WorkersJoined
    <3>1. \A t \in Threads : Idle(t)
      <4>1. CASE Down
        BY <4>1 DEF QuietInv
      <4>2. CASE ~Down
        <5>1. gui = "wait"
          BY <2>6 DEF WorkersJoined, WaitForWorkers
        <5>2. \A i \in Slots : threadhandle[i] = <<starts, i>> /\ <<starts, i>> \in openhandles
          BY <4>2, <5>1 DEF CleanInv, LatestTable, Filled
        <5>3. Handles = InTable
          BY <4>2, Tables DEF CleanInv, LatestTable
        <5>4. \A i \in Slots : Idle(<<starts, i>>)
          BY <2>6, <5>2, <5>3 DEF WorkersJoined, InTable
        <5>5. \A t \in Threads : t[1] = starts => \E i \in Slots : t = <<starts, i>>
          BY DEF Threads
        <5> QED BY <5>4, <5>5 DEF QuietInv
      <4> QED BY <4>1, <4>2
    <3> QED BY <2>1, <3>1, QuietKeep
  <2> QED BY <1>7, <2>2, <2>3, <2>4, <2>5, <2>6 DEF InStart
<1>8. CASE StopReturned
  <2>1. gui = "close" /\ NoneAlive
    BY <1>8 DEF StopReturned, CloseHandles, CleanInv, StopOrder
  <2>2. \A t \in Threads : tpc'[t] = tpc[t]
    BY <1>8, <2>1 DEF StopReturned, CloseHandles, NoneAlive, Alive, TypeInv, TypeOK
  <2>3. \A t \in Threads : Idle(t) /\ Idle(t)'
    BY <1>8, <2>1, <2>2 DEF StopReturned, QuietInv, Idle
  <2> QED BY <2>3 DEF QuietInv
<1> QED BY <1>3, <1>4, <1>5, <1>6, <1>7, <1>8 DEF ProcNext, InStop

(* The log and the mutex outlive every thread that uses them, when no      *)
(* Start fails behind its port and Enter does not end the dialog: every    *)
(* thread is then in the table, Stop waits for its very last line, and     *)
(* _tmain deletes the singletons after it.                                 *)
THEOREM SingletonsOutlive == ASSUME Benign PROVE ProcSpec => []SingletonsAlive
<1>1. ProcInit => QuietInv
  BY MainIsNoWorker DEF ProcInit, QuietInv, Idle
<1>2. ProcInv /\ GoodInv /\ QuietInv /\ [ProcNext]_allVars => QuietInv'
  BY QuietNext
<1>3. ProcInv /\ GoodInv /\ QuietInv => SingletonsAlive
  <2> SUFFICES ASSUME ProcInv, GoodInv, QuietInv, NEW t \in Callers
               PROVE  /\ NextCall(t, "log") => logsingleton
                      /\ NextCall(t, "lock") \/ NextCall(t, "unlock") => mutexsingleton
    BY DEF SingletonsAlive
  <2>1. CASE t = Main
    <3>1. todo[Main] # <<>> => Head(todo[Main]) \in {"log", "heap"} /\ logsingleton
      BY DEF ProcInv, ProcTypeOK, MainCalls, SingletonStages
    <3> QED BY <2>1, <3>1 DEF NextCall
  <2>2. CASE t \in Threads /\ todo[t] # <<>>
    <3>1. gui \notin {"login", "gone"}
      BY <2>2 DEF QuietInv, Idle, GoodInv, CleanInv, StopOrder
    <3>2. main = "gui"
      BY <3>1 DEF ProcInv, ProcTypeOK, DialogStages
    <3> QED BY <3>2 DEF ProcInv, SingletonStages
  <2> QED BY <2>1, <2>2 DEF Callers, NextCall
<1> QED BY <1>1, <1>2, <1>3, ProcAlways, ProcRefinesGUI, GoodAlways, PTL DEF ProcSpec
=============================================================================
