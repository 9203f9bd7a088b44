--------------------------- MODULE ServerLifecycle ---------------------------
(***************************************************************************)
(* What starting and stopping the server promises: it runs only with every *)
(* worker thread, no new generation of workers is started before the last  *)
(* one has ended, workers end only when the server is stopped, and a stop  *)
(* completes when all of them have ended.                                  *)
(***************************************************************************)
EXTENDS Naturals

CONSTANT NumThreads   \* worker threads of one start

VARIABLES phase,      \* stopped, starting, running or stopping
          workers     \* slots of threadhandle whose thread is alive

lifeVars == <<phase, workers>>

Slots == 1..NumThreads

LifeInit == phase = "stopped" /\ workers = {}

Begin ==
    /\ phase = "stopped" /\ workers = {}
    /\ phase' = "starting"
    /\ UNCHANGED workers

Spawn ==
    /\ phase = "starting"
    /\ \E i \in Slots \ workers : workers' = workers \cup {i}
    /\ UNCHANGED phase

Run ==
    /\ phase = "starting" /\ workers = Slots
    /\ phase' = "running"
    /\ UNCHANGED workers

(* Closing the dialog stops the server even when it is stopped already.    *)
Halt ==
    /\ phase \in {"running", "stopped"}
    /\ phase' = "stopping"
    /\ UNCHANGED workers

Exit ==
    /\ phase = "stopping"
    /\ \E i \in workers : workers' = workers \ {i}
    /\ UNCHANGED phase

Halted ==
    /\ phase = "stopping" /\ workers = {}
    /\ phase' = "stopped"
    /\ UNCHANGED workers

LifeNext == Begin \/ Spawn \/ Run \/ Halt \/ Exit \/ Halted

(* What was begun is finished, a start as well as a stop.                  *)
Lifecycle ==
    /\ LifeInit /\ [][LifeNext]_lifeVars
    /\ WF_lifeVars(Spawn) /\ WF_lifeVars(Run)
    /\ WF_lifeVars(Exit) /\ WF_lifeVars(Halted)
=============================================================================
