---------------------------- MODULE EventThread -----------------------------
(***************************************************************************)
(* CThread and CEventThread: StartThread() sets m_bRunning and creates a   *)
(* thread that calls OnThreadTick() while the flag is set; StopThread()    *)
(* clears the flag and does not wait.  The object may be started again.    *)
(***************************************************************************)
EXTENDS Naturals, FiniteSets

CONSTANT Workers  \* the threads that are created over the life of the object

ASSUME WorkerAssumption == IsFiniteSet(Workers)

VARIABLES
  running,  \* m_bRunning
  caller,    \* where the thread that has the object is
  workerAt,       \* where a worker is in OnThreadRun()
  failed,   \* history: the last pthread_create() failed
  stopped   \* history: ticks a worker began since StopThread()

workerVars == <<running, caller, workerAt, failed, stopped>>

\* The constructors.
WorkerInit ==
  /\ running = FALSE
  /\ caller = "idle"
  /\ workerAt = [w \in Workers |-> "none"]
  /\ failed = FALSE
  /\ stopped = [w \in Workers |-> 0]

Alive == {w \in Workers : workerAt[w] \in {"test", "go", "tick"}}

-----------------------------------------------------------------------------
(* The owner.                                                              *)

\* CEventThread::StartThread(), up to CThread::StartThread().
StartFlag ==
  /\ caller = "idle"
  /\ running' = TRUE
  /\ caller' = "starting"
  /\ stopped' = [w \in Workers |-> 0]
  /\ UNCHANGED <<workerAt, failed>>

\* pthread_create(), whose result is not looked at.
StartCreate(w) ==
  /\ caller = "starting" /\ workerAt[w] = "none"
  /\ workerAt' = [workerAt EXCEPT ![w] = "test"]
  /\ failed' = FALSE
  /\ caller' = "idle"
  /\ UNCHANGED <<running, stopped>>

CreateFails ==
  /\ caller = "starting"
  /\ failed' = TRUE
  /\ caller' = "idle"
  /\ UNCHANGED <<running, workerAt, stopped>>

\* Mutant: the flag is set last.
Bug_StartThread_FlagLast ==
  \/ \E w \in Workers :
       /\ caller = "idle" /\ workerAt[w] = "none"
       /\ workerAt' = [workerAt EXCEPT ![w] = "test"]
       /\ failed' = FALSE
       /\ caller' = "starting"
       /\ UNCHANGED <<running, stopped>>
  \/ /\ caller = "starting"
     /\ running' = TRUE
     /\ caller' = "idle"
     /\ stopped' = [w \in Workers |-> 0]
     /\ UNCHANGED <<workerAt, failed>>

StartThread == StartFlag \/ CreateFails \/ \E w \in Workers : StartCreate(w)

\* StopThread().
Stop ==
  /\ caller = "idle"
  /\ running' = FALSE
  /\ stopped' = [w \in Workers |-> 0]
  /\ UNCHANGED <<caller, workerAt, failed>>

-----------------------------------------------------------------------------
(* OnThreadRun().                                                          *)

\* while (m_bRunning): the flag is set.
Test(w) ==
  /\ workerAt[w] = "test" /\ running
  /\ workerAt' = [workerAt EXCEPT ![w] = "go"]
  /\ UNCHANGED <<running, caller, failed, stopped>>

\* OnThreadTick() is called.
TickBegin(w) ==
  /\ workerAt[w] = "go"
  /\ workerAt' = [workerAt EXCEPT ![w] = "tick"]
  /\ stopped' = IF running THEN stopped ELSE [stopped EXCEPT ![w] = @ + 1]
  /\ UNCHANGED <<running, caller, failed>>

TickEnd(w) ==
  /\ workerAt[w] = "tick"
  /\ workerAt' = [workerAt EXCEPT ![w] = "test"]
  /\ UNCHANGED <<running, caller, failed, stopped>>

\* The flag is clear: the thread ends.
TestEnd(w) ==
  /\ workerAt[w] = "test" /\ ~running
  /\ workerAt' = [workerAt EXCEPT ![w] = "done"]
  /\ UNCHANGED <<running, caller, failed, stopped>>

Run(w) == Test(w) \/ TickBegin(w) \/ TickEnd(w) \/ TestEnd(w)

WorkerNext ==
  \/ StartThread \/ Stop
  \/ \E w \in Workers : Run(w)

WorkerSpec == WorkerInit /\ [][WorkerNext]_workerVars

-----------------------------------------------------------------------------

\* util.cpp:50: a thread that was started and not stopped is there, however the
\* workers of earlier starts come to their end in between.
RunningIsServed ==
  running /\ caller = "idle" /\ ~failed => Alive # {}

\* util.cpp:56: StopThread() does not wait, and OnThreadTick() may still be
\* called, once by each worker.
OneLateTick == ~running => \A w \in Workers : stopped[w] <= 1

\* Both, over any starts and stops.
StartStopKept == RunningIsServed /\ OneLateTick
=============================================================================
