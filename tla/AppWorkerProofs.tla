--------------------------- MODULE AppWorkerProofs ---------------------------
(***************************************************************************)
(* Theorems about AppWorker, for any number of processors, queues and      *)
(* transports.                                                             *)
(*                                                                         *)
(* The worker in the App is a QueueWorker and the App around it is that of *)
(* AppLifecycle: every step is one of either, or of both.  So both of      *)
(* their invariants hold, and what is left to prove is how the states of   *)
(* the two belong together.                                                *)
(***************************************************************************)
EXTENDS AppWorker, QueueWorkerProofs, FiniteSetTheorems

(* App, with what is proved about it.                                      *)
AppP == INSTANCE AppLifecycleProofs WITH
  Drivers <- {Driver}, Workers <- {Worker}, at <- appAt, cancelled <- appCancelled

(* How the App sees the worker.                                            *)
OneOfEach == drivers = <<Driver>> /\ workers = <<Worker>>

RunsTogether == sched # "off" <=> Worker \in ran

StopsAfterApp ==
  cancelled \/ graceful # "none" \/ shutdown # "none" => appCancelled

StopIsStopped ==
  /\ graceful = "done" \/ shutdown = "returned" => stopped
  /\ Worker \in drained => graceful = "done"
  /\ Worker \in shutDown => shutdown = "returned"

Together == OneOfEach /\ RunsTogether /\ StopsAfterApp /\ StopIsStopped

AppWorkerInv == WorkerInv /\ AppP!AppInv /\ Together

------------------------------------------------------------------------------
(* The components of this App are as AppLifecycle assumes.                 *)
LEMMA Apart ==
  /\ {Driver} \cap Transports = {} /\ {Driver} \cap {Worker} = {}
  /\ Transports \cap {Worker} = {}
BY AppWorkerAssumption

(* The steps of App are those of which the theorems speak.                 *)
LEMMA RunStepsAreTheSame == App!RunStep => AppP!RunStep
<1>1. App!StartRun => AppP!StartRun
  BY DEF App!StartRun, AppP!StartRun, App!Services, AppP!Services, App!listVars,
         AppP!listVars, App!initVars, AppP!initVars, App!serviceVars,
         AppP!serviceVars, App!stateVars, AppP!stateVars, App!componentVars,
         AppP!componentVars
<1>2. App!RunDrivers => AppP!RunDrivers
  BY DEF App!RunDrivers, AppP!RunDrivers, App!RunEach, AppP!RunEach, App!listVars,
         AppP!listVars, App!initVars, AppP!initVars, App!serviceVars,
         AppP!serviceVars, App!stateVars, AppP!stateVars
<1>3. App!BeforeRunHook => AppP!BeforeRunHook
  BY DEF App!BeforeRunHook, AppP!BeforeRunHook, App!listVars, AppP!listVars,
         App!initVars, AppP!initVars, App!serviceVars, AppP!serviceVars,
         App!stateVars, AppP!stateVars, App!componentVars,
         AppP!componentVars
<1>4. App!RunServices => AppP!RunServices
  BY DEF App!RunServices, AppP!RunServices, App!RunEach, AppP!RunEach, App!Services,
         AppP!Services, App!listVars, AppP!listVars, App!initVars,
         AppP!initVars, App!serviceVars, AppP!serviceVars, App!stateVars,
         AppP!stateVars
<1>5. App!BecomeReady => AppP!BecomeReady
  BY DEF App!BecomeReady, AppP!BecomeReady, App!listVars, AppP!listVars,
         App!initVars, AppP!initVars, App!serviceVars, AppP!serviceVars,
         App!componentVars, AppP!componentVars
<1>6. App!BeginStop => AppP!BeginStop
  BY DEF App!BeginStop, AppP!BeginStop, App!listVars, AppP!listVars, App!initVars,
         AppP!initVars, App!serviceVars, AppP!serviceVars,
         App!componentVars, AppP!componentVars
<1>7. App!CallGracefulStop => AppP!CallGracefulStop
  BY DEF App!CallGracefulStop, AppP!CallGracefulStop, App!StopOrder, AppP!StopOrder,
         App!Services, AppP!Services, App!listVars, AppP!listVars,
         App!initVars, AppP!initVars, App!serviceVars, AppP!serviceVars,
         App!stateVars, AppP!stateVars
<1>8. App!AwaitDrained => AppP!AwaitDrained
  BY DEF App!AwaitDrained, AppP!AwaitDrained, App!StopOrder, AppP!StopOrder,
         App!Services, AppP!Services, App!NextComponent, AppP!NextComponent,
         App!listVars, AppP!listVars, App!initVars, AppP!initVars,
         App!serviceVars, AppP!serviceVars, App!stateVars, AppP!stateVars,
         App!componentVars, AppP!componentVars
<1>9. App!HardLimit => AppP!HardLimit
  BY DEF App!HardLimit, AppP!HardLimit, App!listVars, AppP!listVars, App!initVars,
         AppP!initVars, App!serviceVars, AppP!serviceVars, App!stateVars,
         AppP!stateVars, App!componentVars, AppP!componentVars
<1>10. App!ShutdownReturns => AppP!ShutdownReturns
  BY DEF App!ShutdownReturns, AppP!ShutdownReturns, App!StopOrder, AppP!StopOrder,
         App!Services, AppP!Services, App!NextComponent, AppP!NextComponent,
         App!listVars, AppP!listVars, App!initVars, AppP!initVars,
         App!serviceVars, AppP!serviceVars, App!stateVars, AppP!stateVars
<1>11. App!StopsDone => AppP!StopsDone
  BY DEF App!StopsDone, AppP!StopsDone, App!StopOrder, AppP!StopOrder, App!Services,
         AppP!Services, App!listVars, AppP!listVars, App!initVars,
         AppP!initVars, App!serviceVars, AppP!serviceVars, App!stateVars,
         AppP!stateVars, App!componentVars, AppP!componentVars
<1>12. App!Wait => AppP!Wait
  BY DEF App!Wait, AppP!Wait, App!listVars, AppP!listVars, App!initVars,
         AppP!initVars, App!serviceVars, AppP!serviceVars, App!stateVars,
         AppP!stateVars, App!componentVars, AppP!componentVars
<1> QED  BY <1>1, <1>2, <1>3, <1>4, <1>5, <1>6, <1>7, <1>8, <1>9, <1>10, <1>11, <1>12
         DEF App!RunStep, AppP!RunStep

LEMMA OthersAreTheSame ==
  ASSUME NEW c \in {Driver, Worker} \cup Transports
  PROVE  App!Fail(c) \/ App!Exit(c) \/ App!Drain(c) \/ App!Signal \/ App!TimeoutPasses
           => AppP!Environment
<1>1. App!Fail(c) => AppP!Fail(c)
  BY DEF App!Fail, AppP!Fail, App!listVars, AppP!listVars, App!initVars,
         AppP!initVars, App!serviceVars, AppP!serviceVars, App!runVars,
         AppP!runVars
<1>2. App!Exit(c) => AppP!Exit(c)
  BY DEF App!Exit, AppP!Exit, App!listVars, AppP!listVars, App!initVars,
         AppP!initVars, App!serviceVars, AppP!serviceVars, App!runVars,
         AppP!runVars, App!stateVars, AppP!stateVars
<1>3. App!Drain(c) => AppP!Drain(c)
  BY DEF App!Drain, AppP!Drain, App!listVars, AppP!listVars, App!initVars,
         AppP!initVars, App!serviceVars, AppP!serviceVars, App!runVars,
         AppP!runVars, App!stateVars, AppP!stateVars
<1>4. App!Signal => AppP!Signal
  BY DEF App!Signal, AppP!Signal, App!listVars, AppP!listVars, App!initVars,
         AppP!initVars, App!serviceVars, AppP!serviceVars, App!runVars,
         AppP!runVars, App!componentVars, AppP!componentVars
<1>5. App!TimeoutPasses => AppP!TimeoutPasses
  BY DEF App!TimeoutPasses, AppP!TimeoutPasses, App!listVars, AppP!listVars,
         App!initVars, AppP!initVars, App!serviceVars, AppP!serviceVars,
         App!runVars, AppP!runVars, App!componentVars, AppP!componentVars
<1>6. c \in AppP!Components
  BY DEF AppP!Components
<1> QED  BY <1>1, <1>2, <1>3, <1>4, <1>5, <1>6 DEF AppP!Environment

LEMMA StepsOfTheApp == Next => [AppP!Next]_(AppP!vars)
<1> SUFFICES ASSUME Next PROVE AppP!RunStep \/ AppP!Environment \/ UNCHANGED AppP!vars
  BY DEF AppP!Next
<1>1. CASE AppStep
  <2>1. App!RunStep
    BY <1>1 DEF AppStep, AppAlone, AppRunsWorker, AppStopsWorker, AppShutsWorkerDown,
                WorkerIsShutDown, App!RunStep
  <2> QED  BY <2>1, RunStepsAreTheSame
<1>2. CASE WorkerDrains \/ WorkerExits
  <2>1. App!Drain(Worker) \/ App!Exit(Worker)
    BY <1>2 DEF WorkerDrains, WorkerExits
  <2> QED  BY <2>1, OthersAreTheSame
<1>3. CASE Others
  <2>1. PICK c \in {Driver} \cup Transports :
          App!Fail(c) \/ App!Exit(c) \/ App!Drain(c) \/ App!Signal \/ App!TimeoutPasses
    BY <1>3 DEF Others
  <2> QED  BY <2>1, OthersAreTheSame
<1>4. CASE CancellationReachesWorker \/ WorkerAlone
  BY <1>4 DEF CancellationReachesWorker, WorkerAlone, appVars, AppP!vars, AppP!listVars,
     AppP!initVars, AppP!serviceVars, AppP!runVars, AppP!stateVars, AppP!componentVars
<1> QED  BY <1>1, <1>2, <1>3, <1>4 DEF Next

LEMMA StepsOfTheWorker == Next => [WorkerNext]_workerVars
BY DEF Next, AppStep, AppAlone, AppRunsWorker, AppStopsWorker, AppShutsWorkerDown,
   WorkerIsShutDown, WorkerDrains, WorkerExits, CancellationReachesWorker, WorkerAlone, Others,
   WorkerNext, Stopper

------------------------------------------------------------------------------
(* The lists that the loops of the App go through.                         *)
ListOrders ==
  /\ DOMAIN App!Services = 1..Len(App!Services)
  /\ DOMAIN App!StopOrder = 1..Len(App!StopOrder)
  /\ appAt \in Nat \ {0}
  /\ App!StopOrder = AppP!StopOrder

LEMMA OrdersOfLists == ASSUME AppP!AppInv PROVE ListOrders
<1>1. AppP!Services \in Seq(AppP!Components) /\ AppP!StopOrder \in Seq(AppP!Components)
  BY Apart, AppP!Orders DEF AppP!AppInv, AppP!OrdersOK
<1>2. App!Services = AppP!Services /\ App!StopOrder = AppP!StopOrder
  BY DEF App!Services, AppP!Services, App!StopOrder, AppP!StopOrder
<1>3. appAt \in Nat \ {0}
  BY DEF AppP!AppInv, AppP!TypesOK
<1> QED  BY <1>1, <1>2, <1>3 DEF ListOrders

(* How a step of the App alone leaves what the two share.                  *)
LEMMA AloneLeavesWorker ==
  ASSUME AppWorkerInv, AppAlone
  PROVE  /\ UNCHANGED <<drivers, workers, appCancelled, drained>>
         /\ Worker \in ran' <=> Worker \in ran
         /\ Worker \in shutDown' <=> Worker \in shutDown
<1>0. drivers = <<Driver>> /\ Driver # Worker
  BY AppWorkerAssumption DEF AppWorkerInv, Together, OneOfEach
<1>1. ListOrders
  BY OrdersOfLists DEF AppWorkerInv
<1>2. CASE App!StartRun \/ App!BeforeRunHook \/ App!BecomeReady \/ App!BeginStop
            \/ App!AwaitDrained \/ App!StopsDone \/ App!Wait
  BY <1>2 DEF App!StartRun, App!BeforeRunHook, App!BecomeReady, App!BeginStop,
     App!AwaitDrained, App!StopsDone, App!Wait, App!listVars, App!stateVars, App!componentVars
<1>3. CASE App!RunDrivers
  <2>1. appAt > Len(drivers) \/ drivers[appAt] # Worker
    <3>1. appAt \in Nat \ {0}
      BY DEF AppWorkerInv, AppP!AppInv, AppP!TypesOK
    <3> QED  BY <1>0, <3>1
  <2> QED  BY <1>3, <2>1 DEF App!RunDrivers, App!RunEach, App!listVars, App!stateVars
<1>4. CASE ~IsWorker(App!Services) /\ App!RunServices
  <2>1. appAt > Len(App!Services) \/ App!Services[appAt] # Worker
    BY <1>1, <1>4 DEF IsWorker, ListOrders
  <2> QED  BY <1>4, <2>1 DEF App!RunServices, App!RunEach, App!listVars, App!stateVars
<1>5. CASE App!CallGracefulStop \/ App!HardLimit
  BY <1>5 DEF App!CallGracefulStop, App!HardLimit, App!listVars, App!stateVars, App!componentVars
<1>6. CASE ~IsWorker(App!StopOrder) /\ App!ShutdownReturns
  <2>1. pc = "shutdown" /\ appAt <= Len(App!StopOrder)
    BY <1>6, <1>1 DEF App!ShutdownReturns, AppWorkerInv, AppP!AppInv, AppP!ToldSoFar, ListOrders
  <2>2. App!StopOrder[appAt] # Worker
    BY <1>1, <1>6, <2>1 DEF IsWorker, ListOrders
  <2> QED  BY <1>6, <2>2 DEF App!ShutdownReturns, App!listVars, App!stateVars
<1> QED  BY <1>2, <1>3, <1>4, <1>5, <1>6 DEF AppAlone

LEMMA TogetherStep == AppWorkerInv /\ [Next]_vars => Together'
<1> SUFFICES ASSUME AppWorkerInv, [Next]_vars PROVE Together'
  OBVIOUS
<1>0. Together /\ WorkerInv /\ AppP!AppInv
  BY DEF AppWorkerInv
<1>1. CASE AppAlone
  <2>1. UNCHANGED <<cancelled, sched, graceful, shutdown, stopped>>
    BY <1>1 DEF AppAlone, workerVars, schedVars, stopVars
  <2> QED  BY <1>0, <1>1, <2>1, AloneLeavesWorker
           DEF Together, OneOfEach, RunsTogether, StopsAfterApp, StopIsStopped
<1>2. CASE AppRunsWorker
  <2>1. /\ sched' = "start" /\ UNCHANGED <<cancelled, graceful, shutdown, stopped>>
        /\ UNCHANGED <<drivers, workers, appCancelled, drained, shutDown>>
    BY <1>2 DEF AppRunsWorker, Run, stopVars, App!RunServices, App!RunEach, App!listVars, App!stateVars
  <2>2. appAt \in DOMAIN App!Services /\ App!Services[appAt] = Worker
    BY <1>2 DEF AppRunsWorker, IsWorker
  <2>3. ~(appAt > Len(App!Services))
    <3>1. ListOrders
      BY OrdersOfLists DEF AppWorkerInv
    <3> QED  BY <2>2, <3>1 DEF ListOrders
  <2>4. Worker \in ran'
    BY <1>2, <2>2, <2>3 DEF AppRunsWorker, App!RunServices, App!RunEach
  <2> QED  BY <1>0, <2>1, <2>4
           DEF Together, OneOfEach, RunsTogether, StopsAfterApp, StopIsStopped
<1>3. CASE AppStopsWorker
  <2>1. /\ graceful' = "called" /\ UNCHANGED <<cancelled, sched, shutdown, stopped>>
        /\ UNCHANGED <<drivers, workers, appCancelled, drained, shutDown, ran>>
        /\ pc = "stop" /\ graceful = "none"
    BY <1>3 DEF AppStopsWorker, GracefulStop, schedVars, App!CallGracefulStop, App!listVars, App!stateVars
  <2>2. appCancelled
    BY <1>0, <2>1 DEF AppP!AppInv, AppP!RunInOrder
  <2> QED  BY <1>0, <2>1, <2>2
           DEF Together, OneOfEach, RunsTogether, StopsAfterApp, StopIsStopped
<1>4. CASE AppShutsWorkerDown
  <2>1. /\ shutdown = "none" /\ shutdown' = "waiting" /\ UNCHANGED <<sched, graceful, stopped>>
        /\ UNCHANGED <<drivers, workers, appCancelled, drained, shutDown, ran>>
        /\ pc = "await"
    BY <1>4 DEF AppShutsWorkerDown, Shutdown, schedVars, App!HardLimit, App!listVars,
       App!stateVars, App!componentVars
  <2>2. appCancelled
    BY <1>0, <2>1 DEF AppP!AppInv, AppP!RunInOrder
  <2> QED  BY <1>0, <2>1, <2>2
           DEF Together, OneOfEach, RunsTogether, StopsAfterApp, StopIsStopped
<1>5. CASE WorkerIsShutDown
  <2>1. /\ shutdown = "waiting" /\ stopped /\ shutdown' = "returned"
        /\ UNCHANGED <<cancelled, sched, graceful, stopped>>
        /\ UNCHANGED <<drivers, workers, appCancelled, drained, ran>>
    BY <1>5 DEF WorkerIsShutDown, ShutdownReturns, schedVars, App!ShutdownReturns,
       App!listVars, App!stateVars
  <2> QED  BY <1>0, <2>1
           DEF Together, OneOfEach, RunsTogether, StopsAfterApp, StopIsStopped
<1>6. CASE WorkerDrains
  <2>1. /\ graceful = "waiting" /\ stopped /\ graceful' = "done"
        /\ UNCHANGED <<cancelled, sched, shutdown, stopped>>
        /\ UNCHANGED <<drivers, workers, appCancelled, shutDown, ran>>
    BY <1>6 DEF WorkerDrains, GracefulDone, schedVars, App!Drain, App!listVars, App!stateVars
  <2> QED  BY <1>0, <2>1
           DEF Together, OneOfEach, RunsTogether, StopsAfterApp, StopIsStopped
<1>7. CASE WorkerExits
  <2>1. /\ UNCHANGED <<cancelled, sched, graceful, shutdown, stopped>>
        /\ UNCHANGED <<drivers, workers, appCancelled, drained, shutDown, ran>>
    BY <1>7 DEF WorkerExits, workerVars, schedVars, stopVars, App!Exit, App!listVars, App!stateVars
  <2> QED  BY <1>0, <2>1
           DEF Together, OneOfEach, RunsTogether, StopsAfterApp, StopIsStopped
<1>8. CASE CancellationReachesWorker
  <2>1. /\ appCancelled /\ UNCHANGED <<sched, graceful, shutdown, stopped>>
        /\ UNCHANGED <<drivers, workers, appCancelled, drained, shutDown, ran>>
    BY <1>8 DEF CancellationReachesWorker, ParentCancelled, schedVars, stopVars, appVars
  <2> QED  BY <1>0, <2>1
           DEF Together, OneOfEach, RunsTogether, StopsAfterApp, StopIsStopped
<1>9. CASE WorkerAlone
  <2>1. UNCHANGED <<drivers, workers, appCancelled, drained, shutDown, ran>>
    BY <1>9 DEF WorkerAlone, appVars
  <2>2. /\ UNCHANGED shutdown /\ (sched' = "off" <=> sched = "off") /\ (stopped => stopped')
        /\ \/ graceful = "called" /\ graceful' = "waiting"
           \/ UNCHANGED <<graceful, cancelled>>
    <3>1. CASE Scheduler
      <4>1. sched # "off" /\ UNCHANGED <<graceful, shutdown, cancelled>>
        BY <3>1 DEF Scheduler, SchedStart, SchedTick, SchedCancelled, SchedAssign, SchedClose,
           SchedJoin, stopVars
      <4>2. sched' # "off"
        BY <3>1, <4>1 DEF Scheduler, SchedStart, SchedTick, SchedCancelled, SchedAssign,
           SchedClose, SchedJoin, LoopTo
      <4>3. stopped => sched = "exited"
        BY <1>0 DEF WorkerInv, JoinedHaveExited
      <4>4. sched # "exited"
        BY <3>1 DEF Scheduler, SchedStart, SchedTick, SchedCancelled, SchedAssign, SchedClose,
           SchedJoin
      <4> QED  BY <4>1, <4>2, <4>3, <4>4
    <3>2. CASE \E p \in Processors : Processor(p)
      BY <3>2 DEF Processor, Receive, Exit, NothingToDo, CallHandler, HandlerReturns, schedVars, stopVars
    <3>3. CASE GracefulCancel
      BY <3>3 DEF GracefulCancel, schedVars
    <3> QED  BY <1>9, <3>1, <3>2, <3>3 DEF WorkerAlone
  <2> QED  BY <1>0, <2>1, <2>2
           DEF Together, OneOfEach, RunsTogether, StopsAfterApp, StopIsStopped
<1>10. CASE Others
  <2>1. UNCHANGED <<cancelled, sched, graceful, shutdown, stopped>>
    BY <1>10 DEF Others, workerVars, schedVars, stopVars
  <2>2. UNCHANGED <<drivers, workers, shutDown, ran>> /\ (appCancelled => appCancelled')
    BY <1>10 DEF Others, App!Fail, App!Exit, App!Drain, App!Signal, App!TimeoutPasses,
       App!listVars, App!stateVars, App!componentVars
  <2>3. Worker \in drained' => Worker \in drained
    <3>1. Worker \notin {Driver} \cup Transports
      BY AppWorkerAssumption
    <3> QED  BY <1>10, <3>1 DEF Others, App!Fail, App!Exit, App!Drain, App!Signal,
             App!TimeoutPasses, App!componentVars
  <2> QED  BY <1>0, <2>1, <2>2, <2>3
           DEF Together, OneOfEach, RunsTogether, StopsAfterApp, StopIsStopped
<1>11. CASE UNCHANGED vars
  BY <1>0, <1>11 DEF vars, appVars, workerVars, schedVars, stopVars,
     Together, OneOfEach, RunsTogether, StopsAfterApp, StopIsStopped
<1> QED  BY <1>1, <1>2, <1>3, <1>4, <1>5, <1>6, <1>7, <1>8, <1>9, <1>10, <1>11 DEF Next, AppStep

LEMMA AppWorkerStep == AppWorkerInv /\ [Next]_vars => AppWorkerInv'
<1> SUFFICES ASSUME AppWorkerInv, [Next]_vars PROVE AppWorkerInv'
  OBVIOUS
<1>1. [WorkerNext]_workerVars
  BY StepsOfTheWorker DEF vars
<1>2. [AppP!Next]_(AppP!vars)
  <2>1. UNCHANGED vars => UNCHANGED AppP!vars
    BY DEF vars, appVars, AppP!vars, AppP!listVars, AppP!initVars, AppP!serviceVars,
       AppP!runVars, AppP!stateVars, AppP!componentVars
  <2> QED  BY <2>1, StepsOfTheApp
<1>3. WorkerInv' /\ AppP!AppInv'
  BY <1>1, <1>2, WorkerStep, Apart, AppP!AppStep DEF AppWorkerInv
<1> QED  BY <1>3, TogetherStep DEF AppWorkerInv

------------------------------------------------------------------------------
(* SetToSeq makes a list of the transports, whatever order it chooses.     *)
LEMMA ListOfTransports ==
  /\ SetToSeq(Transports) \in Seq(Transports)
  /\ Range(SetToSeq(Transports)) = Transports
<1> DEFINE n == Cardinality(Transports)
           list == SetToSeq(Transports)
<1>1. IsFiniteSet(Transports)
  BY AppWorkerAssumption
<1>2. n \in Nat /\ ExistsBijection(1..n, Transports)
  BY <1>1, FS_CardinalityType
<1>3. \E f \in [1..n -> Transports] : IsInjective(f)
  BY <1>2 DEF ExistsBijection, Bijection, Injection
<1>4. list \in [1..n -> Transports] /\ IsInjective(list)
  BY <1>3 DEF SetToSeq
<1>5. list \in Injection(1..n, Transports)
  BY <1>4 DEF Injection
<1>6. Cardinality(1..n) = n
  BY <1>2, FS_Interval
<1>7. list \in Surjection(1..n, Transports)
  BY <1>1, <1>5, <1>6, FS_Injection
<1>8. \A t \in Transports : \E i \in 1..n : list[i] = t
  BY <1>7 DEF Surjection
<1>9. list \in Seq(Transports)
  BY <1>2, <1>4
<1> QED  BY <1>4, <1>8, <1>9 DEF Range

LEMMA AppWorkerInitial == Init => AppWorkerInv
<1> SUFFICES ASSUME Init PROVE AppWorkerInv
  OBVIOUS
<1>1. WorkerInv
  BY WorkerInitial DEF Init
<1>2. Together
  BY AppWorkerAssumption
  DEF Init, WorkerInit, Together, OneOfEach, RunsTogether, StopsAfterApp, StopIsStopped
<1>3. /\ drivers = <<Driver>> /\ workers = <<Worker>> /\ transports \in Seq(Transports)
      /\ Range(drivers) = {Driver} /\ Range(workers) = {Worker}
      /\ Range(transports) = Transports
  <2>1. /\ drivers = <<Driver>> /\ workers = <<Worker>>
        /\ transports = SetToSeq(Transports)
    BY DEF Init
  <2>2. \A c : DOMAIN <<c>> = {1} /\ <<c>>[1] = c
    OBVIOUS
  <2>3. Range(<<Driver>>) = {Driver} /\ Range(<<Worker>>) = {Worker}
    BY <2>2 DEF Range
  <2> QED  BY <2>1, <2>3, ListOfTransports
<1>4. /\ AppP!Range(drivers) = {Driver} /\ AppP!Range(workers) = {Worker}
      /\ AppP!Range(transports) = Transports
  BY <1>3 DEF AppP!Range, Range
<1>5. AppP!ListsOK
  <2>1. drivers \in Seq({Driver}) /\ workers \in Seq({Worker})
    BY <1>3
  <2> QED  BY <1>3, <2>1 DEF AppP!ListsOK
<1>6. AppP!FlagsOK
  BY DEF Init, AppP!FlagsOK
<1>7. AppP!TypesOK
  <2>1. {ready, appCancelled, expired} \subseteq BOOLEAN
    BY DEF Init
  <2>2. appAt \in Nat \ {0} /\ pc = "setup"
    BY DEF Init
  <2> QED  BY <2>1, <2>2 DEF AppP!TypesOK
<1>8. AppP!ListsInitialised
  <2>1. initialised = {Driver} \cup Transports \cup {Worker}
    BY DEF Init, App!Components
  <2>2. AppP!Range(AppP!StopOrder)
          = (AppP!Range(transports) \cup AppP!Range(workers)) \cup AppP!Range(drivers)
    BY Apart, <1>5, AppP!Orders DEF AppP!OrdersOK
  <2> QED  BY <1>4, <2>1, <2>2 DEF Init, AppP!ListsInitialised
<1>9. AppP!ServiceKnowsDrivers
  BY <1>4 DEF Init, AppP!ServiceKnowsDrivers
<1>10. AppP!RanSoFar /\ AppP!ToldSoFar /\ AppP!ComponentsFollow /\ AppP!RunInOrder
  BY DEF Init, AppP!RanSoFar, AppP!ToldSoFar, AppP!ComponentsFollow, AppP!RunInOrder
<1>11. AppP!AppInv
  BY <1>5, <1>6, <1>7, <1>8, <1>9, <1>10 DEF AppP!AppInv
<1> QED  BY <1>1, <1>2, <1>11 DEF AppWorkerInv

LEMMA AppWorkerInductive == Spec => []AppWorkerInv
<1>1. QED
  BY AppWorkerInitial, AppWorkerStep, PTL DEF Spec

------------------------------------------------------------------------------
(* What follows from the invariant.                                        *)

LEMMA InvTypes == AppWorkerInv => AppWorkerTypeOK
<1> SUFFICES ASSUME AppWorkerInv PROVE AppWorkerTypeOK
  OBVIOUS
<1>1. AppP!TypeOK
  BY Apart, AppP!AppInvTypes DEF AppWorkerInv
<1>2. App!TypeOK
  BY <1>1 DEF App!TypeOK, AppP!TypeOK, App!StopOrder, AppP!StopOrder, App!Services,
     AppP!Services, App!Range, AppP!Range
<1> QED  BY <1>2 DEF AppWorkerInv, WorkerInv, AppWorkerTypeOK

(* The lists of the App hold its worker, and its driver last.              *)
LEMMA WorkerAndDriver ==
  ASSUME AppWorkerInv
  PROVE  /\ Worker \in AppP!Range(AppP!Services) /\ Worker \in AppP!Range(AppP!StopOrder)
         /\ Driver \in AppP!Range(drivers)
<1>1. drivers = <<Driver>> /\ workers = <<Worker>> /\ AppP!ListsOK
  BY DEF AppWorkerInv, Together, OneOfEach, AppP!AppInv
<1>2. Driver \in AppP!Range(drivers) /\ Worker \in AppP!Range(workers)
  BY <1>1 DEF AppP!Range
<1> QED  BY Apart, <1>1, <1>2, AppP!Orders DEF AppP!OrdersOK

LEMMA ReadyWorks ==
  ASSUME QueueIDs # <<>>, AppWorkerInv
  PROVE  ReadyMeansWorking
<1> SUFFICES ASSUME ready, ~appCancelled
             PROVE  /\ sched \in {"start", "select", "assign"}
                    /\ \A p \in Processors : proc[p] \in {"select", "get", "handle"}
  BY DEF ReadyMeansWorking
<1>1. Worker \in ran
  <2>1. AppP!ReadyMeansServing
    BY Apart, AppP!AppInvOrders DEF AppWorkerInv
  <2> QED  BY <2>1, WorkerAndDriver DEF AppP!ReadyMeansServing
<1>2. sched # "off" /\ ~cancelled
  BY <1>1 DEF AppWorkerInv, Together, RunsTogether, StopsAfterApp
<1>3. /\ sched \notin {"close", "join", "exited"}
      /\ \A p \in Processors : proc[p] # "exited" /\ proc[p] # "off"
  BY <1>2 DEF AppWorkerInv, WorkerInv, StopsOnlyCancelled, StartTogether
<1> QED  BY <1>2, <1>3 DEF AppWorkerInv, WorkerInv, WorkerTypeOK

(* The driver is told after the worker, which is then finished with: it    *)
(* drained or its Shutdown returned, both after stopped was closed.        *)
LEMMA DriverOutlives ==
  ASSUME QueueIDs # <<>>, AppWorkerInv
  PROVE  DriversOutliveHandlers
<1> SUFFICES ASSUME Driver \in told
             PROVE  \A p \in Processors : proc[p] \in {"off", "exited"}
  BY DEF DriversOutliveHandlers
<1>1. AppP!DriversStopLast
  BY Apart, AppP!AppInvDriversLast DEF AppWorkerInv
<1>2. AppP!Finished(Worker)
  BY <1>1, WorkerAndDriver DEF AppP!DriversStopLast
<1>3. stopped
  BY <1>2 DEF AppP!Finished, AppWorkerInv, Together, StopIsStopped
<1> QED  BY <1>3 DEF AppWorkerInv, WorkerInv, JoinedHaveExited, AllExited

(* In an App, a QueueWorker does nothing that it does not do alone.        *)
THEOREM WorkerInAppIsWorker == Spec => WorkerSpec
<1>1. Init => WorkerInit
  BY DEF Init
<1>2. [Next]_vars => [WorkerNext]_workerVars
  BY StepsOfTheWorker DEF vars
<1> QED  BY <1>1, <1>2, PTL DEF Spec, WorkerSpec

(* And the App around it does nothing that an App does not do: what it     *)
(* asks of the worker, and when, is decided by app.go and closer.go alone. *)
THEOREM AppAroundWorkerIsApp == Spec => [][AppP!Next]_(AppP!vars)
<1>1. UNCHANGED vars => UNCHANGED AppP!vars
  BY DEF vars, appVars, AppP!vars, AppP!listVars, AppP!initVars, AppP!serviceVars,
     AppP!runVars, AppP!stateVars, AppP!componentVars
<1>2. [Next]_vars => [AppP!Next]_(AppP!vars)
  BY <1>1, StepsOfTheApp
<1> QED  BY <1>2, PTL DEF Spec

(* The variables of the App and of its worker keep their types.            *)
THEOREM AppWorkerTypeCorrect == Spec => []AppWorkerTypeOK
<1> QED  BY AppWorkerInductive, InvTypes, PTL

(* Also in an App a worker's stopped is closed after its processors have   *)
(* returned.                                                               *)
THEOREM StopInAppWaits == Spec => []StoppedMeansDone
<1> QED  BY WorkerInAppIsWorker, StopWaitsForProcessors, PTL

(* Also in an App a processor fetches at most one batch after its channel  *)
(* was closed.                                                             *)
THEOREM LateBatchesInAppBounded == Spec => []AtMostOneLateBatch
<1> QED  BY WorkerInAppIsWorker, LateBatchesBounded, PTL

(* A worker that has queues works as long as the App is ready and nothing  *)
(* cancelled it.  One without queues returns at once, unnoticed.           *)
THEOREM ReadyAppsWorkerWorks ==
  ASSUME QueueIDs # <<>>
  PROVE  Spec => []ReadyMeansWorking
<1> QED  BY AppWorkerInductive, ReadyWorks, PTL

(* When a driver is told to stop, no goroutine of a worker that has queues *)
(* is left to use it.                                                      *)
THEOREM DriversOutliveWorkers ==
  ASSUME QueueIDs # <<>>
  PROVE  Spec => []DriversOutliveHandlers
<1> QED  BY AppWorkerInductive, DriverOutlives, PTL
==============================================================================
