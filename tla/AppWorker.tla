------------------------------ MODULE AppWorker ------------------------------
(***************************************************************************)
(* A QueueWorker as the worker of an App: closer.go and worker.go          *)
(* together.  AppLifecycle leaves open how a component drains, is shut     *)
(* down and exits; here one of the components, Worker, is the QueueWorker, *)
(* and does what its goroutines do.  The drivers and transports are as     *)
(* open as before: what matters of a driver is that the queue handlers     *)
(* work with it.                                                           *)
(*                                                                         *)
(* The components are registered and initialised, and Run is next.         *)
(***************************************************************************)
EXTENDS QueueWorker, SequencesExt

CONSTANTS
  Driver, Worker,   \* the component names
  Transports        \* the other components of the App

VARIABLES
  drivers, transports, workers,                  \* as in AppLifecycle, where
  driverInit, transportInit, workerInit,         \* the names are without app
  serviceInit, given, initialised, initFailed,
  pc, appAt, ready, appCancelled, expired,
  ran, told, shutDown, drained, exited, failed

App == INSTANCE AppLifecycle WITH
  Drivers <- {Driver}, Workers <- {Worker}, at <- appAt, cancelled <- appCancelled

appVars == <<drivers, transports, workers, driverInit, transportInit, workerInit,
             serviceInit, given, initialised, initFailed, pc, appAt, ready, appCancelled, expired,
             ran, told, shutDown, drained, exited, failed>>
vars == <<appVars, workerVars>>

ASSUME AppWorkerAssumption ==
  Driver # Worker /\ {Driver, Worker} \cap Transports = {} /\ IsFiniteSet(Transports)

AppWorkerTypeOK == WorkerTypeOK /\ App!TypeOK

Init ==
  /\ drivers = <<Driver>> /\ transports = SetToSeq(Transports) /\ workers = <<Worker>>
  /\ driverInit = TRUE /\ transportInit = TRUE /\ workerInit = TRUE
  /\ serviceInit = TRUE /\ given = {Driver}
  /\ initialised = App!Components /\ initFailed = FALSE
  /\ pc = "setup" /\ appAt = 1
  /\ ready = FALSE /\ appCancelled = FALSE /\ expired = FALSE
  /\ ran = {} /\ told = {} /\ shutDown = {} /\ drained = {} /\ exited = {} /\ failed = {}
  /\ WorkerInit

------------------------------------------------------------------------------
(* The component that the loop of Run, or that of gracefulStop, is at.     *)
IsWorker(list) == appAt \in DOMAIN list /\ list[appAt] = Worker

(* What the App does that is not a call of the worker's.                   *)
AppAlone ==
  /\ \/ App!StartRun \/ App!RunDrivers \/ App!BeforeRunHook
     \/ ~IsWorker(App!Services) /\ App!RunServices
     \/ App!BecomeReady \/ App!BeginStop
     \/ ~IsWorker(App!StopOrder) /\
          (App!CallGracefulStop \/ App!HardLimit \/ App!ShutdownReturns)
     \/ App!AwaitDrained \/ App!StopsDone \/ App!Wait
  /\ UNCHANGED workerVars

(* Its calls: Run, GracefulStop, and at the hard limit Shutdown, for which *)
(* it waits.                                                               *)
AppRunsWorker == IsWorker(App!Services) /\ App!RunServices /\ Run

AppStopsWorker ==
  /\ IsWorker(App!StopOrder) /\ App!CallGracefulStop /\ pc' = "await"
  /\ GracefulStop

AppShutsWorkerDown ==
  /\ IsWorker(App!StopOrder) /\ App!HardLimit
  /\ Shutdown

WorkerIsShutDown ==
  /\ IsWorker(App!StopOrder) /\ App!ShutdownReturns
  /\ ShutdownReturns

AppStep ==
  \/ AppAlone \/ AppRunsWorker \/ AppStopsWorker
  \/ AppShutsWorkerDown \/ WorkerIsShutDown

(* The channel of its GracefulStop closes.                                 *)
WorkerDrains == GracefulDone /\ App!Drain(Worker)

(* errGr.Wait counts the worker out when all goroutines of its Run have    *)
(* returned.                                                               *)
WorkerExits ==
  /\ sched = "exited" /\ AllExited
  /\ App!Exit(Worker)
  /\ UNCHANGED workerVars

(* The context that Run of the worker derives is cancelled after its       *)
(* parent, or at once when that is cancelled already.                      *)
CancellationReachesWorker ==
  /\ appCancelled /\ ParentCancelled
  /\ UNCHANGED appVars

WorkerAlone ==
  /\ Scheduler \/ (\E p \in Processors : Processor(p)) \/ GracefulCancel
  /\ UNCHANGED appVars

(* The other components, the signals and the clock.                        *)
Others ==
  /\ \/ \E c \in {Driver} \cup Transports : App!Fail(c) \/ App!Exit(c) \/ App!Drain(c)
     \/ App!Signal \/ App!TimeoutPasses
  /\ UNCHANGED workerVars

Next ==
  \/ AppStep \/ WorkerDrains \/ WorkerExits
  \/ CancellationReachesWorker \/ WorkerAlone
  \/ Others

Spec == Init /\ [][Next]_vars

(* Everything goes on as in AppLifecycle and QueueWorker but the handlers: *)
(* no handler has to return.                                               *)
FairSpec ==
  /\ Spec
  /\ SchedulerFairness /\ ProcessorFairness
  /\ WF_workerVars(GracefulCancel)
  /\ WF_vars(AppStep) /\ WF_vars(WorkerDrains) /\ WF_vars(WorkerExits)
  /\ WF_vars(CancellationReachesWorker)
  /\ WF_vars(App!TimeoutPasses /\ UNCHANGED workerVars)
  /\ \A c \in {Driver} \cup Transports : WF_vars(App!Exit(c) /\ UNCHANGED workerVars)

------------------------------------------------------------------------------
(* A driver is told to stop only when no goroutine of the worker is left   *)
(* to use it: none is in a handler or in GetTask, or will be, also when    *)
(* the worker was shut down at the hard limit.                             *)
DriversOutliveHandlers ==
  Driver \in told => \A p \in Processors : proc[p] \in {"off", "exited"}

(* The goroutines of a worker return nil, whatever ended them, and the     *)
(* errgroup would not notice: while an App that says it is ready has not   *)
(* been cancelled, its worker has its scheduler and all its processors.    *)
ReadyMeansWorking ==
  ready /\ ~appCancelled =>
    /\ sched \in {"start", "select", "assign"}
    /\ \A p \in Processors : proc[p] \in {"select", "get", "handle"}

HandlerHangs == \E p \in Processors : proc[p] = "handle"

(* Nothing but a handler that never returns holds anybody up.  A worker    *)
(* that is stopped in any way comes to its end, and with it the channel of *)
(* GracefulStop and the call of Shutdown; and a cancelled App stops, in    *)
(* the worst case by the hard limits.  It is worker.go:164 that gives a    *)
(* handler this power over the App: Shutdown waits for it without regard   *)
(* to its context.                                                         *)
OnlyHandlersHoldUp ==
  /\ cancelled ~> ((sched = "exited" /\ AllExited) \/ []HandlerHangs)
  /\ graceful = "called" ~> (graceful = "done" \/ []HandlerHangs)
  /\ shutdown = "waiting" ~> (shutdown = "returned" \/ []HandlerHangs)
  /\ (appCancelled /\ pc # "setup")
       ~> (pc \in {"stopped", "hook failed"} \/ []HandlerHangs)
==============================================================================
