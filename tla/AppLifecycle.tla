---------------------------- MODULE AppLifecycle ----------------------------
(***************************************************************************)
(* pkg/app/app.go and closer.go: how an App collects, initialises, runs    *)
(* and stops its drivers, transports and workers.                          *)
(*                                                                         *)
(* One goroutine makes the calls, in the order main chooses, and then is   *)
(* in Run; beside it the components run, fail and finish, signals arrive   *)
(* and time passes.  Init is the calls InitDrivers, InitService,           *)
(* InitTransports and InitWorkers up to the first error.  The service is   *)
(* set and InitGracefulStop is called before all else.                     *)
(*                                                                         *)
(* There is no clock.  The context that gracefulStop makes and the timer   *)
(* that gracefullyShutdown makes for a component both last                 *)
(* gracefulShutdownTimeout; the context is older, so when the timer fires  *)
(* the context has expired.                                                *)
(***************************************************************************)
EXTENDS Integers, Sequences, Functions

CONSTANTS
  Drivers, Transports, Workers   \* the components main may register

ASSUME ComponentsAssumption ==
  /\ Drivers \cap Transports = {}
  /\ Drivers \cap Workers = {}
  /\ Transports \cap Workers = {}

Components == Drivers \cup Transports \cup Workers

VARIABLES
  drivers, transports, workers,            \* App.drivers and so on, sequences
  driverInit, transportInit, workerInit,   \* the flags of the same names
  serviceInit,    \* service.InitService has returned nil; no code reads it
  given,          \* the drivers it was called with
  initialised,    \* components whose Init has returned nil
  initFailed,     \* some Init call returned an error; no code reads it
  pc,             \* where App.Run is, "setup" before it
  at,             \* the component its loop is at
  ready,          \* App.ready
  cancelled,      \* the context of InitGracefulStop is done
  expired,        \* the context of gracefulStop is done
  ran,            \* components on which Run was called
  told,           \* components on which GracefulStop was called
  shutDown,       \* components whose Shutdown returned; no code reads it
  drained,        \* components that closed the channel of GracefulStop
  exited,         \* components whose goroutines in the errgroup returned
  failed          \* components that returned an error to the errgroup

listVars == <<drivers, transports, workers>>
serviceVars == <<serviceInit, given>>
initVars == <<driverInit, transportInit, workerInit, serviceVars, initialised,
              initFailed>>
runVars == <<pc, at>>
stateVars == <<ready, cancelled, expired>>
componentVars == <<ran, told, shutDown, drained, exited, failed>>
vars == <<listVars, initVars, runVars, stateVars, componentVars>>

Services == transports \o workers
StopOrder == Services \o drivers

TypeOK ==
  /\ Range(drivers) \subseteq Drivers
  /\ Range(transports) \subseteq Transports
  /\ Range(workers) \subseteq Workers
  /\ {driverInit, transportInit, workerInit, serviceInit, initFailed} \subseteq BOOLEAN
  /\ {ready, cancelled, expired} \subseteq BOOLEAN
  /\ pc \in {"setup", "drivers", "hook", "services", "ready", "waiting", "stop",
             "await", "shutdown", "wait", "stopped", "hook failed"}
  /\ at \in 1..(Len(StopOrder) + 1)
  /\ initialised \subseteq Range(StopOrder)
  /\ given \subseteq Range(drivers)
  /\ ran \subseteq Range(StopOrder)
  /\ told \subseteq ran /\ drained \subseteq told /\ shutDown \subseteq told
  /\ exited \subseteq ran /\ failed \subseteq exited

Init ==
  /\ drivers = <<>> /\ transports = <<>> /\ workers = <<>>
  /\ driverInit = FALSE /\ transportInit = FALSE /\ workerInit = FALSE
  /\ serviceInit = FALSE /\ given = {}
  /\ initialised = {} /\ initFailed = FALSE
  /\ pc = "setup" /\ at = 1
  /\ ready = FALSE /\ cancelled = FALSE /\ expired = FALSE
  /\ ran = {} /\ told = {} /\ shutDown = {} /\ drained = {} /\ exited = {} /\ failed = {}

------------------------------------------------------------------------------
(* Registration; each is refused once the components of its kind are       *)
(* initialised.                                                            *)

SetTransport(t) ==
  /\ pc = "setup" /\ ~transportInit /\ t \notin Range(transports)
  /\ transports' = Append(transports, t)
  /\ UNCHANGED <<drivers, workers, initVars, runVars, stateVars, componentVars>>

(* Mutant: workers may be added after InitWorkers.                         *)
SetWorkerAnyTime(w) ==
  /\ pc = "setup" /\ w \notin Range(workers)
  /\ workers' = Append(workers, w)
  /\ UNCHANGED <<drivers, transports, initVars, runVars, stateVars, componentVars>>

SetWorker(w) ==
  /\ pc = "setup" /\ ~workerInit /\ w \notin Range(workers)
  /\ workers' = Append(workers, w)
  /\ UNCHANGED <<drivers, transports, initVars, runVars, stateVars, componentVars>>

SetDriver(d) ==
  /\ pc = "setup" /\ ~driverInit /\ d \notin Range(drivers)
  /\ drivers' = Append(drivers, d)
  /\ UNCHANGED <<transports, workers, initVars, runVars, stateVars, componentVars>>

(* The loop of an Init: the first k components succeed; if there are more, *)
(* the next one fails and its error is returned.                           *)
InitialiseFirst(k, list) ==
  /\ initialised' = initialised \cup {list[i] : i \in 1..k}
  /\ initFailed' = (initFailed \/ k < Len(list))

InitDrivers(k) ==
  /\ pc = "setup" /\ ~driverInit
  /\ driverInit' = TRUE
  /\ InitialiseFirst(k, drivers)
  /\ UNCHANGED <<listVars, transportInit, workerInit, serviceVars, runVars, stateVars,
                 componentVars>>

(* Mutant: the service may be initialised before the drivers.              *)
InitServiceAnyTime ==
  /\ pc = "setup"
  /\ given' = Range(drivers)
  /\ \/ serviceInit' = TRUE /\ UNCHANGED initFailed
     \/ initFailed' = TRUE /\ UNCHANGED serviceInit
  /\ UNCHANGED <<listVars, driverInit, transportInit, workerInit, initialised,
                 runVars, stateVars, componentVars>>

(* The service gets the list of the drivers, also after InitDrivers has    *)
(* failed.                                                                 *)
InitService ==
  /\ pc = "setup" /\ driverInit
  /\ given' = Range(drivers)
  /\ \/ serviceInit' = TRUE /\ UNCHANGED initFailed
     \/ initFailed' = TRUE /\ UNCHANGED serviceInit
  /\ UNCHANGED <<listVars, driverInit, transportInit, workerInit, initialised,
                 runVars, stateVars, componentVars>>

InitTransports(k) ==
  /\ pc = "setup" /\ ~transportInit
  /\ transportInit' = TRUE
  /\ InitialiseFirst(k, transports)
  /\ UNCHANGED <<listVars, driverInit, workerInit, serviceVars, runVars, stateVars,
                 componentVars>>

(* Init and Initialization of each worker.                                 *)
InitWorkers(k) ==
  /\ pc = "setup" /\ ~workerInit
  /\ workerInit' = TRUE
  /\ InitialiseFirst(k, workers)
  /\ UNCHANGED <<listVars, driverInit, transportInit, serviceVars, runVars, stateVars,
                 componentVars>>

Setup ==
  \/ \E t \in Transports : SetTransport(t)
  \/ \E w \in Workers : SetWorker(w)
  \/ \E d \in Drivers : SetDriver(d)
  \/ \E k \in 0..Len(drivers) : InitDrivers(k)
  \/ InitService
  \/ \E k \in 0..Len(transports) : InitTransports(k)
  \/ \E k \in 0..Len(workers) : InitWorkers(k)

------------------------------------------------------------------------------
(* Run.  Its refusals, before it has done anything, are not steps.         *)

StartRun ==
  /\ pc = "setup"
  /\ driverInit /\ transportInit /\ workerInit
  /\ Services # <<>>
  /\ pc' = "drivers" /\ at' = 1
  /\ UNCHANGED <<listVars, initVars, stateVars, componentVars>>

(* One turn of a loop that calls Run on the components of list.            *)
RunEach(list, next) ==
  /\ IF at > Len(list)
       THEN pc' = next /\ at' = 1 /\ UNCHANGED ran
       ELSE ran' = ran \cup {list[at]} /\ at' = at + 1 /\ UNCHANGED pc
  /\ UNCHANGED <<listVars, initVars, stateVars, told, shutDown, drained, exited, failed>>

RunDrivers == pc = "drivers" /\ RunEach(drivers, "hook")
RunServices == pc = "services" /\ RunEach(Services, "ready")

(* Mutant: the hook's error leads to gracefulStop.                         *)
BeforeRunHookStops ==
  /\ pc = "hook"
  /\ pc' \in {"services", "stop"}
  /\ UNCHANGED <<listVars, initVars, at, stateVars, componentVars>>

(* Mutant: ready before the transports and the workers run.                *)
BeforeRunHookReady ==
  /\ pc = "hook"
  /\ pc' \in {"services", "hook failed"}
  /\ ready' = TRUE
  /\ UNCHANGED <<listVars, initVars, at, cancelled, expired, componentVars>>

(* service.BeforeRunHook; with its error Run returns.                      *)
BeforeRunHook ==
  /\ pc = "hook"
  /\ pc' \in {"services", "hook failed"}
  /\ UNCHANGED <<listVars, initVars, at, stateVars, componentVars>>

BecomeReady ==
  /\ pc = "ready"
  /\ ready' = TRUE
  /\ pc' = "waiting"
  /\ UNCHANGED <<listVars, initVars, at, cancelled, expired, componentVars>>

(* <-ctx.Done(), and gracefulStop begins.                                  *)
BeginStop ==
  /\ pc = "waiting" /\ cancelled
  /\ ready' = FALSE
  /\ pc' = "stop" /\ at' = 1
  /\ UNCHANGED <<listVars, initVars, cancelled, expired, componentVars>>

(* gracefullyShutdown for the next component: GracefulStop returns its     *)
(* channel or an error.                                                    *)
CallGracefulStop ==
  /\ pc = "stop" /\ at <= Len(StopOrder)
  /\ told' = told \cup {StopOrder[at]}
  /\ pc' \in {"await", "shutdown"}
  /\ UNCHANGED <<listVars, initVars, at, stateVars, ran, shutDown, drained, exited, failed>>

NextComponent == pc' = "stop" /\ at' = at + 1

AwaitDrained ==
  /\ pc = "await" /\ StopOrder[at] \in drained
  /\ NextComponent
  /\ UNCHANGED <<listVars, initVars, stateVars, componentVars>>

(* Mutants: at the hard limit the component is left as it is; there is no  *)
(* hard limit.                                                             *)
HardLimitGivesUp ==
  /\ pc = "await" /\ expired
  /\ NextComponent
  /\ UNCHANGED <<listVars, initVars, stateVars, componentVars>>
HardLimitNever == FALSE

HardLimit ==
  /\ pc = "await" /\ expired
  /\ pc' = "shutdown"
  /\ UNCHANGED <<listVars, initVars, at, stateVars, componentVars>>

ShutdownReturns ==
  /\ pc = "shutdown"
  /\ shutDown' = shutDown \cup {StopOrder[at]}
  /\ NextComponent
  /\ UNCHANGED <<listVars, initVars, stateVars, ran, told, drained, exited, failed>>

(* Mutant: the drivers are forgotten.                                      *)
StopsDoneEarly ==
  /\ pc = "stop" /\ at > Len(Services)
  /\ pc' = "wait"
  /\ UNCHANGED <<listVars, initVars, at, stateVars, componentVars>>

StopsDone ==
  /\ pc = "stop" /\ at > Len(StopOrder)
  /\ pc' = "wait"
  /\ UNCHANGED <<listVars, initVars, at, stateVars, componentVars>>

(* errGr.Wait, and Run returns the first error of the group.               *)
Wait ==
  /\ pc = "wait" /\ ran \subseteq exited
  /\ pc' = "stopped"
  /\ UNCHANGED <<listVars, initVars, at, stateVars, componentVars>>

RunStep ==
  \/ StartRun \/ RunDrivers \/ BeforeRunHook \/ RunServices \/ BecomeReady
  \/ BeginStop \/ CallGracefulStop \/ AwaitDrained \/ HardLimit
  \/ ShutdownReturns \/ StopsDone \/ Wait

------------------------------------------------------------------------------
(* The components, the signals and the clock.                              *)

(* A component's goroutine returns an error: the errgroup cancels.         *)
Fail(c) ==
  /\ c \in ran \ exited
  /\ exited' = exited \cup {c} /\ failed' = failed \cup {c}
  /\ cancelled' = TRUE
  /\ UNCHANGED <<listVars, initVars, runVars, ready, expired, ran, told, shutDown, drained>>

(* Its goroutines return because they are to stop.                         *)
Exit(c) ==
  /\ c \in ran \ exited
  /\ cancelled \/ c \in told
  /\ exited' = exited \cup {c}
  /\ UNCHANGED <<listVars, initVars, runVars, stateVars, ran, told, shutDown, drained, failed>>

(* Its work is done: the channel GracefulStop returned is closed.          *)
Drain(c) ==
  /\ c \in told \ drained
  /\ drained' = drained \cup {c}
  /\ UNCHANGED <<listVars, initVars, runVars, stateVars, ran, told, shutDown, exited, failed>>

Signal ==
  /\ ~cancelled
  /\ cancelled' = TRUE
  /\ UNCHANGED <<listVars, initVars, runVars, ready, expired, componentVars>>

(* The 30 s are up while a component is waited for, or while the Shutdown  *)
(* of one whose GracefulStop failed lasts: in between no time to speak of  *)
(* passes.  The context of gracefulStop expires with them, and the first   *)
(* hard limit strikes; later ones find the flag set, as if no time passed. *)
TimeoutPasses ==
  /\ pc \in {"await", "shutdown"} /\ ~expired
  /\ expired' = TRUE
  /\ UNCHANGED <<listVars, initVars, runVars, ready, cancelled, componentVars>>

Environment ==
  \/ \E c \in Components : Fail(c) \/ Exit(c) \/ Drain(c)
  \/ Signal \/ TimeoutPasses

Next == Setup \/ RunStep \/ Environment

Spec == Init /\ [][Next]_vars

(* Run goes on; time passes; Shutdown of a component returns, and with it  *)
(* its goroutines.  Neither a component's channel nor a signal must come.  *)
FairSpec ==
  /\ Spec
  /\ WF_vars(RunStep) /\ WF_vars(TimeoutPasses)
  /\ \A c \in Components : WF_vars(Exit(c))

------------------------------------------------------------------------------
(* As long as no Init failed, what Run starts has been initialised: no     *)
(* component slips in between the Init of its kind and Run.                *)
RunsOnlyInitialised == ~initFailed => ran \subseteq initialised

(* As long as no Init failed, the service is initialised with all drivers  *)
(* that the App has and will have, and each of them is.                    *)
ServiceGetsAllDrivers ==
  serviceInit /\ ~initFailed => given = Range(drivers) /\ given \subseteq initialised

(* An App that says it is ready (AppReady in the health handler) has every *)
(* component running, and has told none to stop.                           *)
ReadyMeansServing == ready => ran = Range(StopOrder) /\ told = {}

Finished(c) == c \in drained \cup shutDown

(* The drivers serve the transports and the workers to the end: one is     *)
(* told to stop only when each of those has drained or has been shut down. *)
DriversStopLast ==
  told \cap Range(drivers) # {} => \A c \in Range(Services) : Finished(c)

(* When Run returns after gracefulStop nothing of the App is left running: *)
(* every component was told to stop, drained or was shut down, and its     *)
(* goroutines in the errgroup have returned.                               *)
ReturnedMeansStopped ==
  pc = "stopped" => \A c \in Range(StopOrder) : Finished(c) /\ c \in exited

(* A signal or the failure of any one component stops the App, also when   *)
(* it comes before or during Run, and however many components hang.        *)
CancelledAppStops ==
  (cancelled /\ pc # "setup") ~> pc \in {"stopped", "hook failed"}

(* closer_test.go:127: "Components must receive a non-cancelled context."  *)
(* However long the ones before it take, a component is told to stop with  *)
(* a context that has not expired.                                         *)
ComponentsGetLiveContext == [][told' # told => ~expired]_vars
==============================================================================
