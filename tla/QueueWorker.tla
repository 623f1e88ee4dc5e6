----------------------------- MODULE QueueWorker -----------------------------
(***************************************************************************)
(* pkg/queue/worker.go and job_processor.go: the scheduler goroutine of a  *)
(* QueueWorker, its jobProcessor goroutines, and the ways to stop them.    *)
(*                                                                         *)
(* The scheduler offers queue numbers round-robin, one per processor and   *)
(* tick, on channels of capacity one; a processor fetches a batch from the *)
(* queue it was assigned and runs the handler on it.  What GetTask returns *)
(* and how long a handler takes is open here; module QueueSystem puts the  *)
(* storage there.                                                          *)
(*                                                                         *)
(* GracefulStop and Shutdown come after Run, the order in which            *)
(* App.Run calls them.  The counters runningCount and the metrics are left *)
(* out: nothing reads them.                                                *)
(***************************************************************************)
EXTENDS Integers, Sequences, FiniteSets, Functions

CONSTANTS
  MaxProcessors,   \* WithMaxProcessors
  QueueIDs         \* the queueIDs argument of NewQueueWorker, a sequence

ASSUME WorkerAssumption ==
  /\ MaxProcessors \in Nat \ {0}
  /\ QueueIDs \in Seq(Nat)

Processors == 1..MaxProcessors
None == -1         \* an empty assignCh; a processor that has no queue

VARIABLES
  cancelled,       \* the worker's context is cancelled
  sched,           \* where the scheduler goroutine is
  at,              \* the processor its loop is at
  queueIdx,        \* queueIdx, modulo the number of queues
  assignCh,        \* processor -> what its assignCh buffers, or None
  assignClosed,    \* processor -> its assignCh is closed
  proc,            \* processor -> where its goroutine is
  queueNum,        \* processor -> the queue it works on, or None
  stopped,         \* QueueWorker.stopped is closed
  graceful,        \* the call of GracefulStop and its goroutine
  shutdown,        \* the call of Shutdown
  lateBatches      \* processor -> GetTask calls since its assignCh closed;
                   \* no code reads it

stopVars == <<graceful, shutdown>>
schedVars == <<sched, at, queueIdx, assignClosed, stopped>>
procVars == <<proc, queueNum, lateBatches>>
workerVars == <<cancelled, schedVars, assignCh, procVars, stopVars>>

WorkerTypeOK ==
  /\ cancelled \in BOOLEAN
  /\ sched \in {"off", "start", "select", "assign", "close", "join", "exited"}
  /\ at \in 1..(MaxProcessors + 1)
  /\ queueIdx \in Nat /\ (QueueIDs # <<>> => queueIdx < Len(QueueIDs))
  /\ assignCh \in [Processors -> Nat \cup {None}]
  /\ assignClosed \in [Processors -> BOOLEAN]
  /\ proc \in [Processors -> {"off", "select", "get", "handle", "exited"}]
  /\ queueNum \in [Processors -> Nat \cup {None}]
  /\ stopped \in BOOLEAN
  /\ graceful \in {"none", "called", "waiting", "done"}
  /\ shutdown \in {"none", "waiting", "returned"}
  /\ lateBatches \in [Processors -> Nat]

WorkerInit ==
  /\ cancelled = FALSE
  /\ sched = "off" /\ at = 1 /\ queueIdx = 0
  /\ assignCh = [p \in Processors |-> None]
  /\ assignClosed = [p \in Processors |-> FALSE]
  /\ proc = [p \in Processors |-> "off"]
  /\ queueNum = [p \in Processors |-> None]
  /\ stopped = FALSE
  /\ graceful = "none" /\ shutdown = "none"
  /\ lateBatches = [p \in Processors |-> 0]

(* Run: the processors' goroutines, then the scheduler's.                  *)
Run ==
  /\ sched = "off"
  /\ sched' = "start"
  /\ proc' = [p \in Processors |-> "select"]
  /\ UNCHANGED <<cancelled, at, queueIdx, assignCh, assignClosed, queueNum,
                 stopped, stopVars, lateBatches>>

------------------------------------------------------------------------------
(* The scheduler goroutine.                                                *)

(* Without queues it returns at once, which closes stopped.                *)
SchedStart ==
  /\ sched = "start"
  /\ IF QueueIDs = <<>>
       THEN sched' = "exited" /\ stopped' = TRUE
       ELSE sched' = "select" /\ UNCHANGED stopped
  /\ UNCHANGED <<cancelled, at, queueIdx, assignCh, assignClosed, procVars,
                 stopVars>>

(* select chooses at random when the tick and the cancellation are ready.  *)
SchedTick ==
  /\ sched = "select"
  /\ sched' = "assign" /\ at' = 1
  /\ UNCHANGED <<cancelled, queueIdx, assignCh, assignClosed, procVars,
                 stopped, stopVars>>

SchedCancelled ==
  /\ sched = "select" /\ cancelled
  /\ sched' = "close" /\ at' = 1
  /\ UNCHANGED <<cancelled, queueIdx, assignCh, assignClosed, procVars,
                 stopped, stopVars>>

(* After the last processor the loop goes on to the state next.            *)
LoopTo(next) ==
  IF at = MaxProcessors THEN sched' = next /\ at' = 1
                        ELSE UNCHANGED sched /\ at' = at + 1

(* Mutant: queueIdx is not wrapped.                                        *)
SchedAssignUnwrapped ==
  /\ sched = "assign"
  /\ IF assignCh[at] = None
       THEN assignCh' = [assignCh EXCEPT ![at] = QueueIDs[queueIdx + 1]]
       ELSE UNCHANGED assignCh
  /\ queueIdx' = queueIdx + 1
  /\ LoopTo("select")
  /\ UNCHANGED <<cancelled, assignClosed, procVars, stopped, stopVars>>

(* One turn: the queue is offered to the processor at hand, and its turn   *)
(* is over whether or not there was room in the channel.                   *)
SchedAssign ==
  /\ sched = "assign"
  /\ IF assignCh[at] = None
       THEN assignCh' = [assignCh EXCEPT ![at] = QueueIDs[queueIdx + 1]]
       ELSE UNCHANGED assignCh
  /\ queueIdx' = (queueIdx + 1) % Len(QueueIDs)
  /\ LoopTo("select")
  /\ UNCHANGED <<cancelled, assignClosed, procVars, stopped, stopVars>>

(* Mutant: the scheduler goes on after it has closed the channels.         *)
SchedCloseGoesOn ==
  /\ sched = "close"
  /\ assignClosed' = [assignClosed EXCEPT ![at] = TRUE]
  /\ LoopTo("select")
  /\ UNCHANGED <<cancelled, queueIdx, assignCh, procVars, stopped, stopVars>>

SchedClose ==
  /\ sched = "close"
  /\ assignClosed' = [assignClosed EXCEPT ![at] = TRUE]
  /\ LoopTo("join")
  /\ UNCHANGED <<cancelled, queueIdx, assignCh, procVars, stopped, stopVars>>

(* Mutant: the channels are closed, but no processor is waited for.        *)
SchedJoinNot ==
  /\ sched = "join"
  /\ LoopTo("exited")
  /\ stopped' = (at = MaxProcessors)
  /\ UNCHANGED <<cancelled, queueIdx, assignCh, assignClosed, procVars, stopVars>>

(* <-jp.doneCh for each; then the deferred close(w.stopped).               *)
SchedJoin ==
  /\ sched = "join"
  /\ proc[at] = "exited"
  /\ LoopTo("exited")
  /\ stopped' = (at = MaxProcessors)
  /\ UNCHANGED <<cancelled, queueIdx, assignCh, assignClosed, procVars, stopVars>>

Scheduler ==
  SchedStart \/ SchedTick \/ SchedCancelled \/ SchedAssign \/ SchedClose \/ SchedJoin

------------------------------------------------------------------------------
(* The goroutine of processor p.                                           *)

(* An assignment is received, also from a closed channel that holds one.   *)
Receive(p) ==
  /\ proc[p] = "select"
  /\ assignCh[p] # None
  /\ queueNum' = [queueNum EXCEPT ![p] = assignCh[p]]
  /\ assignCh' = [assignCh EXCEPT ![p] = None]
  /\ proc' = [proc EXCEPT ![p] = "get"]
  /\ lateBatches' = [lateBatches EXCEPT ![p] = IF assignClosed[p] THEN @ + 1 ELSE @]
  /\ UNCHANGED <<cancelled, schedVars, stopVars>>

Exit(p) ==
  /\ proc[p] = "select"
  /\ cancelled \/ (assignClosed[p] /\ assignCh[p] = None)
  /\ proc' = [proc EXCEPT ![p] = "exited"]
  /\ UNCHANGED <<cancelled, schedVars, assignCh, queueNum, lateBatches, stopVars>>

(* Mutant: an empty batch ends the loop of the processor.                  *)
NothingToDoExits(p) ==
  /\ proc[p] = "get"
  /\ proc' = [proc EXCEPT ![p] = "exited"]
  /\ queueNum' = [queueNum EXCEPT ![p] = None]
  /\ UNCHANGED <<cancelled, schedVars, assignCh, lateBatches, stopVars>>

(* GetTask returns an error or no tasks.                                   *)
NothingToDo(p) ==
  /\ proc[p] = "get"
  /\ proc' = [proc EXCEPT ![p] = "select"]
  /\ queueNum' = [queueNum EXCEPT ![p] = None]
  /\ UNCHANGED <<cancelled, schedVars, assignCh, lateBatches, stopVars>>

CallHandler(p) ==
  /\ proc[p] = "get"
  /\ proc' = [proc EXCEPT ![p] = "handle"]
  /\ UNCHANGED <<cancelled, schedVars, assignCh, queueNum, lateBatches, stopVars>>

(* The handler returns, with or without an error.                          *)
HandlerReturns(p) ==
  /\ proc[p] = "handle"
  /\ proc' = [proc EXCEPT ![p] = "select"]
  /\ queueNum' = [queueNum EXCEPT ![p] = None]
  /\ UNCHANGED <<cancelled, schedVars, assignCh, lateBatches, stopVars>>

Processor(p) ==
  Receive(p) \/ Exit(p) \/ NothingToDo(p) \/ CallHandler(p) \/ HandlerReturns(p)

------------------------------------------------------------------------------
(* Stopping.                                                               *)

(* The context given to Run is cancelled.                                  *)
ParentCancelled ==
  /\ sched # "off" /\ ~cancelled
  /\ cancelled' = TRUE
  /\ UNCHANGED <<schedVars, assignCh, procVars, stopVars>>

(* Only the first call starts the goroutine that stops the worker; later   *)
(* calls return its channel.                                               *)
GracefulStop ==
  /\ sched # "off" /\ graceful = "none"
  /\ graceful' = "called"
  /\ UNCHANGED <<cancelled, schedVars, assignCh, procVars, shutdown>>

GracefulCancel ==
  /\ graceful = "called"
  /\ cancelled' = TRUE
  /\ graceful' = "waiting"
  /\ UNCHANGED <<schedVars, assignCh, procVars, shutdown>>

GracefulDone ==
  /\ graceful = "waiting" /\ stopped
  /\ graceful' = "done"
  /\ UNCHANGED <<cancelled, schedVars, assignCh, procVars, shutdown>>

Shutdown ==
  /\ sched # "off" /\ shutdown = "none"
  /\ cancelled' = TRUE
  /\ shutdown' = "waiting"
  /\ UNCHANGED <<schedVars, assignCh, procVars, graceful>>

(* Mutant: Shutdown does not wait for the goroutines.                      *)
ShutdownReturnsAtOnce ==
  /\ shutdown = "waiting"
  /\ shutdown' = "returned"
  /\ UNCHANGED <<cancelled, schedVars, assignCh, procVars, graceful>>

ShutdownReturns ==
  /\ shutdown = "waiting" /\ stopped
  /\ shutdown' = "returned"
  /\ UNCHANGED <<cancelled, schedVars, assignCh, procVars, graceful>>

Stopper ==
  \/ GracefulStop \/ GracefulCancel \/ GracefulDone
  \/ Shutdown \/ ShutdownReturns
  \/ ParentCancelled

WorkerNext ==
  \/ Run
  \/ Scheduler
  \/ \E p \in Processors : Processor(p)
  \/ Stopper

WorkerSpec == WorkerInit /\ [][WorkerNext]_workerVars

(* Goroutines keep running and the ticker keeps ticking.  A select with    *)
(* two ready cases takes either at random, so a case that is ready again   *)
(* and again is taken: strong fairness for the cancellation, which in both *)
(* loops competes with a case that takes the goroutine away from select.   *)
SchedulerFairness ==
  /\ WF_workerVars(SchedStart \/ SchedAssign \/ SchedClose \/ SchedJoin)
  /\ WF_workerVars(SchedTick) /\ SF_workerVars(SchedCancelled)

ProcessorFairness ==
  \A p \in Processors :
    /\ WF_workerVars(NothingToDo(p) \/ CallHandler(p))
    /\ WF_workerVars(Receive(p)) /\ SF_workerVars(Exit(p))

StopperFairness ==
  WF_workerVars(GracefulCancel) /\ WF_workerVars(GracefulDone) /\ WF_workerVars(ShutdownReturns)

(* What a worker needs of the code it is given: a handler returns.         *)
HandlersReturn == \A p \in Processors : WF_workerVars(HandlerReturns(p))

FairWorkerSpec ==
  /\ WorkerSpec
  /\ WF_workerVars(Run)
  /\ SchedulerFairness /\ ProcessorFairness /\ StopperFairness
  /\ HandlersReturn

------------------------------------------------------------------------------
AllExited == \A p \in Processors : proc[p] = "exited"

(* When stopped is closed, which ends Shutdown and GracefulStop, every     *)
(* processor has returned: none is in GetTask, in the handler, or about to *)
(* receive what its channel still buffers.  With no queues the scheduler   *)
(* closes stopped at once and the processors are still in their loops.     *)
StoppedMeansDone == (stopped /\ QueueIDs # <<>>) => AllExited

(* A stopping worker starts little new work: once its channel is closed a  *)
(* processor fetches at most the one batch it had buffered.                *)
AtMostOneLateBatch == \A p \in Processors : lateBatches[p] <= 1

(* worker.go:47-48, "distributes queue assignments using round-robin       *)
(* scheduling": a worker that is not stopped comes to each of its queues   *)
(* again and again.                                                        *)
QueuesServed ==
  \A q \in Range(QueueIDs) :
    []<>(cancelled \/ \E p \in Processors : proc[p] = "get" /\ queueNum[p] = q)
==============================================================================
