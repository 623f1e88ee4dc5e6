----------------------------- MODULE QueueSystem -----------------------------
(***************************************************************************)
(* A QueueWorker at work on a storage: QueueWorker for the goroutines, the *)
(* abstract TaskQueue for the storage, and between them the handlers, each *)
(* with the batch its processor fetched.  Producers put tasks at any time, *)
(* before, during and after the life of the worker.                        *)
(*                                                                         *)
(* Handlers here keep their part of the contract of HandlerFunc: they      *)
(* settle every task of the batch with DoneTask or RetryTask before they   *)
(* return.  Nothing keeps a handler within the visibility timeout.         *)
(***************************************************************************)
EXTENDS QueueWorker

CONSTANTS
  MaxTasks,      \* bound: tasks put into storage
  MaxAttempts,   \* bound: attempts up to which tasks return to the queue
  BatchSize      \* WithBatchSize

ASSUME SystemAssumption ==
  MaxTasks \in Nat /\ MaxAttempts \in Nat /\ BatchSize \in Nat \ {0}

VARIABLES
  accepted, live,   \* the storage, see TaskQueue
  batch             \* processor -> the tasks its handler has yet to settle

storageVars == <<accepted, live>>
vars == <<workerVars, storageVars, batch>>

Ids == 1..MaxTasks
Store == INSTANCE TaskQueue WITH Queues <- Range(QueueIDs)

(* GetTask of the in-memory storage takes as many tasks as it may.         *)
ReadyIn(q) == {id \in Store!Having("ready") : live[id].queueNum = q}

Batches(q) ==
  {S \in SUBSET ReadyIn(q) :
     /\ Cardinality(S) <= BatchSize
     /\ Cardinality(S) = BatchSize \/ S = ReadyIn(q)}

Init == WorkerInit /\ Store!Init /\ batch = [p \in Processors |-> {}]

(* The steps of the worker that touch neither storage nor batches.  It is  *)
(* stopped through its context; who called GracefulStop or Shutdown and    *)
(* waits makes no difference to its goroutines, see AppWorker.             *)
WorkerAlone ==
  /\ \/ Run \/ Scheduler \/ ParentCancelled
     \/ \E p \in Processors : Receive(p) \/ Exit(p)
  /\ UNCHANGED <<storageVars, batch>>

FetchNothing(p) ==
  /\ NothingToDo(p)
  /\ ReadyIn(queueNum[p]) = {}
  /\ UNCHANGED <<storageVars, batch>>

Fetch(p, S) ==
  /\ S # {}
  /\ CallHandler(p)
  /\ Store!GetTask(queueNum[p], S)
  /\ batch' = [batch EXCEPT ![p] = S]

(* The handler of p settles S, the rest of its batch or a part of it.      *)
Settle(p, S) ==
  /\ proc[p] = "handle"
  /\ batch' = [batch EXCEPT ![p] = @ \ S]
  /\ UNCHANGED workerVars

HandlerDone(p, S) ==
  /\ Settle(p, S)
  /\ Store!DoneTask(S \cap DOMAIN live)

HandlerRetries(p, S, status) ==
  /\ Settle(p, S)
  /\ \A id \in S \cap DOMAIN live : live[id].attempts < MaxAttempts
  /\ Store!RetryTask(S \cap DOMAIN live, [id \in S \cap DOMAIN live |-> status])

HandlerSettles(p) ==
  \E S \in SUBSET batch[p] \ {{}} :
    \/ HandlerDone(p, S)
    \/ \E status \in {"ready", "delayed"} : HandlerRetries(p, S, status)

(* Mutant: the processor does not wait for its handler.                    *)
HandlerFinishesEarly(p) ==
  /\ HandlerReturns(p)
  /\ UNCHANGED <<storageVars, batch>>

HandlerFinishes(p) ==
  /\ batch[p] = {}
  /\ HandlerReturns(p)
  /\ UNCHANGED <<storageVars, batch>>

(* What the storage and its producers do.                                  *)
Put ==
  /\ \E q \in Range(QueueIDs), status \in {"ready", "delayed"} :
       Store!PutTask(Cardinality(accepted) + 1, q, status)
  /\ Cardinality(accepted) < MaxTasks
  /\ UNCHANGED <<workerVars, batch>>

TimeoutExpires ==
  /\ \E id \in Store!Having("taken") :
       live[id].attempts < MaxAttempts /\ Store!VisibilityExpires({id})
  /\ UNCHANGED <<workerVars, batch>>

DelayPasses ==
  /\ \E id \in Store!Having("delayed") : Store!BecomeDue({id})
  /\ UNCHANGED <<workerVars, batch>>

SystemProcessor(p) ==
  \/ FetchNothing(p)
  \/ \E S \in Batches(queueNum[p]) : Fetch(p, S)
  \/ HandlerSettles(p)
  \/ HandlerFinishes(p)

Next ==
  \/ WorkerAlone
  \/ \E p \in Processors : SystemProcessor(p)
  \/ Put \/ TimeoutExpires \/ DelayPasses

Spec == Init /\ [][Next]_vars

(* As FairWorkerSpec; besides, handlers go on to settle their tasks, time  *)
(* passes, and the map iteration of GetTask, whose order is random, leaves *)
(* no ready task out for ever.                                             *)
Alone(A) == A /\ UNCHANGED <<storageVars, batch>>

FairSpec ==
  /\ Spec
  /\ WF_vars(Alone(Run))
  /\ WF_vars(Alone(SchedStart \/ SchedAssign \/ SchedClose \/ SchedJoin))
  /\ WF_vars(Alone(SchedTick)) /\ SF_vars(Alone(SchedCancelled))
  /\ \A p \in Processors :
       /\ WF_vars(Alone(Receive(p))) /\ SF_vars(Alone(Exit(p)))
       /\ WF_vars(FetchNothing(p) \/ \E S \in Batches(queueNum[p]) : Fetch(p, S))
       /\ WF_vars(HandlerSettles(p)) /\ WF_vars(HandlerFinishes(p))
  /\ \A id \in Ids :
       SF_vars(\E p \in Processors : \E S \in Batches(queueNum[p]) : id \in S /\ Fetch(p, S))
  /\ WF_vars(DelayPasses)

------------------------------------------------------------------------------
SystemTypeOK ==
  /\ WorkerTypeOK
  /\ accepted \subseteq Ids
  /\ DOMAIN live \subseteq accepted
  /\ live \in [DOMAIN live -> Store!LiveTask]
  /\ batch \in [Processors -> SUBSET accepted]

(* A task counts as taken only while some handler is still working on it,  *)
(* whatever timeouts and late retries did to it: handlers that settle all  *)
(* they get need no visibility timeout.                                    *)
TakenIsInHand ==
  \A id \in Store!Having("taken") :
    \E p \in Processors : proc[p] = "handle" /\ id \in batch[p]

(* Stopping a worker interrupts no task: when stopped is closed, no task   *)
(* is left half done, each is settled or waits in the queue.               *)
NothingInFlightWhenStopped ==
  stopped => Store!Having("taken") = {} /\ \A p \in Processors : batch[p] = {}

(* A task that is put or comes back is fetched in the end, unless the      *)
(* worker stops: no assignment, batch or delayed start loses it.  Of       *)
(* interest for one queue: the turns of one of several can all fall on a   *)
(* processor whose channel is full, and are lost.                          *)
TasksServed ==
  \A id \in Ids :
    (id \in DOMAIN live /\ live[id].status # "taken")
      ~> (cancelled \/ id \notin DOMAIN live \/ live[id].status = "taken")
==============================================================================
