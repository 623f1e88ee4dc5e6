-------------------------- MODULE QueueSystemProofs --------------------------
(***************************************************************************)
(* Theorems about QueueSystem, for any number of processors, queues and    *)
(* tasks and any batch size.  The worker's part is QueueWorkerProofs.      *)
(***************************************************************************)
EXTENDS QueueSystem, QueueWorkerProofs, FiniteSetTheorems

StorageTypeOK ==
  /\ accepted \subseteq Ids
  /\ DOMAIN live \subseteq accepted
  /\ live \in [DOMAIN live -> Store!LiveTask]
  /\ batch \in [Processors -> SUBSET accepted]

(* Only a handler has a batch, so the next one is not written over it.     *)
BatchesInHandlers == \A p \in Processors : batch[p] # {} => proc[p] = "handle"

(* Tasks are put into the queues of the worker.                            *)
NoQueuesNoTasks == QueueIDs = <<>> => accepted = {}

SystemInv ==
  /\ WorkerInv /\ StorageTypeOK
  /\ BatchesInHandlers /\ NoQueuesNoTasks /\ TakenIsInHand

------------------------------------------------------------------------------
(* What the storage does to its tasks, for the invariant above.            *)

LEMMA TasksReturn ==
  ASSUME StorageTypeOK, NEW S, S \subseteq DOMAIN live, NEW status,
         \A id \in S : status[id] \in {"ready", "delayed"},
         Store!ReturnTasks(S, status)
  PROVE  /\ live' \in [DOMAIN live -> Store!LiveTask]
         /\ \A id \in DOMAIN live : live'[id].status = "taken" =>
              id \notin S /\ live[id].status = "taken"
<1>1. \A id \in DOMAIN live : live[id] \in Store!LiveTask
  BY DEF StorageTypeOK
<1>2. ASSUME NEW id \in S
      PROVE  /\ live'[id] \in Store!LiveTask
             /\ live'[id].status # "taken"
  <2>1. live'[id] = [queueNum |-> live[id].queueNum, status |-> status[id],
                     attempts |-> live[id].attempts + 1]
    BY <1>2 DEF Store!ReturnTasks
  <2>2. status[id] \in {"ready", "delayed"} /\ live[id] \in Store!LiveTask
    BY <1>1, <1>2
  <2>3. QED
    BY <2>1, <2>2 DEF Store!LiveTask, Store!Status
<1>3. \A id \in DOMAIN live \ S : live'[id] = live[id]
  BY DEF Store!ReturnTasks
<1>4. live' = [id \in DOMAIN live |-> live'[id]]
  BY DEF Store!ReturnTasks
<1>5. QED
  BY <1>1, <1>2, <1>3, <1>4

LEMMA TasksGoOut ==
  ASSUME StorageTypeOK, NEW q, NEW S, Store!GetTask(q, S)
  PROVE  /\ live' \in [DOMAIN live -> Store!LiveTask]
         /\ \A id \in DOMAIN live : live'[id].status = "taken" =>
              id \in S \/ live[id].status = "taken"
         /\ S \subseteq DOMAIN live /\ accepted' = accepted
<1>1. \A id \in DOMAIN live : live[id] \in Store!LiveTask
  BY DEF StorageTypeOK
<1>2. \A id \in DOMAIN live :
        live'[id] = IF id \in S THEN [live[id] EXCEPT !.status = "taken"] ELSE live[id]
  BY DEF Store!GetTask
<1>3. \A id \in DOMAIN live : live'[id] \in Store!LiveTask
  BY <1>1, <1>2 DEF Store!LiveTask, Store!Status
<1>4. live' = [id \in DOMAIN live |-> live'[id]]
  BY DEF Store!GetTask
<1>5. S \subseteq DOMAIN live /\ accepted' = accepted
  BY DEF Store!GetTask, Store!Having
<1>6. QED
  BY <1>1, <1>2, <1>3, <1>4, <1>5

LEMMA TasksBecomeDue ==
  ASSUME StorageTypeOK, NEW S, Store!BecomeDue(S)
  PROVE  /\ live' \in [DOMAIN live -> Store!LiveTask]
         /\ \A id \in DOMAIN live : live'[id].status = "taken" => live[id].status = "taken"
         /\ accepted' = accepted
<1>1. \A id \in DOMAIN live : live[id] \in Store!LiveTask
  BY DEF StorageTypeOK
<1>2. \A id \in DOMAIN live :
        live'[id] = IF id \in S THEN [live[id] EXCEPT !.status = "ready"] ELSE live[id]
  BY DEF Store!BecomeDue
<1>3. \A id \in DOMAIN live :
        /\ live'[id] \in Store!LiveTask
        /\ live'[id].status = "taken" => live[id].status = "taken"
  BY <1>1, <1>2 DEF Store!LiveTask, Store!Status
<1>4. live' = [id \in DOMAIN live |-> live'[id]]
  BY DEF Store!BecomeDue
<1>5. QED
  BY <1>3, <1>4 DEF Store!BecomeDue

LEMMA TaskIsPut ==
  ASSUME StorageTypeOK, NEW id, NEW q \in Range(QueueIDs), NEW status \in {"ready", "delayed"},
         Store!PutTask(id, q, status)
  PROVE  /\ live' \in [DOMAIN live \cup {id} -> Store!LiveTask]
         /\ \A i \in DOMAIN live' : live'[i].status = "taken" =>
              i \in DOMAIN live /\ live[i].status = "taken"
<1>1. \A i \in DOMAIN live : live[i] \in Store!LiveTask
  BY DEF StorageTypeOK
<1>2. /\ DOMAIN live' = DOMAIN live \cup {id}
      /\ id \notin DOMAIN live
      /\ live'[id] = [queueNum |-> q, status |-> status, attempts |-> 0]
      /\ \A i \in DOMAIN live : live'[i] = live[i]
  BY DEF Store!PutTask, StorageTypeOK
<1>3. live'[id] \in Store!LiveTask /\ live'[id].status # "taken"
  BY <1>2 DEF Store!LiveTask, Store!Status
<1>4. live' = [i \in DOMAIN live \cup {id} |-> live'[i]]
  BY DEF Store!PutTask
<1>5. QED
  BY <1>1, <1>2, <1>3, <1>4

(* The number of tasks put so far is a number below the bound.             *)
LEMMA NextId ==
  ASSUME StorageTypeOK, Cardinality(accepted) < MaxTasks
  PROVE  Cardinality(accepted) + 1 \in Ids
<1>1. IsFiniteSet(1..MaxTasks)
  BY SystemAssumption, FS_Interval
<1>2. Cardinality(accepted) \in Nat
  BY <1>1, FS_Subset, FS_CardinalityType DEF StorageTypeOK, Ids
<1>3. QED
  BY <1>2, SystemAssumption DEF Ids

------------------------------------------------------------------------------
(* Every step of the system is one of its worker, or leaves that alone.    *)
LEMMA WorkerMoves == [Next]_vars => [WorkerNext]_workerVars
<1> SUFFICES ASSUME [Next]_vars
             PROVE  [WorkerNext]_workerVars
  OBVIOUS
<1>1. CASE WorkerAlone
  BY <1>1 DEF WorkerAlone, WorkerNext, Processor, Stopper
<1>2. ASSUME NEW p \in Processors, SystemProcessor(p)
      PROVE  [WorkerNext]_workerVars
  <2>1. NothingToDo(p) \/ CallHandler(p) \/ HandlerReturns(p) \/ UNCHANGED workerVars
    BY <1>2
    DEF SystemProcessor, FetchNothing, Fetch, HandlerSettles, HandlerDone, HandlerRetries,
        Settle, HandlerFinishes
  <2>2. QED
    BY <2>1 DEF WorkerNext, Processor
<1>3. CASE Put \/ TimeoutExpires \/ DelayPasses
  BY <1>3 DEF Put, TimeoutExpires, DelayPasses
<1>4. CASE UNCHANGED vars
  BY <1>4 DEF vars
<1>5. QED
  BY <1>1, <1>2, <1>3, <1>4 DEF Next

LEMMA SystemInitial == Init => SystemInv
<1> SUFFICES ASSUME Init
             PROVE  SystemInv
  OBVIOUS
<1>1. WorkerInv
  BY WorkerInitial DEF Init
<1>2. accepted = {} /\ DOMAIN live = {} /\ \A p \in Processors : batch[p] = {}
  BY DEF Init, Store!Init
<1>3. live \in [DOMAIN live -> Store!LiveTask] /\ batch \in [Processors -> SUBSET accepted]
  BY DEF Init, Store!Init
<1>4. StorageTypeOK
  BY <1>2, <1>3 DEF StorageTypeOK
<1>5. BatchesInHandlers /\ NoQueuesNoTasks /\ TakenIsInHand
  BY <1>2 DEF BatchesInHandlers, NoQueuesNoTasks, TakenIsInHand, Store!Having
<1>6. QED
  BY <1>1, <1>4, <1>5 DEF SystemInv

(* What the goroutines do between two calls of the storage.                *)
LEMMA WorkerAloneKeeps ==
  ASSUME SystemInv, WorkerAlone
  PROVE  StorageTypeOK' /\ BatchesInHandlers' /\ NoQueuesNoTasks' /\ TakenIsInHand'
<1>1. UNCHANGED <<accepted, live, batch>>
  BY DEF WorkerAlone, storageVars
<1>2. ASSUME NEW p \in Processors, proc[p] = "handle"
      PROVE  proc'[p] = "handle"
  <2>1. proc \in [Processors -> {"off", "select", "get", "handle", "exited"}]
    BY DEF SystemInv, WorkerInv, WorkerTypeOK
  <2>2. CASE Run
    BY <1>2, <2>2 DEF Run, SystemInv, WorkerInv, StartTogether
  <2>3. CASE Scheduler \/ ParentCancelled
    BY <1>2, <2>3
    DEF Scheduler, SchedStart, SchedTick, SchedCancelled, SchedAssign, SchedClose, SchedJoin,
        ParentCancelled, procVars
  <2>4. ASSUME NEW o \in Processors, Receive(o) \/ Exit(o)
        PROVE  proc'[p] = "handle"
    BY <1>2, <2>1, <2>4 DEF Receive, Exit
  <2>5. QED
    BY <2>2, <2>3, <2>4 DEF WorkerAlone
<1>3. StorageTypeOK' /\ NoQueuesNoTasks'
  BY <1>1 DEF SystemInv, StorageTypeOK, NoQueuesNoTasks
<1>4. BatchesInHandlers' /\ TakenIsInHand'
  BY <1>1, <1>2 DEF SystemInv, BatchesInHandlers, TakenIsInHand, Store!Having
<1>5. QED
  BY <1>3, <1>4

LEMMA FetchKeeps ==
  ASSUME SystemInv, NEW p \in Processors, NEW S, Fetch(p, S)
  PROVE  StorageTypeOK' /\ BatchesInHandlers' /\ NoQueuesNoTasks' /\ TakenIsInHand'
<1>1. proc \in [Processors -> {"off", "select", "get", "handle", "exited"}]
  BY DEF SystemInv, WorkerInv, WorkerTypeOK
<1>2. StorageTypeOK /\ Store!GetTask(queueNum[p], S) /\ DOMAIN live' = DOMAIN live
  BY DEF SystemInv, Fetch, Store!GetTask
<1>3. /\ live' \in [DOMAIN live -> Store!LiveTask]
      /\ \A id \in DOMAIN live : live'[id].status = "taken" =>
           id \in S \/ live[id].status = "taken"
      /\ S \subseteq DOMAIN live /\ accepted' = accepted
  BY <1>2, TasksGoOut
<1>4. /\ batch' = [batch EXCEPT ![p] = S] /\ batch \in [Processors -> SUBSET accepted]
      /\ proc' = [proc EXCEPT ![p] = "handle"] /\ proc[p] = "get" /\ S \subseteq accepted
  BY <1>2, <1>3 DEF Fetch, CallHandler, StorageTypeOK
<1>5. StorageTypeOK' /\ NoQueuesNoTasks'
  BY <1>2, <1>3, <1>4 DEF SystemInv, StorageTypeOK, NoQueuesNoTasks
<1>6. BatchesInHandlers'
  BY <1>1, <1>4 DEF SystemInv, BatchesInHandlers
<1>7. TakenIsInHand'
  <2> SUFFICES ASSUME NEW id \in DOMAIN live, live'[id].status = "taken"
               PROVE  \E o \in Processors : proc'[o] = "handle" /\ id \in batch'[o]
    BY <1>2 DEF TakenIsInHand, Store!Having
  <2>1. CASE id \in S
    BY <1>1, <1>4, <2>1
  <2>2. CASE id \notin S
    <3>1. PICK o \in Processors : proc[o] = "handle" /\ id \in batch[o]
      BY <1>3, <2>2 DEF SystemInv, TakenIsInHand, Store!Having
    <3>2. o # p
      BY <1>4, <3>1
    <3>3. proc'[o] = "handle" /\ id \in batch'[o]
      BY <1>1, <1>4, <3>1, <3>2
    <3>4. QED
      BY <3>3
  <2>3. QED
    BY <2>1, <2>2
<1>8. QED
  BY <1>5, <1>6, <1>7

(* The tasks a handler settles are no longer taken, and no longer its.     *)
LEMMA SettlingKeeps ==
  ASSUME SystemInv, NEW p \in Processors, HandlerSettles(p)
  PROVE  StorageTypeOK' /\ BatchesInHandlers' /\ NoQueuesNoTasks' /\ TakenIsInHand'
<1> DEFINE TasksSettled(S) ==
             /\ DOMAIN live' \subseteq DOMAIN live /\ accepted' = accepted
             /\ live' \in [DOMAIN live' -> Store!LiveTask]
             /\ \A id \in DOMAIN live' :
                  live'[id].status = "taken" => id \notin S /\ live[id].status = "taken"
<1>1. PICK S \in SUBSET batch[p] :
        \/ HandlerDone(p, S)
        \/ \E status \in {"ready", "delayed"} : HandlerRetries(p, S, status)
  BY DEF HandlerSettles
<1>2. /\ proc[p] = "handle" /\ UNCHANGED proc
      /\ batch' = [batch EXCEPT ![p] = @ \ S] /\ batch \in [Processors -> SUBSET accepted]
      /\ StorageTypeOK
  BY <1>1
  DEF SystemInv, StorageTypeOK, HandlerDone, HandlerRetries, Settle, workerVars, procVars
<1>3. TasksSettled(S)
  <2>1. CASE HandlerDone(p, S)
    <3>1. live' = [id \in DOMAIN live \ (S \cap DOMAIN live) |-> live[id]] /\ accepted' = accepted
      BY <2>1 DEF HandlerDone, Store!DoneTask
    <3>2. QED
      BY <1>2, <3>1 DEF StorageTypeOK
  <2>2. ASSUME NEW status \in {"ready", "delayed"}, HandlerRetries(p, S, status)
        PROVE  TasksSettled(S)
    <3> DEFINE T == S \cap DOMAIN live
    <3>1. Store!ReturnTasks(T, [id \in T |-> status]) /\ accepted' = accepted
      BY <2>2 DEF HandlerRetries, Store!RetryTask
    <3>2. DOMAIN live' = DOMAIN live
      BY <3>1 DEF Store!ReturnTasks
    <3>3. \A id \in T : [i \in T |-> status][id] \in {"ready", "delayed"}
      OBVIOUS
    <3>4. /\ live' \in [DOMAIN live -> Store!LiveTask]
          /\ \A id \in DOMAIN live : live'[id].status = "taken" =>
               id \notin T /\ live[id].status = "taken"
      <4> HIDE DEF T
      <4>1. T \subseteq DOMAIN live
        BY DEF T
      <4>2. QED
        BY <1>2, <3>1, <3>3, <4>1, TasksReturn
    <3>5. QED
      BY <3>1, <3>2, <3>4
  <2>3. QED
    BY <1>1, <2>1, <2>2
<1>4. StorageTypeOK' /\ NoQueuesNoTasks'
  BY <1>2, <1>3 DEF SystemInv, StorageTypeOK, NoQueuesNoTasks
<1>5. BatchesInHandlers'
  BY <1>2 DEF SystemInv, BatchesInHandlers
<1>6. TakenIsInHand'
  <2> SUFFICES ASSUME NEW id \in DOMAIN live', live'[id].status = "taken"
               PROVE  \E o \in Processors : proc'[o] = "handle" /\ id \in batch'[o]
    BY DEF TakenIsInHand, Store!Having
  <2>1. PICK o \in Processors : proc[o] = "handle" /\ id \in batch[o]
    BY <1>3 DEF SystemInv, TakenIsInHand, Store!Having
  <2>2. id \in batch'[o] /\ proc'[o] = "handle"
    BY <1>2, <1>3, <2>1
  <2>3. QED
    BY <2>2
<1>7. QED
  BY <1>4, <1>5, <1>6

LEMMA ProcessorKeeps ==
  ASSUME SystemInv, NEW p \in Processors, SystemProcessor(p)
  PROVE  StorageTypeOK' /\ BatchesInHandlers' /\ NoQueuesNoTasks' /\ TakenIsInHand'
<1>1. CASE FetchNothing(p)
  <2>1. /\ UNCHANGED <<accepted, live, batch>> /\ proc[p] = "get"
        /\ proc' = [proc EXCEPT ![p] = "select"]
        /\ proc \in [Processors -> {"off", "select", "get", "handle", "exited"}]
    BY <1>1
    DEF FetchNothing, NothingToDo, storageVars, SystemInv, WorkerInv, WorkerTypeOK
  <2>2. \A o \in Processors : proc[o] = "handle" => proc'[o] = "handle"
    BY <2>1
  <2>3. QED
    BY <2>1, <2>2
    DEF SystemInv, StorageTypeOK, BatchesInHandlers, NoQueuesNoTasks, TakenIsInHand,
        Store!Having
<1>2. ASSUME NEW S \in Batches(queueNum[p]), Fetch(p, S)
      PROVE  StorageTypeOK' /\ BatchesInHandlers' /\ NoQueuesNoTasks' /\ TakenIsInHand'
  BY <1>2, FetchKeeps
<1>3. CASE HandlerSettles(p)
  BY <1>3, SettlingKeeps
<1>4. CASE HandlerFinishes(p)
  <2>1. /\ UNCHANGED <<accepted, live, batch>> /\ batch[p] = {}
        /\ proc' = [proc EXCEPT ![p] = "select"]
        /\ proc \in [Processors -> {"off", "select", "get", "handle", "exited"}]
    BY <1>4
    DEF HandlerFinishes, HandlerReturns, storageVars, SystemInv, WorkerInv, WorkerTypeOK
  <2>2. \A o \in Processors : proc[o] = "handle" /\ o # p => proc'[o] = "handle"
    BY <2>1
  <2>3. BatchesInHandlers' /\ TakenIsInHand'
    BY <2>1, <2>2 DEF SystemInv, BatchesInHandlers, TakenIsInHand, Store!Having
  <2>4. QED
    BY <2>1, <2>3 DEF SystemInv, StorageTypeOK, NoQueuesNoTasks
<1>5. QED
  BY <1>1, <1>2, <1>3, <1>4 DEF SystemProcessor

(* What producers and time do: a task may come back to the queue while a   *)
(* handler has it, but none is taken.                                      *)
LEMMA StorageAloneKeeps ==
  ASSUME SystemInv, Put \/ TimeoutExpires \/ DelayPasses
  PROVE  StorageTypeOK' /\ BatchesInHandlers' /\ NoQueuesNoTasks' /\ TakenIsInHand'
<1>1. UNCHANGED <<proc, batch>> /\ StorageTypeOK
  BY DEF Put, TimeoutExpires, DelayPasses, workerVars, procVars, SystemInv
<1>2. ASSUME \A id \in DOMAIN live' :
               live'[id].status = "taken" => id \in DOMAIN live /\ live[id].status = "taken"
      PROVE  TakenIsInHand'
  BY <1>1, <1>2 DEF SystemInv, TakenIsInHand, Store!Having
<1>3. BatchesInHandlers'
  BY <1>1 DEF SystemInv, BatchesInHandlers
<1>4. CASE Put
  <2> DEFINE id == Cardinality(accepted) + 1
  <2>1. PICK q \in Range(QueueIDs), status \in {"ready", "delayed"} : Store!PutTask(id, q, status)
    BY <1>4 DEF Put
  <2>2. id \in Ids
    BY <1>1, <1>4, NextId DEF Put
  <2> HIDE DEF id
  <2>3. /\ live' \in [DOMAIN live \cup {id} -> Store!LiveTask]
        /\ \A i \in DOMAIN live' : live'[i].status = "taken" =>
             i \in DOMAIN live /\ live[i].status = "taken"
    BY <1>1, <2>1, TaskIsPut
  <2>4. accepted' = accepted \cup {id}
    BY <2>1 DEF Store!PutTask
  <2>5. QueueIDs # <<>>
    BY <2>1 DEF Range
  <2>6. StorageTypeOK'
    BY <1>1, <2>2, <2>3, <2>4 DEF StorageTypeOK
  <2>7. QED
    BY <1>2, <1>3, <2>3, <2>5, <2>6 DEF NoQueuesNoTasks
<1>5. CASE TimeoutExpires
  <2>1. PICK id \in Store!Having("taken") : Store!VisibilityExpires({id})
    BY <1>5 DEF TimeoutExpires
  <2>2. /\ {id} \subseteq DOMAIN live /\ accepted' = accepted
        /\ Store!ReturnTasks({id}, [i \in {id} |-> "ready"])
    BY <2>1 DEF Store!VisibilityExpires, Store!Having
  <2>3. \A i \in {id} : [j \in {id} |-> "ready"][i] \in {"ready", "delayed"}
    OBVIOUS
  <2>4. /\ live' \in [DOMAIN live -> Store!LiveTask]
        /\ \A i \in DOMAIN live : live'[i].status = "taken" =>
             i \notin {id} /\ live[i].status = "taken"
    BY <1>1, <2>2, <2>3, TasksReturn
  <2>5. QED
    BY <1>1, <1>2, <1>3, <2>2, <2>4 DEF SystemInv, StorageTypeOK, NoQueuesNoTasks
<1>6. CASE DelayPasses
  <2>1. PICK id \in Store!Having("delayed") : Store!BecomeDue({id})
    BY <1>6 DEF DelayPasses
  <2>2. /\ live' \in [DOMAIN live -> Store!LiveTask]
        /\ \A i \in DOMAIN live : live'[i].status = "taken" => live[i].status = "taken"
        /\ accepted' = accepted
    BY <1>1, <2>1, TasksBecomeDue
  <2>3. QED
    BY <1>1, <1>2, <1>3, <2>2 DEF SystemInv, StorageTypeOK, NoQueuesNoTasks
<1>7. QED
  BY <1>4, <1>5, <1>6

LEMMA SystemInductive == Spec => []SystemInv
<1>1. SystemInv /\ [Next]_vars => SystemInv'
  <2> SUFFICES ASSUME SystemInv, [Next]_vars
               PROVE  SystemInv'
    OBVIOUS
  <2>1. WorkerInv'
    BY WorkerMoves, WorkerStep DEF SystemInv
  <2>2. StorageTypeOK' /\ BatchesInHandlers' /\ NoQueuesNoTasks' /\ TakenIsInHand'
    <3>1. CASE WorkerAlone
      BY <3>1, WorkerAloneKeeps
    <3>2. ASSUME NEW p \in Processors, SystemProcessor(p)
          PROVE  StorageTypeOK' /\ BatchesInHandlers' /\ NoQueuesNoTasks' /\ TakenIsInHand'
      BY <3>2, ProcessorKeeps
    <3>3. CASE Put \/ TimeoutExpires \/ DelayPasses
      BY <3>3, StorageAloneKeeps
    <3>4. CASE UNCHANGED vars
      BY <3>4
      DEF vars, storageVars, workerVars, procVars, SystemInv, StorageTypeOK, BatchesInHandlers,
          NoQueuesNoTasks, TakenIsInHand, Store!Having
    <3>5. QED
      BY <3>1, <3>2, <3>3, <3>4 DEF Next
  <2>3. QED
    BY <2>1, <2>2 DEF SystemInv
<1>2. QED
  BY SystemInitial, <1>1, PTL DEF Spec

------------------------------------------------------------------------------
LEMMA SystemInvImplies ==
  SystemInv => SystemTypeOK /\ TakenIsInHand /\ StoppedMeansDone /\ NothingInFlightWhenStopped
<1> SUFFICES ASSUME SystemInv
             PROVE  SystemTypeOK /\ TakenIsInHand /\ StoppedMeansDone /\ NothingInFlightWhenStopped
  OBVIOUS
<1>1. SystemTypeOK /\ TakenIsInHand /\ StoppedMeansDone
  BY WorkerInvImplies DEF SystemInv, SystemTypeOK, StorageTypeOK, WorkerInv
<1>2. ASSUME stopped
      PROVE  \A p \in Processors : batch[p] = {}
  <2>1. CASE QueueIDs = <<>>
    BY <2>1 DEF SystemInv, NoQueuesNoTasks, StorageTypeOK
  <2>2. CASE QueueIDs # <<>>
    BY <1>1, <1>2, <2>2 DEF StoppedMeansDone, AllExited, SystemInv, BatchesInHandlers
  <2>3. QED
    BY <2>1, <2>2
<1>3. NothingInFlightWhenStopped
  BY <1>1, <1>2 DEF NothingInFlightWhenStopped, TakenIsInHand
<1>4. QED
  BY <1>1, <1>3

(* The variables of the worker, the storage and the handlers keep their    *)
(* types.                                                                  *)
THEOREM SystemTypeCorrect == Spec => []SystemTypeOK
<1>1. QED
  BY SystemInductive, SystemInvImplies, PTL

(* A task that counts as taken is in the hands of a handler.               *)
THEOREM TakenTasksAreInHand == Spec => []TakenIsInHand
<1>1. QED
  BY SystemInductive, SystemInvImplies, PTL

(* When stopped is closed no task is left half done.                       *)
THEOREM StopLeavesNothingHalfDone == Spec => []NothingInFlightWhenStopped
<1>1. QED
  BY SystemInductive, SystemInvImplies, PTL
------------------------------------------------------------------------------
(* The worker and its handlers use the storage as its contract allows.     *)

LEMMA ProcessorUsesStorage ==
  ASSUME SystemInv, NEW p \in Processors, SystemProcessor(p)
  PROVE  [Store!Next]_(Store!tqVars)
<1>1. \A id \in DOMAIN live : live[id] \in Store!LiveTask
  BY DEF SystemInv, StorageTypeOK
<1>2. CASE FetchNothing(p) \/ HandlerFinishes(p)
  BY <1>2 DEF FetchNothing, HandlerFinishes, storageVars, Store!tqVars
<1>3. ASSUME NEW S \in Batches(queueNum[p]), Fetch(p, S)
      PROVE  Store!Next
  <2>1. /\ Store!GetTask(queueNum[p], S) /\ S # {}
        /\ S \in SUBSET DOMAIN live
        /\ \A id \in S : live[id].queueNum = queueNum[p]
    BY <1>3 DEF Fetch, Store!GetTask, Store!Having
  <2>2. queueNum[p] \in Range(QueueIDs)
    BY <1>1, <2>1 DEF Store!LiveTask
  <2>3. QED
    BY <2>1, <2>2 DEF Store!Next
<1>4. ASSUME NEW S \in SUBSET batch[p], HandlerDone(p, S)
      PROVE  Store!Next
  <2>1. Store!DoneTask(S \cap DOMAIN live) /\ S \cap DOMAIN live \in SUBSET DOMAIN live
    BY <1>4 DEF HandlerDone
  <2>2. QED
    BY <2>1 DEF Store!Next
<1>5. ASSUME NEW S \in SUBSET batch[p], NEW status \in {"ready", "delayed"},
             HandlerRetries(p, S, status)
      PROVE  Store!Next
  <2> DEFINE R == S \cap DOMAIN live
             to == [id \in R |-> status]
  <2>1. Store!RetryTask(R, to) /\ R \in SUBSET DOMAIN live
    BY <1>5 DEF HandlerRetries
  <2>2. to \in [R -> {"delayed", "ready"}]
    OBVIOUS
  <2>3. QED
    BY <2>1, <2>2 DEF Store!Next
<1>6. QED
  BY <1>2, <1>3, <1>4, <1>5 DEF SystemProcessor, HandlerSettles

LEMMA SystemUsesStorage ==
  ASSUME SystemInv, [Next]_vars
  PROVE  [Store!Next]_(Store!tqVars)
<1>1. CASE WorkerAlone \/ UNCHANGED vars
  BY <1>1 DEF WorkerAlone, vars, storageVars, Store!tqVars
<1>2. ASSUME NEW p \in Processors, SystemProcessor(p)
      PROVE  [Store!Next]_(Store!tqVars)
  BY <1>2, ProcessorUsesStorage
<1>3. CASE Put
  <2>1. Cardinality(accepted) + 1 \in Ids
    BY <1>3, NextId DEF Put, SystemInv
  <2>2. QED
    BY <1>3, <2>1 DEF Put, Store!Next
<1>4. CASE TimeoutExpires
  <2>1. PICK id \in Store!Having("taken") : Store!VisibilityExpires({id})
    BY <1>4 DEF TimeoutExpires
  <2>2. {id} \in SUBSET DOMAIN live
    BY DEF Store!Having
  <2>3. QED
    BY <2>1, <2>2 DEF Store!Next
<1>5. CASE DelayPasses
  <2>1. PICK id \in Store!Having("delayed") : Store!BecomeDue({id})
    BY <1>5 DEF DelayPasses
  <2>2. {id} \in SUBSET DOMAIN live
    BY DEF Store!Having
  <2>3. QED
    BY <2>1, <2>2 DEF Store!Next
<1>6. QED
  BY <1>1, <1>2, <1>3, <1>4, <1>5 DEF Next

(* The system is a composition: the worker in it is a QueueWorker, which   *)
(* the storage makes do nothing that it would not do by itself ...         *)
THEOREM WorkerInSystemIsWorker == Spec => WorkerSpec
<1>1. Init => WorkerInit
  BY DEF Init
<1>2. QED
  BY <1>1, WorkerMoves, PTL DEF Spec, WorkerSpec

(* ... and the storage in it is a TaskQueue: processors and handlers hand  *)
(* out, settle and return tasks only as the contract of Storage says, and  *)
(* a late answer of a handler, for a task that is gone or taken by another *)
(* processor, is no exception.                                             *)
THEOREM StorageInSystemIsTaskQueue == Spec => Store!Spec
<1>1. Init => Store!Init
  BY DEF Init
<1>2. SystemInv /\ [Next]_vars => [Store!Next]_(Store!tqVars)
  BY SystemUsesStorage
<1>3. QED
  BY <1>1, <1>2, SystemInductive, PTL DEF Spec, Store!Spec
==============================================================================
