-------------------------- MODULE QueueWorkerProofs --------------------------
(***************************************************************************)
(* Theorems about QueueWorker, for any number of processors and any list   *)
(* of queues, the empty one included.                                      *)
(*                                                                         *)
(* What AppWorker and QueueSystem need of a worker is proved of a single   *)
(* step, WorkerStep, so that they can use it for theirs.                   *)
(***************************************************************************)
EXTENDS QueueWorker, TLAPS

(* The loops over the processors stay within them, and a worker without    *)
(* queues never gets to the loop of its scheduler.                         *)
LoopsInRange ==
  /\ at <= MaxProcessors
  /\ QueueIDs = <<>> => sched \in {"off", "start", "exited"}

(* The goroutines start together.                                          *)
StartTogether == \A p \in Processors : proc[p] = "off" <=> sched = "off"

(* Nothing but the cancellation makes a worker with queues stop.           *)
StopsOnlyCancelled ==
  /\ sched \in {"close", "join"} => cancelled
  /\ sched = "exited" => cancelled \/ QueueIDs = <<>>
  /\ \A p \in Processors : assignClosed[p] \/ proc[p] = "exited" => cancelled

(* Nothing is assigned once a channel is closed.                           *)
ClosedWhenStopping ==
  \A p \in Processors : assignClosed[p] => sched \in {"close", "join", "exited"}

(* The scheduler has seen the processors before at exit, and all of them   *)
(* when it returns.                                                        *)
JoinedHaveExited ==
  /\ sched = "join" => \A p \in 1..(at - 1) : proc[p] = "exited"
  /\ sched = "exited" /\ QueueIDs # <<>> => AllExited
  /\ stopped => sched = "exited"

(* The batch fetched after the close was the one that was buffered.        *)
LateBatchIsLast ==
  \A p \in Processors :
    /\ lateBatches[p] <= 1
    /\ lateBatches[p] = 1 => assignClosed[p] /\ assignCh[p] = None

WorkerInv ==
  /\ WorkerTypeOK
  /\ LoopsInRange /\ StartTogether /\ StopsOnlyCancelled /\ ClosedWhenStopping
  /\ JoinedHaveExited /\ LateBatchIsLast

------------------------------------------------------------------------------
LEMMA WorkerInitial == WorkerInit => WorkerInv
<1>1. QueueIDs # <<>> => 0 < Len(QueueIDs)
  BY WorkerAssumption
<1>2. WorkerInit => WorkerTypeOK
  <2> SUFFICES ASSUME WorkerInit
               PROVE  WorkerTypeOK
    OBVIOUS
  <2>1. at \in 1..(MaxProcessors + 1)
    BY WorkerAssumption DEF WorkerInit
  <2>2. queueIdx \in Nat /\ (QueueIDs # <<>> => queueIdx < Len(QueueIDs))
    BY <1>1 DEF WorkerInit
  <2>3. QED
    BY <2>1, <2>2 DEF WorkerInit, WorkerTypeOK
<1>3. QED
  BY <1>2, WorkerAssumption
  DEF WorkerInit, WorkerInv, WorkerTypeOK, LoopsInRange, StartTogether, StopsOnlyCancelled,
      ClosedWhenStopping, JoinedHaveExited, LateBatchIsLast, Processors

(* The queue the scheduler offers is one of the worker's.                  *)
LEMMA NextQueue ==
  ASSUME WorkerInv, sched = "assign"
  PROVE  /\ QueueIDs[queueIdx + 1] \in Nat
         /\ (queueIdx + 1) % Len(QueueIDs) \in 0..(Len(QueueIDs) - 1)
<1>1. QueueIDs # <<>> /\ queueIdx \in Nat /\ queueIdx < Len(QueueIDs)
  BY DEF WorkerInv, WorkerTypeOK, LoopsInRange
<1>2. QueueIDs \in Seq(Nat) /\ Len(QueueIDs) \in Nat \ {0}
  BY <1>1, WorkerAssumption
<1>3. QueueIDs[queueIdx + 1] \in Nat
  BY <1>1, <1>2
<1>4. (queueIdx + 1) % Len(QueueIDs) \in 0..(Len(QueueIDs) - 1)
  BY <1>1, <1>2
<1>5. QED
  BY <1>3, <1>4

(* A step of the worker, whatever it is a part of, keeps the invariant.    *)
LEMMA WorkerStep == WorkerInv /\ [WorkerNext]_workerVars => WorkerInv'
<1> SUFFICES ASSUME WorkerInv, [WorkerNext]_workerVars
             PROVE  WorkerInv'
  OBVIOUS
<1> USE WorkerAssumption DEF Processors, None, stopVars, schedVars, procVars, workerVars
<1>1. CASE Run
  <2>1. WorkerTypeOK'
    BY <1>1 DEF WorkerTypeOK, WorkerInv, LoopsInRange, Run
  <2>2. LoopsInRange'
    BY <1>1 DEF LoopsInRange, WorkerInv, WorkerTypeOK, Run
  <2>3. StartTogether'
    BY <1>1 DEF StartTogether, WorkerInv, WorkerTypeOK, Run
  <2>4. StopsOnlyCancelled'
    BY <1>1 DEF StopsOnlyCancelled, WorkerInv, WorkerTypeOK, ClosedWhenStopping, Run
  <2>5. ClosedWhenStopping'
    BY <1>1 DEF ClosedWhenStopping, WorkerInv, WorkerTypeOK, Run
  <2>6. JoinedHaveExited'
    BY <1>1 DEF JoinedHaveExited, WorkerInv, WorkerTypeOK, LoopsInRange, AllExited, Run
  <2>7. LateBatchIsLast'
    BY <1>1 DEF WorkerInv, LateBatchIsLast, Run
  <2>8. QED
    BY <2>1, <2>2, <2>3, <2>4, <2>5, <2>6, <2>7 DEF WorkerInv
<1>2. CASE SchedStart
  <2>1. WorkerTypeOK'
    BY <1>2 DEF WorkerTypeOK, WorkerInv, LoopsInRange, SchedStart
  <2>2. LoopsInRange'
    BY <1>2 DEF LoopsInRange, WorkerInv, WorkerTypeOK, SchedStart
  <2>3. StartTogether'
    BY <1>2 DEF StartTogether, WorkerInv, WorkerTypeOK, SchedStart
  <2>4. StopsOnlyCancelled'
    BY <1>2 DEF StopsOnlyCancelled, WorkerInv, WorkerTypeOK, ClosedWhenStopping, SchedStart
  <2>5. ClosedWhenStopping'
    BY <1>2 DEF ClosedWhenStopping, WorkerInv, WorkerTypeOK, SchedStart
  <2>6. JoinedHaveExited'
    BY <1>2 DEF JoinedHaveExited, WorkerInv, WorkerTypeOK, LoopsInRange, AllExited, SchedStart
  <2>7. LateBatchIsLast'
    BY <1>2 DEF WorkerInv, LateBatchIsLast, SchedStart
  <2>8. QED
    BY <2>1, <2>2, <2>3, <2>4, <2>5, <2>6, <2>7 DEF WorkerInv
<1>3. CASE SchedTick
  <2>1. WorkerTypeOK'
    BY <1>3 DEF WorkerTypeOK, WorkerInv, LoopsInRange, SchedTick
  <2>2. LoopsInRange'
    BY <1>3 DEF LoopsInRange, WorkerInv, WorkerTypeOK, SchedTick
  <2>3. StartTogether'
    BY <1>3 DEF StartTogether, WorkerInv, WorkerTypeOK, SchedTick
  <2>4. StopsOnlyCancelled'
    BY <1>3 DEF StopsOnlyCancelled, WorkerInv, WorkerTypeOK, ClosedWhenStopping, SchedTick
  <2>5. ClosedWhenStopping'
    BY <1>3 DEF ClosedWhenStopping, WorkerInv, WorkerTypeOK, SchedTick
  <2>6. JoinedHaveExited'
    BY <1>3 DEF JoinedHaveExited, WorkerInv, WorkerTypeOK, LoopsInRange, AllExited, SchedTick
  <2>7. LateBatchIsLast'
    BY <1>3 DEF WorkerInv, LateBatchIsLast, SchedTick
  <2>8. QED
    BY <2>1, <2>2, <2>3, <2>4, <2>5, <2>6, <2>7 DEF WorkerInv
<1>4. CASE SchedCancelled
  <2>1. WorkerTypeOK'
    BY <1>4 DEF WorkerTypeOK, WorkerInv, LoopsInRange, SchedCancelled
  <2>2. LoopsInRange'
    BY <1>4 DEF LoopsInRange, WorkerInv, WorkerTypeOK, SchedCancelled
  <2>3. StartTogether'
    BY <1>4 DEF StartTogether, WorkerInv, WorkerTypeOK, SchedCancelled
  <2>4. StopsOnlyCancelled'
    BY <1>4 DEF StopsOnlyCancelled, WorkerInv, WorkerTypeOK, ClosedWhenStopping, SchedCancelled
  <2>5. ClosedWhenStopping'
    BY <1>4 DEF ClosedWhenStopping, WorkerInv, WorkerTypeOK, SchedCancelled
  <2>6. JoinedHaveExited'
    BY <1>4
    DEF JoinedHaveExited, WorkerInv, WorkerTypeOK, LoopsInRange, AllExited, SchedCancelled
  <2>7. LateBatchIsLast'
    BY <1>4 DEF WorkerInv, LateBatchIsLast, SchedCancelled
  <2>8. QED
    BY <2>1, <2>2, <2>3, <2>4, <2>5, <2>6, <2>7 DEF WorkerInv
<1>5. CASE SchedAssign
  <2>1. WorkerTypeOK'
    <3>1. assignCh' \in [Processors -> Nat \cup {None}]
      BY <1>5, NextQueue DEF WorkerTypeOK, WorkerInv, SchedAssign
    <3>2. queueIdx' \in Nat /\ queueIdx' < Len(QueueIDs)
      <4>1. QueueIDs # <<>> /\ QueueIDs \in Seq(Nat) /\ Len(QueueIDs) \in Nat
        BY <1>5 DEF WorkerInv, LoopsInRange, SchedAssign
      <4>2. queueIdx' \in 0..(Len(QueueIDs) - 1)
        BY <1>5, NextQueue DEF SchedAssign
      <4>3. QED
        BY <4>1, <4>2
    <3>3. sched' \in {"select", "assign"} /\ at' \in 1..(MaxProcessors + 1)
      BY <1>5 DEF WorkerTypeOK, WorkerInv, LoopsInRange, SchedAssign, LoopTo
    <3>4. QED
      BY <1>5, <3>1, <3>2, <3>3 DEF WorkerTypeOK, WorkerInv, SchedAssign
  <2>2. LoopsInRange'
    BY <1>5 DEF LoopsInRange, WorkerInv, WorkerTypeOK, SchedAssign, LoopTo
  <2>3. StartTogether'
    BY <1>5 DEF StartTogether, WorkerInv, WorkerTypeOK, SchedAssign, LoopTo
  <2>4. StopsOnlyCancelled'
    BY <1>5
    DEF StopsOnlyCancelled, WorkerInv, WorkerTypeOK, ClosedWhenStopping, SchedAssign, LoopTo
  <2>5. ClosedWhenStopping'
    BY <1>5 DEF ClosedWhenStopping, WorkerInv, WorkerTypeOK, SchedAssign, LoopTo
  <2>6. JoinedHaveExited'
    BY <1>5
    DEF JoinedHaveExited, WorkerInv, WorkerTypeOK, LoopsInRange, AllExited, SchedAssign, LoopTo
  <2>7. LateBatchIsLast'
    BY <1>5
    DEF LateBatchIsLast, WorkerInv, WorkerTypeOK, ClosedWhenStopping, SchedAssign, LoopTo
  <2>8. QED
    BY <2>1, <2>2, <2>3, <2>4, <2>5, <2>6, <2>7 DEF WorkerInv
<1>6. CASE SchedClose
  <2>1. WorkerTypeOK'
    <3>1. at' \in 1..(MaxProcessors + 1)
      <4>1. at \in 1..(MaxProcessors + 1) /\ at <= MaxProcessors
        BY DEF WorkerInv, WorkerTypeOK, LoopsInRange
      <4>2. at' = 1 \/ at' = at + 1
        BY <1>6 DEF SchedClose, LoopTo
      <4>3. QED
        BY <4>1, <4>2, WorkerAssumption
    <3>2. assignClosed' \in [Processors -> BOOLEAN]
      BY <1>6 DEF WorkerInv, WorkerTypeOK, SchedClose
    <3>3. sched' \in {"close", "join"}
      BY <1>6 DEF SchedClose, LoopTo
    <3>4. UNCHANGED <<cancelled, queueIdx, assignCh, procVars, stopped, stopVars>>
      BY <1>6 DEF SchedClose
    <3>5. QED
      BY <3>1, <3>2, <3>3, <3>4 DEF WorkerInv, WorkerTypeOK, procVars, stopVars
  <2>2. LoopsInRange'
    BY <1>6 DEF LoopsInRange, WorkerInv, WorkerTypeOK, SchedClose, LoopTo
  <2>3. StartTogether'
    BY <1>6 DEF StartTogether, WorkerInv, WorkerTypeOK, SchedClose, LoopTo
  <2>4. StopsOnlyCancelled'
    BY <1>6
    DEF StopsOnlyCancelled, WorkerInv, WorkerTypeOK, ClosedWhenStopping, SchedClose, LoopTo
  <2>5. ClosedWhenStopping'
    BY <1>6 DEF ClosedWhenStopping, WorkerInv, WorkerTypeOK, SchedClose, LoopTo
  <2>6. JoinedHaveExited'
    BY <1>6
    DEF JoinedHaveExited, WorkerInv, WorkerTypeOK, LoopsInRange, AllExited, SchedClose, LoopTo
  <2>7. LateBatchIsLast'
    BY <1>6 DEF LateBatchIsLast, WorkerInv, WorkerTypeOK, ClosedWhenStopping, SchedClose, LoopTo
  <2>8. QED
    BY <2>1, <2>2, <2>3, <2>4, <2>5, <2>6, <2>7 DEF WorkerInv
<1>7. CASE SchedJoin
  <2>1. WorkerTypeOK'
    BY <1>7 DEF WorkerTypeOK, WorkerInv, LoopsInRange, SchedJoin, LoopTo
  <2>2. LoopsInRange'
    BY <1>7 DEF LoopsInRange, WorkerInv, WorkerTypeOK, SchedJoin, LoopTo
  <2>3. StartTogether'
    BY <1>7 DEF StartTogether, WorkerInv, WorkerTypeOK, SchedJoin, LoopTo
  <2>4. StopsOnlyCancelled'
    BY <1>7
    DEF StopsOnlyCancelled, WorkerInv, WorkerTypeOK, ClosedWhenStopping, SchedJoin, LoopTo
  <2>5. ClosedWhenStopping'
    BY <1>7 DEF ClosedWhenStopping, WorkerInv, WorkerTypeOK, SchedJoin, LoopTo
  <2>6. JoinedHaveExited'
    BY <1>7
    DEF JoinedHaveExited, WorkerInv, WorkerTypeOK, LoopsInRange, AllExited, SchedJoin, LoopTo
  <2>7. LateBatchIsLast'
    BY <1>7 DEF WorkerInv, LateBatchIsLast, SchedJoin, LoopTo
  <2>8. QED
    BY <2>1, <2>2, <2>3, <2>4, <2>5, <2>6, <2>7 DEF WorkerInv
<1>8. ASSUME NEW p \in Processors, Processor(p)
      PROVE  WorkerInv'
  <2>1. CASE Receive(p)
    <3>1. WorkerTypeOK'
      <4>1. assignCh' \in [Processors -> Nat \cup {None}] /\ queueNum' \in [Processors -> Nat \cup {None}]
        BY <2>1 DEF WorkerTypeOK, WorkerInv, Receive
      <4>2. proc' \in [Processors -> {"off", "select", "get", "handle", "exited"}]
        BY <2>1 DEF WorkerTypeOK, WorkerInv, Receive
      <4>3. lateBatches' \in [Processors -> Nat]
        <5>1. lateBatches[p] \in Nat /\ lateBatches \in [Processors -> Nat]
          BY DEF WorkerTypeOK, WorkerInv
        <5>2. CASE assignClosed[p]
          BY <2>1, <5>1, <5>2 DEF Receive
        <5>3. CASE ~assignClosed[p]
          BY <2>1, <5>1, <5>3 DEF Receive
        <5>4. QED
          BY <5>2, <5>3
      <4>4. QED
        BY <2>1, <4>1, <4>2, <4>3 DEF WorkerTypeOK, WorkerInv, Receive
    <3>2. StartTogether'
      BY <2>1 DEF StartTogether, WorkerInv, WorkerTypeOK, Receive
    <3>3. StopsOnlyCancelled'
      BY <2>1 DEF StopsOnlyCancelled, WorkerInv, WorkerTypeOK, ClosedWhenStopping, Receive
    <3>4. JoinedHaveExited'
      BY <2>1 DEF JoinedHaveExited, WorkerInv, WorkerTypeOK, LoopsInRange, AllExited, Receive
    <3>5. LateBatchIsLast'
      <4> SUFFICES ASSUME NEW o \in Processors
                   PROVE  /\ lateBatches'[o] <= 1
                          /\ lateBatches'[o] = 1 => assignClosed'[o] /\ assignCh'[o] = None
        BY DEF LateBatchIsLast
      <4>1. CASE o = p
        <5>1. assignCh'[p] = None
          BY <2>1 DEF WorkerInv, WorkerTypeOK, Receive
        <5>2. lateBatches[p] = 0
          <6>1. lateBatches[p] \in Nat /\ lateBatches[p] <= 1 /\ lateBatches[p] # 1
            BY <2>1 DEF WorkerInv, WorkerTypeOK, LateBatchIsLast, Receive
          <6>2. QED
            BY <6>1
        <5>3. lateBatches'[p] = IF assignClosed[p] THEN lateBatches[p] + 1 ELSE lateBatches[p]
          BY <2>1 DEF WorkerInv, WorkerTypeOK, Receive
        <5>4. QED
          BY <2>1, <4>1, <5>1, <5>2, <5>3 DEF Receive
      <4>2. CASE o # p
        BY <2>1, <4>2 DEF WorkerInv, WorkerTypeOK, LateBatchIsLast, Receive
      <4>3. QED
        BY <4>1, <4>2
    <3>6. LoopsInRange' /\ ClosedWhenStopping'
      BY <2>1 DEF WorkerInv, LoopsInRange, ClosedWhenStopping, Receive
    <3>7. QED
      BY <3>1, <3>2, <3>3, <3>4, <3>5, <3>6 DEF WorkerInv
  <2>2. CASE Exit(p)
    <3>1. WorkerTypeOK'
      BY <2>2 DEF WorkerTypeOK, WorkerInv, LoopsInRange, Exit
    <3>2. StartTogether'
      BY <2>2 DEF StartTogether, WorkerInv, WorkerTypeOK, Exit
    <3>3. StopsOnlyCancelled'
      BY <2>2 DEF StopsOnlyCancelled, WorkerInv, WorkerTypeOK, ClosedWhenStopping, Exit
    <3>4. JoinedHaveExited'
      BY <2>2 DEF JoinedHaveExited, WorkerInv, WorkerTypeOK, LoopsInRange, AllExited, Exit
    <3>5. LoopsInRange' /\ ClosedWhenStopping' /\ LateBatchIsLast'
      BY <2>2 DEF WorkerInv, LoopsInRange, ClosedWhenStopping, LateBatchIsLast, Exit
    <3>6. QED
      BY <3>1, <3>2, <3>3, <3>4, <3>5 DEF WorkerInv
  <2>3. CASE NothingToDo(p)
    <3>1. WorkerTypeOK'
      BY <2>3 DEF WorkerTypeOK, WorkerInv, LoopsInRange, NothingToDo
    <3>2. StartTogether'
      BY <2>3 DEF StartTogether, WorkerInv, WorkerTypeOK, NothingToDo
    <3>3. StopsOnlyCancelled'
      BY <2>3 DEF StopsOnlyCancelled, WorkerInv, WorkerTypeOK, ClosedWhenStopping, NothingToDo
    <3>4. JoinedHaveExited'
      BY <2>3
      DEF JoinedHaveExited, WorkerInv, WorkerTypeOK, LoopsInRange, AllExited, NothingToDo
    <3>5. LoopsInRange' /\ ClosedWhenStopping' /\ LateBatchIsLast'
      BY <2>3 DEF WorkerInv, LoopsInRange, ClosedWhenStopping, LateBatchIsLast, NothingToDo
    <3>6. QED
      BY <3>1, <3>2, <3>3, <3>4, <3>5 DEF WorkerInv
  <2>4. CASE CallHandler(p)
    <3>1. WorkerTypeOK'
      BY <2>4 DEF WorkerTypeOK, WorkerInv, LoopsInRange, CallHandler
    <3>2. StartTogether'
      BY <2>4 DEF StartTogether, WorkerInv, WorkerTypeOK, CallHandler
    <3>3. StopsOnlyCancelled'
      BY <2>4 DEF StopsOnlyCancelled, WorkerInv, WorkerTypeOK, ClosedWhenStopping, CallHandler
    <3>4. JoinedHaveExited'
      BY <2>4
      DEF JoinedHaveExited, WorkerInv, WorkerTypeOK, LoopsInRange, AllExited, CallHandler
    <3>5. LoopsInRange' /\ ClosedWhenStopping' /\ LateBatchIsLast'
      BY <2>4 DEF WorkerInv, LoopsInRange, ClosedWhenStopping, LateBatchIsLast, CallHandler
    <3>6. QED
      BY <3>1, <3>2, <3>3, <3>4, <3>5 DEF WorkerInv
  <2>5. CASE HandlerReturns(p)
    <3>1. WorkerTypeOK'
      BY <2>5 DEF WorkerTypeOK, WorkerInv, LoopsInRange, HandlerReturns
    <3>2. StartTogether'
      BY <2>5 DEF StartTogether, WorkerInv, WorkerTypeOK, HandlerReturns
    <3>3. StopsOnlyCancelled'
      BY <2>5
      DEF StopsOnlyCancelled, WorkerInv, WorkerTypeOK, ClosedWhenStopping, HandlerReturns
    <3>4. JoinedHaveExited'
      BY <2>5
      DEF JoinedHaveExited, WorkerInv, WorkerTypeOK, LoopsInRange, AllExited, HandlerReturns
    <3>5. LoopsInRange' /\ ClosedWhenStopping' /\ LateBatchIsLast'
      BY <2>5 DEF WorkerInv, LoopsInRange, ClosedWhenStopping, LateBatchIsLast, HandlerReturns
    <3>6. QED
      BY <3>1, <3>2, <3>3, <3>4, <3>5 DEF WorkerInv
  <2>6. QED
    BY <1>8, <2>1, <2>2, <2>3, <2>4, <2>5 DEF Processor
<1>9. CASE Stopper
  <2>1. /\ UNCHANGED <<schedVars, assignCh, procVars>>
        /\ cancelled => cancelled'
    BY <1>9
    DEF Stopper, GracefulStop, GracefulCancel, GracefulDone, Shutdown, ShutdownReturns,
        ParentCancelled
  <2>2. WorkerTypeOK'
    <3>1. /\ cancelled' = cancelled \/ cancelled' = TRUE
          /\ graceful' \in {graceful, "called", "waiting", "done"}
          /\ shutdown' \in {shutdown, "waiting", "returned"}
      BY <1>9
      DEF Stopper, GracefulStop, GracefulCancel, GracefulDone, Shutdown, ShutdownReturns,
          ParentCancelled
    <3>2. cancelled' \in BOOLEAN
      BY <3>1 DEF WorkerInv, WorkerTypeOK
    <3>3. QED
      BY <2>1, <3>1, <3>2 DEF WorkerInv, WorkerTypeOK, schedVars, procVars
  <2>3. QED
    BY <2>1, <2>2
    DEF WorkerInv, LoopsInRange, StartTogether, StopsOnlyCancelled, ClosedWhenStopping,
        JoinedHaveExited, LateBatchIsLast, AllExited
<1>10. CASE UNCHANGED workerVars
  BY <1>10
  DEF WorkerInv, WorkerTypeOK, LoopsInRange, StartTogether, StopsOnlyCancelled,
      ClosedWhenStopping, JoinedHaveExited, LateBatchIsLast, AllExited
<1>11. QED
  BY <1>1, <1>2, <1>3, <1>4, <1>5, <1>6, <1>7, <1>8, <1>9, <1>10 DEF WorkerNext, Scheduler

LEMMA WorkerInductive == WorkerSpec => []WorkerInv
<1>1. QED
  BY WorkerInitial, WorkerStep, PTL DEF WorkerSpec

------------------------------------------------------------------------------
LEMMA WorkerInvImplies == WorkerInv => StoppedMeansDone /\ AtMostOneLateBatch
  BY DEF WorkerInv, JoinedHaveExited, LateBatchIsLast, StoppedMeansDone, AtMostOneLateBatch

(* When the channel stopped is closed, which ends GracefulStop and         *)
(* Shutdown, every processor of a worker with queues has returned.         *)
THEOREM StopWaitsForProcessors == WorkerSpec => []StoppedMeansDone
<1>1. QED
  BY WorkerInductive, WorkerInvImplies, PTL

(* A processor whose channel is closed fetches at most one more batch.     *)
THEOREM LateBatchesBounded == WorkerSpec => []AtMostOneLateBatch
<1>1. QED
  BY WorkerInductive, WorkerInvImplies, PTL
==============================================================================
