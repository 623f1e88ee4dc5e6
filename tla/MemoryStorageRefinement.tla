----------------------- MODULE MemoryStorageRefinement -----------------------
(***************************************************************************)
(* MemoryStorage implements TaskQueue: its initial state maps to an        *)
(* initial state, and each of its steps to a step or a stutter.            *)
(***************************************************************************)
EXTENDS MemoryStorageProofs

(* The image of a task after a step.                                       *)
LEMMA LiveNext ==
  ASSUME NEW id \in DOMAIN tasks'
  PROVE  Live'[id] = [queueNum |-> tasks'[id].queueNum,
                      status |-> IF tasks'[id].taken THEN "taken"
                                 ELSE IF tasks'[id].startTime > now'
                                      THEN "delayed" ELSE "ready",
                      attempts |-> tasks'[id].attempts]
  BY DEF Live, AsLive, StatusOf

(* A step that keeps the map and the clock is a stutter.                   *)
LEMMA StorageStutters ==
  ASSUME UNCHANGED <<now, tasks, nextID>>
  PROVE  UNCHANGED TQ!tqVars
  BY DEF TQ!tqVars, Live, AsLive, StatusOf

LEMMA TickRefines ==
  ASSUME TypeOK, Tick
  PROVE  TQ!Next
<1> DEFINE S == {id \in DOMAIN tasks :
                   ~tasks[id].taken /\ tasks[id].startTime = now + 1}
<1>1. /\ tasks' = tasks /\ nextID' = nextID /\ now' = now + 1 /\ now \in Nat
      /\ \A id \in DOMAIN tasks : tasks[id].startTime \in Nat
  BY DEF Tick, TypeOK, TasksType, MemTask
<1>2. S \subseteq TQ!Having("delayed")
  BY <1>1 DEF TQ!Having, Live, AsLive, StatusOf
<1>3. ASSUME NEW id \in DOMAIN tasks
      PROVE  Live'[id] = IF id \in S THEN [Live[id] EXCEPT !.status = "ready"]
                                     ELSE Live[id]
  BY <1>1, LiveNext DEF Live, AsLive, StatusOf
<1>4. TQ!BecomeDue(S)
  BY <1>1, <1>2, <1>3 DEF TQ!BecomeDue, Live
<1>5. S \in SUBSET DOMAIN Live
  BY DEF Live
<1>6. QED
  BY <1>4, <1>5 DEF TQ!Next

LEMMA PutTaskRefines ==
  ASSUME TypeOK, NEW q \in Queues, NEW req \in Requests, NEW at \in 0..now,
         PutTask(q, req, at)
  PROVE  TQ!Next
<1> DEFINE status == IF StartOf(req, at) > now THEN "delayed" ELSE "ready"
<1>1. nextID \in 1..MaxTasks /\ nextID' = nextID + 1 /\ now' = now
  BY ConstantsAssumption DEF PutTask, TypeOK, TasksType
<1>2. 1..(nextID' - 1) = 1..(nextID - 1) \cup {nextID}
  BY <1>1
<1>3. DOMAIN tasks' = DOMAIN tasks \cup {nextID} /\ nextID \notin DOMAIN tasks
  BY DEF PutTask, TypeOK, TasksType
<1>4. Live'[nextID] = [queueNum |-> q, status |-> status, attempts |-> 0]
  <2>1. /\ tasks'[nextID].queueNum = q /\ tasks'[nextID].attempts = 0
        /\ tasks'[nextID].taken = FALSE
        /\ tasks'[nextID].startTime = StartOf(req, at)
    BY DEF PutTask
  <2>2. QED
    BY <1>1, <1>3, <2>1, LiveNext
<1>5. ASSUME NEW id \in DOMAIN tasks
      PROVE  Live'[id] = Live[id]
  <2>1. tasks'[id] = tasks[id]
    BY <1>3 DEF PutTask
  <2>2. QED
    BY <1>1, <1>3, <2>1, LiveNext DEF Live, AsLive, StatusOf
<1>6. TQ!PutTask(nextID, q, status)
  BY <1>1, <1>2, <1>3, <1>4, <1>5 DEF TQ!PutTask, Live
<1>7. status \in {"delayed", "ready"}
  OBVIOUS
<1>8. QED
  BY <1>1, <1>6, <1>7 DEF TQ!Next

LEMMA GetTaskRefines ==
  ASSUME TypeOK, \A d \in Consumers : sampled[d] <= now,
         NEW c \in Consumers, NEW q \in Queues, FinishGetTask(c, q)
  PROVE  TQ!Next
<1>1. PICK S \in Batches(q, sampled[c]) : tasks' = Taking(S, sampled[c])
  BY DEF FinishGetTask
<1>2. nextID' = nextID /\ now' = now /\ sampled[c] \in Nat /\ now \in Nat
  BY DEF FinishGetTask, TypeOK
<1>3. /\ S \subseteq DOMAIN tasks
      /\ \A id \in S : /\ tasks[id].queueNum = q /\ ~tasks[id].taken
                       /\ tasks[id].startTime <= sampled[c]
  BY DEF Batches, Eligible, Ready
<1>4. S \subseteq {id \in TQ!Having("ready") : Live[id].queueNum = q}
  <2> SUFFICES ASSUME NEW id \in S
               PROVE  StatusOf(tasks[id]) = "ready" /\ tasks[id].queueNum = q
    BY <1>3 DEF TQ!Having, Live, AsLive
  <2>1. tasks[id].startTime \in Nat
    BY <1>3 DEF TypeOK, TasksType, MemTask
  <2>2. QED
    BY <1>2, <1>3, <2>1 DEF StatusOf
<1>5. DOMAIN tasks' = DOMAIN tasks
  BY <1>1 DEF Taking
<1>6. ASSUME NEW id \in DOMAIN tasks
      PROVE  Live'[id] = IF id \in S THEN [Live[id] EXCEPT !.status = "taken"]
                                     ELSE Live[id]
  <2>1. tasks[id] \in MemTask
    BY DEF TypeOK, TasksType
  <2>2. CASE id \in S
    <3>1. /\ tasks'[id].taken /\ tasks'[id].queueNum = tasks[id].queueNum
          /\ tasks'[id].attempts = tasks[id].attempts
      BY <1>1, <2>1, <2>2 DEF Taking, MemTask
    <3>2. QED
      BY <1>5, <2>2, <3>1, LiveNext DEF Live, AsLive
  <2>3. CASE id \notin S
    <3>1. tasks'[id] = tasks[id]
      BY <1>1, <2>3 DEF Taking
    <3>2. QED
      BY <1>2, <1>5, <2>3, <3>1, LiveNext DEF Live, AsLive, StatusOf
  <2>4. QED
    BY <2>2, <2>3
<1>7. TQ!GetTask(q, S)
  BY <1>2, <1>4, <1>5, <1>6 DEF TQ!GetTask, Live
<1>8. S \in SUBSET DOMAIN Live
  BY <1>3 DEF Live
<1>9. QED
  BY <1>7, <1>8 DEF TQ!Next

LEMMA DoneTaskRefines ==
  ASSUME TypeOK, NEW c \in Consumers, NEW S \in SUBSET DOMAIN held[c],
         DoneTask(c, S)
  PROVE  TQ!Next
<1> DEFINE T == S \cap DOMAIN tasks
<1>1. /\ nextID' = nextID /\ now' = now
      /\ tasks' = [id \in DOMAIN tasks \ T |-> tasks[id]]
  BY DEF DoneTask, Restrict
<1>2. T \in SUBSET DOMAIN Live
  BY DEF Live
<1>3. TQ!DoneTask(T)
  BY <1>1, <1>2 DEF TQ!DoneTask, Live, AsLive, StatusOf
<1>4. QED
  BY <1>2, <1>3 DEF TQ!Next

(* RetryTask and the reaper return tasks in the same way.                  *)
LEMMA ReturningRefines ==
  ASSUME TypeOK, NEW S \in SUBSET DOMAIN tasks, NEW start \in Nat,
         tasks' = Returning(S, start), nextID' = nextID, now' = now
  PROVE  /\ TQ!ReturnTasks(S, [id \in S |-> IF start > now THEN "delayed" ELSE "ready"])
         /\ UNCHANGED (1..(nextID - 1))
<1>1. DOMAIN tasks' = DOMAIN tasks
  BY DEF Returning
<1>2. ASSUME NEW id \in DOMAIN tasks
      PROVE  Live'[id] =
               IF id \in S
                 THEN [queueNum |-> Live[id].queueNum,
                       status |-> IF start > now THEN "delayed" ELSE "ready",
                       attempts |-> Live[id].attempts + 1]
                 ELSE Live[id]
  <2>1. CASE id \in S
    <3>1. /\ tasks'[id].queueNum = tasks[id].queueNum
          /\ tasks'[id].attempts = tasks[id].attempts + 1
          /\ tasks'[id].taken = FALSE /\ tasks'[id].startTime = start
      BY <2>1 DEF Returning, Returned
    <3>2. QED
      BY <1>1, <2>1, <3>1, LiveNext DEF Live, AsLive
  <2>2. CASE id \notin S
    <3>1. tasks'[id] = tasks[id]
      BY <2>2 DEF Returning
    <3>2. QED
      BY <1>1, <2>2, <3>1, LiveNext DEF Live, AsLive, StatusOf
  <2>3. QED
    BY <2>1, <2>2
<1>3. QED
  BY <1>1, <1>2 DEF TQ!ReturnTasks, Live

LEMMA RetryTaskRefines ==
  ASSUME TypeOK, NEW c \in Consumers, NEW S \in SUBSET DOMAIN held[c],
         NEW d \in RetryDelays, RetryTask(c, S, now + d)
  PROVE  TQ!Next
<1> DEFINE T == S \cap DOMAIN tasks
           status == [id \in T |-> IF now + d > now THEN "delayed" ELSE "ready"]
<1>1. /\ nextID' = nextID /\ now' = now /\ now + d \in Nat
      /\ tasks' = Returning(T, now + d)
  BY ConstantsAssumption DEF RetryTask, Returning, TypeOK
<1>2. T \in SUBSET DOMAIN Live /\ status \in [T -> {"delayed", "ready"}]
  BY DEF Live
<1>3. TQ!RetryTask(T, status)
  BY <1>1, <1>2, ReturningRefines DEF TQ!RetryTask
<1>4. QED
  BY <1>2, <1>3 DEF TQ!Next

LEMMA ReapExpiredRefines ==
  ASSUME TypeOK, TickPast, ReapExpired
  PROVE  TQ!Next
<1> DEFINE S == {id \in DOMAIN tasks : Expired(tasks[id], tick)}
<1>1. /\ nextID' = nextID /\ now' = now /\ tick \in Nat /\ now \in Nat
      /\ tasks' = Returning(S, tick) /\ ~(tick > now)
  BY DEF ReapExpired, TypeOK, TickPast
<1>2. S \in SUBSET DOMAIN Live /\ S \subseteq TQ!Having("taken")
  BY DEF Live, AsLive, StatusOf, Expired, TQ!Having
<1>3. TQ!ReturnTasks(S, [id \in S |-> "ready"]) /\ UNCHANGED (1..(nextID - 1))
  BY <1>1, ReturningRefines
<1>4. TQ!VisibilityExpires(S)
  BY <1>2, <1>3 DEF TQ!VisibilityExpires
<1>5. QED
  BY <1>2, <1>4 DEF TQ!Next

(* A GetTask acts on an instant of the past, as the reaper does.           *)
SampledPast == \A c \in Consumers : sampled[c] <= now

LEMMA SampledPastInvariant == Spec => []SampledPast
<1>1. Init => SampledPast
  BY DEF Init, SampledPast, NoTime
<1>2. TypeOK /\ SampledPast /\ [Next]_vars => SampledPast'
  <2> SUFFICES ASSUME TypeOK, SampledPast, [Next]_vars
               PROVE  SampledPast'
    OBVIOUS
  <2>1. CASE Tick
    BY <2>1 DEF Tick, SampledPast, TypeOK, NoTime
  <2>2. ASSUME NEW c \in Consumers, BeginGetTask(c)
        PROVE  SampledPast'
    BY <2>2 DEF BeginGetTask, SampledPast, TypeOK
  <2>3. ASSUME NEW c \in Consumers, NEW q \in Queues, FinishGetTask(c, q)
        PROVE  SampledPast'
    BY <2>3 DEF FinishGetTask, SampledPast, TypeOK, NoTime
  <2>4. ASSUME UNCHANGED <<sampled, now>>
        PROVE  SampledPast'
    BY <2>4 DEF SampledPast
  <2>5. QED
    BY <2>1, <2>2, <2>3, <2>4
    DEF Next, vars, Producer, PutTask, Consumer, Retry, Reaper, DoneTask,
        RetryTask, Abandon, ReaperTick, ReapExpired, ReaperExit, Close
<1>3. QED
  BY <1>1, <1>2, TypeCorrect, PTL DEF Spec

(* MemoryStorage keeps the promises of queue.Storage: tasks leave it only  *)
(* by DoneTask, it hands out only tasks that are due and not taken, and    *)
(* every return of a task counts one attempt.                              *)
THEOREM StorageImplementsTaskQueue == Spec => ImplementsTaskQueue
<1>1. Init => TQ!Init
  BY DEF Init, TQ!Init, Live
<1>2. TypeOK /\ TickPast /\ SampledPast /\ [Next]_vars => [TQ!Next]_(TQ!tqVars)
  <2> SUFFICES ASSUME TypeOK, TickPast, SampledPast, [Next]_vars
               PROVE  TQ!Next \/ UNCHANGED TQ!tqVars
    OBVIOUS
  <2>1. CASE \/ ReaperTick \/ ReaperExit \/ Close \/ UNCHANGED vars
             \/ \E c \in Consumers : BeginGetTask(c) \/ Abandon(c)
    <3>1. UNCHANGED <<now, tasks, nextID>>
      BY <2>1 DEF ReaperTick, ReaperExit, Close, vars, BeginGetTask, Abandon
    <3>2. QED
      BY <3>1, StorageStutters
  <2>2. QED
    BY <2>1, TickRefines, PutTaskRefines, GetTaskRefines, DoneTaskRefines,
       RetryTaskRefines, ReapExpiredRefines
    DEF Next, Producer, Consumer, Retry, Reaper, SampledPast
<1>3. QED
  BY <1>1, <1>2, TypeCorrect, TickPastInvariant, SampledPastInvariant, PTL
  DEF Spec, TQ!Spec, ImplementsTaskQueue
==============================================================================
