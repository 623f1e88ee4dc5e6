---------------------------- MODULE MemoryStorage ----------------------------
(***************************************************************************)
(* pkg/queue/memory.go: the in-memory implementation of queue.Storage,     *)
(* with its reaper goroutine, and the consumers that take tasks from it.   *)
(*                                                                         *)
(* Every method locks s.mu once and does all its work under the lock, so a *)
(* method is one action; what happens outside the lock is a step or a      *)
(* choice of its own:                                                      *)
(*   - GetTask reads the clock BEFORE it locks (line 101), so it is the    *)
(*     two actions BeginGetTask and FinishGetTask;                         *)
(*   - PutTask reads the clock before it locks too; a producer keeps no    *)
(*     other state, so its sample is any instant up to now;                *)
(*   - the reaper receives a tick, then waits for the lock: ReaperTick and *)
(*     ReapExpired.  A tick waits in the ticker's channel until the reaper *)
(*     selects again, so it may be older than now.                         *)
(* A consumer takes one batch at a time, as jobProcessor.processQueue does *)
(* (job_processor.go:62-74): its handler settles some of the tasks with    *)
(* DoneTask and RetryTask, in any number of calls, and then returns.       *)
(* "held" is that handler's slice of tasks; "since" in it is the instant   *)
(* GetTask wrote to takenAt, which no Task carries: it is there to state   *)
(* properties and no action of the code reads it.                          *)
(*                                                                         *)
(* Payloads and createdAt are left out: nothing depends on them.           *)
(***************************************************************************)
EXTENDS Integers, FiniteSets, Functions

CONSTANTS
  Consumers,           \* goroutines that call GetTask and settle tasks
  Queues,              \* queue numbers
  Requests,            \* what producers pass to PutTask, see Request
  RetryDelays,         \* NextStartTime of a retry, relative to now
  VisibilityTimeout,   \* WithVisibilityTimeout
  BatchSize,           \* the count passed to GetTask
  MaxTime,             \* bound: the clock stops here
  MaxTasks,            \* bound: tasks put into storage
  MaxAttempts          \* bound: attempts up to which handlers retry

(* The zero time.Time, a nil StartTime, and a goroutine outside GetTask.   *)
NoTime == -1

Request == [startTime : Nat \cup {NoTime}, delay : Int]

ASSUME ConstantsAssumption ==
  /\ Requests \subseteq Request
  /\ RetryDelays \subseteq Nat
  /\ VisibilityTimeout \in Nat
  /\ BatchSize \in Nat \ {0}
  /\ MaxTime \in Nat
  /\ MaxTasks \in Nat
  /\ MaxAttempts \in Nat

VARIABLES
  now,        \* the wall clock
  tasks,      \* MemoryStorage.tasks: id -> memTask
  nextID,     \* MemoryStorage.nextID
  sampled,    \* consumer -> the now of its GetTask call, or NoTime
  held,       \* consumer -> the tasks its handler got and has not settled
  reaper,     \* where the reaper goroutine is
  tick,       \* the last tick the reaper received
  closed      \* MemoryStorage.done is closed

vars == <<now, tasks, nextID, sampled, held, reaper, tick, closed>>

MemTask ==
  [queueNum : Queues, attempts : Nat, startTime : Nat,
   prevStartTime : Nat \cup {NoTime}, taken : BOOLEAN,
   takenAt : Nat \cup {NoTime}]

Handle == [attempts : Nat, since : Nat]

(* NewMemoryStorage. *)
Init ==
  /\ now = 0
  /\ tasks = [id \in {} |-> {}]
  /\ nextID = 1
  /\ sampled = [c \in Consumers |-> NoTime]
  /\ held = [c \in Consumers |-> [id \in {} |-> {}]]
  /\ reaper = "select"
  /\ tick = 0
  /\ closed = FALSE

Tick ==
  /\ now < MaxTime
  /\ now' = now + 1
  /\ UNCHANGED <<tasks, nextID, sampled, held, reaper, tick, closed>>

------------------------------------------------------------------------------
(* PutTask: a StartTime wins over a Delay, a Delay counts when positive.   *)

StartOf(req, at) ==
  IF req.startTime # NoTime THEN req.startTime
  ELSE IF req.delay > 0 THEN at + req.delay ELSE at

(* Mutant: the id of the last task is given out again.                     *)
PutTaskReusingID(q, req, at) ==
  /\ nextID <= MaxTasks
  /\ tasks' = [id \in DOMAIN tasks \cup {nextID} |->
                 [queueNum |-> q, attempts |-> 0,
                  startTime |-> StartOf(req, at), prevStartTime |-> NoTime,
                  taken |-> FALSE, takenAt |-> NoTime]]
  /\ UNCHANGED <<now, nextID, sampled, held, reaper, tick, closed>>

PutTask(q, req, at) ==
  /\ nextID <= MaxTasks
  /\ nextID' = nextID + 1
  /\ tasks' = [id \in DOMAIN tasks \cup {nextID} |->
                 IF id = nextID
                   THEN [queueNum |-> q, attempts |-> 0,
                         startTime |-> StartOf(req, at),
                         prevStartTime |-> NoTime,
                         taken |-> FALSE, takenAt |-> NoTime]
                   ELSE tasks[id]]
  /\ UNCHANGED <<now, sampled, held, reaper, tick, closed>>

------------------------------------------------------------------------------
(* GetTask: the range over the map visits the tasks in no fixed order and  *)
(* stops after BatchSize of them.                                          *)

(* Mutant: the start time is not looked at.                                *)
ReadyAnyTime(t, at) == ~t.taken

Ready(t, at) == ~t.taken /\ t.startTime <= at

Eligible(q, at) ==
  {id \in DOMAIN tasks : tasks[id].queueNum = q /\ Ready(tasks[id], at)}

Batches(q, at) ==
  {S \in SUBSET Eligible(q, at) :
     /\ Cardinality(S) <= BatchSize
     /\ Cardinality(S) = BatchSize \/ S = Eligible(q, at)}

(* The tasks of S marked as taken at the instant at.                       *)
Taking(S, at) ==
  [id \in DOMAIN tasks |->
     IF id \in S THEN [tasks[id] EXCEPT !.taken = TRUE, !.takenAt = at]
                 ELSE tasks[id]]

Idle(c) == sampled[c] = NoTime /\ DOMAIN held[c] = {}

BeginGetTask(c) ==
  /\ Idle(c)
  /\ sampled' = [sampled EXCEPT ![c] = now]
  /\ UNCHANGED <<now, tasks, nextID, held, reaper, tick, closed>>

FinishGetTask(c, q) ==
  /\ sampled[c] # NoTime
  /\ \E S \in Batches(q, sampled[c]) :
       /\ tasks' = Taking(S, sampled[c])
       /\ held' = [held EXCEPT ![c] =
                     [id \in S |-> [attempts |-> tasks[id].attempts,
                                    since |-> sampled[c]]]]
  /\ sampled' = [sampled EXCEPT ![c] = NoTime]
  /\ UNCHANGED <<now, nextID, reaper, tick, closed>>

------------------------------------------------------------------------------
(* DoneTask and RetryTask, called by the handler of consumer c.  Neither   *)
(* asks who holds the task now; both pass over ids that are gone.          *)

Settled(c, S) == held' = [held EXCEPT ![c] = Restrict(@, DOMAIN @ \ S)]

DoneTask(c, S) ==
  /\ S # {} /\ S \subseteq DOMAIN held[c]
  /\ tasks' = Restrict(tasks, DOMAIN tasks \ S)
  /\ Settled(c, S)
  /\ UNCHANGED <<now, nextID, sampled, reaper, tick, closed>>

(* What RetryTask and the reaper both do to a task.                        *)
(* Mutant: the attempt is not counted.                                     *)
ReturnedUncounted(t, start) ==
  [t EXCEPT !.taken = FALSE, !.prevStartTime = t.startTime,
            !.startTime = start]

Returned(t, start) ==
  [queueNum |-> t.queueNum, attempts |-> t.attempts + 1,
   startTime |-> start, prevStartTime |-> t.startTime,
   taken |-> FALSE, takenAt |-> t.takenAt]

Returning(S, start) ==
  [id \in DOMAIN tasks |->
     IF id \in S THEN Returned(tasks[id], start) ELSE tasks[id]]

RetryTask(c, S, start) ==
  /\ S # {} /\ S \subseteq DOMAIN held[c]
  /\ \A id \in S \cap DOMAIN tasks : tasks[id].attempts < MaxAttempts
  /\ tasks' = Returning(S, start)
  /\ Settled(c, S)
  /\ UNCHANGED <<now, nextID, sampled, reaper, tick, closed>>

(* The handler returns without having settled the rest of its batch.       *)
Abandon(c) ==
  /\ DOMAIN held[c] # {}
  /\ held' = [held EXCEPT ![c] = [id \in {} |-> {}]]
  /\ UNCHANGED <<now, tasks, nextID, sampled, reaper, tick, closed>>

------------------------------------------------------------------------------
(* The reaper goroutine and Close.                                         *)

(* Mutants: the lease runs from the start time; it ends a moment later.    *)
ExpiredByStart(t, at) == t.taken /\ at - t.startTime >= VisibilityTimeout
ExpiredLater(t, at) == t.taken /\ at - t.takenAt > VisibilityTimeout

Expired(t, at) == t.taken /\ at - t.takenAt >= VisibilityTimeout

ReaperTick ==
  /\ reaper = "select"
  /\ tick' \in tick + 1 .. now
  /\ reaper' = "locking"
  /\ UNCHANGED <<now, tasks, nextID, sampled, held, closed>>

ReapExpired ==
  /\ reaper = "locking"
  /\ tasks' = Returning({id \in DOMAIN tasks : Expired(tasks[id], tick)}, tick)
  /\ reaper' = "select"
  /\ UNCHANGED <<now, nextID, sampled, held, tick, closed>>

ReaperExit ==
  /\ reaper = "select" /\ closed
  /\ reaper' = "exited"
  /\ UNCHANGED <<now, tasks, nextID, sampled, held, tick, closed>>

(* Close is called once: a second close(s.done) panics.  The rest of Close *)
(* waits for the reaper and changes nothing.                               *)
Close ==
  /\ ~closed
  /\ closed' = TRUE
  /\ UNCHANGED <<now, tasks, nextID, sampled, held, reaper, tick>>

------------------------------------------------------------------------------
Producer == \E q \in Queues, req \in Requests, at \in 0..now : PutTask(q, req, at)

Consumer(c) ==
  \/ BeginGetTask(c)
  \/ \E q \in Queues : FinishGetTask(c, q)
  \/ \E S \in SUBSET DOMAIN held[c] : DoneTask(c, S)
  \/ Abandon(c)

Retry(c) ==
  \E S \in SUBSET DOMAIN held[c], d \in RetryDelays : RetryTask(c, S, now + d)

Reaper == ReaperTick \/ ReapExpired \/ ReaperExit

Next ==
  \/ Tick
  \/ Producer
  \/ \E c \in Consumers : Consumer(c) \/ Retry(c)
  \/ Reaper
  \/ Close

Spec == Init /\ [][Next]_vars

(* The reaper goroutine keeps running, and the clock does not stop.        *)
FairSpec ==
  /\ Spec
  /\ WF_vars(Tick) /\ WF_vars(ReaperTick) /\ WF_vars(ReapExpired)

(* Handlers that retry a task only within its visibility timeout: what the *)
(* code leaves to them, since RetryTask does not check it.                 *)
Unexpired(c, id) == now < held[c][id].since + VisibilityTimeout

RetryInTime(c) ==
  \E S \in SUBSET DOMAIN held[c], d \in RetryDelays :
    /\ \A id \in S : Unexpired(c, id)
    /\ RetryTask(c, S, now + d)

DisciplinedNext ==
  \/ Tick
  \/ Producer
  \/ \E c \in Consumers : Consumer(c) \/ RetryInTime(c)
  \/ Reaper
  \/ Close

DisciplinedSpec == Init /\ [][DisciplinedNext]_vars

------------------------------------------------------------------------------
(* The variables have the types of the fields they stand for, and every id *)
(* in the map or in a handler's slice was given out by PutTask.            *)
TasksType ==
  /\ nextID \in Nat \ {0}
  /\ DOMAIN tasks \subseteq 1..(nextID - 1)
  /\ tasks \in [DOMAIN tasks -> MemTask]

HeldType ==
  /\ held = [c \in Consumers |-> held[c]]
  /\ \A c \in Consumers :
       /\ DOMAIN held[c] \subseteq 1..(nextID - 1)
       /\ held[c] \in [DOMAIN held[c] -> Handle]

TypeOK ==
  /\ now \in Nat
  /\ TasksType
  /\ HeldType
  /\ sampled \in [Consumers -> Nat \cup {NoTime}]
  /\ reaper \in {"select", "locking", "exited"}
  /\ tick \in Nat
  /\ closed \in BOOLEAN

(* Consumer c is the one the task counts as taken by.                      *)
Current(c, id) ==
  /\ id \in DOMAIN held[c] /\ id \in DOMAIN tasks
  /\ held[c][id].attempts = tasks[id].attempts

(* The Attempts a consumer was given never runs ahead of the task's, and   *)
(* as long as they are equal the task is still taken by that very GetTask: *)
(* whatever returns a task (RetryTask by anyone, the reaper) outdates every *)
(* copy of it that is out.                                                 *)
AttemptsOutdateCopies ==
  \A c \in Consumers : \A id \in DOMAIN held[c] \cap DOMAIN tasks :
    /\ held[c][id].attempts <= tasks[id].attempts
    /\ Current(c, id) => /\ tasks[id].taken
                         /\ tasks[id].takenAt = held[c][id].since

(* Two consumers that work on one task at the same time (after a           *)
(* visibility timeout, or a late RetryTask) were given different Attempts: *)
(* (ID, Attempts) is a fencing token a handler can use against the double. *)
AttemptsTellCopiesApart ==
  \A c1, c2 \in Consumers : \A id \in DOMAIN held[c1] \cap DOMAIN held[c2] :
    c1 # c2 => held[c1][id].attempts # held[c2][id].attempts

(* The reaper takes a task from its current consumer only when the         *)
(* visibility timeout has really passed since that consumer's GetTask,     *)
(* however old the tick it acts on and however late GetTask got the lock.  *)
ReaperHonoursLease ==
  [][\A c \in Consumers : \A id \in DOMAIN held[c] :
       (Current(c, id) /\ reaper = "locking" /\ reaper' = "select"
          /\ tasks'[id] # tasks[id])
       => now >= held[c][id].since + VisibilityTimeout]_vars

(* No two consumers hold one task with a visibility timeout that has not   *)
(* passed for either: storage.go:12-13, "will not be returned to other     *)
(* consumers until the visibility timeout expires".                        *)
LeasesExclusive ==
  \A c1, c2 \in Consumers : \A id \in DOMAIN held[c1] \cap DOMAIN held[c2] :
    c1 # c2 => ~(Unexpired(c1, id) /\ Unexpired(c2, id))

(* A task whose handler returned without settling it, or never returns,    *)
(* comes back to the queue, unless storage was closed.  The clock stops at *)
(* MaxTime, so the tasks meant are those whose timeout ends by then and    *)
(* the ticks of the reaper must not be used up.                            *)
TakenTasksComeBack ==
  \A id \in 1..MaxTasks :
    ( /\ id \in DOMAIN tasks
      /\ tasks[id].taken /\ tasks[id].takenAt + VisibilityTimeout <= MaxTime
      /\ tick < MaxTime \/ reaper = "locking" )
    ~> (closed \/ id \notin DOMAIN tasks \/ ~tasks[id].taken)

------------------------------------------------------------------------------
(* The storage implements TaskQueue.                                       *)

StatusOf(t) ==
  IF t.taken THEN "taken" ELSE IF t.startTime > now THEN "delayed" ELSE "ready"

AsLive(t) ==
  [queueNum |-> t.queueNum, status |-> StatusOf(t), attempts |-> t.attempts]

Live == [id \in DOMAIN tasks |-> AsLive(tasks[id])]

TQ == INSTANCE TaskQueue WITH
        Ids <- 1..MaxTasks, accepted <- 1..(nextID - 1), live <- Live

(* A task leaves storage only by DoneTask, is handed out only when it is   *)
(* due and not taken, and every return of a taken task counts one attempt: *)
(* the promises of queue.Storage, kept by every step of MemoryStorage.     *)
ImplementsTaskQueue == TQ!Spec
=============================================================================
