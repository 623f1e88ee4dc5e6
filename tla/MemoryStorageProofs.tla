------------------------- MODULE MemoryStorageProofs -------------------------
(***************************************************************************)
(* Theorems about MemoryStorage, for any number of consumers, queues and   *)
(* tasks, any visibility timeout and any batch size.                       *)
(***************************************************************************)
EXTENDS MemoryStorage, TLAPS

(* What a change of the map from old to new keeps of its type: every entry *)
(* is still a memTask.                                                     *)
LEMMA ReturnedType ==
  ASSUME NEW t \in MemTask, NEW start \in Nat
  PROVE  /\ Returned(t, start) \in MemTask
         /\ Returned(t, start).attempts = t.attempts + 1
         /\ Returned(t, start).taken = FALSE
         /\ Returned(t, start).startTime = start
         /\ Returned(t, start).queueNum = t.queueNum
  BY DEF Returned, MemTask, NoTime

(* The variables keep the types of the fields they stand for.              *)
THEOREM TypeCorrect == Spec => []TypeOK
<1>1. Init => TypeOK
  <2> SUFFICES ASSUME Init
               PROVE  TypeOK
    OBVIOUS
  <2>1. TasksType
    BY DEF Init, TasksType
  <2>2. HeldType
    BY DEF Init, HeldType
  <2>3. QED
    BY <2>1, <2>2 DEF Init, TypeOK
<1>2. TypeOK /\ [Next]_vars => TypeOK'
  <2> SUFFICES ASSUME TypeOK, [Next]_vars
               PROVE  TypeOK'
    OBVIOUS
  <2> USE ConstantsAssumption
  <2>1. CASE Tick
    BY <2>1 DEF Tick, TypeOK, TasksType, HeldType
  <2>2. ASSUME NEW q \in Queues, NEW req \in Requests, NEW at \in 0..now,
               PutTask(q, req, at)
        PROVE  TypeOK'
    <3>1. StartOf(req, at) \in Nat
      BY DEF StartOf, Request, TypeOK
    <3>2. tasks' \in [DOMAIN tasks \cup {nextID} -> MemTask]
      BY <2>2, <3>1 DEF PutTask, MemTask, TypeOK, TasksType
    <3>3. TasksType'
      <4>1. nextID' = nextID + 1 /\ nextID \in Nat \ {0}
        BY <2>2 DEF PutTask, TypeOK, TasksType
      <4>2. DOMAIN tasks' = DOMAIN tasks \cup {nextID}
        BY <3>2
      <4>3. DOMAIN tasks' \subseteq 1..(nextID' - 1)
        BY <4>1, <4>2 DEF TypeOK, TasksType
      <4>4. QED
        BY <3>2, <4>1, <4>2, <4>3 DEF TasksType
    <3>4. HeldType'
      BY <2>2 DEF PutTask, TypeOK, TasksType, HeldType
    <3>5. QED
      BY <2>2, <3>3, <3>4 DEF PutTask, TypeOK
  <2>3. ASSUME NEW c \in Consumers, BeginGetTask(c)
        PROVE  TypeOK'
    BY <2>3 DEF BeginGetTask, TypeOK, TasksType, HeldType
  <2>4. ASSUME NEW c \in Consumers, NEW q \in Queues, FinishGetTask(c, q)
        PROVE  TypeOK'
    <3>1. PICK S \in Batches(q, sampled[c]) :
            /\ tasks' = Taking(S, sampled[c])
            /\ held' = [held EXCEPT ![c] =
                          [id \in S |-> [attempts |-> tasks[id].attempts,
                                         since |-> sampled[c]]]]
      BY <2>4 DEF FinishGetTask
    <3>2. S \subseteq DOMAIN tasks /\ sampled[c] \in Nat
      BY <2>4 DEF FinishGetTask, Batches, Eligible, TypeOK
    <3>3. tasks' \in [DOMAIN tasks -> MemTask]
      <4>1. \A id \in DOMAIN tasks : tasks[id] \in MemTask
        BY DEF TypeOK, TasksType
      <4>2. QED
        BY <3>1, <3>2, <4>1 DEF Taking, MemTask
    <3>4. TasksType'
      BY <2>4, <3>3 DEF FinishGetTask, TypeOK, TasksType
    <3>5. [id \in S |-> [attempts |-> tasks[id].attempts, since |-> sampled[c]]]
            \in [S -> Handle]
      BY <3>2 DEF Handle, MemTask, TypeOK, TasksType
    <3>6. HeldType'
      BY <2>4, <3>1, <3>2, <3>5 DEF FinishGetTask, TypeOK, TasksType, HeldType
    <3>7. QED
      BY <2>4, <3>4, <3>6 DEF FinishGetTask, TypeOK
  <2>5. ASSUME NEW c \in Consumers, NEW S \in SUBSET DOMAIN held[c],
               DoneTask(c, S)
        PROVE  TypeOK'
    <3>1. TasksType'
      BY <2>5 DEF DoneTask, Restrict, TypeOK, TasksType
    <3>2. HeldType'
      BY <2>5 DEF DoneTask, Settled, Restrict, TypeOK, HeldType
    <3>3. QED
      BY <2>5, <3>1, <3>2 DEF DoneTask, TypeOK
  <2>6. ASSUME NEW c \in Consumers, NEW S \in SUBSET DOMAIN held[c],
               NEW d \in RetryDelays, RetryTask(c, S, now + d)
        PROVE  TypeOK'
    <3>1. now + d \in Nat
      BY DEF TypeOK
    <3>2. TasksType'
      BY <2>6, <3>1, ReturnedType
      DEF RetryTask, Returning, TypeOK, TasksType
    <3>3. HeldType'
      BY <2>6 DEF RetryTask, Settled, Restrict, TypeOK, HeldType
    <3>4. QED
      BY <2>6, <3>2, <3>3 DEF RetryTask, TypeOK
  <2>7. ASSUME NEW c \in Consumers, Abandon(c)
        PROVE  TypeOK'
    <3>1. HeldType'
      BY <2>7 DEF Abandon, TypeOK, HeldType
    <3>2. QED
      BY <2>7, <3>1 DEF Abandon, TypeOK, TasksType
  <2>8. CASE ReaperTick
    BY <2>8 DEF ReaperTick, TypeOK, TasksType, HeldType
  <2>9. CASE ReapExpired
    <3>1. TasksType'
      BY <2>9, ReturnedType DEF ReapExpired, Returning, TypeOK, TasksType
    <3>2. QED
      BY <2>9, <3>1 DEF ReapExpired, TypeOK, HeldType
  <2>10. CASE ReaperExit
    BY <2>10 DEF ReaperExit, TypeOK, TasksType, HeldType
  <2>11. CASE Close
    BY <2>11 DEF Close, TypeOK, TasksType, HeldType
  <2>12. CASE UNCHANGED vars
    BY <2>12 DEF vars, TypeOK, TasksType, HeldType
  <2>13. QED
    BY <2>1, <2>2, <2>3, <2>4, <2>5, <2>6, <2>7, <2>8, <2>9, <2>10,
       <2>11, <2>12
    DEF Next, Producer, Consumer, Retry, Reaper
<1>3. QED
  BY <1>1, <1>2, PTL DEF Spec

------------------------------------------------------------------------------
(* What (ID, Attempts) says about who holds a task.  The two parts need    *)
(* each other: GetTask hands out a task that is not taken, so by the first *)
(* part every copy of it that is out carries fewer attempts.               *)
CopiesInv == AttemptsOutdateCopies /\ AttemptsTellCopiesApart

(* Every action but FinishGetTask only takes copies away from handlers, and *)
(* keeps a task as it is, removes it, or counts one attempt more.          *)
CopiesOnlyLeave ==
  \A c \in Consumers :
    /\ DOMAIN held'[c] \subseteq DOMAIN held[c]
    /\ \A id \in DOMAIN held'[c] : held'[c][id] = held[c][id]

TasksKeptOrReturned ==
  \A id \in DOMAIN tasks' \cap 1..(nextID - 1) :
    /\ id \in DOMAIN tasks
    /\ \/ tasks'[id] = tasks[id]
       \/ tasks'[id].attempts = tasks[id].attempts + 1

LEMMA CopiesInvKept ==
  ASSUME TypeOK, CopiesInv, CopiesOnlyLeave, TasksKeptOrReturned
  PROVE  CopiesInv'
<1>1. ASSUME NEW c \in Consumers, NEW id \in DOMAIN held'[c] \cap DOMAIN tasks'
      PROVE  /\ held'[c][id].attempts <= tasks'[id].attempts
             /\ held'[c][id].attempts = tasks'[id].attempts =>
                  /\ tasks'[id].taken
                  /\ tasks'[id].takenAt = held'[c][id].since
  <2>1. id \in DOMAIN held[c] /\ held'[c][id] = held[c][id] /\ id \in 1..(nextID - 1)
    BY DEF CopiesOnlyLeave, TypeOK, HeldType
  <2>2. id \in DOMAIN tasks /\ tasks[id].attempts \in Nat /\ held[c][id].attempts \in Nat
    BY <2>1 DEF TasksKeptOrReturned, TypeOK, TasksType, HeldType, MemTask, Handle
  <2>3. /\ held[c][id].attempts <= tasks[id].attempts
        /\ held[c][id].attempts = tasks[id].attempts =>
             tasks[id].taken /\ tasks[id].takenAt = held[c][id].since
    BY <2>1, <2>2 DEF CopiesInv, AttemptsOutdateCopies, Current
  <2>4. CASE tasks'[id] = tasks[id]
    BY <2>1, <2>3, <2>4
  <2>5. CASE tasks'[id].attempts = tasks[id].attempts + 1
    BY <2>1, <2>2, <2>3, <2>5
  <2>6. QED
    BY <2>1, <2>4, <2>5 DEF TasksKeptOrReturned
<1>2. AttemptsOutdateCopies'
  BY <1>1 DEF AttemptsOutdateCopies, Current
<1>3. AttemptsTellCopiesApart'
  BY DEF CopiesInv, AttemptsTellCopiesApart, CopiesOnlyLeave
<1>4. QED
  BY <1>2, <1>3 DEF CopiesInv

LEMMA CopiesInvStep == TypeOK /\ CopiesInv /\ [Next]_vars => CopiesInv'
<1> SUFFICES ASSUME TypeOK, CopiesInv, [Next]_vars
             PROVE  CopiesInv'
  OBVIOUS
<1>1. ASSUME UNCHANGED <<tasks, held>>
      PROVE  CopiesInv'
  BY <1>1 DEF CopiesInv, AttemptsOutdateCopies, AttemptsTellCopiesApart, Current
<1>2. ASSUME NEW q \in Queues, NEW req \in Requests, NEW at \in 0..now,
             PutTask(q, req, at)
      PROVE  CopiesInv'
  <2>1. CopiesOnlyLeave
    BY <1>2 DEF PutTask, CopiesOnlyLeave
  <2>2. TasksKeptOrReturned
    BY <1>2 DEF PutTask, TasksKeptOrReturned, TypeOK, TasksType
  <2>3. QED
    BY <2>1, <2>2, CopiesInvKept
<1>3. ASSUME NEW c \in Consumers, NEW q \in Queues, FinishGetTask(c, q)
      PROVE  CopiesInv'
  <2>1. PICK S \in Batches(q, sampled[c]) :
          /\ tasks' = Taking(S, sampled[c])
          /\ held' = [held EXCEPT ![c] =
                        [id \in S |-> [attempts |-> tasks[id].attempts,
                                       since |-> sampled[c]]]]
    BY <1>3 DEF FinishGetTask
  <2>2. S \subseteq DOMAIN tasks /\ \A id \in S : ~tasks[id].taken
    BY DEF Batches, Eligible, Ready
  <2>3. /\ DOMAIN tasks' = DOMAIN tasks
        /\ \A id \in DOMAIN tasks :
             /\ tasks'[id].attempts = tasks[id].attempts
             /\ id \in S => tasks'[id].taken /\ tasks'[id].takenAt = sampled[c]
             /\ id \notin S => tasks'[id] = tasks[id]
    BY <2>1 DEF Taking, TypeOK, TasksType, MemTask
  <2>4. /\ DOMAIN held'[c] = S
        /\ \A id \in S : /\ held'[c][id].attempts = tasks[id].attempts
                          /\ held'[c][id].since = sampled[c]
    BY <2>1 DEF TypeOK, HeldType
  <2>5. \A d \in Consumers \ {c} : held'[d] = held[d]
    BY <2>1 DEF TypeOK, HeldType
  <2>6. ASSUME NEW d \in Consumers \ {c}, NEW id \in S \cap DOMAIN held[d]
        PROVE  held[d][id].attempts < tasks[id].attempts
    <3>1. /\ held[d][id].attempts <= tasks[id].attempts
          /\ held[d][id].attempts # tasks[id].attempts
      BY <2>2, <2>6 DEF CopiesInv, AttemptsOutdateCopies, Current
    <3>2. held[d][id].attempts \in Nat /\ tasks[id].attempts \in Nat
      BY <2>2, <2>6 DEF TypeOK, TasksType, HeldType, MemTask, Handle
    <3>3. QED
      BY <3>1, <3>2
  <2>7. AttemptsOutdateCopies'
    <3>1. ASSUME NEW d \in Consumers, NEW id \in DOMAIN held'[d] \cap DOMAIN tasks'
          PROVE  /\ held'[d][id].attempts <= tasks'[id].attempts
                 /\ held'[d][id].attempts = tasks'[id].attempts =>
                      /\ tasks'[id].taken
                      /\ tasks'[id].takenAt = held'[d][id].since
      <4>1. CASE d = c
        <5>1. tasks[id].attempts \in Nat
          BY <2>3, <3>1 DEF TypeOK, TasksType, MemTask
        <5>2. QED
          BY <2>2, <2>3, <2>4, <3>1, <4>1, <5>1
      <4>2. CASE d # c /\ id \in S
        <5>1. id \in DOMAIN held[d] /\ held'[d] = held[d]
          BY <2>5, <3>1, <4>2
        <5>2. tasks'[id].attempts = tasks[id].attempts
          BY <2>2, <2>3, <4>2
        <5>3. held[d][id].attempts < tasks[id].attempts
          BY <2>6, <4>2, <5>1
        <5>4. held[d][id].attempts \in Nat /\ tasks[id].attempts \in Nat
          BY <2>2, <4>2, <5>1 DEF TypeOK, TasksType, HeldType, MemTask, Handle
        <5>5. QED
          BY <5>1, <5>2, <5>3, <5>4
      <4>3. CASE d # c /\ id \notin S
        BY <2>3, <2>5, <3>1, <4>3 DEF CopiesInv, AttemptsOutdateCopies, Current
      <4>4. QED
        BY <4>1, <4>2, <4>3
    <3>2. QED
      BY <3>1 DEF AttemptsOutdateCopies, Current
  <2>8. AttemptsTellCopiesApart'
    <3>1. ASSUME NEW d \in Consumers \ {c}, NEW id \in S \cap DOMAIN held[d]
          PROVE  held[d][id].attempts # tasks[id].attempts
      <4>1. held[d][id].attempts \in Nat /\ tasks[id].attempts \in Nat
        BY <2>2, <3>1 DEF TypeOK, TasksType, HeldType, MemTask, Handle
      <4>2. QED
        BY <2>6, <3>1, <4>1
    <3>2. QED
      BY <2>4, <2>5, <3>1 DEF CopiesInv, AttemptsTellCopiesApart
  <2>9. QED
    BY <2>7, <2>8 DEF CopiesInv
<1>4. ASSUME NEW c \in Consumers, NEW S \in SUBSET DOMAIN held[c],
             DoneTask(c, S)
      PROVE  CopiesInv'
  <2>1. CopiesOnlyLeave
    BY <1>4 DEF DoneTask, Settled, Restrict, CopiesOnlyLeave, TypeOK, HeldType
  <2>2. TasksKeptOrReturned
    BY <1>4 DEF DoneTask, Restrict, TasksKeptOrReturned, TypeOK, TasksType
  <2>3. QED
    BY <2>1, <2>2, CopiesInvKept
<1>5. ASSUME NEW c \in Consumers, NEW S \in SUBSET DOMAIN held[c],
             NEW d \in RetryDelays, RetryTask(c, S, now + d)
      PROVE  CopiesInv'
  <2>1. CopiesOnlyLeave
    BY <1>5 DEF RetryTask, Settled, Restrict, CopiesOnlyLeave, TypeOK, HeldType
  <2>2. TasksKeptOrReturned
    BY <1>5 DEF RetryTask, Returning, Returned, TasksKeptOrReturned
  <2>3. QED
    BY <2>1, <2>2, CopiesInvKept
<1>6. ASSUME NEW c \in Consumers, Abandon(c)
      PROVE  CopiesInv'
  <2>1. CopiesOnlyLeave
    BY <1>6 DEF Abandon, CopiesOnlyLeave, TypeOK, HeldType
  <2>2. TasksKeptOrReturned
    BY <1>6 DEF Abandon, TasksKeptOrReturned
  <2>3. QED
    BY <2>1, <2>2, CopiesInvKept
<1>7. CASE ReapExpired
  <2>1. CopiesOnlyLeave
    BY <1>7 DEF ReapExpired, CopiesOnlyLeave
  <2>2. TasksKeptOrReturned
    BY <1>7 DEF ReapExpired, Returning, Returned, TasksKeptOrReturned
  <2>3. QED
    BY <2>1, <2>2, CopiesInvKept
<1>8. CASE \/ Tick \/ ReaperTick \/ ReaperExit \/ Close \/ UNCHANGED vars
           \/ \E c \in Consumers : BeginGetTask(c)
  BY <1>1, <1>8
  DEF Tick, ReaperTick, ReaperExit, Close, vars, BeginGetTask
<1>9. QED
  BY <1>2, <1>3, <1>4, <1>5, <1>6, <1>7, <1>8
  DEF Next, Producer, Consumer, Retry, Reaper

LEMMA CopiesInvInit == Init => CopiesInv
  BY DEF Init, CopiesInv, AttemptsOutdateCopies, AttemptsTellCopiesApart

(* Whatever returns a task outdates every copy of it that is out, and two  *)
(* consumers with the same task were given different Attempts.             *)
THEOREM FencingByAttempts == Spec => [](AttemptsOutdateCopies /\ AttemptsTellCopiesApart)
<1>1. CopiesInv => AttemptsOutdateCopies /\ AttemptsTellCopiesApart
  BY DEF CopiesInv
<1>2. QED
  BY <1>1, CopiesInvInit, CopiesInvStep, TypeCorrect, PTL DEF Spec

(* The first of the two, on which the accepting of late answers depends: a *)
(* task that is not taken has been given back since each copy was made.    *)
COROLLARY OldCopiesAreOutdated == Spec => []AttemptsOutdateCopies
<1>1. QED
  BY FencingByAttempts, PTL

------------------------------------------------------------------------------
(* The tick the reaper acts on is an instant of the past.                  *)
TickPast == tick <= now

LEMMA TickPastInvariant == Spec => []TickPast
<1>1. Init => TickPast
  BY DEF Init, TickPast
<1>2. TypeOK /\ TickPast /\ [Next]_vars => TickPast'
  <2> SUFFICES ASSUME TypeOK, TickPast, [Next]_vars
               PROVE  TickPast'
    OBVIOUS
  <2>1. CASE ReaperTick
    BY <2>1 DEF ReaperTick, TickPast, TypeOK
  <2>2. CASE Tick
    BY <2>2 DEF Tick, TickPast, TypeOK
  <2>3. ASSUME UNCHANGED <<tick, now>>
        PROVE  TickPast'
    BY <2>3 DEF TickPast
  <2>4. QED
    BY <2>1, <2>2, <2>3
    DEF Next, vars, Producer, PutTask, Consumer, Retry, Reaper,
        BeginGetTask, FinishGetTask, DoneTask, RetryTask, Abandon,
        ReapExpired, ReaperExit, Close
<1>3. QED
  BY <1>1, <1>2, TypeCorrect, PTL DEF Spec

LEMMA ReapsOnlyExpired ==
  ASSUME TypeOK, AttemptsOutdateCopies, TickPast, ReapExpired,
         NEW c \in Consumers, NEW id \in DOMAIN held[c],
         Current(c, id), tasks'[id] # tasks[id]
  PROVE  now >= held[c][id].since + VisibilityTimeout
<1>1. id \in DOMAIN tasks /\ tasks[id].taken /\ tasks[id].takenAt = held[c][id].since
  BY DEF Current, AttemptsOutdateCopies
<1>2. Expired(tasks[id], tick)
  BY <1>1 DEF ReapExpired, Returning
<1>3. held[c][id].since \in Nat /\ tick \in Nat /\ now \in Nat /\ tick <= now
  BY DEF TypeOK, HeldType, Handle, TickPast
<1>4. tick - held[c][id].since >= VisibilityTimeout
  BY <1>1, <1>2 DEF Expired
<1>5. QED
  BY <1>3, <1>4, ConstantsAssumption

(* The reaper ends no consumer's hold on a task before the visibility      *)
(* timeout has passed since the GetTask of that consumer.                  *)
THEOREM ReaperHonoursLeases == Spec => ReaperHonoursLease
<1>1. TypeOK /\ AttemptsOutdateCopies /\ TickPast /\ [Next]_vars =>
        [\A c \in Consumers : \A id \in DOMAIN held[c] :
           (Current(c, id) /\ reaper = "locking" /\ reaper' = "select"
              /\ tasks'[id] # tasks[id])
           => now >= held[c][id].since + VisibilityTimeout]_vars
  <2> SUFFICES ASSUME TypeOK, AttemptsOutdateCopies, TickPast, [Next]_vars,
                      NEW c \in Consumers, NEW id \in DOMAIN held[c],
                      Current(c, id), reaper = "locking", reaper' = "select",
                      tasks'[id] # tasks[id]
               PROVE  now >= held[c][id].since + VisibilityTimeout
    OBVIOUS
  <2>1. ReapExpired
    BY DEF Next, vars, Tick, Producer, PutTask, Consumer, Retry, Reaper,
           BeginGetTask, FinishGetTask, DoneTask, RetryTask, Abandon,
           ReaperTick, ReaperExit, Close
  <2>2. QED
    BY <2>1, ReapsOnlyExpired
<1>2. QED
  BY <1>1, TypeCorrect, FencingByAttempts, TickPastInvariant, PTL
  DEF Spec, ReaperHonoursLease

------------------------------------------------------------------------------
(* Handlers that retry in time.  An unexpired copy of a task in storage is *)
(* the current one: nobody but its holder could have returned the task.    *)
UnexpiredIsCurrent ==
  \A c \in Consumers : \A id \in DOMAIN held[c] \cap DOMAIN tasks :
    Unexpired(c, id) => Current(c, id)

LeaseInv == UnexpiredIsCurrent /\ LeasesExclusive

(* A task that a step changes is one of which no unexpired copy is left.   *)
ChangesOnlyUnleased ==
  \A id \in DOMAIN tasks' \cap 1..(nextID - 1) :
    /\ id \in DOMAIN tasks
    /\ \/ tasks'[id] = tasks[id]
       \/ \A c \in Consumers : id \in DOMAIN held'[c] => ~Unexpired(c, id)

LEMMA LeaseInvKept ==
  ASSUME TypeOK, LeaseInv, CopiesOnlyLeave, ChangesOnlyUnleased,
         now' = now \/ now' = now + 1
  PROVE  LeaseInv'
<1>1. ASSUME NEW c \in Consumers, NEW id \in DOMAIN held'[c], Unexpired(c, id)'
      PROVE  /\ id \in DOMAIN held[c] /\ held'[c][id] = held[c][id]
             /\ Unexpired(c, id)
  <2>1. id \in DOMAIN held[c] /\ held'[c][id] = held[c][id]
    BY DEF CopiesOnlyLeave
  <2>2. held[c][id].since \in Nat /\ now \in Nat
    BY <2>1 DEF TypeOK, HeldType, Handle
  <2>3. QED
    BY <1>1, <2>1, <2>2, ConstantsAssumption DEF Unexpired
<1>2. UnexpiredIsCurrent'
  <2> SUFFICES ASSUME NEW c \in Consumers,
                      NEW id \in DOMAIN held'[c] \cap DOMAIN tasks',
                      Unexpired(c, id)'
               PROVE  Current(c, id)'
    BY DEF UnexpiredIsCurrent
  <2>1. /\ id \in DOMAIN held[c] /\ held'[c][id] = held[c][id]
        /\ Unexpired(c, id) /\ id \in 1..(nextID - 1)
    BY <1>1 DEF TypeOK, HeldType
  <2>2. id \in DOMAIN tasks /\ tasks'[id] = tasks[id]
    BY <2>1 DEF ChangesOnlyUnleased
  <2>3. QED
    BY <2>1, <2>2 DEF LeaseInv, UnexpiredIsCurrent, Current
<1>3. LeasesExclusive'
  BY <1>1 DEF LeaseInv, LeasesExclusive
<1>4. QED
  BY <1>2, <1>3 DEF LeaseInv

LEMMA LeaseInvStep ==
  TypeOK /\ CopiesInv /\ TickPast /\ LeaseInv /\ [DisciplinedNext]_vars => LeaseInv'
<1> SUFFICES ASSUME TypeOK, CopiesInv, TickPast, LeaseInv, [DisciplinedNext]_vars
             PROVE  LeaseInv'
  OBVIOUS
<1>1. ASSUME UNCHANGED tasks, now' = now \/ now' = now + 1, CopiesOnlyLeave
      PROVE  LeaseInv'
  <2>1. ChangesOnlyUnleased
    BY <1>1 DEF ChangesOnlyUnleased
  <2>2. QED
    BY <1>1, <2>1, LeaseInvKept
<1>2. ASSUME NEW q \in Queues, NEW req \in Requests, NEW at \in 0..now,
             PutTask(q, req, at)
      PROVE  LeaseInv'
  <2>1. CopiesOnlyLeave /\ now' = now
    BY <1>2 DEF PutTask, CopiesOnlyLeave
  <2>2. ChangesOnlyUnleased
    BY <1>2 DEF PutTask, ChangesOnlyUnleased, TypeOK, TasksType
  <2>3. QED
    BY <2>1, <2>2, LeaseInvKept
<1>3. ASSUME NEW c \in Consumers, NEW q \in Queues, FinishGetTask(c, q)
      PROVE  LeaseInv'
  <2>1. PICK S \in Batches(q, sampled[c]) :
          /\ tasks' = Taking(S, sampled[c])
          /\ held' = [held EXCEPT ![c] =
                        [id \in S |-> [attempts |-> tasks[id].attempts,
                                       since |-> sampled[c]]]]
    BY <1>3 DEF FinishGetTask
  <2>2. S \subseteq DOMAIN tasks /\ \A id \in S : ~tasks[id].taken
    BY DEF Batches, Eligible, Ready
  <2>3. /\ DOMAIN tasks' = DOMAIN tasks
        /\ \A id \in DOMAIN tasks : tasks'[id].attempts = tasks[id].attempts
    BY <2>1 DEF Taking, TypeOK, TasksType, MemTask
  <2>4. /\ DOMAIN held'[c] = S
        /\ \A id \in S : held'[c][id].attempts = tasks[id].attempts
    BY <2>1 DEF TypeOK, HeldType
  <2>5. (\A d \in Consumers \ {c} : held'[d] = held[d]) /\ now' = now
    BY <1>3, <2>1 DEF FinishGetTask, TypeOK, HeldType
  <2>6. ASSUME NEW d \in Consumers \ {c}, NEW id \in S \cap DOMAIN held[d]
        PROVE  ~Unexpired(d, id)
    <3>1. ~Current(d, id)
      BY <2>2, <2>6 DEF CopiesInv, AttemptsOutdateCopies
    <3>2. QED
      BY <2>2, <2>6, <3>1 DEF LeaseInv, UnexpiredIsCurrent
  <2>7. \A d \in Consumers \ {c} : \A id \in DOMAIN held[d] :
          Unexpired(d, id)' <=> Unexpired(d, id)
    BY <2>5 DEF Unexpired
  <2>8. UnexpiredIsCurrent'
    <3> SUFFICES ASSUME NEW d \in Consumers,
                        NEW id \in DOMAIN held'[d] \cap DOMAIN tasks',
                        Unexpired(d, id)'
                 PROVE  Current(d, id)'
      BY DEF UnexpiredIsCurrent
    <3>1. CASE d = c
      BY <2>2, <2>3, <2>4, <3>1 DEF Current
    <3>2. CASE d # c
      BY <2>3, <2>5, <2>7, <3>2 DEF LeaseInv, UnexpiredIsCurrent, Current
    <3>3. QED
      BY <3>1, <3>2
  <2>9. LeasesExclusive'
    BY <2>4, <2>5, <2>6, <2>7 DEF LeaseInv, LeasesExclusive
  <2>10. QED
    BY <2>8, <2>9 DEF LeaseInv
<1>4. ASSUME NEW c \in Consumers, NEW S \in SUBSET DOMAIN held[c],
             DoneTask(c, S)
      PROVE  LeaseInv'
  <2>1. CopiesOnlyLeave /\ now' = now
    BY <1>4 DEF DoneTask, Settled, Restrict, CopiesOnlyLeave, TypeOK, HeldType
  <2>2. ChangesOnlyUnleased
    BY <1>4 DEF DoneTask, Restrict, ChangesOnlyUnleased
  <2>3. QED
    BY <2>1, <2>2, LeaseInvKept
<1>5. ASSUME NEW c \in Consumers, NEW S \in SUBSET DOMAIN held[c],
             NEW d \in RetryDelays, \A id \in S : Unexpired(c, id),
             RetryTask(c, S, now + d)
      PROVE  LeaseInv'
  <2>1. CopiesOnlyLeave /\ now' = now
    BY <1>5 DEF RetryTask, Settled, Restrict, CopiesOnlyLeave, TypeOK, HeldType
  <2>2. /\ DOMAIN tasks' = DOMAIN tasks
        /\ \A id \in DOMAIN tasks \ S : tasks'[id] = tasks[id]
    BY <1>5 DEF RetryTask, Returning
  <2>3. \A id \in S : id \notin DOMAIN held'[c]
    BY <1>5 DEF RetryTask, Settled, Restrict, TypeOK, HeldType
  <2>4. ASSUME NEW id \in S, NEW e \in Consumers, id \in DOMAIN held'[e]
        PROVE  ~Unexpired(e, id)
    <3>1. e # c /\ id \in DOMAIN held[e] \cap DOMAIN held[c]
      BY <2>1, <2>3, <2>4 DEF CopiesOnlyLeave
    <3>2. QED
      BY <1>5, <3>1 DEF LeaseInv, LeasesExclusive
  <2>5. ChangesOnlyUnleased
    BY <2>2, <2>4 DEF ChangesOnlyUnleased
  <2>6. QED
    BY <2>1, <2>5, LeaseInvKept
<1>6. ASSUME NEW c \in Consumers, Abandon(c)
      PROVE  LeaseInv'
  <2>1. CopiesOnlyLeave
    BY <1>6 DEF Abandon, CopiesOnlyLeave, TypeOK, HeldType
  <2>2. QED
    BY <1>1, <1>6, <2>1 DEF Abandon
<1>7. CASE ReapExpired
  <2>1. CopiesOnlyLeave /\ now' = now /\ held' = held /\ DOMAIN tasks' = DOMAIN tasks
    BY <1>7 DEF ReapExpired, Returning, CopiesOnlyLeave
  <2>2. ASSUME NEW id \in DOMAIN tasks, tasks'[id] # tasks[id],
               NEW c \in Consumers, id \in DOMAIN held[c], Unexpired(c, id)
        PROVE  FALSE
    <3>1. Current(c, id)
      BY <2>2 DEF LeaseInv, UnexpiredIsCurrent
    <3>2. now >= held[c][id].since + VisibilityTimeout
      BY <1>7, <2>2, <3>1, ReapsOnlyExpired DEF CopiesInv
    <3>3. held[c][id].since \in Nat /\ now \in Nat
      BY <2>2 DEF TypeOK, HeldType, Handle
    <3>4. QED
      BY <2>2, <3>2, <3>3, ConstantsAssumption DEF Unexpired
  <2>3. ChangesOnlyUnleased
    BY <2>1, <2>2 DEF ChangesOnlyUnleased
  <2>4. QED
    BY <2>1, <2>3, LeaseInvKept
<1>8. CASE \/ Tick \/ ReaperTick \/ ReaperExit \/ Close \/ UNCHANGED vars
           \/ \E c \in Consumers : BeginGetTask(c)
  <2>1. UNCHANGED <<tasks, held>> /\ (now' = now \/ now' = now + 1)
    BY <1>8 DEF Tick, ReaperTick, ReaperExit, Close, vars, BeginGetTask
  <2>2. CopiesOnlyLeave
    BY <2>1 DEF CopiesOnlyLeave
  <2>3. QED
    BY <1>1, <2>1, <2>2
<1>9. QED
  BY <1>2, <1>3, <1>4, <1>5, <1>6, <1>7, <1>8
  DEF DisciplinedNext, Producer, Consumer, RetryInTime, Reaper

(* As long as every handler retries a task within its visibility timeout,  *)
(* no task is with two consumers whose timeout has not passed.             *)
THEOREM DisciplinedLeasesExclusive == DisciplinedSpec => []LeasesExclusive
<1>1. [DisciplinedNext]_vars => [Next]_vars
  BY DEF DisciplinedNext, Next, RetryInTime, Retry
<1>2. DisciplinedSpec => Spec
  BY <1>1, PTL DEF DisciplinedSpec, Spec
<1>3. Init => LeaseInv
  BY DEF Init, LeaseInv, UnexpiredIsCurrent, LeasesExclusive
<1>4. AttemptsOutdateCopies /\ AttemptsTellCopiesApart => CopiesInv
  BY DEF CopiesInv
<1>5. LeaseInv => LeasesExclusive
  BY DEF LeaseInv
<1>6. QED
  BY <1>2, <1>3, <1>4, <1>5, LeaseInvStep, TypeCorrect, FencingByAttempts,
     TickPastInvariant, PTL DEF DisciplinedSpec
==============================================================================
