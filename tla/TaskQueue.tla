------------------------------ MODULE TaskQueue ------------------------------
(***************************************************************************)
(* What the interface queue.Storage promises (pkg/queue/storage.go),       *)
(* whatever implements it: a task that PutTask accepted stays in storage   *)
(* until DoneTask names it; only a task that is ready is handed out, and   *)
(* handing it out marks it as taken; every return to the queue, asked for  *)
(* by RetryTask or forced by the visibility timeout, counts one attempt.   *)
(*                                                                         *)
(* The specification has no clock.  A start time in the future is the      *)
(* status "delayed", and the passing of time is the action BecomeDue.      *)
(***************************************************************************)
EXTENDS Naturals

CONSTANTS
  Ids,            \* the ids storage may give to tasks
  Queues          \* the queue numbers in use

VARIABLES
  accepted,       \* ids of all the tasks PutTask ever added
  live            \* id -> task, for the tasks that are still in storage

tqVars == <<accepted, live>>

Status == {"delayed", "ready", "taken"}
LiveTask == [queueNum : Queues, status : Status, attempts : Nat]

Having(status) == {id \in DOMAIN live : live[id].status = status}

Init ==
  /\ accepted = {}
  /\ live = [id \in {} |-> {}]

PutTask(id, q, status) ==
  /\ id \notin accepted
  /\ accepted' = accepted \cup {id}
  /\ live' = [i \in DOMAIN live \cup {id} |->
                IF i = id
                  THEN [queueNum |-> q, status |-> status, attempts |-> 0]
                  ELSE live[i]]

GetTask(q, S) ==
  /\ S \subseteq {id \in Having("ready") : live[id].queueNum = q}
  /\ live' = [id \in DOMAIN live |->
                IF id \in S THEN [live[id] EXCEPT !.status = "taken"]
                            ELSE live[id]]
  /\ UNCHANGED accepted

DoneTask(S) ==
  /\ S \subseteq DOMAIN live
  /\ live' = [id \in DOMAIN live \ S |-> live[id]]
  /\ UNCHANGED accepted

(* The tasks of S go back to the queue, each ready at once or delayed.     *)
ReturnTasks(S, status) ==
  live' = [id \in DOMAIN live |->
             IF id \in S
               THEN [queueNum |-> live[id].queueNum, status |-> status[id],
                     attempts |-> live[id].attempts + 1]
               ELSE live[id]]

RetryTask(S, status) ==
  /\ S \subseteq DOMAIN live
  /\ ReturnTasks(S, status)
  /\ UNCHANGED accepted

VisibilityExpires(S) ==
  /\ S \subseteq Having("taken")
  /\ ReturnTasks(S, [id \in S |-> "ready"])
  /\ UNCHANGED accepted

BecomeDue(S) ==
  /\ S \subseteq Having("delayed")
  /\ live' = [id \in DOMAIN live |->
                IF id \in S THEN [live[id] EXCEPT !.status = "ready"]
                            ELSE live[id]]
  /\ UNCHANGED accepted

Next ==
  \/ \E id \in Ids, q \in Queues, status \in {"delayed", "ready"} :
       PutTask(id, q, status)
  \/ \E S \in SUBSET DOMAIN live :
       \/ \E q \in Queues : GetTask(q, S)
       \/ DoneTask(S)
       \/ \E status \in [S -> {"delayed", "ready"}] : RetryTask(S, status)
       \/ VisibilityExpires(S)
       \/ BecomeDue(S)

Spec == Init /\ [][Next]_tqVars

=============================================================================
