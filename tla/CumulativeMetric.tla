-------------------------- MODULE CumulativeMetric --------------------------
(***************************************************************************)
(* pkg/reqctx/cumulative_metric.go, with the functions of context.go that  *)
(* use it: the sums a request collects.  IncCumulativeMetric and           *)
(* TimeCumulativeMetric, which any goroutine with the context of the       *)
(* request may call, work under the mutex of a ContextCumulativeMetric;    *)
(* FlushCumulativeMetric iterates over its map without, and nothing keeps  *)
(* a goroutine from inserting meanwhile.  The runtime may notice that data *)
(* race, which ends the process; when it does not, the iteration is taken  *)
(* to visit the new name or not, as Go has it for an insertion between two *)
(* of its steps.  A read of a 64 bit float is taken to be whole.           *)
(*                                                                         *)
(* Durations and increments are integers.  Module RequestChain says who    *)
(* calls when.                                                             *)
(***************************************************************************)
EXTENDS Integers

CONSTANTS
  Helpers,    \* goroutines that a handler works with
  Names,      \* the names of metrics
  Diffs,      \* what IncMetric is called with
  Durations,  \* what TimeMetric is called with
  Nobody,     \* the holder of a free mutex
  MaxCalls    \* bound: calls of IncMetric and TimeMetric for a request

ASSUME MetricAssumption ==
  /\ Diffs \subseteq Int /\ Durations \subseteq Nat
  /\ Nobody \notin Helpers
  /\ MaxCalls \in Nat

Kinds == {"count", "hist"}    \* metricCount, metricHist

VARIABLES
  metrics,    \* kind -> the map, a function on the names that are in it
  mutex,      \* kind -> the goroutine that holds the mutex, or Nobody
  call,       \* goroutine -> the call it is in, see Idle
  calls,      \* how many there were
  flush,      \* what FlushCumulativeMetric is at: a kind, or "no", "done" or
              \* "failed"
  pending,    \* the names its loop has yet to visit
  collected,  \* kind -> name -> what the collector was given
  returned,   \* kind -> name -> the sum of the calls that returned; this
              \* and the next no code reads
  sums        \* kind -> name -> the values of that sum since the flush began

metricVars == <<metrics, mutex, call, calls, flush, pending, collected, returned, sums>>

Amounts(kind) == IF kind = "count" THEN Diffs ELSE Durations
Idle == [step |-> "idle"]
Calls == [step : {"insert", "add"}, kind : Kinds, name : Names, diff : Int]

MetricTypeOK ==
  /\ DOMAIN metrics = Kinds
  /\ \A k \in Kinds : DOMAIN metrics[k] \subseteq Names /\ metrics[k] \in [DOMAIN metrics[k] -> Int]
  /\ mutex \in [Kinds -> Helpers \cup {Nobody}]
  /\ call \in [Helpers -> Calls \cup {Idle}]
  /\ \A k \in Kinds, g \in Helpers :
       mutex[k] = g <=> (call[g] # Idle /\ call[g].kind = k)
  /\ calls \in 0..MaxCalls
  /\ flush \in Kinds \cup {"no", "done", "failed"}
  /\ pending \subseteq Names
  /\ collected \in [Kinds -> [Names -> Int]] /\ returned \in [Kinds -> [Names -> Int]]
  /\ sums \in [Kinds -> [Names -> SUBSET Int]]

Zero == [k \in Kinds |-> [n \in Names |-> 0]]

MetricInit ==
  /\ metrics = [k \in Kinds |-> [n \in {} |-> 0]]
  /\ mutex = [k \in Kinds |-> Nobody]
  /\ call = [g \in Helpers |-> Idle]
  /\ calls = 0
  /\ flush = "no" /\ pending = {}
  /\ collected = Zero /\ returned = Zero
  /\ sums = [k \in Kinds |-> [n \in Names |-> {0}]]

------------------------------------------------------------------------------
(* IncMetric, of the count, and TimeMetric, of the hist.                   *)

(* Mutant: the mutex is not taken.                                         *)
LockMetricNot(g, kind, name, diff) ==
  /\ call[g] = Idle /\ calls < MaxCalls
  /\ calls' = calls + 1
  /\ call' = [call EXCEPT ![g] =
       [step |-> IF name \in DOMAIN metrics[kind] THEN "add" ELSE "insert",
        kind |-> kind, name |-> name, diff |-> diff]]
  /\ UNCHANGED <<metrics, mutex, flush, pending, collected, returned, sums>>

(* Lock, and whether the name is in the map.                               *)
LockMetric(g, kind, name, diff) ==
  /\ call[g] = Idle /\ calls < MaxCalls
  /\ calls' = calls + 1
  /\ mutex[kind] = Nobody
  /\ mutex' = [mutex EXCEPT ![kind] = g]
  /\ call' = [call EXCEPT ![g] =
       [step |-> IF name \in DOMAIN metrics[kind] THEN "add" ELSE "insert",
        kind |-> kind, name |-> name, diff |-> diff]]
  /\ UNCHANGED <<metrics, flush, pending, collected, returned, sums>>

(* What a name being inserted meets when FlushMetric iterates.             *)
Races(g) == call[g].step = "insert" /\ flush = call[g].kind

InsertMetric(g) ==
  /\ call[g].step = "insert"
  /\ metrics' = [metrics EXCEPT ![call[g].kind] =
       [n \in DOMAIN @ \cup {call[g].name} |-> IF n = call[g].name THEN 0 ELSE @[n]]]
  /\ call' = [call EXCEPT ![g].step = "add"]
  /\ \/ UNCHANGED pending
     \/ Races(g) /\ pending' = pending \cup {call[g].name}
  /\ UNCHANGED <<mutex, calls, flush, collected, returned, sums>>

(* The sum, then Unlock.                                                   *)
AddMetric(g) ==
  /\ call[g].step = "add"
  /\ metrics' = [metrics EXCEPT ![call[g].kind][call[g].name] = @ + call[g].diff]
  /\ returned' = [returned EXCEPT ![call[g].kind][call[g].name] = @ + call[g].diff]
  /\ sums' = [sums EXCEPT ![call[g].kind][call[g].name] =
       {returned'[call[g].kind][call[g].name]} \cup IF flush = "no" THEN {} ELSE @]
  /\ mutex' = [mutex EXCEPT ![call[g].kind] = Nobody]
  /\ call' = [call EXCEPT ![g] = Idle]
  /\ UNCHANGED <<calls, flush, pending, collected>>

BeginCall(g) ==
  \E kind \in Kinds, name \in Names :
    \E diff \in Amounts(kind) : LockMetric(g, kind, name, diff)

GoOn(g) == InsertMetric(g) \/ AddMetric(g)

------------------------------------------------------------------------------
(* FlushCumulativeMetric: FlushMetric of the count, then of the hist.      *)

FlushBegins ==
  /\ flush = "no"
  /\ flush' = "count" /\ pending' = DOMAIN metrics["count"]
  /\ UNCHANGED <<metrics, mutex, call, calls, collected, returned, sums>>

(* The Add of a prometheus counter panics for a negative value.            *)
Refused(name) == flush = "count" /\ metrics["count"][name] < 0

FlushOne(name) ==
  /\ flush \in Kinds /\ name \in pending
  /\ ~Refused(name)
  /\ collected' = [collected EXCEPT ![flush][name] = @ + metrics[flush][name]]
  /\ pending' = pending \ {name}
  /\ UNCHANGED <<metrics, mutex, call, calls, flush, returned, sums>>

(* A panic leaves the loop.                                                *)
FlushFails ==
  /\ flush \in Kinds /\ flush' = "failed"
  /\ UNCHANGED <<metrics, mutex, call, calls, pending, collected, returned, sums>>

FlushGoesOn ==
  /\ pending = {}
  /\ \/ flush = "count" /\ flush' = "hist" /\ pending' = DOMAIN metrics["hist"]
     \/ flush = "hist" /\ flush' = "done" /\ UNCHANGED pending
  /\ UNCHANGED <<metrics, mutex, call, calls, collected, returned, sums>>

------------------------------------------------------------------------------
(* Whatever goroutines add during the flush, what the collector is given   *)
(* for a name is its sum at one moment since the flush began: every call   *)
(* that had returned by then is in it, and none is lost or counted twice.  *)
EveryCallCounted ==
  flush = "done" => \A k \in Kinds, n \in Names : collected[k][n] \in sums[k][n]
==============================================================================
