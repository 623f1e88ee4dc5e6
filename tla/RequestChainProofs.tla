------------------------- MODULE RequestChainProofs -------------------------
(***************************************************************************)
(* Proofs about module RequestChain, for any number of goroutines, metrics *)
(* and statuses and for the four chains that GetMiddlewares can build.     *)
(*                                                                         *)
(* First, where in the chain each middleware is.  Then the invariant:      *)
(* SumInv is about the cumulative metrics alone, WayInv about the way of   *)
(* the request and of its panics, StatusInv about the statuses; it needs a *)
(* handler that sends no 1xx.  Each outcome of a middleware is a lemma.    *)
(***************************************************************************)
EXTENDS RequestChain, SequenceTheorems, TLAPS

(* The parts that GetMiddlewares appends to each other.                    *)
Stages == {"context", "recovery", "start time", "tracing", "metrics", "x-server",
           "auth", "csrf", "handler"}
Outer == <<"context", "recovery", "start time", "tracing", "metrics", "x-server">>
Auth == IF AuthEnabled THEN <<"auth">> ELSE <<>>
Last == <<"handler">>
CSRF == IF CSRFEnabled THEN <<"csrf">> ELSE <<>>

(* What Append makes of two parts.                                         *)
LEMMA Joined ==
  ASSUME NEW s \in Seq(Stages), NEW t \in Seq(Stages)
  PROVE  /\ s \o t \in Seq(Stages)
         /\ Len(s \o t) = Len(s) + Len(t)
         /\ \A i \in 1..Len(s) : (s \o t)[i] = s[i]
         /\ \A i \in 1..Len(t) : (s \o t)[Len(s) + i] = t[i]
<1>1. \A i \in 1 .. Len(s) + Len(t) :
          (s \o t)[i] = IF i <= Len(s) THEN s[i] ELSE t[i - Len(s)]
  BY ConcatProperties
<1>2. Len(s) \in Nat /\ Len(t) \in Nat
  OBVIOUS
<1>3. s \o t \in Seq(Stages) /\ Len(s \o t) = Len(s) + Len(t)
  BY ConcatProperties
<1>4. \A i \in 1..Len(s) : (s \o t)[i] = s[i]
  BY <1>1, <1>2
<1>5. \A i \in 1..Len(t) : (s \o t)[Len(s) + i] = t[i]
  <2>1. \A m, n \in Nat : \A i \in 1..n :
           m + i \in 1 .. m + n /\ ~(m + i <= m) /\ (m + i) - m = i
    OBVIOUS
  <2>2. \A i \in 1..Len(t) :
           Len(s) + i \in 1 .. Len(s) + Len(t) /\ ~(Len(s) + i <= Len(s))
             /\ (Len(s) + i) - Len(s) = i
    BY <2>1, <1>2
  <2> QED  BY <2>2, <1>1
<1> QED  BY <1>3, <1>4, <1>5

(* The chain has six fixed places, then the checks, then the handler.      *)
LEMMA ChainShape ==
  /\ \/ AuthEnabled /\ CSRFEnabled /\ Len(Chain) = 9
     \/ AuthEnabled /\ ~CSRFEnabled /\ Len(Chain) = 8
     \/ ~AuthEnabled /\ CSRFEnabled /\ Len(Chain) = 8
     \/ ~AuthEnabled /\ ~CSRFEnabled /\ Len(Chain) = 7
  /\ Chain[1] = "context" /\ Chain[2] = "recovery" /\ Chain[3] = "start time"
  /\ Chain[4] = "tracing" /\ Chain[5] = "metrics" /\ Chain[6] = "x-server"
  /\ AuthEnabled => Chain[7] = "auth"
  /\ CSRFEnabled => Chain[Len(Chain) - 1] = "csrf"
  /\ Chain[Len(Chain)] = "handler"
<1> DEFINE inner == Outer \o Auth
           checked == inner \o CSRF
<1>1. Outer \in Seq(Stages)
  BY DEF Outer, Stages
<1>o. /\ Len(Outer) = 6
      /\ Outer[1] = "context" /\ Outer[2] = "recovery" /\ Outer[3] = "start time"
      /\ Outer[4] = "tracing" /\ Outer[5] = "metrics" /\ Outer[6] = "x-server"
  BY DEF Outer
<1>2. /\ Auth \in Seq(Stages)
      /\ AuthEnabled => Len(Auth) = 1 /\ Auth[1] = "auth"
      /\ ~AuthEnabled => Len(Auth) = 0
  <2>1. CASE AuthEnabled
    BY <2>1 DEF Auth, Stages
  <2>2. CASE ~AuthEnabled
    BY <2>2 DEF Auth
  <2> QED  BY <2>1, <2>2
<1>3. /\ CSRF \in Seq(Stages)
      /\ CSRFEnabled => Len(CSRF) = 1 /\ CSRF[1] = "csrf"
      /\ ~CSRFEnabled => Len(CSRF) = 0
  <2>1. CASE CSRFEnabled
    BY <2>1 DEF CSRF, Stages
  <2>2. CASE ~CSRFEnabled
    BY <2>2 DEF CSRF
  <2> QED  BY <2>1, <2>2
<1>4. Last \in Seq(Stages) /\ Len(Last) = 1 /\ Last[1] = "handler"
  BY DEF Last, Stages
<1>5. Chain = checked \o Last
  BY DEF Chain, Outer, Auth, CSRF, Last
<1>6. /\ inner \in Seq(Stages) /\ Len(inner) = Len(Outer) + Len(Auth)
      /\ \A i \in 1..Len(Outer) : inner[i] = Outer[i]
      /\ \A i \in 1..Len(Auth) : inner[Len(Outer) + i] = Auth[i]
  BY ONLY <1>1, <1>2, Joined
<1> HIDE DEF inner
<1>7. /\ checked \in Seq(Stages) /\ Len(checked) = Len(inner) + Len(CSRF)
      /\ \A i \in 1..Len(inner) : checked[i] = inner[i]
      /\ \A i \in 1..Len(CSRF) : checked[Len(inner) + i] = CSRF[i]
  BY ONLY <1>3, <1>6, Joined
<1> HIDE DEF checked
<1>8. /\ Len(checked \o Last) = Len(checked) + Len(Last)
      /\ \A i \in 1..Len(checked) : (checked \o Last)[i] = checked[i]
      /\ \A i \in 1..Len(Last) : (checked \o Last)[Len(checked) + i] = Last[i]
  BY ONLY <1>4, <1>7, Joined
<1>a. Len(Auth) \in {0, 1} /\ Len(CSRF) \in {0, 1}
  BY <1>2, <1>3
<1>b. Len(inner) = 6 + Len(Auth) /\ Len(checked) = 6 + Len(Auth) + Len(CSRF)
  BY <1>o, <1>6, <1>7
<1>10. Len(Chain) = Len(checked) + 1 /\ Chain[Len(Chain)] = "handler"
  BY <1>4, <1>5, <1>8, <1>a, <1>b
<1>11. \A i \in 1..6 : Chain[i] = Outer[i]
  <2> TAKE i \in 1..6
  <2>0. i \in 1..Len(Outer)
    BY <1>o
  <2>1. inner[i] = Outer[i]
    BY <2>0, <1>6
  <2>3. i \in 1..Len(inner)
    BY <1>a, <1>b
  <2>2. checked[i] = inner[i] /\ i \in 1..Len(checked)
    BY <2>3, <1>7, <1>a, <1>b
  <2> QED  BY <2>1, <2>2, <1>5, <1>8
<1>12. AuthEnabled => Chain[7] = "auth"
  <2> SUFFICES ASSUME AuthEnabled PROVE Chain[7] = "auth"  OBVIOUS
  <2>1. inner[7] = "auth" /\ Len(inner) = 7
    <3>1. Len(Auth) = 1 /\ Len(Outer) = 6
      BY <1>o, <1>2
    <3>2. 1 \in 1..Len(Auth) /\ Len(Outer) + 1 = 7
      BY <3>1
    <3>3. inner[Len(Outer) + 1] = Auth[1]
      BY <3>2, <1>6
    <3> QED  BY <3>1, <3>2, <3>3, <1>2, <1>b
  <2>2. checked[7] = "auth" /\ 7 \in 1..Len(checked)
    BY <2>1, <1>7, <1>a, <1>b
  <2> QED  BY <2>2, <1>5, <1>8
<1>13. CSRFEnabled => Chain[Len(Chain) - 1] = "csrf"
  <2> SUFFICES ASSUME CSRFEnabled PROVE Chain[Len(Chain) - 1] = "csrf"  OBVIOUS
  <2>1. checked[Len(checked)] = "csrf" /\ Len(checked) \in 1..Len(checked)
    <3>1. Len(CSRF) = 1 /\ CSRF[1] = "csrf"
      BY <1>3
    <3>2. 1 \in 1..Len(CSRF) /\ Len(inner) + 1 = Len(checked)
      BY <3>1, <1>a, <1>b
    <3>3. checked[Len(inner) + 1] = CSRF[1]
      BY <3>2, <1>7
    <3>4. Len(checked) \in 1..Len(checked)
      BY <1>a, <1>b
    <3> QED  BY <3>1, <3>2, <3>3, <3>4
  <2>2. Len(Chain) - 1 = Len(checked)
    BY <1>10, <1>a, <1>b
  <2>3. Chain[Len(checked)] = checked[Len(checked)]
    BY <2>1, <1>5, <1>8
  <2> QED  BY <2>1, <2>2, <2>3
<1>14. /\ Chain[1] = Outer[1] /\ Chain[2] = Outer[2] /\ Chain[3] = Outer[3]
       /\ Chain[4] = Outer[4] /\ Chain[5] = Outer[5] /\ Chain[6] = Outer[6]
  BY <1>11
<1>15. \/ AuthEnabled /\ CSRFEnabled /\ Len(Chain) = 9
       \/ AuthEnabled /\ ~CSRFEnabled /\ Len(Chain) = 8
       \/ ~AuthEnabled /\ CSRFEnabled /\ Len(Chain) = 8
       \/ ~AuthEnabled /\ ~CSRFEnabled /\ Len(Chain) = 7
  <2>1. Len(Chain) = 7 + Len(Auth) + Len(CSRF)
    BY <1>10, <1>b, <1>a
  <2>2. CASE Len(Auth) = 1 /\ Len(CSRF) = 1
    <3>1. Len(Chain) = 9  BY <2>1, <2>2
    <3> QED  BY <3>1, <2>2, <1>2, <1>3
  <2>3. CASE Len(Auth) = 1 /\ Len(CSRF) = 0
    <3>1. Len(Chain) = 8  BY <2>1, <2>3
    <3> QED  BY <3>1, <2>3, <1>2, <1>3
  <2>4. CASE Len(Auth) = 0 /\ Len(CSRF) = 1
    <3>1. Len(Chain) = 8  BY <2>1, <2>4
    <3> QED  BY <3>1, <2>4, <1>2, <1>3
  <2>5. CASE Len(Auth) = 0 /\ Len(CSRF) = 0
    <3>1. Len(Chain) = 7  BY <2>1, <2>5
    <3> QED  BY <3>1, <2>5, <1>2, <1>3
  <2> QED  BY <1>a, <2>2, <2>3, <2>4, <2>5
<1> QED  BY <1>o, <1>10, <1>12, <1>13, <1>14, <1>15

(* The place of the handler, which is the last.                            *)
End == Len(Chain)

(* The same in numbers, which the provers keep apart from the Booleans.    *)
LEMMA Length == End \in 7..9
<1>1. CASE AuthEnabled /\ CSRFEnabled /\ Len(Chain) = 9
  <2>1. Len(Chain) = 9  BY <1>1
  <2> QED  BY <2>1 DEF End
<1>2. CASE AuthEnabled /\ ~CSRFEnabled /\ Len(Chain) = 8
  <2>1. Len(Chain) = 8  BY <1>2
  <2> QED  BY <2>1 DEF End
<1>3. CASE ~AuthEnabled /\ CSRFEnabled /\ Len(Chain) = 8
  <2>1. Len(Chain) = 8  BY <1>3
  <2> QED  BY <2>1 DEF End
<1>4. CASE ~AuthEnabled /\ ~CSRFEnabled /\ Len(Chain) = 7
  <2>1. Len(Chain) = 7  BY <1>4
  <2> QED  BY <2>1 DEF End
<1> QED  BY <1>1, <1>2, <1>3, <1>4, ChainShape

LEMMA RoomForChecks ==
  /\ AuthEnabled => End \in 8..9
  /\ CSRFEnabled => End \in 8..9
  /\ AuthEnabled /\ CSRFEnabled => End = 9
<1>1. CASE AuthEnabled /\ CSRFEnabled /\ Len(Chain) = 9
  <2>1. Len(Chain) = 9  BY <1>1
  <2>2. End \in 8..9 /\ End = 9  BY <2>1 DEF End
  <2> QED  BY <2>2
<1>2. CASE AuthEnabled /\ ~CSRFEnabled /\ Len(Chain) = 8
  <2>1. Len(Chain) = 8  BY <1>2
  <2>2. End \in 8..9  BY <2>1 DEF End
  <2> QED  BY <2>2, <1>2
<1>3. CASE ~AuthEnabled /\ CSRFEnabled /\ Len(Chain) = 8
  <2>1. Len(Chain) = 8  BY <1>3
  <2>2. End \in 8..9  BY <2>1 DEF End
  <2> QED  BY <2>2, <1>3
<1>4. CASE ~AuthEnabled /\ ~CSRFEnabled /\ Len(Chain) = 7
  BY <1>4
<1> QED  BY <1>1, <1>2, <1>3, <1>4, ChainShape

(* Where in the chain each middleware is.                                  *)
LEMMA Places ==
  ASSUME NEW i \in 1..End
  PROVE  /\ Chain[i] = "context" <=> i = 1
         /\ Chain[i] = "recovery" <=> i = 2
         /\ Chain[i] \in Bystanders <=> i \in {2, 3, 4, 6}
         /\ Chain[i] = "metrics" <=> i = 5
         /\ Chain[i] = "auth" <=> AuthEnabled /\ i = 7
         /\ Chain[i] = "csrf" <=> CSRFEnabled /\ i = End - 1
         /\ Chain[i] = "handler" <=> i = End
<1> USE DEF End
<1>1. \/ i \in {1, 2, 3, 4, 5, 6}
      \/ AuthEnabled /\ i = 7
      \/ CSRFEnabled /\ i = Len(Chain) - 1
      \/ i = Len(Chain)
  <2>1. CASE AuthEnabled /\ CSRFEnabled /\ Len(Chain) = 9
    BY <2>1
  <2>2. CASE AuthEnabled /\ ~CSRFEnabled /\ Len(Chain) = 8
    BY <2>2
  <2>3. CASE ~AuthEnabled /\ CSRFEnabled /\ Len(Chain) = 8
    BY <2>3
  <2>4. CASE ~AuthEnabled /\ ~CSRFEnabled /\ Len(Chain) = 7
    BY <2>4
  <2> QED  BY <2>1, <2>2, <2>3, <2>4, ChainShape
<1>2. CASE i \in {1, 2, 3, 4, 5, 6}
  BY <1>2, ChainShape DEF Bystanders
<1>3. CASE AuthEnabled /\ i = 7
  BY <1>3, ChainShape DEF Bystanders
<1>4. CASE CSRFEnabled /\ i = Len(Chain) - 1
  BY <1>4, ChainShape DEF Bystanders
<1>5. CASE i = Len(Chain)
  BY <1>5, ChainShape DEF Bystanders
<1> QED  BY <1>1, <1>2, <1>3, <1>4, <1>5

------------------------------------------------------------------------------
(* The cumulative metrics.  A goroutine in IncMetric knows whether its name *)
(* is in the map, because it holds the mutex.                              *)
CallsKnow ==
  \A g \in Helpers : call[g] # Idle =>
    (call[g].step = "add" <=> call[g].name \in DOMAIN metrics[call[g].kind])

Sum(k, n) == IF n \in DOMAIN metrics[k] THEN metrics[k][n] ELSE 0

SumsReturned == \A k \in Kinds, n \in Names : returned[k][n] = Sum(k, n)

(* What the flush has been through.                                        *)
Visited(k, n) ==
  \/ flush = "done"
  \/ flush = "hist" /\ (k = "count" \/ n \notin pending)
  \/ flush = "count" /\ k = "count" /\ n \notin pending

(* What the collectors were given for a name is a sum it has had since the *)
(* flush began; for what was not visited, or never called, it is nothing.  *)
FlushSoFar ==
  /\ flush \in Kinds => pending \subseteq DOMAIN metrics[flush]
  /\ \A k \in Kinds, n \in Names :
       /\ returned[k][n] \in sums[k][n]
       /\ Visited(k, n) => collected[k][n] \in sums[k][n]
       /\ ~Visited(k, n) /\ flush # "failed" => collected[k][n] = 0
       /\ n \notin DOMAIN metrics[k] => collected[k][n] = 0

SumInv == CallsKnow /\ SumsReturned /\ FlushSoFar

(* The way of the request.  The handler is the innermost function; a panic *)
(* that unwinds is always inside the recovery.                             *)
HandlerStage ==
  /\ handler = "runs" => (way = "in" /\ at = End) \/ way = "crashed"
  /\ handler \in {"returned", "panicked"} => way # "in"
  /\ way = "panic" => at >= 2

(* The first middleware is passed once: when it panics it was not.         *)
PassedInside ==
  /\ at >= 2 => passed
  /\ (way = "in" /\ at = 1) \/ way = "aborted" => ~passed

LeasedInside == way = "served" \/ (way = "in" /\ at = 1) => leased = {}

Admitted ==
  /\ way = "in" /\ AuthEnabled /\ at >= 8 => actor
  /\ way = "in" /\ CSRFEnabled /\ at = End => csrfChecked
  /\ OnlyAdmittedHandled

(* A panic that found nothing sent is on its way to the recovery, or was   *)
(* answered by it, or began in the first middleware.                       *)
OwedIsPaid ==
  owed => sent = 500 \/ (sent = NoStatus /\ way \in {"panic", "aborted", "crashed"})

WayInv == HandlerStage /\ PassedInside /\ LeasedInside /\ Admitted /\ OwedIsPaid

(* The statuses, when the handler sends no 1xx: what was asked for first,  *)
(* what the wrapper remembers and what was sent are the same.              *)
WrittenIsSent ==
  /\ rw.wroteHeader => rw.status >= 200 /\ sent = rw.status /\ asked = rw.status
  /\ ~rw.wroteHeader =>
       /\ rw.status = 200 /\ asked = NoStatus
       /\ at >= 2 \/ way = "in" => sent = NoStatus
  /\ way = "in" /\ handler # "runs" => ~rw.wroteHeader

MeasuredSoFar ==
  measured # NoStatus =>
    /\ at <= 4 /\ way # "in"
    /\ \/ owed \/ measured = sent
       \/ sent = NoStatus /\ measured = 200 /\ way # "panic"

StatusInv == WrittenIsSent /\ MeasuredSoFar

(* TypeOK of the request, in the form the provers use.                     *)
Where ==
  /\ at \in 0..End /\ way \in {"in", "out", "panic"} \cup Ends
  /\ way \in Ends <=> at = 0

Shapes ==
  /\ Where
  /\ passed \in BOOLEAN
  /\ leased \in SUBSET {"clone", "timer"}
  /\ actor \in BOOLEAN /\ csrfChecked \in BOOLEAN /\ owed \in BOOLEAN
  /\ handler \in {"uncalled", "runs", "returned", "panicked"}
  /\ rw \in [status : 100..599, wroteHeader : BOOLEAN]
  /\ sent \in {NoStatus} \cup 200..599 /\ asked \in {NoStatus} \cup 200..599
  /\ measured \in {NoStatus} \cup 100..599

LEMMA TypeParts == TypeOK <=> MetricTypeOK /\ Shapes
BY DEF TypeOK, Shapes, Where, End

------------------------------------------------------------------------------
(* The steps of the middleware, one lemma for each outcome.                *)
(* MakeContext, with a clone of the configuration.                         *)
LEMMA ContextMade ==
  ASSUME Shapes, WayInv, Entering("context"), CreateContextWithTimeout,
       CallNext, passed' = TRUE, UNCHANGED <<way, actor, csrfChecked, handler,
       rw, sent, measured, asked, owed>>
  PROVE  Shapes' /\ WayInv' /\ (Informational = {} /\ StatusInv => StatusInv')
<1>a. /\ leased' \in {{"clone"}, {"clone", "timer"}}
      /\ passed' = TRUE
  BY DEF CreateContextWithTimeout
<1>p. at = 1 /\ at' = 2
  <2>1. way \notin Ends /\ Chain[at] = "context"
    BY DEF Entering, Ends
  <2>2. at \in 1..End
    BY <2>1, Length DEF Shapes, Where
  <2>3. at = 1
    BY <2>1, <2>2, Places
  <2> QED  BY <2>3, Length DEF CallNext
<1>w. way = "in" /\ way' = "in"
  BY <1>p DEF Entering, CallNext
<1>1. Where'
  BY <1>p, <1>w, Length DEF Where, Ends
<1>2. passed' \in BOOLEAN
  BY <1>a
<1>3. leased' \in SUBSET {"clone", "timer"}
  BY <1>a DEF Shapes
<1>4. Shapes'
  BY <1>1, <1>2, <1>3 DEF Shapes
<1>5. HandlerStage'
  BY <1>a, <1>p, <1>w, Length DEF WayInv, HandlerStage
<1>6. PassedInside'
  BY <1>a, <1>p, <1>w, Length DEF WayInv, PassedInside, HandlerStage
<1>7. LeasedInside'
  BY <1>a, <1>p, <1>w, Length DEF WayInv, LeasedInside, HandlerStage
<1>8. Admitted'
  <2>1. ~(at' >= 8) /\ at' # End
    BY <1>p, Length
  <2> QED  BY <2>1 DEF WayInv, Admitted, OnlyAdmittedHandled
<1>9. OwedIsPaid'
  BY DEF WayInv, OwedIsPaid
<1>10. Informational = {} /\ StatusInv => WrittenIsSent'
  BY <1>a, <1>p, <1>w, Length DEF StatusInv, WrittenIsSent, Shapes,
       Send, NoStatus, WayInv, HandlerStage, OwedIsPaid
<1>11. Informational = {} /\ StatusInv => MeasuredSoFar'
  BY <1>a, <1>p, <1>w, Length DEF StatusInv, MeasuredSoFar, Shapes,
       Send, NoStatus, WrittenIsSent, WayInv, HandlerStage, OwedIsPaid
<1> QED  BY <1>4, <1>5, <1>6, <1>7, <1>8, <1>9, <1>10, <1>11 DEF WayInv,
     StatusInv

(* MakeContext, when the application panics: nothing recovers.             *)
LEMMA ContextPanics ==
  ASSUME Shapes, WayInv, Entering("context"), leased' \in SUBSET {"clone",
       "timer"}, BeginPanic, UNCHANGED <<passed, actor, csrfChecked, handler,
       rw, sent, measured, asked>>
  PROVE  Shapes' /\ WayInv' /\ (Informational = {} /\ StatusInv => StatusInv')
<1>p. at = 1 /\ at' = 0
  <2>1. way \notin Ends /\ Chain[at] = "context"
    BY DEF Entering, Ends
  <2>2. at \in 1..End
    BY <2>1, Length DEF Shapes, Where
  <2>3. at = 1
    BY <2>1, <2>2, Places
  <2> QED  BY <2>3, Length DEF BeginPanic, Unwinding
<1>w. way = "in" /\ way' = "aborted"
  BY <1>p, Length DEF Entering, BeginPanic, Unwinding
<1>1. Where'
  BY <1>p, <1>w, Length DEF Where, Ends
<1>2. leased' \in SUBSET {"clone", "timer"}
  BY DEF Shapes
<1>3. owed' \in BOOLEAN
  BY DEF BeginPanic
<1>4. Shapes'
  BY <1>1, <1>2, <1>3 DEF Shapes
<1>5. HandlerStage'
  BY <1>p, <1>w, Length DEF WayInv, HandlerStage
<1>6. PassedInside'
  BY <1>p, <1>w, Length DEF WayInv, PassedInside, HandlerStage
<1>7. LeasedInside'
  BY <1>p, <1>w, Length DEF WayInv, LeasedInside, HandlerStage
<1>8. Admitted'
  BY <1>w DEF WayInv, Admitted, OnlyAdmittedHandled
<1>9. OwedIsPaid'
  <2>1. owed' => sent = NoStatus
    BY DEF BeginPanic
  <2> QED  BY <2>1, <1>w DEF OwedIsPaid
<1>10. Informational = {} /\ StatusInv => WrittenIsSent'
  BY <1>p, <1>w, Length DEF StatusInv, WrittenIsSent, Shapes,
       Send, NoStatus, WayInv, HandlerStage, OwedIsPaid
<1>11. Informational = {} /\ StatusInv => MeasuredSoFar'
  <2>1. owed' = (sent = NoStatus)
    BY DEF BeginPanic
  <2> QED  BY <2>1, <1>p, <1>w, Length DEF StatusInv, MeasuredSoFar, NoStatus, WrittenIsSent, Shapes
<1> QED  BY <1>4, <1>5, <1>6, <1>7, <1>8, <1>9, <1>10, <1>11 DEF WayInv,
     StatusInv

(* MakeContext without: the answer is 500 at once.                         *)
LEMMA ContextFails ==
  ASSUME Shapes, WayInv, Entering("context"), Return, sent' = Send(500),
       UNCHANGED <<passed, leased, actor, csrfChecked, handler, rw, measured,
       asked, owed>>
  PROVE  Shapes' /\ WayInv' /\ (Informational = {} /\ StatusInv => StatusInv')
<1>p. at = 1 /\ at' = 0
  <2>1. way \notin Ends /\ Chain[at] = "context"
    BY DEF Entering, Ends
  <2>2. at \in 1..End
    BY <2>1, Length DEF Shapes, Where
  <2>3. at = 1
    BY <2>1, <2>2, Places
  <2> QED  BY <2>3, Length DEF Return
<1>w. way = "in" /\ way' = "served"
  BY <1>p, Length DEF Entering, Return
<1>1. Where'
  BY <1>p, <1>w, Length DEF Where, Ends
<1>2. sent' \in {NoStatus} \cup 200..599
  BY DEF Shapes, Send, NoStatus
<1>3. Shapes'
  BY <1>1, <1>2 DEF Shapes
<1>4. HandlerStage'
  BY <1>p, <1>w, Length DEF WayInv, HandlerStage
<1>5. PassedInside'
  BY <1>p, <1>w, Length DEF WayInv, PassedInside, HandlerStage
<1>6. LeasedInside'
  BY <1>p, <1>w, Length DEF WayInv, LeasedInside, HandlerStage
<1>7. Admitted'
  BY <1>w DEF WayInv, Admitted, OnlyAdmittedHandled
<1>8. OwedIsPaid'
  BY <1>p, <1>w, Length DEF WayInv, OwedIsPaid, Shapes, Send, NoStatus
<1>9. Informational = {} /\ StatusInv => WrittenIsSent'
  BY <1>p, <1>w, Length DEF StatusInv, WrittenIsSent, Shapes,
       Send, NoStatus, WayInv, HandlerStage, OwedIsPaid
<1>10. Informational = {} /\ StatusInv => MeasuredSoFar'
  BY <1>p, <1>w, Length DEF StatusInv, MeasuredSoFar, Shapes,
       Send, NoStatus, WrittenIsSent, WayInv, HandlerStage, OwedIsPaid
<1> QED  BY <1>3, <1>4, <1>5, <1>6, <1>7, <1>8, <1>9, <1>10 DEF WayInv,
     StatusInv

(* ReleaseContext.                                                         *)
LEMMA ContextReleases ==
  ASSUME Shapes, WayInv, Leaving("context"), Return, leased' = {}, UNCHANGED
       <<passed, actor, csrfChecked, handler, rw, sent, measured, asked,
       owed>>
  PROVE  Shapes' /\ WayInv' /\ (Informational = {} /\ StatusInv => StatusInv')
<1>p. at = 1 /\ at' = 0
  <2>1. way \notin Ends /\ Chain[at] = "context"
    BY DEF Leaving, Ends
  <2>2. at \in 1..End
    BY <2>1, Length DEF Shapes, Where
  <2>3. at = 1
    BY <2>1, <2>2, Places
  <2> QED  BY <2>3, Length DEF Return
<1>w. way = "out" /\ way' = "served"
  BY <1>p, Length DEF Leaving, Return
<1>1. Where'
  BY <1>p, <1>w, Length DEF Where, Ends
<1>2. leased' \in SUBSET {"clone", "timer"}
  BY DEF Shapes
<1>3. Shapes'
  BY <1>1, <1>2 DEF Shapes
<1>4. HandlerStage'
  BY <1>p, <1>w, Length DEF WayInv, HandlerStage
<1>5. PassedInside'
  BY <1>p, <1>w, Length DEF WayInv, PassedInside, HandlerStage
<1>6. LeasedInside'
  BY <1>p, <1>w, Length DEF WayInv, LeasedInside, HandlerStage
<1>7. Admitted'
  BY <1>w DEF WayInv, Admitted, OnlyAdmittedHandled
<1>8. OwedIsPaid'
  BY <1>p, <1>w, Length DEF WayInv, OwedIsPaid, Shapes, Send, NoStatus
<1>9. Informational = {} /\ StatusInv => WrittenIsSent'
  BY <1>p, <1>w, Length DEF StatusInv, WrittenIsSent, Shapes,
       Send, NoStatus, WayInv, HandlerStage, OwedIsPaid
<1>10. Informational = {} /\ StatusInv => MeasuredSoFar'
  BY <1>p, <1>w, Length DEF StatusInv, MeasuredSoFar, Shapes,
       Send, NoStatus, WrittenIsSent, WayInv, HandlerStage, OwedIsPaid
<1> QED  BY <1>3, <1>4, <1>5, <1>6, <1>7, <1>8, <1>9, <1>10 DEF WayInv,
     StatusInv

(* PassInBystander.                                                        *)
LEMMA BystanderPassedIn ==
  ASSUME Shapes, WayInv, way = "in", Chain[at] \in Bystanders, CallNext,
       UNCHANGED <<way, passed, leased, actor, csrfChecked, handler, rw, sent,
       measured, asked, owed>>
  PROVE  Shapes' /\ WayInv' /\ (Informational = {} /\ StatusInv => StatusInv')
<1>p. at \in {2, 3, 4, 6} /\ at' = at + 1 /\ at' \in 3..End /\ at' <= 7
  <2>1. way \notin Ends /\ Chain[at] \in Bystanders
    BY DEF Ends
  <2>2. at \in 1..End
    BY <2>1, Length DEF Shapes, Where
  <2>3. at \in {2, 3, 4, 6}
    BY <2>1, <2>2, Places
  <2> QED  BY <2>3, Length DEF CallNext
<1>w. way = "in" /\ way' = "in"
  BY <1>p DEF CallNext
<1>1. Where'
  BY <1>p, <1>w, Length DEF Where, Ends
<1>2. Shapes'
  BY <1>1 DEF Shapes
<1>3. HandlerStage'
  BY <1>p, <1>w, Length DEF WayInv, HandlerStage
<1>4. PassedInside'
  BY <1>p, <1>w, Length DEF WayInv, PassedInside, HandlerStage
<1>5. LeasedInside'
  BY <1>p, <1>w, Length DEF WayInv, LeasedInside, HandlerStage
<1>6. Admitted'
  <2>1. ~(at' >= 8)
    BY <1>p, Length
  <2>2. CSRFEnabled => at' # End
    BY <1>p, RoomForChecks
  <2> QED  BY <2>1, <2>2 DEF WayInv, Admitted, OnlyAdmittedHandled
<1>7. OwedIsPaid'
  BY DEF WayInv, OwedIsPaid
<1>8. Informational = {} /\ StatusInv => WrittenIsSent'
  BY <1>p, <1>w, Length DEF StatusInv, WrittenIsSent, Shapes, Send,
       NoStatus, WayInv, HandlerStage, OwedIsPaid
<1>9. Informational = {} /\ StatusInv => MeasuredSoFar'
  BY <1>p, <1>w, Length DEF StatusInv, MeasuredSoFar, Shapes, Send,
       NoStatus, WrittenIsSent, WayInv, HandlerStage, OwedIsPaid
<1> QED  BY <1>2, <1>3, <1>4, <1>5, <1>6, <1>7, <1>8, <1>9 DEF WayInv,
     StatusInv

(* PassInBystander, when the logger of the application panics.             *)
LEMMA BystanderPanics ==
  ASSUME Shapes, WayInv, way = "in", Chain[at] \in Bystanders, Chain[at] #
       "recovery", BeginPanic, UNCHANGED <<passed, leased, actor, csrfChecked,
       handler, rw, sent, measured, asked>>
  PROVE  Shapes' /\ WayInv' /\ (Informational = {} /\ StatusInv => StatusInv')
<1>p. at \in {3, 4, 6} /\ at' = at - 1 /\ at' \in 2..5
  <2>1. way \notin Ends /\ Chain[at] \in Bystanders /\ Chain[at] # "recovery"
    BY DEF Ends
  <2>2. at \in 1..End
    BY <2>1, Length DEF Shapes, Where
  <2>3. at \in {3, 4, 6}
    BY <2>1, <2>2, Places
  <2> QED  BY <2>3, Length DEF BeginPanic, Unwinding
<1>w. way = "in" /\ way' = "panic"
  BY <1>p, Length DEF BeginPanic, Unwinding
<1>1. Where'
  BY <1>p, <1>w, Length DEF Where, Ends
<1>2. owed' \in BOOLEAN
  BY DEF BeginPanic
<1>3. Shapes'
  BY <1>1, <1>2 DEF Shapes
<1>4. HandlerStage'
  BY <1>p, <1>w, Length DEF WayInv, HandlerStage
<1>5. PassedInside'
  BY <1>p, <1>w, Length DEF WayInv, PassedInside, HandlerStage
<1>6. LeasedInside'
  BY <1>p, <1>w, Length DEF WayInv, LeasedInside, HandlerStage
<1>7. Admitted'
  BY <1>w DEF WayInv, Admitted, OnlyAdmittedHandled
<1>8. OwedIsPaid'
  <2>1. owed' => sent = NoStatus
    BY DEF BeginPanic
  <2> QED  BY <2>1, <1>w DEF OwedIsPaid
<1>9. Informational = {} /\ StatusInv => WrittenIsSent'
  BY <1>p, <1>w, Length DEF StatusInv, WrittenIsSent, Shapes, Send,
       NoStatus, WayInv, HandlerStage, OwedIsPaid
<1>10. Informational = {} /\ StatusInv => MeasuredSoFar'
  <2>1. owed' = (sent = NoStatus)
    BY DEF BeginPanic
  <2> QED  BY <2>1, <1>p, <1>w, Length DEF StatusInv, MeasuredSoFar, NoStatus, WrittenIsSent, Shapes
<1> QED  BY <1>3, <1>4, <1>5, <1>6, <1>7, <1>8, <1>9, <1>10 DEF WayInv,
     StatusInv

(* PassOutBystander.                                                       *)
LEMMA PassedOut ==
  ASSUME Shapes, WayInv, way = "out", Chain[at] \in Bystanders \cup {"auth",
       "csrf"}, Return, UNCHANGED <<passed, leased, actor, csrfChecked,
       handler, rw, sent, measured, asked, owed>>
  PROVE  Shapes' /\ WayInv' /\ (Informational = {} /\ StatusInv => StatusInv')
<1>p. at \in 2..End /\ at' = at - 1 /\ at' \in 1..End
  <2>1. way \notin Ends /\ Chain[at] \in Bystanders \cup {"auth", "csrf"}
    BY DEF Ends
  <2>2. at \in 1..End
    BY <2>1, Length DEF Shapes, Where
  <2>3. at \in 2..End
    <3>1. Chain[at] # "context"
      BY <2>1 DEF Bystanders
    <3> QED  BY <3>1, <2>2, Places, Length
  <2> QED  BY <2>3, Length DEF Return
<1>w. way = "out" /\ way' = "out"
  BY <1>p, Length DEF Return
<1>1. Where'
  BY <1>p, <1>w, Length DEF Where, Ends
<1>2. Shapes'
  BY <1>1 DEF Shapes
<1>3. HandlerStage'
  BY <1>p, <1>w, Length DEF WayInv, HandlerStage
<1>4. PassedInside'
  BY <1>p, <1>w, Length DEF WayInv, PassedInside, HandlerStage
<1>5. LeasedInside'
  BY <1>p, <1>w, Length DEF WayInv, LeasedInside, HandlerStage
<1>6. Admitted'
  BY <1>w DEF WayInv, Admitted, OnlyAdmittedHandled
<1>7. OwedIsPaid'
  BY <1>p, <1>w, Length DEF WayInv, OwedIsPaid, Shapes, Send, NoStatus
<1>8. Informational = {} /\ StatusInv => WrittenIsSent'
  BY <1>p, <1>w, Length DEF StatusInv, WrittenIsSent, Shapes, Send,
       NoStatus, WayInv, HandlerStage, OwedIsPaid
<1>9. Informational = {} /\ StatusInv => MeasuredSoFar'
  BY <1>p, <1>w, Length DEF StatusInv, MeasuredSoFar, Shapes, Send,
       NoStatus, WrittenIsSent, WayInv, HandlerStage, OwedIsPaid
<1> QED  BY <1>2, <1>3, <1>4, <1>5, <1>6, <1>7, <1>8, <1>9 DEF WayInv,
     StatusInv

(* Recover.                                                                *)
LEMMA PanicRecovered ==
  ASSUME Shapes, WayInv, way = "panic", at > 0, Chain[at] = "recovery", sent'
       = Send(500), Return, UNCHANGED <<passed, leased, actor, csrfChecked,
       handler, rw, measured, asked, owed>>
  PROVE  Shapes' /\ WayInv' /\ (Informational = {} /\ StatusInv => StatusInv')
<1>p. at = 2 /\ at' = 1
  <2>1. way \notin Ends /\ Chain[at] = "recovery"
    BY DEF Ends
  <2>2. at \in 1..End
    BY <2>1, Length DEF Shapes, Where
  <2>3. at = 2
    BY <2>1, <2>2, Places
  <2> QED  BY <2>3, Length DEF Return
<1>w. way = "panic" /\ way' = "out"
  BY <1>p, Length DEF Return
<1>1. Where'
  BY <1>p, <1>w, Length DEF Where, Ends
<1>2. sent' \in {NoStatus} \cup 200..599
  BY DEF Shapes, Send, NoStatus
<1>3. Shapes'
  BY <1>1, <1>2 DEF Shapes
<1>4. HandlerStage'
  BY <1>p, <1>w, Length DEF WayInv, HandlerStage
<1>5. PassedInside'
  BY <1>p, <1>w, Length DEF WayInv, PassedInside, HandlerStage
<1>6. LeasedInside'
  BY <1>p, <1>w, Length DEF WayInv, LeasedInside, HandlerStage
<1>7. Admitted'
  BY <1>w DEF WayInv, Admitted, OnlyAdmittedHandled
<1>8. OwedIsPaid'
  BY <1>p, <1>w, Length DEF WayInv, OwedIsPaid, Shapes, Send, NoStatus
<1>9. Informational = {} /\ StatusInv => WrittenIsSent'
  BY <1>p, <1>w, Length DEF StatusInv, WrittenIsSent, Shapes,
       Send, NoStatus, WayInv, HandlerStage, OwedIsPaid
<1>10. Informational = {} /\ StatusInv => MeasuredSoFar'
  BY <1>p, <1>w, Length DEF StatusInv, MeasuredSoFar, Shapes,
       Send, NoStatus, WrittenIsSent, WayInv, HandlerStage, OwedIsPaid
<1> QED  BY <1>3, <1>4, <1>5, <1>6, <1>7, <1>8, <1>9, <1>10 DEF WayInv,
     StatusInv

(* Unwind: below the recovery a panic is never seen.                       *)
LEMMA PanicUnwinds ==
  ASSUME Shapes, WayInv, way = "panic", at > 0, Chain[at] # "recovery",
       Unwinding, UNCHANGED <<passed, leased, actor, csrfChecked, handler, rw,
       sent, measured, asked, owed>>
  PROVE  Shapes' /\ WayInv' /\ (Informational = {} /\ StatusInv => StatusInv')
<1>p. at \in 3..End /\ at' = at - 1 /\ at' \in 2..End
  <2>1. way \notin Ends /\ Chain[at] # "recovery"
    BY DEF Ends
  <2>2. at \in 1..End
    BY <2>1, Length DEF Shapes, Where
  <2>3. at \in 3..End
    BY <2>1, <2>2, Places, Length DEF WayInv, HandlerStage
  <2> QED  BY <2>3, Length DEF Unwinding
<1>w. way = "panic" /\ way' = "panic"
  BY <1>p, Length DEF Unwinding
<1>1. Where'
  BY <1>p, <1>w, Length DEF Where, Ends
<1>2. Shapes'
  BY <1>1 DEF Shapes
<1>3. HandlerStage'
  BY <1>p, <1>w, Length DEF WayInv, HandlerStage
<1>4. PassedInside'
  BY <1>p, <1>w, Length DEF WayInv, PassedInside, HandlerStage
<1>5. LeasedInside'
  BY <1>p, <1>w, Length DEF WayInv, LeasedInside, HandlerStage
<1>6. Admitted'
  BY <1>w DEF WayInv, Admitted, OnlyAdmittedHandled
<1>7. OwedIsPaid'
  BY <1>p, <1>w, Length DEF WayInv, OwedIsPaid, Shapes, Send, NoStatus
<1>8. Informational = {} /\ StatusInv => WrittenIsSent'
  BY <1>p, <1>w, Length DEF StatusInv, WrittenIsSent, Shapes, Send,
       NoStatus, WayInv, HandlerStage, OwedIsPaid
<1>9. Informational = {} /\ StatusInv => MeasuredSoFar'
  BY <1>p, <1>w, Length DEF StatusInv, MeasuredSoFar, Shapes, Send,
       NoStatus, WrittenIsSent, WayInv, HandlerStage, OwedIsPaid
<1> QED  BY <1>2, <1>3, <1>4, <1>5, <1>6, <1>7, <1>8, <1>9 DEF WayInv,
     StatusInv

(* StartMetrics.                                                           *)
LEMMA MetricsStarted ==
  ASSUME Shapes, WayInv, Entering("metrics"), rw' = [status |-> 200,
       wroteHeader |-> FALSE], CallNext, UNCHANGED <<way, passed, leased,
       actor, csrfChecked, handler, sent, measured, asked, owed>>
  PROVE  Shapes' /\ WayInv' /\ (Informational = {} /\ StatusInv => StatusInv')
<1>p. at = 5 /\ at' = 6
  <2>1. way \notin Ends /\ Chain[at] = "metrics"
    BY DEF Entering, Ends
  <2>2. at \in 1..End
    BY <2>1, Length DEF Shapes, Where
  <2>3. at = 5
    BY <2>1, <2>2, Places
  <2> QED  BY <2>3, Length DEF CallNext
<1>w. way = "in" /\ way' = "in"
  BY <1>p DEF Entering, CallNext
<1>1. Where'
  BY <1>p, <1>w, Length DEF Where, Ends
<1>2. rw' \in [status : 100..599, wroteHeader : BOOLEAN]
  BY DEF Shapes, Send, NoStatus
<1>3. Shapes'
  BY <1>1, <1>2 DEF Shapes
<1>4. HandlerStage'
  BY <1>p, <1>w, Length DEF WayInv, HandlerStage
<1>5. PassedInside'
  BY <1>p, <1>w, Length DEF WayInv, PassedInside, HandlerStage
<1>6. LeasedInside'
  BY <1>p, <1>w, Length DEF WayInv, LeasedInside, HandlerStage
<1>7. Admitted'
  <2>1. ~(at' >= 8) /\ at' # End
    BY <1>p, Length
  <2> QED  BY <2>1 DEF WayInv, Admitted, OnlyAdmittedHandled
<1>8. OwedIsPaid'
  BY DEF WayInv, OwedIsPaid
<1>9. Informational = {} /\ StatusInv => WrittenIsSent'
  BY <1>p, <1>w, Length DEF StatusInv, WrittenIsSent, Shapes,
       Send, NoStatus, WayInv, HandlerStage, OwedIsPaid
<1>10. Informational = {} /\ StatusInv => MeasuredSoFar'
  BY <1>p, <1>w, Length DEF StatusInv, MeasuredSoFar, Shapes,
       Send, NoStatus, WrittenIsSent, WayInv, HandlerStage, OwedIsPaid
<1> QED  BY <1>3, <1>4, <1>5, <1>6, <1>7, <1>8, <1>9, <1>10 DEF WayInv,
     StatusInv

(* FlushPanics, and the panics of FinishMetrics.                           *)
LEMMA MetricsPanic ==
  ASSUME Shapes, WayInv, Leaving("metrics"), measured' \in {measured,
       rw.status}, BeginPanic, UNCHANGED <<passed, leased, actor, csrfChecked,
       handler, rw, sent, asked>>
  PROVE  Shapes' /\ WayInv' /\ (Informational = {} /\ StatusInv => StatusInv')
<1>p. at = 5 /\ at' = 4
  <2>1. way \notin Ends /\ Chain[at] = "metrics"
    BY DEF Leaving, Ends
  <2>2. at \in 1..End
    BY <2>1, Length DEF Shapes, Where
  <2>3. at = 5
    BY <2>1, <2>2, Places
  <2> QED  BY <2>3, Length DEF BeginPanic, Unwinding
<1>w. way = "out" /\ way' = "panic"
  BY <1>p, Length DEF Leaving, BeginPanic, Unwinding
<1>1. Where'
  BY <1>p, <1>w, Length DEF Where, Ends
<1>2. measured' \in {NoStatus} \cup 100..599
  BY DEF Shapes
<1>3. owed' \in BOOLEAN
  BY DEF BeginPanic
<1>4. Shapes'
  BY <1>1, <1>2, <1>3 DEF Shapes
<1>5. HandlerStage'
  BY <1>p, <1>w, Length DEF WayInv, HandlerStage
<1>6. PassedInside'
  BY <1>p, <1>w, Length DEF WayInv, PassedInside, HandlerStage
<1>7. LeasedInside'
  BY <1>p, <1>w, Length DEF WayInv, LeasedInside, HandlerStage
<1>8. Admitted'
  BY <1>w DEF WayInv, Admitted, OnlyAdmittedHandled
<1>9. OwedIsPaid'
  <2>1. owed' => sent = NoStatus
    BY DEF BeginPanic
  <2> QED  BY <2>1, <1>w DEF OwedIsPaid
<1>10. Informational = {} /\ StatusInv => WrittenIsSent'
  BY <1>p, <1>w, Length DEF StatusInv, WrittenIsSent, Shapes,
       Send, NoStatus, WayInv, HandlerStage, OwedIsPaid
<1>11. Informational = {} /\ StatusInv => MeasuredSoFar'
  <2>1. owed' = (sent = NoStatus)
    BY DEF BeginPanic
  <2>2. CASE measured' = measured
    BY <2>1, <2>2, <1>p, <1>w DEF StatusInv, MeasuredSoFar, NoStatus, WrittenIsSent, Shapes
  <2>3. CASE measured' = rw.status /\ rw.wroteHeader
    BY <2>1, <2>3, <1>p, <1>w DEF StatusInv, MeasuredSoFar, NoStatus, WrittenIsSent, Shapes
  <2>4. CASE measured' = rw.status /\ ~rw.wroteHeader
    <3>1. sent = NoStatus => owed'
      BY <2>1
    <3> QED  BY <3>1, <2>4, <1>p, <1>w DEF StatusInv, MeasuredSoFar, NoStatus, WrittenIsSent, Shapes
  <2> QED  BY <2>2, <2>3, <2>4
<1> QED  BY <1>4, <1>5, <1>6, <1>7, <1>8, <1>9, <1>10, <1>11 DEF WayInv,
     StatusInv

(* FinishMetrics.                                                          *)
LEMMA MetricsFinished ==
  ASSUME Shapes, WayInv, Leaving("metrics"), measured' = rw.status, Return,
       UNCHANGED <<passed, leased, actor, csrfChecked, handler, rw, sent,
       asked, owed>>
  PROVE  Shapes' /\ WayInv' /\ (Informational = {} /\ StatusInv => StatusInv')
<1>p. at = 5 /\ at' = 4
  <2>1. way \notin Ends /\ Chain[at] = "metrics"
    BY DEF Leaving, Ends
  <2>2. at \in 1..End
    BY <2>1, Length DEF Shapes, Where
  <2>3. at = 5
    BY <2>1, <2>2, Places
  <2> QED  BY <2>3, Length DEF Return
<1>w. way = "out" /\ way' = "out"
  BY <1>p, Length DEF Leaving, Return
<1>1. Where'
  BY <1>p, <1>w, Length DEF Where, Ends
<1>2. measured' \in {NoStatus} \cup 100..599
  BY DEF Shapes
<1>3. Shapes'
  BY <1>1, <1>2 DEF Shapes
<1>4. HandlerStage'
  BY <1>p, <1>w, Length DEF WayInv, HandlerStage
<1>5. PassedInside'
  BY <1>p, <1>w, Length DEF WayInv, PassedInside, HandlerStage
<1>6. LeasedInside'
  BY <1>p, <1>w, Length DEF WayInv, LeasedInside, HandlerStage
<1>7. Admitted'
  BY <1>w DEF WayInv, Admitted, OnlyAdmittedHandled
<1>8. OwedIsPaid'
  BY <1>p, <1>w, Length DEF WayInv, OwedIsPaid, Shapes, Send, NoStatus
<1>9. Informational = {} /\ StatusInv => WrittenIsSent'
  BY <1>p, <1>w, Length DEF StatusInv, WrittenIsSent, Shapes,
       Send, NoStatus, WayInv, HandlerStage, OwedIsPaid
<1>10. Informational = {} /\ StatusInv => MeasuredSoFar'
  BY <1>p, <1>w, Length DEF StatusInv, MeasuredSoFar, Shapes,
       Send, NoStatus, WrittenIsSent, WayInv, HandlerStage, OwedIsPaid
<1> QED  BY <1>3, <1>4, <1>5, <1>6, <1>7, <1>8, <1>9, <1>10 DEF WayInv,
     StatusInv

(* AuthRest, when it lets the request pass.                                *)
LEMMA ActorFound ==
  ASSUME Shapes, WayInv, Entering("auth"), actor' = TRUE, CallNext, UNCHANGED
       <<way, passed, leased, csrfChecked, handler, rw, sent, measured, asked,
       owed>>
  PROVE  Shapes' /\ WayInv' /\ (Informational = {} /\ StatusInv => StatusInv')
<1>p. at = 7 /\ AuthEnabled /\ at' = 8 /\ at' \in 1..End
  <2>1. way \notin Ends /\ Chain[at] = "auth"
    BY DEF Entering, Ends
  <2>2. at \in 1..End
    BY <2>1, Length DEF Shapes, Where
  <2>3. at = 7 /\ AuthEnabled
    BY <2>1, <2>2, Places
  <2> QED  BY <2>3, RoomForChecks DEF CallNext
<1>w. way = "in" /\ way' = "in"
  BY <1>p DEF Entering, CallNext
<1>1. Where'
  BY <1>p, <1>w, Length DEF Where, Ends
<1>2. actor' \in BOOLEAN
  OBVIOUS
<1>3. Shapes'
  BY <1>1, <1>2 DEF Shapes
<1>4. HandlerStage'
  BY <1>p, <1>w, Length DEF WayInv, HandlerStage
<1>5. PassedInside'
  BY <1>p, <1>w, Length DEF WayInv, PassedInside, HandlerStage
<1>6. LeasedInside'
  BY <1>p, <1>w, Length DEF WayInv, LeasedInside, HandlerStage
<1>7. Admitted'
  <2>2. CSRFEnabled => at' # End
    BY <1>p, RoomForChecks
  <2> QED  BY <2>2 DEF WayInv, Admitted, OnlyAdmittedHandled
<1>8. OwedIsPaid'
  BY DEF WayInv, OwedIsPaid
<1>9. Informational = {} /\ StatusInv => WrittenIsSent'
  BY <1>p, <1>w, Length DEF StatusInv, WrittenIsSent, Shapes,
       Send, NoStatus, WayInv, HandlerStage, OwedIsPaid
<1>10. Informational = {} /\ StatusInv => MeasuredSoFar'
  BY <1>p, <1>w, Length DEF StatusInv, MeasuredSoFar, Shapes,
       Send, NoStatus, WrittenIsSent, WayInv, HandlerStage, OwedIsPaid
<1> QED  BY <1>3, <1>4, <1>5, <1>6, <1>7, <1>8, <1>9, <1>10 DEF WayInv,
     StatusInv

(* CheckCSRF, when it lets the request pass.                               *)
LEMMA TokenFound ==
  ASSUME Shapes, WayInv, Entering("csrf"), csrfChecked' = TRUE, CallNext,
       UNCHANGED <<way, passed, leased, actor, handler, rw, sent, measured,
       asked, owed>>
  PROVE  Shapes' /\ WayInv' /\ (Informational = {} /\ StatusInv => StatusInv')
<1>p. at = End - 1 /\ CSRFEnabled /\ at' = End
  <2>1. way \notin Ends /\ Chain[at] = "csrf"
    BY DEF Entering, Ends
  <2>2. at \in 1..End
    BY <2>1, Length DEF Shapes, Where
  <2>3. at = End - 1 /\ CSRFEnabled
    BY <2>1, <2>2, Places
  <2> QED  BY <2>3, RoomForChecks DEF CallNext
<1>w. way = "in" /\ way' = "in"
  BY <1>p DEF Entering, CallNext
<1>1. Where'
  BY <1>p, <1>w, Length DEF Where, Ends
<1>2. csrfChecked' \in BOOLEAN
  OBVIOUS
<1>3. Shapes'
  BY <1>1, <1>2 DEF Shapes
<1>4. HandlerStage'
  BY <1>p, <1>w, Length DEF WayInv, HandlerStage
<1>5. PassedInside'
  BY <1>p, <1>w, Length DEF WayInv, PassedInside, HandlerStage
<1>6. LeasedInside'
  BY <1>p, <1>w, Length DEF WayInv, LeasedInside, HandlerStage
<1>7. Admitted'
  <2>1. AuthEnabled => at >= 8
    BY <1>p, RoomForChecks
  <2> QED  BY <2>1, <1>w DEF WayInv, Admitted, OnlyAdmittedHandled
<1>8. OwedIsPaid'
  BY DEF WayInv, OwedIsPaid
<1>9. Informational = {} /\ StatusInv => WrittenIsSent'
  BY <1>p, <1>w, Length DEF StatusInv, WrittenIsSent, Shapes,
       Send, NoStatus, WayInv, HandlerStage, OwedIsPaid
<1>10. Informational = {} /\ StatusInv => MeasuredSoFar'
  BY <1>p, <1>w, Length DEF StatusInv, MeasuredSoFar, Shapes,
       Send, NoStatus, WrittenIsSent, WayInv, HandlerStage, OwedIsPaid
<1> QED  BY <1>3, <1>4, <1>5, <1>6, <1>7, <1>8, <1>9, <1>10 DEF WayInv,
     StatusInv

(* AuthRest and CheckCSRF, when they answer with an error.                 *)
LEMMA CheckAnswers ==
  ASSUME Shapes, WayInv, NEW st \in {401, 500}, Entering("auth") \/
       Entering("csrf"), WriteHeader(st), Return, UNCHANGED <<passed, leased,
       actor, csrfChecked, handler, measured, owed>>
  PROVE  Shapes' /\ WayInv' /\ (Informational = {} /\ StatusInv => StatusInv')
<1>a. /\ IF rw.wroteHeader THEN rw' = rw /\ sent' = sent
           ELSE rw' = [status |-> st, wroteHeader |-> TRUE] /\ sent' = Send(st)
      /\ asked' = IF asked = NoStatus /\ st >= 200 THEN st ELSE asked
  BY DEF WriteHeader
<1>p. at \in 7 .. End - 1 /\ at' = at - 1 /\ at' \in 6..End
  <2>1. way \notin Ends /\ Chain[at] \in {"auth", "csrf"}
    BY DEF Entering, Ends
  <2>2. at \in 1..End
    BY <2>1, Length DEF Shapes, Where
  <2>3. at \in 7 .. End - 1
    <3>1. CASE Chain[at] = "auth"
      BY <3>1, <2>2, Places, RoomForChecks
    <3>2. CASE Chain[at] = "csrf"
      BY <3>2, <2>2, Places, RoomForChecks
    <3> QED  BY <2>1, <3>1, <3>2
  <2> QED  BY <2>3, Length DEF Return
<1>w. way = "in" /\ way' = "out"
  BY <1>p, Length DEF Entering, Return
<1>1. Where'
  BY <1>p, <1>w, Length DEF Where, Ends
<1>2. rw' \in [status : 100..599, wroteHeader : BOOLEAN]
  <2>1. CASE rw.wroteHeader
    BY <2>1, <1>a DEF Shapes
  <2>2. CASE ~rw.wroteHeader
    <3>1. rw' = [status |-> st, wroteHeader |-> TRUE] /\ st \in 100..599
      BY <2>2, <1>a
    <3> QED  BY <3>1
  <2> QED  BY <2>1, <2>2
<1>3. sent' \in {NoStatus} \cup 200..599
  BY <1>a DEF Shapes, Send, NoStatus
<1>4. asked' \in {NoStatus} \cup 200..599
  BY <1>a DEF Shapes, Send, NoStatus
<1>5. Shapes'
  BY <1>1, <1>2, <1>3, <1>4 DEF Shapes
<1>6. HandlerStage'
  BY <1>a, <1>p, <1>w, Length DEF WayInv, HandlerStage
<1>7. PassedInside'
  BY <1>a, <1>p, <1>w, Length DEF WayInv, PassedInside, HandlerStage
<1>8. LeasedInside'
  BY <1>a, <1>p, <1>w, Length DEF WayInv, LeasedInside, HandlerStage
<1>9. Admitted'
  BY <1>w DEF WayInv, Admitted, OnlyAdmittedHandled
<1>10. OwedIsPaid'
  BY <1>a, <1>p, <1>w, Length DEF WayInv, OwedIsPaid, Shapes, Send, NoStatus
<1>11. Informational = {} /\ StatusInv => WrittenIsSent'
  BY <1>a, <1>p, <1>w, Length DEF StatusInv, WrittenIsSent, Shapes,
       Send, NoStatus, WayInv, HandlerStage, OwedIsPaid
<1>12. Informational = {} /\ StatusInv => MeasuredSoFar'
  BY <1>a, <1>p, <1>w, Length DEF StatusInv, MeasuredSoFar, Shapes,
       Send, NoStatus, WrittenIsSent, WayInv, HandlerStage, OwedIsPaid
<1> QED  BY <1>5, <1>6, <1>7, <1>8, <1>9, <1>10, <1>11, <1>12 DEF WayInv,
     StatusInv

(* AuthRest and CheckCSRF, when they panic.                                *)
LEMMA CheckPanics ==
  ASSUME Shapes, WayInv, Entering("auth") \/ Entering("csrf"), BeginPanic,
       UNCHANGED <<passed, leased, actor, csrfChecked, handler, rw, sent,
       measured, asked>>
  PROVE  Shapes' /\ WayInv' /\ (Informational = {} /\ StatusInv => StatusInv')
<1>p. at \in 7 .. End - 1 /\ at' = at - 1 /\ at' \in 6..End
  <2>1. way \notin Ends /\ Chain[at] \in {"auth", "csrf"}
    BY DEF Entering, Ends
  <2>2. at \in 1..End
    BY <2>1, Length DEF Shapes, Where
  <2>3. at \in 7 .. End - 1
    <3>1. CASE Chain[at] = "auth"
      BY <3>1, <2>2, Places, RoomForChecks
    <3>2. CASE Chain[at] = "csrf"
      BY <3>2, <2>2, Places, RoomForChecks
    <3> QED  BY <2>1, <3>1, <3>2
  <2> QED  BY <2>3, Length DEF BeginPanic, Unwinding
<1>w. way = "in" /\ way' = "panic"
  BY <1>p, Length DEF Entering, BeginPanic, Unwinding
<1>1. Where'
  BY <1>p, <1>w, Length DEF Where, Ends
<1>2. owed' \in BOOLEAN
  BY DEF BeginPanic
<1>3. Shapes'
  BY <1>1, <1>2 DEF Shapes
<1>4. HandlerStage'
  BY <1>p, <1>w, Length DEF WayInv, HandlerStage
<1>5. PassedInside'
  BY <1>p, <1>w, Length DEF WayInv, PassedInside, HandlerStage
<1>6. LeasedInside'
  BY <1>p, <1>w, Length DEF WayInv, LeasedInside, HandlerStage
<1>7. Admitted'
  BY <1>w DEF WayInv, Admitted, OnlyAdmittedHandled
<1>8. OwedIsPaid'
  <2>1. owed' => sent = NoStatus
    BY DEF BeginPanic
  <2> QED  BY <2>1, <1>w DEF OwedIsPaid
<1>9. Informational = {} /\ StatusInv => WrittenIsSent'
  BY <1>p, <1>w, Length DEF StatusInv, WrittenIsSent, Shapes, Send,
       NoStatus, WayInv, HandlerStage, OwedIsPaid
<1>10. Informational = {} /\ StatusInv => MeasuredSoFar'
  <2>1. owed' = (sent = NoStatus)
    BY DEF BeginPanic
  <2> QED  BY <2>1, <1>p, <1>w, Length DEF StatusInv, MeasuredSoFar, NoStatus, WrittenIsSent, Shapes
<1> QED  BY <1>3, <1>4, <1>5, <1>6, <1>7, <1>8, <1>9, <1>10 DEF WayInv,
     StatusInv

(* CallHandler.                                                            *)
LEMMA HandlerCalled ==
  ASSUME Shapes, WayInv, Entering("handler"), handler = "uncalled", handler' =
       "runs", UNCHANGED <<at, way, passed, leased, actor, csrfChecked, rw,
       sent, measured, asked, owed>>
  PROVE  Shapes' /\ WayInv' /\ (Informational = {} /\ StatusInv => StatusInv')
<1>p. at = End /\ at' = End
  <2>1. way \notin Ends /\ Chain[at] = "handler"
    BY DEF Entering, Ends
  <2>2. at \in 1..End
    BY <2>1, Length DEF Shapes, Where
  <2>3. at = End
    BY <2>1, <2>2, Places
  <2> QED  BY <2>3
<1>w. way = "in" /\ way' = "in"
  BY <1>p DEF Entering
<1>1. Where'
  BY DEF Shapes, Where
<1>2. handler' \in {"uncalled", "runs", "returned", "panicked"}
  BY DEF Shapes
<1>3. Shapes'
  BY <1>1, <1>2 DEF Shapes
<1>4. HandlerStage'
  BY <1>p, <1>w, Length DEF WayInv, HandlerStage
<1>5. PassedInside'
  BY DEF WayInv, PassedInside
<1>6. LeasedInside'
  BY DEF WayInv, LeasedInside
<1>7. Admitted'
  <2>1. AuthEnabled => at >= 8
    BY <1>p, RoomForChecks
  <2>2. at = End /\ at' = at
    BY <1>p
  <2> QED  BY <2>1, <2>2, <1>w DEF WayInv, Admitted, OnlyAdmittedHandled
<1>8. OwedIsPaid'
  BY DEF WayInv, OwedIsPaid
<1>9. Informational = {} /\ StatusInv => WrittenIsSent'
  BY <1>p, <1>w, Length DEF StatusInv, WrittenIsSent, Shapes,
       Send, NoStatus, WayInv, HandlerStage, OwedIsPaid
<1>10. Informational = {} /\ StatusInv => MeasuredSoFar'
  BY DEF StatusInv, MeasuredSoFar
<1> QED  BY <1>3, <1>4, <1>5, <1>6, <1>7, <1>8, <1>9, <1>10 DEF WayInv,
     StatusInv

(* HandlerWrites: WriteHeader, or the implicit one of a Write.             *)
LEMMA HeaderWritten ==
  ASSUME Shapes, WayInv, NEW st \in 100..599, Informational = {} => st >= 200,
       Entering("handler"), handler = "runs", WriteHeader(st), UNCHANGED <<at,
       way, passed, leased, actor, csrfChecked, handler, measured, owed>>
  PROVE  Shapes' /\ WayInv' /\ (Informational = {} /\ StatusInv => StatusInv')
<1>a. /\ handler = "runs"
      /\ IF rw.wroteHeader THEN rw' = rw /\ sent' = sent
           ELSE rw' = [status |-> st, wroteHeader |-> TRUE] /\ sent' = Send(st)
      /\ asked' = IF asked = NoStatus /\ st >= 200 THEN st ELSE asked
  BY DEF WriteHeader
<1>p. at = End /\ at' = End
  <2>1. way \notin Ends /\ Chain[at] = "handler"
    BY DEF Entering, Ends
  <2>2. at \in 1..End
    BY <2>1, Length DEF Shapes, Where
  <2>3. at = End
    BY <2>1, <2>2, Places
  <2> QED  BY <2>3
<1>w. way = "in" /\ way' = "in"
  BY <1>p DEF Entering
<1>1. Where'
  BY DEF Shapes, Where
<1>2. rw' \in [status : 100..599, wroteHeader : BOOLEAN]
  <2>1. CASE rw.wroteHeader
    BY <2>1, <1>a DEF Shapes
  <2>2. CASE ~rw.wroteHeader
    <3>1. rw' = [status |-> st, wroteHeader |-> TRUE] /\ st \in 100..599
      BY <2>2, <1>a
    <3> QED  BY <3>1
  <2> QED  BY <2>1, <2>2
<1>3. sent' \in {NoStatus} \cup 200..599
  BY <1>a DEF Shapes, Send, NoStatus
<1>4. asked' \in {NoStatus} \cup 200..599
  BY <1>a DEF Shapes, Send, NoStatus
<1>5. Shapes'
  BY <1>1, <1>2, <1>3, <1>4 DEF Shapes
<1>6. HandlerStage'
  BY DEF WayInv, HandlerStage
<1>7. PassedInside'
  BY DEF WayInv, PassedInside
<1>8. LeasedInside'
  BY DEF WayInv, LeasedInside
<1>9. Admitted'
  BY DEF WayInv, Admitted, OnlyAdmittedHandled
<1>10. OwedIsPaid'
  BY <1>a, <1>p, <1>w, Length DEF WayInv, OwedIsPaid, Shapes, Send, NoStatus
<1>11. Informational = {} /\ StatusInv => WrittenIsSent'
  BY <1>a, <1>p, <1>w, Length DEF StatusInv, WrittenIsSent, Shapes,
       Send, NoStatus, WayInv, HandlerStage, OwedIsPaid
<1>12. Informational = {} /\ StatusInv => MeasuredSoFar'
  BY <1>a, <1>p, <1>w, Length DEF StatusInv, MeasuredSoFar, Shapes,
       Send, NoStatus, WrittenIsSent, WayInv, HandlerStage, OwedIsPaid
<1> QED  BY <1>5, <1>6, <1>7, <1>8, <1>9, <1>10, <1>11, <1>12 DEF WayInv,
     StatusInv

(* HandlerWrites: a Write after WriteHeader.                               *)
LEMMA DataWritten ==
  ASSUME Shapes, WayInv, Entering("handler"), handler = "runs",
       rw.wroteHeader, sent' = Send(200), UNCHANGED <<at, way, passed, leased,
       actor, csrfChecked, handler, rw, measured, asked, owed>>
  PROVE  Shapes' /\ WayInv' /\ (Informational = {} /\ StatusInv => StatusInv')
<1>p. at = End /\ at' = End
  <2>1. way \notin Ends /\ Chain[at] = "handler"
    BY DEF Entering, Ends
  <2>2. at \in 1..End
    BY <2>1, Length DEF Shapes, Where
  <2>3. at = End
    BY <2>1, <2>2, Places
  <2> QED  BY <2>3
<1>w. way = "in" /\ way' = "in"
  BY <1>p DEF Entering
<1>1. Where'
  BY DEF Shapes, Where
<1>2. sent' \in {NoStatus} \cup 200..599
  BY DEF Shapes, Send, NoStatus
<1>3. Shapes'
  BY <1>1, <1>2 DEF Shapes
<1>4. HandlerStage'
  BY DEF WayInv, HandlerStage
<1>5. PassedInside'
  BY DEF WayInv, PassedInside
<1>6. LeasedInside'
  BY DEF WayInv, LeasedInside
<1>7. Admitted'
  BY DEF WayInv, Admitted, OnlyAdmittedHandled
<1>8. OwedIsPaid'
  BY <1>p, <1>w, Length DEF WayInv, OwedIsPaid, Shapes, Send, NoStatus
<1>9. Informational = {} /\ StatusInv => WrittenIsSent'
  BY <1>p, <1>w, Length DEF StatusInv, WrittenIsSent, Shapes,
       Send, NoStatus, WayInv, HandlerStage, OwedIsPaid
<1>10. Informational = {} /\ StatusInv => MeasuredSoFar'
  BY <1>p, <1>w, Length DEF StatusInv, MeasuredSoFar, Shapes,
       Send, NoStatus, WrittenIsSent, WayInv, HandlerStage, OwedIsPaid
<1> QED  BY <1>3, <1>4, <1>5, <1>6, <1>7, <1>8, <1>9, <1>10 DEF WayInv,
     StatusInv

(* HandlerReturns.                                                         *)
LEMMA HandlerDone ==
  ASSUME Shapes, WayInv, Entering("handler"), handler = "runs", handler' =
       "returned", Return, UNCHANGED <<passed, leased, actor, csrfChecked, rw,
       sent, measured, asked, owed>>
  PROVE  Shapes' /\ WayInv' /\ (Informational = {} /\ StatusInv => StatusInv')
<1>p. at = End /\ at' = End - 1
  <2>1. way \notin Ends /\ Chain[at] = "handler"
    BY DEF Entering, Ends
  <2>2. at \in 1..End
    BY <2>1, Length DEF Shapes, Where
  <2>3. at = End
    BY <2>1, <2>2, Places
  <2> QED  BY <2>3, Length DEF Return
<1>w. way = "in" /\ way' = "out"
  BY <1>p, Length DEF Entering, Return
<1>1. Where'
  BY <1>p, <1>w, Length DEF Where, Ends
<1>2. handler' \in {"uncalled", "runs", "returned", "panicked"}
  BY DEF Shapes
<1>3. Shapes'
  BY <1>1, <1>2 DEF Shapes
<1>4. HandlerStage'
  BY <1>p, <1>w, Length DEF WayInv, HandlerStage
<1>5. PassedInside'
  BY <1>p, <1>w, Length DEF WayInv, PassedInside, HandlerStage
<1>6. LeasedInside'
  BY <1>p, <1>w, Length DEF WayInv, LeasedInside, HandlerStage
<1>7. Admitted'
  BY <1>w DEF WayInv, Admitted, OnlyAdmittedHandled
<1>8. OwedIsPaid'
  BY <1>p, <1>w, Length DEF WayInv, OwedIsPaid, Shapes, Send, NoStatus
<1>9. Informational = {} /\ StatusInv => WrittenIsSent'
  BY <1>p, <1>w, Length DEF StatusInv, WrittenIsSent, Shapes,
       Send, NoStatus, WayInv, HandlerStage, OwedIsPaid
<1>10. Informational = {} /\ StatusInv => MeasuredSoFar'
  BY <1>p, <1>w, Length DEF StatusInv, MeasuredSoFar, Shapes,
       Send, NoStatus, WrittenIsSent, WayInv, HandlerStage, OwedIsPaid
<1> QED  BY <1>3, <1>4, <1>5, <1>6, <1>7, <1>8, <1>9, <1>10 DEF WayInv,
     StatusInv

(* HandlerPanics.                                                          *)
LEMMA HandlerUnwinds ==
  ASSUME Shapes, WayInv, Entering("handler"), handler = "runs", handler' =
       "panicked", BeginPanic, UNCHANGED <<passed, leased, actor, csrfChecked,
       rw, sent, measured, asked>>
  PROVE  Shapes' /\ WayInv' /\ (Informational = {} /\ StatusInv => StatusInv')
<1>p. at = End /\ at' = End - 1
  <2>1. way \notin Ends /\ Chain[at] = "handler"
    BY DEF Entering, Ends
  <2>2. at \in 1..End
    BY <2>1, Length DEF Shapes, Where
  <2>3. at = End
    BY <2>1, <2>2, Places
  <2> QED  BY <2>3, Length DEF BeginPanic, Unwinding
<1>w. way = "in" /\ way' = "panic"
  BY <1>p, Length DEF Entering, BeginPanic, Unwinding
<1>1. Where'
  BY <1>p, <1>w, Length DEF Where, Ends
<1>2. handler' \in {"uncalled", "runs", "returned", "panicked"}
  BY DEF Shapes
<1>3. owed' \in BOOLEAN
  BY DEF BeginPanic
<1>4. Shapes'
  BY <1>1, <1>2, <1>3 DEF Shapes
<1>5. HandlerStage'
  BY <1>p, <1>w, Length DEF WayInv, HandlerStage
<1>6. PassedInside'
  BY <1>p, <1>w, Length DEF WayInv, PassedInside, HandlerStage
<1>7. LeasedInside'
  BY <1>p, <1>w, Length DEF WayInv, LeasedInside, HandlerStage
<1>8. Admitted'
  BY <1>w DEF WayInv, Admitted, OnlyAdmittedHandled
<1>9. OwedIsPaid'
  <2>1. owed' => sent = NoStatus
    BY DEF BeginPanic
  <2> QED  BY <2>1, <1>w DEF OwedIsPaid
<1>10. Informational = {} /\ StatusInv => WrittenIsSent'
  BY <1>p, <1>w, Length DEF StatusInv, WrittenIsSent, Shapes,
       Send, NoStatus, WayInv, HandlerStage, OwedIsPaid
<1>11. Informational = {} /\ StatusInv => MeasuredSoFar'
  <2>1. owed' = (sent = NoStatus)
    BY DEF BeginPanic
  <2> QED  BY <2>1, <1>p, <1>w, Length DEF StatusInv, MeasuredSoFar, NoStatus, WrittenIsSent, Shapes
<1> QED  BY <1>4, <1>5, <1>6, <1>7, <1>8, <1>9, <1>10, <1>11 DEF WayInv,
     StatusInv

(* FinishRequest.                                                          *)
LEMMA RequestFinished ==
  ASSUME Shapes, WayInv, way = "served", sent = NoStatus, sent' = 200,
       UNCHANGED <<at, way, passed, leased, actor, csrfChecked, handler, rw,
       measured, asked, owed>>
  PROVE  Shapes' /\ WayInv' /\ (Informational = {} /\ StatusInv => StatusInv')
<1>p. at = 0 /\ at' = 0
  BY DEF Shapes, Where
<1>w. way = "served" /\ way' = "served"
  BY <1>p
<1>1. Where'
  BY DEF Shapes, Where
<1>2. sent' \in {NoStatus} \cup 200..599
  BY DEF Shapes, Send, NoStatus
<1>3. Shapes'
  BY <1>1, <1>2 DEF Shapes
<1>4. HandlerStage'
  BY DEF WayInv, HandlerStage
<1>5. PassedInside'
  BY DEF WayInv, PassedInside
<1>6. LeasedInside'
  BY DEF WayInv, LeasedInside
<1>7. Admitted'
  BY DEF WayInv, Admitted, OnlyAdmittedHandled
<1>8. OwedIsPaid'
  BY <1>p, <1>w, Length DEF WayInv, OwedIsPaid, Shapes, Send, NoStatus
<1>9. Informational = {} /\ StatusInv => WrittenIsSent'
  BY <1>p, <1>w, Length DEF StatusInv, WrittenIsSent, Shapes,
       Send, NoStatus, WayInv, HandlerStage, OwedIsPaid
<1>10. Informational = {} /\ StatusInv => MeasuredSoFar'
  BY <1>p, <1>w, Length DEF StatusInv, MeasuredSoFar, Shapes,
       Send, NoStatus, WrittenIsSent, WayInv, HandlerStage, OwedIsPaid
<1> QED  BY <1>3, <1>4, <1>5, <1>6, <1>7, <1>8, <1>9, <1>10 DEF WayInv,
     StatusInv

------------------------------------------------------------------------------
(* The steps of the cumulative metrics.                                    *)
(* The middleware never touches them.                                      *)
LEMMA SumsUntouched ==
  ASSUME MetricTypeOK, SumInv, UNCHANGED metricVars
  PROVE  MetricTypeOK' /\ SumInv'
<1>1. UNCHANGED <<metrics, mutex, call, calls, flush, pending, collected, returned, sums>>
  BY DEF metricVars
<1>2. MetricTypeOK'
  BY <1>1 DEF MetricTypeOK
<1>3. CallsKnow' /\ SumsReturned'
  BY <1>1 DEF SumInv, CallsKnow, SumsReturned, Sum
<1>4. FlushSoFar'
  BY <1>1 DEF SumInv, FlushSoFar, Visited
<1> QED  BY <1>2, <1>3, <1>4 DEF SumInv

(* IncMetric and TimeMetric: the lock, the insertion, the sum.             *)
LEMMA CallLocks ==
  ASSUME MetricTypeOK, SumInv,
         NEW g \in Helpers, NEW kind \in Kinds, NEW name \in Names, NEW diff \in Int,
         LockMetric(g, kind, name, diff)
  PROVE  MetricTypeOK' /\ SumInv'
<1> DEFINE new == [step |-> IF name \in DOMAIN metrics[kind] THEN "add" ELSE "insert",
                   kind |-> kind, name |-> name, diff |-> diff]
<1>1. /\ call[g] = Idle /\ mutex[kind] = Nobody
      /\ calls < MaxCalls /\ calls' = calls + 1
      /\ mutex' = [mutex EXCEPT ![kind] = g]
      /\ call' = [call EXCEPT ![g] = new]
      /\ UNCHANGED <<metrics, flush, pending, collected, returned, sums>>
  BY DEF LockMetric
<1>2. new \in Calls /\ new # Idle /\ new.kind = kind /\ new.name = name
      /\ (new.step = "add" <=> name \in DOMAIN metrics[kind])
  BY DEF Calls, Idle
<1> HIDE DEF new
<1>3. /\ call' \in [Helpers -> Calls \cup {Idle}] /\ call'[g] = new
      /\ \A h \in Helpers \ {g} : call'[h] = call[h]
  BY <1>1, <1>2 DEF MetricTypeOK
<1>4. /\ mutex' \in [Kinds -> Helpers \cup {Nobody}] /\ mutex'[kind] = g
      /\ \A k \in Kinds \ {kind} : mutex'[k] = mutex[k]
  BY <1>1 DEF MetricTypeOK
<1>5. \A k \in Kinds, h \in Helpers :
        mutex'[k] = h <=> (call'[h] # Idle /\ call'[h].kind = k)
  <2> TAKE k \in Kinds, h \in Helpers
  <2>0. mutex[k] = h <=> (call[h] # Idle /\ call[h].kind = k)
    BY DEF MetricTypeOK
  <2>1. CASE k = kind /\ h = g
    BY <2>1, <1>2, <1>3, <1>4
  <2>2. CASE k # kind /\ h = g
    BY <2>0, <2>2, <1>1, <1>2, <1>3, <1>4
  <2>3. CASE k = kind /\ h # g
    BY <2>0, <2>3, <1>1, <1>3, <1>4, MetricAssumption
  <2>4. CASE k # kind /\ h # g
    BY <2>0, <2>4, <1>3, <1>4
  <2> QED  BY <2>1, <2>2, <2>3, <2>4
<1>6. calls' \in 0..MaxCalls
  BY <1>1, MetricAssumption DEF MetricTypeOK
<1>7. MetricTypeOK'
  BY <1>1, <1>3, <1>4, <1>5, <1>6 DEF MetricTypeOK
<1>8. CallsKnow'
  BY <1>1, <1>2, <1>3 DEF SumInv, CallsKnow
<1>9. SumsReturned'
  BY <1>1 DEF SumInv, SumsReturned, Sum
<1>10. FlushSoFar'
  BY <1>1 DEF SumInv, FlushSoFar, Visited
<1> QED  BY <1>7, <1>8, <1>9, <1>10 DEF SumInv

LEMMA CallInserts ==
  ASSUME MetricTypeOK, SumInv, NEW g \in Helpers, InsertMetric(g)
  PROVE  MetricTypeOK' /\ SumInv'
<1> DEFINE kind == call[g].kind
           name == call[g].name
           new  == [call[g] EXCEPT !.step = "add"]
<1>1. /\ call[g].step = "insert"
      /\ metrics' = [metrics EXCEPT ![kind] =
           [n \in DOMAIN metrics[kind] \cup {name} |-> IF n = name THEN 0 ELSE metrics[kind][n]]]
      /\ call' = [call EXCEPT ![g] = new]
      /\ \/ pending' = pending
         \/ flush = kind /\ pending' = pending \cup {name}
      /\ UNCHANGED <<mutex, calls, flush, collected, returned, sums>>
  BY DEF InsertMetric, Races
<1>2. call[g] \in Calls /\ call[g] # Idle
  BY <1>1 DEF MetricTypeOK, Idle
<1>3. kind \in Kinds /\ name \in Names /\ name \notin DOMAIN metrics[kind]
  BY <1>1, <1>2 DEF Calls, SumInv, CallsKnow
<1>4. new \in Calls /\ new # Idle /\ new.kind = kind /\ new.name = name /\ new.step = "add"
  BY <1>2 DEF Calls, Idle
<1>5. /\ call' \in [Helpers -> Calls \cup {Idle}] /\ call'[g] = new
      /\ \A h \in Helpers \ {g} : call'[h] = call[h]
  BY <1>1, <1>4 DEF MetricTypeOK
<1>m. \A k \in Kinds, h \in Helpers :
         mutex[k] = h <=> (call[h] # Idle /\ call[h].kind = k)
  BY DEF MetricTypeOK
<1>k. \A h \in Helpers \ {g} : call[h] # Idle => call[h].kind # kind
  <2>1. mutex[kind] = g
    BY <1>2, <1>3, <1>m
  <2> QED  BY <2>1, <1>3, <1>m
<1> HIDE DEF kind, name, new
<1>6. /\ DOMAIN metrics' = Kinds
      /\ \A k \in Kinds \ {kind} : metrics'[k] = metrics[k]
      /\ metrics'[kind] = [n \in DOMAIN metrics[kind] \cup {name} |->
                             IF n = name THEN 0 ELSE metrics[kind][n]]
  BY <1>1, <1>3 DEF MetricTypeOK
<1>7. /\ DOMAIN metrics'[kind] = DOMAIN metrics[kind] \cup {name}
      /\ metrics'[kind][name] = 0
      /\ \A n \in DOMAIN metrics[kind] : metrics'[kind][n] = metrics[kind][n]
  BY <1>3, <1>6
<1>8. metrics'[kind] \in [DOMAIN metrics'[kind] -> Int] /\ DOMAIN metrics'[kind] \subseteq Names
  <2>1. metrics[kind] \in [DOMAIN metrics[kind] -> Int] /\ DOMAIN metrics[kind] \subseteq Names
    BY <1>3 DEF MetricTypeOK
  <2>2. \A n \in DOMAIN metrics[kind] : metrics[kind][n] \in Int
    BY <2>1
  <2>3. [n \in DOMAIN metrics[kind] \cup {name} |-> IF n = name THEN 0 ELSE metrics[kind][n]]
          \in [DOMAIN metrics[kind] \cup {name} -> Int]
    BY <2>2
  <2> QED  BY <2>1, <2>3, <1>3, <1>6, <1>7
<1>9. \A k \in Kinds : DOMAIN metrics'[k] \subseteq Names /\ metrics'[k] \in [DOMAIN metrics'[k] -> Int]
  BY <1>6, <1>8 DEF MetricTypeOK
<1>10. \A k \in Kinds, h \in Helpers :
        mutex'[k] = h <=> (call'[h] # Idle /\ call'[h].kind = k)
  <2> TAKE k \in Kinds, h \in Helpers
  <2>0. mutex[k] = h <=> (call[h] # Idle /\ call[h].kind = k)
    BY DEF MetricTypeOK
  <2>1. CASE h = g
    BY <2>0, <2>1, <1>1, <1>2, <1>4, <1>5 DEF kind
  <2>2. CASE h # g
    BY <2>0, <2>2, <1>1, <1>5
  <2> QED  BY <2>1, <2>2
<1>p. pending' \subseteq Names
  BY <1>1, <1>3 DEF MetricTypeOK
<1>11. MetricTypeOK'
  BY <1>1, <1>5, <1>6, <1>9, <1>10, <1>p DEF MetricTypeOK
<1>12. CallsKnow'
  <2> SUFFICES ASSUME NEW h \in Helpers, call'[h] # Idle
               PROVE  call'[h].step = "add" <=> call'[h].name \in DOMAIN metrics'[call'[h].kind]
    BY DEF CallsKnow
  <2>1. CASE h = g
    BY <2>1, <1>4, <1>5, <1>7
  <2>2. CASE h # g
    <3>1. call'[h] = call[h] /\ call[h] # Idle /\ call[h].kind \in Kinds \ {kind}
      BY <2>2, <1>5, <1>k DEF MetricTypeOK, Calls
    <3> QED  BY <3>1, <1>6 DEF SumInv, CallsKnow
  <2> QED  BY <2>1, <2>2
<1>13. SumsReturned'
  <2> SUFFICES ASSUME NEW k \in Kinds, NEW n \in Names PROVE returned'[k][n] = Sum(k, n)'
    BY DEF SumsReturned
  <2>0. returned'[k][n] = IF n \in DOMAIN metrics[k] THEN metrics[k][n] ELSE 0
    BY <1>1 DEF SumInv, SumsReturned, Sum
  <2>1. CASE k # kind
    BY <2>0, <2>1, <1>6 DEF Sum
  <2>2. CASE k = kind /\ n = name
    BY <2>0, <2>2, <1>3, <1>7 DEF Sum
  <2>3. CASE k = kind /\ n # name
    BY <2>0, <2>3, <1>7 DEF Sum
  <2> QED  BY <2>1, <2>2, <2>3
<1>14. FlushSoFar'
  <2>1. flush' \in Kinds => pending' \subseteq DOMAIN metrics'[flush']
    <3> SUFFICES ASSUME flush \in Kinds PROVE pending' \subseteq DOMAIN metrics'[flush]
      BY <1>1
    <3>1. pending \subseteq DOMAIN metrics[flush]
      BY DEF SumInv, FlushSoFar
    <3>2. CASE flush = kind
      BY <3>1, <3>2, <1>1, <1>7
    <3>3. CASE flush # kind
      BY <3>1, <3>3, <1>1, <1>6
    <3> QED  BY <3>2, <3>3
  <2>2. ASSUME NEW k \in Kinds, NEW n \in Names
        PROVE  /\ returned'[k][n] \in sums'[k][n]
               /\ Visited(k, n)' => collected'[k][n] \in sums'[k][n]
               /\ ~Visited(k, n)' /\ flush' # "failed" => collected'[k][n] = 0
               /\ n \notin DOMAIN metrics'[k] => collected'[k][n] = 0
    <3>0. /\ returned[k][n] \in sums[k][n]
          /\ Visited(k, n) => collected[k][n] \in sums[k][n]
          /\ ~Visited(k, n) /\ flush # "failed" => collected[k][n] = 0
          /\ n \notin DOMAIN metrics[k] => collected[k][n] = 0
      BY DEF SumInv, FlushSoFar
    <3>1. n \notin DOMAIN metrics'[k] => n \notin DOMAIN metrics[k]
      BY <1>6, <1>7
    <3>2. CASE k = kind /\ n = name
      <4>1. collected[k][n] = 0
        BY <3>0, <3>2, <1>3
      <4>2. Visited(k, n)' => Visited(k, n)
        BY <1>1 DEF Visited, Kinds
      <4> QED  BY <4>1, <4>2, <3>0, <1>1
    <3>3. CASE k # kind \/ n # name
      <4>1. Visited(k, n)' <=> Visited(k, n)
        BY <3>3, <1>1 DEF Visited, Kinds
      <4> QED  BY <4>1, <3>0, <3>1, <1>1
    <3> QED  BY <3>2, <3>3
  <2> QED  BY <2>1, <2>2 DEF FlushSoFar
<1> QED  BY <1>11, <1>12, <1>13, <1>14 DEF SumInv

LEMMA CallAdds ==
  ASSUME MetricTypeOK, SumInv, NEW g \in Helpers, AddMetric(g)
  PROVE  MetricTypeOK' /\ SumInv'
<1> DEFINE kind == call[g].kind
           name == call[g].name
           diff == call[g].diff
<1>1. /\ call[g].step = "add"
      /\ metrics' = [metrics EXCEPT ![kind][name] = @ + diff]
      /\ returned' = [returned EXCEPT ![kind][name] = @ + diff]
      /\ sums' = [sums EXCEPT ![kind][name] =
           {returned'[kind][name]} \cup IF flush = "no" THEN {} ELSE @]
      /\ mutex' = [mutex EXCEPT ![kind] = Nobody]
      /\ call' = [call EXCEPT ![g] = Idle]
      /\ UNCHANGED <<calls, flush, pending, collected>>
  BY DEF AddMetric
<1>2. call[g] \in Calls /\ call[g] # Idle
  BY <1>1 DEF MetricTypeOK, Idle
<1>3. kind \in Kinds /\ name \in Names /\ diff \in Int /\ name \in DOMAIN metrics[kind]
  BY <1>1, <1>2 DEF Calls, SumInv, CallsKnow
<1>m. \A k \in Kinds, h \in Helpers :
         mutex[k] = h <=> (call[h] # Idle /\ call[h].kind = k)
  BY DEF MetricTypeOK
<1>4. mutex[kind] = g
  BY <1>2, <1>3, <1>m
<1>k. \A k \in Kinds \ {kind} : mutex[k] # g
  BY <1>2, <1>m
<1> HIDE DEF kind, name, diff
<1>5. /\ call' \in [Helpers -> Calls \cup {Idle}] /\ call'[g] = Idle
      /\ \A h \in Helpers \ {g} : call'[h] = call[h]
  BY <1>1 DEF MetricTypeOK
<1>6. /\ mutex' \in [Kinds -> Helpers \cup {Nobody}] /\ mutex'[kind] = Nobody
      /\ \A k \in Kinds \ {kind} : mutex'[k] = mutex[k]
  BY <1>1, <1>3 DEF MetricTypeOK
<1>7. \A k \in Kinds, h \in Helpers :
        mutex'[k] = h <=> (call'[h] # Idle /\ call'[h].kind = k)
  <2> TAKE k \in Kinds, h \in Helpers
  <2>0. mutex[k] = h <=> (call[h] # Idle /\ call[h].kind = k)
    BY <1>m
  <2>1. CASE k = kind /\ h = g
    BY <2>1, <1>5, <1>6, MetricAssumption
  <2>2. CASE k # kind /\ h = g
    BY <2>2, <1>k, <1>5, <1>6
  <2>3. CASE k = kind /\ h # g
    BY <2>0, <2>3, <1>4, <1>5, <1>6, MetricAssumption
  <2>4. CASE k # kind /\ h # g
    BY <2>0, <2>4, <1>5, <1>6
  <2> QED  BY <2>1, <2>2, <2>3, <2>4
<1>8. /\ DOMAIN metrics' = Kinds
      /\ \A k \in Kinds \ {kind} : metrics'[k] = metrics[k]
      /\ metrics'[kind] = [metrics[kind] EXCEPT ![name] = @ + diff]
  BY <1>1, <1>3 DEF MetricTypeOK
<1>9. metrics[kind] \in [DOMAIN metrics[kind] -> Int] /\ DOMAIN metrics[kind] \subseteq Names
  BY <1>3 DEF MetricTypeOK
<1>10. /\ DOMAIN metrics'[kind] = DOMAIN metrics[kind]
       /\ metrics'[kind][name] = metrics[kind][name] + diff
       /\ \A n \in DOMAIN metrics[kind] \ {name} : metrics'[kind][n] = metrics[kind][n]
       /\ metrics'[kind] \in [DOMAIN metrics[kind] -> Int]
  BY <1>3, <1>8, <1>9
<1>11. \A k \in Kinds : DOMAIN metrics'[k] \subseteq Names /\ metrics'[k] \in [DOMAIN metrics'[k] -> Int]
  BY <1>8, <1>9, <1>10 DEF MetricTypeOK
<1>12. /\ returned' \in [Kinds -> [Names -> Int]]
       /\ returned'[kind][name] = returned[kind][name] + diff
       /\ \A k \in Kinds, n \in Names : k # kind \/ n # name => returned'[k][n] = returned[k][n]
  <2>1. returned \in [Kinds -> [Names -> Int]]
    BY DEF MetricTypeOK
  <2> QED  BY <2>1, <1>1, <1>3
<1>s. /\ sums' \in [Kinds -> [Names -> SUBSET Int]]
      /\ returned'[kind][name] \in sums'[kind][name]
      /\ flush # "no" => sums[kind][name] \subseteq sums'[kind][name]
      /\ \A k \in Kinds, n \in Names : k # kind \/ n # name => sums'[k][n] = sums[k][n]
  <2> DEFINE now == {returned'[kind][name]} \cup IF flush = "no" THEN {} ELSE sums[kind][name]
  <2>1. sums \in [Kinds -> [Names -> SUBSET Int]]
    BY DEF MetricTypeOK
  <2>2. sums' = [sums EXCEPT ![kind][name] = now]
    BY <1>1
  <2>3. now \in SUBSET Int /\ returned'[kind][name] \in now
    BY <2>1, <1>3, <1>12
  <2>4. flush # "no" => sums[kind][name] \subseteq now
    OBVIOUS
  <2> HIDE DEF now
  <2> QED  BY <2>1, <2>2, <2>3, <2>4, <1>3
<1>13. MetricTypeOK'
  BY <1>1, <1>5, <1>6, <1>7, <1>8, <1>11, <1>12, <1>s DEF MetricTypeOK
<1>14. CallsKnow'
  <2> SUFFICES ASSUME NEW h \in Helpers, call'[h] # Idle
               PROVE  call'[h].step = "add" <=> call'[h].name \in DOMAIN metrics'[call'[h].kind]
    BY DEF CallsKnow
  <2>1. call'[h] = call[h] /\ call[h] # Idle /\ call[h].kind \in Kinds
    BY <1>5 DEF MetricTypeOK, Calls
  <2>2. DOMAIN metrics'[call[h].kind] = DOMAIN metrics[call[h].kind]
    BY <2>1, <1>8, <1>10
  <2> QED  BY <2>1, <2>2 DEF SumInv, CallsKnow
<1>15. SumsReturned'
  <2> SUFFICES ASSUME NEW k \in Kinds, NEW n \in Names PROVE returned'[k][n] = Sum(k, n)'
    BY DEF SumsReturned
  <2>0. returned[k][n] = IF n \in DOMAIN metrics[k] THEN metrics[k][n] ELSE 0
    BY DEF SumInv, SumsReturned, Sum
  <2>1. CASE k # kind
    BY <2>0, <2>1, <1>8, <1>12 DEF Sum
  <2>2. CASE k = kind /\ n = name
    BY <2>0, <2>2, <1>3, <1>10, <1>12 DEF Sum
  <2>3. CASE k = kind /\ n # name
    BY <2>0, <2>3, <1>10, <1>12 DEF Sum
  <2> QED  BY <2>1, <2>2, <2>3
<1>16. FlushSoFar'
  <2>1. flush' \in Kinds => pending' \subseteq DOMAIN metrics'[flush']
    BY <1>1, <1>8, <1>10 DEF SumInv, FlushSoFar
  <2>2. ASSUME NEW k \in Kinds, NEW n \in Names
        PROVE  /\ returned'[k][n] \in sums'[k][n]
               /\ Visited(k, n)' => collected'[k][n] \in sums'[k][n]
               /\ ~Visited(k, n)' /\ flush' # "failed" => collected'[k][n] = 0
               /\ n \notin DOMAIN metrics'[k] => collected'[k][n] = 0
    <3>0. /\ returned[k][n] \in sums[k][n]
          /\ Visited(k, n) => collected[k][n] \in sums[k][n]
          /\ ~Visited(k, n) /\ flush # "failed" => collected[k][n] = 0
          /\ n \notin DOMAIN metrics[k] => collected[k][n] = 0
      BY DEF SumInv, FlushSoFar
    <3>1. Visited(k, n)' <=> Visited(k, n)
      BY <1>1 DEF Visited
    <3>2. Visited(k, n) => flush # "no"
      BY DEF Visited
    <3>3. DOMAIN metrics'[k] = DOMAIN metrics[k]
      BY <1>8, <1>10
    <3>4. CASE k = kind /\ n = name
      BY <3>0, <3>1, <3>2, <3>3, <3>4, <1>1, <1>s
    <3>5. CASE k # kind \/ n # name
      BY <3>0, <3>1, <3>3, <3>5, <1>1, <1>12, <1>s
    <3> QED  BY <3>4, <3>5
  <2> QED  BY <2>1, <2>2 DEF FlushSoFar
<1> QED  BY <1>13, <1>14, <1>15, <1>16 DEF SumInv

(* The flush.  Nothing else moves.                                         *)
LEMMA FlushStarts ==
  ASSUME MetricTypeOK, SumInv, FlushBegins
  PROVE  MetricTypeOK' /\ SumInv'
<1>1. /\ flush = "no" /\ flush' = "count" /\ pending' = DOMAIN metrics["count"]
      /\ UNCHANGED <<metrics, mutex, call, calls, collected, returned, sums>>
  BY DEF FlushBegins
<1>2. MetricTypeOK'
  BY <1>1 DEF MetricTypeOK, Kinds
<1>3. CallsKnow' /\ SumsReturned'
  BY <1>1 DEF SumInv, CallsKnow, SumsReturned, Sum
<1>4. ASSUME NEW k \in Kinds, NEW n \in Names
      PROVE  /\ returned'[k][n] \in sums'[k][n]
             /\ Visited(k, n)' => collected'[k][n] \in sums'[k][n]
             /\ collected'[k][n] = 0
  <2>0. returned[k][n] \in sums[k][n] /\ collected[k][n] = 0
    BY <1>1 DEF SumInv, FlushSoFar, Visited
  <2>2. Visited(k, n)' => k = "count" /\ n \notin DOMAIN metrics["count"]
    BY <1>1 DEF Visited
  <2>3. Visited(k, n)' => returned[k][n] = 0
    BY <2>2 DEF SumInv, SumsReturned, Sum
  <2> QED  BY <1>1, <2>0, <2>3
<1>5. FlushSoFar'
  BY <1>1, <1>4 DEF FlushSoFar
<1> QED  BY <1>2, <1>3, <1>5 DEF SumInv

LEMMA FlushAdds ==
  ASSUME MetricTypeOK, SumInv, NEW name \in Names, FlushOne(name)
  PROVE  MetricTypeOK' /\ SumInv'
<1>1. /\ flush \in Kinds /\ name \in pending
      /\ collected' = [collected EXCEPT ![flush][name] = @ + metrics[flush][name]]
      /\ pending' = pending \ {name}
      /\ UNCHANGED <<metrics, mutex, call, calls, flush, returned, sums>>
  BY DEF FlushOne
<1>0. pending \subseteq DOMAIN metrics[flush]
  BY <1>1 DEF SumInv, FlushSoFar
<1>2. name \in DOMAIN metrics[flush] /\ metrics[flush][name] \in Int
  <2>2. metrics[flush] \in [DOMAIN metrics[flush] -> Int]
    BY <1>1 DEF MetricTypeOK
  <2> QED  BY <1>0, <1>1, <2>2
<1>3. /\ collected' \in [Kinds -> [Names -> Int]]
      /\ collected'[flush][name] = collected[flush][name] + metrics[flush][name]
      /\ \A k \in Kinds, n \in Names : k # flush \/ n # name => collected'[k][n] = collected[k][n]
  <2>1. collected \in [Kinds -> [Names -> Int]]
    BY DEF MetricTypeOK
  <2> QED  BY <2>1, <1>1, <1>2
<1>4. MetricTypeOK'
  BY <1>1, <1>3 DEF MetricTypeOK
<1>5. CallsKnow' /\ SumsReturned'
  BY <1>1 DEF SumInv, CallsKnow, SumsReturned, Sum
<1>6. ASSUME NEW k \in Kinds, NEW n \in Names
      PROVE  /\ returned'[k][n] \in sums'[k][n]
             /\ Visited(k, n)' => collected'[k][n] \in sums'[k][n]
             /\ ~Visited(k, n)' /\ flush' # "failed" => collected'[k][n] = 0
             /\ n \notin DOMAIN metrics'[k] => collected'[k][n] = 0
  <2>0. /\ returned[k][n] \in sums[k][n]
        /\ Visited(k, n) => collected[k][n] \in sums[k][n]
        /\ ~Visited(k, n) /\ flush # "failed" => collected[k][n] = 0
        /\ n \notin DOMAIN metrics[k] => collected[k][n] = 0
    BY DEF SumInv, FlushSoFar
  <2>1. CASE k = flush /\ n = name
    <3>1. ~Visited(k, n) /\ Visited(k, n)' /\ flush # "failed"
      BY <2>1, <1>1 DEF Visited, Kinds
    <3>2. returned[k][n] = metrics[k][n]
      BY <2>1, <1>2 DEF SumInv, SumsReturned, Sum
    <3>4. collected'[k][n] = metrics[k][n]
      <4>1. collected[k][n] = 0
        BY <2>0, <3>1
      <4> QED  BY <4>1, <2>1, <1>2, <1>3
    <3> QED  BY <2>0, <2>1, <3>1, <3>2, <3>4, <1>1, <1>2
  <2>2. CASE k # flush \/ n # name
    <3>1. Visited(k, n)' <=> Visited(k, n)
      BY <2>2, <1>1 DEF Visited, Kinds
    <3> QED  BY <2>0, <2>2, <3>1, <1>1, <1>3
  <2> QED  BY <2>1, <2>2
<1>7. FlushSoFar'
  BY <1>0, <1>1, <1>6 DEF FlushSoFar
<1> QED  BY <1>4, <1>5, <1>7 DEF SumInv

LEMMA FlushMovesOn ==
  ASSUME MetricTypeOK, SumInv, FlushGoesOn
  PROVE  MetricTypeOK' /\ SumInv'
<1>1. /\ pending = {}
      /\ \/ flush = "count" /\ flush' = "hist" /\ pending' = DOMAIN metrics["hist"]
         \/ flush = "hist" /\ flush' = "done" /\ pending' = pending
      /\ UNCHANGED <<metrics, mutex, call, calls, collected, returned, sums>>
  BY DEF FlushGoesOn
<1>2. MetricTypeOK'
  BY <1>1 DEF MetricTypeOK, Kinds
<1>3. CallsKnow' /\ SumsReturned'
  BY <1>1 DEF SumInv, CallsKnow, SumsReturned, Sum
<1>4. ASSUME NEW k \in Kinds, NEW n \in Names
      PROVE  /\ returned'[k][n] \in sums'[k][n]
             /\ Visited(k, n)' => collected'[k][n] \in sums'[k][n]
             /\ ~Visited(k, n)' => collected'[k][n] = 0
             /\ n \notin DOMAIN metrics'[k] => collected'[k][n] = 0
  <2>0. /\ returned[k][n] \in sums[k][n]
        /\ Visited(k, n) => collected[k][n] \in sums[k][n]
        /\ ~Visited(k, n) => collected[k][n] = 0
        /\ n \notin DOMAIN metrics[k] => collected[k][n] = 0
    BY <1>1 DEF SumInv, FlushSoFar
  <2>1. Visited(k, n) => Visited(k, n)'
    BY <1>1 DEF Visited, Kinds
  <2>2. Visited(k, n)' /\ ~Visited(k, n) => k = "hist" /\ n \notin DOMAIN metrics["hist"]
    BY <1>1 DEF Visited, Kinds
  <2>3. Visited(k, n)' /\ ~Visited(k, n) => returned[k][n] = 0
    BY <2>2 DEF SumInv, SumsReturned, Sum
  <2> QED  BY <1>1, <2>0, <2>1, <2>3
<1>5. FlushSoFar'
  BY <1>1, <1>4 DEF FlushSoFar, Kinds
<1> QED  BY <1>2, <1>3, <1>5 DEF SumInv

LEMMA FlushBreaksOff ==
  ASSUME MetricTypeOK, SumInv, FlushFails
  PROVE  MetricTypeOK' /\ SumInv'
<1>1. /\ flush' = "failed"
      /\ UNCHANGED <<metrics, mutex, call, calls, pending, collected, returned, sums>>
  BY DEF FlushFails
<1>2. MetricTypeOK'
  BY <1>1 DEF MetricTypeOK
<1>3. CallsKnow' /\ SumsReturned'
  BY <1>1 DEF SumInv, CallsKnow, SumsReturned, Sum
<1>4. FlushSoFar'
  BY <1>1 DEF SumInv, FlushSoFar, Visited, Kinds
<1> QED  BY <1>2, <1>3, <1>4 DEF SumInv

------------------------------------------------------------------------------
(* The invariant of the whole.                                             *)
ChainInv == TypeOK /\ SumInv /\ WayInv

LEMMA ChainStarts == Init => ChainInv /\ (Informational = {} => StatusInv)
<1> SUFFICES ASSUME Init PROVE ChainInv /\ (Informational = {} => StatusInv)  OBVIOUS
<1>1. /\ at = 1 /\ way = "in" /\ passed = FALSE /\ leased = {} /\ actor = FALSE /\ csrfChecked = FALSE
      /\ handler = "uncalled" /\ rw = [status |-> 200, wroteHeader |-> FALSE]
      /\ sent = NoStatus /\ measured = NoStatus /\ asked = NoStatus /\ owed = FALSE
  BY DEF Init
<1>2. /\ metrics = [k \in Kinds |-> [n \in {} |-> 0]]
      /\ mutex = [k \in Kinds |-> Nobody] /\ call = [g \in Helpers |-> Idle]
      /\ calls = 0 /\ flush = "no" /\ pending = {}
      /\ collected = Zero /\ returned = Zero
      /\ sums = [k \in Kinds |-> [n \in Names |-> {0}]]
  BY DEF Init, MetricInit
<1>3. MetricTypeOK
  <2>1. \A k \in Kinds : DOMAIN metrics[k] = {} /\ metrics[k] \in [DOMAIN metrics[k] -> Int]
    BY <1>2
  <2>2. \A k \in Kinds, g \in Helpers : mutex[k] # g /\ call[g] = Idle
    BY <1>2, MetricAssumption
  <2>3. collected \in [Kinds -> [Names -> Int]] /\ returned \in [Kinds -> [Names -> Int]]
    BY <1>2 DEF Zero
  <2>4. DOMAIN metrics = Kinds /\ mutex \in [Kinds -> Helpers \cup {Nobody}]
          /\ call \in [Helpers -> Calls \cup {Idle}]
    BY <1>2
  <2>5. calls \in 0..MaxCalls
    BY <1>2, MetricAssumption
  <2>6. flush \in Kinds \cup {"no", "done", "failed"} /\ pending \subseteq Names
    BY <1>2
  <2>7. sums \in [Kinds -> [Names -> SUBSET Int]]
    BY <1>2
  <2> QED  BY <2>1, <2>2, <2>3, <2>4, <2>5, <2>6, <2>7 DEF MetricTypeOK
<1>4. Shapes
  <2>1. Where
    BY <1>1, Length DEF Where, Ends
  <2>2. rw \in [status : 100..599, wroteHeader : BOOLEAN]
    BY <1>1
  <2>3. passed \in BOOLEAN /\ actor \in BOOLEAN /\ csrfChecked \in BOOLEAN /\ owed \in BOOLEAN
    BY <1>1
  <2> QED  BY <1>1, <2>1, <2>2, <2>3 DEF Shapes
<1>5. SumInv
  BY <1>2 DEF SumInv, CallsKnow, SumsReturned, Sum, FlushSoFar, Visited, Zero, Kinds
<1>6. WayInv
  BY <1>1, <1>2, Length DEF WayInv, HandlerStage, PassedInside, LeasedInside,
    Admitted, OnlyAdmittedHandled, OwedIsPaid
<1>7. StatusInv
  BY <1>1 DEF StatusInv, WrittenIsSent, MeasuredSoFar
<1> QED  BY <1>3, <1>4, <1>5, <1>6, <1>7, TypeParts DEF ChainInv

LEMMA StatusesSplit ==
  ASSUME NEW st \in Statuses \cup Informational
  PROVE  st \in 100..599 /\ (Informational = {} => st >= 200)
<1>1. Statuses \subseteq 200..599 /\ Informational \subseteq 100..199
  <2>1. Statuses \subseteq 200..599 /\ Informational \subseteq (100..199) \ {101}
    BY ChainAssumption, Zenon
  <2> QED  BY <2>1
<1> QED  BY <1>1

(* The middleware: every outcome has its lemma.                            *)
LEMMA MiddlewareStep ==
  ASSUME ChainInv, Middleware
  PROVE  ChainInv' /\ (Informational = {} /\ StatusInv => StatusInv')
<1>1. MetricTypeOK /\ Shapes /\ SumInv /\ WayInv
  BY TypeParts DEF ChainInv
<1>2. MetricTypeOK' /\ SumInv'
  BY <1>1, SumsUntouched DEF Middleware
<1>4. Shapes' /\ WayInv' /\ (Informational = {} /\ StatusInv => StatusInv')
  <2>1. CASE MakeContext
    <3>0. /\ Entering("context")
          /\ UNCHANGED <<actor, csrfChecked, handler, rw, measured, asked>>
      BY <2>1 DEF MakeContext
    <3>1. CASE CreateContextWithTimeout /\ CallNext /\ passed' = TRUE /\ UNCHANGED <<sent, owed>>
      BY <1>1, <3>0, <3>1, ContextMade DEF CallNext
    <3>2. CASE CreateContextWithTimeout /\ Panic("logger") /\ UNCHANGED <<passed, sent>>
      <4>1. leased' \in SUBSET {"clone", "timer"}
        BY <3>2 DEF CreateContextWithTimeout
      <4> QED  BY <1>1, <3>0, <3>2, <4>1, ContextPanics DEF Panic
    <3>3. CASE Panic("configuration") /\ UNCHANGED <<passed, leased, sent>>
      <4>1. leased' \in SUBSET {"clone", "timer"}
        BY <1>1, <3>3 DEF Shapes
      <4> QED  BY <1>1, <3>0, <3>3, <4>1, ContextPanics DEF Panic
    <3>4. CASE Return /\ sent' = Send(500) /\ UNCHANGED <<passed, leased, owed>>
      BY <1>1, <3>0, <3>4, ContextFails
    <3> QED  BY <2>1, <3>1, <3>2, <3>3, <3>4 DEF MakeContext
  <2>2. CASE ReleaseContext
    BY <1>1, <2>2, ContextReleases DEF ReleaseContext, statusVars
  <2>3. CASE PassInBystander
    <3>0. /\ way = "in" /\ Chain[at] \in Bystanders
          /\ UNCHANGED <<passed, leased, actor, csrfChecked, handler, rw, sent, measured, asked>>
      BY <2>3 DEF PassInBystander, requestVars
    <3>1. CASE CallNext /\ UNCHANGED owed
      BY <1>1, <3>0, <3>1, BystanderPassedIn DEF CallNext
    <3>2. CASE Chain[at] \in {"start time", "tracing"} /\ Panic("logger")
      BY <1>1, <3>0, <3>2, BystanderPanics DEF Panic
    <3> QED  BY <2>3, <3>1, <3>2 DEF PassInBystander
  <2>4. CASE PassOutBystander
    BY <1>1, <2>4, PassedOut DEF PassOutBystander, requestVars, statusVars
  <2>5. CASE Recover
    BY <1>1, <2>5, PanicRecovered DEF Recover, requestVars
  <2>6. CASE Unwind
    BY <1>1, <2>6, PanicUnwinds DEF Unwind, requestVars, statusVars
  <2>7. CASE StartMetrics
    BY <1>1, <2>7, MetricsStarted DEF StartMetrics, requestVars, CallNext
  <2>8. CASE FinishMetrics
    <3>1. Leaving("metrics") /\ UNCHANGED <<passed, leased, actor, csrfChecked, handler, rw, sent, asked>>
      BY <2>8 DEF FinishMetrics, requestVars
    <3>2. CASE Panic("labels") /\ UNCHANGED measured
      BY <1>1, <3>1, <3>2, MetricsPanic DEF Panic
    <3>3. CASE measured' = rw.status /\ Panic("hit info")
      BY <1>1, <3>1, <3>3, MetricsPanic DEF Panic
    <3>4. CASE measured' = rw.status /\ Return /\ UNCHANGED owed
      BY <1>1, <3>1, <3>4, MetricsFinished
    <3> QED  BY <2>8, <3>2, <3>3, <3>4 DEF FinishMetrics
  <2>9. CASE AuthRest
    <3>1. Entering("auth")
      BY <2>9 DEF AuthRest
    <3>2. CASE AnswerError(401)
      BY <1>1, <3>1, <3>2, CheckAnswers DEF AnswerError, requestVars
    <3>5. CASE AnswerError(500)
      BY <1>1, <3>1, <3>5, CheckAnswers DEF AnswerError, requestVars
    <3>3. ASSUME NEW place \in {"authorizer", "logger"},
                 Panic(place), UNCHANGED <<requestVars, rw, sent, measured, asked>>
          PROVE  Shapes' /\ WayInv' /\ (Informational = {} /\ StatusInv => StatusInv')
      BY <1>1, <3>1, <3>3, CheckPanics DEF Panic, requestVars
    <3>4. CASE actor' = TRUE /\ CallNext /\ UNCHANGED <<passed, leased, csrfChecked, handler, statusVars>>
      BY <1>1, <3>1, <3>4, ActorFound DEF CallNext, statusVars
    <3> QED  BY <2>9, <3>2, <3>5, <3>3, <3>4 DEF AuthRest
  <2>10. CASE CheckCSRF
    <3>1. Entering("csrf")
      BY <2>10 DEF CheckCSRF
    <3>2. CASE AnswerError(401)
      BY <1>1, <3>1, <3>2, CheckAnswers DEF AnswerError, requestVars
    <3>3. ASSUME NEW place \in {"authorizer", "error handler"},
                 Panic(place), UNCHANGED <<requestVars, rw, sent, measured, asked>>
          PROVE  Shapes' /\ WayInv' /\ (Informational = {} /\ StatusInv => StatusInv')
      BY <1>1, <3>1, <3>3, CheckPanics DEF Panic, requestVars
    <3>4. CASE csrfChecked' = TRUE /\ CallNext /\ UNCHANGED <<passed, leased, actor, handler, statusVars>>
      BY <1>1, <3>1, <3>4, TokenFound DEF CallNext, statusVars
    <3> QED  BY <2>10, <3>2, <3>3, <3>4 DEF CheckCSRF
  <2>11. CASE CallHandler
    BY <1>1, <2>11, HandlerCalled DEF CallHandler, statusVars
  <2>12. CASE HandlerWrites
    <3>1. Entering("handler") /\ handler = "runs"
          /\ UNCHANGED <<at, way, passed, leased, actor, csrfChecked, handler, measured, owed>>
      BY <2>12 DEF HandlerWrites, requestVars
    <3>2. ASSUME NEW st \in 100..599, Informational = {} => st >= 200, WriteHeader(st)
          PROVE  Shapes' /\ WayInv' /\ (Informational = {} /\ StatusInv => StatusInv')
      BY <1>1, <3>1, <3>2, HeaderWritten
    <3>3. CASE Write
      <4>1. CASE rw.wroteHeader
        BY <1>1, <3>1, <3>3, <4>1, DataWritten DEF Write
      <4>2. CASE ~rw.wroteHeader
        <5>1. WriteHeader(200)
          BY <3>3, <4>2 DEF Write
        <5> QED  BY <5>1, <3>2
      <4> QED  BY <4>1, <4>2
    <3>4. ASSUME NEW st \in Statuses \cup Informational, WriteHeader(st)
          PROVE  Shapes' /\ WayInv' /\ (Informational = {} /\ StatusInv => StatusInv')
      <4>1. st \in 100..599 /\ (Informational = {} => st >= 200)
        BY StatusesSplit
      <4> QED  BY <4>1, <3>2, <3>4
    <3> QED  BY <2>12, <3>3, <3>4 DEF HandlerWrites
  <2>13. CASE HandlerReturns
    BY <1>1, <2>13, HandlerDone DEF HandlerReturns, statusVars
  <2>14. CASE HandlerPanics
    BY <1>1, <2>14, HandlerUnwinds DEF HandlerPanics, Panic
  <2>15. CASE FinishRequest
    BY <1>1, <2>15, RequestFinished DEF FinishRequest, requestVars
  <2> QED  BY <2>1, <2>2, <2>3, <2>4, <2>5, <2>6, <2>7, <2>8, <2>9, <2>10, <2>11,
              <2>12, <2>13, <2>14, <2>15 DEF Middleware
<1>5. TypeOK'
  BY <1>2, <1>4 DEF TypeOK, Shapes, Where, End
<1> QED  BY <1>2, <1>4, <1>5 DEF ChainInv

(* The flush keeps the way of the request.                                 *)
LEMMA FlushStep ==
  ASSUME ChainInv, BeginFlush \/ Flush
  PROVE  ChainInv' /\ (Informational = {} /\ StatusInv => StatusInv')
<1>1. MetricTypeOK /\ Shapes /\ SumInv /\ WayInv
  BY TypeParts DEF ChainInv
<1>2. Leaving("metrics")
        /\ UNCHANGED <<at, way, passed, leased, actor, csrfChecked, handler, rw, sent, measured, asked, owed>>
  BY DEF BeginFlush, Flush, chainVars, requestVars, statusVars
<1>4. MetricTypeOK' /\ SumInv'
  <2>1. CASE BeginFlush
    BY <1>1, <2>1, FlushStarts DEF BeginFlush
  <2>2. CASE FlushGoesOn
    BY <1>1, <2>2, FlushMovesOn
  <2>3. ASSUME NEW name \in pending, FlushOne(name) PROVE MetricTypeOK' /\ SumInv'
    <3>1. name \in Names
      BY <1>1 DEF MetricTypeOK
    <3> QED  BY <1>1, <2>3, <3>1, FlushAdds
  <2> QED  BY <2>1, <2>2, <2>3 DEF Flush
<1>7. Shapes'
  BY <1>1, <1>2 DEF Shapes, Where
<1>8. HandlerStage' /\ PassedInside' /\ LeasedInside' /\ Admitted' /\ OwedIsPaid'
  BY <1>1, <1>2 DEF WayInv, HandlerStage, PassedInside, LeasedInside, Admitted, OnlyAdmittedHandled, OwedIsPaid
<1>11. StatusInv => StatusInv'
  BY <1>2 DEF StatusInv, WrittenIsSent, MeasuredSoFar
<1>12. TypeOK'
  BY <1>4, <1>7 DEF TypeOK, Shapes, Where, End
<1> QED  BY <1>4, <1>8, <1>11, <1>12 DEF ChainInv, WayInv

LEMMA FlushPanicsStep ==
  ASSUME ChainInv, FlushPanics
  PROVE  ChainInv' /\ (Informational = {} /\ StatusInv => StatusInv')
<1>1. MetricTypeOK /\ Shapes /\ SumInv /\ WayInv
  BY TypeParts DEF ChainInv
<1>2. FlushFails
  BY DEF FlushPanics
<1>3. Shapes' /\ WayInv' /\ (Informational = {} /\ StatusInv => StatusInv')
  <2>1. Leaving("metrics") /\ BeginPanic
        /\ UNCHANGED <<passed, leased, actor, csrfChecked, handler, rw, sent, measured, asked>>
    BY DEF FlushPanics, requestVars
  <2> QED  BY <1>1, <2>1, MetricsPanic
<1>4. MetricTypeOK' /\ SumInv'
  BY <1>1, <1>2, FlushBreaksOff
<1>5. TypeOK'
  BY <1>3, <1>4 DEF TypeOK, Shapes, Where, End
<1> QED  BY <1>3, <1>4, <1>5 DEF ChainInv

(* A goroutine of the handler moves only the metrics.                      *)
LEMMA HelperStepKeeps ==
  ASSUME ChainInv, NEW g \in Helpers, HelperStep(g)
  PROVE  ChainInv' /\ (Informational = {} /\ StatusInv => StatusInv')
<1>1. MetricTypeOK /\ Shapes /\ SumInv /\ WayInv
  BY TypeParts DEF ChainInv
<1>2. UNCHANGED <<at, way, passed, leased, actor, csrfChecked, handler, rw, sent, measured, asked, owed>>
  BY DEF HelperStep, chainVars, requestVars, statusVars
<1>6. MetricTypeOK' /\ SumInv'
  <2>1. ASSUME NEW kind \in Kinds, NEW name \in Names, NEW diff \in Amounts(kind),
               LockMetric(g, kind, name, diff)
        PROVE  MetricTypeOK' /\ SumInv'
    <3>1. diff \in Int
      BY MetricAssumption DEF Amounts
    <3> QED  BY <1>1, <2>1, <3>1, CallLocks
  <2>2. CASE InsertMetric(g)
    BY <1>1, <2>2, CallInserts
  <2>3. CASE AddMetric(g)
    BY <1>1, <2>3, CallAdds
  <2> QED  BY <2>1, <2>2, <2>3 DEF HelperStep, BeginCall, GoOn
<1>7. Shapes'
  BY <1>1, <1>2 DEF Shapes, Where
<1>8. HandlerStage' /\ PassedInside' /\ LeasedInside' /\ Admitted' /\ OwedIsPaid'
  BY <1>1, <1>2 DEF WayInv, HandlerStage, PassedInside, LeasedInside, Admitted, OnlyAdmittedHandled, OwedIsPaid
<1>10. StatusInv => StatusInv'
  BY <1>2 DEF StatusInv, WrittenIsSent, MeasuredSoFar
<1>11. TypeOK'
  BY <1>6, <1>7 DEF TypeOK, Shapes, Where, End
<1> QED  BY <1>6, <1>8, <1>10, <1>11 DEF ChainInv, WayInv

(* The end of the process leaves everything as it is.                      *)
LEMMA ProcessDiesKeeps ==
  ASSUME ChainInv, NEW g \in Helpers, ProcessDies(g)
  PROVE  ChainInv' /\ (Informational = {} /\ StatusInv => StatusInv')
<1>1. MetricTypeOK /\ Shapes /\ SumInv /\ WayInv
  BY TypeParts DEF ChainInv
<1>2. /\ at' = 0 /\ way' = "crashed"
      /\ UNCHANGED <<passed, leased, actor, csrfChecked, handler, rw, sent, measured, asked, owed>>
      /\ UNCHANGED metricVars
  BY DEF ProcessDies, requestVars, statusVars
<1>3. MetricTypeOK' /\ SumInv'
  BY <1>1, <1>2, SumsUntouched
<1>4. Shapes'
  <2>1. Where'
    BY <1>2, Length DEF Where, Ends
  <2> QED  BY <1>1, <1>2, <2>1 DEF Shapes
<1>5. HandlerStage' /\ PassedInside' /\ LeasedInside'
  BY <1>1, <1>2 DEF WayInv, HandlerStage, PassedInside, LeasedInside
<1>6. Admitted'
  BY <1>1, <1>2 DEF WayInv, Admitted, OnlyAdmittedHandled
<1>7. OwedIsPaid'
  BY <1>1, <1>2 DEF WayInv, OwedIsPaid
<1>8. StatusInv => StatusInv'
  BY <1>1, <1>2, Length DEF StatusInv, WrittenIsSent, MeasuredSoFar, Shapes, Where
<1>9. TypeOK'
  BY <1>3, <1>4 DEF TypeOK, Shapes, Where, End
<1> QED  BY <1>3, <1>5, <1>6, <1>7, <1>8, <1>9 DEF ChainInv, WayInv

LEMMA ChainStep ==
  ChainInv /\ [Next]_vars => ChainInv' /\ (Informational = {} /\ StatusInv => StatusInv')
<1> SUFFICES ASSUME ChainInv, [Next]_vars
             PROVE  ChainInv' /\ (Informational = {} /\ StatusInv => StatusInv')
  OBVIOUS
<1>1. CASE Next
  BY <1>1, MiddlewareStep, FlushStep, FlushPanicsStep, HelperStepKeeps, ProcessDiesKeeps DEF Next
<1>2. CASE UNCHANGED vars
  <2>1. UNCHANGED <<at, way, passed, leased, actor, csrfChecked, handler, rw, sent, measured, asked, owed>>
    BY <1>2 DEF vars, chainVars, requestVars, statusVars
  <2>2. UNCHANGED metricVars
    BY <1>2 DEF vars
  <2>3. MetricTypeOK /\ Shapes /\ SumInv /\ WayInv
    BY TypeParts DEF ChainInv
  <2>4. MetricTypeOK' /\ SumInv'
    BY <2>2, <2>3, SumsUntouched
  <2>5. Shapes'
    BY <2>1, <2>3 DEF Shapes, Where
  <2>6. HandlerStage' /\ PassedInside' /\ LeasedInside' /\ Admitted' /\ OwedIsPaid'
    BY <2>1, <2>3 DEF WayInv, HandlerStage, PassedInside, LeasedInside, Admitted, OnlyAdmittedHandled, OwedIsPaid
  <2>8. StatusInv => StatusInv'
    BY <2>1 DEF StatusInv, WrittenIsSent, MeasuredSoFar
  <2>9. TypeOK'
    BY <2>4, <2>5 DEF TypeOK, Shapes, Where, End
  <2> QED  BY <2>4, <2>6, <2>8, <2>9 DEF ChainInv, WayInv
<1> QED  BY <1>1, <1>2

LEMMA ChainAlways == Spec => []ChainInv
<1>1. ChainInv /\ [Next]_vars => ChainInv'
  BY ChainStep
<1>2. Init => ChainInv
  BY ChainStarts
<1> QED  BY <1>1, <1>2, PTL DEF Spec

------------------------------------------------------------------------------
(* Every variable keeps its type, the mutexes of the sums and the calls    *)
(* agree, and a name in the map is a name: the way of a request never      *)
(* leaves the chain that GetMiddlewares built.                             *)
THEOREM ChainTypeCorrect == Spec => []TypeOK
<1>1. ChainInv => TypeOK
  BY DEF ChainInv
<1> QED  BY <1>1, ChainAlways, PTL

(* Whatever panics from the call of the next middleware on, the context of *)
(* a request that is over has neither its clone of the configuration nor   *)
(* its timer: cancel() is not deferred, and the recovery below it turns    *)
(* every such panic into a return.                                         *)
THEOREM ContextsAreReleased == Spec => []ContextReleased
<1>1. ChainInv => ContextReleased
  BY DEF ChainInv, WayInv, PassedInside, LeasedInside, ContextReleased, Over
<1> QED  BY <1>1, ChainAlways, PTL

(* With authentication the handler sees only requests with an actor, with  *)
(* CSRF only those with the right token, in all four configurations.       *)
THEOREM ChecksComeFirst == Spec => []OnlyAdmittedHandled
<1>1. ChainInv => OnlyAdmittedHandled
  BY DEF ChainInv, WayInv, Admitted
<1> QED  BY <1>1, ChainAlways, PTL

(* A panic behind the first middleware that found nothing sent is answered *)
(* with 500, and does not close the connection.                            *)
THEOREM PanicsGet500 == Spec => []PanicsAnswered
<1>1. ChainInv => PanicsAnswered
  BY DEF ChainInv, WayInv, PassedInside, OwedIsPaid, PanicsAnswered, Over
<1> QED  BY <1>1, ChainAlways, PTL

(* What the collectors are given for a name is its sum at one moment since *)
(* the flush began, for any number of goroutines, names and amounts, also  *)
(* when goroutines go on adding while the flush reads without the mutex.   *)
THEOREM CallsAreCountedOnce == Spec => []EveryCallCounted
<1>1. ChainInv => EveryCallCounted
  BY DEF ChainInv, SumInv, FlushSoFar, Visited, EveryCallCounted
<1> QED  BY <1>1, ChainAlways, PTL

(* When the handler sends no 1xx the statuses agree as well.  With one     *)
(* they do not: the wrapper takes it for the header of the answer.         *)
LEMMA StatusesAlways ==
  ASSUME Informational = {}
  PROVE  Spec => [](ChainInv /\ StatusInv)
<1>1. ChainInv /\ StatusInv /\ [Next]_vars => (ChainInv /\ StatusInv)'
  BY ChainStep
<1>2. Init => ChainInv /\ StatusInv
  BY ChainStarts
<1> QED  BY <1>1, <1>2, PTL DEF Spec

(* The first final status that is written is the answer of the request.    *)
THEOREM FirstStatusIsAnswer ==
  ASSUME Informational = {}
  PROVE  Spec => []AnswerArrives
<1>1. ChainInv /\ StatusInv => AnswerArrives
  BY DEF StatusInv, WrittenIsSent, AnswerArrives
<1>2. Spec => [](ChainInv /\ StatusInv)
  BY StatusesAlways
<1> QED  BY <1>1, <1>2, PTL

(* The status in the histogram of the requests is the one the client got.  *)
THEOREM HistogramTellsTheTruth ==
  ASSUME Informational = {}
  PROVE  Spec => []MeasuredStatusIsSent
<1>1. ChainInv /\ StatusInv => MeasuredStatusIsSent
  BY DEF StatusInv, MeasuredSoFar, MeasuredStatusIsSent, Finished
<1>2. Spec => [](ChainInv /\ StatusInv)
  BY StatusesAlways
<1> QED  BY <1>1, <1>2, PTL
==============================================================================
