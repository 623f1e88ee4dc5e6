---------------------------- MODULE RequestChain ----------------------------
(***************************************************************************)
(* pkg/app/rest/mw: one request on its way through the middleware that     *)
(* GetMiddlewares chains around a handler, and back, with the panics that  *)
(* unwind through it.                                                      *)
(*                                                                         *)
(* Requests share nothing here, so one is enough.  Outside the metrics     *)
(* middleware answers are written to the http.ResponseWriter of net/http,  *)
(* inside it to the wrapper responseWriter.  What matters of the response  *)
(* is its status; bodies, headers and logging are left out.                *)
(*                                                                         *)
(* The goroutines a handler works with add to the cumulative metrics of    *)
(* the request, module CumulativeMetric.  No code waits for them: they may *)
(* outlive the handler, and the request.                                   *)
(*                                                                         *)
(* PanicsIn names what may panic; the event logger, which the recovery     *)
(* itself calls, is taken not to.                                          *)
(***************************************************************************)
EXTENDS CumulativeMetric, Sequences, Functions

CONSTANTS
  AuthEnabled, CSRFEnabled,   \* what SecurityConfigProvider answers
  Statuses,                   \* final statuses handlers choose
  Informational,              \* 1xx statuses handlers send before
  PanicsIn                    \* code called by the chain that may panic:
    \* "configuration" is ResolveHandlerTimeout and onlineconf.Clone, "logger"
    \* TransportConfigPath, ReWrap and LoggerUpdater

ASSUME ChainAssumption ==
  /\ {AuthEnabled, CSRFEnabled} \subseteq BOOLEAN
  /\ Statuses \subseteq 200..599 /\ Informational \subseteq (100..199) \ {101}
  /\ PanicsIn \subseteq {"configuration", "logger", "authorizer", "error handler",
                          "handler", "labels", "hit info"}

(* Mutant: the recovery wraps the making of the context.                   *)
ChainRecoveryFirst ==
  <<"recovery", "context", "start time", "tracing", "metrics", "x-server">>
    \o (IF AuthEnabled THEN <<"auth">> ELSE <<>>)
    \o (IF CSRFEnabled THEN <<"csrf">> ELSE <<>>)
    \o <<"handler">>

(* GetMiddlewares, then the loop in Server.Init that wraps from the last.  *)
Chain ==
  <<"context", "recovery", "start time", "tracing", "metrics", "x-server">>
    \o (IF AuthEnabled THEN <<"auth">> ELSE <<>>)
    \o (IF CSRFEnabled THEN <<"csrf">> ELSE <<>>)
    \o <<"handler">>

NoStatus == 0

VARIABLES
  at,          \* the index in Chain of the function that runs
  way,         \* whether it was just called, its next has returned, or a
               \* panic is unwinding it; "served" when ServeHTTP returned,
               \* "aborted" when it panicked, "crashed" when the process died
  passed,      \* the first middleware called the next; no code reads it
  leased,      \* what the context of the request holds: a clone of the
               \* configuration and, with a timeout, a timer
  actor,       \* the context of the request carries an actor
  csrfChecked, \* CheckCSRF said yes; no code reads it
  handler,     \* how far the handler of the application is
  rw,          \* the responseWriter: its status and wroteHeader
  sent,        \* the status on the connection, or NoStatus
  measured,    \* the status given to metricHTTP, or NoStatus
  asked,       \* the first final status handed to the responseWriter;
               \* no code reads it
  owed         \* a panic found nothing sent; no code reads it

requestVars == <<passed, leased, actor, csrfChecked, handler>>
statusVars == <<rw, sent, measured, asked, owed>>
chainVars == <<at, way, requestVars, statusVars>>
vars == <<chainVars, metricVars>>

Ends == {"served", "aborted", "crashed"}

TypeOK ==
  /\ MetricTypeOK
  /\ at \in 0..Len(Chain)
  /\ way \in {"in", "out", "panic"} \cup Ends /\ (way \in Ends <=> at = 0)
  /\ passed \in BOOLEAN
  /\ leased \subseteq {"clone", "timer"}
  /\ actor \in BOOLEAN /\ csrfChecked \in BOOLEAN /\ owed \in BOOLEAN
  /\ handler \in {"uncalled", "runs", "returned", "panicked"}
  /\ rw \in [status : 100..599, wroteHeader : BOOLEAN]
  /\ sent \in {NoStatus} \cup 200..599 /\ asked \in {NoStatus} \cup 200..599
  /\ measured \in {NoStatus} \cup 100..599

Init ==
  /\ at = 1 /\ way = "in" /\ passed = FALSE
  /\ leased = {} /\ actor = FALSE /\ csrfChecked = FALSE /\ handler = "uncalled"
  /\ rw = [status |-> 200, wroteHeader |-> FALSE]
  /\ sent = NoStatus /\ measured = NoStatus /\ asked = NoStatus
  /\ owed = FALSE
  /\ MetricInit

------------------------------------------------------------------------------
(* Calls and returns along the chain.                                      *)

Entering(stage) == way = "in" /\ at > 0 /\ Chain[at] = stage
Leaving(stage) == way = "out" /\ at > 0 /\ Chain[at] = stage

CallNext == at' = at + 1 /\ UNCHANGED way
Return == at' = at - 1 /\ way' = IF at = 1 THEN "served" ELSE "out"

(* A panic that nothing recovers ends in net/http, which closes the        *)
(* connection without an answer.                                           *)
Unwinding == at' = at - 1 /\ way' = IF at = 1 THEN "aborted" ELSE "panic"
BeginPanic == Unwinding /\ owed' = (sent = NoStatus)
Panic(place) == place \in PanicsIn /\ BeginPanic

(* net/http takes the first final status; none at all is an implicit 200.  *)
Send(status) == IF sent = NoStatus /\ status >= 200 THEN status ELSE sent

(* Mutants of responseWriter.WriteHeader: a second call goes through to    *)
(* the status; the header is not passed on.                                *)
WriteHeaderTwice(status) ==
  /\ rw' = [status |-> status, wroteHeader |-> TRUE]
  /\ sent' = Send(status)
  /\ asked' = IF asked = NoStatus /\ status >= 200 THEN status ELSE asked
WriteHeaderKept(status) ==
  /\ rw' = IF rw.wroteHeader THEN rw ELSE [status |-> status, wroteHeader |-> TRUE]
  /\ asked' = IF asked = NoStatus /\ status >= 200 THEN status ELSE asked
  /\ UNCHANGED sent

(* responseWriter.WriteHeader: only the first call does anything.          *)
WriteHeader(status) ==
  /\ IF rw.wroteHeader
       THEN UNCHANGED <<rw, sent>>
       ELSE rw' = [status |-> status, wroteHeader |-> TRUE] /\ sent' = Send(status)
  /\ asked' = IF asked = NoStatus /\ status >= 200 THEN status ELSE asked

(* responseWriter.Write: after a 1xx nothing final was sent, and net/http  *)
(* sends 200.                                                              *)
Write ==
  IF rw.wroteHeader
    THEN sent' = Send(200) /\ UNCHANGED <<rw, asked>>
    ELSE WriteHeader(200)

(* http.Error, or the RestErrorHandler, inside the metrics middleware.     *)
AnswerError(status) ==
  /\ WriteHeader(status) /\ Return
  /\ UNCHANGED <<requestVars, measured, owed>>

------------------------------------------------------------------------------
(* The middleware, from the outside in.                                    *)

(* A handler timeout of 0 is none.                                         *)
CreateContextWithTimeout == leased' \in {{"clone"}, {"clone", "timer"}}

(* Without a clone of the configuration the answer is 500 at once.  What   *)
(* is called before next is outside the recovery: a panic there aborts the *)
(* request, and passes cancel() by when the context has been made.         *)
MakeContext ==
  /\ Entering("context")
  /\ \/ CreateContextWithTimeout /\ CallNext /\ passed' = TRUE /\ UNCHANGED <<sent, owed>>
     \/ CreateContextWithTimeout /\ Panic("logger") /\ UNCHANGED <<passed, sent>>
     \/ Panic("configuration") /\ UNCHANGED <<passed, leased, sent>>
     \/ Return /\ sent' = Send(500) /\ UNCHANGED <<passed, leased, owed>>
  /\ UNCHANGED <<actor, csrfChecked, handler, rw, measured, asked>>

(* cancel() is not deferred: a panic would pass it by.                     *)
ReleaseContext ==
  /\ Leaving("context")
  /\ leased' = {}
  /\ Return
  /\ UNCHANGED <<passed, actor, csrfChecked, handler, statusVars>>

(* Middleware that only adds to the context, of the request or of its      *)
(* logger, or sets a header.  SetRequestID cannot fail: getTracingID never *)
(* returns an empty id.                                                    *)
Bystanders == {"recovery", "start time", "tracing", "x-server"}

PassInBystander ==
  /\ way = "in" /\ Chain[at] \in Bystanders
  /\ \/ CallNext /\ UNCHANGED owed
     \/ Chain[at] \in {"start time", "tracing"} /\ Panic("logger")
  /\ UNCHANGED <<requestVars, rw, sent, measured, asked>>

PassOutBystander ==
  /\ way = "out" /\ Chain[at] \in Bystanders \cup {"auth", "csrf"}
  /\ Return
  /\ UNCHANGED <<requestVars, statusVars>>

(* Mutant: the panic is swallowed without an answer.                       *)
RecoverSilently ==
  /\ way = "panic" /\ at > 0 /\ Chain[at] = "recovery"
  /\ Return
  /\ UNCHANGED <<requestVars, statusVars>>

Recover ==
  /\ way = "panic" /\ at > 0 /\ Chain[at] = "recovery"
  /\ sent' = Send(500)
  /\ Return
  /\ UNCHANGED <<requestVars, rw, measured, asked, owed>>

Unwind ==
  /\ way = "panic" /\ at > 0 /\ Chain[at] # "recovery"
  /\ Unwinding
  /\ UNCHANGED <<requestVars, statusVars>>

(* Mutant: the wrapper does not start with 200.                            *)
StartMetricsUnset ==
  /\ Entering("metrics")
  /\ rw' = [status |-> NoStatus, wroteHeader |-> FALSE]
  /\ CallNext
  /\ UNCHANGED <<requestVars, sent, measured, asked, owed>>

StartMetrics ==
  /\ Entering("metrics")
  /\ rw' = [status |-> 200, wroteHeader |-> FALSE]
  /\ CallNext
  /\ UNCHANGED <<requestVars, sent, measured, asked, owed>>

(* FlushCumulativeMetric, when next.ServeHTTP has returned.                *)
BeginFlush ==
  /\ Leaving("metrics")
  /\ FlushBegins
  /\ UNCHANGED chainVars

Flush ==
  /\ Leaving("metrics")
  /\ FlushGoesOn \/ \E name \in pending : FlushOne(name)
  /\ UNCHANGED chainVars

(* For a negative sum; or in WithLabelValues, for a path or a name that is *)
(* not UTF-8.                                                              *)
FlushPanics ==
  /\ Leaving("metrics")
  /\ \E name \in pending : Refused(name) \/ "labels" \in PanicsIn
  /\ FlushFails
  /\ BeginPanic
  /\ UNCHANGED <<requestVars, rw, sent, measured, asked>>

(* Then the histogram of the requests, and HitInfo of the service.         *)
FinishMetrics ==
  /\ Leaving("metrics") /\ flush = "done"
  /\ \/ Panic("labels") /\ UNCHANGED measured
     \/ measured' = rw.status /\ Panic("hit info")
     \/ measured' = rw.status /\ Return /\ UNCHANGED owed
  /\ UNCHANGED <<requestVars, rw, sent, asked>>

(* Mutant: the request goes on after the 401.                              *)
AuthRestGoesOn ==
  /\ Entering("auth")
  /\ \/ WriteHeader(401) /\ CallNext /\ UNCHANGED actor
     \/ actor' = TRUE /\ CallNext /\ UNCHANGED <<rw, sent, asked>>
  /\ UNCHANGED <<passed, leased, csrfChecked, handler, measured, owed>>

(* No actor: 401.  An actor without id: 500.  A nil one: GetID panics.     *)
(* SetActor adds the actor to the logger first.                            *)
AuthRest ==
  /\ Entering("auth")
  /\ \/ AnswerError(401)
     \/ AnswerError(500)
     \/ \E place \in {"authorizer", "logger"} :
          Panic(place) /\ UNCHANGED <<requestVars, rw, sent, measured, asked>>
     \/ actor' = TRUE /\ CallNext
          /\ UNCHANGED <<passed, leased, csrfChecked, handler, statusVars>>

(* An absent or a wrong token: RestErrorHandler.NotAuthorizedError.  That  *)
(* of EmptyErrorHandler panics.                                            *)
CheckCSRF ==
  /\ Entering("csrf")
  /\ \/ AnswerError(401)
     \/ \E place \in {"authorizer", "error handler"} :
          Panic(place) /\ UNCHANGED <<requestVars, rw, sent, measured, asked>>
     \/ csrfChecked' = TRUE /\ CallNext
          /\ UNCHANGED <<passed, leased, actor, handler, statusVars>>

CallHandler ==
  /\ Entering("handler") /\ handler = "uncalled"
  /\ handler' = "runs"
  /\ UNCHANGED <<at, way, passed, leased, actor, csrfChecked, statusVars>>

(* The handler writes headers and data, in any order, then returns.        *)
HandlerWrites ==
  /\ Entering("handler") /\ handler = "runs"
  /\ Write \/ \E status \in Statuses \cup Informational : WriteHeader(status)
  /\ UNCHANGED <<at, way, requestVars, measured, owed>>

HandlerReturns ==
  /\ Entering("handler") /\ handler = "runs"
  /\ handler' = "returned"
  /\ Return
  /\ UNCHANGED <<passed, leased, actor, csrfChecked, statusVars>>

HandlerPanics ==
  /\ Entering("handler") /\ handler = "runs"
  /\ handler' = "panicked"
  /\ Panic("handler")
  /\ UNCHANGED <<passed, leased, actor, csrfChecked, rw, sent, measured, asked>>

(* A goroutine of the handler, for as long as the process lives.           *)
HelperStep(g) ==
  /\ way # "crashed"
  /\ \/ handler # "uncalled" /\ BeginCall(g)
     \/ GoOn(g)
  /\ UNCHANGED chainVars

(* "fatal error: concurrent map iteration and map write", when the runtime *)
(* notices: no recovery, the whole process is gone.                        *)
ProcessDies(g) ==
  /\ way # "crashed" /\ Races(g)
  /\ at' = 0 /\ way' = "crashed"
  /\ UNCHANGED <<requestVars, statusVars, metricVars>>

(* net/http sends 200 when ServeHTTP returned and nothing was written.     *)
FinishRequest ==
  /\ way = "served" /\ sent = NoStatus
  /\ sent' = 200
  /\ UNCHANGED <<at, way, requestVars, rw, measured, asked, owed>>

Middleware ==
  /\ \/ MakeContext \/ ReleaseContext
     \/ PassInBystander \/ PassOutBystander
     \/ Recover \/ Unwind
     \/ StartMetrics \/ FinishMetrics
     \/ AuthRest \/ CheckCSRF
     \/ CallHandler \/ HandlerWrites \/ HandlerReturns \/ HandlerPanics
     \/ FinishRequest
  /\ UNCHANGED metricVars

Next ==
  \/ Middleware
  \/ BeginFlush \/ Flush \/ FlushPanics
  \/ \E g \in Helpers : HelperStep(g) \/ ProcessDies(g)

Spec == Init /\ [][Next]_vars

------------------------------------------------------------------------------
Finished == way = "served" /\ sent # NoStatus
Over == way \in {"served", "aborted"}

(* From the call of the next middleware on (mw.go:110) no panic keeps the  *)
(* timer of the request's context and its clone of the configuration:      *)
(* cancel() is not deferred, and only the place of the recovery in the     *)
(* chain sees to it.  A panic at mw.go:98-108 does keep them.              *)
ContextReleased == Over /\ passed => leased = {}

(* No request gets to the handler past an enabled check: with              *)
(* authentication it carries an actor, with CSRF its token was right.      *)
OnlyAdmittedHandled ==
  handler # "uncalled" =>
    (AuthEnabled => actor) /\ (CSRFEnabled => csrfChecked)

(* metrics.go:28, "wraps http.ResponseWriter to capture status code":      *)
(* the status in the metrics is the one the client got, unless HitInfo     *)
(* panicked after the measurement with nothing sent.                       *)
MeasuredStatusIsSent ==
  Finished /\ measured # NoStatus /\ ~owed => measured = sent

(* The first final status that a handler or a check writes is the answer,  *)
(* also when the handler, or the middleware after it, panics later.        *)
AnswerArrives == Finished /\ asked # NoStatus => sent = asked

(* A panic behind the first middleware that found nothing sent is answered *)
(* with 500; it never ends as a connection closed without an answer, as a  *)
(* panic in the first middleware itself does.                              *)
PanicsAnswered == Over /\ passed /\ owed => sent = 500
==============================================================================
