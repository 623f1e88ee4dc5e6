----------------------------- MODULE RestServer -----------------------------
(***************************************************************************)
(* pkg/app/rest/server.go and closer.go: the REST transport, which follows *)
(* changes of its timeouts by replacing its http.Server, and its shutdown. *)
(*                                                                         *)
(* http.Servers are numbered: 0 is the one Init made, r the one restart r  *)
(* made.  Each is served by a goroutine of the errgroup of the same        *)
(* number.  Init, which runs before anything else, is the initial state.   *)
(* The four timeouts are two here, the read and the write timeout: the     *)
(* header timeout is read and written like these, and the idle timeout is  *)
(* the read timeout.                                                       *)
(*                                                                         *)
(* Of net/http.Server: ListenAndServe refuses when Shutdown was called,    *)
(* binds the port (which fails while another listener has it), and only    *)
(* then registers its listener, or closes it if Shutdown was called        *)
(* meanwhile.  Shutdown closes the registered listeners and waits for the  *)
(* requests that are being served; when its context expires it leaves them *)
(* as they are.                                                            *)
(***************************************************************************)
EXTENDS Integers, Functions

CONSTANTS
  Configs,        \* what the provider may return, records [read, write]
  HandlerTimeouts, \* what ResolveHandlerTimeout may return; 0 is none
  Stoppers,       \* callers of ShutdownHTTP: GracefulStop, Shutdown
  Nobody,         \* the holder of a free mutex
  EarlyChanges,   \* the configuration may change before server 0 serves
  MaxChanges      \* bound: changes of the configuration

ASSUME RestAssumption ==
  /\ Configs \subseteq [read : Nat, write : Nat]
  /\ HandlerTimeouts \subseteq Nat
  /\ Nobody \notin Nat \cup Stoppers
  /\ Stoppers \cap Nat = {}
  /\ EarlyChanges \in BOOLEAN
  /\ MaxChanges \in Nat

Restarts == 1..MaxChanges
Servers == 0..MaxChanges

VARIABLES
  config,         \* what the provider returns now
  changes,        \* how often it has changed
  notified,       \* a callback is due
  callback,       \* where the callback, updateTimeouts, is
  got,            \* the configuration it read
  changed,        \* its variable of that name
  unread,         \* the last callback could not read the configuration;
                  \* no code reads it
  readTimeout, writeTimeout,   \* the atomics
  running,        \* Run was called: errGr is set
  restarts,       \* restartServer goroutines started
  restart,        \* restart -> where its goroutine is
  mu,             \* who holds Server.mu
  httpSrv,        \* the server in the field httpSrv
  settings,       \* server -> the timeouts it was made with
  closed,         \* servers on which Shutdown was called
  inFlight,       \* servers that are serving a request
  granted,        \* server -> the time the handler of its request has,
                  \* or 0: it has no deadline, or there is no request
  abandoned,      \* servers a restart stopped waiting for; no code reads it
  serve,          \* errgroup goroutine -> where it is
  on,             \* errgroup goroutine -> the server it listens for
  failed,         \* a goroutine of the errgroup returned an error
  shuttingDown,   \* Server.shuttingDown
  stop            \* stopper -> where its ShutdownHTTP is

configVars == <<config, changes, notified>>
callbackVars == <<callback, got, changed, unread, readTimeout, writeTimeout>>
restartVars == <<restarts, restart>>
requestVars == <<inFlight, granted>>
serverVars == <<httpSrv, settings, closed, requestVars, abandoned>>
serveVars == <<serve, on, failed>>
stopVars == <<shuttingDown, stop>>
vars == <<configVars, callbackVars, running, restartVars, mu, serverVars,
          serveVars, stopVars>>

(* Server.mu is held by whoever is between its Lock and its Unlock.        *)
MutexHeld ==
  /\ \A r \in Restarts : (restart[r] \notin {"none", "lock", "done"}) <=> (mu = r)
  /\ \A s \in Stoppers : (stop[s] = "drain") <=> (mu = s)

TypeOK ==
  /\ MutexHeld
  /\ config \in Configs /\ got \in Configs
  /\ changes \in 0..MaxChanges /\ restarts \in 0..changes
  /\ {notified, changed, unread, running, failed, shuttingDown} \subseteq BOOLEAN
  /\ callback \in {"idle", "load", "store read", "store write", "spawn"}
  /\ readTimeout \in Nat /\ writeTimeout \in Nat
  /\ restart \in [Restarts -> {"none", "lock", "load write", "load read",
                               "close", "drain", "install", "done"}]
  /\ mu \in {Nobody} \cup Restarts \cup Stoppers
  /\ httpSrv \in Servers
  /\ settings \in [Servers -> [read : Nat, write : Nat]]
  /\ closed \subseteq Servers /\ inFlight \subseteq Servers
  /\ granted \in [Servers -> Nat]
  /\ abandoned \subseteq closed
  /\ serve \in [Servers -> {"none", "read", "start", "listen", "bound",
                            "serving", "done"}]
  /\ on \in [Servers -> Servers]
  /\ stop \in [Stoppers -> {"none", "lock", "drain", "clean", "expired"}]

Init ==
  /\ config \in Configs /\ changes = 0 /\ notified = FALSE
  /\ callback = "idle" /\ got = config /\ changed = FALSE /\ unread = FALSE
  /\ readTimeout = config.read /\ writeTimeout = config.write
  /\ running = FALSE
  /\ restarts = 0 /\ restart = [r \in Restarts |-> "none"]
  /\ mu = Nobody
  /\ httpSrv = 0
  /\ settings = [n \in Servers |-> config]
  /\ closed = {} /\ inFlight = {} /\ abandoned = {}
  /\ granted = [n \in Servers |-> 0]
  /\ serve = [n \in Servers |-> "none"] /\ on = [n \in Servers |-> n]
  /\ failed = FALSE
  /\ shuttingDown = FALSE /\ stop = [s \in Stoppers |-> "none"]

------------------------------------------------------------------------------
(* The configuration provider.                                             *)

ConfigChanges ==
  /\ changes < MaxChanges
  /\ EarlyChanges \/ serve[0] \in {"serving", "done"}
  /\ config' \in Configs \ {config}
  /\ changes' = changes + 1
  /\ notified' = TRUE
  /\ UNCHANGED <<callbackVars, running, restartVars, mu, serverVars, serveVars, stopVars>>

(* One callback at a time; changes that come together may share one.       *)
CallbackStarts ==
  /\ notified /\ callback = "idle"
  /\ notified' = FALSE
  /\ callback' = "load"
  /\ UNCHANGED <<config, changes, got, changed, unread, readTimeout,
                 writeTimeout, running, restartVars, mu, serverVars, serveVars, stopVars>>

(* updateTimeouts: no one else writes the atomics, so reading the          *)
(* configuration and comparing it with them is one step.                   *)
CallbackLoads ==
  /\ callback = "load"
  /\ got' = config
  /\ changed' = (readTimeout # config.read \/ writeTimeout # config.write)
  /\ callback' = "store read" /\ unread' = FALSE
  /\ UNCHANGED <<configVars, readTimeout, writeTimeout, running, restartVars,
                 mu, serverVars, serveVars, stopVars>>

(* GetServerConfig returns an error: nothing is stored or restarted.       *)
CallbackFails ==
  /\ callback = "load"
  /\ callback' = "idle" /\ unread' = TRUE
  /\ UNCHANGED <<configVars, got, changed, readTimeout, writeTimeout, running,
                 restartVars, mu, serverVars, serveVars, stopVars>>

CallbackStoresRead ==
  /\ callback = "store read"
  /\ readTimeout' = got.read
  /\ callback' = "store write"
  /\ UNCHANGED <<configVars, got, changed, unread, writeTimeout, running, restartVars,
                 mu, serverVars, serveVars, stopVars>>

CallbackStoresWrite ==
  /\ callback = "store write"
  /\ writeTimeout' = got.write
  /\ callback' = "spawn"
  /\ UNCHANGED <<configVars, got, changed, unread, readTimeout, running, restartVars,
                 mu, serverVars, serveVars, stopVars>>

CallbackSpawns ==
  /\ callback = "spawn"
  /\ callback' = "idle"
  /\ IF changed /\ running
       THEN /\ restarts' = restarts + 1
            /\ restart' = [restart EXCEPT ![restarts + 1] = "lock"]
       ELSE UNCHANGED restartVars
  /\ UNCHANGED <<configVars, got, changed, unread, readTimeout, writeTimeout,
                 running, mu, serverVars, serveVars, stopVars>>

Callback ==
  CallbackStarts \/ CallbackLoads \/ CallbackFails \/ CallbackStoresRead \/ CallbackStoresWrite
    \/ CallbackSpawns

------------------------------------------------------------------------------
(* http.Server.                                                            *)

PortTaken == \E g \in Servers : serve[g] \in {"bound", "serving"}

(* The first part of Shutdown: the registered listeners are closed, and    *)
(* the goroutines in Accept return with ErrServerClosed.                   *)
CloseServer(n) ==
  /\ closed' = closed \cup {n}
  /\ serve' = [g \in Servers |->
                 IF on[g] = n /\ serve[g] = "serving" THEN "done" ELSE serve[g]]

StartListening(g) ==
  /\ serve[g] = "start"
  /\ serve' = [serve EXCEPT ![g] = IF on[g] \in closed THEN "done" ELSE "listen"]
  /\ UNCHANGED <<configVars, callbackVars, running, restartVars, mu, serverVars,
                 on, failed, stopVars>>

Bind(g) ==
  /\ serve[g] = "listen"
  /\ serve' = [serve EXCEPT ![g] = IF PortTaken THEN "done" ELSE "bound"]
  /\ failed' = (failed \/ PortTaken)
  /\ UNCHANGED <<configVars, callbackVars, running, restartVars, mu, serverVars,
                 on, stopVars>>

RegisterListener(g) ==
  /\ serve[g] = "bound"
  /\ serve' = [serve EXCEPT ![g] = IF on[g] \in closed THEN "done" ELSE "serving"]
  /\ UNCHANGED <<configVars, callbackVars, running, restartVars, mu, serverVars,
                 on, failed, stopVars>>

ListenAndServe(g) == StartListening(g) \/ Bind(g) \/ RegisterListener(g)

(* The handler timeout is cut to the write timeout, when there is one; a   *)
(* handler without a timeout gets no deadline.                             *)
Clamped(timeout, limit) ==
  IF limit > 0 /\ timeout > limit THEN limit ELSE timeout

(* Mutant: the middleware asks the configuration provider.                 *)
RequestArrivesEarly(n) ==
  /\ \E g \in Servers : on[g] = n /\ serve[g] = "serving"
  /\ n \notin inFlight
  /\ inFlight' = inFlight \cup {n}
  /\ \E timeout \in HandlerTimeouts :
       granted' = [granted EXCEPT ![n] = Clamped(timeout, config.write)]
  /\ UNCHANGED <<configVars, callbackVars, running, restartVars, mu, httpSrv,
                 settings, closed, abandoned, serveVars, stopVars>>

(* A server carries requests, here one at a time, from when it accepts on. *)
(* The middleware resolves the timeout of the handler, any one, and cuts   *)
(* it to what GetWriteTimeout returns at that moment.                      *)
RequestArrives(n) ==
  /\ \E g \in Servers : on[g] = n /\ serve[g] = "serving"
  /\ n \notin inFlight
  /\ inFlight' = inFlight \cup {n}
  /\ \E timeout \in HandlerTimeouts :
       granted' = [granted EXCEPT ![n] = Clamped(timeout, writeTimeout)]
  /\ UNCHANGED <<configVars, callbackVars, running, restartVars, mu, httpSrv,
                 settings, closed, abandoned, serveVars, stopVars>>

RequestEnds(n) ==
  /\ n \in inFlight
  /\ inFlight' = inFlight \ {n}
  /\ granted' = [granted EXCEPT ![n] = 0]
  /\ UNCHANGED <<configVars, callbackVars, running, restartVars, mu, httpSrv,
                 settings, closed, abandoned, serveVars, stopVars>>

------------------------------------------------------------------------------
(* Run: errGr is set, and the goroutine that it starts reads httpSrv, with *)
(* no lock, when it comes to run.                                          *)

Run ==
  /\ ~running
  /\ running' = TRUE
  /\ serve' = [serve EXCEPT ![0] = "read"]
  /\ UNCHANGED <<configVars, callbackVars, restartVars, mu, serverVars, on,
                 failed, stopVars>>

RunReadsServer ==
  /\ serve[0] = "read"
  /\ on' = [on EXCEPT ![0] = httpSrv]
  /\ serve' = [serve EXCEPT ![0] = "start"]
  /\ UNCHANGED <<configVars, callbackVars, running, restartVars, mu, serverVars,
                 failed, stopVars>>

------------------------------------------------------------------------------
(* restartServer, goroutine r.                                             *)

(* Mutant: a restart goes ahead during the final shutdown.                 *)
RestartLocksAlways(r) ==
  /\ restart[r] = "lock" /\ mu = Nobody
  /\ restart' = [restart EXCEPT ![r] = "load write"] /\ mu' = r
  /\ UNCHANGED <<configVars, callbackVars, running, restarts, serverVars,
                 serveVars, stopVars>>

(* Mutant: the restart that is called off keeps the mutex.                 *)
RestartLocksKept(r) ==
  /\ restart[r] = "lock" /\ mu = Nobody
  /\ restart' = [restart EXCEPT ![r] = IF shuttingDown THEN "done" ELSE "load write"]
  /\ mu' = r
  /\ UNCHANGED <<configVars, callbackVars, running, restarts, serverVars,
                 serveVars, stopVars>>

RestartLocks(r) ==
  /\ restart[r] = "lock" /\ mu = Nobody
  /\ IF shuttingDown
       THEN restart' = [restart EXCEPT ![r] = "done"] /\ UNCHANGED mu
       ELSE restart' = [restart EXCEPT ![r] = "load write"] /\ mu' = r
  /\ UNCHANGED <<configVars, callbackVars, running, restarts, serverVars,
                 serveVars, stopVars>>

RestartLoadsWrite(r) ==
  /\ restart[r] = "load write"
  /\ settings' = [settings EXCEPT ![r].write = writeTimeout]
  /\ restart' = [restart EXCEPT ![r] = "load read"]
  /\ UNCHANGED <<configVars, callbackVars, running, restarts, mu, httpSrv, closed,
                 requestVars, abandoned, serveVars, stopVars>>

RestartLoadsRead(r) ==
  /\ restart[r] = "load read"
  /\ settings' = [settings EXCEPT ![r].read = readTimeout]
  /\ restart' = [restart EXCEPT ![r] = "close"]
  /\ UNCHANGED <<configVars, callbackVars, running, restarts, mu, httpSrv, closed,
                 requestVars, abandoned, serveVars, stopVars>>

RestartClosesOld(r) ==
  /\ restart[r] = "close"
  /\ CloseServer(httpSrv)
  /\ restart' = [restart EXCEPT ![r] = "drain"]
  /\ UNCHANGED <<configVars, callbackVars, running, restarts, mu, httpSrv, settings,
                 requestVars, abandoned, on, failed, stopVars>>

(* Mutant: the old server is not waited for.                               *)
RestartDrainsNot(r) ==
  /\ restart[r] = "drain"
  /\ restart' = [restart EXCEPT ![r] = "install"]
  /\ UNCHANGED <<configVars, callbackVars, running, restarts, mu, serverVars,
                 serveVars, stopVars>>

(* The requests end, or the five seconds do.                               *)
RestartDrains(r) ==
  /\ restart[r] = "drain"
  /\ abandoned' = abandoned \cup (inFlight \cap {httpSrv})
  /\ restart' = [restart EXCEPT ![r] = "install"]
  /\ UNCHANGED <<configVars, callbackVars, running, restarts, mu, httpSrv, settings,
                 closed, requestVars, serveVars, stopVars>>

(* Mutant: the field keeps the old server.                                 *)
RestartInstallsNot(r) ==
  /\ restart[r] = "install"
  /\ serve' = [serve EXCEPT ![r] = "start"]
  /\ restart' = [restart EXCEPT ![r] = "done"]
  /\ mu' = Nobody
  /\ UNCHANGED <<configVars, callbackVars, running, restarts, serverVars, on,
                 failed, stopVars>>

RestartInstalls(r) ==
  /\ restart[r] = "install"
  /\ httpSrv' = r
  /\ serve' = [serve EXCEPT ![r] = "start"]
  /\ restart' = [restart EXCEPT ![r] = "done"]
  /\ mu' = Nobody
  /\ UNCHANGED <<configVars, callbackVars, running, restarts, settings, closed,
                 requestVars, abandoned, on, failed, stopVars>>

Restart(r) ==
  \/ RestartLocks(r) \/ RestartLoadsWrite(r) \/ RestartLoadsRead(r)
  \/ RestartClosesOld(r) \/ RestartDrains(r) \/ RestartInstalls(r)

------------------------------------------------------------------------------
(* ShutdownHTTP, called by GracefulStop or Shutdown once the App is in its *)
(* gracefulStop, which is after Run.                                       *)

StopBegins(s) ==
  /\ running /\ stop[s] = "none"
  /\ shuttingDown' = TRUE
  /\ stop' = [stop EXCEPT ![s] = "lock"]
  /\ UNCHANGED <<configVars, callbackVars, running, restartVars, mu, serverVars,
                 serveVars>>

(* Mutant: a restart in progress is not waited for.                        *)
StopClosesUnlocked(s) ==
  /\ stop[s] = "lock"
  /\ CloseServer(httpSrv)
  /\ stop' = [stop EXCEPT ![s] = "drain"]
  /\ UNCHANGED <<configVars, callbackVars, running, restartVars, mu, httpSrv, settings,
                 requestVars, abandoned, on, failed, shuttingDown>>

StopCloses(s) ==
  /\ stop[s] = "lock" /\ mu = Nobody
  /\ mu' = s
  /\ CloseServer(httpSrv)
  /\ stop' = [stop EXCEPT ![s] = "drain"]
  /\ UNCHANGED <<configVars, callbackVars, running, restartVars, httpSrv, settings,
                 requestVars, abandoned, on, failed, shuttingDown>>

(* Shutdown returns nil when the requests have ended, or the error of its  *)
(* context.                                                                *)
StopEnds(s) ==
  /\ stop[s] = "drain"
  /\ mu' = Nobody
  /\ stop' = [stop EXCEPT ![s] = IF httpSrv \in inFlight THEN "expired" ELSE "clean"]
  /\ UNCHANGED <<configVars, callbackVars, running, restartVars, serverVars,
                 serveVars, shuttingDown>>

Stop(s) == StopBegins(s) \/ StopCloses(s) \/ StopEnds(s)

------------------------------------------------------------------------------
Next ==
  \/ ConfigChanges \/ Callback
  \/ Run \/ RunReadsServer
  \/ \E g \in Servers : ListenAndServe(g)
  \/ \E n \in Servers : RequestArrives(n) \/ RequestEnds(n)
  \/ \E r \in Restarts : Restart(r)
  \/ \E s \in Stoppers : Stop(s)

Spec == Init /\ [][Next]_vars

(* Goroutines run, and a mutex that becomes free again and again is        *)
(* obtained (sync.Mutex hands over to a waiter that has starved for 1 ms). *)
FairSpec ==
  /\ Spec
  /\ WF_vars(Callback) /\ WF_vars(Run) /\ WF_vars(RunReadsServer)
  /\ \A g \in Servers : WF_vars(ListenAndServe(g))
  /\ \A r \in Restarts : SF_vars(Restart(r))
  /\ \A s \in Stoppers : SF_vars(StopCloses(s)) /\ WF_vars(StopEnds(s))

------------------------------------------------------------------------------
(* Once a ShutdownHTTP has returned the port stays silent: no restart that *)
(* was under way, and no goroutine that had yet to listen, serves again.   *)
NothingServesAfterStop ==
  (\E s \in Stoppers : stop[s] \in {"clean", "expired"}) =>
    /\ \A g \in Servers : serve[g] # "serving"
    /\ \A g \in Servers : serve[g] \in {"start", "listen", "bound"} => on[g] \in closed

(* A ShutdownHTTP that returns nil leaves no request unanswered, on any    *)
(* server, but those a restart had given up after its five seconds.        *)
CleanStopLosesNoRequest ==
  (\E s \in Stoppers : stop[s] = "clean") => inFlight \subseteq abandoned

Quiet ==
  /\ ~notified /\ callback = "idle"
  /\ \A r \in Restarts : restart[r] \in {"none", "done"}
  /\ running /\ ~shuttingDown /\ ~failed
  /\ \A g \in Servers : serve[g] \in {"none", "serving", "done"}

(* server.go:35-38, "При изменении таймаутов — graceful restart            *)
(* http.Server": when the changes have been dealt with, the server in the  *)
(* field httpSrv serves, with the configured timeouts, both of the same    *)
(* configuration, unless a callback could not read it.                     *)
TimeoutsInForce ==
  Quiet /\ ~unread =>
           /\ \E g \in Servers : serve[g] = "serving" /\ on[g] = httpSrv
           /\ settings[httpSrv] = config

(* The deadline of the handler is past the server's write timeout.         *)
OutlastsServer(n) == 0 < settings[n].write /\ settings[n].write < granted[n]

(* Shutdown was called on the server, or is bound to be, by a restart that *)
(* a callback is about to start, by one under way or by the final one.     *)
GoesAway(n) ==
  \/ n \in closed \/ shuttingDown
  \/ callback = "spawn" /\ changed /\ running
  \/ \E r \in Restarts : restart[r] \in {"lock", "load write", "load read", "close"}

(* mw.go:78, "handler timeout must be <= write timeout": no deadline of a  *)
(* handler is past the write timeout of the server that carries the        *)
(* request, but on a server that goes away.  The middleware compares with  *)
(* the atomic, which is ahead of the server from the callback's store on,  *)
(* until the restart of that callback has replaced the server.  A request  *)
(* for which no timeout is configured has no deadline.                     *)
HandlersWithinWriteTimeout ==
  \A n \in inFlight : OutlastsServer(n) => GoesAway(n)

(* server.go:38: a change of timeouts restarts the server, it does not end *)
(* it.  No goroutine finds the port taken, which would stop the whole App. *)
RestartsKeepServing == ~failed

(* Every ShutdownHTTP returns, and with it every goroutine of the          *)
(* errgroup, for which App.Run waits.                                      *)
StopCompletes ==
  \A s \in Stoppers :
    stop[s] = "lock" ~> /\ stop[s] \in {"clean", "expired"}
                        /\ \A g \in Servers : serve[g] \in {"none", "done"}
==============================================================================
