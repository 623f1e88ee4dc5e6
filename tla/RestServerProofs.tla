-------------------------- MODULE RestServerProofs --------------------------
(***************************************************************************)
(* Proofs about RestServer.  The inductive invariant has four layers, each *)
(* proved with the help of the ones before it: who holds the mutex and     *)
(* what has been started (BaseInv); which servers accept requests          *)
(* (ServeInv); which timeouts they have (FollowInv, which holds only when  *)
(* the configuration does not change before the App serves); how long      *)
(* their handlers have (DeadlineInv).                                      *)
(***************************************************************************)
EXTENDS RestServer, TLAPS

ActiveStates == {"load write", "load read", "close", "drain", "install"}
Listening == {"start", "listen", "bound", "serving"}
Storing == {"store read", "store write", "spawn"}
RestartStates == {"none", "lock", "done"} \cup ActiveStates
ServeStates == {"none", "read", "done"} \cup Listening
StopStates == {"none", "lock", "drain", "clean", "expired"}
Settings == [read : Nat, write : Nat]

(* A change of the configuration is announced, then dealt with by a        *)
(* callback, then by a restart: each makes at most one of the next.        *)
ChangesCounted ==
  restarts + (IF notified THEN 1 ELSE 0) + (IF callback = "idle" THEN 0 ELSE 1) <= changes

RestartsInOrder == \A r \in Restarts : restart[r] = "none" <=> r > restarts

NotRunning == ~running => restarts = 0 /\ \A g \in Servers : serve[g] = "none"

(* While a restart waits for the old server and makes the new one the old  *)
(* one is closed already.                                                  *)
ClosedFirst == \A r \in Restarts : restart[r] \in {"drain", "install"} => httpSrv \in closed

BaseInv == TypeOK /\ ChangesCounted /\ RestartsInOrder /\ NotRunning /\ ClosedFirst

(* Arithmetic of the servers and of who may hold the mutex.                  *)
LEMMA Numbers ==
  /\ Restarts \subseteq Servers /\ Servers \subseteq Nat /\ 0 \in Servers /\ 0 \notin Restarts
  /\ \A n \in Servers : n = 0 \/ n \in Restarts
  /\ \A r \in Restarts : r > 0 /\ r # Nobody /\ r \notin Stoppers
  /\ Nobody \notin Stoppers /\ MaxChanges \in Nat
BY RestAssumption DEF Restarts, Servers

(* TypeOK without what relates two variables, in the form the provers use. *)
Shapes ==
  /\ config \in Configs /\ got \in Configs
  /\ changes \in 0..MaxChanges /\ restarts \in 0..changes
  /\ notified \in BOOLEAN /\ changed \in BOOLEAN /\ unread \in BOOLEAN
  /\ running \in BOOLEAN /\ failed \in BOOLEAN /\ shuttingDown \in BOOLEAN
  /\ callback \in {"idle", "load"} \cup Storing
  /\ readTimeout \in Nat /\ writeTimeout \in Nat
  /\ restart \in [Restarts -> RestartStates]
  /\ mu \in {Nobody} \cup Restarts \cup Stoppers
  /\ httpSrv \in Servers /\ settings \in [Servers -> Settings]
  /\ closed \in SUBSET Servers /\ inFlight \in SUBSET Servers
  /\ granted \in [Servers -> Nat] /\ abandoned \in SUBSET closed
  /\ serve \in [Servers -> ServeStates] /\ on \in [Servers -> Servers]
  /\ stop \in [Stoppers -> StopStates]

LEMMA TypesGiveShapes == ASSUME TypeOK PROVE Shapes
<1>1. /\ notified \in BOOLEAN /\ changed \in BOOLEAN /\ unread \in BOOLEAN
      /\ running \in BOOLEAN /\ failed \in BOOLEAN /\ shuttingDown \in BOOLEAN
  BY DEF TypeOK
<1> QED
  BY <1>1 DEF TypeOK, Shapes, RestartStates, ActiveStates, ServeStates, Listening,
       StopStates, Settings, Storing

Installed(n) == n = 0 \/ restart[n] = "done"

(* A server is nobody's business before its restart is done.               *)
OnlyInstalledUsed ==
  /\ Installed(httpSrv)
  /\ \A n \in Servers : n \in closed \cup inFlight => Installed(n)

(* The goroutine started for a server listens for that server.             *)
OwnServer ==
  /\ on[httpSrv] = httpSrv
  /\ \A r \in Restarts : on[r] = r

ClosedDoNotServe == \A g \in Servers : serve[g] = "serving" => on[g] \notin closed

OldAreClosed ==
  \A g \in Servers : serve[g] \in Listening => on[g] = httpSrv \/ on[g] \in closed

RequestsKnown ==
  /\ inFlight \subseteq abandoned \cup {httpSrv}
  /\ \A r \in Restarts : restart[r] = "install" /\ httpSrv \in inFlight => httpSrv \in abandoned

(* From when a ShutdownHTTP holds the mutex no restart is under way.       *)
StopSilences ==
  \A s \in Stoppers :
    /\ stop[s] # "none" => shuttingDown /\ running
    /\ stop[s] \in {"drain", "clean", "expired"} =>
         /\ httpSrv \in closed
         /\ \A r \in Restarts : restart[r] \notin ActiveStates

Replacing == \E r \in Restarts : restart[r] \in {"drain", "install"}

FieldIsOpen == ~shuttingDown /\ ~Replacing => httpSrv \notin closed

FieldIsServed ==
  running /\ ~shuttingDown /\ ~failed /\ ~Replacing =>
    serve[httpSrv] \in Listening \/ (httpSrv = 0 /\ serve[0] = "read")

ServeInv ==
  /\ OnlyInstalledUsed /\ OwnServer /\ ClosedDoNotServe /\ OldAreClosed
  /\ RequestsKnown /\ StopSilences /\ CleanStopLosesNoRequest
  /\ FieldIsOpen /\ FieldIsServed

ChangesComeLate == changes > 0 => running

(* How far updateTimeouts has come with the configuration it read.         *)
CallbackFollows ==
  /\ callback \in Storing /\ ~changed => readTimeout = got.read /\ writeTimeout = got.write
  /\ callback \in {"store write", "spawn"} => readTimeout = got.read
  /\ callback = "spawn" => writeTimeout = got.write
  /\ ~notified /\ callback \in Storing => got = config /\ ~unread
  /\ ~notified /\ callback = "idle" /\ ~unread =>
       readTimeout = config.read /\ writeTimeout = config.write

(* A restart will read the atomics after the callback under way has stored *)
(* them.                                                                   *)
RestartPending ==
  \/ callback \in Storing /\ changed
  \/ \E r \in Restarts : restart[r] \in {"lock", "load write"}

MadeFollow ==
  \A r \in Restarts :
    /\ restart[r] \in {"load read", "close", "drain", "install"} => settings[r].write = writeTimeout
    /\ restart[r] \in {"close", "drain", "install"} => settings[r].read = readTimeout

FieldFollows ==
  (\A r \in Restarts : restart[r] \in {"none", "done"}) =>
    /\ settings[httpSrv].read = readTimeout
    /\ settings[httpSrv].write = writeTimeout

(* When no restart is still to read the atomics, the server that is being  *)
(* made, or the one in the field, has their values.                        *)
SettingsFollow == ~shuttingDown /\ ~RestartPending => MadeFollow /\ FieldFollows

FollowInv == ChangesComeLate /\ CallbackFollows /\ SettingsFollow

(* A step of the callback does not touch the servers, a step of a listener *)
(* not the timeouts.                                                       *)
LEMMA ServersUntouched ==
  ASSUME BaseInv, ServeInv,
         UNCHANGED <<running, restarts, restart, httpSrv, closed, inFlight, granted,
                     abandoned, serve, on, failed, shuttingDown, stop>>
  PROVE  RestartsInOrder' /\ NotRunning' /\ ClosedFirst' /\ ServeInv'
BY DEF BaseInv, RestartsInOrder, NotRunning, ClosedFirst, ServeInv, OnlyInstalledUsed,
       Installed, OwnServer, ClosedDoNotServe, OldAreClosed, Listening, RequestsKnown,
       StopSilences, ActiveStates, CleanStopLosesNoRequest, FieldIsOpen, Replacing,
       FieldIsServed

LEMMA TimeoutsUntouched ==
  ASSUME FollowInv,
         UNCHANGED <<config, changes, notified, callback, got, changed, unread,
                     readTimeout, writeTimeout, running, restart, httpSrv, settings,
                     granted, shuttingDown>>
  PROVE  FollowInv'
BY DEF FollowInv, ChangesComeLate, CallbackFollows, SettingsFollow, MadeFollow,
       FieldFollows, RestartPending, Storing

(* Each action keeps the invariant; FollowInv needs the changes to come    *)
(* late, which only ConfigChanges itself sees.                             *)
LEMMA ConfigChangesKeeps ==
  ASSUME BaseInv, ServeInv, ConfigChanges
  PROVE  BaseInv' /\ ServeInv' /\ (~EarlyChanges /\ FollowInv => FollowInv')
<1> USE DEF BaseInv, ServeInv
<1>u. UNCHANGED <<callback, got, changed, unread, readTimeout, writeTimeout,
     running, restarts, restart, mu, httpSrv, settings, closed, inFlight,
     granted, abandoned, serve, on, failed, shuttingDown, stop>>
  BY DEF ConfigChanges, configVars, callbackVars, restartVars, requestVars,
       serverVars, serveVars, stopVars
<1>t. Shapes  BY TypesGiveShapes
<1>a. /\ changes < MaxChanges
      /\ EarlyChanges \/ serve[0] \in {"serving", "done"}
      /\ config' \in Configs \ {config}
      /\ changes' = changes + 1
      /\ notified' = TRUE
  BY DEF ConfigChanges
<1>1. config' \in Configs
  BY <1>u, <1>a, <1>t DEF Shapes
<1>2. changes' \in 0..MaxChanges
  BY <1>u, <1>a, <1>t, Numbers DEF Shapes
<1>3. notified' \in BOOLEAN
  BY <1>u, <1>a, <1>t DEF Shapes
<1>4. restarts' \in 0..changes'
  BY <1>u, <1>a, <1>t, Numbers DEF Shapes
<1>5. TypeOK'
  BY <1>u, <1>1, <1>2, <1>3, <1>4 DEF TypeOK, MutexHeld, RestartStates,
       ActiveStates, ServeStates, Listening, StopStates, Settings, Storing
<1>6. ChangesCounted'
  BY <1>u, <1>a, <1>t DEF ChangesCounted, Shapes
<1>7. ~EarlyChanges /\ FollowInv => ChangesComeLate'
  BY <1>u, <1>a, <1>t, Numbers DEF ChangesComeLate, NotRunning, FollowInv,
       Shapes
<1>8. ~EarlyChanges /\ FollowInv => CallbackFollows'
  BY <1>u, <1>a, <1>t DEF CallbackFollows, Storing, FollowInv, Shapes
<1>9. RestartsInOrder' /\ NotRunning' /\ ClosedFirst' /\ ServeInv'
  BY <1>u, ServersUntouched
<1>10. FollowInv => SettingsFollow'
  BY <1>u DEF SettingsFollow, MadeFollow, FieldFollows, RestartPending,
       Storing, ActiveStates, FollowInv
<1> QED  BY <1>5, <1>6, <1>7, <1>8, <1>9, <1>10 DEF FollowInv

LEMMA CallbackStartsKeeps ==
  ASSUME BaseInv, ServeInv, CallbackStarts
  PROVE  BaseInv' /\ ServeInv' /\ (FollowInv => FollowInv')
<1> USE DEF BaseInv, ServeInv
<1>u. UNCHANGED <<config, changes, got, changed, unread, readTimeout,
     writeTimeout, running, restarts, restart, mu, httpSrv, settings, closed,
     inFlight, granted, abandoned, serve, on, failed, shuttingDown, stop>>
  BY DEF CallbackStarts, configVars, callbackVars, restartVars, requestVars,
       serverVars, serveVars, stopVars
<1>t. Shapes  BY TypesGiveShapes
<1>a. /\ notified /\ callback = "idle"
      /\ notified' = FALSE
      /\ callback' = "load"
  BY DEF CallbackStarts
<1>1. notified' \in BOOLEAN
  BY <1>u, <1>a, <1>t DEF Shapes
<1>2. callback' \in {"idle", "load"} \cup Storing
  BY <1>u, <1>a, <1>t DEF Shapes, Storing
<1>3. TypeOK'
  BY <1>u, <1>1, <1>2 DEF TypeOK, MutexHeld, RestartStates, ActiveStates,
       ServeStates, Listening, StopStates, Settings, Storing
<1>4. ChangesCounted'
  BY <1>u, <1>a, <1>t DEF ChangesCounted, Shapes
<1>5. FollowInv => CallbackFollows'
  BY <1>u, <1>a, <1>t DEF CallbackFollows, Storing, FollowInv, Shapes
<1>6. FollowInv => SettingsFollow'
  BY <1>u, <1>a, <1>t DEF SettingsFollow, MadeFollow, FieldFollows,
       RestartPending, Storing, ActiveStates, FollowInv, Shapes
<1>7. RestartsInOrder' /\ NotRunning' /\ ClosedFirst' /\ ServeInv'
  BY <1>u, ServersUntouched
<1>8. FollowInv => ChangesComeLate'
  BY <1>u DEF ChangesComeLate, FollowInv
<1> QED  BY <1>3, <1>4, <1>5, <1>6, <1>7, <1>8 DEF FollowInv

LEMMA CallbackLoadsKeeps ==
  ASSUME BaseInv, ServeInv, CallbackLoads
  PROVE  BaseInv' /\ ServeInv' /\ (FollowInv => FollowInv')
<1> USE DEF BaseInv, ServeInv
<1>u. UNCHANGED <<config, changes, notified, readTimeout, writeTimeout,
     running, restarts, restart, mu, httpSrv, settings, closed, inFlight,
     granted, abandoned, serve, on, failed, shuttingDown, stop>>
  BY DEF CallbackLoads, configVars, callbackVars, restartVars, requestVars,
       serverVars, serveVars, stopVars
<1>t. Shapes  BY TypesGiveShapes
<1>a. /\ callback = "load"
      /\ got' = config
      /\ changed' = (readTimeout # config.read \/ writeTimeout # config.write)
      /\ callback' = "store read" /\ unread' = FALSE
  BY DEF CallbackLoads
<1>1. callback' \in {"idle", "load"} \cup Storing
  BY <1>u, <1>a, <1>t DEF Shapes, Storing
<1>2. got' \in Configs
  BY <1>u, <1>a, <1>t DEF Shapes
<1>3. changed' \in BOOLEAN
  BY <1>u, <1>a, <1>t DEF Shapes
<1>4. unread' \in BOOLEAN
  BY <1>u, <1>a, <1>t DEF Shapes
<1>5. TypeOK'
  BY <1>u, <1>1, <1>2, <1>3, <1>4 DEF TypeOK, MutexHeld, RestartStates,
       ActiveStates, ServeStates, Listening, StopStates, Settings, Storing
<1>6. ChangesCounted'
  BY <1>u, <1>a, <1>t DEF ChangesCounted, Shapes
<1>7. FollowInv => CallbackFollows'
  BY <1>u, <1>a, <1>t DEF CallbackFollows, Storing, FollowInv, Shapes
<1>8. FollowInv => SettingsFollow'
  BY <1>u, <1>a, <1>t DEF SettingsFollow, MadeFollow, FieldFollows,
       RestartPending, Storing, ActiveStates, FollowInv, Shapes
<1>9. RestartsInOrder' /\ NotRunning' /\ ClosedFirst' /\ ServeInv'
  BY <1>u, ServersUntouched
<1>10. FollowInv => ChangesComeLate'
  BY <1>u DEF ChangesComeLate, FollowInv
<1> QED  BY <1>5, <1>6, <1>7, <1>8, <1>9, <1>10 DEF FollowInv

LEMMA CallbackFailsKeeps ==
  ASSUME BaseInv, ServeInv, CallbackFails
  PROVE  BaseInv' /\ ServeInv' /\ (FollowInv => FollowInv')
<1> USE DEF BaseInv, ServeInv
<1>u. UNCHANGED <<config, changes, notified, got, changed, readTimeout,
     writeTimeout, running, restarts, restart, mu, httpSrv, settings, closed,
     inFlight, granted, abandoned, serve, on, failed, shuttingDown, stop>>
  BY DEF CallbackFails, configVars, callbackVars, restartVars, requestVars,
       serverVars, serveVars, stopVars
<1>t. Shapes  BY TypesGiveShapes
<1>a. /\ callback = "load"
      /\ callback' = "idle" /\ unread' = TRUE
  BY DEF CallbackFails
<1>1. callback' \in {"idle", "load"} \cup Storing
  BY <1>u, <1>a, <1>t DEF Shapes, Storing
<1>2. unread' \in BOOLEAN
  BY <1>u, <1>a, <1>t DEF Shapes
<1>3. TypeOK'
  BY <1>u, <1>1, <1>2 DEF TypeOK, MutexHeld, RestartStates, ActiveStates,
       ServeStates, Listening, StopStates, Settings, Storing
<1>4. ChangesCounted'
  BY <1>u, <1>a, <1>t DEF ChangesCounted, Shapes
<1>5. FollowInv => CallbackFollows'
  BY <1>u, <1>a, <1>t DEF CallbackFollows, Storing, FollowInv, Shapes
<1>6. FollowInv => SettingsFollow'
  BY <1>u, <1>a, <1>t DEF SettingsFollow, MadeFollow, FieldFollows,
       RestartPending, Storing, ActiveStates, FollowInv, Shapes
<1>7. RestartsInOrder' /\ NotRunning' /\ ClosedFirst' /\ ServeInv'
  BY <1>u, ServersUntouched
<1>8. FollowInv => ChangesComeLate'
  BY <1>u DEF ChangesComeLate, FollowInv
<1> QED  BY <1>3, <1>4, <1>5, <1>6, <1>7, <1>8 DEF FollowInv

LEMMA CallbackStoresReadKeeps ==
  ASSUME BaseInv, ServeInv, CallbackStoresRead
  PROVE  BaseInv' /\ ServeInv' /\ (FollowInv => FollowInv')
<1> USE DEF BaseInv, ServeInv
<1>u. UNCHANGED <<config, changes, notified, got, changed, unread,
     writeTimeout, running, restarts, restart, mu, httpSrv, settings, closed,
     inFlight, granted, abandoned, serve, on, failed, shuttingDown, stop>>
  BY DEF CallbackStoresRead, configVars, callbackVars, restartVars,
       requestVars, serverVars, serveVars, stopVars
<1>t. Shapes  BY TypesGiveShapes
<1>a. /\ callback = "store read"
      /\ readTimeout' = got.read
      /\ callback' = "store write"
  BY DEF CallbackStoresRead
<1>m. got.read \in Nat
  BY <1>t, RestAssumption DEF Shapes
<1>1. callback' \in {"idle", "load"} \cup Storing
  BY <1>u, <1>a, <1>m, <1>t DEF Shapes, Storing
<1>2. readTimeout' \in Nat
  BY <1>u, <1>a, <1>m, <1>t DEF Shapes
<1>3. TypeOK'
  BY <1>u, <1>1, <1>2 DEF TypeOK, MutexHeld, RestartStates, ActiveStates,
       ServeStates, Listening, StopStates, Settings, Storing
<1>4. ChangesCounted'
  BY <1>u, <1>a, <1>m, <1>t DEF ChangesCounted, Shapes
<1>5. FollowInv => CallbackFollows'
  BY <1>u, <1>a, <1>m, <1>t DEF CallbackFollows, Storing, FollowInv, Shapes
<1>6. FollowInv => SettingsFollow'
  BY <1>u, <1>a, <1>m, <1>t DEF SettingsFollow, MadeFollow, FieldFollows,
       RestartPending, Storing, ActiveStates, CallbackFollows, FollowInv,
       Shapes
<1>7. RestartsInOrder' /\ NotRunning' /\ ClosedFirst' /\ ServeInv'
  BY <1>u, ServersUntouched
<1>8. FollowInv => ChangesComeLate'
  BY <1>u DEF ChangesComeLate, FollowInv
<1> QED  BY <1>3, <1>4, <1>5, <1>6, <1>7, <1>8 DEF FollowInv

LEMMA CallbackStoresWriteKeeps ==
  ASSUME BaseInv, ServeInv, CallbackStoresWrite
  PROVE  BaseInv' /\ ServeInv' /\ (FollowInv => FollowInv')
<1> USE DEF BaseInv, ServeInv
<1>u. UNCHANGED <<config, changes, notified, got, changed, unread,
     readTimeout, running, restarts, restart, mu, httpSrv, settings, closed,
     inFlight, granted, abandoned, serve, on, failed, shuttingDown, stop>>
  BY DEF CallbackStoresWrite, configVars, callbackVars, restartVars,
       requestVars, serverVars, serveVars, stopVars
<1>t. Shapes  BY TypesGiveShapes
<1>a. /\ callback = "store write"
      /\ writeTimeout' = got.write
      /\ callback' = "spawn"
  BY DEF CallbackStoresWrite
<1>m. got.write \in Nat
  BY <1>t, RestAssumption DEF Shapes
<1>1. callback' \in {"idle", "load"} \cup Storing
  BY <1>u, <1>a, <1>m, <1>t DEF Shapes, Storing
<1>2. writeTimeout' \in Nat
  BY <1>u, <1>a, <1>m, <1>t DEF Shapes
<1>3. TypeOK'
  BY <1>u, <1>1, <1>2 DEF TypeOK, MutexHeld, RestartStates, ActiveStates,
       ServeStates, Listening, StopStates, Settings, Storing
<1>4. ChangesCounted'
  BY <1>u, <1>a, <1>m, <1>t DEF ChangesCounted, Shapes
<1>5. FollowInv => CallbackFollows'
  BY <1>u, <1>a, <1>m, <1>t DEF CallbackFollows, Storing, FollowInv, Shapes
<1>6. FollowInv => SettingsFollow'
  BY <1>u, <1>a, <1>m, <1>t DEF SettingsFollow, MadeFollow, FieldFollows,
       RestartPending, Storing, ActiveStates, CallbackFollows, FollowInv,
       Shapes
<1>7. RestartsInOrder' /\ NotRunning' /\ ClosedFirst' /\ ServeInv'
  BY <1>u, ServersUntouched
<1>8. FollowInv => ChangesComeLate'
  BY <1>u DEF ChangesComeLate, FollowInv
<1> QED  BY <1>3, <1>4, <1>5, <1>6, <1>7, <1>8 DEF FollowInv

LEMMA CallbackSpawnsNotKeeps ==
  ASSUME BaseInv, ServeInv, CallbackSpawns, ~(changed /\ running)
  PROVE  BaseInv' /\ ServeInv' /\ (FollowInv => FollowInv')
<1> USE DEF BaseInv, ServeInv
<1>u. UNCHANGED <<config, changes, notified, got, changed, unread,
     readTimeout, writeTimeout, running, restarts, restart, mu, httpSrv,
     settings, closed, inFlight, granted, abandoned, serve, on, failed,
     shuttingDown, stop>>
  BY DEF CallbackSpawns, configVars, callbackVars, restartVars, requestVars,
       serverVars, serveVars, stopVars
<1>t. Shapes  BY TypesGiveShapes
<1>a. /\ callback = "spawn" /\ callback' = "idle" /\ ~(changed /\ running)
  BY DEF CallbackSpawns, restartVars
<1>m. changes > 0
  BY <1>t, <1>a DEF ChangesCounted, Shapes
<1>1. callback' \in {"idle", "load"} \cup Storing
  BY <1>u, <1>a, <1>m, <1>t DEF Shapes, Storing
<1>2. TypeOK'
  BY <1>u, <1>1 DEF TypeOK, MutexHeld, RestartStates, ActiveStates,
       ServeStates, Listening, StopStates, Settings, Storing
<1>3. ChangesCounted'
  BY <1>u, <1>a, <1>m, <1>t DEF ChangesCounted, Shapes
<1>4. FollowInv => CallbackFollows'
  BY <1>u, <1>a, <1>m, <1>t DEF CallbackFollows, Storing, FollowInv, Shapes
<1>5. FollowInv => SettingsFollow'
  BY <1>u, <1>a, <1>m DEF SettingsFollow, MadeFollow, FieldFollows,
       RestartPending, Storing, ChangesComeLate, FollowInv
<1>6. RestartsInOrder' /\ NotRunning' /\ ClosedFirst' /\ ServeInv'
  BY <1>u, ServersUntouched
<1>7. FollowInv => ChangesComeLate'
  BY <1>u DEF ChangesComeLate, FollowInv
<1> QED  BY <1>2, <1>3, <1>4, <1>5, <1>6, <1>7 DEF FollowInv

LEMMA CallbackSpawnsKeeps ==
  ASSUME BaseInv, ServeInv, CallbackSpawns, changed, running
  PROVE  BaseInv' /\ ServeInv' /\ (FollowInv => FollowInv')
<1> USE DEF BaseInv, ServeInv
<1>u. UNCHANGED <<config, changes, notified, got, changed, unread,
     readTimeout, writeTimeout, running, mu, httpSrv, settings, closed,
     inFlight, granted, abandoned, serve, on, failed, shuttingDown, stop>>
  BY DEF CallbackSpawns, configVars, callbackVars, restartVars, requestVars,
       serverVars, serveVars, stopVars
<1>t. Shapes  BY TypesGiveShapes
<1>a. /\ callback = "spawn" /\ callback' = "idle"
      /\ restarts' = restarts + 1
      /\ restart' = [restart EXCEPT ![restarts + 1] = "lock"]
  BY DEF CallbackSpawns, restartVars
<1>m. restarts + 1 \in Restarts /\ restart[restarts + 1] = "none"
  BY <1>t, Numbers, <1>a DEF ChangesCounted, RestartsInOrder, Restarts, Shapes
<1>1. MutexHeld'
  BY <1>u, <1>a, <1>m, <1>t, Numbers DEF TypeOK, MutexHeld, ActiveStates,
       Shapes
<1>2. callback' \in {"idle", "load"} \cup Storing
  BY <1>u, <1>a, <1>m, <1>t DEF Shapes, Storing
<1>3. restarts' \in 0..changes'
  BY <1>u, <1>a, <1>m, <1>t, Numbers DEF Shapes, ChangesCounted
<1>4. restart' \in [Restarts -> RestartStates]
  BY <1>u, <1>a, <1>m, <1>t DEF Shapes, RestartStates, ActiveStates
<1>5. TypeOK'
  BY <1>u, <1>1, <1>2, <1>3, <1>4 DEF TypeOK, MutexHeld, RestartStates,
       ActiveStates, ServeStates, Listening, StopStates, Settings, Storing
<1>6. ChangesCounted'
  BY <1>u, <1>a, <1>m, <1>t DEF ChangesCounted, Shapes
<1>7. RestartsInOrder'
  BY <1>u, <1>a, <1>m, <1>t, Numbers DEF RestartsInOrder, Shapes
<1>8. NotRunning'
  BY <1>u, <1>a, <1>m, <1>t DEF NotRunning, Shapes
<1>9. ClosedFirst'
  BY <1>u, <1>a, <1>m, <1>t DEF ClosedFirst, Shapes
<1>10. OnlyInstalledUsed'
  BY <1>u, <1>a, <1>m, <1>t DEF OnlyInstalledUsed, Installed, Shapes
<1>11. RequestsKnown'
  BY <1>u, <1>a, <1>m, <1>t DEF RequestsKnown, Shapes
<1>12. StopSilences'
  BY <1>u, <1>a, <1>m, <1>t DEF StopSilences, ActiveStates, Shapes
<1>13. FieldIsOpen'
  BY <1>u, <1>a, <1>m, <1>t DEF FieldIsOpen, Replacing, Shapes
<1>14. FieldIsServed'
  BY <1>u, <1>a, <1>m, <1>t DEF FieldIsServed, Replacing, Listening, Shapes
<1>15. FollowInv => CallbackFollows'
  BY <1>u, <1>a, <1>m, <1>t DEF CallbackFollows, Storing, FollowInv, Shapes
<1>16. FollowInv => SettingsFollow'
  BY <1>u, <1>a, <1>m, <1>t DEF SettingsFollow, MadeFollow, FieldFollows,
       RestartPending, Storing, ActiveStates, FollowInv, Shapes
<1>17. OwnServer' /\ ClosedDoNotServe' /\ OldAreClosed' /\
     CleanStopLosesNoRequest' /\ (FollowInv => ChangesComeLate')
  BY <1>u DEF OwnServer, ClosedDoNotServe, OldAreClosed, Listening,
       CleanStopLosesNoRequest, ChangesComeLate, FollowInv
<1> QED  BY <1>5, <1>6, <1>7, <1>8, <1>9, <1>10, <1>11, <1>12, <1>13, <1>14,
     <1>15, <1>16, <1>17 DEF FollowInv

LEMMA StartListeningKeeps ==
  ASSUME BaseInv, ServeInv, NEW g \in Servers, StartListening(g)
  PROVE  BaseInv' /\ ServeInv' /\ (FollowInv => FollowInv')
<1> USE DEF BaseInv, ServeInv
<1>u. UNCHANGED <<config, changes, notified, callback, got, changed, unread,
     readTimeout, writeTimeout, running, restarts, restart, mu, httpSrv,
     settings, closed, inFlight, granted, abandoned, on, failed, shuttingDown,
     stop>>
  BY DEF StartListening, configVars, callbackVars, restartVars, requestVars,
       serverVars, serveVars, stopVars
<1>t. Shapes  BY TypesGiveShapes
<1>a. /\ serve[g] = "start"
      /\ serve' = [serve EXCEPT ![g] = IF on[g] \in closed THEN "done" ELSE "listen"]
  BY DEF StartListening
<1>1. serve' \in [Servers -> ServeStates]
  BY <1>u, <1>a, <1>t DEF Shapes, ServeStates, Listening
<1>2. TypeOK'
  BY <1>u, <1>1 DEF TypeOK, MutexHeld, RestartStates, ActiveStates,
       ServeStates, Listening, StopStates, Settings, Storing
<1>3. NotRunning'
  BY <1>u, <1>a, <1>t DEF NotRunning, Shapes
<1>4. ClosedDoNotServe'
  BY <1>u, <1>a, <1>t DEF ClosedDoNotServe, Shapes
<1>5. OldAreClosed'
  BY <1>u, <1>a, <1>t DEF OldAreClosed, Listening, Shapes
<1>6. FieldIsServed'
  BY <1>u, <1>a, <1>t DEF FieldIsServed, Replacing, Listening, FieldIsOpen,
       OwnServer, Shapes
<1>7. FollowInv => FollowInv'
  BY <1>u, TimeoutsUntouched
<1>8. ChangesCounted' /\ RestartsInOrder' /\ ClosedFirst' /\
     OnlyInstalledUsed' /\ OwnServer' /\ RequestsKnown' /\ StopSilences' /\
     CleanStopLosesNoRequest' /\ FieldIsOpen'
  BY <1>u DEF ChangesCounted, RestartsInOrder, ClosedFirst, OnlyInstalledUsed,
       Installed, OwnServer, RequestsKnown, StopSilences, ActiveStates,
       CleanStopLosesNoRequest, FieldIsOpen, Replacing
<1> QED  BY <1>2, <1>3, <1>4, <1>5, <1>6, <1>7, <1>8 DEF FollowInv

LEMMA BindKeeps ==
  ASSUME BaseInv, ServeInv, NEW g \in Servers, Bind(g)
  PROVE  BaseInv' /\ ServeInv' /\ (FollowInv => FollowInv')
<1> USE DEF BaseInv, ServeInv
<1>u. UNCHANGED <<config, changes, notified, callback, got, changed, unread,
     readTimeout, writeTimeout, running, restarts, restart, mu, httpSrv,
     settings, closed, inFlight, granted, abandoned, on, shuttingDown, stop>>
  BY DEF Bind, configVars, callbackVars, restartVars, requestVars, serverVars,
       serveVars, stopVars
<1>t. Shapes  BY TypesGiveShapes
<1>a. /\ serve[g] = "listen"
      /\ serve' = [serve EXCEPT ![g] = IF PortTaken THEN "done" ELSE "bound"]
      /\ failed' = (failed \/ PortTaken)
  BY DEF Bind
<1>1. serve' \in [Servers -> ServeStates]
  BY <1>u, <1>a, <1>t DEF Shapes, ServeStates, Listening
<1>2. failed' \in BOOLEAN
  BY <1>u, <1>a, <1>t DEF Shapes
<1>3. TypeOK'
  BY <1>u, <1>1, <1>2 DEF TypeOK, MutexHeld, RestartStates, ActiveStates,
       ServeStates, Listening, StopStates, Settings, Storing
<1>4. NotRunning'
  BY <1>u, <1>a, <1>t DEF NotRunning, Shapes
<1>5. ClosedDoNotServe'
  BY <1>u, <1>a, <1>t DEF ClosedDoNotServe, Shapes
<1>6. OldAreClosed'
  BY <1>u, <1>a, <1>t DEF OldAreClosed, Listening, Shapes
<1>7. FieldIsServed'
  BY <1>u, <1>a, <1>t DEF FieldIsServed, Replacing, Listening, Shapes
<1>8. FollowInv => FollowInv'
  BY <1>u, TimeoutsUntouched
<1>9. ChangesCounted' /\ RestartsInOrder' /\ ClosedFirst' /\
     OnlyInstalledUsed' /\ OwnServer' /\ RequestsKnown' /\ StopSilences' /\
     CleanStopLosesNoRequest' /\ FieldIsOpen'
  BY <1>u DEF ChangesCounted, RestartsInOrder, ClosedFirst, OnlyInstalledUsed,
       Installed, OwnServer, RequestsKnown, StopSilences, ActiveStates,
       CleanStopLosesNoRequest, FieldIsOpen, Replacing
<1> QED  BY <1>3, <1>4, <1>5, <1>6, <1>7, <1>8, <1>9 DEF FollowInv

LEMMA RegisterListenerKeeps ==
  ASSUME BaseInv, ServeInv, NEW g \in Servers, RegisterListener(g)
  PROVE  BaseInv' /\ ServeInv' /\ (FollowInv => FollowInv')
<1> USE DEF BaseInv, ServeInv
<1>u. UNCHANGED <<config, changes, notified, callback, got, changed, unread,
     readTimeout, writeTimeout, running, restarts, restart, mu, httpSrv,
     settings, closed, inFlight, granted, abandoned, on, failed, shuttingDown,
     stop>>
  BY DEF RegisterListener, configVars, callbackVars, restartVars, requestVars,
       serverVars, serveVars, stopVars
<1>t. Shapes  BY TypesGiveShapes
<1>a. /\ serve[g] = "bound"
      /\ serve' = [serve EXCEPT ![g] = IF on[g] \in closed THEN "done" ELSE "serving"]
  BY DEF RegisterListener
<1>1. serve' \in [Servers -> ServeStates]
  BY <1>u, <1>a, <1>t DEF Shapes, ServeStates, Listening
<1>2. TypeOK'
  BY <1>u, <1>1 DEF TypeOK, MutexHeld, RestartStates, ActiveStates,
       ServeStates, Listening, StopStates, Settings, Storing
<1>3. NotRunning'
  BY <1>u, <1>a, <1>t DEF NotRunning, Shapes
<1>4. ClosedDoNotServe'
  BY <1>u, <1>a, <1>t DEF ClosedDoNotServe, Shapes
<1>5. OldAreClosed'
  BY <1>u, <1>a, <1>t DEF OldAreClosed, Listening, Shapes
<1>6. FieldIsServed'
  BY <1>u, <1>a, <1>t DEF FieldIsServed, Replacing, Listening, FieldIsOpen,
       OwnServer, Shapes
<1>7. FollowInv => FollowInv'
  BY <1>u, TimeoutsUntouched
<1>8. ChangesCounted' /\ RestartsInOrder' /\ ClosedFirst' /\
     OnlyInstalledUsed' /\ OwnServer' /\ RequestsKnown' /\ StopSilences' /\
     CleanStopLosesNoRequest' /\ FieldIsOpen'
  BY <1>u DEF ChangesCounted, RestartsInOrder, ClosedFirst, OnlyInstalledUsed,
       Installed, OwnServer, RequestsKnown, StopSilences, ActiveStates,
       CleanStopLosesNoRequest, FieldIsOpen, Replacing
<1> QED  BY <1>2, <1>3, <1>4, <1>5, <1>6, <1>7, <1>8 DEF FollowInv

(* mw.go:78-87: the clamp gives a handler at most its timeout, and at most *)
(* the write timeout when there is one.                                    *)
LEMMA ClampedIsShort ==
  ASSUME NEW timeout \in HandlerTimeouts, NEW limit \in Nat
  PROVE  /\ Clamped(timeout, limit) \in Nat
         /\ limit > 0 => Clamped(timeout, limit) <= limit
BY RestAssumption DEF Clamped

LEMMA RequestArrivesKeeps ==
  ASSUME BaseInv, ServeInv, NEW n \in Servers, RequestArrives(n)
  PROVE  BaseInv' /\ ServeInv' /\ (FollowInv => FollowInv')
<1> USE DEF BaseInv, ServeInv
<1>u. UNCHANGED <<config, changes, notified, callback, got, changed, unread,
     readTimeout, writeTimeout, running, restarts, restart, mu, httpSrv,
     settings, closed, abandoned, serve, on, failed, shuttingDown, stop>>
  BY DEF RequestArrives, configVars, callbackVars, restartVars, requestVars,
       serverVars, serveVars, stopVars
<1>t. Shapes  BY TypesGiveShapes
<1>a. /\ \E g \in Servers : on[g] = n /\ serve[g] = "serving"
      /\ n \notin inFlight
      /\ inFlight' = inFlight \cup {n}
      /\ \E timeout \in HandlerTimeouts :
           granted' = [granted EXCEPT ![n] = Clamped(timeout, writeTimeout)]
  BY DEF RequestArrives
<1>m. n = httpSrv /\ n \notin closed
  BY <1>a DEF ClosedDoNotServe, OldAreClosed, Listening, Shapes
<1>1. inFlight' \in SUBSET Servers
  BY <1>u, <1>a, <1>m, <1>t DEF Shapes
<1>2. granted' \in [Servers -> Nat]
  BY <1>a, <1>t, ClampedIsShort DEF Shapes
<1>3. TypeOK'
  BY <1>u, <1>1, <1>2 DEF TypeOK, MutexHeld, RestartStates, ActiveStates,
       ServeStates, Listening, StopStates, Settings, Storing
<1>4. OnlyInstalledUsed'
  BY <1>u, <1>a, <1>m, <1>t DEF OnlyInstalledUsed, Installed, Shapes
<1>5. RequestsKnown'
  BY <1>u, <1>a, <1>m, <1>t DEF RequestsKnown, ClosedFirst, Shapes
<1>6. CleanStopLosesNoRequest'
  BY <1>u, <1>a, <1>m, <1>t DEF CleanStopLosesNoRequest, StopSilences, Shapes
<1>7. FollowInv => SettingsFollow'
  <2> SUFFICES ASSUME FollowInv, ~shuttingDown, ~RestartPending'
               PROVE  MadeFollow' /\ FieldFollows'
    BY <1>u DEF SettingsFollow
  <2>1. MadeFollow /\ FieldFollows
    BY <1>u, <1>a, <1>t DEF RestartPending, FollowInv, SettingsFollow, Shapes
  <2>2. MadeFollow'
    BY <1>u, <2>1 DEF MadeFollow
  <2>3. FieldFollows'
    BY <1>u, <1>a, <1>m, <1>t, <2>1 DEF FieldFollows, Shapes
  <2> QED  BY <2>2, <2>3
<1>8. ChangesCounted' /\ RestartsInOrder' /\ NotRunning' /\ ClosedFirst' /\
     OwnServer' /\ ClosedDoNotServe' /\ OldAreClosed' /\ StopSilences' /\
     FieldIsOpen' /\ FieldIsServed' /\ (FollowInv => ChangesComeLate' /\
     CallbackFollows')
  BY <1>u DEF ChangesCounted, RestartsInOrder, NotRunning, ClosedFirst,
       OwnServer, ClosedDoNotServe, OldAreClosed, Listening, StopSilences,
       ActiveStates, FieldIsOpen, Replacing, FieldIsServed, ChangesComeLate,
       CallbackFollows, Storing, FollowInv
<1> QED  BY <1>3, <1>4, <1>5, <1>6, <1>7, <1>8 DEF FollowInv

LEMMA RequestEndsKeeps ==
  ASSUME BaseInv, ServeInv, NEW n \in Servers, RequestEnds(n)
  PROVE  BaseInv' /\ ServeInv' /\ (FollowInv => FollowInv')
<1> USE DEF BaseInv, ServeInv
<1>u. UNCHANGED <<config, changes, notified, callback, got, changed, unread,
     readTimeout, writeTimeout, running, restarts, restart, mu, httpSrv,
     settings, closed, abandoned, serve, on, failed, shuttingDown, stop>>
  BY DEF RequestEnds, configVars, callbackVars, restartVars, requestVars,
       serverVars, serveVars, stopVars
<1>t. Shapes  BY TypesGiveShapes
<1>a. /\ n \in inFlight
      /\ inFlight' = inFlight \ {n}
      /\ granted' = [granted EXCEPT ![n] = 0]
  BY DEF RequestEnds
<1>1. inFlight' \in SUBSET Servers
  BY <1>u, <1>a, <1>t DEF Shapes
<1>2. granted' \in [Servers -> Nat]
  BY <1>u, <1>a, <1>t DEF Shapes
<1>3. TypeOK'
  BY <1>u, <1>1, <1>2 DEF TypeOK, MutexHeld, RestartStates, ActiveStates,
       ServeStates, Listening, StopStates, Settings, Storing
<1>4. OnlyInstalledUsed'
  BY <1>u, <1>a, <1>t DEF OnlyInstalledUsed, Installed, Shapes
<1>5. RequestsKnown'
  BY <1>u, <1>a, <1>t DEF RequestsKnown, Shapes
<1>6. CleanStopLosesNoRequest'
  BY <1>u, <1>a, <1>t DEF CleanStopLosesNoRequest, Shapes
<1>7. FollowInv => SettingsFollow'
  <2> SUFFICES ASSUME FollowInv, ~shuttingDown, ~RestartPending'
               PROVE  MadeFollow' /\ FieldFollows'
    BY <1>u DEF SettingsFollow
  <2>1. MadeFollow /\ FieldFollows
    BY <1>u, <1>a, <1>t DEF RestartPending, FollowInv, SettingsFollow, Shapes
  <2>2. MadeFollow'
    BY <1>u, <2>1 DEF MadeFollow
  <2>3. FieldFollows'
    BY <1>u, <1>a, <1>t, <2>1 DEF FieldFollows, Shapes
  <2> QED  BY <2>2, <2>3
<1>8. ChangesCounted' /\ RestartsInOrder' /\ NotRunning' /\ ClosedFirst' /\
     OwnServer' /\ ClosedDoNotServe' /\ OldAreClosed' /\ StopSilences' /\
     FieldIsOpen' /\ FieldIsServed' /\ (FollowInv => ChangesComeLate' /\
     CallbackFollows')
  BY <1>u DEF ChangesCounted, RestartsInOrder, NotRunning, ClosedFirst,
       OwnServer, ClosedDoNotServe, OldAreClosed, Listening, StopSilences,
       ActiveStates, FieldIsOpen, Replacing, FieldIsServed, ChangesComeLate,
       CallbackFollows, Storing, FollowInv
<1> QED  BY <1>3, <1>4, <1>5, <1>6, <1>7, <1>8 DEF FollowInv

LEMMA RunKeeps ==
  ASSUME BaseInv, ServeInv, Run
  PROVE  BaseInv' /\ ServeInv' /\ (FollowInv => FollowInv')
<1> USE DEF BaseInv, ServeInv
<1>u. UNCHANGED <<config, changes, notified, callback, got, changed, unread,
     readTimeout, writeTimeout, restarts, restart, mu, httpSrv, settings,
     closed, inFlight, granted, abandoned, on, failed, shuttingDown, stop>>
  BY DEF Run, configVars, callbackVars, restartVars, requestVars, serverVars,
       serveVars, stopVars
<1>t. Shapes  BY TypesGiveShapes
<1>a. /\ ~running
      /\ running' = TRUE
      /\ serve' = [serve EXCEPT ![0] = "read"]
  BY DEF Run
<1>m. 0 \in Servers /\ httpSrv = 0
  BY <1>t, <1>a, Numbers DEF NotRunning, RestartsInOrder, OnlyInstalledUsed,
       Installed, Restarts, Servers, Shapes
<1>1. running' \in BOOLEAN
  BY <1>u, <1>a, <1>m, <1>t DEF Shapes
<1>2. serve' \in [Servers -> ServeStates]
  BY <1>u, <1>a, <1>m, <1>t DEF Shapes, ServeStates, Listening
<1>3. TypeOK'
  BY <1>u, <1>1, <1>2 DEF TypeOK, MutexHeld, RestartStates, ActiveStates,
       ServeStates, Listening, StopStates, Settings, Storing
<1>4. NotRunning'
  BY <1>u, <1>a, <1>m, <1>t DEF NotRunning, Shapes
<1>5. ClosedDoNotServe'
  BY <1>u, <1>a, <1>m, <1>t DEF ClosedDoNotServe, Shapes
<1>6. OldAreClosed'
  BY <1>u, <1>a, <1>m, <1>t DEF OldAreClosed, Listening, Shapes
<1>7. StopSilences'
  BY <1>u, <1>a, <1>m, <1>t DEF StopSilences, ActiveStates, Shapes
<1>8. FieldIsServed'
  BY <1>u, <1>a, <1>m, <1>t DEF FieldIsServed, Replacing, Listening, Shapes
<1>9. FollowInv => ChangesComeLate'
  BY <1>u, <1>a, <1>m, <1>t DEF ChangesComeLate, FollowInv, Shapes
<1>10. ChangesCounted' /\ RestartsInOrder' /\ ClosedFirst' /\
     OnlyInstalledUsed' /\ OwnServer' /\ RequestsKnown' /\
     CleanStopLosesNoRequest' /\ FieldIsOpen' /\ (FollowInv =>
     CallbackFollows' /\ SettingsFollow')
  BY <1>u DEF ChangesCounted, RestartsInOrder, ClosedFirst, OnlyInstalledUsed,
       Installed, OwnServer, RequestsKnown, CleanStopLosesNoRequest,
       FieldIsOpen, Replacing, CallbackFollows, Storing, SettingsFollow,
       MadeFollow, FieldFollows, RestartPending, ActiveStates, FollowInv
<1> QED  BY <1>3, <1>4, <1>5, <1>6, <1>7, <1>8, <1>9, <1>10 DEF FollowInv

LEMMA RunReadsServerKeeps ==
  ASSUME BaseInv, ServeInv, RunReadsServer
  PROVE  BaseInv' /\ ServeInv' /\ (FollowInv => FollowInv')
<1> USE DEF BaseInv, ServeInv
<1>u. UNCHANGED <<config, changes, notified, callback, got, changed, unread,
     readTimeout, writeTimeout, running, restarts, restart, mu, httpSrv,
     settings, closed, inFlight, granted, abandoned, failed, shuttingDown,
     stop>>
  BY DEF RunReadsServer, configVars, callbackVars, restartVars, requestVars,
       serverVars, serveVars, stopVars
<1>t. Shapes  BY TypesGiveShapes
<1>a. /\ serve[0] = "read"
      /\ on' = [on EXCEPT ![0] = httpSrv]
      /\ serve' = [serve EXCEPT ![0] = "start"]
  BY DEF RunReadsServer
<1>m. 0 \in Servers /\ 0 \notin Restarts
  BY Numbers DEF Shapes
<1>1. serve' \in [Servers -> ServeStates]
  BY <1>u, <1>a, <1>m, <1>t DEF Shapes, ServeStates, Listening
<1>2. on' \in [Servers -> Servers]
  BY <1>u, <1>a, <1>m, <1>t DEF Shapes
<1>3. TypeOK'
  BY <1>u, <1>1, <1>2 DEF TypeOK, MutexHeld, RestartStates, ActiveStates,
       ServeStates, Listening, StopStates, Settings, Storing
<1>4. NotRunning'
  BY <1>u, <1>a, <1>m, <1>t DEF NotRunning, Shapes
<1>5. OwnServer'
  BY <1>u, <1>a, <1>m, <1>t DEF OwnServer, Shapes
<1>6. ClosedDoNotServe'
  BY <1>u, <1>a, <1>m, <1>t DEF ClosedDoNotServe, Shapes
<1>7. OldAreClosed'
  BY <1>u, <1>a, <1>m, <1>t DEF OldAreClosed, Listening, Shapes
<1>8. FieldIsServed'
  BY <1>u, <1>a, <1>m, <1>t DEF FieldIsServed, Replacing, Listening, Shapes
<1>9. FollowInv => FollowInv'
  BY <1>u, TimeoutsUntouched
<1>10. ChangesCounted' /\ RestartsInOrder' /\ ClosedFirst' /\
     OnlyInstalledUsed' /\ RequestsKnown' /\ StopSilences' /\
     CleanStopLosesNoRequest' /\ FieldIsOpen'
  BY <1>u DEF ChangesCounted, RestartsInOrder, ClosedFirst, OnlyInstalledUsed,
       Installed, RequestsKnown, StopSilences, ActiveStates,
       CleanStopLosesNoRequest, FieldIsOpen, Replacing
<1> QED  BY <1>3, <1>4, <1>5, <1>6, <1>7, <1>8, <1>9, <1>10 DEF FollowInv

LEMMA RestartLocksNotKeeps ==
  ASSUME BaseInv, ServeInv, NEW r \in Restarts, RestartLocks(r), shuttingDown
  PROVE  BaseInv' /\ ServeInv' /\ (FollowInv => FollowInv')
<1> USE DEF BaseInv, ServeInv
<1>u. UNCHANGED <<config, changes, notified, callback, got, changed, unread,
     readTimeout, writeTimeout, running, restarts, mu, httpSrv, settings,
     closed, inFlight, granted, abandoned, serve, on, failed, shuttingDown,
     stop>>
  BY DEF RestartLocks, configVars, callbackVars, restartVars, requestVars,
       serverVars, serveVars, stopVars
<1>t. Shapes  BY TypesGiveShapes
<1>a. /\ restart[r] = "lock" /\ mu = Nobody /\ shuttingDown
      /\ restart' = [restart EXCEPT ![r] = "done"]
  BY DEF RestartLocks
<1>m. r \in Servers /\ mu = Nobody /\ (\A p \in Stoppers : stop[p] # "drain")
      /\ \A q \in Restarts : restart[q] \notin ActiveStates
  BY <1>t, Numbers, <1>a DEF TypeOK, MutexHeld, ActiveStates, Shapes
<1>1. MutexHeld'
  BY <1>u, <1>a, <1>m, <1>t, Numbers DEF TypeOK, MutexHeld, ActiveStates,
       Shapes
<1>2. restart' \in [Restarts -> RestartStates]
  BY <1>u, <1>a, <1>m, <1>t DEF Shapes, RestartStates, ActiveStates
<1>3. TypeOK'
  BY <1>u, <1>1, <1>2 DEF TypeOK, MutexHeld, RestartStates, ActiveStates,
       ServeStates, Listening, StopStates, Settings, Storing
<1>4. RestartsInOrder'
  BY <1>u, <1>a, <1>m, <1>t DEF RestartsInOrder, Shapes
<1>5. ClosedFirst'
  BY <1>u, <1>a, <1>m, <1>t DEF ClosedFirst, Shapes
<1>6. OnlyInstalledUsed'
  BY <1>u, <1>a, <1>m, <1>t DEF OnlyInstalledUsed, Installed, Shapes
<1>7. RequestsKnown'
  BY <1>u, <1>a, <1>m, <1>t DEF RequestsKnown, Shapes
<1>8. StopSilences'
  BY <1>u, <1>a, <1>m, <1>t DEF StopSilences, ActiveStates, Shapes
<1>9. FieldIsOpen'
  BY <1>u, <1>a, <1>m, <1>t DEF FieldIsOpen, Replacing, Shapes
<1>10. FieldIsServed'
  BY <1>u, <1>a, <1>m, <1>t DEF FieldIsServed, Replacing, Listening, Shapes
<1>11. FollowInv => SettingsFollow'
  BY <1>u, <1>a, <1>m, <1>t DEF SettingsFollow, MadeFollow, FieldFollows,
       RestartPending, Storing, ActiveStates, FollowInv, Shapes
<1>12. ChangesCounted' /\ NotRunning' /\ OwnServer' /\ ClosedDoNotServe' /\
     OldAreClosed' /\ CleanStopLosesNoRequest' /\ (FollowInv =>
     ChangesComeLate' /\ CallbackFollows')
  BY <1>u DEF ChangesCounted, NotRunning, OwnServer, ClosedDoNotServe,
       OldAreClosed, Listening, CleanStopLosesNoRequest, ChangesComeLate,
       CallbackFollows, Storing, FollowInv
<1> QED  BY <1>3, <1>4, <1>5, <1>6, <1>7, <1>8, <1>9, <1>10, <1>11, <1>12 DEF
     FollowInv

LEMMA RestartLocksKeeps ==
  ASSUME BaseInv, ServeInv, NEW r \in Restarts, RestartLocks(r), ~shuttingDown
  PROVE  BaseInv' /\ ServeInv' /\ (FollowInv => FollowInv')
<1> USE DEF BaseInv, ServeInv
<1>u. UNCHANGED <<config, changes, notified, callback, got, changed, unread,
     readTimeout, writeTimeout, running, restarts, httpSrv, settings, closed,
     inFlight, granted, abandoned, serve, on, failed, shuttingDown, stop>>
  BY DEF RestartLocks, configVars, callbackVars, restartVars, requestVars,
       serverVars, serveVars, stopVars
<1>t. Shapes  BY TypesGiveShapes
<1>a. /\ restart[r] = "lock" /\ mu = Nobody /\ ~shuttingDown
      /\ restart' = [restart EXCEPT ![r] = "load write"] /\ mu' = r
  BY DEF RestartLocks
<1>m. r \in Servers /\ mu = Nobody /\ (\A p \in Stoppers : stop[p] # "drain")
      /\ \A q \in Restarts : restart[q] \notin ActiveStates
  BY <1>t, Numbers, <1>a DEF TypeOK, MutexHeld, ActiveStates, Shapes
<1>1. MutexHeld'
  BY <1>u, <1>a, <1>m, <1>t, Numbers DEF TypeOK, MutexHeld, ActiveStates,
       Shapes
<1>2. restart' \in [Restarts -> RestartStates]
  BY <1>u, <1>a, <1>m, <1>t DEF Shapes, RestartStates, ActiveStates
<1>3. mu' \in {Nobody} \cup Restarts \cup Stoppers
  BY <1>u, <1>a, <1>m, <1>t, Numbers DEF Shapes
<1>4. TypeOK'
  BY <1>u, <1>1, <1>2, <1>3 DEF TypeOK, MutexHeld, RestartStates,
       ActiveStates, ServeStates, Listening, StopStates, Settings, Storing
<1>5. RestartsInOrder'
  BY <1>u, <1>a, <1>m, <1>t DEF RestartsInOrder, Shapes
<1>6. ClosedFirst'
  BY <1>u, <1>a, <1>m, <1>t DEF ClosedFirst, Shapes
<1>7. OnlyInstalledUsed'
  BY <1>u, <1>a, <1>m, <1>t, Numbers DEF OnlyInstalledUsed, Installed, Shapes
<1>8. RequestsKnown'
  BY <1>u, <1>a, <1>m, <1>t DEF RequestsKnown, Shapes
<1>9. StopSilences'
  BY <1>u, <1>a, <1>m, <1>t DEF StopSilences, ActiveStates, Shapes
<1>10. FieldIsOpen'
  BY <1>u, <1>a, <1>m, <1>t DEF FieldIsOpen, Replacing, Shapes
<1>11. FieldIsServed'
  BY <1>u, <1>a, <1>m, <1>t DEF FieldIsServed, Replacing, Listening, Shapes
<1>12. FollowInv => SettingsFollow'
  BY <1>u, <1>a, <1>m, <1>t DEF SettingsFollow, MadeFollow, FieldFollows,
       RestartPending, Storing, ActiveStates, FollowInv, Shapes
<1>13. ChangesCounted' /\ NotRunning' /\ OwnServer' /\ ClosedDoNotServe' /\
     OldAreClosed' /\ CleanStopLosesNoRequest' /\ (FollowInv =>
     ChangesComeLate' /\ CallbackFollows')
  BY <1>u DEF ChangesCounted, NotRunning, OwnServer, ClosedDoNotServe,
       OldAreClosed, Listening, CleanStopLosesNoRequest, ChangesComeLate,
       CallbackFollows, Storing, FollowInv
<1> QED  BY <1>4, <1>5, <1>6, <1>7, <1>8, <1>9, <1>10, <1>11, <1>12, <1>13 DEF
     FollowInv

LEMMA RestartLoadsWriteKeeps ==
  ASSUME BaseInv, ServeInv, NEW r \in Restarts, RestartLoadsWrite(r)
  PROVE  BaseInv' /\ ServeInv' /\ (FollowInv => FollowInv')
<1> USE DEF BaseInv, ServeInv
<1>u. UNCHANGED <<config, changes, notified, callback, got, changed, unread,
     readTimeout, writeTimeout, running, restarts, mu, httpSrv, closed,
     inFlight, granted, abandoned, serve, on, failed, shuttingDown, stop>>
  BY DEF RestartLoadsWrite, configVars, callbackVars, restartVars,
       requestVars, serverVars, serveVars, stopVars
<1>t. Shapes  BY TypesGiveShapes
<1>a. /\ restart[r] = "load write"
      /\ settings' = [settings EXCEPT ![r].write = writeTimeout]
      /\ restart' = [restart EXCEPT ![r] = "load read"]
  BY DEF RestartLoadsWrite
<1>m. r \in Servers /\ r # 0 /\ mu = r /\ (\A p \in Stoppers : stop[p] # "drain")
      /\ \A q \in Restarts : q # r => restart[q] \notin ActiveStates
  BY <1>t, Numbers, <1>a DEF TypeOK, MutexHeld, ActiveStates, Shapes
<1>n. /\ settings'[r].write = writeTimeout
      /\ \A q \in Restarts : q # r => restart'[q] = restart[q]
      /\ restart'[r] = "load read"
  BY <1>a, <1>m, <1>t DEF Shapes, Settings
<1>1. MutexHeld'
  BY <1>u, <1>a, <1>m, <1>t, Numbers DEF TypeOK, MutexHeld, ActiveStates,
       Shapes
<1>2. restart' \in [Restarts -> RestartStates]
  BY <1>u, <1>a, <1>m, <1>t DEF Shapes, RestartStates, ActiveStates
<1>3. settings' \in [Servers -> Settings]
  BY <1>u, <1>a, <1>m, <1>t DEF Shapes, Settings
<1>4. TypeOK'
  BY <1>u, <1>1, <1>2, <1>3 DEF TypeOK, MutexHeld, RestartStates,
       ActiveStates, ServeStates, Listening, StopStates, Settings, Storing
<1>5. RestartsInOrder'
  BY <1>u, <1>a, <1>m, <1>t DEF RestartsInOrder, Shapes
<1>6. ClosedFirst'
  BY <1>u, <1>a, <1>m, <1>t DEF ClosedFirst, Shapes
<1>7. OnlyInstalledUsed'
  BY <1>u, <1>a, <1>m, <1>t, Numbers DEF OnlyInstalledUsed, Installed, Shapes
<1>8. RequestsKnown'
  BY <1>u, <1>a, <1>m, <1>t DEF RequestsKnown, Shapes
<1>9. StopSilences'
  BY <1>u, <1>a, <1>m, <1>t DEF StopSilences, ActiveStates, Shapes
<1>10. FieldIsOpen'
  BY <1>u, <1>a, <1>m, <1>t DEF FieldIsOpen, Replacing, Shapes
<1>11. FieldIsServed'
  BY <1>u, <1>a, <1>m, <1>t DEF FieldIsServed, Replacing, Listening, Shapes
<1>12. FollowInv => SettingsFollow'
  <2> SUFFICES ASSUME FollowInv, ~shuttingDown, ~RestartPending'
               PROVE  MadeFollow' /\ FieldFollows'
    BY <1>u DEF SettingsFollow
  <2>2. MadeFollow'
    <3>1. ASSUME NEW q \in Restarts, restart'[q] \in {"load read", "close", "drain", "install"}
          PROVE  q = r
      BY <1>m, <1>n, <3>1 DEF ActiveStates
    <3>2. settings'[r].write = writeTimeout'
      BY <1>u, <1>n
    <3>3. restart'[r] \in {"close", "drain", "install"} => settings'[r].read = readTimeout'
      BY <1>u, <1>n
    <3> QED  BY <3>1, <3>2, <3>3 DEF MadeFollow
  <2>3. FieldFollows'
    BY <1>u, <1>a, <1>t DEF FieldFollows, Shapes
  <2> QED  BY <2>2, <2>3
<1>13. ChangesCounted' /\ NotRunning' /\ OwnServer' /\ ClosedDoNotServe' /\
     OldAreClosed' /\ CleanStopLosesNoRequest' /\ (FollowInv =>
     ChangesComeLate' /\ CallbackFollows')
  BY <1>u DEF ChangesCounted, NotRunning, OwnServer, ClosedDoNotServe,
       OldAreClosed, Listening, CleanStopLosesNoRequest, ChangesComeLate,
       CallbackFollows, Storing, FollowInv
<1> QED  BY <1>4, <1>5, <1>6, <1>7, <1>8, <1>9, <1>10, <1>11, <1>12, <1>13 DEF
     FollowInv

LEMMA RestartLoadsReadKeeps ==
  ASSUME BaseInv, ServeInv, NEW r \in Restarts, RestartLoadsRead(r)
  PROVE  BaseInv' /\ ServeInv' /\ (FollowInv => FollowInv')
<1> USE DEF BaseInv, ServeInv
<1>u. UNCHANGED <<config, changes, notified, callback, got, changed, unread,
     readTimeout, writeTimeout, running, restarts, mu, httpSrv, closed,
     inFlight, granted, abandoned, serve, on, failed, shuttingDown, stop>>
  BY DEF RestartLoadsRead, configVars, callbackVars, restartVars, requestVars,
       serverVars, serveVars, stopVars
<1>t. Shapes  BY TypesGiveShapes
<1>a. /\ restart[r] = "load read"
      /\ settings' = [settings EXCEPT ![r].read = readTimeout]
      /\ restart' = [restart EXCEPT ![r] = "close"]
  BY DEF RestartLoadsRead
<1>m. r \in Servers /\ r # 0 /\ mu = r /\ (\A p \in Stoppers : stop[p] # "drain")
      /\ \A q \in Restarts : q # r => restart[q] \notin ActiveStates
  BY <1>t, Numbers, <1>a DEF TypeOK, MutexHeld, ActiveStates, Shapes
<1>n. /\ settings'[r].write = settings[r].write /\ settings'[r].read = readTimeout
      /\ \A q \in Restarts : q # r => restart'[q] = restart[q]
      /\ restart'[r] = "close"
  BY <1>a, <1>m, <1>t DEF Shapes, Settings
<1>1. MutexHeld'
  BY <1>u, <1>a, <1>m, <1>t, Numbers DEF TypeOK, MutexHeld, ActiveStates,
       Shapes
<1>2. restart' \in [Restarts -> RestartStates]
  BY <1>u, <1>a, <1>m, <1>t DEF Shapes, RestartStates, ActiveStates
<1>3. settings' \in [Servers -> Settings]
  BY <1>u, <1>a, <1>m, <1>t DEF Shapes, Settings
<1>4. TypeOK'
  BY <1>u, <1>1, <1>2, <1>3 DEF TypeOK, MutexHeld, RestartStates,
       ActiveStates, ServeStates, Listening, StopStates, Settings, Storing
<1>5. RestartsInOrder'
  BY <1>u, <1>a, <1>m, <1>t DEF RestartsInOrder, Shapes
<1>6. ClosedFirst'
  BY <1>u, <1>a, <1>m, <1>t DEF ClosedFirst, Shapes
<1>7. OnlyInstalledUsed'
  BY <1>u, <1>a, <1>m, <1>t, Numbers DEF OnlyInstalledUsed, Installed, Shapes
<1>8. RequestsKnown'
  BY <1>u, <1>a, <1>m, <1>t DEF RequestsKnown, Shapes
<1>9. StopSilences'
  BY <1>u, <1>a, <1>m, <1>t DEF StopSilences, ActiveStates, Shapes
<1>10. FieldIsOpen'
  BY <1>u, <1>a, <1>m, <1>t DEF FieldIsOpen, Replacing, Shapes
<1>11. FieldIsServed'
  BY <1>u, <1>a, <1>m, <1>t DEF FieldIsServed, Replacing, Listening, Shapes
<1>12. FollowInv => SettingsFollow'
  <2> SUFFICES ASSUME FollowInv, ~shuttingDown, ~RestartPending'
               PROVE  MadeFollow' /\ FieldFollows'
    BY <1>u DEF SettingsFollow
  <2>1. MadeFollow /\ FieldFollows
    BY <1>u, <1>a, <1>t DEF RestartPending, FollowInv, SettingsFollow, Shapes
  <2>2. MadeFollow'
    <3>1. ASSUME NEW q \in Restarts, restart'[q] \in {"load read", "close", "drain", "install"}
          PROVE  q = r
      BY <1>m, <1>n, <3>1 DEF ActiveStates
    <3>2. settings'[r].write = writeTimeout'
      BY <1>u, <1>n, <1>a, <2>1 DEF MadeFollow
    <3>3. restart'[r] \in {"close", "drain", "install"} => settings'[r].read = readTimeout'
      BY <1>u, <1>n
    <3> QED  BY <3>1, <3>2, <3>3 DEF MadeFollow
  <2>3. FieldFollows'
    BY <1>u, <1>a, <1>t DEF FieldFollows, Shapes
  <2> QED  BY <2>2, <2>3
<1>13. ChangesCounted' /\ NotRunning' /\ OwnServer' /\ ClosedDoNotServe' /\
     OldAreClosed' /\ CleanStopLosesNoRequest' /\ (FollowInv =>
     ChangesComeLate' /\ CallbackFollows')
  BY <1>u DEF ChangesCounted, NotRunning, OwnServer, ClosedDoNotServe,
       OldAreClosed, Listening, CleanStopLosesNoRequest, ChangesComeLate,
       CallbackFollows, Storing, FollowInv
<1> QED  BY <1>4, <1>5, <1>6, <1>7, <1>8, <1>9, <1>10, <1>11, <1>12, <1>13 DEF
     FollowInv

LEMMA RestartClosesOldKeeps ==
  ASSUME BaseInv, ServeInv, NEW r \in Restarts, RestartClosesOld(r)
  PROVE  BaseInv' /\ ServeInv' /\ (FollowInv => FollowInv')
<1> USE DEF BaseInv, ServeInv
<1>u. UNCHANGED <<config, changes, notified, callback, got, changed, unread,
     readTimeout, writeTimeout, running, restarts, mu, httpSrv, settings,
     inFlight, granted, abandoned, on, failed, shuttingDown, stop>>
  BY DEF RestartClosesOld, configVars, callbackVars, restartVars, requestVars,
       serverVars, serveVars, stopVars
<1>t. Shapes  BY TypesGiveShapes
<1>a. /\ restart[r] = "close"
      /\ closed' = closed \cup {httpSrv}
      /\ serve' = [g \in Servers |-> IF on[g] = httpSrv /\ serve[g] = "serving"
                                     THEN "done" ELSE serve[g]]
      /\ restart' = [restart EXCEPT ![r] = "drain"]
  BY DEF RestartClosesOld, CloseServer
<1>m. r \in Servers /\ r # 0 /\ mu = r /\ (\A p \in Stoppers : stop[p] # "drain")
      /\ \A q \in Restarts : q # r => restart[q] \notin ActiveStates
  BY <1>t, Numbers, <1>a DEF TypeOK, MutexHeld, ActiveStates, Shapes
<1>1. MutexHeld'
  BY <1>u, <1>a, <1>m, <1>t, Numbers DEF TypeOK, MutexHeld, ActiveStates,
       Shapes
<1>2. restart' \in [Restarts -> RestartStates]
  BY <1>u, <1>a, <1>m, <1>t DEF Shapes, RestartStates, ActiveStates
<1>3. closed' \in SUBSET Servers
  BY <1>u, <1>a, <1>m, <1>t DEF Shapes
<1>4. serve' \in [Servers -> ServeStates]
  BY <1>u, <1>a, <1>m, <1>t DEF Shapes, ServeStates, Listening
<1>5. abandoned' \in SUBSET closed'
  BY <1>u, <1>a, <1>m, <1>t DEF Shapes
<1>6. TypeOK'
  BY <1>u, <1>1, <1>2, <1>3, <1>4, <1>5 DEF TypeOK, MutexHeld, RestartStates,
       ActiveStates, ServeStates, Listening, StopStates, Settings, Storing
<1>7. RestartsInOrder'
  BY <1>u, <1>a, <1>m, <1>t DEF RestartsInOrder, Shapes
<1>8. NotRunning'
  BY <1>u, <1>a, <1>m, <1>t DEF NotRunning, Shapes
<1>9. ClosedFirst'
  BY <1>u, <1>a, <1>m, <1>t DEF ClosedFirst, Shapes
<1>10. OnlyInstalledUsed'
  BY <1>u, <1>a, <1>m, <1>t DEF OnlyInstalledUsed, Installed, Shapes
<1>11. ClosedDoNotServe'
  BY <1>u, <1>a, <1>m, <1>t DEF ClosedDoNotServe, Shapes
<1>12. OldAreClosed'
  BY <1>u, <1>a, <1>m, <1>t DEF OldAreClosed, Listening, Shapes
<1>13. RequestsKnown'
  BY <1>u, <1>a, <1>m, <1>t DEF RequestsKnown, Shapes
<1>14. StopSilences'
  BY <1>u, <1>a, <1>m, <1>t DEF StopSilences, ActiveStates, Shapes
<1>15. FieldIsOpen'
  BY <1>u, <1>a, <1>m, <1>t DEF FieldIsOpen, Replacing, Shapes
<1>16. FieldIsServed'
  BY <1>u, <1>a, <1>m, <1>t DEF FieldIsServed, Replacing, Listening, Shapes
<1>17. FollowInv => SettingsFollow'
  BY <1>u, <1>a, <1>m, <1>t DEF SettingsFollow, MadeFollow, FieldFollows,
       RestartPending, Storing, ActiveStates, FollowInv, Shapes
<1>18. ChangesCounted' /\ OwnServer' /\ CleanStopLosesNoRequest' /\ (FollowInv
     => ChangesComeLate' /\ CallbackFollows')
  BY <1>u DEF ChangesCounted, OwnServer, CleanStopLosesNoRequest,
       ChangesComeLate, CallbackFollows, Storing, FollowInv
<1> QED  BY <1>6, <1>7, <1>8, <1>9, <1>10, <1>11, <1>12, <1>13, <1>14, <1>15,
     <1>16, <1>17, <1>18 DEF FollowInv

LEMMA RestartDrainsKeeps ==
  ASSUME BaseInv, ServeInv, NEW r \in Restarts, RestartDrains(r)
  PROVE  BaseInv' /\ ServeInv' /\ (FollowInv => FollowInv')
<1> USE DEF BaseInv, ServeInv
<1>u. UNCHANGED <<config, changes, notified, callback, got, changed, unread,
     readTimeout, writeTimeout, running, restarts, mu, httpSrv, settings,
     closed, inFlight, granted, serve, on, failed, shuttingDown, stop>>
  BY DEF RestartDrains, configVars, callbackVars, restartVars, requestVars,
       serverVars, serveVars, stopVars
<1>t. Shapes  BY TypesGiveShapes
<1>a. /\ restart[r] = "drain"
      /\ abandoned' = abandoned \cup (inFlight \cap {httpSrv})
      /\ restart' = [restart EXCEPT ![r] = "install"]
  BY DEF RestartDrains
<1>m. r \in Servers /\ r # 0 /\ mu = r /\ (\A p \in Stoppers : stop[p] # "drain")
      /\ \A q \in Restarts : q # r => restart[q] \notin ActiveStates
  BY <1>t, Numbers, <1>a DEF TypeOK, MutexHeld, ActiveStates, Shapes
<1>1. MutexHeld'
  BY <1>u, <1>a, <1>m, <1>t, Numbers DEF TypeOK, MutexHeld, ActiveStates,
       Shapes
<1>2. restart' \in [Restarts -> RestartStates]
  BY <1>u, <1>a, <1>m, <1>t DEF Shapes, RestartStates, ActiveStates
<1>3. abandoned' \in SUBSET closed'
  BY <1>u, <1>a, <1>m, <1>t DEF Shapes, ClosedFirst
<1>4. TypeOK'
  BY <1>u, <1>1, <1>2, <1>3 DEF TypeOK, MutexHeld, RestartStates,
       ActiveStates, ServeStates, Listening, StopStates, Settings, Storing
<1>5. RestartsInOrder'
  BY <1>u, <1>a, <1>m, <1>t DEF RestartsInOrder, Shapes
<1>6. ClosedFirst'
  BY <1>u, <1>a, <1>m, <1>t DEF ClosedFirst, Shapes
<1>7. OnlyInstalledUsed'
  BY <1>u, <1>a, <1>m, <1>t DEF OnlyInstalledUsed, Installed, Shapes
<1>8. RequestsKnown'
  BY <1>u, <1>a, <1>m, <1>t DEF RequestsKnown, Shapes
<1>9. StopSilences'
  BY <1>u, <1>a, <1>m, <1>t DEF StopSilences, ActiveStates, Shapes
<1>10. CleanStopLosesNoRequest'
  BY <1>u, <1>a, <1>m, <1>t DEF CleanStopLosesNoRequest, Shapes
<1>11. FieldIsOpen'
  BY <1>u, <1>a, <1>m, <1>t DEF FieldIsOpen, Replacing, Shapes
<1>12. FieldIsServed'
  BY <1>u, <1>a, <1>m, <1>t DEF FieldIsServed, Replacing, Listening, Shapes
<1>13. FollowInv => SettingsFollow'
  BY <1>u, <1>a, <1>m, <1>t DEF SettingsFollow, MadeFollow, FieldFollows,
       RestartPending, Storing, ActiveStates, FollowInv, Shapes
<1>14. ChangesCounted' /\ NotRunning' /\ OwnServer' /\ ClosedDoNotServe' /\
     OldAreClosed' /\ (FollowInv => ChangesComeLate' /\ CallbackFollows')
  BY <1>u DEF ChangesCounted, NotRunning, OwnServer, ClosedDoNotServe,
       OldAreClosed, Listening, ChangesComeLate, CallbackFollows, Storing,
       FollowInv
<1> QED  BY <1>4, <1>5, <1>6, <1>7, <1>8, <1>9, <1>10, <1>11, <1>12, <1>13,
     <1>14 DEF FollowInv

LEMMA RestartInstallsKeeps ==
  ASSUME BaseInv, ServeInv, NEW r \in Restarts, RestartInstalls(r)
  PROVE  BaseInv' /\ ServeInv' /\ (FollowInv => FollowInv')
<1> USE DEF BaseInv, ServeInv
<1>u. UNCHANGED <<config, changes, notified, callback, got, changed, unread,
     readTimeout, writeTimeout, running, restarts, settings, closed, inFlight,
     granted, abandoned, on, failed, shuttingDown, stop>>
  BY DEF RestartInstalls, configVars, callbackVars, restartVars, requestVars,
       serverVars, serveVars, stopVars
<1>t. Shapes  BY TypesGiveShapes
<1>a. /\ restart[r] = "install"
      /\ httpSrv' = r
      /\ serve' = [serve EXCEPT ![r] = "start"]
      /\ restart' = [restart EXCEPT ![r] = "done"]
      /\ mu' = Nobody
  BY DEF RestartInstalls
<1>m. r \in Servers /\ r # 0 /\ mu = r /\ (\A p \in Stoppers : stop[p] # "drain")
      /\ \A q \in Restarts : q # r => restart[q] \notin ActiveStates
  BY <1>t, Numbers, <1>a DEF TypeOK, MutexHeld, ActiveStates, Shapes
<1>n. /\ running
      /\ \A q \in Restarts : restart'[q] \notin ActiveStates
  <2>1. running
    BY <1>a, <1>t, Numbers DEF NotRunning, RestartsInOrder, Shapes
  <2>2. \A q \in Restarts : q # r => restart'[q] = restart[q]
    BY <1>a, <1>m, <1>t DEF Shapes
  <2>3. restart'[r] = "done"
    BY <1>a, <1>t DEF Shapes
  <2> QED  BY <1>m, <2>1, <2>2, <2>3 DEF ActiveStates
<1>1. MutexHeld'
  BY <1>u, <1>a, <1>m, <1>t, Numbers DEF TypeOK, MutexHeld, ActiveStates,
       Shapes
<1>2. restart' \in [Restarts -> RestartStates]
  BY <1>u, <1>a, <1>m, <1>t DEF Shapes, RestartStates, ActiveStates
<1>3. mu' \in {Nobody} \cup Restarts \cup Stoppers
  BY <1>u, <1>a, <1>m, <1>t, Numbers DEF Shapes
<1>4. httpSrv' \in Servers
  BY <1>u, <1>a, <1>m, <1>t DEF Shapes
<1>5. serve' \in [Servers -> ServeStates]
  BY <1>u, <1>a, <1>m, <1>t DEF Shapes, ServeStates, Listening
<1>6. TypeOK'
  BY <1>u, <1>1, <1>2, <1>3, <1>4, <1>5 DEF TypeOK, MutexHeld, RestartStates,
       ActiveStates, ServeStates, Listening, StopStates, Settings, Storing
<1>7. RestartsInOrder'
  BY <1>u, <1>a, <1>m, <1>t DEF RestartsInOrder, Shapes
<1>8. NotRunning'
  BY <1>u, <1>n DEF NotRunning
<1>9. ClosedFirst'
  BY <1>n DEF ClosedFirst, ActiveStates
<1>10. OnlyInstalledUsed'
  BY <1>u, <1>a, <1>m, <1>t DEF OnlyInstalledUsed, Installed, Shapes
<1>11. OwnServer'
  BY <1>u, <1>a, <1>m, <1>t DEF OwnServer, Shapes
<1>12. ClosedDoNotServe'
  BY <1>u, <1>a, <1>m, <1>t DEF ClosedDoNotServe, OwnServer, ClosedFirst,
       Shapes
<1>13. OldAreClosed'
  BY <1>u, <1>a, <1>m, <1>t DEF OldAreClosed, Listening, OwnServer,
       ClosedFirst, Shapes
<1>14. RequestsKnown'
  BY <1>u, <1>a, <1>m, <1>t DEF RequestsKnown, Shapes
<1>15. StopSilences'
  BY <1>u, <1>a, <1>m, <1>t DEF StopSilences, ActiveStates, Shapes
<1>16. FieldIsOpen'
  BY <1>u, <1>a, <1>m, <1>t DEF FieldIsOpen, Replacing, OnlyInstalledUsed,
       Installed, Shapes
<1>17. FieldIsServed'
  BY <1>u, <1>a, <1>m, <1>t DEF FieldIsServed, Replacing, Listening, Shapes
<1>18. FollowInv => SettingsFollow'
  <2> SUFFICES ASSUME FollowInv, ~shuttingDown, ~RestartPending'
               PROVE  MadeFollow' /\ FieldFollows'
    BY <1>u DEF SettingsFollow
  <2>1. MadeFollow /\ FieldFollows
    BY <1>u, <1>a, <1>t DEF RestartPending, FollowInv, SettingsFollow, Shapes
  <2>2. MadeFollow'
    BY <1>u, <1>n DEF MadeFollow, ActiveStates
  <2>3. FieldFollows'
    <3>1. settings[r].read = readTimeout /\ settings[r].write = writeTimeout
      BY <1>a, <2>1 DEF MadeFollow
    <3> QED  BY <1>u, <1>a, <1>n, <1>t, <3>1 DEF FieldFollows, Shapes
  <2> QED  BY <2>2, <2>3
<1>19. ChangesCounted' /\ CleanStopLosesNoRequest' /\ (FollowInv =>
     ChangesComeLate' /\ CallbackFollows')
  BY <1>u DEF ChangesCounted, CleanStopLosesNoRequest, ChangesComeLate,
       CallbackFollows, Storing, FollowInv
<1> QED  BY <1>6, <1>7, <1>8, <1>9, <1>10, <1>11, <1>12, <1>13, <1>14, <1>15,
     <1>16, <1>17, <1>18, <1>19 DEF FollowInv

LEMMA StopBeginsKeeps ==
  ASSUME BaseInv, ServeInv, NEW s \in Stoppers, StopBegins(s)
  PROVE  BaseInv' /\ ServeInv' /\ (FollowInv => FollowInv')
<1> USE DEF BaseInv, ServeInv
<1>u. UNCHANGED <<config, changes, notified, callback, got, changed, unread,
     readTimeout, writeTimeout, running, restarts, restart, mu, httpSrv,
     settings, closed, inFlight, granted, abandoned, serve, on, failed>>
  BY DEF StopBegins, configVars, callbackVars, restartVars, requestVars,
       serverVars, serveVars, stopVars
<1>t. Shapes  BY TypesGiveShapes
<1>a. /\ running /\ stop[s] = "none"
      /\ shuttingDown' = TRUE
      /\ stop' = [stop EXCEPT ![s] = "lock"]
  BY DEF StopBegins
<1>1. MutexHeld'
  BY <1>u, <1>a, <1>t, Numbers DEF TypeOK, MutexHeld, ActiveStates, Shapes
<1>2. shuttingDown' \in BOOLEAN
  BY <1>u, <1>a, <1>t DEF Shapes
<1>3. stop' \in [Stoppers -> StopStates]
  BY <1>u, <1>a, <1>t DEF Shapes, StopStates
<1>4. TypeOK'
  BY <1>u, <1>1, <1>2, <1>3 DEF TypeOK, MutexHeld, RestartStates,
       ActiveStates, ServeStates, Listening, StopStates, Settings, Storing
<1>5. StopSilences'
  BY <1>u, <1>a, <1>t DEF StopSilences, ActiveStates, Shapes
<1>6. CleanStopLosesNoRequest'
  BY <1>u, <1>a, <1>t DEF CleanStopLosesNoRequest, Shapes
<1>7. FieldIsOpen'
  BY <1>u, <1>a, <1>t DEF FieldIsOpen, Replacing, Shapes
<1>8. FieldIsServed'
  BY <1>u, <1>a, <1>t DEF FieldIsServed, Replacing, Listening, Shapes
<1>9. FollowInv => SettingsFollow'
  BY <1>u, <1>a, <1>t DEF SettingsFollow, MadeFollow, FieldFollows,
       RestartPending, Storing, ActiveStates, FollowInv, Shapes
<1>10. ChangesCounted' /\ RestartsInOrder' /\ NotRunning' /\ ClosedFirst' /\
     OnlyInstalledUsed' /\ OwnServer' /\ ClosedDoNotServe' /\ OldAreClosed' /\
     RequestsKnown' /\ (FollowInv => ChangesComeLate' /\ CallbackFollows')
  BY <1>u DEF ChangesCounted, RestartsInOrder, NotRunning, ClosedFirst,
       OnlyInstalledUsed, Installed, OwnServer, ClosedDoNotServe,
       OldAreClosed, Listening, RequestsKnown, ChangesComeLate,
       CallbackFollows, Storing, FollowInv
<1> QED  BY <1>4, <1>5, <1>6, <1>7, <1>8, <1>9, <1>10 DEF FollowInv

LEMMA StopClosesKeeps ==
  ASSUME BaseInv, ServeInv, NEW s \in Stoppers, StopCloses(s)
  PROVE  BaseInv' /\ ServeInv' /\ (FollowInv => FollowInv')
<1> USE DEF BaseInv, ServeInv
<1>u. UNCHANGED <<config, changes, notified, callback, got, changed, unread,
     readTimeout, writeTimeout, running, restarts, restart, httpSrv, settings,
     inFlight, granted, abandoned, on, failed, shuttingDown>>
  BY DEF StopCloses, configVars, callbackVars, restartVars, requestVars,
       serverVars, serveVars, stopVars
<1>t. Shapes  BY TypesGiveShapes
<1>a. /\ stop[s] = "lock" /\ mu = Nobody
      /\ mu' = s
      /\ closed' = closed \cup {httpSrv}
      /\ serve' = [g \in Servers |-> IF on[g] = httpSrv /\ serve[g] = "serving"
                                     THEN "done" ELSE serve[g]]
      /\ stop' = [stop EXCEPT ![s] = "drain"]
  BY DEF StopCloses, CloseServer
<1>m. mu = Nobody /\ (\A p \in Stoppers : stop[p] # "drain")
      /\ \A q \in Restarts : restart[q] \notin ActiveStates
  BY <1>t, Numbers, <1>a DEF TypeOK, MutexHeld, ActiveStates, Shapes
<1>1. MutexHeld'
  <2>1. \A q \in Restarts : restart'[q] \in {"none", "lock", "done"} /\ mu' # q
    <3>1. restart' = restart /\ mu' = s
      BY <1>u, <1>a
    <3>2. \A q \in Restarts : restart[q] \in RestartStates \ ActiveStates
      BY <1>m, <1>t DEF Shapes
    <3>3. \A q \in Restarts : q # s
      BY Numbers
    <3> QED  BY <3>1, <3>2, <3>3 DEF RestartStates
  <2>2. \A p \in Stoppers : stop'[p] = IF p = s THEN "drain" ELSE stop[p]
    BY <1>a, <1>t DEF Shapes
  <2> QED  BY <1>a, <1>m, <2>1, <2>2 DEF MutexHeld
<1>2. mu' \in {Nobody} \cup Restarts \cup Stoppers
  BY <1>u, <1>a, <1>m, <1>t, Numbers DEF Shapes
<1>3. closed' \in SUBSET Servers
  BY <1>u, <1>a, <1>m, <1>t DEF Shapes
<1>4. serve' \in [Servers -> ServeStates]
  BY <1>u, <1>a, <1>m, <1>t DEF Shapes, ServeStates, Listening
<1>5. stop' \in [Stoppers -> StopStates]
  BY <1>u, <1>a, <1>m, <1>t DEF Shapes, StopStates
<1>6. abandoned' \in SUBSET closed'
  BY <1>u, <1>a, <1>m, <1>t DEF Shapes
<1>7. TypeOK'
  BY <1>u, <1>1, <1>2, <1>3, <1>4, <1>5, <1>6 DEF TypeOK, MutexHeld,
       RestartStates, ActiveStates, ServeStates, Listening, StopStates,
       Settings, Storing
<1>8. NotRunning'
  BY <1>u, <1>a, <1>m, <1>t DEF NotRunning, Shapes
<1>9. ClosedFirst'
  BY <1>u, <1>a, <1>m, <1>t DEF ClosedFirst, ActiveStates, Shapes
<1>10. OnlyInstalledUsed'
  BY <1>u, <1>a, <1>m, <1>t DEF OnlyInstalledUsed, Installed, Shapes
<1>11. ClosedDoNotServe'
  BY <1>u, <1>a, <1>m, <1>t DEF ClosedDoNotServe, Shapes
<1>12. OldAreClosed'
  BY <1>u, <1>a, <1>m, <1>t DEF OldAreClosed, Listening, Shapes
<1>13. StopSilences'
  BY <1>u, <1>a, <1>m, <1>t DEF StopSilences, ActiveStates, Shapes
<1>14. CleanStopLosesNoRequest'
  BY <1>u, <1>a, <1>m, <1>t DEF CleanStopLosesNoRequest, Shapes
<1>15. FieldIsOpen'
  BY <1>u, <1>a, <1>m, <1>t DEF FieldIsOpen, Replacing, StopSilences, Shapes
<1>16. FieldIsServed'
  BY <1>u, <1>a, <1>m, <1>t DEF FieldIsServed, Replacing, Listening,
       StopSilences, Shapes
<1>17. FollowInv => FollowInv'
  BY <1>u, TimeoutsUntouched
<1>18. ChangesCounted' /\ RestartsInOrder' /\ OwnServer' /\ RequestsKnown'
  BY <1>u DEF ChangesCounted, RestartsInOrder, OwnServer, RequestsKnown
<1> QED  BY <1>7, <1>8, <1>9, <1>10, <1>11, <1>12, <1>13, <1>14, <1>15, <1>16,
     <1>17, <1>18 DEF FollowInv

LEMMA StopEndsKeeps ==
  ASSUME BaseInv, ServeInv, NEW s \in Stoppers, StopEnds(s)
  PROVE  BaseInv' /\ ServeInv' /\ (FollowInv => FollowInv')
<1> USE DEF BaseInv, ServeInv
<1>u. UNCHANGED <<config, changes, notified, callback, got, changed, unread,
     readTimeout, writeTimeout, running, restarts, restart, httpSrv, settings,
     closed, inFlight, granted, abandoned, serve, on, failed, shuttingDown>>
  BY DEF StopEnds, configVars, callbackVars, restartVars, requestVars,
       serverVars, serveVars, stopVars
<1>t. Shapes  BY TypesGiveShapes
<1>a. /\ stop[s] = "drain"
      /\ mu' = Nobody
      /\ stop' = [stop EXCEPT ![s] = IF httpSrv \in inFlight THEN "expired" ELSE "clean"]
  BY DEF StopEnds
<1>m. mu = s /\ (\A q \in Restarts : restart[q] \notin ActiveStates)
      /\ \A p \in Stoppers : p # s => stop[p] # "drain"
  BY <1>t, Numbers, <1>a DEF TypeOK, MutexHeld, ActiveStates, Shapes
<1>1. MutexHeld'
  BY <1>u, <1>a, <1>m, <1>t, Numbers DEF TypeOK, MutexHeld, ActiveStates,
       Shapes
<1>2. mu' \in {Nobody} \cup Restarts \cup Stoppers
  BY <1>u, <1>a, <1>m, <1>t, Numbers DEF Shapes
<1>3. stop' \in [Stoppers -> StopStates]
  BY <1>u, <1>a, <1>m, <1>t DEF Shapes, StopStates
<1>4. TypeOK'
  BY <1>u, <1>1, <1>2, <1>3 DEF TypeOK, MutexHeld, RestartStates,
       ActiveStates, ServeStates, Listening, StopStates, Settings, Storing
<1>5. StopSilences'
  BY <1>u, <1>a, <1>m, <1>t DEF StopSilences, ActiveStates, Shapes
<1>6. CleanStopLosesNoRequest'
  BY <1>u, <1>a, <1>m, <1>t DEF CleanStopLosesNoRequest, RequestsKnown, Shapes
<1>7. FollowInv => FollowInv'
  BY <1>u, TimeoutsUntouched
<1>8. ChangesCounted' /\ RestartsInOrder' /\ NotRunning' /\ ClosedFirst' /\
     OnlyInstalledUsed' /\ OwnServer' /\ ClosedDoNotServe' /\ OldAreClosed' /\
     RequestsKnown' /\ FieldIsOpen' /\ FieldIsServed'
  BY <1>u DEF ChangesCounted, RestartsInOrder, NotRunning, ClosedFirst,
       OnlyInstalledUsed, Installed, OwnServer, ClosedDoNotServe,
       OldAreClosed, Listening, RequestsKnown, FieldIsOpen, Replacing,
       FieldIsServed
<1> QED  BY <1>4, <1>5, <1>6, <1>7, <1>8 DEF FollowInv

------------------------------------------------------------------------------
(* The invariant holds initially and every step keeps it.                  *)

LEMMA RestInitial == Init => BaseInv /\ ServeInv /\ FollowInv
<1> SUFFICES ASSUME Init PROVE BaseInv /\ ServeInv /\ FollowInv  OBVIOUS
<1> USE Numbers DEF Init
<1>1. config \in Settings
  BY RestAssumption DEF Settings
<1>2. MutexHeld
  BY DEF MutexHeld
<1>3. Restarts \subseteq Nat \ {0} /\ settings \in [Servers -> Settings]
  BY <1>1 DEF Servers, Restarts
<1>4. readTimeout \in Nat /\ writeTimeout \in Nat
  BY <1>1 DEF Settings
<1>5. TypeOK
  <2>1. restart \in [Restarts -> RestartStates] /\ serve \in [Servers -> ServeStates]
    BY DEF RestartStates, ServeStates
  <2>2. stop \in [Stoppers -> StopStates] /\ on \in [Servers -> Servers]
    BY DEF StopStates
  <2>3. granted \in [Servers -> Nat] /\ httpSrv \in Servers /\ abandoned \subseteq closed
    OBVIOUS
  <2>4. {notified, changed, unread, running, failed, shuttingDown} \subseteq BOOLEAN
    OBVIOUS
  <2>5. changes \in 0..MaxChanges /\ restarts \in 0..changes
    OBVIOUS
  <2> HIDE Numbers
  <2> QED
    BY <2>4, <2>5, <1>2, <1>3, <1>4, <2>1, <2>2, <2>3 DEF TypeOK, Settings, RestartStates,
       ActiveStates, ServeStates, Listening, StopStates
<1>6. BaseInv
  BY <1>3, <1>5 DEF BaseInv, ChangesCounted, RestartsInOrder, NotRunning, ClosedFirst
<1>7. OnlyInstalledUsed /\ OwnServer /\ ClosedDoNotServe /\ OldAreClosed
  BY DEF OnlyInstalledUsed, Installed, OwnServer, ClosedDoNotServe, OldAreClosed, Listening
<1>8. RequestsKnown /\ StopSilences /\ CleanStopLosesNoRequest /\ FieldIsOpen /\ FieldIsServed
  BY DEF RequestsKnown, StopSilences, CleanStopLosesNoRequest, FieldIsOpen, Replacing,
         FieldIsServed
<1>9. FollowInv
  BY <1>4 DEF FollowInv, ChangesComeLate, CallbackFollows, SettingsFollow, MadeFollow,
              FieldFollows, Storing
<1> QED  BY <1>6, <1>7, <1>8, <1>9 DEF ServeInv

LEMMA StutterKeeps ==
  ASSUME BaseInv, ServeInv, UNCHANGED vars
  PROVE  BaseInv' /\ ServeInv' /\ (FollowInv => FollowInv')
<1>1. UNCHANGED <<config, changes, notified, callback, got, changed, unread,
                  readTimeout, writeTimeout, running, restarts, restart, mu, httpSrv>>
  BY DEF vars, configVars, callbackVars, restartVars, serverVars
<1>2. UNCHANGED <<settings, closed, inFlight, granted, abandoned, serve, on, failed,
                  shuttingDown, stop>>
  BY DEF vars, requestVars, serverVars, serveVars, stopVars
<1>3. TypeOK' /\ ChangesCounted'
  BY <1>1, <1>2 DEF BaseInv, TypeOK, MutexHeld, ChangesCounted
<1> QED  BY <1>1, <1>2, <1>3, ServersUntouched, TimeoutsUntouched DEF BaseInv

LEMMA RestStep ==
  ASSUME BaseInv, ServeInv, [Next]_vars
  PROVE  BaseInv' /\ ServeInv' /\ (~EarlyChanges /\ FollowInv => FollowInv')
<1>1. CASE ConfigChanges
  BY <1>1, ConfigChangesKeeps
<1>2. CASE Callback
  BY <1>2, CallbackStartsKeeps, CallbackLoadsKeeps, CallbackFailsKeeps,
     CallbackStoresReadKeeps, CallbackStoresWriteKeeps, CallbackSpawnsNotKeeps,
     CallbackSpawnsKeeps DEF Callback
<1>3. CASE Run \/ RunReadsServer
  BY <1>3, RunKeeps, RunReadsServerKeeps
<1>4. CASE \E g \in Servers : ListenAndServe(g)
  BY <1>4, StartListeningKeeps, BindKeeps, RegisterListenerKeeps DEF ListenAndServe
<1>5. CASE \E n \in Servers : RequestArrives(n) \/ RequestEnds(n)
  BY <1>5, RequestArrivesKeeps, RequestEndsKeeps
<1>6. CASE \E r \in Restarts : Restart(r)
  BY <1>6, RestartLocksNotKeeps, RestartLocksKeeps, RestartLoadsWriteKeeps,
     RestartLoadsReadKeeps, RestartClosesOldKeeps, RestartDrainsKeeps,
     RestartInstallsKeeps DEF Restart
<1>7. CASE \E s \in Stoppers : Stop(s)
  BY <1>7, StopBeginsKeeps, StopClosesKeeps, StopEndsKeeps DEF Stop
<1>8. CASE UNCHANGED vars
  BY <1>8, StutterKeeps
<1> QED  BY <1>1, <1>2, <1>3, <1>4, <1>5, <1>6, <1>7, <1>8 DEF Next

LEMMA RestInductive == Spec => [](BaseInv /\ ServeInv)
<1>1. BaseInv /\ ServeInv /\ [Next]_vars => (BaseInv /\ ServeInv)'
  BY RestStep
<1> QED  BY RestInitial, <1>1, PTL DEF Spec

LEMMA FollowInductive ==
  ASSUME ~EarlyChanges
  PROVE  Spec => [](BaseInv /\ ServeInv /\ FollowInv)
<1>1. BaseInv /\ ServeInv /\ FollowInv /\ [Next]_vars => (BaseInv /\ ServeInv /\ FollowInv)'
  BY RestStep
<1> QED  BY RestInitial, <1>1, PTL DEF Spec

------------------------------------------------------------------------------
(* What the invariant implies.                                             *)

(* server.go, closer.go: every variable has its type, and Server.mu is     *)
(* held by exactly the goroutine that is between its Lock and its Unlock,  *)
(* for any number of changes, restarts and stoppers.                       *)
THEOREM RestTypeCorrect == Spec => []TypeOK
<1>1. BaseInv => TypeOK
  BY DEF BaseInv
<1> QED  BY RestInductive, <1>1, PTL

(* Once a ShutdownHTTP has returned no server accepts requests, and no     *)
(* goroutine that is on its way to listen will: shuttingDown is set before *)
(* the mutex is taken, so a restart either has installed its server before *)
(* the shutdown reads the field, or is called off.                         *)
THEOREM StoppedServersStaySilent == Spec => []NothingServesAfterStop
<1>1. BaseInv /\ ServeInv => NothingServesAfterStop
  BY DEF ServeInv, NothingServesAfterStop, StopSilences, OldAreClosed, ClosedDoNotServe,
         Listening
<1> QED  BY RestInductive, <1>1, PTL

(* A ShutdownHTTP that returns nil has waited for every request but those  *)
(* a restart had given up: a request is on the server in the field or on   *)
(* one whose restart ran out of its five seconds.                          *)
THEOREM CleanStopIsClean == Spec => []CleanStopLosesNoRequest
<1>1. BaseInv /\ ServeInv => CleanStopLosesNoRequest
  BY DEF ServeInv
<1> QED  BY RestInductive, <1>1, PTL

LEMMA QuietIsSettled ==
  ASSUME BaseInv, ServeInv, FollowInv, Quiet
  PROVE  /\ serve[httpSrv] = "serving" /\ on[httpSrv] = httpSrv
         /\ settings[httpSrv].read = readTimeout
         /\ settings[httpSrv].write = writeTimeout
<1>t. Shapes
  BY TypesGiveShapes DEF BaseInv
<1>1. ~Replacing /\ ~RestartPending
  BY DEF Quiet, Replacing, RestartPending, Storing
<1>2. MadeFollow /\ FieldFollows
  BY <1>1 DEF Quiet, FollowInv, SettingsFollow
<1>3. serve[httpSrv] = "serving" /\ on[httpSrv] = httpSrv
  BY <1>1, <1>t DEF Quiet, ServeInv, FieldIsServed, Listening, OwnServer, Shapes
<1> QED  BY <1>2, <1>3 DEF Quiet, FieldFollows

(* server.go:35-38: when the changes of the configuration have been dealt  *)
(* with, the server in the field serves, and with the configured timeouts, *)
(* both of one configuration, however many callbacks and restarts have     *)
(* overtaken one another.  The configuration must not change before the    *)
(* App serves: the restart of such a change is lost (run early_change).    *)
THEOREM TimeoutsFollowConfiguration ==
  ASSUME ~EarlyChanges
  PROVE  Spec => []TimeoutsInForce
<1>1. BaseInv /\ ServeInv /\ FollowInv => TimeoutsInForce
  <2> SUFFICES ASSUME BaseInv, ServeInv, FollowInv, Quiet, ~unread
               PROVE  /\ \E g \in Servers : serve[g] = "serving" /\ on[g] = httpSrv
                      /\ settings[httpSrv] = config
    BY DEF TimeoutsInForce
  <2>t. Shapes
    BY TypesGiveShapes DEF BaseInv
  <2>1. readTimeout = config.read /\ writeTimeout = config.write
    BY DEF Quiet, FollowInv, CallbackFollows
  <2>2. settings[httpSrv] \in Settings /\ config \in Settings
    BY <2>t, RestAssumption DEF Shapes, Settings
  <2>3. settings[httpSrv] = config
    BY <2>1, <2>2, QuietIsSettled DEF Settings
  <2> QED  BY <2>3, <2>t, QuietIsSettled DEF Shapes
<1> QED  BY FollowInductive, <1>1, PTL

------------------------------------------------------------------------------
(* The deadlines of handlers against the servers that carry them.  A       *)
(* fourth layer says more of the write timeout than SettingsFollow does:   *)
(* the server has the atomic's value until the callback stores a new one,  *)
(* and from then on a restart is bound to follow.                          *)

WritePending ==
  \/ callback = "spawn" /\ changed
  \/ \E r \in Restarts : restart[r] \in {"lock", "load write"}

WriteFollows ==
  ~shuttingDown /\ ~WritePending =>
    /\ \A r \in Restarts :
         restart[r] \in {"load read", "close", "drain", "install"} =>
           settings[r].write = writeTimeout
    /\ (\A r \in Restarts : restart[r] \in {"none", "done"}) =>
         settings[httpSrv].write = writeTimeout

DeadlineInv == WriteFollows /\ HandlersWithinWriteTimeout

(* What the two depend on.                                                 *)
LEMMA DeadlinesUntouched ==
  ASSUME DeadlineInv, closed \subseteq closed',
         UNCHANGED <<changed, writeTimeout, running, restart, httpSrv, settings,
                     inFlight, granted, shuttingDown>>,
         callback' = callback \/ "spawn" \notin {callback, callback'}
  PROVE  DeadlineInv'
BY DEF DeadlineInv, WriteFollows, WritePending, HandlersWithinWriteTimeout, OutlastsServer,
       GoesAway

(* The steps of the callback: its store of the write timeout is the one    *)
(* that makes the server outdated, and leaves it so until it has spawned.  *)
LEMMA CallbackKeepsDeadlines ==
  ASSUME BaseInv, FollowInv, DeadlineInv, Callback
  PROVE  DeadlineInv'
<1>u. UNCHANGED <<running, httpSrv, settings, closed, inFlight, granted, shuttingDown>>
  BY DEF Callback, CallbackStarts, CallbackLoads, CallbackFails, CallbackStoresRead,
         CallbackStoresWrite, CallbackSpawns, serverVars, requestVars, stopVars
<1>t. Shapes
  BY TypesGiveShapes DEF BaseInv
<1>1. CASE CallbackStarts \/ CallbackFails \/ CallbackStoresRead
  <2>1. UNCHANGED <<changed, writeTimeout, restart>> /\ "spawn" \notin {callback, callback'}
    BY <1>1 DEF CallbackStarts, CallbackFails, CallbackStoresRead, restartVars
  <2> QED  BY <1>u, <2>1, DeadlinesUntouched
<1>2. CASE CallbackLoads
  <2>1. UNCHANGED <<writeTimeout, restart>> /\ "spawn" \notin {callback, callback'}
    BY <1>2 DEF CallbackLoads, restartVars
  <2> QED
    BY <1>u, <2>1 DEF DeadlineInv, WriteFollows, WritePending, HandlersWithinWriteTimeout,
       OutlastsServer, GoesAway
<1>3. CASE CallbackStoresWrite
  <2>1. /\ callback = "store write" /\ callback' = "spawn" /\ writeTimeout' = got.write
        /\ UNCHANGED <<changed, restart>>
    BY <1>3 DEF CallbackStoresWrite, restartVars
  <2>2. ~changed => writeTimeout' = writeTimeout
    BY <2>1 DEF FollowInv, CallbackFollows, Storing
  <2>3. WriteFollows'
    BY <1>u, <2>1, <2>2 DEF DeadlineInv, WriteFollows, WritePending
  <2>4. HandlersWithinWriteTimeout'
    BY <1>u, <2>1 DEF DeadlineInv, HandlersWithinWriteTimeout, OutlastsServer, GoesAway
  <2> QED  BY <2>3, <2>4 DEF DeadlineInv
<1>4. CASE CallbackSpawns
  <2>1. callback = "spawn" /\ callback' = "idle" /\ UNCHANGED <<changed, writeTimeout>>
    BY <1>4 DEF CallbackSpawns
  <2>2. running
    BY <1>t, <2>1 DEF BaseInv, ChangesCounted, FollowInv, ChangesComeLate, Shapes
  <2>3. CASE changed
    <3>1. restart' = [restart EXCEPT ![restarts + 1] = "lock"]
      BY <1>4, <2>2, <2>3 DEF CallbackSpawns
    <3>2. restarts + 1 \in Restarts
      BY <1>t, <2>1, Numbers DEF BaseInv, ChangesCounted, Restarts, Shapes
    <3>3. restart'[restarts + 1] = "lock"
      BY <1>t, <3>1, <3>2 DEF Shapes
    <3> QED
      BY <3>2, <3>3 DEF DeadlineInv, WriteFollows, WritePending, HandlersWithinWriteTimeout,
         GoesAway
  <2>4. CASE ~changed
    <3>1. UNCHANGED restart
      BY <1>4, <2>4 DEF CallbackSpawns, restartVars
    <3> QED
      BY <1>u, <2>1, <2>4, <3>1 DEF DeadlineInv, WriteFollows, WritePending,
         HandlersWithinWriteTimeout, OutlastsServer, GoesAway
  <2> QED  BY <2>3, <2>4
<1> QED  BY <1>1, <1>2, <1>3, <1>4 DEF Callback

(* A handler is given what the server has unless the server is outdated,   *)
(* and an outdated one goes away.                                          *)
LEMMA RequestsKeepDeadlines ==
  ASSUME BaseInv, ServeInv, DeadlineInv, NEW n \in Servers,
         RequestArrives(n) \/ RequestEnds(n)
  PROVE  DeadlineInv'
<1>u. UNCHANGED <<callback, changed, writeTimeout, running, restart, httpSrv, settings,
                  closed, shuttingDown>>
  BY DEF RequestArrives, RequestEnds, callbackVars, restartVars, stopVars
<1>t. Shapes
  BY TypesGiveShapes DEF BaseInv
<1>1. WriteFollows'
  BY <1>u DEF DeadlineInv, WriteFollows, WritePending
<1>2. \A m \in Servers : GoesAway(m)' <=> GoesAway(m)
  BY <1>u DEF GoesAway
<1>3. \A m \in inFlight' \ {n} : m \in inFlight /\ granted'[m] = granted[m]
  BY <1>t DEF RequestArrives, RequestEnds, Shapes
<1>4. \A m \in inFlight' \ {n} : OutlastsServer(m)' => GoesAway(m)'
  BY <1>u, <1>t, <1>2, <1>3 DEF DeadlineInv, HandlersWithinWriteTimeout, OutlastsServer, Shapes
<1>5. ASSUME n \in inFlight', OutlastsServer(n)'
      PROVE  GoesAway(n)'
  <2>1. RequestArrives(n)
    BY <1>5 DEF RequestEnds
  <2>2. PICK timeout \in HandlerTimeouts :
          granted' = [granted EXCEPT ![n] = Clamped(timeout, writeTimeout)]
    BY <2>1 DEF RequestArrives
  <2>3. granted'[n] = Clamped(timeout, writeTimeout) /\ settings[n].write < granted'[n]
    BY <1>5, <1>u, <1>t, <2>2 DEF OutlastsServer, Shapes
  <2>4. n = httpSrv
    BY <1>t, <2>1 DEF RequestArrives, ServeInv, ClosedDoNotServe, OldAreClosed, Listening,
       Shapes
  <2>5. settings[n].write # writeTimeout
    <3>1. writeTimeout \in Nat /\ settings[n].write \in Nat /\ 0 < settings[n].write
      BY <1>5, <1>t, <1>u DEF Shapes, Settings, OutlastsServer
    <3> QED  BY <2>3, <3>1, ClampedIsShort
  <2>6. SUFFICES ASSUME ~GoesAway(n) PROVE FALSE
    BY <1>2
  <2>7. ~shuttingDown /\ ~WritePending /\ ~\E r \in Restarts : restart[r] = "close"
    <3>1. callback = "spawn" /\ changed => running
      BY <1>t, <2>1 DEF RequestArrives, BaseInv, NotRunning, Shapes
    <3> QED  BY <2>6, <3>1 DEF GoesAway, WritePending
  <2>8. \A r \in Restarts : restart[r] \in {"none", "done"}
    <3>1. \A r \in Restarts : restart[r] \notin {"drain", "install"}
      BY <2>4, <2>6 DEF GoesAway, BaseInv, ClosedFirst
    <3>2. \A r \in Restarts : restart[r] \notin {"lock", "load write", "load read", "close"}
      BY <2>6 DEF GoesAway
    <3> QED  BY <1>t, <3>1, <3>2 DEF Shapes, RestartStates, ActiveStates
  <2> QED  BY <2>4, <2>5, <2>7, <2>8 DEF DeadlineInv, WriteFollows
<1> QED  BY <1>1, <1>4, <1>5 DEF DeadlineInv, HandlersWithinWriteTimeout

LEMMA RestartsKeepDeadlines ==
  ASSUME BaseInv, ServeInv, DeadlineInv, NEW r \in Restarts, Restart(r)
  PROVE  DeadlineInv'
<1>u. UNCHANGED <<callback, changed, writeTimeout, running, inFlight, granted, shuttingDown>>
  BY DEF Restart, RestartLocks, RestartLoadsWrite, RestartLoadsRead, RestartClosesOld,
         RestartDrains, RestartInstalls, callbackVars, serverVars, requestVars, stopVars
<1>t. Shapes /\ r \in Servers
  BY TypesGiveShapes, Numbers DEF BaseInv
<1>m. restart[r] \in ActiveStates => \A q \in Restarts : q # r => restart[q] \notin ActiveStates
  BY <1>t, Numbers DEF BaseInv, TypeOK, MutexHeld, ActiveStates, Shapes
<1>1. CASE RestartLocks(r)
  <2>1. UNCHANGED <<httpSrv, settings, closed>>
    BY <1>1 DEF RestartLocks, serverVars
  <2>2. /\ restart[r] = "lock"
        /\ restart'[r] = IF shuttingDown THEN "done" ELSE "load write"
        /\ \A q \in Restarts : q # r => restart'[q] = restart[q]
    BY <1>1, <1>t DEF RestartLocks, Shapes
  <2> QED
    BY <1>u, <2>1, <2>2 DEF DeadlineInv, WriteFollows, WritePending,
       HandlersWithinWriteTimeout, OutlastsServer, GoesAway
<1>2. CASE RestartLoadsWrite(r)
  <2>1. /\ restart[r] = "load write" /\ restart'[r] = "load read"
        /\ \A q \in Restarts : q # r => restart'[q] = restart[q]
        /\ settings'[r].write = writeTimeout
    BY <1>2, <1>t DEF RestartLoadsWrite, Shapes, Settings
  <2>2. HandlersWithinWriteTimeout'
    BY <2>1 DEF HandlersWithinWriteTimeout, GoesAway
  <2>3. WriteFollows'
    BY <1>u, <1>m, <2>1 DEF WriteFollows, ActiveStates
  <2> QED  BY <2>2, <2>3 DEF DeadlineInv
<1>3. CASE RestartLoadsRead(r)
  <2>1. /\ restart[r] = "load read" /\ restart'[r] = "close"
        /\ \A q \in Restarts : q # r => restart'[q] = restart[q]
        /\ settings'[r].write = settings[r].write
    BY <1>3, <1>t DEF RestartLoadsRead, Shapes, Settings
  <2>2. HandlersWithinWriteTimeout'
    BY <2>1 DEF HandlersWithinWriteTimeout, GoesAway
  <2>3. WriteFollows'
    BY <1>u, <1>m, <2>1 DEF DeadlineInv, WriteFollows, WritePending, ActiveStates
  <2> QED  BY <2>2, <2>3 DEF DeadlineInv
<1>4. CASE RestartClosesOld(r)
  <2>1. /\ restart[r] = "close" /\ restart'[r] = "drain"
        /\ \A q \in Restarts : q # r => restart'[q] = restart[q]
        /\ closed' = closed \cup {httpSrv} /\ UNCHANGED <<httpSrv, settings>>
    BY <1>4, <1>t DEF RestartClosesOld, CloseServer, Shapes
  <2>2. inFlight \subseteq closed'
    BY <1>t, <2>1 DEF ServeInv, RequestsKnown, Shapes
  <2>3. HandlersWithinWriteTimeout'
    BY <1>u, <2>2 DEF HandlersWithinWriteTimeout, GoesAway
  <2>4. WriteFollows'
    BY <1>u, <2>1 DEF DeadlineInv, WriteFollows, WritePending
  <2> QED  BY <2>3, <2>4 DEF DeadlineInv
<1>5. CASE RestartDrains(r)
  <2>1. /\ restart[r] = "drain" /\ restart'[r] = "install"
        /\ \A q \in Restarts : q # r => restart'[q] = restart[q]
        /\ UNCHANGED <<httpSrv, settings, closed>>
    BY <1>5, <1>t DEF RestartDrains, Shapes
  <2> QED
    BY <1>u, <2>1 DEF DeadlineInv, WriteFollows, WritePending, HandlersWithinWriteTimeout,
       OutlastsServer, GoesAway
<1>6. CASE RestartInstalls(r)
  <2>1. /\ restart[r] = "install" /\ restart'[r] = "done"
        /\ \A q \in Restarts : q # r => restart'[q] = restart[q]
        /\ httpSrv' = r /\ UNCHANGED <<settings, closed>>
    BY <1>6, <1>t DEF RestartInstalls, Shapes
  <2>2. HandlersWithinWriteTimeout'
    BY <1>u, <2>1 DEF DeadlineInv, HandlersWithinWriteTimeout, OutlastsServer, GoesAway
  <2>3. WriteFollows'
    BY <1>u, <1>m, <2>1 DEF DeadlineInv, WriteFollows, WritePending, ActiveStates
  <2> QED  BY <2>2, <2>3 DEF DeadlineInv
<1> QED  BY <1>1, <1>2, <1>3, <1>4, <1>5, <1>6 DEF Restart

LEMMA DeadlineStep ==
  ASSUME BaseInv, ServeInv, FollowInv, DeadlineInv, [Next]_vars
  PROVE  DeadlineInv'
<1>1. CASE ConfigChanges
  BY <1>1, DeadlinesUntouched DEF ConfigChanges, callbackVars, restartVars, serverVars,
     requestVars, stopVars
<1>2. CASE Callback
  BY <1>2, CallbackKeepsDeadlines
<1>3. CASE Run
  <2>1. UNCHANGED <<callback, changed, writeTimeout, restart, httpSrv, settings, closed,
                    inFlight, granted, shuttingDown>> /\ running'
    BY <1>3 DEF Run, callbackVars, restartVars, serverVars, requestVars, stopVars
  <2> QED
    BY <2>1 DEF DeadlineInv, WriteFollows, WritePending, HandlersWithinWriteTimeout,
       OutlastsServer, GoesAway
<1>4. CASE RunReadsServer
  BY <1>4, DeadlinesUntouched DEF RunReadsServer, callbackVars, restartVars, serverVars,
     requestVars, stopVars
<1>5. CASE \E g \in Servers : ListenAndServe(g)
  BY <1>5, DeadlinesUntouched DEF ListenAndServe, StartListening, Bind, RegisterListener,
     callbackVars, restartVars, serverVars, requestVars, stopVars
<1>6. CASE \E n \in Servers : RequestArrives(n) \/ RequestEnds(n)
  BY <1>6, RequestsKeepDeadlines
<1>7. CASE \E r \in Restarts : Restart(r)
  BY <1>7, RestartsKeepDeadlines
<1>8. CASE \E s \in Stoppers : StopBegins(s)
  BY <1>8 DEF StopBegins, DeadlineInv, WriteFollows, HandlersWithinWriteTimeout, GoesAway
<1>9. CASE \E s \in Stoppers : StopCloses(s) \/ StopEnds(s)
  BY <1>9, DeadlinesUntouched DEF StopCloses, StopEnds, CloseServer, callbackVars,
     restartVars, serverVars, requestVars
<1>10. CASE UNCHANGED vars
  BY <1>10, DeadlinesUntouched DEF vars, callbackVars, restartVars, serverVars, requestVars,
     stopVars
<1> QED
  BY <1>1, <1>2, <1>3, <1>4, <1>5, <1>6, <1>7, <1>8, <1>9, <1>10 DEF Next, Stop

(* mw.go:77-87: no deadline of a handler is past the write timeout of the  *)
(* server that carries its request, unless Shutdown was called on that     *)
(* server or is bound to be: for any configurations, with and without a    *)
(* write timeout, any handler timeouts and any number of changes.  The     *)
(* configuration must not change before the App serves.                    *)
THEOREM HandlersKeepWithinWriteTimeout ==
  ASSUME ~EarlyChanges
  PROVE  Spec => []HandlersWithinWriteTimeout
<1>1. Init => DeadlineInv
  BY Numbers DEF Init, DeadlineInv, WriteFollows, HandlersWithinWriteTimeout
<1>2. BaseInv /\ ServeInv /\ FollowInv /\ DeadlineInv /\ [Next]_vars => DeadlineInv'
  BY DeadlineStep
<1>3. DeadlineInv => HandlersWithinWriteTimeout
  BY DEF DeadlineInv
<1> QED  BY FollowInductive, <1>1, <1>2, <1>3, PTL DEF Spec
==============================================================================
