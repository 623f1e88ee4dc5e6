------------------------- MODULE AppLifecycleProofs -------------------------
(***************************************************************************)
(* Theorems about AppLifecycle, for any drivers, transports and workers,   *)
(* whatever order main registers and initialises them in.                  *)
(*                                                                         *)
(* The properties speak of sets; what keeps them is the place the loops of *)
(* Run and gracefulStop are at.  The invariant says, for each pc, which    *)
(* components the loops have called so far.                                *)
(***************************************************************************)
EXTENDS AppLifecycle, TLAPS

(* The components before the n-th of a list.                               *)
Before(n, list) == {list[i] : i \in 1..(n - 1)}

ListsOK ==
  /\ drivers \in Seq(Drivers)
  /\ transports \in Seq(Transports)
  /\ workers \in Seq(Workers)

(* The types of TypeOK, without what relates the variables.                *)
FlagsOK == {driverInit, transportInit, workerInit, serviceInit, initFailed} \subseteq BOOLEAN

TypesOK ==
  /\ {ready, cancelled, expired} \subseteq BOOLEAN
  /\ pc \in {"setup", "drivers", "hook", "services", "ready", "waiting", "stop",
             "await", "shutdown", "wait", "stopped", "hook failed"}
  /\ at \in Nat \ {0}

(* Once its flag is set a list is complete, and initialised if no Init     *)
(* failed; Run is refused before all three are.                            *)
ListsInitialised ==
  /\ initialised \subseteq Range(StopOrder)
  /\ ~initFailed =>
       /\ driverInit => Range(drivers) \subseteq initialised
       /\ transportInit => Range(transports) \subseteq initialised
       /\ workerInit => Range(workers) \subseteq initialised
  /\ pc # "setup" => driverInit /\ transportInit /\ workerInit

ServiceKnowsDrivers ==
  /\ given \subseteq Range(drivers)
  /\ serviceInit => driverInit /\ given = Range(drivers)

(* How far the loops of Run are.                                           *)
RanSoFar ==
  /\ pc = "setup" => at = 1 /\ ran = {}
  /\ pc = "drivers" => at <= Len(drivers) + 1 /\ ran = Before(at, drivers)
  /\ pc \in {"hook", "hook failed"} => at = 1 /\ ran = Range(drivers)
  /\ pc = "services" =>
       at <= Len(Services) + 1 /\ ran = Range(drivers) \cup Before(at, Services)
  /\ pc \in {"ready", "waiting"} => at = 1
  /\ pc \in {"ready", "waiting", "stop", "await", "shutdown", "wait", "stopped"} =>
       ran = Range(StopOrder)

(* How far gracefulStop is, and that it has finished with the components   *)
(* before the one at hand.                                                 *)
ToldSoFar ==
  /\ pc \notin {"stop", "await", "shutdown", "wait", "stopped"} => told = {}
  /\ pc = "stop" => at <= Len(StopOrder) + 1 /\ told = Before(at, StopOrder)
  /\ pc \in {"await", "shutdown"} => at <= Len(StopOrder) /\ told = Before(at + 1, StopOrder)
  /\ pc \in {"stop", "await", "shutdown"} => \A c \in Before(at, StopOrder) : Finished(c)
  /\ pc \in {"wait", "stopped"} =>
       /\ at <= Len(StopOrder) + 1
       /\ told = Range(StopOrder)
       /\ \A c \in Range(StopOrder) : Finished(c)

(* What the components did, they were asked to do.                         *)
ComponentsFollow ==
  /\ drained \subseteq told /\ shutDown \subseteq told
  /\ exited \subseteq ran /\ failed \subseteq exited

(* What follows from where Run is.                                         *)
RunInOrder ==
  /\ ready => pc = "waiting"
  /\ pc \in {"stop", "await", "shutdown", "wait", "stopped"} => cancelled
  /\ pc = "stopped" => ran \subseteq exited

AppInv ==
  /\ ListsOK /\ FlagsOK /\ TypesOK /\ ListsInitialised /\ ServiceKnowsDrivers
  /\ RanSoFar /\ ToldSoFar /\ ComponentsFollow /\ RunInOrder

------------------------------------------------------------------------------
(* Sequences and the sets of their elements.                               *)

LEMMA RangeOfSeq ==
  ASSUME NEW S, NEW s \in Seq(S)
  PROVE  Range(s) \subseteq S
<1>1. DOMAIN s = 1..Len(s) /\ \A i \in 1..Len(s) : s[i] \in S
  OBVIOUS
<1>2. QED
  BY <1>1 DEF Range

LEMMA RangeOfConcat ==
  ASSUME NEW S, NEW s \in Seq(S), NEW t \in Seq(S)
  PROVE  /\ s \o t \in Seq(S) /\ Len(s \o t) = Len(s) + Len(t)
         /\ Range(s \o t) = Range(s) \cup Range(t)
<1>1. s \o t \in Seq(S) /\ Len(s \o t) = Len(s) + Len(t)
  OBVIOUS
<1>2. DOMAIN (s \o t) = 1..(Len(s) + Len(t)) /\ DOMAIN s = 1..Len(s) /\ DOMAIN t = 1..Len(t)
  BY <1>1
<1>3. /\ \A i \in 1..Len(s) : (s \o t)[i] = s[i]
      /\ \A i \in 1..Len(t) : (s \o t)[Len(s) + i] = t[i]
  OBVIOUS
<1>4. ASSUME NEW i \in 1..(Len(s) + Len(t))
      PROVE  (s \o t)[i] \in Range(s) \cup Range(t)
  <2>1. CASE i <= Len(s)
    BY <1>2, <1>3, <2>1 DEF Range
  <2>2. CASE i > Len(s)
    <3>1. i - Len(s) \in 1..Len(t) /\ i = Len(s) + (i - Len(s))
      BY <2>2
    <3>2. (s \o t)[i] = t[i - Len(s)]
      BY <1>3, <3>1
    <3>3. QED
      BY <1>2, <3>1, <3>2 DEF Range
  <2>3. QED
    BY <2>1, <2>2
<1>5. Range(s \o t) \subseteq Range(s) \cup Range(t)
  BY <1>2, <1>4 DEF Range
<1>6. ASSUME NEW i \in 1..Len(s)
      PROVE  s[i] \in Range(s \o t)
  BY <1>2, <1>3 DEF Range
<1>7. ASSUME NEW i \in 1..Len(t)
      PROVE  t[i] \in Range(s \o t)
  <2>1. Len(s) + i \in DOMAIN (s \o t)
    BY <1>2
  <2>2. QED
    BY <1>3, <2>1 DEF Range
<1>8. Range(s) \cup Range(t) \subseteq Range(s \o t)
  BY <1>2, <1>6, <1>7 DEF Range
<1>9. QED
  BY <1>1, <1>5, <1>8

LEMMA RangeOfAppend ==
  ASSUME NEW S, NEW s \in Seq(S), NEW e \in S
  PROVE  Append(s, e) \in Seq(S) /\ Range(Append(s, e)) = Range(s) \cup {e}
<1>1. /\ Append(s, e) \in Seq(S)
      /\ DOMAIN Append(s, e) = 1..(Len(s) + 1) /\ DOMAIN s = 1..Len(s)
      /\ \A i \in 1..Len(s) : Append(s, e)[i] = s[i]
      /\ Append(s, e)[Len(s) + 1] = e
  OBVIOUS
<1>2. QED
  BY <1>1 DEF Range

LEMMA BeforeGrows ==
  ASSUME NEW S, NEW s \in Seq(S)
  PROVE  /\ Before(1, s) = {}
         /\ Before(Len(s) + 1, s) = Range(s)
         /\ \A n \in 1..Len(s) : Before(n + 1, s) = Before(n, s) \cup {s[n]} /\ s[n] \in Range(s)
<1>1. DOMAIN s = 1..Len(s) /\ Len(s) \in Nat
  OBVIOUS
<1>2. ASSUME NEW n \in 1..Len(s)
      PROVE  Before(n + 1, s) = Before(n, s) \cup {s[n]}
  <2>1. 1..((n + 1) - 1) = (1..(n - 1)) \cup {n}
    BY <1>1
  <2>2. QED
    BY <2>1 DEF Before
<1>3. QED
  BY <1>1, <1>2 DEF Before, Range

(* The lists that Run and gracefulStop go through.                         *)
OrdersOK ==
  /\ Services \in Seq(Components) /\ StopOrder \in Seq(Components)
  /\ drivers \in Seq(Components)
  /\ Len(StopOrder) = Len(Services) + Len(drivers)
  /\ Range(Services) = Range(transports) \cup Range(workers)
  /\ Range(StopOrder) = Range(Services) \cup Range(drivers)

LEMMA Orders == ListsOK => OrdersOK
<1> SUFFICES ASSUME ListsOK
             PROVE  OrdersOK
  OBVIOUS
<1>1. transports \in Seq(Components) /\ workers \in Seq(Components) /\ drivers \in Seq(Components)
  BY DEF ListsOK, Components
<1>2. Services \in Seq(Components) /\ Range(Services) = Range(transports) \cup Range(workers)
  BY <1>1, RangeOfConcat DEF Services
<1>3. QED
  BY <1>1, <1>2, RangeOfConcat DEF StopOrder, OrdersOK

LEMMA OrdersNext == ListsOK' => OrdersOK'
<1>1. QED
  BY Orders, PTL

(* While a service has not finished no driver comes up.                    *)
LEMMA DriversComeLast ==
  ASSUME ListsOK, NEW n \in Nat, NEW d \in Before(n, StopOrder), n <= Len(StopOrder) + 1,
         d \in Range(drivers)
  PROVE  Range(Services) \subseteq Before(n - 1, StopOrder)
<1>1. /\ Services \in Seq(Components) /\ drivers \in Seq(Drivers)
      /\ Len(StopOrder) = Len(Services) + Len(drivers)
      /\ \A i \in 1..Len(Services) : StopOrder[i] = Services[i]
  <2>1. Services \in Seq(Components) /\ drivers \in Seq(Components) /\ drivers \in Seq(Drivers)
    BY Orders DEF OrdersOK, ListsOK
  <2>2. QED
    BY <2>1, Orders DEF OrdersOK, StopOrder
<1>2. PICK k \in 1..(n - 1) : d = StopOrder[k]
  BY DEF Before
<1>3. Range(Services) \cap Range(drivers) = {}
  <2>1. Range(drivers) \subseteq Drivers /\ Range(Services) \subseteq Transports \cup Workers
    BY Orders, RangeOfSeq DEF OrdersOK, ListsOK
  <2>2. QED
    BY <2>1, ComponentsAssumption
<1>4. k > Len(Services)
  <2>1. k \in 1..Len(Services) => d \in Range(Services)
    BY <1>1, <1>2 DEF Range
  <2>2. QED
    BY <1>1, <1>3, <2>1
<1>5. 1..Len(Services) \subseteq 1..((n - 1) - 1) /\ DOMAIN Services = 1..Len(Services)
  BY <1>1, <1>2, <1>4
<1>6. QED
  BY <1>1, <1>5 DEF Before, Range

------------------------------------------------------------------------------
LEMMA AppInitial == Init => AppInv
<1> SUFFICES ASSUME Init
             PROVE  AppInv
  OBVIOUS
<1>1. ListsOK
  BY DEF Init, ListsOK
<1>2. FlagsOK /\ TypesOK
  <2>1. FlagsOK
    BY DEF Init, FlagsOK
  <2>2. {ready, cancelled, expired} \subseteq BOOLEAN
    BY DEF Init
  <2>3. at \in Nat \ {0} /\ pc = "setup"
    BY DEF Init
  <2>4. QED
    BY <2>1, <2>2, <2>3 DEF TypesOK
<1>3. Range(drivers) = {} /\ Range(transports) = {} /\ Range(workers) = {}
  BY DEF Init, Range
<1>4. ListsInitialised /\ ServiceKnowsDrivers
  BY <1>3 DEF Init, ListsInitialised, ServiceKnowsDrivers
<1>5. RanSoFar /\ ToldSoFar /\ ComponentsFollow /\ RunInOrder
  BY DEF Init, RanSoFar, ToldSoFar, ComponentsFollow, RunInOrder
<1>6. QED
  BY <1>1, <1>2, <1>4, <1>5 DEF AppInv

(* A step of main, before Run, leaves alone all that Run is about.         *)
LEMMA SetupKeeps ==
  ASSUME AppInv, pc = "setup", ListsOK', ListsInitialised', ServiceKnowsDrivers',
         UNCHANGED <<runVars, stateVars, componentVars>>,
         FlagsOK'
  PROVE  AppInv'
<1>1. /\ UNCHANGED <<pc, at, ready, cancelled, expired, ran, told, drained, shutDown, exited, failed>>
  BY DEF runVars, stateVars, componentVars
<1>2. TypesOK'
  BY <1>1 DEF AppInv, TypesOK
<1>3. RanSoFar' /\ ToldSoFar' /\ ComponentsFollow' /\ RunInOrder'
  BY <1>1 DEF AppInv, RanSoFar, ToldSoFar, ComponentsFollow, RunInOrder
<1>4. QED
  BY <1>2, <1>3 DEF AppInv

LEMMA RegistrationKeeps ==
  ASSUME AppInv,
         \/ \E t \in Transports : SetTransport(t)
         \/ \E w \in Workers : SetWorker(w)
         \/ \E d \in Drivers : SetDriver(d)
  PROVE  AppInv'
<1>1. ListsOK /\ ListsInitialised /\ ServiceKnowsDrivers /\ FlagsOK
  BY DEF AppInv
<1>2. ASSUME NEW t \in Transports, SetTransport(t)
      PROVE  AppInv'
  <2>1. ListsOK' /\ Range(transports') = Range(transports) \cup {t}
    BY <1>1, <1>2, RangeOfAppend DEF SetTransport, ListsOK
  <2>2. Range(StopOrder') = Range(StopOrder) \cup {t}
    BY <1>1, <1>2, <2>1, Orders, OrdersNext DEF SetTransport, OrdersOK
  <2>3. ListsInitialised' /\ ServiceKnowsDrivers'
    BY <1>1, <1>2, <2>2 DEF SetTransport, initVars, serviceVars, runVars, ListsInitialised, ServiceKnowsDrivers
  <2>4. QED
    BY <1>1, <1>2, <2>1, <2>3, SetupKeeps DEF SetTransport, initVars, serviceVars, FlagsOK
<1>3. ASSUME NEW w \in Workers, SetWorker(w)
      PROVE  AppInv'
  <2>1. ListsOK' /\ Range(workers') = Range(workers) \cup {w}
    BY <1>1, <1>3, RangeOfAppend DEF SetWorker, ListsOK
  <2>2. Range(StopOrder') = Range(StopOrder) \cup {w}
    BY <1>1, <1>3, <2>1, Orders, OrdersNext DEF SetWorker, OrdersOK
  <2>3. ListsInitialised' /\ ServiceKnowsDrivers'
    BY <1>1, <1>3, <2>2 DEF SetWorker, initVars, serviceVars, runVars, ListsInitialised, ServiceKnowsDrivers
  <2>4. QED
    BY <1>1, <1>3, <2>1, <2>3, SetupKeeps DEF SetWorker, initVars, serviceVars, FlagsOK
<1>4. ASSUME NEW d \in Drivers, SetDriver(d)
      PROVE  AppInv'
  <2>1. ListsOK' /\ Range(drivers') = Range(drivers) \cup {d}
    BY <1>1, <1>4, RangeOfAppend DEF SetDriver, ListsOK
  <2>2. Range(StopOrder') = Range(StopOrder) \cup {d}
    BY <1>1, <1>4, <2>1, Orders, OrdersNext DEF SetDriver, OrdersOK
  <2>3. ListsInitialised' /\ ServiceKnowsDrivers'
    BY <1>1, <1>4, <2>1, <2>2 DEF SetDriver, initVars, serviceVars, runVars, ListsInitialised, ServiceKnowsDrivers
  <2>4. QED
    BY <1>1, <1>4, <2>1, <2>3, SetupKeeps DEF SetDriver, initVars, serviceVars, FlagsOK
<1>5. QED
  BY <1>2, <1>3, <1>4

(* The loop of an Init gets through its list, or initFailed is set.        *)
LEMMA InitialiseFirstCovers ==
  ASSUME NEW S, NEW list \in Seq(S), NEW k \in 0..Len(list), InitialiseFirst(k, list),
         initFailed \in BOOLEAN
  PROVE  /\ initialised \subseteq initialised'
         /\ initialised' \subseteq initialised \cup Range(list)
         /\ initFailed' \in BOOLEAN
         /\ ~initFailed' => ~initFailed /\ Range(list) \subseteq initialised'
<1>1. DOMAIN list = 1..Len(list) /\ Len(list) \in Nat
  OBVIOUS
<1>2. {list[i] : i \in 1..k} \subseteq Range(list)
  BY <1>1 DEF Range
<1>3. Len(list) \in Nat /\ (k < Len(list) \/ k = Len(list))
  <2>1. Len(list) \in Nat
    OBVIOUS
  <2>2. QED
    BY <2>1
<1>4. QED
  BY <1>1, <1>2, <1>3 DEF InitialiseFirst, Range

LEMMA InitialisationKeeps ==
  ASSUME AppInv,
         \/ \E k \in 0..Len(drivers) : InitDrivers(k)
         \/ InitService
         \/ \E k \in 0..Len(transports) : InitTransports(k)
         \/ \E k \in 0..Len(workers) : InitWorkers(k)
  PROVE  AppInv'
<1>1. ListsOK /\ ListsInitialised /\ ServiceKnowsDrivers /\ FlagsOK
  BY DEF AppInv
<1>2. ASSUME NEW k \in 0..Len(drivers), InitDrivers(k)
      PROVE  AppInv'
  <2>1. /\ initialised \subseteq initialised'
        /\ initialised' \subseteq initialised \cup Range(drivers)
        /\ initFailed' \in BOOLEAN
        /\ ~initFailed' => ~initFailed /\ Range(drivers) \subseteq initialised'
    BY <1>1, <1>2, InitialiseFirstCovers DEF InitDrivers, ListsOK, FlagsOK
  <2>2. UNCHANGED <<drivers, transports, workers, StopOrder>>
    BY <1>2 DEF InitDrivers, listVars, StopOrder, Services
  <2>3. ListsOK' /\ ListsInitialised' /\ ServiceKnowsDrivers'
    BY <1>1, <1>2, <2>1, <2>2, Orders
    DEF InitDrivers, serviceVars, runVars, OrdersOK, ListsOK, ListsInitialised, ServiceKnowsDrivers
  <2>4. QED
    BY <1>1, <1>2, <2>1, <2>3, SetupKeeps DEF InitDrivers, serviceVars, FlagsOK
<1>3. CASE InitService
  <2>1. UNCHANGED <<drivers, transports, workers, StopOrder>>
    BY <1>3 DEF InitService, listVars, StopOrder, Services
  <2>2. ListsOK' /\ ListsInitialised' /\ ServiceKnowsDrivers'
    BY <1>1, <1>3, <2>1
    DEF InitService, runVars, ListsOK, ListsInitialised, ServiceKnowsDrivers
  <2>3. QED
    BY <1>1, <1>3, <2>2, SetupKeeps DEF InitService, FlagsOK
<1>4. ASSUME NEW k \in 0..Len(transports), InitTransports(k)
      PROVE  AppInv'
  <2>1. /\ initialised \subseteq initialised'
        /\ initialised' \subseteq initialised \cup Range(transports)
        /\ initFailed' \in BOOLEAN
        /\ ~initFailed' => ~initFailed /\ Range(transports) \subseteq initialised'
    BY <1>1, <1>4, InitialiseFirstCovers DEF InitTransports, ListsOK, FlagsOK
  <2>2. UNCHANGED <<drivers, transports, workers, StopOrder>>
    BY <1>4 DEF InitTransports, listVars, StopOrder, Services
  <2>3. ListsOK' /\ ListsInitialised' /\ ServiceKnowsDrivers'
    BY <1>1, <1>4, <2>1, <2>2, Orders
    DEF InitTransports, serviceVars, runVars, OrdersOK, ListsOK, ListsInitialised, ServiceKnowsDrivers
  <2>4. QED
    BY <1>1, <1>4, <2>1, <2>3, SetupKeeps DEF InitTransports, serviceVars, FlagsOK
<1>5. ASSUME NEW k \in 0..Len(workers), InitWorkers(k)
      PROVE  AppInv'
  <2>1. /\ initialised \subseteq initialised'
        /\ initialised' \subseteq initialised \cup Range(workers)
        /\ initFailed' \in BOOLEAN
        /\ ~initFailed' => ~initFailed /\ Range(workers) \subseteq initialised'
    BY <1>1, <1>5, InitialiseFirstCovers DEF InitWorkers, ListsOK, FlagsOK
  <2>2. UNCHANGED <<drivers, transports, workers, StopOrder>>
    BY <1>5 DEF InitWorkers, listVars, StopOrder, Services
  <2>3. ListsOK' /\ ListsInitialised' /\ ServiceKnowsDrivers'
    BY <1>1, <1>5, <2>1, <2>2, Orders
    DEF InitWorkers, serviceVars, runVars, OrdersOK, ListsOK, ListsInitialised, ServiceKnowsDrivers
  <2>4. QED
    BY <1>1, <1>5, <2>1, <2>3, SetupKeeps DEF InitWorkers, serviceVars, FlagsOK
<1>6. QED
  BY <1>2, <1>3, <1>4, <1>5

------------------------------------------------------------------------------
(* Run and the components.  The lists are fixed from now on.               *)

LEMMA ListsFixed ==
  ASSUME AppInv, UNCHANGED <<listVars, initVars>>,
         pc' # "setup" => driverInit /\ transportInit /\ workerInit
  PROVE  /\ ListsOK' /\ ListsInitialised' /\ ServiceKnowsDrivers'
         /\ UNCHANGED <<drivers, Services, StopOrder>>
         /\ FlagsOK'
<1>1. UNCHANGED <<drivers, transports, workers, driverInit, transportInit, workerInit,
                  serviceInit, given, initialised, initFailed, Services, StopOrder>>
  BY DEF listVars, initVars, serviceVars, Services, StopOrder
<1>2. QED
  BY <1>1 DEF AppInv, ListsOK, ListsInitialised, ServiceKnowsDrivers, FlagsOK

(* After the loop of Run, or before that of gracefulStop, the other        *)
(* conjuncts do not depend on where Run is.                                *)
RunInv == TypesOK /\ RanSoFar /\ ToldSoFar /\ ComponentsFollow /\ RunInOrder

LEMMA RunInvKeeps ==
  ASSUME AppInv, RunInv', UNCHANGED <<listVars, initVars>>, pc # "setup" \/ pc' = "setup"
  PROVE  AppInv'
<1>1. pc' # "setup" => driverInit /\ transportInit /\ workerInit
  BY DEF AppInv, ListsInitialised
<1>2. ListsOK' /\ ListsInitialised' /\ ServiceKnowsDrivers' /\ FlagsOK'
  BY <1>1, ListsFixed
<1>3. QED
  BY <1>2 DEF AppInv, RunInv

(* What the loops need of their lists.                                     *)
LEMMA LoopLists ==
  ASSUME AppInv
  PROVE  /\ Len(drivers) \in Nat /\ Len(Services) \in Nat /\ Len(StopOrder) \in Nat
         /\ Len(StopOrder) = Len(Services) + Len(drivers)
         /\ Range(StopOrder) = Range(Services) \cup Range(drivers)
         /\ \A list \in {drivers, Services, StopOrder} :
              /\ Before(1, list) = {}
              /\ Before(Len(list) + 1, list) = Range(list)
              /\ \A n \in 1..Len(list) :
                   Before(n + 1, list) = Before(n, list) \cup {list[n]} /\ list[n] \in Range(list)
<1>1. OrdersOK
  BY Orders DEF AppInv
<1>2. \A list \in {drivers, Services, StopOrder} : list \in Seq(Components)
  BY <1>1 DEF OrdersOK
<1>3. ASSUME NEW list \in {drivers, Services, StopOrder}
      PROVE  /\ Before(1, list) = {}
             /\ Before(Len(list) + 1, list) = Range(list)
             /\ \A n \in 1..Len(list) :
                  Before(n + 1, list) = Before(n, list) \cup {list[n]} /\ list[n] \in Range(list)
  BY <1>2, BeforeGrows
<1>4. Len(drivers) \in Nat /\ Len(Services) \in Nat /\ Len(StopOrder) \in Nat
  BY <1>2
<1>5. QED
  BY <1>1, <1>3, <1>4 DEF OrdersOK

LEMMA RunLoopKeeps ==
  ASSUME AppInv, RunDrivers \/ RunServices
  PROVE  AppInv'
<1>1. /\ RunInv
      /\ UNCHANGED <<listVars, initVars>>
      /\ UNCHANGED <<drivers, Services, StopOrder>>
      /\ UNCHANGED <<ready, cancelled, expired, told, shutDown, drained, exited, failed>>
      /\ pc # "setup"
  BY DEF AppInv, RunInv, RunDrivers, RunServices, RunEach, stateVars, listVars, Services, StopOrder
<1>2. at \in Nat \ {0}
  BY <1>1 DEF RunInv, TypesOK
<1>3. CASE RunDrivers
  <2>1. pc = "drivers" /\ at <= Len(drivers) + 1 /\ ran = Before(at, drivers)
    BY <1>1, <1>3 DEF RunDrivers, RunInv, RanSoFar
  <2>2. CASE at > Len(drivers)
    <3>1. pc' = "hook" /\ at' = 1 /\ ran' = ran /\ ran = Range(drivers)
      <4>1. at = Len(drivers) + 1
        BY <1>2, <2>1, <2>2, LoopLists
      <4>2. QED
        BY <1>3, <2>1, <2>2, <4>1, LoopLists DEF RunDrivers, RunEach
    <3>2. RunInv'
      <4>1. TypesOK'
        BY <1>1, <2>1, <3>1 DEF RunInv, TypesOK
      <4>2. RanSoFar'
        BY <1>1, <2>1, <3>1 DEF RunInv, RanSoFar
      <4>3. ToldSoFar'
        BY <1>1, <2>1, <3>1 DEF RunInv, ToldSoFar, Finished
      <4>4. ComponentsFollow' /\ RunInOrder'
        BY <1>1, <2>1, <3>1 DEF RunInv, ComponentsFollow, RunInOrder
      <4>5. QED
        BY <4>1, <4>2, <4>3, <4>4 DEF RunInv
    <3>3. QED
      BY <1>1, <3>2, RunInvKeeps
  <2>3. CASE ~(at > Len(drivers))
    <3>1. /\ pc' = "drivers" /\ at' = at + 1 /\ at \in 1..Len(drivers)
          /\ ran' = ran \cup {drivers[at]} /\ ran' = Before(at', drivers)
      <4>1. at \in 1..Len(drivers)
        BY <1>2, <2>3, LoopLists
      <4>2. QED
        BY <1>3, <2>1, <2>3, <4>1, LoopLists DEF RunDrivers, RunEach
    <3>2. at' \in Nat \ {0} /\ at' <= Len(drivers) + 1
      BY <3>1, LoopLists
    <3>3. RunInv'
      <4>1. TypesOK'
        BY <1>1, <2>1, <3>1, <3>2 DEF RunInv, TypesOK
      <4>2. RanSoFar'
        BY <1>1, <2>1, <3>1, <3>2 DEF RunInv, RanSoFar
      <4>3. ToldSoFar'
        BY <1>1, <2>1, <3>1, <3>2 DEF RunInv, ToldSoFar, Finished
      <4>4. ComponentsFollow' /\ RunInOrder'
        BY <1>1, <2>1, <3>1, <3>2 DEF RunInv, ComponentsFollow, RunInOrder
      <4>5. QED
        BY <4>1, <4>2, <4>3, <4>4 DEF RunInv
    <3>4. QED
      BY <1>1, <3>3, RunInvKeeps
  <2>4. QED
    BY <2>2, <2>3
<1>4. CASE RunServices
  <2>1. /\ pc = "services" /\ at <= Len(Services) + 1
        /\ ran = Range(drivers) \cup Before(at, Services)
    BY <1>1, <1>4 DEF RunServices, RunInv, RanSoFar
  <2>2. CASE at > Len(Services)
    <3>1. pc' = "ready" /\ at' = 1 /\ ran' = ran /\ ran = Range(StopOrder)
      <4>1. at = Len(Services) + 1
        BY <1>2, <2>1, <2>2, LoopLists
      <4>2. QED
        BY <1>4, <2>1, <2>2, <4>1, LoopLists DEF RunServices, RunEach
    <3>2. RunInv'
      <4>1. TypesOK'
        BY <1>1, <2>1, <3>1 DEF RunInv, TypesOK
      <4>2. RanSoFar'
        BY <1>1, <2>1, <3>1 DEF RunInv, RanSoFar
      <4>3. ToldSoFar'
        BY <1>1, <2>1, <3>1 DEF RunInv, ToldSoFar, Finished
      <4>4. ComponentsFollow' /\ RunInOrder'
        BY <1>1, <2>1, <3>1 DEF RunInv, ComponentsFollow, RunInOrder
      <4>5. QED
        BY <4>1, <4>2, <4>3, <4>4 DEF RunInv
    <3>3. QED
      BY <1>1, <3>2, RunInvKeeps
  <2>3. CASE ~(at > Len(Services))
    <3>1. /\ pc' = "services" /\ at' = at + 1 /\ at \in 1..Len(Services)
          /\ ran' = ran \cup {Services[at]}
          /\ ran' = Range(drivers) \cup Before(at', Services)
      <4>1. at \in 1..Len(Services)
        BY <1>2, <2>3, LoopLists
      <4>2. QED
        BY <1>4, <2>1, <2>3, <4>1, LoopLists DEF RunServices, RunEach
    <3>2. at' \in Nat \ {0} /\ at' <= Len(Services) + 1
      BY <3>1, LoopLists
    <3>3. RunInv'
      <4>1. TypesOK'
        BY <1>1, <2>1, <3>1, <3>2 DEF RunInv, TypesOK
      <4>2. RanSoFar'
        BY <1>1, <2>1, <3>1, <3>2 DEF RunInv, RanSoFar
      <4>3. ToldSoFar'
        BY <1>1, <2>1, <3>1, <3>2 DEF RunInv, ToldSoFar, Finished
      <4>4. ComponentsFollow' /\ RunInOrder'
        BY <1>1, <2>1, <3>1, <3>2 DEF RunInv, ComponentsFollow, RunInOrder
      <4>5. QED
        BY <4>1, <4>2, <4>3, <4>4 DEF RunInv
    <3>4. QED
      BY <1>1, <3>3, RunInvKeeps
  <2>4. QED
    BY <2>2, <2>3
<1>5. QED
  BY <1>3, <1>4

(* The steps of Run between its loops.                                     *)
LEMMA RunBetweenKeeps ==
  ASSUME AppInv, StartRun \/ BeforeRunHook \/ BecomeReady \/ BeginStop
  PROVE  AppInv'
<1>lists. /\ \A list \in {drivers, Services, StopOrder} : Before(1, list) = {}
      /\ 1 <= Len(drivers) + 1 /\ 1 <= Len(Services) + 1 /\ 1 <= Len(StopOrder) + 1
  BY LoopLists
<1>1. RunInv /\ ListsOK
  BY DEF AppInv, RunInv
<1>2. CASE StartRun
  <2>1. /\ UNCHANGED <<listVars, initVars, componentVars, stateVars>>
        /\ pc = "setup" /\ pc' = "drivers" /\ at' = 1
        /\ driverInit /\ transportInit /\ workerInit
    BY <1>2 DEF StartRun
  <2>2. /\ ListsOK' /\ ListsInitialised' /\ ServiceKnowsDrivers'
        /\ UNCHANGED <<drivers, Services, StopOrder>>
        /\ FlagsOK'
    BY <2>1, ListsFixed
  <2>3. UNCHANGED <<ready, cancelled, expired, ran, told, shutDown, drained, exited, failed>>
    BY <2>1 DEF stateVars, componentVars
  <2>4. RunInv'
    <3>1. TypesOK'
      BY <1>1, <2>1, <2>2, <2>3, <1>lists DEF RunInv, TypesOK
    <3>2. RanSoFar'
      BY <1>1, <2>1, <2>2, <2>3, <1>lists DEF RunInv, RanSoFar
    <3>3. ToldSoFar'
      BY <1>1, <2>1, <2>2, <2>3, <1>lists DEF RunInv, ToldSoFar, Finished
    <3>4. ComponentsFollow' /\ RunInOrder'
      BY <1>1, <2>1, <2>2, <2>3, <1>lists DEF RunInv, ComponentsFollow, RunInOrder
    <3>5. QED
      BY <3>1, <3>2, <3>3, <3>4 DEF RunInv
  <2>5. QED
    BY <2>2, <2>4 DEF AppInv, RunInv
<1>3. CASE BeforeRunHook
  <2>1. /\ UNCHANGED <<listVars, initVars>>
        /\ UNCHANGED <<drivers, Services, StopOrder>>
        /\ UNCHANGED <<at, ready, cancelled, expired, ran, told, shutDown, drained, exited, failed>>
        /\ pc = "hook" /\ pc' \in {"services", "hook failed"}
    BY <1>3 DEF BeforeRunHook, listVars, stateVars, componentVars, Services, StopOrder
  <2>2. RunInv'
    <3>1. TypesOK'
      BY <1>1, <2>1, <1>lists DEF RunInv, TypesOK
    <3>2. RanSoFar'
      BY <1>1, <2>1, <1>lists DEF RunInv, RanSoFar
    <3>3. ToldSoFar'
      BY <1>1, <2>1, <1>lists DEF RunInv, ToldSoFar, Finished
    <3>4. ComponentsFollow' /\ RunInOrder'
      BY <1>1, <2>1, <1>lists DEF RunInv, ComponentsFollow, RunInOrder
    <3>5. QED
      BY <3>1, <3>2, <3>3, <3>4 DEF RunInv
  <2>3. QED
    BY <2>1, <2>2, RunInvKeeps
<1>4. CASE BecomeReady
  <2>1. /\ UNCHANGED <<listVars, initVars>>
        /\ UNCHANGED <<drivers, Services, StopOrder>>
        /\ UNCHANGED <<at, cancelled, expired, ran, told, shutDown, drained, exited, failed>>
        /\ pc = "ready" /\ pc' = "waiting" /\ ready' = TRUE
    BY <1>4 DEF BecomeReady, listVars, componentVars, Services, StopOrder
  <2>2. RunInv'
    <3>1. TypesOK'
      BY <1>1, <2>1 DEF RunInv, TypesOK
    <3>2. RanSoFar'
      BY <1>1, <2>1 DEF RunInv, RanSoFar
    <3>3. ToldSoFar'
      BY <1>1, <2>1 DEF RunInv, ToldSoFar, Finished
    <3>4. ComponentsFollow' /\ RunInOrder'
      BY <1>1, <2>1 DEF RunInv, ComponentsFollow, RunInOrder
    <3>5. QED
      BY <3>1, <3>2, <3>3, <3>4 DEF RunInv
  <2>3. QED
    BY <2>1, <2>2, RunInvKeeps
<1>5. CASE BeginStop
  <2>1. /\ UNCHANGED <<listVars, initVars>>
        /\ UNCHANGED <<drivers, Services, StopOrder>>
        /\ UNCHANGED <<cancelled, expired, ran, told, shutDown, drained, exited, failed>>
        /\ pc = "waiting" /\ cancelled /\ pc' = "stop" /\ at' = 1 /\ ready' = FALSE
    BY <1>5 DEF BeginStop, listVars, componentVars, Services, StopOrder
  <2>2. RunInv'
    <3>1. TypesOK'
      <4>1. {ready', cancelled', expired'} \subseteq BOOLEAN
        BY <1>1, <2>1 DEF RunInv, TypesOK
      <4>2. at' \in Nat \ {0} /\ pc' = "stop"
        BY <2>1
      <4>3. QED
        BY <4>1, <4>2 DEF TypesOK
    <3>2. RanSoFar'
      BY <1>1, <2>1, <1>lists DEF RunInv, RanSoFar
    <3>3. ToldSoFar'
      BY <1>1, <2>1, <1>lists DEF RunInv, ToldSoFar, Finished
    <3>4. ComponentsFollow' /\ RunInOrder'
      BY <1>1, <2>1, <1>lists DEF RunInv, ComponentsFollow, RunInOrder
    <3>5. QED
      BY <3>1, <3>2, <3>3, <3>4 DEF RunInv
  <2>3. QED
    BY <2>1, <2>2, RunInvKeeps
<1>6. QED
  BY <1>2, <1>3, <1>4, <1>5

(* gracefulStop: each component is told, and finished with, in its turn.   *)
LEMMA StopKeeps ==
  ASSUME AppInv,
         \/ CallGracefulStop \/ AwaitDrained \/ HardLimit \/ ShutdownReturns
         \/ StopsDone \/ Wait
  PROVE  AppInv'
<1>1. /\ RunInv
      /\ UNCHANGED <<listVars, initVars>>
      /\ UNCHANGED <<drivers, Services, StopOrder>>
      /\ UNCHANGED <<ready, cancelled, expired, ran, drained, exited, failed>>
      /\ pc \in {"stop", "await", "shutdown", "wait"}
  BY DEF AppInv, RunInv, CallGracefulStop, AwaitDrained, HardLimit, ShutdownReturns, StopsDone, Wait,
         stateVars, componentVars, listVars, Services, StopOrder
<1>2. /\ Len(StopOrder) \in Nat /\ at \in Nat \ {0}
      /\ \A n \in 1..Len(StopOrder) :
           Before(n + 1, StopOrder) = Before(n, StopOrder) \cup {StopOrder[n]}
      /\ Before(Len(StopOrder) + 1, StopOrder) = Range(StopOrder)
  BY <1>1, LoopLists DEF RunInv, TypesOK
<1>3. at \in 1..Len(StopOrder) =>
        /\ Before(at + 1, StopOrder) = Before(at, StopOrder) \cup {StopOrder[at]}
        /\ at + 1 \in Nat \ {0} /\ at + 1 <= Len(StopOrder) + 1
  BY <1>2
<1>4. CASE CallGracefulStop
  <2>1. /\ pc = "stop" /\ pc' \in {"await", "shutdown"} /\ UNCHANGED <<at, shutDown>>
        /\ told' = told \cup {StopOrder[at]} /\ at <= Len(StopOrder) /\ at \in 1..Len(StopOrder)
    BY <1>2, <1>4 DEF CallGracefulStop
  <2>2. RunInv'
    <3>1. TypesOK'
      BY <1>1, <1>3, <2>1 DEF RunInv, TypesOK
    <3>2. RanSoFar'
      BY <1>1, <1>3, <2>1 DEF RunInv, RanSoFar
    <3>3. ToldSoFar'
      BY <1>1, <1>3, <2>1 DEF RunInv, ToldSoFar, Finished
    <3>4. ComponentsFollow' /\ RunInOrder'
      BY <1>1, <1>3, <2>1 DEF RunInv, ComponentsFollow, RunInOrder
    <3>5. QED
      BY <3>1, <3>2, <3>3, <3>4 DEF RunInv
  <2>3. QED
    BY <1>1, <2>2, RunInvKeeps
<1>5. CASE AwaitDrained
  <2>1. /\ pc = "await" /\ pc' = "stop" /\ at' = at + 1 /\ UNCHANGED <<told, shutDown>>
        /\ Finished(StopOrder[at])
    BY <1>5 DEF AwaitDrained, NextComponent, componentVars, Finished
  <2>2. at \in 1..Len(StopOrder)
    BY <1>1, <1>2, <2>1 DEF RunInv, ToldSoFar
  <2>3. RunInv'
    <3>1. TypesOK'
      BY <1>1, <1>3, <2>1, <2>2 DEF RunInv, TypesOK
    <3>2. RanSoFar'
      BY <1>1, <1>3, <2>1, <2>2 DEF RunInv, RanSoFar
    <3>3. ToldSoFar'
      BY <1>1, <1>3, <2>1, <2>2 DEF RunInv, ToldSoFar, Finished
    <3>4. ComponentsFollow' /\ RunInOrder'
      BY <1>1, <1>3, <2>1, <2>2 DEF RunInv, ComponentsFollow, RunInOrder
    <3>5. QED
      BY <3>1, <3>2, <3>3, <3>4 DEF RunInv
  <2>4. QED
    BY <1>1, <2>3, RunInvKeeps
<1>6. CASE HardLimit
  <2>1. pc = "await" /\ pc' = "shutdown" /\ UNCHANGED <<at, told, shutDown>>
    BY <1>6 DEF HardLimit, componentVars
  <2>2. RunInv'
    <3>1. TypesOK'
      BY <1>1, <2>1 DEF RunInv, TypesOK
    <3>2. RanSoFar'
      BY <1>1, <2>1 DEF RunInv, RanSoFar
    <3>3. ToldSoFar'
      BY <1>1, <2>1 DEF RunInv, ToldSoFar, Finished
    <3>4. ComponentsFollow' /\ RunInOrder'
      BY <1>1, <2>1 DEF RunInv, ComponentsFollow, RunInOrder
    <3>5. QED
      BY <3>1, <3>2, <3>3, <3>4 DEF RunInv
  <2>3. QED
    BY <1>1, <2>2, RunInvKeeps
<1>7. CASE ShutdownReturns
  <2>1. /\ pc = "shutdown" /\ pc' = "stop" /\ at' = at + 1 /\ told' = told
        /\ shutDown' = shutDown \cup {StopOrder[at]}
    BY <1>7 DEF ShutdownReturns, NextComponent
  <2>2. at \in 1..Len(StopOrder) /\ StopOrder[at] \in told
    BY <1>1, <1>2, <1>3, <2>1 DEF RunInv, ToldSoFar
  <2>3. RunInv'
    <3>1. TypesOK'
      BY <1>1, <1>3, <2>1, <2>2 DEF RunInv, TypesOK
    <3>2. RanSoFar'
      BY <1>1, <1>3, <2>1, <2>2 DEF RunInv, RanSoFar
    <3>3. ToldSoFar'
      BY <1>1, <1>3, <2>1, <2>2 DEF RunInv, ToldSoFar, Finished
    <3>4. ComponentsFollow' /\ RunInOrder'
      BY <1>1, <1>3, <2>1, <2>2 DEF RunInv, ComponentsFollow, RunInOrder
    <3>5. QED
      BY <3>1, <3>2, <3>3, <3>4 DEF RunInv
  <2>4. QED
    BY <1>1, <2>3, RunInvKeeps
<1>8. CASE StopsDone
  <2>1. pc = "stop" /\ pc' = "wait" /\ UNCHANGED <<at, told, shutDown>> /\ at > Len(StopOrder)
    BY <1>8 DEF StopsDone, componentVars
  <2>2. at = Len(StopOrder) + 1 /\ Before(at, StopOrder) = Range(StopOrder)
    BY <1>1, <1>2, <2>1 DEF RunInv, ToldSoFar
  <2>3. RunInv'
    <3>1. TypesOK'
      BY <1>1, <2>1, <2>2 DEF RunInv, TypesOK
    <3>2. RanSoFar'
      BY <1>1, <2>1, <2>2 DEF RunInv, RanSoFar
    <3>3. ToldSoFar'
      BY <1>1, <2>1, <2>2 DEF RunInv, ToldSoFar, Finished
    <3>4. ComponentsFollow' /\ RunInOrder'
      BY <1>1, <2>1, <2>2 DEF RunInv, ComponentsFollow, RunInOrder
    <3>5. QED
      BY <3>1, <3>2, <3>3, <3>4 DEF RunInv
  <2>4. QED
    BY <1>1, <2>3, RunInvKeeps
<1>9. CASE Wait
  <2>1. pc = "wait" /\ pc' = "stopped" /\ UNCHANGED <<at, told, shutDown>> /\ ran \subseteq exited
    BY <1>9 DEF Wait, componentVars
  <2>2. RunInv'
    <3>1. TypesOK'
      BY <1>1, <2>1 DEF RunInv, TypesOK
    <3>2. RanSoFar'
      BY <1>1, <2>1 DEF RunInv, RanSoFar
    <3>3. ToldSoFar'
      BY <1>1, <2>1 DEF RunInv, ToldSoFar, Finished
    <3>4. ComponentsFollow' /\ RunInOrder'
      BY <1>1, <2>1 DEF RunInv, ComponentsFollow, RunInOrder
    <3>5. QED
      BY <3>1, <3>2, <3>3, <3>4 DEF RunInv
  <2>3. QED
    BY <1>1, <2>2, RunInvKeeps
<1>10. QED
  BY <1>4, <1>5, <1>6, <1>7, <1>8, <1>9

(* What the components, signals and the clock do.                          *)
LEMMA EnvironmentKeeps ==
  ASSUME AppInv, Environment
  PROVE  AppInv'
<1>1. /\ RunInv
      /\ UNCHANGED <<listVars, initVars, pc, at, ready, ran, told, shutDown>>
      /\ UNCHANGED <<drivers, Services, StopOrder>>
      /\ cancelled' \in {cancelled, TRUE} /\ expired' \in {expired, TRUE}
      /\ drained \subseteq drained' /\ drained' \subseteq told
      /\ exited \subseteq exited' /\ exited' \subseteq ran
      /\ failed' \subseteq exited'
  BY DEF AppInv, RunInv, ComponentsFollow, Environment, Fail, Exit, Drain, Signal, TimeoutPasses,
         runVars, stateVars, componentVars, listVars, Services, StopOrder
<1>2. RunInv'
  <2>1. TypesOK'
    BY <1>1 DEF RunInv, TypesOK
  <2>2. RanSoFar'
    BY <1>1 DEF RunInv, RanSoFar
  <2>3. ToldSoFar'
    BY <1>1 DEF RunInv, ToldSoFar, Finished
  <2>4. ComponentsFollow' /\ RunInOrder'
    BY <1>1 DEF RunInv, ComponentsFollow, RunInOrder
  <2>5. QED
    BY <2>1, <2>2, <2>3, <2>4 DEF RunInv
<1>3. QED
  BY <1>1, <1>2, RunInvKeeps

LEMMA AppStep == AppInv /\ [Next]_vars => AppInv'
<1> SUFFICES ASSUME AppInv, [Next]_vars
             PROVE  AppInv'
  OBVIOUS
<1>1. CASE Setup
  BY <1>1, RegistrationKeeps, InitialisationKeeps DEF Setup
<1>2. CASE RunStep
  BY <1>2, RunLoopKeeps, RunBetweenKeeps, StopKeeps DEF RunStep
<1>3. CASE Environment
  BY <1>3, EnvironmentKeeps
<1>4. CASE UNCHANGED vars
  <2>1. /\ RunInv
        /\ UNCHANGED <<listVars, initVars, pc, at, ready, cancelled, expired>>
        /\ UNCHANGED <<ran, told, shutDown, drained, exited, failed>>
        /\ UNCHANGED <<drivers, Services, StopOrder>>
    BY <1>4 DEF AppInv, RunInv, vars, runVars, stateVars, componentVars, listVars, Services, StopOrder
  <2>2. RunInv'
    <3>1. TypesOK'
      BY <2>1 DEF RunInv, TypesOK
    <3>2. RanSoFar'
      BY <2>1 DEF RunInv, RanSoFar
    <3>3. ToldSoFar'
      BY <2>1 DEF RunInv, ToldSoFar, Finished
    <3>4. ComponentsFollow' /\ RunInOrder'
      BY <2>1 DEF RunInv, ComponentsFollow, RunInOrder
    <3>5. QED
      BY <3>1, <3>2, <3>3, <3>4 DEF RunInv
  <2>3. QED
    BY <2>1, <2>2, RunInvKeeps
<1>5. QED
  BY <1>1, <1>2, <1>3, <1>4 DEF Next

LEMMA AppInductive == Spec => []AppInv
<1>1. QED
  BY AppInitial, AppStep, PTL DEF Spec

------------------------------------------------------------------------------
LEMMA AppInvTypes == AppInv => TypeOK
<1> SUFFICES ASSUME AppInv
             PROVE  TypeOK
  OBVIOUS
<1>1. /\ Range(drivers) \subseteq Drivers
      /\ Range(transports) \subseteq Transports
      /\ Range(workers) \subseteq Workers
  BY RangeOfSeq DEF AppInv, ListsOK
<1>2. \A list \in {drivers, Services, StopOrder}, n \in Nat :
        n <= Len(list) + 1 => Before(n, list) \subseteq Range(list)
  <2>1. OrdersOK
    BY Orders DEF AppInv
  <2>2. \A list \in {drivers, Services, StopOrder} : DOMAIN list = 1..Len(list) /\ Len(list) \in Nat
    BY <2>1 DEF OrdersOK
  <2>3. QED
    BY <2>2 DEF Before, Range
<1>3. /\ Len(drivers) \in Nat /\ Len(Services) \in Nat /\ Len(StopOrder) \in Nat
      /\ Len(StopOrder) = Len(Services) + Len(drivers) /\ at \in Nat \ {0}
      /\ Range(StopOrder) = Range(Services) \cup Range(drivers)
  BY LoopLists DEF AppInv, TypesOK
<1>4. at \in 1..(Len(StopOrder) + 1)
  <2>1. \/ at = 1 \/ at <= Len(drivers) + 1
        \/ at <= Len(Services) + 1 \/ at <= Len(StopOrder) + 1 \/ at <= Len(StopOrder)
    BY DEF AppInv, TypesOK, RanSoFar, ToldSoFar
  <2>2. QED
    BY <1>3, <2>1
<1>5. ran \subseteq Range(StopOrder)
  <2>1. CASE pc \in {"drivers", "services"}
    BY <1>2, <1>3, <2>1 DEF AppInv, RanSoFar
  <2>2. CASE pc \notin {"drivers", "services"}
    BY <1>3, <2>2 DEF AppInv, TypesOK, RanSoFar
  <2>3. QED
    BY <2>1, <2>2
<1>6. told \subseteq ran
  <2>1. CASE pc \in {"await", "shutdown"}
    <3>1. at + 1 \in Nat /\ at + 1 <= Len(StopOrder) + 1
      BY <1>3, <2>1 DEF AppInv, ToldSoFar
    <3>2. QED
      BY <1>2, <2>1, <3>1 DEF AppInv, RanSoFar, ToldSoFar
  <2>2. CASE pc \notin {"await", "shutdown"}
    BY <1>2, <2>2 DEF AppInv, TypesOK, RanSoFar, ToldSoFar
  <2>3. QED
    BY <2>1, <2>2
<1>7. QED
  BY <1>1, <1>4, <1>5, <1>6
  DEF AppInv, FlagsOK, TypesOK, ListsInitialised, ServiceKnowsDrivers, ComponentsFollow, TypeOK

LEMMA AppInvOrders ==
  ASSUME AppInv
  PROVE  /\ RunsOnlyInitialised /\ ServiceGetsAllDrivers
         /\ ReadyMeansServing /\ ReturnedMeansStopped
<1>1. Range(StopOrder) = Range(transports) \cup Range(workers) \cup Range(drivers)
  BY Orders DEF AppInv, OrdersOK
<1>2. RunsOnlyInitialised
  <2>1. CASE pc = "setup"
    BY <2>1 DEF AppInv, RanSoFar, RunsOnlyInitialised
  <2>2. CASE pc # "setup"
    <3>1. ran \subseteq Range(StopOrder)
      BY AppInvTypes DEF TypeOK
    <3>2. QED
      BY <1>1, <2>2, <3>1 DEF AppInv, ListsInitialised, RunsOnlyInitialised
  <2>3. QED
    BY <2>1, <2>2
<1>3. ServiceGetsAllDrivers
  BY DEF AppInv, ListsInitialised, ServiceKnowsDrivers, ServiceGetsAllDrivers
<1>4. ReadyMeansServing
  BY DEF AppInv, RunInOrder, RanSoFar, ToldSoFar, ReadyMeansServing
<1>5. ReturnedMeansStopped
  BY DEF AppInv, RunInOrder, RanSoFar, ToldSoFar, ReturnedMeansStopped
<1>6. QED
  BY <1>2, <1>3, <1>4, <1>5

(* The driver that is told stands behind all services in StopOrder.        *)
LEMMA AppInvDriversLast == AppInv => DriversStopLast
<1> SUFFICES ASSUME AppInv, NEW d \in told \cap Range(drivers), NEW c \in Range(Services)
             PROVE  Finished(c)
  BY DEF DriversStopLast
<1>1. ListsOK /\ ToldSoFar /\ at \in Nat \ {0} /\ Len(StopOrder) \in Nat
  BY LoopLists DEF AppInv, TypesOK
<1>2. Range(Services) \subseteq Range(StopOrder)
  BY Orders DEF AppInv, OrdersOK
<1>3. CASE pc = "stop"
  <2>1. at <= Len(StopOrder) + 1 /\ told = Before(at, StopOrder)
    BY <1>1, <1>3 DEF ToldSoFar
  <2>2. c \in Before(at - 1, StopOrder)
    BY <1>1, <2>1, DriversComeLast
  <2>3. c \in Before(at, StopOrder)
    BY <1>1, <2>2 DEF Before
  <2>4. QED
    BY <1>1, <1>3, <2>3 DEF ToldSoFar
<1>4. CASE pc \in {"await", "shutdown"}
  <2>1. at + 1 \in Nat /\ at + 1 <= Len(StopOrder) + 1 /\ told = Before(at + 1, StopOrder)
    BY <1>1, <1>4 DEF ToldSoFar
  <2>2. c \in Before((at + 1) - 1, StopOrder)
    BY <1>1, <2>1, DriversComeLast
  <2>3. (at + 1) - 1 = at
    BY <1>1
  <2>4. QED
    BY <1>1, <1>4, <2>2, <2>3 DEF ToldSoFar
<1>5. CASE pc \in {"wait", "stopped"}
  BY <1>1, <1>2, <1>5 DEF ToldSoFar
<1>6. QED
  BY <1>1, <1>3, <1>4, <1>5 DEF ToldSoFar

(* The variables of an App keep their types, and its sets follow from one  *)
(* another: only what runs is told to stop, only what was told has drained *)
(* or was shut down.                                                       *)
THEOREM AppTypeCorrect == Spec => []TypeOK
<1>1. QED
  BY AppInductive, AppInvTypes, PTL

(* As long as no Init failed, Run starts only what has been initialised.   *)
THEOREM RunStartsInitialised == Spec => []RunsOnlyInitialised
<1>1. QED
  BY AppInductive, AppInvOrders, PTL

(* A service that is initialised, with no Init failed, has all drivers.    *)
THEOREM ServiceHasAllDrivers == Spec => []ServiceGetsAllDrivers
<1>1. QED
  BY AppInductive, AppInvOrders, PTL

(* A ready App has all its components running, and none told to stop.      *)
THEOREM ReadyAppServes == Spec => []ReadyMeansServing
<1>1. QED
  BY AppInductive, AppInvOrders, PTL

(* No driver is told to stop before all transports and workers are done    *)
(* with.                                                                   *)
THEOREM DriversAreStoppedLast == Spec => []DriversStopLast
<1>1. QED
  BY AppInductive, AppInvDriversLast, PTL

(* When Run returns after gracefulStop nothing of the App is left running. *)
THEOREM ReturnedAppIsStopped == Spec => []ReturnedMeansStopped
<1>1. QED
  BY AppInductive, AppInvOrders, PTL
==============================================================================
