SPECIFICATION FairSpec
CONSTANTS
  Drivers = {d1}
  Transports = {t1}
  Workers = {w1}
INVARIANTS
  TypeOK
  RunsOnlyInitialised
  ServiceGetsAllDrivers
  ReadyMeansServing
  DriversStopLast
  ReturnedMeansStopped
PROPERTIES
  CancelledAppStops
CHECK_DEADLOCK FALSE
