SPECIFICATION Spec
CONSTANTS
  Drivers = {d1}
  Transports = {t1}
  Workers = {w1}
PROPERTIES
  ComponentsGetLiveContext
CHECK_DEADLOCK FALSE
