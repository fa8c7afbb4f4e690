SPECIFICATION Spec
CONSTANTS
  Threads = {t1, t2}
  Handles = {h1, h2}
  Required <- MCRequired
  Optional <- MCOptional
  Machines <- MCMachines
  MiopenReturns = {"SUCCESS", "INTERNAL_ERROR"}
INVARIANTS
  TypeOK
  HandleIsUsable
  NoNullCall
  ConfiguredPathBinds
  BackingReachable
PROPERTIES
  BackendFixed
  CallsReturn
