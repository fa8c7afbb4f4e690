SPECIFICATION Spec
CONSTANTS
  Threads = {t1, t2}
  Handles = {h1}
  Kernels = {k1, k2}
  MaxLaunches = 2
  MaxLookups = 2
  Leftovers <- EarlierRuns
  MaxLost = 1
  MaxRefused = 1
SYMMETRY Symmetry
INVARIANTS
  TypeOK
  UnmatchedIsInFlight
  CulpritIsSuspected
  ReadersAgree
  AcceptedIsComplete
  NamesResolve
