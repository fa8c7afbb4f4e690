SPECIFICATION Spec
CONSTANTS
  Procs = {p1}
  Vendors = {v1, v2}
  Bridge = bridge
INVARIANT RefusalCanBeFollowed
