SPECIFICATION Spec
CONSTANTS
  Procs = {p1, p2}
  Vendors = {v1, v2}
  Bridge = bridge
INVARIANT OriginalKept
