SPECIFICATION Spec
CONSTANTS
  Procs = {p1}
  Vendors = {v1, v2}
  Bridge = bridge
INVARIANTS
  TypeOK
  OriginalKept
  
  RecordedTargetIsKept
PROPERTY RestoreIsExact
