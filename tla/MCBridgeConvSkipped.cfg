SPECIFICATION Spec
CONSTANTS
  Threads = {t1}
  Requests <- MCRequests
  Catalog <- MCCatalog
  QueryCap = 4
  IntMax = 40
  MakeStatuses = {"SUCCESS", "ALLOC_FAILED", "GPU_OPERATIONS_SKIPPED"}
  QueryStatuses = {"SUCCESS", "GPU_OPERATIONS_SKIPPED"}
  LaunchStatuses = {"SUCCESS", "INTERNAL_ERROR"}
  MaxChanges = 1
INVARIANT LaunchIsSelected
