SPECIFICATION Spec
CONSTANTS
  Threads = {t1}
  Requests <- MCRequests
  Catalog <- MCCatalog
  QueryCap = 4
  IntMax = 40
  MakeStatuses = {"SUCCESS", "ALLOC_FAILED", "GPU_OPERATIONS_SKIPPED"}
  QueryStatuses = {"SUCCESS", "UNSUPPORTED_OP"}
  LaunchStatuses = {"SUCCESS", "INTERNAL_ERROR"}
  MaxChanges = 1
INVARIANTS
  TypeOK
  DescriptorsBalanced
  LaunchHonoursRequest
  SuccessIsEarned
  AdvertsWellFormed
  AdvertisedRuns
  AcceptedIsConvolution
PROPERTIES
  CallsReturn
  KeepsContract
