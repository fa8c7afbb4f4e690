SPECIFICATION Spec
CONSTANTS
  DriverRequired <- MCDriverRequired
  FunctionalRequired <- MCFunctionalRequired
  CapTests <- MCCapTests
  FunTests <- MCFunTests
  Traced <- MCTraced
  Drivers = {"d1", "d2"}
  Revisions = {"r1", "r2"}
  Retry = TRUE
  MaxChanges = 1
INVARIANTS
  TypeOK
  EligibleIsEarned
  FlawlessIsEligible
  PassIsWitnessed
PROPERTY VerdictComes
