SPECIFICATION Spec
CONSTANTS
  MaxFaults = 1
  Probes <- Qualifications
  Code <- Programs
  Names <- AllNames
  Catching <- Runners
  Recognises <- Markers
  Blind <- Unseen
  Unguarded <- Outside
INVARIANT
  PassMeansMatch
