SPECIFICATION Spec
CONSTANTS
  MaxFaults = 2
  Probes <- AllProbes
  Code <- Programs
  Names <- AllNames
  Catching <- Runners
  Recognises <- Markers
  Blind <- Unseen
  Unguarded <- Outside
INVARIANTS
  TypeOK
  CallsUseLiveObjects
  DeviceNeverDangles
  ReleasedAtExit
  PassIsWitnessed
  BlameIsEarned
  NoCallFailsUnnoticed
PROPERTIES
  Terminates
