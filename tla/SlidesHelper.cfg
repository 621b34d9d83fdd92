CONSTANTS
  Capacity = 1
  InputSize = 2
  OutputLimit = 3
  StderrLimit = 1
  Answer = 3
  MaxNoise = 1
SPECIFICATION Spec
INVARIANTS
  NothingLeftBehind
  ResultIsWhole
PROPERTIES
  Terminates
  Converses
CHECK_DEADLOCK FALSE
