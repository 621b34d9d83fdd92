SPECIFICATION Spec
CONSTANTS
  Calls <- ThreeCalls
  MaxId = 2
INVARIANTS
  OwnResult
  WorkIsWanted
  NoWorkerLeaked
PROPERTY Implements
CHECK_DEADLOCK FALSE
