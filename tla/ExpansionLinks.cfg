CONSTANTS
  Root <- MCRoot
  Disks <- LinkedDisks
  Links <- MCLinks
  Rejected <- MCRejected
  External = {}
  Locked <- MCLocked
  LocalTargets = FALSE
  LineBytes = 2
  MaxDepth = 2
  MaxIncludes = 10
  MaxNodes = 20
  MaxBytes = 90
  MaxSegments = 40
  MaxIterations = 30
SPECIFICATION Spec
INVARIANTS
  IncludesFromTheirBase
CHECK_DEADLOCK FALSE
