CONSTANTS
  Root <- MCRoot
  Disks <- MCDisks
  Links <- LinksBeside
  Rejected <- MCRejected
  External = {}
  Locked <- MCLocked
  LocalTargets = FALSE
  LineBytes = 2
  MaxDepth = 2
  MaxIncludes = 3
  MaxNodes = 7
  MaxBytes = 10
  MaxSegments = 4
  MaxIterations = 3
SPECIFICATION Spec
INVARIANTS
  ExpandsAsReference
  IncludesFromTheirBase
PROPERTIES
  Terminates
CHECK_DEADLOCK FALSE
