SPECIFICATION Spec
CONSTANTS
  Uris = {1, 2}
  Observers <- OneObserves
  Requests = {r1, r2}
  r1 = r1
  r2 = r2
  WholeProject = {r1}
  MaxAnalyses = 1
  MaxRequests = 2
  MaxGeneration = 2
INVARIANTS
  PermitsConserved
  QueueServed
PROPERTIES
  Implements
  OwnDocumentCurrent
  Drains
CHECK_DEADLOCK FALSE
