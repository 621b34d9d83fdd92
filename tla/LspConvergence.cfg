SPECIFICATION Spec
CONSTANTS
  Docs = {1, 2, 3, 4}
  Keeps <- Acyclic
  MaxAnalyses = 2
PROPERTY Converges
CHECK_DEADLOCK FALSE
