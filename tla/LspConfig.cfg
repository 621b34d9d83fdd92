SPECIFICATION Spec
CONSTANTS
  Uris = {1, 2, 3}
  NonFile = {3}
  Texts <- AllTexts
  Missing <- MissingFile
  Unread <- NotRead
  Includes <- TextIncludes
  Broken <- BrokenTexts
  Bodies <- ConfigChanges
  Edits <- RootAndUntitled
  Settings = {"default", "more"}
  MaxAnalyses = 2
  StrictClient = TRUE
  MaxGeneration = 3
  OpenVersions = {1}
  MaxVersion = 1
INVARIANTS
  ResultsAreCurrent
CHECK_DEADLOCK FALSE
