SPECIFICATION Spec
CONSTANTS
  Uris = {1, 2}
  NonFile = {}
  Texts <- AllTexts
  Missing <- MissingFile
  Unread <- NotRead
  Includes <- TextIncludes
  Broken <- BrokenTexts
  Bodies <- Stable
  Edits <- ChainEdits
  Settings = {"default"}
  MaxAnalyses = 1
  StrictClient = TRUE
  MaxGeneration = 4
  OpenVersions = {1}
  MaxVersion = 2
INVARIANTS
  TypeOK
  Consistent
  ViewMatchesEditor
  AnalysisOwed
  DiagnosticsOwned
  DiagnosticsSettle
  OneTaskPerDocument
PROPERTY Implements
CHECK_DEADLOCK FALSE
