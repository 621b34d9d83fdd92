SPECIFICATION Spec
CONSTANTS
  Uris = {1, 2}
  NonFile = {}
  Texts <- AllTexts
  Missing <- MissingFile
  Unread <- NotRead
  Includes <- TextIncludes
  Broken <- BrokenTexts
  Bodies <- Changing
  Edits <- RootOnly
  Settings = {"default"}
  MaxAnalyses = 2
  StrictClient = TRUE
  MaxGeneration = 4
  OpenVersions = {1}
  MaxVersion = 1
INVARIANTS
  DiskChangeAnnounced
CHECK_DEADLOCK FALSE
