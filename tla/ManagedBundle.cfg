SPECIFICATION Spec
CONSTANTS
  Files = {"index", "notes"}
  Dirs = {"assets"}
  Dir <- NotesApart
  Generations = {"g0", "g1", "g2"}
  Bundle <- ThreeBundles
  Savers = {"s", "t"}
  Saves <- Different
  MaxEdits = 1
INVARIANTS
  TypeOK
  ServedIsWhole
  OneWinner
  UndisturbedAccepted
  SavedIsComplete
PROPERTIES
  UnknownFilesKept
CHECK_DEADLOCK FALSE
