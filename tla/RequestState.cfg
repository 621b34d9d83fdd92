SPECIFICATION Spec
CONSTANTS
  Files = {"doc", "link", "buf"}
  Configs = {"conf"}
  Real <- LinkedTo
  Buffers = {"buf"}
  Contents = {"one", "four", "bad"}
  Size <- Sizes
  Held <- Buffered
  Invalid = {"bad"}
  Scopes = {"n", "w"}
  ScopeLimits <- NarrowAndWide
  Limits <- RequestLimits
INVARIANTS
  PhysicalReadsLimited
  ScopeAccounted
  FilesWithinScope
PROPERTIES
  AnswersStay
