SPECIFICATION Spec
CONSTANTS
  Files = {0, 1, 2}
  Config = 0
  Root = 1
  Texts <- AllTexts
  Missing <- MissingFile
  Unread <- NotRead
  Includes <- TextIncludes
  Broken = {"bad"}
  Faulty = {"bad"}
  Unobserved = {"big"}
  Unrenderable = {"odd"}
  Bodies <- Changing
  Slides = TRUE
INVARIANTS
  NoChangeMissed
PROPERTIES
  Settles
  SlidesKept
CHECK_DEADLOCK FALSE
