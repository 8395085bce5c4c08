CONSTANTS
  SpineCount = 2
  Layouts = {"portrait", "landscape"}
  MostPages = 2
  PageCount <- TwoChapters
  TextReference = 0
  Fractions <- Halfway
  MaxFootnoteDepth = 1
  None = None
SPECIFICATION Spec
PROPERTY
  TurnFromEdge
CHECK_DEADLOCK FALSE
