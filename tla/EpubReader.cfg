CONSTANTS
  SpineCount = 2
  Layouts = {"portrait", "landscape"}
  MostPages = 2
  PageCount <- TwoChapters
  TextReference = 0
  Fractions <- Halfway
  MaxFootnoteDepth = 1
  None = None
SPECIFICATION Spec
INVARIANTS
  SectionOfSpine
  ResumeShown
  PendingSpent
PROPERTY
  ScreenIsSaved
  BootGuard
CHECK_DEADLOCK FALSE
