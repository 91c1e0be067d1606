SPECIFICATION Spec
CONSTANTS
  Table <- MCTable
  Ids <- MCIds
  Known <- MCKnown
  MaxCalls = 2
INVARIANTS
  SentOnce
  NothingStuck
  TypingKept
  DraftStays
  ShownIsSelected
  ShowsOwnWrites
\* A screen on which nothing is left to click, or only the user, may stop.
CHECK_DEADLOCK FALSE
