SPECIFICATION FairSpec

CONSTANTS
  page2 = page2
  page3 = page3
  NoCursor = NoCursor
  Cursors <- MCCursors
  Answers <- MCAnswers
  MaxPages = 2
  MaxItems = 3
  MaxAttempts = 2
  MaxRuns = 4

CHECK_DEADLOCK FALSE

INVARIANT PagesInOrder
INVARIANT WithinBudget
PROPERTY RunEnds
