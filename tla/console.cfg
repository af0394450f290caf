CONSTANTS
  FONT_WIDTH = 2
  FONT_HEIGHT = 2
  MaxParts = 4
  PairParts = 2
  Scenarios <- MCScenarios
  NULL = NULL
SPECIFICATION FairSpec
INVARIANTS TypeOK PrintedAsAsked ScreenShowsText StaysInside
PROPERTIES CallsReturn
CHECK_DEADLOCK FALSE
