SPECIFICATION FairSpec
CONSTANTS
  Main = main
  Related = {related}
  Columns = 2
  Keys <- TwoKeys
  From <- Start
  InOrder = FALSE
  Selected <- BothColumns
  BatchSize = 1
  Overlap = FALSE
  Replica = FALSE
  MaxRows = 3
  MaxTouches = 1
  MaxMishaps = 1
INVARIANTS TypeOK NewRowsOnly SkippedOnlyIfLateOrTied
PROPERTIES EveryInsertMovesOn ReadsAsScan
CHECK_DEADLOCK FALSE
