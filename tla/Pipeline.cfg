SPECIFICATION FairSpec
CONSTANTS
  NumNodes = 4
  Kinds = {"mono", "para"}
  Parts = 2
  Workers = {v, w}
  Main = Main
  MaxLosses = 1
\* An update ends, or a lost task or notification stops it.
CHECK_DEADLOCK FALSE
INVARIANTS TypeOK TasksRunOnce OnlyNoticesLeft
PROPERTIES CounterDrains KeepsOrder
