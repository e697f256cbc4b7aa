SPECIFICATION ServedSpec
CONSTANTS
  NumNodes = 3
  Kinds = {"mono"}
  Parts = 2
  Workers = {w}
  Main = Main
  MaxLosses = 0
\* The update may hang.
CHECK_DEADLOCK FALSE
PROPERTIES AwaitReturns
