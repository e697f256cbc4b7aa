SPECIFICATION Spec
CONSTANTS
  IoBase = 2
  Group = 2
  Precision = 3
  MinLogLength = 0
  MaxLogLength = 2
  Vars = {x, y, z}
  Modulus <- MCModulus
  Numbers <- MCNumbers
  Refused = Refused
  Gone = Gone
  Pending = Pending
  Missing = Missing
  Dangling = Dangling
  MaxNodes = 3
  MaxUpdates = 2
  MaxFailures = 1
  MaxSorts = 1
INVARIANTS TypeOK GraphIsSound DigitsAreExact
PROPERTIES KeepsValues
SYMMETRY MCVars
CHECK_DEADLOCK FALSE
