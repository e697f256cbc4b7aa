SPECIFICATION Spec
CONSTANTS
  Threads = {a, b}
  Requests = {1, 6, 20}
  Alignment = 2
  MinLog = 2
  MaxLog = 3
  InitSize = 3
  ExtensionUpperBound = 8
  MaxSegments = 2
  MaxIndex = 3
  MaxFailures = 1
\* The calls stop at the bound of the index.
CHECK_DEADLOCK FALSE
SYMMETRY ThreadSymmetry
INVARIANTS TypeOK Tiled HandlesAreBlocks Coalesced
PROPERTIES SearchShrinks FailedTrySawNoFit NullIsTooLarge KeepsPromise
