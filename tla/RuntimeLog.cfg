SPECIFICATION FairSpec
CONSTANTS
  Threads = {a, b}
  Levels = {0, 1}
  Paths = {f}
  Capacities = {4, 6}
  InitSetup <- MCSetup
  None = None
  MaxAdds = 3
  MaxSettings = 1
  f = f
INVARIANTS TypeOK EachEntryOnce WrittenInOrder EndKeepsLog
PROPERTIES CallsReturn
