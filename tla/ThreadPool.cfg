SPECIFICATION FairSpec
CONSTANTS
  NumExecutors = 2
  NumWorkers = 1
  QueueLimit = 1
  FailThreshold = 1
  Tasks = {t1, t2, t3}
  Roots = {t1}
  Children <- MCChildren
  MaxShutdowns = 1
  None = None
  Owner = Owner
  t1 = t1
  t2 = t2
  t3 = t3
CHECK_DEADLOCK FALSE
INVARIANTS TypeOK EachTaskOnce TeardownIsSafe
PROPERTIES WaitAllDoneIsQuiet QuietAfterAwait ShutdownReturnsIfQuiet QueueIsServed
