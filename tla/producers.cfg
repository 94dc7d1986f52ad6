SPECIFICATION FairSpec
CONSTANTS
  t1 = t1
  t2 = t2
  t3 = t3
  Threads = {t1, t2, t3}
  Hash <- MCHash
  InitialSize = 2
  MaxFailures = 1
  MaxTables = 3
  NoThread = NoThread
INVARIANTS FreeSlot ListComplete
PROPERTIES SameProducer CallsEnd
