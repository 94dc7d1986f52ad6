SPECIFICATION FairSpec
CONSTANTS
  Threads = {t1, t2, t3}
  Nodes = {b1, b2}
  Null = Null
  SHOULD_BE_ON_FREELIST = 8
INVARIANTS Exclusive NoneLost
PROPERTIES LockFree
