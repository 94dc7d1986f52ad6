\* A destroyed queue does nothing more.
SPECIFICATION FairSpec
CONSTANTS
  Producers <- MCProducers
  Consumers = {c1, c2}
  c1 = c1
  c2 = c2
  Workloads <- MCWorkloads
  BLOCK_SIZE = 2
  IMPLICIT_INITIAL_INDEX_SIZE = 2
  IndexRange = 16
  Sampled = 1
  PoolSize = 1
  MaxBlocks = 3
  MaxHeaders = 2
  Null = Null
CHECK_DEADLOCK FALSE
INVARIANTS ClaimsBalanced EntryFound NothingLeaked
PROPERTIES ImplementsQueues DrainedAlone
