SPECIFICATION FairSpec
CONSTANTS
  Workers = {w1, w2}
  Main = main
  NoThread = NoThread
  MaxBlocks = 3
  Tx = {}
  Own = {}
  ToMe = {}
  PerBlock = 0
  Reward = 2
  TxReward = 1
CHECK_DEADLOCK FALSE
INVARIANTS TreeOK HeadLongest NoneForgotten ForwardOnce BalanceOfChain
PROPERTIES Connected
