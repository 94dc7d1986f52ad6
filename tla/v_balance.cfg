SPECIFICATION Spec
CONSTANTS
  Workers = {w1, w2}
  Main = main
  NoThread = NoThread
  MaxBlocks = 2
  Tx = {1}
  Own = {1}
  ToMe = {}
  PerBlock = 0
  Reward = 2
  TxReward = 1
CHECK_DEADLOCK FALSE
SYMMETRY Symmetry
INVARIANTS BalanceOfChain
