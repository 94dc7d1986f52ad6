SPECIFICATION Spec
CONSTANTS
  Workers = {w1}
  Main = main
  NoThread = NoThread
  MaxBlocks = 4
  Tx = {1, 2}
  Own = {1}
  ToMe = {}
  PerBlock = 0
  Reward = 2
  TxReward = 1
CONSTRAINT ForeignFirst
CHECK_DEADLOCK FALSE
INVARIANTS NoTxLost
