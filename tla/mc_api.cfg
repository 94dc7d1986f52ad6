SPECIFICATION Spec
CONSTANTS
  Workers = {w1, w2}
  Main = main
  NodeId = {n1, n2}
  NoNode = NoNode
  InitialNodes = {n1, n2}
  Calls = {"run", "gen_message", "pause", "resume", "fail", "add_node", "stop"}
  Batch = 1
  MaxMessages = 3
  MaxRuns = 2
CHECK_DEADLOCK FALSE
SYMMETRY Symmetry
INVARIANTS TokenCover QueuedCounter FaultsExplained
PROPERTIES PauseGate
