SPECIFICATION FairSpec
CONSTANTS
  Workers = {w1, w2}
  Main = main
  NodeId = {n1, n2, n3}
  NoNode = NoNode
  InitialNodes = {n1, n2}
  Calls = {"run", "gen_message", "stop"}
  Batch = 0
  MaxMessages = 2
  MaxRuns = 1
CHECK_DEADLOCK FALSE
PROPERTIES MessagesHandled StopTerminates
