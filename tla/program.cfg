\* The program ends.
SPECIFICATION FairSpec
CONSTANTS
  Configs <- MCConfigs
  Workers = 2
  Bucket = 2
  Missing = Missing
CHECK_DEADLOCK FALSE
INVARIANTS GraphConnected BuiltAsAsked EveryoneKnows StatisticsRight
PROPERTIES ProgramEnds
