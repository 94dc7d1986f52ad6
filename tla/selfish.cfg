\* The model stops where the code takes the front of an empty deque.
SPECIFICATION FairSpec
CONSTANTS
  Workers = {w1, w2}
  Main = Main
  MaxBlocks = 4
CHECK_DEADLOCK FALSE
INVARIANTS ChainLinked InOnePlace FrontAfterRace
PROPERTIES AllPublished GiveUpOnlyBehind
