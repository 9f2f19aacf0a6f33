SPECIFICATION FairSpec
CONSTANTS
  Configs <- Live
  Workers = {w1}
PROPERTIES
  ReconfigurationEnds
CHECK_DEADLOCK FALSE
