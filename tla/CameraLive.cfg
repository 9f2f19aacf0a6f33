SPECIFICATION FairSpec
CONSTANTS
  Configs <- Live
  Workers = {w1}
PROPERTIES
  BuffersRecirculate
