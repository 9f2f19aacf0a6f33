SPECIFICATION FairSpec
CONSTANTS
  Configs <- QnnNodes
INVARIANTS
  TypeOK
  MappedWhileNeeded
  ParametersPartitioned
  ExecutionsHold
  NothingRetained
PROPERTIES
  ParametersReturn
CHECK_DEADLOCK FALSE
