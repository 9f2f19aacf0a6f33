SPECIFICATION Spec
CONSTANTS
  Configs <- Nodes
  Workers = {w1, w2}
INVARIANTS
  TypeOK
  NoDoubleSubmit
  SlotsMatchDriver
  StateMatchesDevice
  AnswersAreSeen
CHECK_DEADLOCK FALSE
