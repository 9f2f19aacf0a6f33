SPECIFICATION Spec
CONSTANTS
  Configs <- Race
  Workers = {w1}
INVARIANTS
  ErrorNeedsFailure
CHECK_DEADLOCK FALSE
