SPECIFICATION Spec
CONSTANTS
  Configs <- Restart
  Workers = {w1}
INVARIANTS
  NoCaptureWhileHeld
