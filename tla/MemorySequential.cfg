\* One client thread, no usage rule: every order of calls, with failures, and
\* every call returns.
CONSTANTS
  Threads = {t1}
  Buffers = {b1, b2}
  Rnd = {r1}
  MaxNodes = 2
  MaxEntries = 2
  PoolCounterModulus = 2
  MaxElements = 1
  LifecycleExclusive = FALSE
  UnregisterFirst = FALSE
  NoThread = NoThread
SPECIFICATION FairSpec
INVARIANTS
  TypeOK
  UnregisteredOwnsNothing
  PoolsReachable
PROPERTIES
  ErrorSurvivesCalls
  CallsReturn
