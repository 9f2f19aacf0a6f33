\* Two client threads, no usage rule.
CONSTANTS
  Threads = {t1, t2}
  Buffers = {b1}
  Rnd = {r1}
  MaxNodes = 1
  MaxEntries = 1
  PoolCounterModulus = 3
  MaxElements = 1
  LifecycleExclusive = FALSE
  UnregisterFirst = FALSE
  NoThread = NoThread
SPECIFICATION Spec
SYMMETRY BothSymmetries
INVARIANTS
  OwnershipExclusive
  OwnedIsLive
  Accounted
