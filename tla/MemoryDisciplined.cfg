\* Two client threads that follow the interface: lifecycle calls are serialised and nodes unregistered first.
CONSTANTS
  Threads = {t1, t2}
  Buffers = {b1}
  Rnd = {r1}
  MaxNodes = 2
  MaxEntries = 2
  PoolCounterModulus = 2
  MaxElements = 0
  LifecycleExclusive = TRUE
  UnregisterFirst = TRUE
  NoThread = NoThread
SPECIFICATION Spec
SYMMETRY BothSymmetries
INVARIANTS
  NoUndefinedAccess
  RegistryInjective
