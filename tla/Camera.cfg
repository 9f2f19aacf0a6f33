SPECIFICATION Spec
CONSTANTS
  Configs <- All
  Workers = {w1, w2}
INVARIANTS
  TypeOK
  OneOwner
  NoBufferLost
  NoFreedDescriptor
  SessionProtocol
  StateMatchesSession
PROPERTIES
  PatternPacing
