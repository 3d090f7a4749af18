SPECIFICATION Spec
CONSTANTS
  t1 = t1
  t2 = t2
  s0 = s0
  s1 = s1
  Readers <- TwoReaders
  Counters <- OneCounter
  Sockets <- MCSockets
  SocketOf <- MCSocketOf
  EsuOf <- OneUnit
  Esus <- MCEsus
  W = 2
  NoMultiplier = NoMultiplier
INVARIANTS
  TypeOK
  NoTornRead
  ScaledByOwnUnit
PROPERTIES
  BufferFollowsStatus
  ImplementsSnapshot
