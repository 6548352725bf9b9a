CONSTANTS
  Thread = {t1, t2, t3}
  NoThread = NoThread
  Two = {t1, t2}
  MaxCalls = 2
  Instance = {i1, i2}
  Client = {k1, k2, k3}
  NoClient = NoClient
  MaxTotal = 2
SPECIFICATION MCSpec
INVARIANTS
  TypesOK
  PoolKept
  OneAtATime
PROPERTIES
  LazyOnce
  CallsEnd
