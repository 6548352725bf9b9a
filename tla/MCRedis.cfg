CONSTANTS
  Producer = {p1, p2}
  Capacity = 2
  MaxBatch = 2
  MaxElements = 4
  Session = {s1, s2}
  Code = {a, b}
  NoCode = NoCode
  codeExpireSeconds = 3
  codeIntervalSeconds = 2
  lockSeconds = 2
  maxFailTimes = 2
  Client = {k1, k2}
  capacity = 3
  rate = 2
  Nil = Nil
  MaxLag = 2
  MaxAge = 6
  MaxClears = 1
  Thread = {t1, t2}
  NoThread = NoThread
  Limiter = {l1, l2, l3}
  NoLimiter = NoLimiter
  LocalCapacity = 2
  Rate = 2
  Second = 2
  LocalMaxAge = 2
SPECIFICATION MCFairSpec
INVARIANTS
  TypesOK
  QueueKept
  SmsGuarded
  LocalLimiters
PROPERTIES
  WaitsEnd
  LocalBucket
  LuaLimited
