CONSTANTS
  c1 = c1
  c2 = c2
  c3 = c3
  Caller = {c1, c2, c3}
  NoCaller = NoCaller
  Id = {c1, c2, c3}
  NoId = NoId
  RequestId <- OwnId
  Parent <- NoParent
  Mode <- RetryModes
  LockClass = "SpringRedisLock"
  ExpireTime = 1
  SleepTime = 1
  RetryTimeout = 1
  RetryTimes = 2
SPECIFICATION FairSpec
INVARIANTS
  MutualExclusion
  NormalReturnWasExclusive
PROPERTIES
  MutexSpec
  AskingEnds
