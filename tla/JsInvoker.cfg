CONSTANTS
  Thread = {t1, t2}
  NoThread = NoThread
  File = {f1, f2}
  NoKey = NoKey
  TextKey = {k1}
  CacheSize = 2
  MaxVersion = 2
SPECIFICATION Spec
INVARIANTS
  MarkedIsReread
  LockGivenBack
PROPERTY NeverOlder
SYMMETRY Symmetry
