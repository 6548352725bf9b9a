CONSTANTS
  BI_FP = 6
  IntBits = 5
  ByteBits = 2
  Split = 2
  FewBits = 3
  OneWindow = 5
  SmallExp = 4
  lplim = 10
  Bits <- MCBits
  lowprimes <- MCLow
  Nothing = Nothing
  Own = Own
  Value1 = v1
  Value2 = v2
  rng_psize = 4
  MaxMoves = 6
  Drop = 2
  outputLength = 512
SPECIFICATION MCSpec
CHECK_DEADLOCK FALSE
PROPERTIES
  NumbersRight
  CodecRight
  KeysWhole
  DigestsRight
  CiphersRight
  CallbackComes
