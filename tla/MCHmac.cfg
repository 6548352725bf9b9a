CONSTANTS
  Nothing = Nothing
  outputLength = 512
  Text <- MCText
  Cuts = {0, 3}
  MaxPieces = 2
  Macs <- MCMacs
  MacKey <- MCKey
  Known <- MCNone
  KnownKeys <- MCNone
  Salt <- MCSalt
SPECIFICATION MCSpec
CHECK_DEADLOCK FALSE
PROPERTIES
  HmacRight
