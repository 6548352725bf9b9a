CONSTANTS
  Client = {k1}
  capacity = 2
  rate = 1
  Nil = Nil
  MaxLag = 0
  MaxAge = 3
  MaxClears = 0
SPECIFICATION Spec
INVARIANT TokenMeansTrue
