SPECIFICATION Spec
CONSTANTS
  s1 = s1
  s2 = s2
  s3 = s3
  w1 = w1
  w2 = w2
  w3 = w3
  Primary = s1
  Servers = {s1, s2, s3}
  Handled = {s1, s2, s3}
  Writes = {w1, w2, w3}
  Type <- MCReproduced
  Careless = {}
  MaxCommands = 6
CHECK_DEADLOCK FALSE
INVARIANTS Recovered
PROPERTIES Implements CatchesUp
