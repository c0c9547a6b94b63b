SPECIFICATION Spec
CONSTANTS
  w1 = w1
  w2 = w2
  Workers = {w1, w2}
  Cells = {1, 2, 3}
  MaxConns = 3
CHECK_DEADLOCK FALSE
INVARIANTS NoSleeper
PROPERTIES Fifo TerminationEnds
