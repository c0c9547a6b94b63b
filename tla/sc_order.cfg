SPECIFICATION Spec
CONSTANTS
  s1 = s1  s2 = s2  s3 = s3  c1 = c1  c2 = c2  c3 = c3
  Servers = {s1, s2, s3}
  Primary = s1
  Clients = {c1, c2, c3}
  Home <- OneEach
  MaxWrites = 1
  LOG_LIMIT = 3
  Races = {}
  None = None
INVARIANTS SequentialOrder
CHECK_DEADLOCK FALSE
