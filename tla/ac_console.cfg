SPECIFICATION Spec
CONSTANTS
  num_workers = 2
  Frontends = {2}
  Leaves = FALSE
  SignalAt = {"accept", "read"}
  MaxPosts = 2
CHECK_DEADLOCK FALSE
INVARIANTS LastCommandSent
PROPERTIES ShutdownEnds
