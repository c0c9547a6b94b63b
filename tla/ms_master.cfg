SPECIFICATION MasterSpec
CONSTANTS
  fe1 = fe1
  u1 = u1
  Servers <- MCServers
  FrontEnds = {fe1}
  Users = {u1}
  HashGroup <- MCHashGroup
  Hash <- MCHash
  Fds = {4, 5, 6}
  NUM_THREADS = 2
  Habits = {"leave", "overtake", "early", "primary"}
CHECK_DEADLOCK FALSE
INVARIANTS AliveIsWatched
PROPERTIES GoneIsDead
