SPECIFICATION FairSpec
CONSTANTS
  s1 = s1  s2 = s2  s3 = s3  c1 = c1  c2 = c2  c3 = c3
  Servers = {s1, s2, s3}
  Primary = s1
  Clients = {c1, c2}
  Home <- PrimaryAndReplica
  MaxWrites = 2
  LOG_LIMIT = 2
  Races = {}
  None = None
CHECK_DEADLOCK FALSE
INVARIANTS TypeOK CheckpointBarrier ReleasedMeansReplicated AckAccounting
PROPERTIES EventuallyReplicated
