SPECIFICATION FairSpec
CONSTANTS
  s1 = s1  s2 = s2  s3 = s3  c1 = c1  c2 = c2  c3 = c3
  Servers = {s1, s2, s3}
  Primary = s1
  Clients = {c2, c3}
  Home <- ReplicaOnly
  MaxWrites = 1
  LOG_LIMIT = 2
  Races = {"wakeup", "ack", "cp_ack"}
  None = None
CHECK_DEADLOCK FALSE
INVARIANTS OrderInv ExecutedOnce Convergence CheckpointAgreement ThirdPartyAgreement
PROPERTIES Implements EventuallyAtOthers
