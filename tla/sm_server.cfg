SPECIFICATION Spec
CONSTANTS
  Clients = {"c1", "c2"}
  Users = {"amy", "bob"}
  Commands <- MCCommands
  Texts = {"hi"}
  Concurrent = FALSE
  Merged = FALSE
  MayHangUp = TRUE
  MAX_CONNECTIONS = 2
  ClearedCells = 2
  MaxText = 2
  MaxMails = 2
CONSTRAINT Kept
CHECK_DEADLOCK FALSE
INVARIANTS OnlyAccepted TextIsSent
PROPERTIES AckedIsStored ShutdownEnds
