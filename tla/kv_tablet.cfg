SPECIFICATION Spec
CONSTANTS
  t1 = t1
  t2 = t2
  u1 = u1
  u2 = u2
  p = p
  pq = pq
  b1 = b1
  b2 = b2
  a = a
  f = f
  Threads = {t1, t2}
  Users = {u1, u2}
  Passwords = {p, pq}
  Bodies = {b1, b2}
  FolderNames = {a}
  FileNames = {f}
  MAX_TABLET_USERS = 100
  CHUNK_SIZE = 1
  Undefined <- MCUndefined
  MaxDepth = 3
  MaxMailId = 3
  Scenarios <- MCScenarios
  Sends <- MCSends
  MaxLog <- MCMaxLog
  PasswordPrefix <- MCPasswordPrefix
  NamePrefix <- MCNamePrefix
CHECK_DEADLOCK FALSE
INVARIANTS ListingComplete  
PROPERTIES MailKept
