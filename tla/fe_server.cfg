SPECIFICATION Spec
CONSTANTS
  num_threads = 2
  Users = {"amy", "bob"}
  Servers = {"s1", "s2"}
  Group <- MCGroup
  Home <- MCHome
  Browser <- MCBrowser
  Kinds = {"index", "inbox", "mail", "storage", "download", "rmfolder", "rmfile", "send", "delete", "addfolder", "upload", "logout", "login", "adduser"}
  FreshAddress = TRUE
  MaxRequests = 3
  MaxDeaths = 1
CONSTRAINT Kept
CHECK_DEADLOCK FALSE
INVARIANTS OwnAnswer OwnAddress
 
