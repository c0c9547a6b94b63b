SPECIFICATION FileSpec
CONSTANTS
  Bytes = {"a", "b"}
  Files <- MCFiles
  CHUNK_SIZE = 3
  Modulus = 24
  SocketBuffer = 2
  Undefined = {}
  MaxDownloads = 2
CONSTRAINT DownloadsOneChunk
CHECK_DEADLOCK FALSE
INVARIANTS LengthStored RoundTrip
PROPERTIES DownloadEnds
