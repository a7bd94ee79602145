SPECIFICATION FairSpec
CONSTANTS
  Requests <- LiveKinds
  MaxRequests = 2
  KeepAliveMax = 3
  MaxPostBody = 2
  RequestBufLimit = 6
  SockBufSize = 1
  FileErrors = {404}
  FileSizes = {0, 2}
  Timeouts = FALSE
PROPERTIES
  
  PeerGoneIsReaped
\* The connection ends and the client may stop: no step is left then.
CHECK_DEADLOCK FALSE
