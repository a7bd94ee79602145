SPECIFICATION Spec
CONSTANTS
  Requests <- Posts
  MaxRequests = 1
  KeepAliveMax = 3
  MaxPostBody = 2
  RequestBufLimit = 6
  SockBufSize = 2
  FileErrors = {}
  FileSizes = {1}
  Timeouts = FALSE
INVARIANTS
  WaitsForMissingBytes
\* The connection ends and the client may stop: no step is left then.
CHECK_DEADLOCK FALSE
