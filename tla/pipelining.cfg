SPECIFICATION Spec
CONSTANTS
  Requests <- Gets
  MaxRequests = 3
  KeepAliveMax = 2
  MaxPostBody = 2
  RequestBufLimit = 3
  SockBufSize = 2
  FileErrors = {404}
  FileSizes = {1, 2}
  Timeouts = TRUE
INVARIANTS
  StreamIntact
  NothingMissing
  NoLostWakeup
  BufferBounded
  KeepAliveLimit
PROPERTIES
  QuitIsFinal
  FlushedBeforeClose
  KeepAlivePromise
  ImplementsExchange
\* The connection ends and the client may stop: no step is left then.
CHECK_DEADLOCK FALSE
