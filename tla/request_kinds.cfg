SPECIFICATION Spec
CONSTANTS
  Requests <- Kinds
  MaxRequests = 2
  KeepAliveMax = 3
  MaxPostBody = 2
  RequestBufLimit = 6
  SockBufSize = 2
  FileErrors = {403, 404, 500}
  FileSizes = {0, 2}
  Timeouts = TRUE
INVARIANTS
  ControlInv
  AnswersMatch
  BodyBounded
\* The connection ends and the client may stop: no step is left then.
CHECK_DEADLOCK FALSE
