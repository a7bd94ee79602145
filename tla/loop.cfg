\* One listener and a table with room for one connection, when the limit
\* allows two and the kernel may give a descriptor past the table.
CONSTANTS
  Listeners = {l1}
  Connections = {c1, c2}
  Pipes = {}
  NULL = NULL
  Fds = {0, 1, 2, 3}
  MaxDescriptors = 3
  SoftLimit = 2
  MaxClients = 4
  MaxDynamic = 0
  MaxBacklog = 2
  Sent = {"SIGHUP", "SIGTERM"}
SPECIFICATION LiveSpec
INVARIANTS
  CulledOnce
  ConnectionsWatched
PROPERTIES
  NobodyNewAfterShutdown
  DeletedAreReaped
  ShutdownCompletes
  SigTermEnds
