\* The listeners are deleted by SIGHUP and again on the way out.
CONSTANTS
  Listeners = {l1}
  Connections = {c1}
  Pipes = {}
  NULL = NULL
  Fds = {0, 1}
  MaxDescriptors = 4
  SoftLimit = 1
  MaxClients = 3
  MaxDynamic = 0
  MaxBacklog = 1
  Sent = {"SIGHUP"}
SPECIFICATION Spec
INVARIANT
  ShutdownIsClean
