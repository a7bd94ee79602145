\* A script's pipe is closed while its end waits to be dispatched.
CONSTANTS
  Listeners = {l1}
  Connections = {c1, c2}
  Pipes = {p1}
  NULL = NULL
  Fds = {0, 1, 2, 3}
  MaxDescriptors = 6
  SoftLimit = 2
  MaxClients = 4
  MaxDynamic = 1
  MaxBacklog = 1
  Sent = {}
SPECIFICATION Spec
INVARIANT
  EventsReachTheirOwner
