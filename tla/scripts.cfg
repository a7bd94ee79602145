\* Two connections and two scripts' pipes, on descriptors used again and
\* again, when the table has room for two of the four and the kernel may give a
\* descriptor past it.
CONSTANTS
  Listeners = {l1}
  Connections = {c1, c2, c3}
  Pipes = {p1, p2}
  NULL = NULL
  Fds = {0, 1, 2, 3, 4}
  MaxDescriptors = 4
  SoftLimit = 2
  MaxClients = 4
  MaxDynamic = 2
  MaxBacklog = 1
  Sent = {}
SPECIFICATION Spec
SYMMETRY Interchangeable
INVARIANTS
  
  
  LimitRespected
