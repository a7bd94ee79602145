\* Files and directories that change while they are asked for, with and
\* without the cache and links.
CONSTANTS
  Paths <- TwoLevels
  Files <- Kinds
  Durations = {0, 2}
  DebugLogging = FALSE
  MaxTime = 2
  MaxChanges = 2
  NULL = NULL
SPECIFICATION Spec
PROPERTIES
  ServedWasThere
  RefusedForAReason
