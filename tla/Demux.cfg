SPECIFICATION Spec
CONSTANTS
  EsPids <- ThreePids
  Programs = {0, 1, 2}
  Streams <- AnyStream
  Selected = {}
  Detail = TRUE
  ScteMax = 1
  MaxVersions = 2
  MaxSessions = 2
INVARIANTS
  Delivered
  Released
  PmtBalanced
CHECK_DEADLOCK FALSE
