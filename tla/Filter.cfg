SPECIFICATION Spec
CONSTANTS
  Pids = {0}
  Tids = {0, 1, 2}
  Params <- MCParams
  Ids = {a, b, c}
  InitCap = 1
  NUM_FILTER_MAX = 3
INVARIANTS
  WithinCapacity
  MapCoherent
  DispatchExact
PROPERTY
  ImplementsRegistry
