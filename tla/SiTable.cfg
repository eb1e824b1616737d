SPECIFICATION Spec
CONSTANTS
  Tables <- AllTables
  MaxEntries = 2
  Loops <- SmallLoops
  Errors <- SmallErrors
  MaxRounds = 2
  MaxPast = 12
  MaxExtra = 1
INVARIANTS
  InStep
  Aligned
  StopsPastEnd
  Replaced

  
CHECK_DEADLOCK FALSE
