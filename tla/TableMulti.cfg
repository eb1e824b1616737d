SPECIFICATION Spec
CONSTANTS
  Kind = "single"
  Exts = {1}
  VMod = 4
  First = 0
  MaxIssue = 0
  Lasts = {1}
  Lens = {1, 2}
  W = 4
  Words = 2
  Inputs = {}
  MaxTabs = 8
INVARIANT
  Complete
CHECK_DEADLOCK FALSE
