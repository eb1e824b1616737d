SPECIFICATION Spec
CONSTANTS
  Kind = "pat"
  Exts = {1}
  VMod = 4
  First = 2
  MaxIssue = 4
  Lasts = {0, 1}
  Lens = {1}
  W = 4
  Words = 2
  Inputs = {"overlong", "short"}
  MaxTabs = 3
INVARIANTS
  Coherent
  OneSectionKept
  ConcatSafe
CHECK_DEADLOCK FALSE
