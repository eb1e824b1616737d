SPECIFICATION Spec
CONSTANTS
  Bytes = {}
  Junk = Junk
  Stuff = Stuff
  K = 3
  SecHdr = 1
  PesHdr = 1
  MaxLen = 4
  Cap = 8
  LenMod = 16
  Kinds = {"psi", "pes"}
  Lens = {1, 3, 5}
  MaxUnits = 3
  Faults = {"lose", "dup"}
INVARIANTS
  Resync
  Intact
  PsiWithinBuffer
CHECK_DEADLOCK FALSE
