SPECIFICATION DesSpec
CONSTANTS
  Lengths = {0, 1, 2, 9}
  Sizes = {0, 1, 2, 3, 4, 5, 6, 8, 9, 10, 12, 13, 16, 18, 20, 32, 33, 255}
  Tags <- AllTags
INVARIANTS
  BitFieldsSound
  TrailingLoop
  GuardedOvershoot
  FreeSound
CHECK_DEADLOCK FALSE
