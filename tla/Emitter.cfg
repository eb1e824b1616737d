SPECIFICATION Spec
CONSTANTS
  OutTypes = {"json", "html", "yaml", "txt"}
  MaxDumps = 2
  Sizes <- SmallSizes
  LongKeys = {}
  TextLens = {0, 9, 499}
  HexLens = {17, 430, 600}
  TitleLens = {16, 81}
INVARIANTS
  JsonWellFormed
  YamlWellFormed
  DepthBounded
  BuffersFit
CHECK_DEADLOCK FALSE
