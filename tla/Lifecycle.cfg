SPECIFICATION Spec
CONSTANTS
  Tokens <- MCTokens
  MaxTokens = 2
  Names = {"file", "udp", "missing"}
  Wire = {"PAT", "CAT", "PMT"}
  Announced = {"PES", "SCTE"}
  Clocks = {2, 5}
  MaxPackets = 3
  PktBits = 2
  BASE_CLK = 6
  Word = 1024
INVARIANTS Selection OneReport RateHonest
PROPERTIES SigintStops
