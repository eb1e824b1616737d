SPECIFICATION FairSpec
CONSTANTS
  Sources = {"file", "udp"}
  P = 3
  Starts = {0, 1, 2}
  Sizes = {0, 5, 7, 8, 9, 11, 12, 13, 15, 16, 19, 24, 25, 26, 27, 32, 33, 40}
  B = 8
  Page = 4
  IntMod = 64
  Datagrams = {9, 12}
  MaxStream = 45
  MinProbe = 7
  SizeMod = 1024
INVARIANTS
  PacketWhole
  PacketAligned
  DropsAtMostLastBlock
PROPERTIES
  NoGap
  Terminates
