SPECIFICATION PesSpec
CONSTANTS
  Pids = {256, 257}
  Streams <- MCStreams
  Headers <- MCHeaders
  Contents <- MCContents
  MagBytes <- MCMagBytes
  PktBytes <- MCPktBytes
  MayFail = TRUE
INVARIANTS Routed DataBounds DecodedWhole HammingSound OnlyTablesLeak
