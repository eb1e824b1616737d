------------------------------ MODULE MC_Demux ------------------------------
\* Streams for Demux: three PIDs, the first with a PMT and the others in any
\* role (PIDs differ only by name, so which one has the PMT does not matter).
EXTENDS Demux

ThreePids == {256, 257, 258}

AnyStream == {r \in [ThreePids -> Roles] : r[256] = "pmt"}
=============================================================================
