--------------------------- MODULE SectionStream ---------------------------
(***************************************************************************)
(* A multiplexer sending sections or PES packets over an unreliable link   *)
(* to the reassembly of SectionParser.  The multiplexer, external to the   *)
(* program, follows ISO/IEC 13818-1: a unit starts in a packet with        *)
(* payload_unit_start_indicator set, its further packets have it clear,    *)
(* and the last packet of a section is filled with stuffing.  A packet may *)
(* be lost, or arrive twice (13818-1 lets a multiplexer repeat a packet).  *)
(*                                                                         *)
(* Byte k of unit u is <<u, k>>, so a section put together from two units  *)
(* is told from an intact one.                                             *)
(***************************************************************************)
EXTENDS SectionParser

CONSTANTS
  Kinds,    \* how the demultiplexer may take the PID: "psi", "pes"
  Stuff,    \* stuffing byte
  Lens,     \* unit lengths, headers included
  MaxUnits, \* bound on the units sent
  Faults    \* what the link does: subset of {"lose", "dup"}

ASSUME StreamConstants ==
  /\ Kinds \subseteq {"psi", "pes"}
  /\ K > 1 /\ SecHdr < K /\ PesHdr < K
  /\ Lens \subseteq Nat
  /\ MaxUnits \in Nat

VARIABLES
  kind,   \* how the demultiplexer takes the PID
  unit,   \* number of the unit being sent
  size,   \* its length
  sent,   \* bytes of it sent
  wire,   \* the packet on its way, or NoPacket
  copies, \* copies of it that have arrived
  clean,  \* ghost: the unit's packets have arrived in order, each once
  owed    \* ghost: units that arrived clean in packets of their own and were
          \* not handed on intact


link == <<kind, unit, size, sent, wire, copies, clean, owed>>
vars == <<parser, link>>

NoPacket == [data |-> <<>>]

Hdr == IF kind = "psi" THEN SecHdr ELSE PesHdr

\* pointer_field takes a byte of a section's first packet
RoomFirst == IF kind = "psi" THEN K - 1 ELSE K

\* A PES packet that states no length is video, which the analyzer drops.
MinLen == IF kind = "psi" THEN Hdr ELSE Hdr + 1

\* n bytes of unit u from its byte `from` on, then p stuffing bytes
Chunk(u, from, n, p) ==
  [i \in 1 .. (n + p) |-> IF i <= n THEN <<u, from + i - 1>> ELSE Stuff]

\* What filter_proc is given for an intact unit
Whole(u, len) == [len |-> len, data |-> [i \in 1 .. len |-> <<u, i - 1>>]]

Init ==
  /\ ParserInit
  /\ kind \in Kinds
  /\ unit = 0 /\ size = 0 /\ sent = 0
  /\ wire = NoPacket
  /\ copies = 0
  /\ clean = FALSE
  /\ owed = {}

\* The packet that carries bytes at .. at+n-1 of unit u; stuffing only fills
\* the last packet of a section.
Packet(u, len, at, n, p) ==
  [start |-> at = 0, field |-> len - Hdr, at |-> at, n |-> n,
   data |-> Chunk(u, at, n, p)]

Fill(len, at, n, room) ==
  IF kind = "psi" /\ at + n = len THEN room - n ELSE 0

SendStart(len, n) ==
  /\ wire = NoPacket /\ sent = size /\ unit < MaxUnits
  /\ len >= MinLen /\ n >= Hdr /\ n <= len /\ n <= RoomFirst
  /\ unit' = unit + 1 /\ size' = len /\ sent' = n
  /\ wire' = Packet(unit + 1, len, 0, n, Fill(len, 0, n, RoomFirst))
  /\ clean' = FALSE /\ copies' = 0
  /\ out' = NoSection
  /\ UNCHANGED <<total_len, limit_len, buffer, overrun, kind, owed>>

\* The rest of a section goes in front of the next one; pointer_field skips
\* it, and the code never looks at it.
SendPacked(len, n) ==
  /\ kind = "psi"
  /\ wire = NoPacket /\ sent < size /\ unit < MaxUnits
  /\ len >= MinLen /\ n >= Hdr /\ n <= len /\ (size - sent) + n <= RoomFirst
  /\ unit' = unit + 1 /\ size' = len /\ sent' = n
  /\ wire' = Packet(unit + 1, len, 0, n,
                    Fill(len, 0, n, RoomFirst - (size - sent)))
  /\ clean' = FALSE /\ copies' = 0
  /\ out' = NoSection
  /\ UNCHANGED <<total_len, limit_len, buffer, overrun, kind, owed>>

SendNext(n) ==
  /\ wire = NoPacket /\ sent < size
  /\ n >= 1 /\ n <= size - sent /\ n <= K
  /\ sent' = sent + n
  /\ wire' = Packet(unit, size, sent, n, Fill(size, sent, n, K))
  /\ copies' = 0
  /\ out' = NoSection
  /\ UNCHANGED <<total_len, limit_len, buffer, overrun, kind, unit, size, clean, owed>>

\* section_preproc and the dispatch in ts_proc
Receive(pkt) ==
  \/ kind = "psi" /\ pkt.start /\ PsiStart(pkt.field, pkt.data)
  \/ kind = "psi" /\ ~pkt.start /\ PsiContinue(pkt.data)
  \/ kind = "pes" /\ pkt.start /\ PesStart(pkt.field, pkt.data)
  \/ kind = "pes" /\ ~pkt.start /\ PesContinue(pkt.data)

\* The packet arrives; `again` says another copy of it follows.
Deliver(again) ==
  /\ wire # NoPacket
  /\ Receive(wire)
  /\ clean' = (wire.start \/ (clean /\ copies = 0))
  /\ owed' = (owed \cup {u \in {unit} : clean' /\ wire.at + wire.n = size})
             \ {u \in {unit} : out' = Whole(u, size)}
  /\ \/ ~again /\ wire' = NoPacket /\ copies' = 0
     \/ again /\ "dup" \in Faults /\ copies = 0 /\ copies' = 1 /\ UNCHANGED wire
  /\ UNCHANGED <<kind, unit, size, sent>>

Lose ==
  /\ "lose" \in Faults
  /\ wire # NoPacket /\ copies = 0
  /\ wire' = NoPacket
  /\ clean' = FALSE
  /\ out' = NoSection
  /\ UNCHANGED <<total_len, limit_len, buffer, overrun, kind, unit, size,
                  sent, copies, owed>>

Next ==
  \/ \E len \in Lens, n \in 1 .. K : SendStart(len, n)
  \/ \E len \in Lens, n \in 1 .. K : SendPacked(len, n)
  \/ \E n \in 1 .. K : SendNext(n)
  \/ \E again \in BOOLEAN : Deliver(again)
  \/ Lose

Spec == Init /\ [][Next]_vars

-----------------------------------------------------------------------------
(* Properties *)

\* Whatever was lost or repeated before, a unit whose packets all arrive, in
\* order and once each, is handed to the filters, complete and unchanged:
\* section_preproc recovers at every payload_unit_start_indicator.  (A
\* section that ends in front of the next one is not claimed.)
Resync == owed = {}

\* As long as a unit arrives clean, what section_preproc hands on is that
\* unit, byte for byte, and not before its last packet is there.
Intact == clean /\ out # NoSection => out = Whole(unit, size) /\ sent = size

\* On a PSI PID reassembly never writes past the buffer it allocated (the
\* comment on MAX_SECTION_BUF: "a fixed upper bound avoids unbounded
\* growth"), with sections cut off by losses and stuffing behind them.
PsiWithinBuffer == kind = "psi" => WithinBuffer

=============================================================================
