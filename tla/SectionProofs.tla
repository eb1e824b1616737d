--------------------------- MODULE SectionProofs ---------------------------
(***************************************************************************)
(* Proofs about reassembly and what is behind it.  Sections: the buffer    *)
(* bound for arbitrary PSI payloads, and recovery over a link that loses   *)
(* and repeats packets.  PES packets: their routing to the entry of their  *)
(* PID, the bounds of their data, the decoding of subtitles and teletext,  *)
(* and what is left allocated.                                             *)
(***************************************************************************)
EXTENDS SectionStream, Payload, FiniteSetTheorems, WellFoundedInduction, TLAPS

\* A function on 1 .. m is a sequence of length m.
LEMMA FunctionIsSequence ==
  ASSUME NEW S, NEW m \in Nat, NEW f \in [1 .. m -> S]
  PROVE  f \in Seq(S) /\ Len(f) = m
  OBVIOUS

\* The remainder of a number below the modulus is the number (a length that
\* fits an int16_t comes through it unchanged).
LEMMA SmallMod ==
  ASSUME NEW a \in Nat, NEW m \in Nat \ {0}, a < m
  PROVE  a % m = a
  OBVIOUS

\* A payload is a sequence of at most K bytes.
LEMMA PayloadFacts ==
  ASSUME NEW data \in Payloads
  PROVE  /\ data \in Seq(Bytes)
         /\ Len(data) \in 0 .. K
         /\ \A i \in 1 .. Len(data) : data[i] \in Bytes
<1>1. PICK n \in 0 .. K : data \in [1 .. n -> Bytes]
  BY DEF Payloads
<1>2. n \in Nat
  BY <1>1, SectionConstants DEF SectionConstants
<1>3. data \in Seq(Bytes) /\ Len(data) = n
  BY <1>1, <1>2, FunctionIsSequence
<1> QED
  BY <1>1, <1>2, <1>3

\* memcpy into the buffer keeps the buffer's type.
LEMMA WrittenType ==
  ASSUME buffer \in [0 .. (Cap - 1) -> Bytes \cup {Junk}],
         NEW at \in Nat, NEW data \in Seq(Bytes)
  PROVE  Written(at, data) \in [0 .. (Cap - 1) -> Bytes \cup {Junk}]
<1> SUFFICES ASSUME NEW i \in 0 .. (Cap - 1)
             PROVE  (IF i >= at /\ i < at + Len(data) THEN data[i - at + 1] ELSE buffer[i])
                      \in Bytes \cup {Junk}
  BY SectionConstants DEF Written, SectionConstants
<1>1. CASE i >= at /\ i < at + Len(data)
  <2>1. i \in Int /\ i - at + 1 \in 1 .. Len(data)
    BY <1>1, SectionConstants DEF SectionConstants
  <2> QED
    BY <1>1, <2>1
<1>2. CASE ~(i >= at /\ i < at + Len(data))
  BY <1>2
<1> QED
  BY <1>1, <1>2

\* A result is either nothing or a section with its own length.
LEMMA DispatchedLength ==
  ASSUME NEW n \in Nat, n <= SecHdr + MaxLen,
         NEW S, NEW data \in Seq(S), Len(data) = n
  PROVE  LET o == Dispatched(n, data) IN o = NoSection \/ o.len = Len(o.data)
<1>1. n % LenMod = n
  BY SectionConstants DEF SectionConstants
<1> QED
  BY <1>1 DEF Dispatched, NoSection

\* The first n bytes of the buffer are a sequence of length n.
LEMMA PrefixFacts ==
  ASSUME NEW S, NEW b \in [0 .. (Cap - 1) -> S], NEW n \in Nat
  PROVE  Prefix(b, n) \in Seq(S \cup {Junk}) /\ Len(Prefix(b, n)) = n
<1>1. Prefix(b, n) \in [1 .. n -> S \cup {Junk}]
  BY SectionConstants DEF Prefix, SectionConstants
<1> QED
  BY <1>1, FunctionIsSequence

\* Strengthening: an unfinished section never holds more than it wants, or
\* than one payload when it was complete in its first packet.
ParserInv ==
  /\ ParserTypeOK
  /\ WithinBuffer
  /\ limit_len <= SecHdr + MaxLen
  /\ total_len < limit_len \/ total_len <= K

\* A payload_unit_start on a PSI PID preserves the invariant: total_len is at
\* most one payload.
LEMMA PsiStartPreserves ==
  ASSUME ParserInv, NEW data \in Payloads, NEW field \in 0 .. MaxLen,
         PsiStart(field, data)
  PROVE  ParserInv'
<1> DEFINE n == field + SecHdr
<1>0. /\ n \in Nat /\ n <= SecHdr + MaxLen
      /\ data \in Seq(Bytes) /\ Len(data) \in 0 .. K /\ Len(data) \in Nat
  BY PayloadFacts, SectionConstants DEF SectionConstants
<1>1. total_len' = Len(data) /\ limit_len' = n /\ overrun' = overrun
  BY DEF PsiStart
<1>2. CASE n <= Len(data)
  <2>1. out' = Dispatched(n, SubSeq(data, 1, n)) /\ buffer' = buffer
    BY <1>2 DEF PsiStart
  <2>2. SubSeq(data, 1, n) \in Seq(Bytes) /\ Len(SubSeq(data, 1, n)) = n
    BY <1>0, <1>2
  <2>3. out' = NoSection \/ out'.len = Len(out'.data)
    BY <1>0, <2>1, <2>2, DispatchedLength
  <2> QED
    BY <1>0, <1>1, <2>1, <2>3 DEF ParserInv, ParserTypeOK, WithinBuffer
<1>3. CASE ~(n <= Len(data))
  <2>1. out' = NoSection /\ buffer' = Written(0, data)
    BY <1>3 DEF PsiStart
  <2>2. buffer' \in [0 .. (Cap - 1) -> Bytes \cup {Junk}]
    BY <2>1, <1>0, WrittenType DEF ParserInv, ParserTypeOK
  <2> QED
    BY <1>0, <1>1, <2>1, <2>2 DEF ParserInv, ParserTypeOK, WithinBuffer
<1> QED
  BY <1>2, <1>3

\* A further PSI payload preserves the invariant: it is appended behind less
\* than limit_len bytes, or behind a single payload.
LEMMA PsiContinuePreserves ==
  ASSUME ParserInv, NEW data \in Payloads, PsiContinue(data)
  PROVE  ParserInv'
<1>0. data \in Seq(Bytes) /\ Len(data) \in 0 .. K /\ Len(data) \in Nat
  BY PayloadFacts, SectionConstants DEF SectionConstants
<1>1. CASE total_len = 0
  BY <1>1 DEF PsiContinue, ParserInv, ParserTypeOK, WithinBuffer
<1>2. CASE total_len # 0
  <2>0. total_len \in Nat /\ limit_len \in Nat /\ K \in Nat
    BY SectionConstants DEF ParserInv, ParserTypeOK, SectionConstants
  <2>1. total_len + Len(data) <= Cap
    BY <1>0, <2>0, SectionConstants DEF ParserInv, SectionConstants
  <2>a. (total_len + Len(data) > Cap) = FALSE
    BY <2>1, <1>0, <2>0, SectionConstants DEF SectionConstants
  <2>b. overrun' = (total_len + Len(data) > Cap)
    BY <1>2 DEF PsiContinue
  <2>c. overrun' \in BOOLEAN /\ ~overrun'
    BY <2>a, <2>b, Zenon
  <2>2. limit_len' = limit_len /\ buffer' = Written(total_len, data)
    BY <1>2 DEF PsiContinue
  <2>3. buffer' \in [0 .. (Cap - 1) -> Bytes \cup {Junk}]
    BY <2>0, <2>2, <1>0, WrittenType DEF ParserInv, ParserTypeOK
  <2>4. CASE total_len + Len(data) >= limit_len
    <3>1. out' = Dispatched(limit_len, Prefix(buffer', limit_len)) /\ total_len' = 0
      BY <1>2, <2>4 DEF PsiContinue
    <3>2. /\ Prefix(buffer', limit_len) \in Seq((Bytes \cup {Junk}) \cup {Junk})
          /\ Len(Prefix(buffer', limit_len)) = limit_len
      BY <2>0, <2>3, PrefixFacts
    <3>3. out' = NoSection \/ out'.len = Len(out'.data)
      BY <3>1, <3>2, <2>0, DispatchedLength DEF ParserInv
    <3>4. total_len' \in Nat /\ limit_len' \in Nat /\ limit_len' <= SecHdr + MaxLen /\ total_len' <= K
      BY <2>0, <2>2, <3>1 DEF ParserInv
    <3> QED
      BY <2>c, <2>3, <3>3, <3>4, Zenon DEF ParserInv, ParserTypeOK, WithinBuffer
  <2>5. CASE ~(total_len + Len(data) >= limit_len)
    <3>1. out' = NoSection /\ total_len' = total_len + Len(data)
      BY <1>2, <2>5 DEF PsiContinue
    <3>4. /\ total_len' \in Nat /\ limit_len' \in Nat /\ limit_len' <= SecHdr + MaxLen
          /\ total_len' < limit_len'
      BY <1>0, <2>0, <2>2, <2>5, <3>1 DEF ParserInv
    <3> QED
      BY <2>c, <2>3, <3>1, <3>4, Zenon DEF ParserInv, ParserTypeOK, WithinBuffer
  <2> QED
    BY <2>4, <2>5
<1> QED
  BY <1>1, <1>2

\* For any payloads on a PSI PID, in any order, with any section_length, the
\* reassembly of section_preproc stays inside the buffer it allocated and
\* hands on sections with the length it states.
THEOREM PsiBuffer == ParserSpec => [](ParserTypeOK /\ WithinBuffer)
<1>1. ParserInit => ParserInv
  <2> SUFFICES ASSUME ParserInit PROVE ParserInv
    OBVIOUS
  <2>1. total_len \in Nat /\ limit_len \in Nat /\ limit_len <= SecHdr + MaxLen /\ total_len <= K
    BY SectionConstants DEF ParserInit, SectionConstants
  <2>2. buffer \in [0 .. (Cap - 1) -> Bytes \cup {Junk}]
    BY DEF ParserInit, EmptyBuffer
  <2>3. overrun \in BOOLEAN /\ ~overrun /\ out = NoSection
    BY Zenon DEF ParserInit
  <2> QED
    BY <2>1, <2>2, <2>3, Zenon DEF ParserInv, ParserTypeOK, WithinBuffer
<1>2. ParserInv /\ [AnyPsiPacket]_parser => ParserInv'
  <2> SUFFICES ASSUME ParserInv, [AnyPsiPacket]_parser PROVE ParserInv'
    OBVIOUS
  <2>1. ASSUME NEW data \in Payloads, NEW field \in 0 .. MaxLen, PsiStart(field, data)
        PROVE  ParserInv'
    BY <2>1, PsiStartPreserves
  <2>2. ASSUME NEW data \in Payloads, PsiContinue(data) PROVE ParserInv'
    BY <2>2, PsiContinuePreserves
  <2>3. CASE UNCHANGED parser
    BY <2>3 DEF parser, ParserInv, ParserTypeOK, WithinBuffer
  <2> QED
    BY <2>1, <2>2, <2>3 DEF AnyPsiPacket
<1>3. ParserInv => ParserTypeOK /\ WithinBuffer
  BY DEF ParserInv
<1> QED
  BY <1>1, <1>2, <1>3, PTL DEF ParserSpec

-----------------------------------------------------------------------------
(* Recovery.  Units are short enough for the buffer and for int16_t.       *)

StreamAssumptions == \A len \in Lens : len <= Cap /\ len < LenMod - 1

\* What the parser holds after the first n bytes of the unit arrived clean
Received(n) ==
  n < size =>
    /\ n > 0
    /\ total_len = n
    /\ limit_len = size
    /\ \A i \in 0 .. (n - 1) : buffer[i] = <<unit, i>>

\* The packet on the wire is the last one sent.
GoodWire ==
  /\ size \in Lens /\ size >= MinLen
  /\ wire.at \in Nat /\ wire.n \in Nat \ {0} /\ wire.at + wire.n = sent
  /\ wire.start <=> (wire.at = 0)
  /\ wire.field = size - Hdr
  /\ \E p \in Nat : /\ wire.data = Chunk(unit, wire.at, wire.n, p)
                    /\ p # 0 => kind = "psi" /\ sent = size

StreamInv ==
  /\ owed = {}
  /\ Intact
  /\ kind \in Kinds
  /\ unit \in Nat /\ size \in Nat /\ sent \in Nat /\ sent <= size
  /\ size = 0 \/ (size \in Lens /\ size >= MinLen)
  /\ total_len \in Nat
  /\ wire # NoPacket => GoodWire
  /\ wire = NoPacket /\ clean => Received(sent)
  /\ wire # NoPacket /\ clean /\ copies = 0 => wire.at # 0 /\ Received(wire.at)

\* The constants as the stream uses them.
LEMMA HdrFacts ==
  /\ Hdr \in Nat \ {0} /\ K \in Nat /\ Cap \in Nat /\ LenMod \in Nat \ {0}
  /\ RoomFirst \in Nat /\ RoomFirst <= K
  /\ MinLen \in Nat /\ MinLen >= Hdr
  BY SectionConstants, StreamConstants
  DEF SectionConstants, StreamConstants, Hdr, RoomFirst, MinLen

\* A packet's payload: its length and that it is a sequence.
LEMMA ChunkFacts ==
  ASSUME NEW u, NEW from \in Nat, NEW n \in Nat, NEW p \in Nat
  PROVE  /\ Len(Chunk(u, from, n, p)) = n + p
         /\ Chunk(u, from, n, p) \in Seq(({u} \X Int) \cup {Stuff})
<1> DEFINE S == ({u} \X Int) \cup {Stuff}
<1>1. Chunk(u, from, n, p) \in [1 .. (n + p) -> S]
  BY DEF Chunk
<1>2. Chunk(u, from, n, p) \in Seq(S) /\ Len(Chunk(u, from, n, p)) = n + p
  <2>1. n + p \in Nat
    OBVIOUS
  <2> QED
    BY <1>1, <2>1, FunctionIsSequence
<1> QED
  BY <1>2

\* A packet is never mistaken for the empty wire.
LEMMA PacketNotNone ==
  ASSUME NEW u, NEW len, NEW at, NEW n, NEW p
  PROVE  Packet(u, len, at, n, p) # NoPacket
<1>1. "at" \in DOMAIN Packet(u, len, at, n, p)
  BY DEF Packet
<1>2. DOMAIN NoPacket = {"data"}
  BY DEF NoPacket
<1> QED
  BY <1>1, <1>2

\* Sending the first packet of a unit, with the end of the one before in
\* front of it or not
LEMMA StartPreserves ==
  ASSUME StreamInv, NEW len \in Lens, NEW n \in 1 .. K,
         NEW room \in Nat, n <= len, n <= room, len >= MinLen,
         unit' = unit + 1, size' = len, sent' = n,
         wire' = Packet(unit + 1, len, 0, n, Fill(len, 0, n, room)),
         ~clean', owed' = owed, total_len' = total_len, kind' = kind,
         out' = NoSection
  PROVE  StreamInv'
<1> DEFINE p == Fill(len, 0, n, room)
<1>2. len \in Nat /\ n \in Nat \ {0} /\ Hdr' = Hdr /\ MinLen' = MinLen
  BY HdrFacts, StreamConstants DEF StreamConstants, Hdr, MinLen
<1>3. p \in Nat /\ (p # 0 => kind = "psi" /\ n = len)
  BY <1>2 DEF Fill
<1>4. /\ wire'.at = 0 /\ wire'.n = n /\ wire'.start /\ wire'.field = len - Hdr
      /\ wire'.data = Chunk(unit', 0, n, p)
  BY DEF Packet
<1>5. GoodWire'
  BY <1>2, <1>3, <1>4 DEF GoodWire
<1>6. wire' # NoPacket
  BY PacketNotNone
<1> QED
  BY <1>2, <1>5, <1>6 DEF StreamInv, Intact

\* A unit that starts a packet of its own
LEMMA SendStartPreserves ==
  ASSUME StreamInv, NEW len \in Lens, NEW n \in 1 .. K, SendStart(len, n)
  PROVE  StreamInv'
<1>1. /\ unit' = unit + 1 /\ size' = len /\ sent' = n
      /\ wire' = Packet(unit + 1, len, 0, n, Fill(len, 0, n, RoomFirst))
      /\ ~clean' /\ owed' = owed /\ total_len' = total_len /\ kind' = kind
      /\ out' = NoSection
      /\ n <= len /\ n <= RoomFirst /\ len >= MinLen
  BY DEF SendStart
<1> QED
  BY <1>1, HdrFacts, StartPreserves

\* A section that starts behind the end of the one before it
LEMMA SendPackedPreserves ==
  ASSUME StreamInv, NEW len \in Lens, NEW n \in 1 .. K, SendPacked(len, n)
  PROVE  StreamInv'
<1> DEFINE room == RoomFirst - (size - sent)
<1>1. /\ unit' = unit + 1 /\ size' = len /\ sent' = n
      /\ wire' = Packet(unit + 1, len, 0, n, Fill(len, 0, n, room))
      /\ ~clean' /\ owed' = owed /\ total_len' = total_len /\ kind' = kind
      /\ out' = NoSection
      /\ n <= len /\ (size - sent) + n <= RoomFirst /\ len >= MinLen
  BY DEF SendPacked
<1>2. room \in Nat /\ n <= room
  BY <1>1, HdrFacts DEF StreamInv
<1> HIDE DEF room
<1> QED
  BY <1>1, <1>2, StartPreserves

\* Sending a further packet
LEMMA SendNextPreserves ==
  ASSUME StreamInv, size \in Lens, size >= MinLen, NEW n \in 1 .. K, SendNext(n)
  PROVE  StreamInv'
<1> DEFINE p == Fill(size, sent, n, K)
<1>1. /\ unit' = unit /\ size' = size /\ sent' = sent + n
      /\ wire' = Packet(unit, size, sent, n, p)
      /\ (clean' => clean) /\ owed' = owed /\ kind' = kind /\ out' = NoSection
      /\ total_len' = total_len /\ limit_len' = limit_len /\ buffer' = buffer
      /\ wire = NoPacket /\ sent < size /\ n <= size - sent
  BY DEF SendNext
<1>2. n \in Nat \ {0} /\ Hdr' = Hdr /\ MinLen' = MinLen
  BY <1>1, HdrFacts DEF Hdr, MinLen
<1>3. p \in Nat /\ (p # 0 => kind = "psi" /\ sent + n = size)
  BY <1>1, <1>2, HdrFacts DEF Fill, StreamInv
<1>4. /\ wire'.at = sent /\ wire'.n = n /\ (wire'.start <=> (sent = 0))
      /\ wire'.field = size - Hdr
      /\ wire'.data = Chunk(unit', sent, n, p)
  BY <1>1 DEF Packet
<1>5. GoodWire'
  BY <1>1, <1>2, <1>3, <1>4 DEF GoodWire, StreamInv
<1>6. wire' # NoPacket
  BY <1>1, PacketNotNone
<1>7. clean' => wire'.at # 0 /\ Received(wire.at)'
  BY <1>1, <1>4 DEF StreamInv, Received
<1> QED
  BY <1>1, <1>2, <1>5, <1>6, <1>7 DEF StreamInv, Intact

\* A unit's own bytes are handed on as the unit.
LEMMA DispatchedWhole ==
  ASSUME StreamAssumptions, size \in Lens, size >= MinLen, NEW d,
         d = [i \in 1 .. size |-> <<unit, i - 1>>]
  PROVE  Dispatched(size, d) = Whole(unit, size)
<1>1. size \in Nat /\ size > 0 /\ size < LenMod - 1 /\ LenMod \in Nat \ {0}
  BY HdrFacts, StreamConstants DEF StreamAssumptions, StreamConstants
<1>2. size % LenMod = size
  <2>1. size < LenMod
    BY <1>1
  <2> QED
    BY <1>1, <2>1, SmallMod
<1>3. size % LenMod \notin {0, LenMod - 1}
  BY <1>1, <1>2
<1> QED
  BY <1>2, <1>3 DEF Dispatched, Whole

\* What a step of the parser must establish for the packet on the wire
Accepted ==
  /\ total_len' \in Nat
  /\ wire.at + wire.n = size => out' = Whole(unit, size)
  /\ sent < size =>
       /\ out' = NoSection
       /\ total_len' = sent /\ limit_len' = size
       /\ \A i \in 0 .. (sent - 1) : buffer'[i] = <<unit, i>>

\* A packet with payload_unit_start_indicator starts the unit afresh.
LEMMA ReceiveStart ==
  ASSUME StreamAssumptions, StreamInv, wire # NoPacket, wire.start, Receive(wire)
  PROVE  Accepted
<1> DEFINE n == wire.n
<1>1. /\ size \in Lens /\ size >= MinLen /\ size \in Nat /\ sent \in Nat /\ unit \in Nat
      /\ wire.at = 0 /\ n \in Nat \ {0} /\ n = sent /\ n <= size
      /\ wire.field = size - Hdr
  BY DEF StreamInv, GoodWire
<1>2. PICK p \in Nat : wire.data = Chunk(unit, 0, n, p) /\ (p # 0 => kind = "psi" /\ sent = size)
  BY <1>1 DEF StreamInv, GoodWire
<1> DEFINE d == wire.data
<1>a. /\ Len(d) = n + p
      /\ d \in Seq(({unit} \X Int) \cup {Stuff})
  <2>1. 0 \in Nat /\ n \in Nat /\ p \in Nat
    BY <1>1
  <2> QED
    BY <2>1, <1>2, ChunkFacts
<1>3. /\ Len(d) = n + p
      /\ \A i \in 1 .. n : d[i] = <<unit, i - 1>>
  BY <1>a, <1>1, <1>2 DEF Chunk
<1>4. PICK S : d \in Seq(S)
  BY <1>a
<1>5. Hdr \in Nat \ {0} /\ Cap \in Nat /\ size <= Cap /\ wire.field + Hdr = size
  BY <1>1, HdrFacts DEF StreamAssumptions
<1>6. \A i \in 0 .. (n - 1) : Written(0, d)[i] = <<unit, i>>
  <2> TAKE i \in 0 .. (n - 1)
  <2>1. i \in 0 .. (Cap - 1) /\ i >= 0 /\ i < 0 + Len(d) /\ i - 0 + 1 = i + 1 /\ i + 1 \in 1 .. n
    BY <1>1, <1>3, <1>5
  <2>2. Written(0, d)[i] = d[i + 1]
    BY <2>1 DEF Written
  <2> QED
    BY <1>3, <2>1, <2>2
<1>7. ASSUME kind = "psi" PROVE Accepted
  <2>1. PsiStart(wire.field, d)
    BY <1>7 DEF Receive
  <2>2. wire.field + SecHdr = size
    BY <1>5, <1>7 DEF Hdr
  <2>3. total_len' = n + p /\ limit_len' = size
    BY <1>3, <2>1, <2>2 DEF PsiStart
  <2>4. CASE n = size
    <3>1. out' = Dispatched(size, SubSeq(d, 1, size))
      BY <1>1, <1>2, <1>3, <2>1, <2>2, <2>4 DEF PsiStart
    <3>2. SubSeq(d, 1, size) = [i \in 1 .. size |-> <<unit, i - 1>>]
      BY <1>1, <1>3, <1>4, <2>4
    <3>3. out' = Whole(unit, size)
      BY <1>1, <3>1, <3>2, DispatchedWhole
    <3> QED
      BY <1>1, <1>2, <2>3, <2>4, <3>3 DEF Accepted
  <2>5. CASE n # size
    <3>1. p = 0 /\ ~(size <= Len(d))
      BY <1>1, <1>2, <1>3, <2>5
    <3>2. buffer' = Written(0, d) /\ out' = NoSection
      BY <2>1, <2>2, <3>1 DEF PsiStart
    <3> QED
      BY <1>1, <1>6, <2>3, <2>5, <3>1, <3>2 DEF Accepted
  <2> QED
    BY <2>4, <2>5
<1>8. ASSUME kind = "pes" PROVE Accepted
  <2>1. PesStart(wire.field, d)
    BY <1>8 DEF Receive
  <2>2. wire.field + PesHdr = size /\ wire.field > 0 /\ p = 0
    BY <1>1, <1>2, <1>5, <1>8 DEF Hdr, MinLen
  <2>3. total_len' = n /\ limit_len' = size
    BY <1>1, <1>3, <2>1, <2>2 DEF PesStart
  <2>4. CASE n = size
    <3>1. out' = Dispatched(size, d)
      BY <1>1, <1>3, <2>1, <2>2, <2>4 DEF PesStart
    <3>2. d = [i \in 1 .. size |-> <<unit, i - 1>>]
      BY <1>1, <1>2, <2>2, <2>4 DEF Chunk
    <3>3. out' = Whole(unit, size)
      BY <1>1, <3>1, <3>2, DispatchedWhole
    <3> QED
      BY <1>1, <2>3, <2>4, <3>3 DEF Accepted
  <2>5. CASE n # size
    <3>1. size > Len(d)
      BY <1>1, <1>3, <2>2, <2>5
    <3>2. buffer' = Written(0, d) /\ out' = NoSection
      BY <1>1, <1>3, <2>1, <2>2, <3>1 DEF PesStart
    <3> QED
      BY <1>1, <1>6, <2>3, <2>5, <3>2 DEF Accepted
  <2> QED
    BY <2>4, <2>5
<1> QED
  BY <1>7, <1>8, StreamConstants DEF StreamConstants, StreamInv

\* A further packet in its turn is appended, and completes the unit if it is
\* the last.
LEMMA ReceiveNext ==
  ASSUME StreamAssumptions, StreamInv, wire # NoPacket, ~wire.start,
         Received(wire.at), Receive(wire)
  PROVE  Accepted
<1> DEFINE n == wire.n  at == wire.at  d == wire.data
<1>1. /\ size \in Lens /\ size >= MinLen /\ size \in Nat /\ sent \in Nat /\ unit \in Nat
      /\ at \in Nat \ {0} /\ n \in Nat \ {0} /\ at + n = sent /\ sent <= size
  BY DEF StreamInv, GoodWire
<1>2. PICK p \in Nat : d = Chunk(unit, at, n, p) /\ (p # 0 => kind = "psi" /\ sent = size)
  BY <1>1 DEF StreamInv, GoodWire
<1>3. /\ Len(d) = n + p
      /\ \A i \in 1 .. n : d[i] = <<unit, at + i - 1>>
  <2>1. at \in Nat /\ n \in Nat /\ p \in Nat
    BY <1>1
  <2>a. \A a, m \in Nat : Len(Chunk(unit, a, m, p)) = m + p
    BY ChunkFacts
  <2>2. Len(d) = n + p
    BY <2>1, <2>a, <1>2
  <2> QED
    BY <2>1, <2>2, <1>2 DEF Chunk
<1>4. /\ total_len = at /\ limit_len = size /\ size # 0
      /\ \A i \in 0 .. (at - 1) : buffer[i] = <<unit, i>>
  BY <1>1 DEF Received
<1>5. Cap \in Nat /\ size <= Cap
  BY <1>1, HdrFacts DEF StreamAssumptions
<1>6. \A i \in 0 .. (sent - 1) : Written(at, d)[i] = <<unit, i>>
  <2> TAKE i \in 0 .. (sent - 1)
  <2>0. i \in 0 .. (Cap - 1)
    BY <1>1, <1>5
  <2>1. CASE i >= at
    <3>0. i \in Int /\ i < at + n /\ i < at + Len(d) /\ at \in Int /\ n \in Int
      BY <1>1, <1>3, <2>0, <2>1
    <3>1. i < at + Len(d) /\ i - at + 1 \in 1 .. n /\ at + (i - at + 1) - 1 = i
      BY <3>0, <2>1
    <3>2. Written(at, d)[i] = d[i - at + 1]
      BY <2>0, <2>1, <3>1 DEF Written
    <3> QED
      BY <1>3, <3>1, <3>2
  <2>2. CASE ~(i >= at)
    <3>1. Written(at, d)[i] = buffer[i] /\ i \in 0 .. (at - 1)
      BY <1>1, <2>0, <2>2 DEF Written
    <3> QED
      BY <1>4, <3>1
  <2> QED
    BY <2>1, <2>2
<1>7. at + Len(d) >= size <=> sent = size
  BY <1>1, <1>2, <1>3
<1>8. sent = size => Prefix(Written(at, d), size) = [i \in 1 .. size |-> <<unit, i - 1>>]
  <2> SUFFICES ASSUME sent = size, NEW i \in 1 .. size
               PROVE  (IF i <= Cap THEN Written(at, d)[i - 1] ELSE Junk) = <<unit, i - 1>>
    BY DEF Prefix
  <2>1. i <= Cap /\ i - 1 \in 0 .. (sent - 1)
    BY <1>1, <1>5
  <2> QED
    BY <1>6, <2>1
<1>9. ASSUME kind = "psi" PROVE Accepted
  <2>1. PsiContinue(d)
    BY <1>9 DEF Receive
  <2>2. buffer' = Written(at, d) /\ limit_len' = size
    BY <1>1, <1>4, <2>1 DEF PsiContinue
  <2>3. CASE sent = size
    <3>1. out' = Dispatched(size, Prefix(Written(at, d), size)) /\ total_len' = 0
      BY <1>1, <1>4, <1>7, <2>1, <2>2, <2>3 DEF PsiContinue
    <3>2. out' = Whole(unit, size)
      BY <1>1, <1>8, <2>3, <3>1, DispatchedWhole
    <3> QED
      BY <1>1, <2>3, <3>1, <3>2 DEF Accepted
  <2>4. CASE sent # size
    <3>1. total_len' = at + Len(d) /\ p = 0 /\ out' = NoSection
      BY <1>1, <1>2, <1>4, <1>7, <2>1, <2>4 DEF PsiContinue
    <3> QED
      BY <1>1, <1>3, <1>6, <2>2, <2>4, <3>1 DEF Accepted
  <2> QED
    BY <2>3, <2>4
<1>10. ASSUME kind = "pes" PROVE Accepted
  <2>1. PesContinue(d)
    BY <1>10 DEF Receive
  <2>2. /\ buffer' = Written(at, d) /\ limit_len' = size /\ total_len' = at + Len(d)
        /\ p = 0
    BY <1>1, <1>2, <1>4, <1>10, <2>1 DEF PesContinue
  <2>3. CASE sent = size
    <3>1. out' = Dispatched(size, Prefix(Written(at, d), size))
      BY <1>1, <1>4, <1>7, <2>1, <2>2, <2>3 DEF PesContinue
    <3>2. out' = Whole(unit, size)
      BY <1>1, <1>8, <2>3, <3>1, DispatchedWhole
    <3> QED
      BY <1>1, <1>3, <2>2, <2>3, <3>2 DEF Accepted
  <2>4. CASE sent # size
    <3>1. out' = NoSection
      BY <1>1, <1>4, <1>7, <2>1, <2>4 DEF PesContinue
    <3> QED
      BY <1>1, <1>3, <1>6, <2>2, <2>4, <3>1 DEF Accepted
  <2> QED
    BY <2>3, <2>4
<1> QED
  BY <1>9, <1>10, StreamConstants DEF StreamConstants, StreamInv

\* A packet arrives.
LEMMA DeliverPreserves ==
  ASSUME StreamAssumptions, StreamInv, NEW again \in BOOLEAN, Deliver(again)
  PROVE  StreamInv'
<1>1. /\ wire # NoPacket /\ Receive(wire)
      /\ unit' = unit /\ size' = size /\ sent' = sent /\ kind' = kind
      /\ clean' = (wire.start \/ (clean /\ copies = 0))
      /\ \/ wire' = NoPacket
         \/ wire' = wire /\ copies' = 1
      /\ owed' = (owed \cup {u \in {unit} : clean' /\ wire.at + wire.n = size})
                 \ {u \in {unit} : out' = Whole(u, size)}
  BY DEF Deliver
<1>2. /\ owed = {} /\ GoodWire /\ size >= MinLen /\ MinLen' = MinLen /\ Hdr' = Hdr
      /\ sent \in Nat /\ size \in Nat /\ unit \in Nat /\ sent <= size /\ size \in Lens
      /\ wire.at \in Nat /\ wire.n \in Nat \ {0} /\ sent = wire.at + wire.n
      /\ total_len \in Nat
  BY <1>1 DEF StreamInv, GoodWire, MinLen, Hdr
<1>3. clean' => Accepted
  <2>1. CASE wire.start
    BY <1>1, <2>1, ReceiveStart
  <2>2. ASSUME ~wire.start, clean, copies = 0 PROVE Accepted
    <3>1. Received(wire.at)
      BY <1>1, <2>2 DEF StreamInv
    <3> QED
      BY <1>1, <2>2, <3>1, ReceiveNext
  <2> QED
    BY <1>1, <2>1, <2>2, Zenon
<1>4. total_len' \in Nat
  <2>1. PICK p \in Nat : wire.data = Chunk(unit, wire.at, wire.n, p)
    BY <1>2 DEF GoodWire
  <2>2. Len(wire.data) \in Nat
    <3>1. wire.at \in Nat /\ wire.n \in Nat
      BY <1>2
    <3>a. \A a, m \in Nat : Len(Chunk(unit, a, m, p)) = m + p
      BY ChunkFacts
    <3>2. Len(wire.data) = wire.n + p
      BY <2>1, <3>1, <3>a
    <3> QED
      BY <3>1, <3>2
  <2>3. \/ total_len' = Len(wire.data)
        \/ total_len' = total_len
        \/ total_len' = 0
        \/ total_len' = total_len + Len(wire.data)
    BY <1>1 DEF Receive, PsiStart, PsiContinue, PesStart, PesContinue
  <2> QED
    BY <1>2, <2>2, <2>3
<1>5. clean' => Received(sent)'
  BY <1>1, <1>2, <1>3 DEF Accepted, Received
<1>6. owed' = {}
  <2>1. owed' = {u \in {unit} : clean' /\ wire.at + wire.n = size}
                \ {u \in {unit} : out' = Whole(u, size)}
    BY <1>1, <1>2
  <2>2. clean' /\ wire.at + wire.n = size => out' = Whole(unit, size)
    BY <1>3 DEF Accepted
  <2> QED
    BY <2>1, <2>2
<1>7. wire' # NoPacket => GoodWire' /\ copies' # 0
  BY <1>1, <1>2 DEF GoodWire
<1>8. (size = 0 \/ (size \in Lens /\ size >= MinLen))' /\ kind' \in Kinds
  BY <1>1, <1>2 DEF StreamInv
<1>9. Intact'
  <2>1. Whole(unit, size)' = Whole(unit, size)
    BY <1>1 DEF Whole
  <2> QED
    BY <1>1, <1>2, <1>3, <2>1 DEF Accepted, Intact
<1> QED
  BY <1>1, <1>2, <1>4, <1>5, <1>6, <1>7, <1>8, <1>9 DEF StreamInv

\* The invariant of the stream holds throughout.
LEMMA StreamInvariance == ASSUME StreamAssumptions PROVE Spec => []StreamInv
<1>1. Init => StreamInv
  <2> SUFFICES ASSUME Init PROVE StreamInv
    OBVIOUS
  <2>1. ~clean
    BY Zenon DEF Init
  <2>2. owed = {} /\ kind \in Kinds /\ unit = 0 /\ size = 0 /\ sent = 0 /\ wire = NoPacket /\ total_len = 0
    BY DEF Init, ParserInit
  <2> QED
    BY <2>1, <2>2 DEF StreamInv, Intact
<1>2. StreamInv /\ [Next]_vars => StreamInv'
  <2> SUFFICES ASSUME StreamInv, [Next]_vars PROVE StreamInv'
    OBVIOUS
  <2>1. ASSUME NEW len \in Lens, NEW n \in 1 .. K, SendStart(len, n) PROVE StreamInv'
    BY <2>1, SendStartPreserves
  <2>2. ASSUME NEW len \in Lens, NEW n \in 1 .. K, SendPacked(len, n) PROVE StreamInv'
    BY <2>2, SendPackedPreserves
  <2>3. ASSUME NEW n \in 1 .. K, SendNext(n) PROVE StreamInv'
    <3>1. size \in Lens /\ size >= MinLen
      BY <2>3 DEF SendNext, StreamInv
    <3> QED
      BY <2>3, <3>1, SendNextPreserves
  <2>4. ASSUME NEW again \in BOOLEAN, Deliver(again) PROVE StreamInv'
    BY <2>4, DeliverPreserves
  <2>5. CASE Lose
    <3>1. /\ wire' = NoPacket /\ owed' = owed /\ total_len' = total_len
          /\ unit' = unit /\ size' = size /\ sent' = sent /\ kind' = kind
      BY <2>5 DEF Lose
    <3>2. ~clean'
      BY <2>5, Zenon DEF Lose
    <3> QED
      BY <3>1, <3>2 DEF StreamInv, Intact, MinLen, Hdr
  <2>6. CASE UNCHANGED vars
    <3>1. /\ UNCHANGED <<kind, wire, owed, total_len, unit, size, sent, limit_len, buffer, copies, out>>
      BY <2>6 DEF vars, parser, link
    <3>2. clean' <=> clean
      BY <2>6 DEF vars, parser, link
    <3>3. Intact'
      BY <3>1, <3>2 DEF StreamInv, Intact, Whole
    <3> QED
      BY <3>1, <3>2, <3>3 DEF StreamInv, GoodWire, Received, MinLen, Hdr
  <2> QED
    BY <2>1, <2>2, <2>3, <2>4, <2>5, <2>6 DEF Next
<1> QED
  BY <1>1, <1>2, PTL DEF Spec

\* Over a link that loses and repeats packets, a unit whose packets arrive in
\* order and once each is handed on intact, whatever state earlier units
\* left section_preproc in.  StreamInv says what the parser has collected of
\* a unit that is arriving clean, and nothing after a loss or a repeat.
THEOREM Recovery ==
  ASSUME StreamAssumptions
  PROVE  Spec => []Resync
<1>1. StreamInv => Resync
  BY DEF StreamInv, Resync
<1> QED
  BY <1>1, StreamInvariance, PTL

\* As long as a unit arrives clean section_preproc hands on nothing but that
\* unit, byte for byte, and only once its last packet is there.
THEOREM CleanUnitsIntact ==
  ASSUME StreamAssumptions
  PROVE  Spec => []Intact
<1>1. StreamInv => Intact
  BY DEF StreamInv
<1> QED
  BY <1>1, StreamInvariance, PTL

-----------------------------------------------------------------------------
(* The buffer bound on the stream: sections fit their 12-bit length field. *)

SectionLengths == \A len \in Lens : len <= SecHdr + MaxLen

\* ParserInv's bound, with what it needs of the packet on the wire
PsiBound ==
  kind = "psi" =>
    /\ WithinBuffer
    /\ limit_len \in Nat /\ limit_len <= SecHdr + MaxLen
    /\ total_len < limit_len \/ total_len <= K
    /\ wire # NoPacket => Len(wire.data) \in 0 .. K

\* A packet put on the wire carries at most K bytes.
LEMMA PacketFits ==
  ASSUME NEW u, NEW len, NEW at \in Nat, NEW n \in Nat, NEW room \in Nat,
         n <= room, room <= K
  PROVE  Len(Packet(u, len, at, n, Fill(len, at, n, room)).data) \in 0 .. K
<1>1. Fill(len, at, n, room) \in Nat /\ n + Fill(len, at, n, room) <= room
  BY DEF Fill
<1>2. Len(Chunk(u, at, n, Fill(len, at, n, room))) = n + Fill(len, at, n, room)
  BY <1>1, ChunkFacts
<1>3. Packet(u, len, at, n, Fill(len, at, n, room)).data
        = Chunk(u, at, n, Fill(len, at, n, room))
  BY DEF Packet
<1> QED
  BY <1>1, <1>2, <1>3, HdrFacts

\* A PSI packet is appended behind less than limit_len bytes, or behind a
\* single payload.
LEMMA PsiReceiveBound ==
  ASSUME SectionLengths, StreamInv, PsiBound, kind = "psi", wire # NoPacket, Receive(wire)
  PROVE  /\ ~overrun'
         /\ limit_len' \in Nat /\ limit_len' <= SecHdr + MaxLen
         /\ total_len' < limit_len' \/ total_len' <= K
<1> DEFINE d == wire.data
<1>1. /\ Len(d) \in 0 .. K /\ Len(d) \in Nat /\ total_len \in Nat /\ limit_len \in Nat
      /\ limit_len <= SecHdr + MaxLen /\ ~overrun
      /\ total_len < limit_len \/ total_len <= K
  BY HdrFacts DEF PsiBound, WithinBuffer, StreamInv
<1>2. /\ K \in Nat /\ SecHdr \in Nat /\ MaxLen \in Nat /\ Cap \in Nat
      /\ SecHdr + MaxLen + K <= Cap /\ K <= SecHdr + MaxLen
  BY SectionConstants DEF SectionConstants
<1>3. CASE PsiStart(wire.field, d)
  <2>1. size \in Lens /\ size \in Nat /\ wire.field = size - SecHdr
    BY DEF StreamInv, GoodWire, Hdr
  <2>2. limit_len' = size /\ total_len' = Len(d)
    BY <1>2, <1>3, <2>1 DEF PsiStart
  <2>3. ~overrun'
    BY <1>1, <1>3 DEF PsiStart
  <2> QED
    BY <1>1, <2>1, <2>2, <2>3 DEF SectionLengths
<1>4. CASE PsiContinue(d)
  <2>1. CASE total_len = 0
    BY <1>1, <1>4, <2>1 DEF PsiContinue
  <2>2. CASE total_len # 0
    <3>1. overrun' = (total_len + Len(d) > Cap) /\ limit_len' = limit_len
      BY <1>4, <2>2 DEF PsiContinue
    <3>2. (total_len + Len(d) > Cap) = FALSE
      BY <1>1, <1>2
    <3>3. ~overrun'
      BY <3>1, <3>2, Zenon
    <3>4. total_len' < limit_len \/ total_len' = 0
      BY <1>1, <1>4, <2>2 DEF PsiContinue
    <3> QED
      BY <1>1, <1>2, <3>1, <3>3, <3>4
  <2> QED
    BY <2>1, <2>2
<1> QED
  BY <1>3, <1>4 DEF Receive

\* Every step of the stream keeps the bound.
LEMMA PsiBoundInductive ==
  ASSUME SectionLengths, StreamInv, PsiBound, [Next]_vars
  PROVE  PsiBound'
<1> SUFFICES ASSUME kind' = "psi" PROVE PsiBound'
  BY DEF PsiBound
<1>0. kind = "psi" /\ sent \in Nat /\ size \in Nat /\ sent <= size /\ unit \in Nat
  BY DEF Next, SendStart, SendPacked, SendNext, Deliver, Lose, vars, link, StreamInv
<1>a. PsiBound /\ (wire' # NoPacket => Len(wire'.data) \in 0 .. K)
        /\ (overrun' <=> overrun) /\ total_len' = total_len /\ limit_len' = limit_len
      => PsiBound'
  BY <1>0 DEF PsiBound, WithinBuffer
<1>1. ASSUME NEW len \in Lens, NEW n \in 1 .. K, SendStart(len, n) PROVE PsiBound'
  <2>1. /\ wire' = Packet(unit + 1, len, 0, n, Fill(len, 0, n, RoomFirst)) /\ n <= RoomFirst
        /\ overrun' = overrun /\ total_len' = total_len /\ limit_len' = limit_len
    BY <1>1 DEF SendStart
  <2>2. Len(wire'.data) \in 0 .. K
    BY <2>1, HdrFacts, PacketFits
  <2> QED
    BY <1>a, <2>1, <2>2
<1>2. ASSUME NEW len \in Lens, NEW n \in 1 .. K, SendPacked(len, n) PROVE PsiBound'
  <2> DEFINE room == RoomFirst - (size - sent)
  <2>1. /\ wire' = Packet(unit + 1, len, 0, n, Fill(len, 0, n, room))
        /\ (size - sent) + n <= RoomFirst
        /\ overrun' = overrun /\ total_len' = total_len /\ limit_len' = limit_len
    BY <1>2 DEF SendPacked
  <2>2. room \in Nat /\ n <= room /\ room <= K /\ n \in Nat
    BY <1>0, <2>1, HdrFacts
  <2> HIDE DEF room
  <2>3. Len(wire'.data) \in 0 .. K
    BY <2>1, <2>2, PacketFits
  <2> QED
    BY <1>a, <2>1, <2>3
<1>3. ASSUME NEW n \in 1 .. K, SendNext(n) PROVE PsiBound'
  <2>1. /\ wire' = Packet(unit, size, sent, n, Fill(size, sent, n, K))
        /\ overrun' = overrun /\ total_len' = total_len /\ limit_len' = limit_len
    BY <1>3 DEF SendNext
  <2>2. n \in Nat /\ n <= K /\ K \in Nat /\ K <= K
    BY HdrFacts
  <2>3. Len(wire'.data) \in 0 .. K
    BY <1>0, <2>1, <2>2, PacketFits
  <2> QED
    BY <1>a, <2>1, <2>3
<1>4. ASSUME NEW again \in BOOLEAN, Deliver(again) PROVE PsiBound'
  <2>1. wire # NoPacket /\ Receive(wire) /\ (wire' = NoPacket \/ wire' = wire)
    BY <1>4 DEF Deliver
  <2> QED
    BY <1>0, <2>1, PsiReceiveBound DEF PsiBound, WithinBuffer
<1>5. CASE Lose
  BY <1>5, <1>a DEF Lose
<1>6. CASE UNCHANGED vars
  BY <1>0, <1>6, <1>a DEF vars, parser, link, PsiBound
<1> QED
  BY <1>1, <1>2, <1>3, <1>4, <1>5, <1>6 DEF Next

\* On a PSI PID reassembly stays inside its buffer with sections cut off by
\* losses, repeated packets and stuffing behind the last byte.
THEOREM StreamWithinBuffer ==
  ASSUME StreamAssumptions, SectionLengths
  PROVE  Spec => []PsiWithinBuffer
<1>1. Init => PsiBound
  <2> SUFFICES ASSUME Init PROVE PsiBound
    OBVIOUS
  <2>1. limit_len = 0 /\ total_len = 0 /\ wire = NoPacket
    BY DEF Init, ParserInit
  <2>2. ~overrun
    BY Zenon DEF Init, ParserInit
  <2> QED
    BY <2>1, <2>2, SectionConstants DEF PsiBound, WithinBuffer, SectionConstants
<1>2. StreamInv /\ PsiBound /\ [Next]_vars => PsiBound'
  BY PsiBoundInductive
<1>3. PsiBound => PsiWithinBuffer
  BY DEF PsiBound, PsiWithinBuffer
<1> QED
  BY <1>1, <1>2, <1>3, StreamInvariance, PTL DEF Spec

-----------------------------------------------------------------------------
(* PES packets.  RoutedInv strengthens Routed: every PID with a filter has the
   entry that pid_index gives for it, a PID without its bit has index 0, and
   the entry of the packet being parsed stays that of its PID. *)

Callbacks == {"parse_subtitle", "parse_teletext"}
PesEntry == [pid : Pids, type : Nat, cb : Callbacks \cup {NONE}, priv : Tags \cup {NONE},
             rest : SUBSET {"map", "preiod"}]

(* What Routed says of entry e in place i *)
GoodEntry(e, i, bits, index, fail, ann) ==
  /\ e.pid \in bits /\ index[e.pid] = i - 1
  /\ e.cb = NONE => e.priv = NONE
  /\ e.cb # NONE => \E t \in Tags : /\ e.cb = Parser[t]
                                    /\ e.priv = t \/ (fail /\ e.priv = NONE)
                                    /\ <<e.pid, t>> \in ann \/ (fail /\ i = 1)

(* The entry that pid_index gives for PID p is the one of p. *)
LeadsTo(l, index, p) == index[p] + 1 \in DOMAIN l /\ l[index[p] + 1].pid = p

PesTypes ==
  /\ list \in Seq(PesEntry) /\ pid_index \in [Pids -> Nat] /\ bitmap \subseteq Pids
  /\ filters \subseteq bitmap /\ failed \in BOOLEAN
  /\ "pc" \in DOMAIN run
  /\ run.pc \in {"data", "segment", "unit"} => "pid" \in DOMAIN run /\ "entry" \in DOMAIN run
PesEntries == \A i \in DOMAIN list : GoodEntry(list[i], i, bitmap, pid_index, failed, announced)
PesIndex ==
  /\ \A p \in filters : LeadsTo(list, pid_index, p)
  /\ run.pc # "off" =>
       \A p \in bitmap : LeadsTo(list, pid_index, p) \/ (failed /\ pid_index[p] = 0)
PesRun ==
  run.pc \in {"data", "segment", "unit"} =>
    run.entry \in DOMAIN list /\ list[run.entry].pid = run.pid
PesUnset == \A p \in Pids \ bitmap : pid_index[p] = 0
RoutedInv == PesUnset /\ PesTypes /\ PesEntries /\ PesIndex /\ PesRun

(* The fields that say whose an entry is stay. *)
SameEntries(l, m) ==
  /\ DOMAIN m = DOMAIN l
  /\ \A i \in DOMAIN l : m[i].pid = l[i].pid /\ m[i].cb = l[i].cb /\ m[i].priv = l[i].priv

(* A step that changes no entry's owner, callback or private data keeps
   what is known of the entries and of the index. *)
LEMMA SamePesEntries ==
  ASSUME PesEntries, PesIndex, SameEntries(list, list'),
         UNCHANGED <<bitmap, pid_index, filters, failed, announced>>, run.pc # "off"
  PROVE  PesEntries' /\ PesIndex'
<1>1. PesEntries'
  BY DEF PesEntries, SameEntries, GoodEntry
<1>2. PesIndex'
  BY DEF PesIndex, SameEntries, LeadsTo
<1> QED
  BY <1>1, <1>2

(* What free_subtitles leaves of a segment *)
LEMMA LeftOfSegment ==
  ASSUME NEW s
  PROVE  Allocated(s) \ free_subtitles(s) \subseteq {"map", "preiod"}
<1>1. CASE s.type = "pcs"
  BY <1>1 DEF Allocated, free_subtitles
<1>2. CASE s.type = "rcs"
  BY <1>2 DEF Allocated, free_subtitles
<1>3. CASE s.type \in {"cds", "acs"}
  BY <1>3 DEF Allocated, free_subtitles
<1>4. CASE s.type = "chars"
  BY <1>4 DEF Allocated, free_subtitles
<1>5. CASE s.type = "progressive"
  BY <1>5 DEF Allocated, free_subtitles
<1>6. CASE s.type = "ods"
  BY <1>6 DEF Allocated, free_subtitles
<1>7. CASE s.type = "dss"
  BY <1>7 DEF Allocated, free_subtitles
<1>8. CASE s.type \notin {"pcs", "rcs", "cds", "acs", "chars", "progressive", "ods", "dss"}
  BY <1>8 DEF Allocated, free_subtitles
<1> QED
  BY <1>1, <1>2, <1>3, <1>4, <1>5, <1>6, <1>7, <1>8

(* What the segments leave behind may change without changing whose the
   entry is. *)
LEMMA RestOfEntry ==
  ASSUME NEW l \in Seq(PesEntry), NEW n \in DOMAIN l, NEW r \in SUBSET {"map", "preiod"}
  PROVE  LET m == [l EXCEPT ![n].rest = r]
         IN m \in Seq(PesEntry) /\ SameEntries(l, m)
<1> DEFINE e == [l[n] EXCEPT !.rest = r]
           m == [l EXCEPT ![n] = e]
<1>1. l[n] \in PesEntry
  OBVIOUS
<1>2. e \in PesEntry /\ e.pid = l[n].pid /\ e.cb = l[n].cb /\ e.priv = l[n].priv
  BY <1>1 DEF PesEntry
<1> HIDE DEF e
<1>3. m \in Seq(PesEntry)
  BY <1>2
<1>4. SameEntries(l, m)
  BY <1>2 DEF SameEntries
<1>5. [l EXCEPT ![n].rest = r] = m
  BY DEF e
<1> QED
  BY <1>3, <1>4, <1>5

(* What holds of an entry holds when more is set, announced or has failed. *)
LEMMA GoodEntryMonotone ==
  ASSUME NEW e \in PesEntry, NEW i, NEW bits, NEW more, bits \subseteq more, NEW index, NEW jndex,
         e.pid \in bits => jndex[e.pid] = index[e.pid],
         NEW f, NEW g, f => g, NEW ann, NEW bnn, ann \subseteq bnn,
         GoodEntry(e, i, bits, index, f, ann)
  PROVE  GoodEntry(e, i, more, jndex, g, bnn)
<1>1. e.pid \in more /\ jndex[e.pid] = i - 1 /\ (e.cb = NONE => e.priv = NONE)
  BY DEF GoodEntry
<1>2. ASSUME e.cb # NONE
      PROVE  \E t \in Tags : /\ e.cb = Parser[t]
                             /\ e.priv = t \/ (g /\ e.priv = NONE)
                             /\ <<e.pid, t>> \in bnn \/ (g /\ i = 1)
  BY <1>2 DEF GoodEntry
<1> QED
  BY <1>1, <1>2, Zenon DEF GoodEntry

(* The list with the entry of a new PID, and pid_index with it *)
LEMMA GrownList ==
  ASSUME RoutedInv, run.pc = "idle", NEW pid \in Pids, NEW type \in Nat, pid \notin bitmap,
         NEW bnn, announced \subseteq bnn, NEW g, failed => g
  PROVE  LET l == register_pes_ops(list, pid, type)
             index == [pid_index EXCEPT ![pid] = Len(list)]
         IN /\ l \in Seq(PesEntry) /\ index \in [Pids -> Nat]
            /\ \A i \in DOMAIN l : GoodEntry(l[i], i, bitmap \cup {pid}, index, g, bnn)
            /\ \A p \in filters \cup {pid} : LeadsTo(l, index, p)
            /\ \A p \in bitmap \cup {pid} : LeadsTo(l, index, p) \/ (g /\ index[p] = 0)
<1> DEFINE e == Entry(pid, type)
           l == Append(list, e)
           index == [pid_index EXCEPT ![pid] = Len(list)]
           n == Len(list)
<1>1. /\ list \in Seq(PesEntry) /\ pid_index \in [Pids -> Nat] /\ bitmap \subseteq Pids
      /\ filters \subseteq bitmap
  BY DEF RoutedInv, PesTypes
<1>2. e \in PesEntry /\ e.pid = pid /\ e.cb = NONE /\ e.priv = NONE
  BY DEF Entry, PesEntry, NONE, Tags, Callbacks
<1> HIDE DEF e
<1>3. /\ l \in Seq(PesEntry) /\ n \in Nat /\ DOMAIN l = 1..(n + 1) /\ l[n + 1] = e
      /\ \A i \in 1..n : l[i] = list[i] /\ list[i] \in PesEntry
      /\ DOMAIN list = 1..n
  BY <1>1, <1>2
<1>4. /\ index \in [Pids -> Nat] /\ index[pid] = n /\ \A p \in bitmap : index[p] = pid_index[p]
  BY <1>1, <1>3
<1> HIDE DEF l, index, n
<1>5. ASSUME NEW i \in DOMAIN l PROVE GoodEntry(l[i], i, bitmap \cup {pid}, index, g, bnn)
  <2>1. CASE i = n + 1
    <3>1. (n + 1) - 1 = n
      BY <1>3
    <3> QED
      BY <1>2, <1>3, <1>4, <2>1, <3>1, Zenon DEF GoodEntry
  <2>2. CASE i # n + 1
    <3>1. i \in 1..n
      BY <1>3, <2>2
    <3>2. GoodEntry(list[i], i, bitmap, pid_index, failed, announced)
      BY <1>3, <3>1 DEF RoutedInv, PesEntries
    <3>3. list[i] \in PesEntry /\ l[i] = list[i]
      BY <1>3, <3>1
    <3>4. list[i].pid \in bitmap => index[list[i].pid] = pid_index[list[i].pid]
      BY <1>4
    <3>5. GoodEntry(list[i], i, bitmap \cup {pid}, index, g, bnn)
      BY <3>2, <3>3, <3>4, GoodEntryMonotone
    <3> QED
      BY <3>3, <3>5
  <2> QED
    BY <2>1, <2>2
<1>6. LeadsTo(l, index, pid)
  BY <1>2, <1>3, <1>4 DEF LeadsTo
<1>7. ASSUME NEW p \in bitmap, LeadsTo(list, pid_index, p) PROVE LeadsTo(l, index, p)
  <2>1. pid_index[p] + 1 \in 1..n /\ list[pid_index[p] + 1].pid = p
    BY <1>3, <1>7 DEF LeadsTo
  <2>2. index[p] + 1 \in 1..(n + 1) /\ index[p] = pid_index[p] /\ l[index[p] + 1] = list[pid_index[p] + 1]
    BY <1>3, <1>4, <2>1
  <2> QED
    BY <1>3, <2>1, <2>2 DEF LeadsTo
<1>8. \A p \in filters \cup {pid} : LeadsTo(l, index, p)
  <2>1. \A p \in filters : LeadsTo(list, pid_index, p)
    BY DEF RoutedInv, PesIndex
  <2> QED
    BY <1>1, <1>6, <1>7, <2>1
<1>9. \A p \in bitmap \cup {pid} : LeadsTo(l, index, p) \/ (g /\ index[p] = 0)
  <2>1. \A p \in bitmap : LeadsTo(list, pid_index, p) \/ (failed /\ pid_index[p] = 0)
    BY DEF RoutedInv, PesIndex
  <2> QED
    BY <1>4, <1>6, <1>7, <2>1
<1>10. register_pes_ops(list, pid, type) = l
  BY DEF register_pes_ops, l, e
<1> QED
  BY <1>3, <1>4, <1>5, <1>8, <1>9, <1>10, Zenon DEF index, n

(* A list of which all that holds *)
GoodList(l, index, bits, fail, ann) ==
  l \in Seq(PesEntry) /\ \A i \in DOMAIN l : GoodEntry(l[i], i, bits, index, fail, ann)

(* The callback goes to the entry of its PID, or to the first one when an
   allocation has failed. *)
CallbackStep(m, l, index, pid, type, tag, ok, bits, g, bnn) ==
  /\ index \in [Pids -> Nat] /\ pid \in Pids /\ tag \in Tags
  /\ GoodList(l, index, bits, g, bnn)
  /\ LeadsTo(l, index, pid) \/ (g /\ index[pid] = 0)
  /\ <<pid, tag>> \in bnn /\ (ok \/ g)
  /\ m = register_pes_data_callback(l, index[pid], type, tag, ok)

(* Setting the callback of an entry that has none keeps the entries good. *)
LEMMA CallbackSet ==
  ASSUME NEW m, NEW l, NEW index, NEW pid, NEW type, NEW tag, NEW ok, NEW bits, NEW g, NEW bnn,
         CallbackStep(m, l, index, pid, type, tag, ok, bits, g, bnn)
  PROVE  /\ GoodList(m, index, bits, g, bnn)
         /\ DOMAIN m = DOMAIN l /\ \A i \in DOMAIN l : m[i].pid = l[i].pid
<1> USE DEF CallbackStep
<1> DEFINE n == index[pid]
<1>0. /\ l \in Seq(PesEntry) /\ \A i \in DOMAIN l : GoodEntry(l[i], i, bits, index, g, bnn)
      /\ n \in Nat /\ Len(l) \in Nat /\ DOMAIN l = 1..Len(l)
  BY DEF GoodList
<1> HIDE DEF n
<1>1. CASE n >= Len(l) \/ l[n + 1].type # type \/ l[n + 1].cb # NONE
  <2>1. m = l
    BY <1>1 DEF register_pes_data_callback, n
  <2> QED
    BY <2>1
<1>2. CASE ~(n >= Len(l) \/ l[n + 1].type # type \/ l[n + 1].cb # NONE)
  <2>1. n + 1 \in DOMAIN l /\ l[n + 1].cb = NONE /\ l[n + 1] \in PesEntry
    BY <1>0, <1>2
  <2> DEFINE x == l[n + 1]
             e == [x EXCEPT !.cb = Parser[tag], !.priv = IF x.priv = NONE /\ ok THEN tag ELSE x.priv]
  <2>2. m = [l EXCEPT ![n + 1].cb = Parser[tag],
                      ![n + 1].priv = IF @ = NONE /\ ok THEN tag ELSE @]
    BY <1>2, Zenon DEF register_pes_data_callback, n
  <2>3. GoodEntry(x, n + 1, bits, index, g, bnn)
    BY <1>0, <2>1
  <2>4. x.priv = NONE
    BY <2>1, <2>3 DEF GoodEntry
  <2>5. Parser[tag] \in Callbacks /\ Parser[tag] # NONE /\ tag # NONE
    BY DEF Parser, Tags, Callbacks, NONE
  <2>6. /\ e \in PesEntry /\ e.pid = x.pid /\ e.cb = Parser[tag]
        /\ e.priv = IF ok THEN tag ELSE NONE
    <3> DEFINE pr == IF x.priv = NONE /\ ok THEN tag ELSE x.priv
    <3>1. pr = (IF ok THEN tag ELSE NONE) /\ pr \in Tags \cup {NONE}
      BY <2>4
    <3> HIDE DEF pr
    <3>2. /\ [x EXCEPT !.cb = Parser[tag], !.priv = pr] \in PesEntry
          /\ [x EXCEPT !.cb = Parser[tag], !.priv = pr].pid = x.pid
          /\ [x EXCEPT !.cb = Parser[tag], !.priv = pr].cb = Parser[tag]
          /\ [x EXCEPT !.cb = Parser[tag], !.priv = pr].priv = pr
      BY <2>1, <2>5, <3>1 DEF PesEntry
    <3> QED
      BY <3>1, <3>2, Zenon DEF pr
  <2>7. m = [l EXCEPT ![n + 1] = e]
    BY <1>0, <2>1, <2>2
  <2>8. GoodEntry(e, n + 1, bits, index, g, bnn)
    <3>1. x.pid \in bits /\ index[x.pid] = (n + 1) - 1
      BY <2>3 DEF GoodEntry
    <3>2. e.cb # NONE
      BY <2>5, <2>6
    <3>3. e.priv = tag \/ (g /\ e.priv = NONE)
      BY <2>6
    <3>4. <<e.pid, tag>> \in bnn \/ (g /\ n + 1 = 1)
      <4>1. CASE LeadsTo(l, index, pid)
        BY <2>6, <4>1 DEF LeadsTo, n
      <4>2. CASE g /\ index[pid] = 0
        BY <4>2 DEF n
      <4> QED
        BY <4>1, <4>2
    <3> HIDE DEF e, x
    <3> QED
      BY <2>6, <3>1, <3>2, <3>3, <3>4, Zenon DEF GoodEntry
  <2> HIDE DEF e
  <2>9. m \in Seq(PesEntry) /\ DOMAIN m = DOMAIN l
    BY <1>0, <2>1, <2>6, <2>7
  <2>10. m[n + 1] = e /\ \A i \in DOMAIN l : i # n + 1 => m[i] = l[i]
    BY <1>0, <2>1, <2>7
  <2>11. \A i \in DOMAIN l : m[i].pid = l[i].pid
    BY <2>6, <2>10
  <2>12. \A i \in DOMAIN m : GoodEntry(m[i], i, bits, index, g, bnn)
    BY <1>0, <2>8, <2>9, <2>10
  <2> QED
    BY <2>9, <2>11, <2>12 DEF GoodList
<1> QED
  BY <1>1, <1>2

(* Registering a stream keeps the entries and the index routed, whether or
   not an allocation fails. *)
LEMMA RegisterRouted ==
  ASSUME RoutedInv, NEW s \in Streams, NEW okList \in BOOLEAN, NEW okPriv \in BOOLEAN,
         Register(s[1], s[2], s[3], okList, okPriv)
  PROVE  RoutedInv'
<1> DEFINE pid == s[1]
           type == s[2]
           tag == s[3]
           isnew == pid \notin bitmap
           grown == IF isnew /\ okList THEN register_pes_ops(list, pid, type) ELSE list
           index == IF isnew /\ okList THEN [pid_index EXCEPT ![pid] = Len(list)] ELSE pid_index
<1>1. pid \in Pids /\ type \in Nat /\ tag \in Tags \cup {NONE}
  BY StreamsAssumption
<1> HIDE DEF pid, type, tag
<1>2. /\ run.pc = "idle" /\ run' = run
      /\ failed' = (failed \/ ~(okList /\ okPriv))
      /\ bitmap' = bitmap \cup {pid} /\ pid_index' = index
      /\ list' = IF tag = NONE THEN grown
                 ELSE register_pes_data_callback(grown, index[pid], type, tag, okPriv)
      /\ filters' = IF isnew /\ okList THEN filters \cup {pid} ELSE filters
      /\ announced' = IF tag = NONE THEN announced ELSE announced \cup {<<pid, tag>>}
  BY Zenon DEF Register, pid, type, tag
<1>3. /\ list \in Seq(PesEntry) /\ pid_index \in [Pids -> Nat] /\ bitmap \subseteq Pids
      /\ filters \subseteq bitmap /\ failed \in BOOLEAN /\ "pc" \in DOMAIN run
  BY DEF RoutedInv, PesTypes
<1>4. (failed => failed') /\ failed' \in BOOLEAN /\ announced \subseteq announced'
  BY <1>2, Zenon
<1>5. /\ grown \in Seq(PesEntry) /\ index \in [Pids -> Nat]
      /\ \A i \in DOMAIN grown : GoodEntry(grown[i], i, bitmap', index, failed', announced')
      /\ \A p \in filters' : LeadsTo(grown, index, p)
      /\ \A p \in bitmap' : LeadsTo(grown, index, p) \/ (failed' /\ index[p] = 0)
  <2>1. CASE isnew /\ okList
    <3>1. /\ grown = register_pes_ops(list, pid, type)
          /\ index = [pid_index EXCEPT ![pid] = Len(list)]
          /\ filters' = filters \cup {pid}
      BY <1>2, <2>1, Zenon
    <3> HIDE DEF grown, index
    <3> QED
      BY <1>1, <1>2, <1>4, <2>1, <3>1, GrownList
  <2>2. CASE ~(isnew /\ okList)
    <3>1. grown = list /\ index = pid_index /\ filters' = filters
      BY <1>2, <2>2, Zenon
    <3> HIDE DEF grown, index
    <3>2. ASSUME NEW i \in DOMAIN list
          PROVE  GoodEntry(list[i], i, bitmap', pid_index, failed', announced')
      <4>1. GoodEntry(list[i], i, bitmap, pid_index, failed, announced) /\ list[i] \in PesEntry
        BY <1>3 DEF RoutedInv, PesEntries
      <4>2. bitmap \subseteq bitmap'
        BY <1>2
      <4> QED
        BY <1>4, <4>1, <4>2, GoodEntryMonotone
    <3>3. \A p \in filters : LeadsTo(list, pid_index, p)
      BY DEF RoutedInv, PesIndex
    <3>4. \A p \in bitmap : LeadsTo(list, pid_index, p) \/ (failed /\ pid_index[p] = 0)
      BY <1>2 DEF RoutedInv, PesIndex
    <3>5. ASSUME NEW p \in bitmap' PROVE LeadsTo(list, pid_index, p) \/ (failed' /\ pid_index[p] = 0)
      <4>1. CASE p \in bitmap
        BY <1>4, <3>4, <4>1
      <4>2. CASE p \notin bitmap
        <5>1. p = pid /\ isnew
          BY <1>2, <4>2
        <5>2. failed'
          BY <1>2, <2>2, <5>1
        <5>3. pid_index[p] = 0
          BY <4>2, <5>1, <1>1, <1>3 DEF RoutedInv, PesUnset
        <5> QED
          BY <5>2, <5>3
      <4> QED
        BY <4>1, <4>2
    <3> QED
      BY <1>3, <3>1, <3>2, <3>3, <3>5
  <2> QED
    BY <2>1, <2>2
<1> HIDE DEF grown, index, isnew
<1>6. /\ list' \in Seq(PesEntry) /\ DOMAIN list' = DOMAIN grown
      /\ \A i \in DOMAIN grown : list'[i].pid = grown[i].pid
      /\ \A i \in DOMAIN list' : GoodEntry(list'[i], i, bitmap', index, failed', announced')
  <2>1. CASE tag = NONE
    BY <1>2, <1>5, <2>1
  <2>2. CASE tag # NONE
    <3>1. tag \in Tags /\ <<pid, tag>> \in announced' /\ pid \in bitmap'
      BY <1>1, <1>2, <2>2
    <3>2. ~okPriv => failed'
      BY <1>2, Zenon
    <3>3. LeadsTo(grown, index, pid) \/ (failed' /\ index[pid] = 0)
      BY <1>5, <3>1
    <3>4. list' = register_pes_data_callback(grown, index[pid], type, tag, okPriv)
      BY <1>2, <2>2, Zenon
    <3>5. GoodList(grown, index, bitmap', failed', announced')
      BY <1>5 DEF GoodList
    <3>6. /\ GoodList(list', index, bitmap', failed', announced')
          /\ DOMAIN list' = DOMAIN grown /\ \A i \in DOMAIN grown : list'[i].pid = grown[i].pid
      <4>1. CallbackStep(list', grown, index, pid, type, tag, okPriv, bitmap', failed', announced')
        BY <1>1, <1>5, <3>1, <3>2, <3>3, <3>4, <3>5 DEF CallbackStep
      <4> QED
        BY <4>1, CallbackSet
    <3> QED
      BY <3>6 DEF GoodList
  <2> QED
    BY <2>1, <2>2
<1>7. \A p \in Pids : LeadsTo(grown, index, p) => LeadsTo(list', index, p)
  BY <1>6 DEF LeadsTo
<1>8. PesTypes'
  BY <1>1, <1>2, <1>3, <1>4, <1>5, <1>6 DEF PesTypes
<1>9. PesEntries'
  BY <1>2, <1>6, Zenon DEF PesEntries
<1>10. PesIndex'
  <2>1. filters' \subseteq Pids /\ bitmap' \subseteq Pids
    BY <1>1, <1>2, <1>3
  <2> QED
    BY <1>2, <1>5, <1>7, <2>1 DEF PesIndex
<1>11. PesRun'
  BY <1>2 DEF PesRun
<1>12. PesUnset'
  <2> SUFFICES ASSUME NEW p \in Pids, p \notin bitmap, p # pid PROVE index[p] = 0
    BY <1>2 DEF PesUnset
  <2>1. pid_index[p] = 0
    BY DEF RoutedInv, PesUnset
  <2> QED
    BY <1>3, <2>1 DEF index
<1> QED
  BY <1>8, <1>9, <1>10, <1>11, <1>12 DEF RoutedInv

LeakInv == leaked \subseteq {"map", "preiod"}

(* A step that leaves the registration, and gives the packet of run to no
   other entry *)
LEMMA RunStep ==
  ASSUME RoutedInv, run.pc # "off", run'.pc # "off", list' \in Seq(PesEntry), SameEntries(list, list'),
         UNCHANGED <<bitmap, pid_index, filters, failed, announced>>,
         "pc" \in DOMAIN run',
         run'.pc \in {"data", "segment", "unit"} =>
           /\ "pid" \in DOMAIN run' /\ "entry" \in DOMAIN run'
           /\ run.pc \in {"data", "segment", "unit"} /\ run'.pid = run.pid /\ run'.entry = run.entry
  PROVE  RoutedInv'
<1>1. PesEntries' /\ PesIndex'
  BY SamePesEntries DEF RoutedInv
<1>2. PesTypes'
  BY DEF RoutedInv, PesTypes
<1>3. PesRun'
  BY DEF RoutedInv, PesRun, SameEntries
<1>4. PesUnset'
  BY DEF RoutedInv, PesUnset
<1> QED
  BY <1>1, <1>2, <1>3, <1>4 DEF RoutedInv

(* What an entry keeps of its segments is map tables and periods. *)
LEMMA RestFact ==
  ASSUME NEW e \in PesEntry
  PROVE  e.rest \subseteq {"map", "preiod"}
  BY DEF PesEntry

(* Every step keeps the routing and leaks only map tables and periods. *)
LEMMA RoutedInductive ==
  ASSUME RoutedInv, LeakInv, [PesNext]_pes_vars
  PROVE  RoutedInv' /\ LeakInv'
<1>1. /\ list \in Seq(PesEntry) /\ pid_index \in [Pids -> Nat] /\ bitmap \subseteq Pids
      /\ filters \subseteq bitmap /\ "pc" \in DOMAIN run
      /\ run.pc \in {"data", "segment", "unit"} =>
           "pid" \in DOMAIN run /\ "entry" \in DOMAIN run /\ run.entry \in DOMAIN list
  BY DEF RoutedInv, PesTypes, PesRun
<1>2. SameEntries(list, list)
  BY DEF SameEntries
<1>3. ASSUME NEW s \in Streams, NEW okl \in BOOLEAN, NEW okp \in BOOLEAN,
             Register(s[1], s[2], s[3], okl, okp)
      PROVE  RoutedInv' /\ LeakInv'
  <2>1. leaked' = leaked
    BY <1>3 DEF Register
  <2> QED
    BY <1>3, <2>1, RegisterRouted DEF LeakInv
<1>4. ASSUME NEW pid \in Pids, NEW h, NEW d, parse_pes_packet(pid, h, d)
      PROVE  RoutedInv' /\ LeakInv'
  <2>1. /\ pid \in filters /\ run.pc = "idle" /\ leaked' = leaked /\ list' = list
        /\ UNCHANGED <<bitmap, pid_index, filters, failed, announced>>
        /\ "pc" \in DOMAIN run' /\ run'.pc \in {"idle", "data"}
        /\ run'.pc = "data" => /\ "pid" \in DOMAIN run' /\ "entry" \in DOMAIN run'
                               /\ run'.pid = pid /\ run'.entry = pid_index[pid] + 1
    BY <1>4 DEF parse_pes_packet, Idle
  <2>2. LeadsTo(list, pid_index, pid)
    BY <2>1 DEF RoutedInv, PesIndex
  <2>3. PesRun'
    BY <2>1, <2>2 DEF PesRun, LeadsTo
  <2>4. PesEntries' /\ PesIndex'
    BY <1>2, <2>1, SamePesEntries DEF RoutedInv
  <2>5. PesTypes' /\ PesUnset'
    BY <2>1 DEF RoutedInv, PesTypes, PesUnset
  <2> QED
    BY <2>1, <2>3, <2>4, <2>5 DEF RoutedInv, LeakInv
<1>5. CASE NoCallback \/ PacketDone
  <2>1. /\ run.pc # "off" /\ run' = Idle /\ list' = list /\ leaked' = leaked
        /\ UNCHANGED <<bitmap, pid_index, filters, failed, announced>>
    BY <1>5 DEF NoCallback, PacketDone, Quiet
  <2>2. run'.pc = "idle" /\ "pc" \in DOMAIN run'
    BY <2>1 DEF Idle
  <2> QED
    BY <1>1, <1>2, <2>1, <2>2, RunStep DEF LeakInv
<1>6. CASE NullPrivate \/ subtitle_end \/ teletext_end
  <2>1. /\ run.pc # "off" /\ list' = list /\ leaked' = leaked
        /\ UNCHANGED <<bitmap, pid_index, filters, failed, announced>>
        /\ \E x \in {"fault", "done", "overrun"} : run' = [run EXCEPT !.pc = x]
    BY <1>6 DEF NullPrivate, subtitle_end, teletext_end, Quiet
  <2>2. run'.pc \in {"fault", "done", "overrun"} /\ "pc" \in DOMAIN run'
    BY <1>1, <2>1
  <2> QED
    BY <1>1, <1>2, <2>1, <2>2, RunStep DEF LeakInv
<1>7. CASE subtitle_begin
  <2>1. /\ run.pc = "data" /\ list' = [list EXCEPT ![run.entry].rest = {}]
        /\ leaked' = leaked \cup list[run.entry].rest
        /\ run' = IF run.data.kind # "sub" THEN Idle
                  ELSE [pc |-> "segment", pid |-> run.pid, entry |-> run.entry, data |-> run.data,
                        i |-> 1, seg_len |-> run.plen - 2]
        /\ UNCHANGED <<bitmap, pid_index, filters, failed, announced>>
    BY <1>7, Zenon DEF subtitle_begin, Quiet, Cur
  <2>2. list' \in Seq(PesEntry) /\ SameEntries(list, list')
    BY <1>1, <2>1, RestOfEntry
  <2>3. /\ "pc" \in DOMAIN run' /\ run'.pc \in {"idle", "segment"}
        /\ run'.pc = "segment" => /\ "pid" \in DOMAIN run' /\ "entry" \in DOMAIN run'
                                  /\ run'.pid = run.pid /\ run'.entry = run.entry
    BY <2>1 DEF Idle
  <2>4. list[run.entry].rest \subseteq {"map", "preiod"}
    BY <1>1, <2>1, RestFact
  <2>5. RoutedInv'
    BY <2>1, <2>2, <2>3, RunStep
  <2> QED
    BY <2>1, <2>4, <2>5 DEF LeakInv
<1>8. CASE parse_subtitle_segment
  <2>1. /\ run.pc = "segment" /\ leaked' = leaked
        /\ UNCHANGED <<bitmap, pid_index, filters, failed, announced>>
    BY <1>8 DEF parse_subtitle_segment, Quiet
  <2>2. CASE \E x \in {"endless", "overrun", "abort"} : run' = [run EXCEPT !.pc = x] /\ list' = list
    <3>1. run'.pc \in {"endless", "overrun", "abort"} /\ "pc" \in DOMAIN run' /\ list' = list
      BY <1>1, <2>2
    <3> QED
      BY <1>1, <1>2, <2>1, <3>1, RunStep DEF LeakInv
  <2>3. ASSUME NEW n, run' = [run EXCEPT !.i = @ + 1, !.seg_len = @ - 6 - n], NEW s,
               list' = [list EXCEPT ![run.entry].rest = @ \cup (Allocated(s) \ free_subtitles(s))]
        PROVE  RoutedInv' /\ LeakInv'
    <3>1. /\ "pc" \in DOMAIN run' /\ run'.pc = "segment" /\ run'.pid = run.pid
          /\ run'.entry = run.entry /\ "pid" \in DOMAIN run' /\ "entry" \in DOMAIN run'
      BY <1>1, <2>1, <2>3
    <3> DEFINE r == list[run.entry].rest \cup (Allocated(s) \ free_subtitles(s))
    <3>2. r \in SUBSET {"map", "preiod"}
      <4>1. list[run.entry].rest \subseteq {"map", "preiod"}
        BY <1>1, <2>1, RestFact
      <4>2. Allocated(s) \ free_subtitles(s) \subseteq {"map", "preiod"}
        BY LeftOfSegment
      <4> QED
        BY <4>1, <4>2
    <3>3. list' = [list EXCEPT ![run.entry].rest = r]
      BY <2>3
    <3> HIDE DEF r
    <3>4. list' \in Seq(PesEntry) /\ SameEntries(list, list')
      BY <1>1, <2>1, <3>2, <3>3, RestOfEntry
    <3>5. RoutedInv'
      BY <2>1, <3>1, <3>4, RunStep
    <3> QED
      BY <2>1, <3>5 DEF LeakInv
  <2> QED
    BY <1>8, <2>2, <2>3, Zenon DEF parse_subtitle_segment
<1>9. CASE teletext_begin
  <2>1. /\ run.pc = "data" /\ list' = list /\ leaked' = leaked
        /\ UNCHANGED <<bitmap, pid_index, filters, failed, announced>>
        /\ run' = IF run.data.kind # "text"
                  THEN [run EXCEPT !.pc = IF run.plen > 1 THEN "abort" ELSE "done"]
                  ELSE [pc |-> "unit", pid |-> run.pid, entry |-> run.entry, data |-> run.data,
                        i |-> 0, plen |-> run.plen, room |-> n_units(run.plen),
                        mag |-> <<{}, {}>>, out |-> FALSE]
    BY <1>9, Zenon DEF teletext_begin, Quiet
  <2>2. /\ "pc" \in DOMAIN run' /\ run'.pc \in {"abort", "done", "unit"}
        /\ run'.pc = "unit" => /\ "pid" \in DOMAIN run' /\ "entry" \in DOMAIN run'
                               /\ run'.pid = run.pid /\ run'.entry = run.entry
    <3>1. CASE run.data.kind # "text"
      <4>1. \E x \in {"abort", "done"} : run' = [run EXCEPT !.pc = x]
        BY <2>1, <3>1, Zenon
      <4> QED
        BY <1>1, <4>1
    <3>2. CASE run.data.kind = "text"
      BY <2>1, <3>2
    <3> QED
      BY <3>1, <3>2
  <2> QED
    BY <1>1, <1>2, <2>1, <2>2, RunStep DEF LeakInv
<1>10. CASE teletext_unit
  <2>1. /\ run.pc = "unit" /\ list' = list /\ leaked' = leaked
        /\ UNCHANGED <<bitmap, pid_index, filters, failed, announced>>
    BY <1>10 DEF teletext_unit, Quiet
  <2>2. CASE \E x \in {"overrun", "abort"} : run' = [run EXCEPT !.pc = x]
    <3>1. run'.pc \in {"overrun", "abort"} /\ "pc" \in DOMAIN run'
      BY <1>1, <2>2
    <3> QED
      BY <1>1, <1>2, <2>1, <3>1, RunStep DEF LeakInv
  <2>3. ASSUME NEW mag, NEW x, run' = [run EXCEPT !.i = @ + 1, !.mag = mag, !.out = x]
        PROVE  RoutedInv' /\ LeakInv'
    <3>1. /\ "pc" \in DOMAIN run' /\ run'.pc = "unit" /\ run'.pid = run.pid
          /\ run'.entry = run.entry /\ "pid" \in DOMAIN run' /\ "entry" \in DOMAIN run'
      BY <1>1, <2>1, <2>3
    <3> QED
      BY <1>1, <1>2, <2>1, <3>1, RunStep DEF LeakInv
  <2>4. ASSUME NEW unit_, NEW mag, NEW pkt, parse_teletext_data(unit_, mag, pkt)
        PROVE  RoutedInv' /\ LeakInv'
    BY <2>3, <2>4, Zenon DEF parse_teletext_data
  <2> QED
    BY <1>10, <2>2, <2>4, Zenon DEF teletext_unit
<1>11. CASE Dead \/ Off \/ UNCHANGED pes_vars
  <2>1. UNCHANGED pes_vars
    BY <1>11 DEF Dead, Off
  <2> QED
    BY <2>1 DEF pes_vars, RoutedInv, LeakInv, PesTypes, PesEntries, PesIndex, PesRun, PesUnset
<1>12. CASE unregister_pes_ops
  <2>1. /\ run.pc = "idle" /\ list' = <<>> /\ run' = [pc |-> "off"]
        /\ leaked' = leaked \cup UNION {free_pes_private(list[i]) : i \in DOMAIN list}
        /\ filters' = {p \in filters : \A i \in DOMAIN list : list[i].pid # p}
        /\ UNCHANGED <<bitmap, pid_index, failed, announced>>
    BY <1>12 DEF unregister_pes_ops
  <2>2. filters' = {}
    <3>1. \A p \in filters : \E i \in DOMAIN list : list[i].pid = p
      BY DEF RoutedInv, PesIndex, LeadsTo
    <3> QED
      BY <2>1, <3>1
  <2>3. ASSUME NEW i \in DOMAIN list PROVE free_pes_private(list[i]) \subseteq {"map", "preiod"}
    <3>1. list[i].rest \subseteq {"map", "preiod"}
      BY <1>1, RestFact
    <3>2. list[i].cb = NONE => list[i].priv = NONE
      BY DEF RoutedInv, PesEntries, GoodEntry
    <3> QED
      BY <3>1, <3>2 DEF free_pes_private
  <2>4. LeakInv'
    BY <2>1, <2>3 DEF LeakInv
  <2>5. run'.pc = "off" /\ "pc" \in DOMAIN run' /\ list' \in Seq(PesEntry) /\ DOMAIN list' = {}
    BY <2>1
  <2>6. PesTypes' /\ PesUnset'
    BY <2>1, <2>2, <2>5 DEF RoutedInv, PesTypes, PesUnset
  <2>7. PesEntries' /\ PesIndex' /\ PesRun'
    BY <2>2, <2>5 DEF PesEntries, PesIndex, PesRun
  <2> QED
    BY <2>4, <2>6, <2>7 DEF RoutedInv
<1> QED
  BY <1>3, <1>4, <1>5, <1>6, <1>7, <1>8, <1>9, <1>10, <1>11, <1>12, Zenon DEF PesNext

(* Before the first PMT there are no entries. *)
LEMMA RoutedInit == PesInit => RoutedInv /\ LeakInv
<1> SUFFICES ASSUME PesInit PROVE RoutedInv /\ LeakInv
  OBVIOUS
<1>1. run = Idle /\ run.pc = "idle" /\ "pc" \in DOMAIN run
  BY DEF PesInit, Idle
<1>2. PesTypes /\ LeakInv /\ PesRun
  <2>1. list = <<>> /\ <<>> \in Seq(PesEntry) /\ 0 \in Nat /\ filters = {} /\ bitmap = {}
        /\ leaked = {} /\ pid_index = [p \in Pids |-> 0] /\ failed = FALSE
    BY DEF PesInit
  <2> QED
    BY <1>1, <2>1 DEF PesTypes, LeakInv, PesRun
<1>3. PesEntries /\ PesIndex /\ PesUnset
  BY DEF PesInit, PesEntries, PesIndex, PesUnset
<1> QED
  BY <1>2, <1>3 DEF RoutedInv

(* Routed holds in every reachable state, for any PIDs, streams and
   packets: each packet is parsed into the entry of its PID
   (register_pes_ops and parse_pes_packet, pes.c). *)
THEOREM PacketsRouted == PesSpec => []Routed
<1>1. RoutedInv => Routed
  BY DEF RoutedInv, Routed, PesRun, PesEntries, GoodEntry
<1> QED
  BY <1>1, RoutedInit, RoutedInductive, PTL DEF PesSpec

(* OnlyTablesLeak holds in every reachable state: of what a packet's
   segments allocate only map tables and periods are left behind
   (free_subtitles, subtitle.c). *)
THEOREM TablesLeakOnly == PesSpec => []OnlyTablesLeak
<1>1. LeakInv => OnlyTablesLeak
  BY DEF LeakInv, OnlyTablesLeak
<1> QED
  BY <1>1, RoutedInit, RoutedInductive, PTL DEF PesSpec

(* A flipped bit turns the parity of a group of bits it belongs to. *)
LEMMA FlippedParity ==
  ASSUME NEW S, NEW T, IsFiniteSet(S), IsFiniteSet(T), NEW x, Errors(S, T) = {x}
  PROVE  odd_parity8_test(S) <=> ~odd_parity8_test(T)
<1>1. (x \in S /\ x \notin T /\ S = T \cup {x}) \/ (x \in T /\ x \notin S /\ T = S \cup {x})
  BY DEF Errors
<1>2. Cardinality(S) \in Nat /\ Cardinality(T) \in Nat
  BY FS_CardinalityType
<1>3. CASE x \notin T /\ S = T \cup {x}
  <2>1. Cardinality(S) = Cardinality(T) + 1
    BY <1>3, FS_AddElement
  <2> QED
    BY <1>2, <2>1 DEF odd_parity8_test
<1>4. CASE x \notin S /\ T = S \cup {x}
  <2>1. Cardinality(T) = Cardinality(S) + 1
    BY <1>4, FS_AddElement
  <2> QED
    BY <1>2, <2>1 DEF odd_parity8_test
<1> QED
  BY <1>1, <1>3, <1>4

(* The bits of a byte are finitely many. *)
LEMMA BytesFinite ==
  ASSUME NEW S, S \subseteq 0..7
  PROVE  IsFiniteSet(S)
<1>1. IsFiniteSet(0..7)
  <2>1. 0 \in Int /\ 7 \in Int
    OBVIOUS
  <2> QED
    BY <2>1, FS_Interval
<1> QED
  BY <1>1, FS_Subset

(* The parity of the bits of c in a group G, c and w differing in bit x *)
LEMMA GroupParity ==
  ASSUME NEW c \in Byte, NEW w \in Byte, NEW x, Errors(c, w) = {x}, NEW G
  PROVE  odd_parity8_test(c \cap G) <=>
           (IF x \in G THEN ~odd_parity8_test(w \cap G) ELSE odd_parity8_test(w \cap G))
<1>1. IsFiniteSet(c \cap G) /\ IsFiniteSet(w \cap G)
  BY BytesFinite DEF Byte
<1>2. CASE x \in G
  <2>1. Errors(c \cap G, w \cap G) = {x}
    BY <1>2 DEF Errors
  <2> QED
    BY <1>1, <1>2, <2>1, FlippedParity
<1>3. CASE x \notin G
  <2>1. c \cap G = w \cap G
    BY <1>3 DEF Errors
  <2> QED
    BY <1>3, <2>1, Zenon
<1> QED
  BY <1>2, <1>3

GroupA == {7, 6, 2, 0}
GroupB == {6, 5, 4, 0}
GroupC == {6, 4, 3, 2}

(* The four groups of a code word have odd parity. *)
LEMMA CodeWordParity ==
  ASSUME NEW w \in CodeWords
  PROVE  /\ w \in Byte /\ odd_parity8_test(w \cap GroupA) /\ odd_parity8_test(w \cap GroupB)
         /\ odd_parity8_test(w \cap GroupC) /\ odd_parity8_test(w \cap (0..7))
<1>1. w \in Byte
  BY DEF CodeWords
<1>2. w \cap (0..7) = w
  BY <1>1 DEF Byte
<1> QED
  BY <1>1, <1>2, Zenon DEF CodeWords, odd_parity8_test, GroupA, GroupB, GroupC

(* decode_hamming8_code in terms of the four tests *)
LEMMA DecodeCases ==
  ASSUME NEW c \in Byte
  PROVE  LET A == odd_parity8_test(c \cap GroupA)
             B == odd_parity8_test(c \cap GroupB)
             C == odd_parity8_test(c \cap GroupC)
             D == odd_parity8_test(c \cap (0..7))
         IN decode_hamming8_code(c) =
              IF A /\ B /\ C THEN IF D THEN c ELSE c \ {1}
              ELSE IF D THEN Rejected ELSE c \ {Suspect(A, B, C)}
<1>1. c \cap (0..7) = c
  BY DEF Byte
<1> QED
  BY <1>1, Zenon DEF decode_hamming8_code, REVERSE_BIT, GroupA, GroupB, GroupC

(* No error, one and two *)
LEMMA NoError ==
  ASSUME NEW w \in CodeWords
  PROVE  decode_hamming8_code(w) = w
  BY CodeWordParity, DecodeCases, Zenon

(* The bit the failing tests point at is the flipped one. *)
LEMMA SuspectFound ==
  ASSUME NEW x \in 0..7, x # 1
  PROVE  /\ Suspect(x \notin GroupA, x \notin GroupB, x \notin GroupC) = x
         /\ ~(x \notin GroupA /\ x \notin GroupB /\ x \notin GroupC)
<1>1. x = 0 \/ x = 2 \/ x = 3 \/ x = 4 \/ x = 5 \/ x = 6 \/ x = 7
  OBVIOUS
<1> QED
  BY <1>1 DEF Suspect, GroupA, GroupB, GroupC

(* One flipped bit is found, and cleared. *)
LEMMA OneError ==
  ASSUME NEW c \in Byte, NEW w \in CodeWords, NEW x \in 0..7, Errors(c, w) = {x}
  PROVE  decode_hamming8_code(c) = w \ {x}
<1> DEFINE A == odd_parity8_test(c \cap GroupA)
           B == odd_parity8_test(c \cap GroupB)
           C == odd_parity8_test(c \cap GroupC)
           D == odd_parity8_test(c \cap (0..7))
<1>1. (A <=> x \notin GroupA) /\ (B <=> x \notin GroupB) /\ (C <=> x \notin GroupC) /\ ~D
  <2>1. w \in Byte
    BY CodeWordParity
  <2>2. ASSUME NEW G, odd_parity8_test(w \cap G)
        PROVE  odd_parity8_test(c \cap G) <=> x \notin G
    BY <2>1, <2>2, GroupParity, Zenon
  <2> QED
    BY <2>2, CodeWordParity, Zenon
<1>2. A \in BOOLEAN /\ B \in BOOLEAN /\ C \in BOOLEAN
  BY DEF odd_parity8_test
<1>3. A = (x \notin GroupA) /\ B = (x \notin GroupB) /\ C = (x \notin GroupC)
  BY <1>1, <1>2, Zenon
<1>4. c \ {x} = w \ {x}
  BY DEF Errors
<1>5. decode_hamming8_code(c) = IF A /\ B /\ C THEN IF D THEN c ELSE c \ {1}
                                ELSE IF D THEN Rejected ELSE c \ {Suspect(A, B, C)}
  BY DecodeCases, Zenon
<1> HIDE DEF A, B, C, D
<1>6. CASE x = 1
  <2>1. A /\ B /\ C
    BY <1>1, <1>6 DEF GroupA, GroupB, GroupC
  <2> QED
    BY <1>1, <1>4, <1>5, <1>6, <2>1, Zenon
<1>7. CASE x # 1
  <2>1. ~(A /\ B /\ C) /\ Suspect(A, B, C) = x
    BY <1>1, <1>3, <1>7, SuspectFound, Zenon
  <2> QED
    BY <1>1, <1>4, <1>5, <2>1, Zenon
<1> QED
  BY <1>6, <1>7

(* Two flipped bits are rejected. *)
LEMMA TwoErrors ==
  ASSUME NEW c \in Byte, NEW w \in CodeWords, NEW x \in 0..7, NEW y \in 0..7, x # y,
         Errors(c, w) = {x, y}
  PROVE  decode_hamming8_code(c) = Rejected
<1> DEFINE m == IF x \in w THEN w \ {x} ELSE w \cup {x}
<1>0. w \in Byte
  BY CodeWordParity
<1>1. m \in Byte /\ Errors(m, w) = {x} /\ Errors(c, m) = {y}
  BY <1>0 DEF Errors, Byte
<1> HIDE DEF m
<1>2. ASSUME NEW G, odd_parity8_test(w \cap G)
      PROVE  odd_parity8_test(c \cap G) <=> (x \in G <=> y \in G)
  BY <1>0, <1>1, <1>2, GroupParity, Zenon
<1>3. /\ odd_parity8_test(c \cap GroupA) <=> (x \in GroupA <=> y \in GroupA)
      /\ odd_parity8_test(c \cap GroupB) <=> (x \in GroupB <=> y \in GroupB)
      /\ odd_parity8_test(c \cap GroupC) <=> (x \in GroupC <=> y \in GroupC)
      /\ odd_parity8_test(c \cap (0..7))
  BY <1>2, CodeWordParity, Zenon
<1>4. ~((x \in GroupA <=> y \in GroupA) /\ (x \in GroupB <=> y \in GroupB) /\ (x \in GroupC <=> y \in GroupC))
  BY DEF GroupA, GroupB, GroupC
<1> QED
  BY <1>3, <1>4, DecodeCases, Zenon

(* The Hamming code, for every byte received and every code word sent *)
LEMMA HammingDecoded ==
  ASSUME NEW c \in Byte, NEW w \in CodeWords
  PROVE  LET err == Errors(c, w)
             dec == decode_hamming8_code(c)
         IN /\ err = {} => dec = w
            /\ Cardinality(err) = 2 => dec = Rejected
            /\ Cardinality(err) = 1 => dec = w \ err
<1> DEFINE err == Errors(c, w)
<1>1. err \subseteq 0..7 /\ IsFiniteSet(err)
  <2>1. w \in Byte
    BY CodeWordParity
  <2>2. err \subseteq 0..7
    BY <2>1 DEF Errors, Byte
  <2> QED
    BY <2>2, BytesFinite
<1>2. ASSUME err = {} PROVE decode_hamming8_code(c) = w
  <2>1. c = w
    BY <1>2 DEF Errors
  <2> QED
    BY <2>1, NoError
<1>3. ASSUME Cardinality(err) = 1 PROVE decode_hamming8_code(c) = w \ err
  <2>1. PICK x : err = {x}
    <3> HIDE DEF err
    <3> QED
      BY <1>1, <1>3, FS_Singleton
  <2>2. x \in 0..7
    BY <1>1, <2>1
  <2> QED
    BY <2>1, <2>2, OneError
<1>4. ASSUME Cardinality(err) = 2 PROVE decode_hamming8_code(c) = Rejected
  <2> HIDE DEF err
  <2>1. PICK x : x \in err
    BY <1>1, <1>4, FS_EmptySet
  <2>2. IsFiniteSet(err \ {x}) /\ Cardinality(err \ {x}) = 1
    BY <1>1, <1>4, <2>1, FS_RemoveElement
  <2>3. PICK y : err \ {x} = {y}
    BY <2>2, FS_Singleton
  <2>4. err = {x, y} /\ x # y /\ x \in 0..7 /\ y \in 0..7
    BY <1>1, <2>1, <2>3
  <2> QED
    BY <2>4, TwoErrors DEF err
<1> QED
  BY <1>2, <1>3, <1>4

HammingInv ==
  /\ "pc" \in DOMAIN run
  /\ run.pc = "unit" => "mag" \in DOMAIN run /\ (run.mag \in MagBytes \/ run.mag[2] = {})

(* HammingSound holds in every reachable state, for every byte received for
   a code word (decode_hamming8_code, teletext.c). *)
THEOREM HammingCode == PesSpec => []HammingSound
<1>1. PesInit => HammingInv
  BY DEF PesInit, Idle, HammingInv
<1>2. ASSUME HammingInv, [PesNext]_pes_vars PROVE HammingInv'
  <2>1. CASE run' = run
    BY <1>2, <2>1 DEF HammingInv
  <2>2. CASE run' = Idle \/ run' = [pc |-> "off"]
    BY <2>2 DEF HammingInv, Idle
  <2>3. ASSUME NEW x, x # "unit", run' = [run EXCEPT !.pc = x] PROVE HammingInv'
    BY <1>2, <2>3 DEF HammingInv
  <2>4. ASSUME NEW mag \in MagBytes, NEW i, NEW o, run' = [run EXCEPT !.i = i, !.mag = mag, !.out = o],
               run.pc = "unit"
        PROVE HammingInv'
    BY <1>2, <2>4 DEF HammingInv
  <2>5. ASSUME NEW s \in Streams, NEW okl \in BOOLEAN, NEW okp \in BOOLEAN,
               Register(s[1], s[2], s[3], okl, okp)
        PROVE  HammingInv'
    BY <2>1, <2>5 DEF Register
  <2>6. ASSUME NEW pid \in Pids, NEW h, NEW d, parse_pes_packet(pid, h, d) PROVE HammingInv'
    <3>1. run'.pc \in {"idle", "data"} /\ "pc" \in DOMAIN run'
      BY <2>6 DEF parse_pes_packet, Idle
    <3> QED
      BY <3>1 DEF HammingInv
  <2>7. CASE NoCallback \/ PacketDone \/ unregister_pes_ops
    BY <2>2, <2>7, Zenon DEF NoCallback, PacketDone, unregister_pes_ops
  <2>8. CASE NullPrivate
    BY <2>3, <2>8 DEF NullPrivate
  <2>9. CASE subtitle_end
    BY <2>3, <2>9 DEF subtitle_end
  <2>10. CASE teletext_end
    BY <2>3, <2>10 DEF teletext_end
  <2>11. CASE subtitle_begin
    <3>1. run' = Idle \/ run' = [pc |-> "segment", pid |-> run.pid, entry |-> run.entry,
                                 data |-> run.data, i |-> 1, seg_len |-> run.plen - 2]
      BY <2>11, Zenon DEF subtitle_begin
    <3>2. run'.pc \in {"idle", "segment"} /\ "pc" \in DOMAIN run'
      BY <3>1 DEF Idle
    <3> QED
      BY <3>2 DEF HammingInv
  <2>12. CASE parse_subtitle_segment
    <3>1. run.pc = "segment"
      BY <2>12 DEF parse_subtitle_segment
    <3>2. ASSUME NEW i, NEW n, run' = [run EXCEPT !.i = i, !.seg_len = n] PROVE HammingInv'
      BY <1>2, <3>1, <3>2 DEF HammingInv
    <3> QED
      BY <2>3, <2>12, <3>2 DEF parse_subtitle_segment
  <2>13. CASE teletext_begin
    <3>1. CASE run.data.kind # "text"
      <4>1. run' = [run EXCEPT !.pc = "abort"] \/ run' = [run EXCEPT !.pc = "done"]
        BY <2>13, <3>1, Zenon DEF teletext_begin
      <4> QED
        BY <2>3, <4>1
    <3>2. CASE run.data.kind = "text"
      <4>1. run' = [pc |-> "unit", pid |-> run.pid, entry |-> run.entry, data |-> run.data,
                    i |-> 0, plen |-> run.plen, room |-> n_units(run.plen),
                    mag |-> <<{}, {}>>, out |-> FALSE]
        BY <2>13, <3>2, Zenon DEF teletext_begin
      <4>2. "mag" \in DOMAIN run' /\ "pc" \in DOMAIN run' /\ run'.mag = <<{}, {}>> /\ run'.mag[2] = {}
        BY <4>1
      <4> QED
        BY <4>2 DEF HammingInv
    <3> QED
      BY <3>1, <3>2
  <2>14. CASE teletext_unit
    <3>1. run.pc = "unit"
      BY <2>14 DEF teletext_unit
    <3>2. ASSUME NEW u, NEW mag \in MagBytes, NEW pkt, parse_teletext_data(u, mag, pkt)
          PROVE  HammingInv'
      BY <2>4, <3>1, <3>2, Zenon DEF parse_teletext_data
    <3>3. ASSUME run' = [run EXCEPT !.pc = "overrun"] \/ run' = [run EXCEPT !.pc = "abort"]
          PROVE  HammingInv'
      BY <2>3, <3>3
    <3> QED
      BY <2>14, <3>2, <3>3, Zenon DEF teletext_unit
  <2>15. CASE Dead \/ Off \/ UNCHANGED pes_vars
    BY <2>1, <2>15 DEF Dead, Off, pes_vars
  <2> QED
    BY <1>2, <2>5, <2>6, <2>7, <2>8, <2>9, <2>10, <2>11, <2>12, <2>13, <2>14, <2>15, Zenon DEF PesNext
<1>3. HammingInv => HammingSound
  <2> SUFFICES ASSUME HammingInv, run.pc = "unit", run.mag[2] # {}
               PROVE  LET got == run.mag[1]  sent_ == run.mag[2]  err == Errors(got, sent_)
                          dec == decode_hamming8_code(got)
                      IN /\ err = {} => dec = sent_
                         /\ Cardinality(err) = 2 => dec = Rejected
                         /\ Cardinality(err) = 1 => dec = sent_ \ err
    BY Zenon DEF HammingSound
  <2>1. run.mag \in Byte \X CodeWords
    BY BytesAssumption DEF HammingInv
  <2>2. run.mag[1] \in Byte /\ run.mag[2] \in CodeWords
    BY <2>1
  <2> QED
    BY <2>2, HammingDecoded
<1> QED
  BY <1>1, <1>2, <1>3, PTL DEF PesSpec

(* A set of numbers up to n has a greatest one. *)
LEMMA GreatestElement ==
  ASSUME NEW n \in Nat, NEW S \in SUBSET (1..n), S # {}
  PROVE  \E i \in S : \A j \in (i+1)..n : j \notin S
<1> DEFINE T == {n - i : i \in S}
<1>1. T \subseteq Nat /\ T # {}
  <2>1. \A i \in S : n - i \in Nat
    OBVIOUS
  <2> QED
    BY <2>1
<1>2. \E x \in T : \A y \in T : ~(<<y, x>> \in OpToRel(<, Nat))
  BY <1>1, WFMin, NatLessThanWellFounded, Zenon
<1>3. ASSUME NEW x \in Nat, NEW y \in Nat, y < x
      PROVE  <<y, x>> \in OpToRel(<, Nat)
  BY <1>3 DEF OpToRel
<1>4. PICK x \in T : \A y \in T : ~(y < x)
  BY <1>1, <1>2, <1>3, Zenon
<1>5. PICK i \in S : x = n - i
  BY <1>4
<1>6. ASSUME NEW j \in (i+1)..n, j \in S PROVE FALSE
  <2>1. n - j \in T /\ n - j < n - i
    BY <1>6
  <2> QED
    BY <2>1, <1>4, <1>5
<1> QED
  BY <1>6

(* Induction over the numbers up to n, with the set T of those for which the
   claim holds *)
LEMMA IntervalInduction ==
  ASSUME NEW n \in Nat, NEW T, 0 \in T, \A i \in 1..n : i - 1 \in T => i \in T
  PROVE  \A i \in 0..n : i \in T
<1> DEFINE Bad == {i \in 0..n : i \notin T}
<1> SUFFICES ASSUME Bad # {} PROVE FALSE
  OBVIOUS
<1>1. Bad \subseteq Nat
  OBVIOUS
<1> HIDE DEF Bad
<1>2. PICK m \in Bad : \A j \in Bad : ~(<<j, m>> \in OpToRel(<, Nat))
  BY <1>1, WFMin, NatLessThanWellFounded, Zenon
<1>3. m \in 0..n /\ m \notin T
  BY DEF Bad
<1>4. m \in 1..n /\ m - 1 \in 0..n /\ m - 1 \in Nat /\ m - 1 < m /\ m \in Nat
  <2>1. m # 0
    BY <1>3
  <2> QED
    BY <1>3, <2>1
<1>5. <<m - 1, m>> \in OpToRel(<, Nat)
  BY <1>4 DEF OpToRel
<1>6. m - 1 \in T
  BY <1>2, <1>4, <1>5 DEF Bad
<1> QED
  BY <1>3, <1>4, <1>6

(* The greatest number of a set bounded by one of its members *)
LEMMA MaxOf ==
  ASSUME NEW m \in Nat, NEW s \in SUBSET (1..m), m \in s
  PROVE  Max(s) = m
<1>1. \A x \in s : (\A y \in s : x >= y) => x = m
  OBVIOUS
<1>2. \A y \in s : m >= y
  OBVIOUS
<1> QED
  BY <1>1, <1>2 DEF Max

(* A set of numbers that is bounded holds its greatest one. *)
LEMMA MaxIn ==
  ASSUME NEW n \in Nat, NEW s \in SUBSET (1..n), s # {}
  PROVE  Max(s) \in s
<1>1. PICK i \in s : \A j \in (i+1)..n : j \notin s
  BY GreatestElement
<1>2. \A y \in s : i >= y
  BY <1>1
<1> QED
  BY <1>2 DEF Max

(* A fold over a sequence of n elements, as FoldLeft goes through it: the
   function f of the sets of positions still to be folded exists. *)
Folding(S, n, base, G) ==
  \E f \in [SUBSET (1..n) -> S] :
    \A s \in SUBSET (1..n) : f[s] = IF s = {} THEN base ELSE G[<<f[s \ {Max(s)}], Max(s)>>]

(* A fold over 1..n is a function that satisfies its equations. *)
LEMMA FoldExists ==
  ASSUME NEW S, NEW n \in Nat, NEW base \in S, NEW G \in [S \X (1..n) -> S]
  PROVE  Folding(S, n, base, G)
<1> DEFINE Good(m, f) ==
             \A s \in SUBSET (1..m) : f[s] = IF s = {} THEN base ELSE G[<<f[s \ {Max(s)}], Max(s)>>]
           T == {m \in 0..n : \E f \in [SUBSET (1..m) -> S] : Good(m, f)}
<1>1. 0 \in T
  <2> DEFINE f == [s \in SUBSET (1..0) |-> base]
  <2>1. f \in [SUBSET (1..0) -> S] /\ Good(0, f)
    <3>1. \A s \in SUBSET (1..0) : s = {}
      OBVIOUS
    <3> QED
      BY <3>1
  <2>2. 0 \in 0..n
    OBVIOUS
  <2> HIDE DEF f, Good
  <2> QED
    BY <2>1, <2>2, Zenon
<1>2. ASSUME NEW m \in 1..n, m - 1 \in T PROVE m \in T
  <2>1. PICK f \in [SUBSET (1..(m - 1)) -> S] : Good(m - 1, f)
    BY <1>2
  <2> DEFINE h == [s \in SUBSET (1..m) |-> IF m \in s THEN G[<<f[s \ {m}], m>>] ELSE f[s]]
  <2>2. \A s \in SUBSET (1..m) : s \ {m} \in SUBSET (1..(m - 1)) /\ (m \notin s => s \in SUBSET (1..(m - 1)))
    OBVIOUS
  <2>3. h \in [SUBSET (1..m) -> S]
    <3> SUFFICES ASSUME NEW s \in SUBSET (1..m)
                 PROVE  (IF m \in s THEN G[<<f[s \ {m}], m>>] ELSE f[s]) \in S
      OBVIOUS
    <3>1. <<f[s \ {m}], m>> \in S \X (1..n)
      BY <2>2
    <3>2. G[<<f[s \ {m}], m>>] \in S
      BY <3>1
    <3> QED
      BY <2>2, <3>2
  <2>4. ASSUME NEW s \in SUBSET (1..m)
        PROVE  h[s] = IF s = {} THEN base ELSE G[<<h[s \ {Max(s)}], Max(s)>>]
    <3>1. CASE m \in s
      <4>1. Max(s) = m /\ s # {}
        BY <3>1, MaxOf
      <4>2. h[s] = G[<<f[s \ {m}], m>>]
        BY <3>1
      <4>3. s \ {m} \in SUBSET (1..m) /\ m \notin s \ {m}
        OBVIOUS
      <4>4. h[s \ {m}] = f[s \ {m}]
        BY <4>3
      <4> HIDE DEF h
      <4> QED
        BY <4>1, <4>2, <4>4
    <3>2. CASE m \notin s
      <4>1. s \in SUBSET (1..(m - 1))
        BY <2>2, <3>2
      <4>2. h[s] = f[s]
        BY <3>2
      <4>3. f[s] = IF s = {} THEN base ELSE G[<<f[s \ {Max(s)}], Max(s)>>]
        BY <2>1, <4>1
      <4>4. s \ {Max(s)} \in SUBSET (1..m) /\ m \notin s \ {Max(s)}
        BY <3>2
      <4>5. h[s \ {Max(s)}] = f[s \ {Max(s)}]
        BY <4>4
      <4> HIDE DEF h
      <4> QED
        BY <4>2, <4>3, <4>5
    <3> QED
      BY <3>1, <3>2
  <2>5. Good(m, h)
    BY <2>4
  <2> HIDE DEF h, Good
  <2> QED
    BY <2>3, <2>5
<1>3. n \in T
  <2> HIDE DEF T
  <2>1. \A i \in 0..n : i \in T
    BY <1>1, <1>2, IntervalInduction
  <2> QED
    BY <2>1
<1> QED
  BY <1>3 DEF Folding

(* What a fold of n steps leaves, by way of the states after each step *)
Traced(S, n, base, G, r) ==
  \E g \in [0..n -> S] :
    g[0] = base /\ r = g[n] /\ \A i \in 1..n : g[i] = G[<<g[i - 1], i>>]

(* The function FoldLeft chooses goes through the sequence step by step. *)
LEMMA FoldTrace ==
  ASSUME NEW S, NEW n \in Nat, NEW base \in S, NEW G \in [S \X (1..n) -> S], NEW iter,
         iter[{}] = base,
         \A s \in SUBSET (1..n) :
           s # {} /\ iter[s \ {Max(s)}] \in S => iter[s] = G[<<iter[s \ {Max(s)}], Max(s)>>]
  PROVE  Traced(S, n, base, G, iter[1..n])
<1> DEFINE g == [i \in 0..n |-> iter[1..i]]
           T == {i \in 0..n : g[i] \in S}
<1>1. g[0] = base /\ 0 \in T
  <2>1. 1..0 = {} /\ 0 \in 0..n
    OBVIOUS
  <2>2. g[0] = iter[1..0]
    BY <2>1
  <2> QED
    BY <2>1, <2>2
<1>2. ASSUME NEW i \in 1..n, i - 1 \in T PROVE g[i] = G[<<g[i - 1], i>>] /\ i \in T
  <2>1. /\ i \in 0..n /\ i - 1 \in 0..n /\ (1..i) \ {i} = 1..(i - 1)
        /\ i \in 1..i /\ 1..i \in SUBSET (1..n) /\ i \in Nat
    OBVIOUS
  <2>2. Max(1..i) = i /\ 1..i # {}
    BY <2>1, MaxOf
  <2>3. g[i] = iter[1..i] /\ g[i - 1] = iter[1..(i - 1)]
    BY <2>1
  <2>4. g[i - 1] \in S
    BY <1>2
  <2> HIDE DEF g
  <2>5. (1..i) \ {Max(1..i)} = 1..(i - 1)
    BY <2>1, <2>2
  <2>6. iter[1..i] = G[<<iter[1..(i - 1)], i>>]
    BY <2>1, <2>2, <2>3, <2>4, <2>5
  <2>7. G[<<g[i - 1], i>>] \in S
    BY <2>4
  <2> QED
    BY <2>1, <2>3, <2>6, <2>7
<1>3. \A i \in 0..n : i \in T
  <2> HIDE DEF T, g
  <2> QED
    BY <1>1, <1>2, IntervalInduction
<1>4. g \in [0..n -> S]
  BY <1>3
<1>5. \A i \in 1..n : g[i] = G[<<g[i - 1], i>>]
  <2>1. \A i \in 1..n : i - 1 \in 0..n
    OBVIOUS
  <2> HIDE DEF T, g
  <2> QED
    BY <1>2, <1>3, <2>1
<1>6. g[n] = iter[1..n]
  OBVIOUS
<1> HIDE DEF g
<1> QED
  BY <1>1, <1>4, <1>5, <1>6 DEF Traced

(* Total adds up a sequence number by number. *)
LEMMA TotalTrace ==
  ASSUME NEW q \in Seq(Nat)
  PROVE  Traced(Nat, Len(q), 0, [x \in Nat \X (1..Len(q)) |-> x[1] + q[x[2]]], Total(q))
<1> DEFINE n == Len(q)
           G == [x \in Nat \X (1..n) |-> x[1] + q[x[2]]]
           Eq(f) == f = [s \in SUBSET (DOMAIN q) |->
                           IF s = {} THEN 0 ELSE f[s \ {Max(s)}] + q[Max(s)]]
           iter == CHOOSE f : Eq(f)
<1>0. n \in Nat /\ DOMAIN q = 1..n
  OBVIOUS
<1>1. Total(q) = iter[1..n]
  <2>1. Total(q) = iter[DOMAIN q]
    BY Zenon DEF FoldLeft, MapThenFoldSet, Total
  <2> QED
    BY <1>0, <2>1
<1>2. G \in [Nat \X (1..n) -> Nat]
  <2>2. \A i \in 1..n : q[i] \in Nat
    OBVIOUS
  <2>3. \A x \in Nat \X (1..n) : x[1] + q[x[2]] \in Nat
    BY <2>2
  <2> QED
    BY <2>3
<1>3. \A x \in Nat, i \in 1..n : G[<<x, i>>] = x + q[i]
  OBVIOUS
<1> HIDE DEF n, G
<1>4. PICK f \in [SUBSET (1..n) -> Nat] :
        \A s \in SUBSET (1..n) : f[s] = IF s = {} THEN 0 ELSE G[<<f[s \ {Max(s)}], Max(s)>>]
  <2>1. Folding(Nat, n, 0, G)
    BY <1>0, <1>2, FoldExists
  <2> QED
    BY <2>1 DEF Folding
<1>5. \A s \in SUBSET (1..n) : s # {} => Max(s) \in 1..n
  BY <1>0, MaxIn
<1>6. Eq(f)
  <2>1. f = [s \in SUBSET (1..n) |-> f[s]]
    OBVIOUS
  <2>2. ASSUME NEW s \in SUBSET (1..n) PROVE f[s] = IF s = {} THEN 0 ELSE f[s \ {Max(s)}] + q[Max(s)]
    <3>1. f[s \ {Max(s)}] \in Nat
      OBVIOUS
    <3> QED
      BY <1>3, <1>4, <1>5, <3>1
  <2> QED
    BY <1>0, <2>1, <2>2, Zenon
<1>7. Eq(iter)
  <2> HIDE DEF Eq
  <2> QED
    BY <1>6
<1> HIDE DEF iter
<1>8. \A s \in SUBSET (1..n) : iter[s] = IF s = {} THEN 0 ELSE iter[s \ {Max(s)}] + q[Max(s)]
  <2>1. iter = [s \in SUBSET (1..n) |-> IF s = {} THEN 0 ELSE iter[s \ {Max(s)}] + q[Max(s)]]
    BY <1>0, <1>7, Zenon
  <2> QED
    BY <2>1, Zenon
<1>9. iter[{}] = 0 /\ \A s \in SUBSET (1..n) :
        s # {} /\ iter[s \ {Max(s)}] \in Nat => iter[s] = G[<<iter[s \ {Max(s)}], Max(s)>>]
  BY <1>3, <1>5, <1>8
<1>10. Traced(Nat, n, 0, G, iter[1..n])
  <2>1. 0 \in Nat
    OBVIOUS
  <2> QED
    BY <1>0, <1>2, <1>9, <2>1, FoldTrace
<1> QED
  BY <1>1, <1>10, Zenon DEF n, G

(* A sum of numbers is a number. *)
LEMMA TotalType ==
  ASSUME NEW q \in Seq(Nat)
  PROVE  Total(q) \in Nat
<1>1. Traced(Nat, Len(q), 0, [x \in Nat \X (1..Len(q)) |-> x[1] + q[x[2]]], Total(q))
  BY TotalTrace
<1>2. PICK g \in [0..Len(q) -> Nat] : Total(q) = g[Len(q)]
  BY <1>1, Zenon DEF Traced
<1> QED
  BY <1>2, Len(q) \in Nat

(* The fields of a header: what head_len is told of a field is what the
   pointer moves by, but for the sequence counter. *)
FieldFlags == {"pts", "dts", "escr", "rate", "trick", "copy", "crc", "ext",
               "priv", "pack", "ppsc", "pstd", "ext2"}
PesField == [flag : FieldFlags, bytes : Nat, counted : Nat]
PlainFields == {f \in PesField : f.counted = f.bytes}
AnyFields == {f \in PesField : f.counted = f.bytes \/ f.flag = "ppsc"}

(* A plain field is counted as it is passed; the sequence counter is not
   counted. *)
LEMMA FieldKinds ==
  /\ \A flag \in FieldFlags, n \in Nat : Field1(flag, n) \in PlainFields
  /\ PlainFields \subseteq AnyFields
  /\ [flag |-> "ppsc", bytes |-> 2, counted |-> 0] \in AnyFields
<1>1. ASSUME NEW flag \in FieldFlags, NEW n \in Nat PROVE Field1(flag, n) \in PlainFields
  <2>1. Field1(flag, n) = [flag |-> flag, bytes |-> n, counted |-> n]
    BY DEF Field1
  <2>2. Field1(flag, n) \in PesField /\ Field1(flag, n).counted = Field1(flag, n).bytes
    BY <2>1 DEF PesField
  <2> QED
    BY <2>2 DEF PlainFields
<1>2. PlainFields \subseteq AnyFields
  BY DEF PlainFields, AnyFields
<1>3. [flag |-> "ppsc", bytes |-> 2, counted |-> 0] \in AnyFields
  <2> DEFINE r == [flag |-> "ppsc", bytes |-> 2, counted |-> 0]
  <2>3. "ppsc" \in FieldFlags
    BY Zenon DEF FieldFlags
  <2>1. r \in PesField /\ r.flag = "ppsc"
    BY <2>3 DEF PesField
  <2> HIDE DEF r
  <2>2. r \in AnyFields
    BY <2>1 DEF AnyFields
  <2> QED
    BY <2>2 DEF r
<1> QED
  BY <1>1, <1>2, <1>3

(* The flags that announce a field *)
LEMMA FlagNames ==
  /\ "pts" \in FieldFlags /\ "dts" \in FieldFlags /\ "escr" \in FieldFlags
  /\ "rate" \in FieldFlags /\ "trick" \in FieldFlags /\ "copy" \in FieldFlags
  /\ "crc" \in FieldFlags /\ "ext" \in FieldFlags /\ "priv" \in FieldFlags
  /\ "pack" \in FieldFlags /\ "pstd" \in FieldFlags /\ "ext2" \in FieldFlags
  BY Zenon DEF FieldFlags

(* The fields of a header are of these kinds. *)
LEMMA FieldSeqs ==
  ASSUME NEW h, {h.pack, h.field} \subseteq Nat
  PROVE  StandardFields \in Seq(PlainFields) /\ extension_fields(h) \in Seq(AnyFields)
<1>1. 1 + h.pack \in Nat /\ 1 + h.field \in Nat
  OBVIOUS
<1>2. StandardFields \in Seq(PlainFields)
  <2>1. /\ Field1("pts", 5) \in PlainFields /\ Field1("dts", 5) \in PlainFields
        /\ Field1("escr", 6) \in PlainFields /\ Field1("rate", 3) \in PlainFields
        /\ Field1("trick", 1) \in PlainFields /\ Field1("copy", 1) \in PlainFields
        /\ Field1("crc", 2) \in PlainFields /\ Field1("ext", 1) \in PlainFields
    BY FieldKinds, FlagNames
  <2> QED
    BY <2>1 DEF StandardFields
<1>3. extension_fields(h) \in Seq(AnyFields)
  <2>1. /\ Field1("priv", 16) \in AnyFields /\ Field1("pack", 1 + h.pack) \in AnyFields
        /\ [flag |-> "ppsc", bytes |-> 2, counted |-> 0] \in AnyFields
        /\ Field1("pstd", 2) \in AnyFields /\ Field1("ext2", 1 + h.field) \in AnyFields
    BY <1>1, FieldKinds, FlagNames
  <2> QED
    BY <2>1 DEF extension_fields
<1> QED
  BY <1>2, <1>3

(* Unless a sequence counter is read, the bytes are counted as they are
   passed. *)
LEMMA HeaderCounted ==
  ASSUME NEW h, {h.pack, h.field, h.stuffing} \subseteq Nat
  PROVE  /\ header_bytes(h) \in Nat
         /\ ~({"ext", "ppsc"} \subseteq h.flags) =>
              data_offset(h) = 9 + PES_header_data_length(h)
<1> DEFINE fs == Fields(h)
           n == Len(fs)
           moved == [i \in DOMAIN fs |-> IF Given(h, i) THEN fs[i].bytes ELSE 0]
           told == [i \in DOMAIN fs |-> IF Given(h, i) THEN fs[i].counted ELSE 0]
<1>1. /\ fs \in Seq(AnyFields)
      /\ "ext" \notin h.flags => fs \in Seq(PlainFields)
  <2> DEFINE st == StandardFields
             ex == extension_fields(h)
  <2>1. st \in Seq(PlainFields) /\ ex \in Seq(AnyFields) /\ PlainFields \subseteq AnyFields
    BY FieldSeqs DEF PlainFields, AnyFields
  <2>2. fs = st \o (IF "ext" \in h.flags THEN ex ELSE <<>>)
    BY DEF Fields
  <2> HIDE DEF st, ex, fs
  <2>3. st \in Seq(AnyFields)
    BY <2>1
  <2>4. CASE "ext" \in h.flags
    <3>1. fs = st \o ex
      BY <2>2, <2>4
    <3> QED
      BY <2>1, <2>3, <2>4, <3>1
  <2>5. CASE "ext" \notin h.flags
    <3>1. fs = st \o <<>>
      BY <2>2, <2>5
    <3>2. fs = st
      BY <2>1, <3>1
    <3> QED
      BY <2>1, <2>3, <3>2
  <2> QED
    BY <2>4, <2>5
<1>2. header_bytes(h) = Total(moved)
  BY Zenon DEF header_bytes
<1>3. data_offset(h) = 9 + header_bytes(h) + (9 + PES_header_data_length(h) - (9 + Total(told)))
  BY Zenon DEF data_offset
<1>4. \A i \in DOMAIN fs : Given(h, i) <=> fs[i].flag \in h.flags
  BY DEF Given
<1> HIDE DEF fs
<1>5. n \in Nat /\ DOMAIN fs = 1..n /\ \A i \in 1..n : fs[i] \in AnyFields
  BY <1>1
<1>6. \A f \in AnyFields : f.bytes \in Nat /\ (f.counted = f.bytes \/ f.flag = "ppsc")
  BY DEF AnyFields, PesField
<1>7. moved \in Seq(Nat)
  <2>1. \A i \in 1..n : (IF Given(h, i) THEN fs[i].bytes ELSE 0) \in Nat
    BY <1>5, <1>6
  <2>2. moved \in [1..n -> Nat]
    BY <1>5, <2>1
  <2> QED
    BY <1>5, <2>2
<1>8. header_bytes(h) \in Nat
  BY <1>2, <1>7, TotalType
<1>9. ASSUME ~({"ext", "ppsc"} \subseteq h.flags) PROVE told = moved
  <2> SUFFICES ASSUME NEW i \in DOMAIN fs, Given(h, i) PROVE fs[i].counted = fs[i].bytes
    BY Zenon
  <2>1. CASE "ext" \notin h.flags
    BY <1>1, <2>1 DEF PlainFields
  <2>2. CASE "ppsc" \notin h.flags
    BY <1>4, <1>5, <1>6, <2>2
  <2> QED
    BY <1>9, <2>1, <2>2
<1>10. ASSUME ~({"ext", "ppsc"} \subseteq h.flags)
       PROVE  data_offset(h) = 9 + PES_header_data_length(h)
  <2>1. Total(told) = header_bytes(h)
    BY <1>2, <1>9, <1>10
  <2> HIDE DEF told
  <2>2. h.stuffing \in Nat
    OBVIOUS
  <2> QED
    BY <1>3, <1>8, <2>1, <2>2 DEF PES_header_data_length
<1> QED
  BY <1>8, <1>10

(* There are lengths. *)
LEMMA LengthWidth == LengthValues \in Nat \ {0}
  BY SMT DEF LengthValues

(* What is said of a packet when its data are handed over *)
BoundsInv ==
  /\ "pc" \in DOMAIN run
  /\ run.pc = "data" => DataBounds

(* The data of a packet ends with the packet when parse_pes_packet hands it
   over. *)
LEMMA PacketBounds ==
  ASSUME NEW h, NEW d, NEW pid, parse_pes_packet(pid, h, d), {h.pack, h.field, h.stuffing} \subseteq Nat,
         h.stream \in {"normal", "other", "padding"}, PES_packet_length(h, d) \in 0 .. LengthValues - 1
  PROVE  BoundsInv'
<1> DEFINE len == PES_packet_length(h, d)
           r == [pc |-> "data", pid |-> pid, entry |-> pid_index[pid] + 1, hdr |-> h, data |-> d,
                 offset |-> IF h.stream = "other" THEN 6 ELSE data_offset(h),
                 plen |-> IF h.stream = "other" THEN len ELSE data_length(h, len), field |-> len]
<1>1. run' = IF h.stream = "padding" THEN Idle ELSE r
  BY Zenon DEF parse_pes_packet
<1> HIDE DEF len
<1>2. len \in 0 .. LengthValues - 1
  BY DEF len
<1>3. CASE h.stream = "padding"
  <2>1. run'.pc = "idle" /\ "pc" \in DOMAIN run'
    BY <1>1, <1>3 DEF Idle
  <2> QED
    BY <2>1 DEF BoundsInv
<1>4. CASE h.stream # "padding"
  <2>1. /\ "pc" \in DOMAIN run' /\ run'.hdr = h /\ run'.field = len
        /\ run'.offset = IF h.stream = "other" THEN 6 ELSE data_offset(h)
        /\ run'.plen = IF h.stream = "other" THEN len ELSE data_length(h, len)
    BY <1>1, <1>4
  <2>2. CASE h.stream = "other"
    <3>1. run'.offset = 6 /\ run'.plen = len
      BY <2>1, <2>2
    <3>2. run'.offset + run'.plen = 6 + run'.field
      BY <2>1, <3>1
    <3> QED
      BY <2>1, <3>2 DEF BoundsInv, DataBounds
  <2>3. CASE h.stream = "normal"
    <3>1. run'.offset = data_offset(h) /\ run'.plen = data_length(h, len)
      BY <2>1, <2>3
    <3>2. CASE {"ext", "ppsc"} \subseteq h.flags \/ len < 3 + PES_header_data_length(h)
      BY <2>1, <2>3, <3>2 DEF BoundsInv, DataBounds
    <3>3. CASE ~({"ext", "ppsc"} \subseteq h.flags) /\ ~(len < 3 + PES_header_data_length(h))
      <4> DEFINE p == PES_header_data_length(h)
      <4>1. p \in Nat /\ data_offset(h) = 9 + p
        BY <3>3, HeaderCounted DEF PES_header_data_length
      <4>2. data_length(h, len) = (len - (3 + p)) % LengthValues
        BY DEF data_length
      <4> HIDE DEF p
      <4>3. len - (3 + p) \in 0 .. LengthValues - 1
        BY <1>2, <3>3, <4>1, LengthWidth DEF p
      <4>4. (len - (3 + p)) % LengthValues = len - (3 + p)
        BY <4>3, LengthWidth, SmallMod
      <4>5. run'.offset + run'.plen = 6 + run'.field
        BY <1>2, <2>1, <3>1, <4>1, <4>2, <4>4, LengthWidth
      <4> QED
        BY <2>1, <4>5 DEF BoundsInv, DataBounds
    <3> QED
      BY <3>2, <3>3
  <2> QED
    BY <1>4, <2>2, <2>3
<1> QED
  BY <1>3, <1>4

(* DataBounds holds in every reachable state, for every header: what the
   callback is given ends where the packet ends, a sequence counter and a
   packet shorter than its header apart (parse_pes_packet, pes.c). *)
THEOREM DataEndsWithPacket == PesSpec => []DataBounds
<1>1. PesInit => BoundsInv
  BY DEF PesInit, Idle, BoundsInv
<1>2. ASSUME BoundsInv, [PesNext]_pes_vars PROVE BoundsInv'
  <2>1. CASE run' = run
    BY <1>2, <2>1 DEF BoundsInv, DataBounds
  <2>2. ASSUME "pc" \in DOMAIN run', run'.pc # "data" PROVE BoundsInv'
    BY <2>2 DEF BoundsInv
  <2>3. ASSUME NEW x, x # "data", run' = [run EXCEPT !.pc = x] PROVE BoundsInv'
    <3>1. "pc" \in DOMAIN run' /\ run'.pc = x
      BY <1>2, <2>3 DEF BoundsInv
    <3> QED
      BY <2>2, <2>3, <3>1
  <2>4. ASSUME NEW s \in Streams, NEW okl \in BOOLEAN, NEW okp \in BOOLEAN,
               Register(s[1], s[2], s[3], okl, okp)
        PROVE  BoundsInv'
    BY <2>1, <2>4 DEF Register
  <2>5. ASSUME NEW pid \in Pids, NEW h \in Headers,
               parse_pes_packet(pid, h, [kind |-> "raw", size |-> 8])
        PROVE  BoundsInv'
    BY <2>5, HeadersAssumption, PacketBounds
  <2>6. ASSUME NEW pid \in Pids, NEW d \in Contents, parse_pes_packet(pid, SimpleHeader, d)
        PROVE  BoundsInv'
    <3>1. /\ SimpleHeader.pack = 0 /\ SimpleHeader.field = 0 /\ SimpleHeader.stuffing = 0
          /\ SimpleHeader.stream = "normal"
      BY DEF SimpleHeader
    <3>2. {SimpleHeader.pack, SimpleHeader.field, SimpleHeader.stuffing} \subseteq Nat
      BY <3>1
    <3>3. PES_packet_length(SimpleHeader, d) \in 0 .. LengthValues - 1
      BY HeadersAssumption
    <3> QED
      BY <2>6, <3>1, <3>2, <3>3, PacketBounds
  <2>7. CASE NoCallback \/ PacketDone \/ unregister_pes_ops
    <3>1. run' = Idle \/ run' = [pc |-> "off"]
      BY <2>7, Zenon DEF NoCallback, PacketDone, unregister_pes_ops
    <3> QED
      BY <2>2, <3>1 DEF Idle
  <2>8. CASE NullPrivate
    BY <2>3, <2>8 DEF NullPrivate
  <2>9. CASE subtitle_end
    BY <2>3, <2>9 DEF subtitle_end
  <2>10. CASE teletext_end
    BY <2>3, <2>10 DEF teletext_end
  <2>11. CASE subtitle_begin
    <3>1. run' = Idle \/ run' = [pc |-> "segment", pid |-> run.pid, entry |-> run.entry,
                                 data |-> run.data, i |-> 1, seg_len |-> run.plen - 2]
      BY <2>11, Zenon DEF subtitle_begin
    <3> QED
      BY <2>2, <3>1 DEF Idle
  <2>12. CASE parse_subtitle_segment
    <3>1. run.pc = "segment"
      BY <2>12 DEF parse_subtitle_segment
    <3>2. ASSUME NEW i, NEW n, run' = [run EXCEPT !.i = i, !.seg_len = n] PROVE BoundsInv'
      BY <1>2, <3>1, <3>2 DEF BoundsInv
    <3> QED
      BY <2>3, <2>12, <3>2 DEF parse_subtitle_segment
  <2>13. CASE teletext_begin
    <3>1. CASE run.data.kind # "text"
      <4>1. run' = [run EXCEPT !.pc = "abort"] \/ run' = [run EXCEPT !.pc = "done"]
        BY <2>13, <3>1, Zenon DEF teletext_begin
      <4> QED
        BY <2>3, <4>1
    <3>2. CASE run.data.kind = "text"
      <4>1. run' = [pc |-> "unit", pid |-> run.pid, entry |-> run.entry, data |-> run.data,
                    i |-> 0, plen |-> run.plen, room |-> n_units(run.plen),
                    mag |-> <<{}, {}>>, out |-> FALSE]
        BY <2>13, <3>2, Zenon DEF teletext_begin
      <4> QED
        BY <2>2, <4>1
    <3> QED
      BY <3>1, <3>2
  <2>14. CASE teletext_unit
    <3>1. run.pc = "unit"
      BY <2>14 DEF teletext_unit
    <3>2. ASSUME NEW i, NEW mag, NEW o, run' = [run EXCEPT !.i = i, !.mag = mag, !.out = o]
          PROVE  BoundsInv'
      BY <1>2, <3>1, <3>2 DEF BoundsInv
    <3>3. ASSUME NEW u, NEW mag, NEW pkt, parse_teletext_data(u, mag, pkt) PROVE BoundsInv'
      BY <3>2, <3>3, Zenon DEF parse_teletext_data
    <3>4. ASSUME run' = [run EXCEPT !.pc = "overrun"] \/ run' = [run EXCEPT !.pc = "abort"]
          PROVE  BoundsInv'
      BY <2>3, <3>4
    <3> QED
      BY <2>14, <3>3, <3>4, Zenon DEF teletext_unit
  <2>15. CASE Dead \/ Off \/ UNCHANGED pes_vars
    BY <2>1, <2>15 DEF Dead, Off, pes_vars
  <2> QED
    BY <1>2, <2>4, <2>5, <2>6, <2>7, <2>8, <2>9, <2>10, <2>11, <2>12, <2>13, <2>14, <2>15, Zenon
       DEF PesNext
<1>3. BoundsInv => DataBounds
  BY Zenon DEF BoundsInv, DataBounds
<1> QED
  BY <1>1, <1>2, <1>3, PTL DEF PesSpec

(* What a code of a 4-bit string and one of an 8-bit string take and write *)
LEMMA PixelCodes ==
  \A c \in DOMAIN PixelBits : c # "pixel" => PixelBits[c] \in Nat /\ PixelBits[c] >= 8
<1> SUFFICES ASSUME NEW c \in DOMAIN PixelBits, c # "pixel" PROVE PixelBits[c] \in Nat /\ PixelBits[c] >= 8
  OBVIOUS
<1>1. c = "zeros" \/ c = "run4" \/ c = "run9" \/ c = "run25" \/ c = "end"
  BY DEF PixelBits
<1> QED
  BY <1>1 DEF PixelBits

(* What a code of an 8-bit string takes and writes *)
LEMMA ByteCodes ==
  \A c \in DOMAIN ByteSize :
    c # "pixel" => /\ ByteSize[c] \in Nat /\ ByteSize[c] >= 2
                   /\ ByteOut[c] \in Nat /\ ByteOut[c] <= 2
<1> SUFFICES ASSUME NEW c \in DOMAIN ByteSize, c # "pixel"
             PROVE  /\ ByteSize[c] \in Nat /\ ByteSize[c] >= 2
                    /\ ByteOut[c] \in Nat /\ ByteOut[c] <= 2
  OBVIOUS
<1>1. c = "few" \/ c = "zeros" \/ c = "run" \/ c = "end"
  BY DEF ByteSize
<1> QED
  BY <1>1 DEF ByteSize, ByteOut

(* Kept pixels are written in at most four bytes each, up to two of them in
   two bytes each. *)
LEMMA FlushBound ==
  ASSUME NEW n \in Nat
  PROVE  flush(n) \in Nat /\ flush(n) <= 4 * n /\ (n <= 2 => flush(n) = 2 * n)
<1>1. (4 - (n % 4)) % 4 \in 0..3
  OBVIOUS
<1> QED
  BY <1>1 DEF flush

PixelStates == [bits : Nat, out : Nat, kept : Nat]
ByteStates == [bytes : Nat, out : Nat, kept : Nat]

(* A code keeps the type of the decoder's state, and does this to it. *)
LEMMA PixelStepFacts ==
  ASSUME NEW st \in PixelStates, NEW c \in DOMAIN PixelBits
  PROVE  LET t == PixelStep(st, c)
         IN /\ t \in PixelStates
            /\ c = "pixel" => t.bits = st.bits + 4 /\ t.out = st.out + 1 /\ t.kept = st.kept + 1
            /\ c # "pixel" => /\ t.bits >= st.bits + 8 /\ t.kept = 0
                               /\ t.out <= st.out + flush(st.kept) + 2
<1>1. st.bits \in Nat /\ st.out \in Nat /\ st.kept \in Nat
  BY DEF PixelStates
<1>2. CASE c = "pixel"
  <2>1. PixelStep(st, c) = [bits |-> st.bits + 4, out |-> st.out + 1, kept |-> st.kept + 1]
    BY <1>2 DEF PixelStep
  <2> QED
    BY <1>1, <1>2, <2>1 DEF PixelStates
<1>3. CASE c # "pixel"
  <2> DEFINE w == IF c = "end" THEN 0 ELSE 2
  <2>1. PixelStep(st, c) = [bits |-> st.bits + PixelBits[c], out |-> st.out + flush(st.kept) + w, kept |-> 0]
    BY <1>3 DEF PixelStep
  <2>2. w \in Nat /\ w <= 2
    OBVIOUS
  <2>3. flush(st.kept) \in Nat
    BY <1>1, FlushBound
  <2>4. PixelBits[c] \in Nat /\ PixelBits[c] >= 8
    BY <1>3, PixelCodes
  <2> HIDE DEF w
  <2> QED
    BY <1>1, <1>3, <2>1, <2>2, <2>3, <2>4 DEF PixelStates
<1> QED
  BY <1>2, <1>3

(* The same for a code of an 8-bit string *)
LEMMA ByteStepFacts ==
  ASSUME NEW st \in ByteStates, NEW c \in DOMAIN ByteSize
  PROVE  LET t == ByteStep(st, c)
         IN /\ t \in ByteStates
            /\ c = "pixel" => t.bytes = st.bytes + 1 /\ t.out = st.out /\ t.kept = st.kept + 1
            /\ c # "pixel" => /\ t.bytes >= st.bytes + 2 /\ t.kept = 0
                               /\ t.out <= st.out + flush(st.kept) + 2
<1>1. st.bytes \in Nat /\ st.out \in Nat /\ st.kept \in Nat
  BY DEF ByteStates
<1>2. CASE c = "pixel"
  <2>1. ByteStep(st, c) = [st EXCEPT !.bytes = @ + 1, !.kept = @ + 1]
    BY <1>2 DEF ByteStep
  <2>2. ByteStep(st, c) = [bytes |-> st.bytes + 1, out |-> st.out, kept |-> st.kept + 1]
    BY <2>1 DEF ByteStates
  <2> QED
    BY <1>1, <1>2, <2>2 DEF ByteStates
<1>3. CASE c # "pixel"
  <2>1. ByteStep(st, c) = [bytes |-> st.bytes + ByteSize[c], out |-> st.out + flush(st.kept) + ByteOut[c],
                           kept |-> 0]
    BY <1>3 DEF ByteStep
  <2>2. flush(st.kept) \in Nat
    BY <1>1, FlushBound
  <2>3. ByteSize[c] \in Nat /\ ByteSize[c] >= 2 /\ ByteOut[c] \in Nat /\ ByteOut[c] <= 2
    BY <1>3, ByteCodes
  <2> QED
    BY <1>1, <1>3, <2>1, <2>2, <2>3 DEF ByteStates
<1> QED
  BY <1>2, <1>3

(* A 4-bit string is decoded code by code. *)
LEMMA PixelTrace ==
  ASSUME NEW q \in Seq(DOMAIN PixelBits)
  PROVE  Traced(PixelStates, Len(q), [bits |-> 0, out |-> 0, kept |-> 0],
                [x \in PixelStates \X (1..Len(q)) |-> PixelStep(x[1], q[x[2]])],
                FoldLeft(PixelStep, [bits |-> 0, out |-> 0, kept |-> 0], q))
<1> DEFINE n == Len(q)
           b == [bits |-> 0, out |-> 0, kept |-> 0]
           G == [x \in PixelStates \X (1..n) |-> PixelStep(x[1], q[x[2]])]
           Eq(f) == f = [s \in SUBSET (DOMAIN q) |->
                           IF s = {} THEN b ELSE PixelStep(f[s \ {Max(s)}], q[Max(s)])]
           iter == CHOOSE f : Eq(f)
<1>0. n \in Nat /\ DOMAIN q = 1..n
  OBVIOUS
<1>1. FoldLeft(PixelStep, [bits |-> 0, out |-> 0, kept |-> 0], q) = iter[1..n]
  <2>1. FoldLeft(PixelStep, [bits |-> 0, out |-> 0, kept |-> 0], q) = iter[DOMAIN q]
    BY Zenon DEF FoldLeft, MapThenFoldSet
  <2> QED
    BY <1>0, <2>1, Zenon
<1>a. \A x \in PixelStates, i \in 1..n : PixelStep(x, q[i]) \in PixelStates
  <2>1. \A i \in 1..n : q[i] \in DOMAIN PixelBits
    OBVIOUS
  <2> QED
    BY <2>1, PixelStepFacts
<1>2. G \in [PixelStates \X (1..n) -> PixelStates]
  BY <1>a
<1>3. \A x \in PixelStates, i \in 1..n : G[<<x, i>>] = PixelStep(x, q[i])
  BY Zenon
<1>b. b \in PixelStates
  BY DEF PixelStates
<1> HIDE DEF n, G, b
<1>4. PICK f \in [SUBSET (1..n) -> PixelStates] :
        \A s \in SUBSET (1..n) : f[s] = IF s = {} THEN b ELSE G[<<f[s \ {Max(s)}], Max(s)>>]
  <2>1. Folding(PixelStates, n, b, G)
    BY <1>0, <1>2, <1>b, FoldExists
  <2> QED
    BY <2>1 DEF Folding
<1>5. \A s \in SUBSET (1..n) : s # {} => Max(s) \in 1..n
  BY <1>0, MaxIn
<1>6. Eq(f)
  <2>1. f = [s \in SUBSET (1..n) |-> f[s]]
    OBVIOUS
  <2>2. ASSUME NEW s \in SUBSET (1..n)
        PROVE  f[s] = IF s = {} THEN b ELSE PixelStep(f[s \ {Max(s)}], q[Max(s)])
    <3>1. f[s \ {Max(s)}] \in PixelStates
      OBVIOUS
    <3> QED
      BY <1>3, <1>4, <1>5, <3>1, Zenon
  <2> QED
    BY <1>0, <2>1, <2>2, Zenon
<1>7. Eq(iter)
  <2> HIDE DEF Eq
  <2> QED
    BY <1>6
<1> HIDE DEF iter
<1>8. \A s \in SUBSET (1..n) :
        iter[s] = IF s = {} THEN b ELSE PixelStep(iter[s \ {Max(s)}], q[Max(s)])
  <2>1. iter = [s \in SUBSET (1..n) |->
                  IF s = {} THEN b ELSE PixelStep(iter[s \ {Max(s)}], q[Max(s)])]
    BY <1>0, <1>7, Zenon
  <2> QED
    BY <2>1, Zenon
<1>9. iter[{}] = b /\ \A s \in SUBSET (1..n) :
        s # {} /\ iter[s \ {Max(s)}] \in PixelStates => iter[s] = G[<<iter[s \ {Max(s)}], Max(s)>>]
  <2>1. {} \in SUBSET (1..n)
    OBVIOUS
  <2> QED
    BY <1>3, <1>5, <1>8, <2>1, Zenon
<1>10. Traced(PixelStates, n, b, G, iter[1..n])
  BY <1>0, <1>2, <1>9, <1>b, FoldTrace
<1> QED
  BY <1>1, <1>10, Zenon DEF n, G, b

(* An 8-bit string is decoded code by code. *)
LEMMA ByteTrace ==
  ASSUME NEW q \in Seq(DOMAIN ByteSize)
  PROVE  Traced(ByteStates, Len(q), [bytes |-> 0, out |-> 0, kept |-> 0],
                [x \in ByteStates \X (1..Len(q)) |-> ByteStep(x[1], q[x[2]])],
                FoldLeft(ByteStep, [bytes |-> 0, out |-> 0, kept |-> 0], q))
<1> DEFINE n == Len(q)
           b == [bytes |-> 0, out |-> 0, kept |-> 0]
           G == [x \in ByteStates \X (1..n) |-> ByteStep(x[1], q[x[2]])]
           Eq(f) == f = [s \in SUBSET (DOMAIN q) |->
                           IF s = {} THEN b ELSE ByteStep(f[s \ {Max(s)}], q[Max(s)])]
           iter == CHOOSE f : Eq(f)
<1>0. n \in Nat /\ DOMAIN q = 1..n
  OBVIOUS
<1>1. FoldLeft(ByteStep, [bytes |-> 0, out |-> 0, kept |-> 0], q) = iter[1..n]
  <2>1. FoldLeft(ByteStep, [bytes |-> 0, out |-> 0, kept |-> 0], q) = iter[DOMAIN q]
    BY Zenon DEF FoldLeft, MapThenFoldSet
  <2> QED
    BY <1>0, <2>1, Zenon
<1>a. \A x \in ByteStates, i \in 1..n : ByteStep(x, q[i]) \in ByteStates
  <2>1. \A i \in 1..n : q[i] \in DOMAIN ByteSize
    OBVIOUS
  <2> QED
    BY <2>1, ByteStepFacts
<1>2. G \in [ByteStates \X (1..n) -> ByteStates]
  BY <1>a
<1>3. \A x \in ByteStates, i \in 1..n : G[<<x, i>>] = ByteStep(x, q[i])
  BY Zenon
<1>b. b \in ByteStates
  BY DEF ByteStates
<1> HIDE DEF n, G, b
<1>4. PICK f \in [SUBSET (1..n) -> ByteStates] :
        \A s \in SUBSET (1..n) : f[s] = IF s = {} THEN b ELSE G[<<f[s \ {Max(s)}], Max(s)>>]
  <2>1. Folding(ByteStates, n, b, G)
    BY <1>0, <1>2, <1>b, FoldExists
  <2> QED
    BY <2>1 DEF Folding
<1>5. \A s \in SUBSET (1..n) : s # {} => Max(s) \in 1..n
  BY <1>0, MaxIn
<1>6. Eq(f)
  <2>1. f = [s \in SUBSET (1..n) |-> f[s]]
    OBVIOUS
  <2>2. ASSUME NEW s \in SUBSET (1..n)
        PROVE  f[s] = IF s = {} THEN b ELSE ByteStep(f[s \ {Max(s)}], q[Max(s)])
    <3>1. f[s \ {Max(s)}] \in ByteStates
      OBVIOUS
    <3> QED
      BY <1>3, <1>4, <1>5, <3>1, Zenon
  <2> QED
    BY <1>0, <2>1, <2>2, Zenon
<1>7. Eq(iter)
  <2> HIDE DEF Eq
  <2> QED
    BY <1>6
<1> HIDE DEF iter
<1>8. \A s \in SUBSET (1..n) :
        iter[s] = IF s = {} THEN b ELSE ByteStep(iter[s \ {Max(s)}], q[Max(s)])
  <2>1. iter = [s \in SUBSET (1..n) |->
                  IF s = {} THEN b ELSE ByteStep(iter[s \ {Max(s)}], q[Max(s)])]
    BY <1>0, <1>7, Zenon
  <2> QED
    BY <2>1, Zenon
<1>9. iter[{}] = b /\ \A s \in SUBSET (1..n) :
        s # {} /\ iter[s \ {Max(s)}] \in ByteStates => iter[s] = G[<<iter[s \ {Max(s)}], Max(s)>>]
  <2>1. {} \in SUBSET (1..n)
    OBVIOUS
  <2> QED
    BY <1>3, <1>5, <1>8, <2>1, Zenon
<1>10. Traced(ByteStates, n, b, G, iter[1..n])
  BY <1>0, <1>2, <1>9, <1>b, FoldTrace
<1> QED
  BY <1>1, <1>10, Zenon DEF n, G, b

(* What a decoder has written stays within four bytes for each byte taken,
   with room for the pixels that are kept. *)
Within4(x) == 2 * x.out + 2 * x.kept <= x.bits
Within8(x) == x.out + 4 * x.kept <= 4 * x.bytes

(* A code of a 4-bit string keeps the bound while at most two pixels are
   kept. *)
LEMMA Within4Step ==
  ASSUME NEW x \in PixelStates, NEW y \in PixelStates, Within4(x),
         \/ y.bits = x.bits + 4 /\ y.out = x.out + 1 /\ y.kept = x.kept + 1
         \/ /\ y.bits >= x.bits + 8 /\ y.kept = 0 /\ y.out <= x.out + flush(x.kept) + 2
            /\ x.kept <= 2
  PROVE  Within4(y)
<1>1. /\ x.bits \in Nat /\ x.out \in Nat /\ x.kept \in Nat
      /\ y.bits \in Nat /\ y.out \in Nat /\ y.kept \in Nat
  BY DEF PixelStates
<1>2. x.kept <= 2 => flush(x.kept) = 2 * x.kept
  BY <1>1, FlushBound
<1> QED
  BY <1>1, <1>2 DEF Within4

(* Any code of an 8-bit string keeps it. *)
LEMMA Within8Step ==
  ASSUME NEW x \in ByteStates, NEW y \in ByteStates, Within8(x),
         \/ y.bytes = x.bytes + 1 /\ y.out = x.out /\ y.kept = x.kept + 1
         \/ y.bytes >= x.bytes + 2 /\ y.kept = 0 /\ y.out <= x.out + flush(x.kept) + 2
  PROVE  Within8(y)
<1>1. /\ x.bytes \in Nat /\ x.out \in Nat /\ x.kept \in Nat
      /\ y.bytes \in Nat /\ y.out \in Nat /\ y.kept \in Nat
  BY DEF ByteStates
<1>2. flush(x.kept) \in Nat /\ flush(x.kept) <= 4 * x.kept
  BY <1>1, FlushBound
<1> QED
  BY <1>1, <1>2 DEF Within8

(* A 4-bit string writes at most four bytes for each byte it takes, unless it
   has three pixels in a row. *)
LEMMA FourBitBound ==
  ASSUME NEW q \in Seq(DOMAIN PixelBits)
  PROVE  LET r == read_4bit_pixel_code_string(q)
         IN /\ r.bytes \in Nat /\ r.out \in Nat
            /\ ~(\E i \in 1..(Len(q) - 2) : \A j \in i..(i + 2) : q[j] = "pixel") =>
                 r.out <= 4 * r.bytes
<1> DEFINE n == Len(q)
           G == [x \in PixelStates \X (1..n) |-> PixelStep(x[1], q[x[2]])]
           st == FoldLeft(PixelStep, [bits |-> 0, out |-> 0, kept |-> 0], q)
           r == read_4bit_pixel_code_string(q)
<1>1. Traced(PixelStates, n, [bits |-> 0, out |-> 0, kept |-> 0], G, st)
  BY PixelTrace, Zenon
<1>2. r = [bytes |-> (st.bits + 7) \div 8, out |-> st.out]
  BY Zenon DEF read_4bit_pixel_code_string
<1>3. n \in Nat /\ \A i \in 1..n : q[i] \in DOMAIN PixelBits
  OBVIOUS
<1>4. \A x \in PixelStates, i \in 1..n : G[<<x, i>>] = PixelStep(x, q[i])
  BY Zenon
<1> HIDE DEF G, n, st, r
<1>5. PICK g \in [0..n -> PixelStates] : /\ g[0] = [bits |-> 0, out |-> 0, kept |-> 0] /\ st = g[n]
                                        /\ \A i \in 1..n : g[i] = G[<<g[i - 1], i>>]
  BY <1>1, Zenon DEF Traced
<1>6. st \in PixelStates
  BY <1>3, <1>5
<1>7. st.bits \in Nat /\ st.out \in Nat
  BY <1>6 DEF PixelStates
<1>8. r.bytes = (st.bits + 7) \div 8 /\ r.out = st.out
  BY <1>2
<1>9. r.bytes \in Nat /\ r.out \in Nat /\ 8 * r.bytes >= st.bits
  BY <1>7, <1>8
<1>10. ASSUME ~(\E i \in 1..(n - 2) : \A j \in i..(i + 2) : q[j] = "pixel")
       PROVE  r.out <= 4 * r.bytes
  <2> DEFINE Ok(i) == /\ Within4(g[i]) /\ g[i].kept <= 2
                      /\ g[i].kept <= i /\ \A j \in 1..i : j > i - g[i].kept => q[j] = "pixel"
             T == {i \in 0..n : Ok(i)}
  <2>1. 0 \in T
    BY <1>3, <1>5 DEF Within4
  <2>2. ASSUME NEW i \in 1..n, i - 1 \in T PROVE i \in T
    <3>1. Ok(i - 1) /\ i - 1 \in 0..n /\ i \in Nat /\ i \in 0..n
      BY <1>3, <2>2
    <3> DEFINE x == g[i - 1]
               y == g[i]
    <3>2. x \in PixelStates /\ y = PixelStep(x, q[i]) /\ q[i] \in DOMAIN PixelBits
      BY <1>3, <1>4, <1>5, <3>1
    <3>3. /\ Within4(x) /\ x.kept <= 2 /\ x.kept <= i - 1
          /\ \A j \in 1..(i - 1) : j > i - 1 - x.kept => q[j] = "pixel"
      BY <3>1
    <3>4. y \in PixelStates
      BY <1>5, <3>1
    <3>0. Ok(i) => i \in T
      BY <3>1
    <3> HIDE DEF x, y, Ok, T
    <3>5. /\ x.bits \in Nat /\ x.out \in Nat /\ x.kept \in Nat
          /\ y.bits \in Nat /\ y.out \in Nat /\ y.kept \in Nat
      BY <3>2, <3>4 DEF PixelStates
    <3>6. CASE q[i] = "pixel"
      <4>1. y.bits = x.bits + 4 /\ y.out = x.out + 1 /\ y.kept = x.kept + 1
        BY <3>2, <3>6, PixelStepFacts
      <4>2. x.kept # 2
        <5> SUFFICES ASSUME x.kept = 2 PROVE FALSE
          OBVIOUS
        <5>1. i - 2 \in 1..(n - 2)
          BY <1>3, <3>1, <3>3
        <5>2. ASSUME NEW j \in (i - 2)..((i - 2) + 2) PROVE q[j] = "pixel"
          <6>1. j = i \/ (j \in 1..(i - 1) /\ j > i - 1 - x.kept)
            BY <3>1, <5>1
          <6> QED
            BY <3>3, <3>6, <6>1
        <5> QED
          BY <1>10, <5>1, <5>2
      <4>3. \A j \in 1..i : j > i - y.kept => q[j] = "pixel"
        <5> TAKE j \in 1..i
        <5>1. j = i \/ j \in 1..(i - 1)
          BY <3>1
        <5>2. j > i - y.kept => j > i - 1 - x.kept
          BY <3>1, <3>5, <4>1
        <5> QED
          BY <3>3, <3>6, <5>1, <5>2
      <4>6. Within4(y)
        BY <3>2, <3>3, <3>4, <4>1, Within4Step
      <4>4. Within4(y) /\ y.kept <= 2 /\ y.kept <= i
        BY <3>1, <3>3, <3>5, <4>1, <4>2, <4>6
      <4>5. Ok(i)
        BY <4>3, <4>4 DEF Ok, y
      <4> QED
        BY <3>0, <4>5
    <3>7. CASE q[i] # "pixel"
      <4>1. y.bits >= x.bits + 8 /\ y.kept = 0 /\ y.out <= x.out + flush(x.kept) + 2
        BY <3>2, <3>7, PixelStepFacts
      <4>2. Within4(y)
        BY <3>2, <3>3, <3>4, <4>1, Within4Step
      <4>3. Within4(y) /\ y.kept <= 2 /\ y.kept <= i
        BY <3>1, <3>5, <4>1, <4>2
      <4>4. \A j \in 1..i : ~(j > i - y.kept)
        BY <3>1, <4>1
      <4>5. Ok(i)
        BY <4>3, <4>4 DEF Ok, y
      <4> QED
        BY <3>0, <4>5
    <3> QED
      BY <3>6, <3>7
  <2>3. Ok(n)
    <3> HIDE DEF T, Ok
    <3>1. \A i \in 0..n : i \in T
      BY <1>3, <2>1, <2>2, IntervalInduction
    <3>2. n \in T
      BY <1>3, <3>1
    <3> QED
      BY <3>2 DEF T
  <2>4. 2 * st.out + 2 * st.kept <= st.bits /\ st.kept \in Nat
    BY <1>5, <1>6, <2>3 DEF PixelStates, Within4
  <2>5. 2 * st.out <= st.bits
    BY <1>7, <2>4
  <2> QED
    BY <1>7, <1>8, <1>9, <2>5
<1> QED
  BY <1>9, <1>10 DEF n, r

(* An 8-bit string always does. *)
LEMMA EightBitBound ==
  ASSUME NEW q \in Seq(DOMAIN ByteSize)
  PROVE  LET r == read_8bit_pixel_code_string(q)
         IN r.bytes \in Nat /\ r.out \in Nat /\ r.out <= 4 * r.bytes
<1> DEFINE n == Len(q)
           G == [x \in ByteStates \X (1..n) |-> ByteStep(x[1], q[x[2]])]
           r == read_8bit_pixel_code_string(q)
<1>1. Traced(ByteStates, n, [bytes |-> 0, out |-> 0, kept |-> 0], G, r)
  BY ByteTrace, Zenon DEF read_8bit_pixel_code_string
<1>2. n \in Nat /\ \A i \in 1..n : q[i] \in DOMAIN ByteSize
  OBVIOUS
<1>3. \A x \in ByteStates, i \in 1..n : G[<<x, i>>] = ByteStep(x, q[i])
  BY Zenon
<1> HIDE DEF G, n, r
<1>4. PICK g \in [0..n -> ByteStates] : /\ g[0] = [bytes |-> 0, out |-> 0, kept |-> 0] /\ r = g[n]
                                       /\ \A i \in 1..n : g[i] = G[<<g[i - 1], i>>]
  BY <1>1, Zenon DEF Traced
<1> DEFINE T == {i \in 0..n : Within8(g[i])}
<1>5. 0 \in T
  BY <1>2, <1>4 DEF Within8
<1>6. ASSUME NEW i \in 1..n, i - 1 \in T PROVE i \in T
  <2> DEFINE x == g[i - 1]
             y == g[i]
  <2>1. Within8(x) /\ i - 1 \in 0..n /\ i \in 0..n
    BY <1>2, <1>6
  <2>2. x \in ByteStates /\ y = ByteStep(x, q[i]) /\ q[i] \in DOMAIN ByteSize /\ y \in ByteStates
    BY <1>2, <1>3, <1>4, <2>1
  <2>0. Within8(y) => i \in T
    BY <2>1
  <2> HIDE DEF x, y, T
  <2>4. CASE q[i] = "pixel"
    <3>1. y.bytes = x.bytes + 1 /\ y.out = x.out /\ y.kept = x.kept + 1
      BY <2>2, <2>4, ByteStepFacts
    <3>2. Within8(y)
      BY <2>1, <2>2, <3>1, Within8Step
    <3> QED
      BY <2>0, <3>2
  <2>5. CASE q[i] # "pixel"
    <3>1. y.bytes >= x.bytes + 2 /\ y.kept = 0 /\ y.out <= x.out + flush(x.kept) + 2
      BY <2>2, <2>5, ByteStepFacts
    <3>2. Within8(y)
      BY <2>1, <2>2, <3>1, Within8Step
    <3> QED
      BY <2>0, <3>2
  <2> QED
    BY <2>4, <2>5
<1>7. Within8(r)
  <2> HIDE DEF T
  <2>1. \A i \in 0..n : i \in T
    BY <1>2, <1>5, <1>6, IntervalInduction
  <2>2. n \in T
    BY <1>2, <2>1
  <2> QED
    BY <1>4, <2>2 DEF T
<1>8. r.bytes \in Nat /\ r.out \in Nat /\ r.kept \in Nat
  BY <1>2, <1>4 DEF ByteStates
<1>9. r.out <= 4 * r.bytes
  BY <1>7, <1>8 DEF Within8
<1> QED
  BY <1>8, <1>9 DEF r

(* A sub-block keeps what is decoded within four bytes for each byte taken. *)
LEMMA BlockBound ==
  ASSUME NEW b \in SubBlocks, NEW dec \in Nat
  PROVE  LET r == read_pixel_data_sub_block(b, dec)
         IN /\ r.bytes \in Nat /\ r.dec \in Nat
            /\ ~LongRun(b) => r.dec <= dec + 4 * r.bytes
<1>1. /\ b.data_type \in Nat
      /\ b.data_type = 17 => b.codes \in Seq(DOMAIN PixelBits)
      /\ b.data_type = 18 => b.codes \in Seq(DOMAIN ByteSize)
  BY DEF SubBlocks
<1> DEFINE r == read_pixel_data_sub_block(b, dec)
<1>2. CASE b.data_type = 17
  <2> DEFINE s == read_4bit_pixel_code_string(b.codes)
  <2>1. r = [bytes |-> 1 + s.bytes, dec |-> dec + s.out]
    BY <1>2 DEF read_pixel_data_sub_block
  <2>2. s.bytes \in Nat /\ s.out \in Nat /\ (~LongRun(b) => s.out <= 4 * s.bytes)
    BY <1>1, <1>2, FourBitBound DEF LongRun
  <2> HIDE DEF s
  <2>3. r.bytes = 1 + s.bytes /\ r.dec = dec + s.out
    BY <2>1
  <2> HIDE DEF r
  <2> QED
    BY <2>2, <2>3 DEF r
<1>3. CASE b.data_type = 18
  <2> DEFINE s == read_8bit_pixel_code_string(b.codes)
  <2>1. r = [bytes |-> 1 + s.bytes, dec |-> s.out]
    BY <1>3 DEF read_pixel_data_sub_block
  <2>2. s.bytes \in Nat /\ s.out \in Nat /\ s.out <= 4 * s.bytes
    BY <1>1, <1>3, EightBitBound
  <2> HIDE DEF s
  <2>3. r.bytes = 1 + s.bytes /\ r.dec = s.out
    BY <2>1
  <2> HIDE DEF r
  <2> QED
    BY <2>2, <2>3 DEF r
<1>4. CASE b.data_type # 17 /\ b.data_type # 18
  <2>1. \E m \in {1, 3, 5, 17} : r = [bytes |-> m, dec |-> dec] \/ r = [bytes |-> m, dec |-> dec + 2]
    BY <1>1, <1>4 DEF read_pixel_data_sub_block
  <2>2. r.bytes \in {1, 3, 5, 17} /\ (r.dec = dec \/ r.dec = dec + 2)
    BY <2>1
  <2> HIDE DEF r
  <2> QED
    BY <2>2 DEF r
<1> QED
  BY <1>2, <1>3, <1>4

FieldStates == [bytes : Nat, dec : Nat, top : Nat]

(* What Field does with one sub-block *)
FieldStep(f, b) ==
  LET r == read_pixel_data_sub_block(b, f.dec)
  IN [bytes |-> f.bytes + r.bytes, dec |-> r.dec, top |-> IF r.dec > f.top THEN r.dec ELSE f.top]

(* A field is within bounds when what is decoded is. *)
WithinField(f) == f.dec <= 4 * f.bytes /\ f.top <= 4 * f.bytes

(* A sub-block without a long run keeps a field within bounds. *)
LEMMA FieldStepFacts ==
  ASSUME NEW f \in FieldStates, NEW b \in SubBlocks
  PROVE  /\ FieldStep(f, b) \in FieldStates
         /\ WithinField(f) /\ ~LongRun(b) => WithinField(FieldStep(f, b))
<1> DEFINE r == read_pixel_data_sub_block(b, f.dec)
           t == IF r.dec > f.top THEN r.dec ELSE f.top
           y == FieldStep(f, b)
<1>1. f.bytes \in Nat /\ f.dec \in Nat /\ f.top \in Nat
  BY DEF FieldStates
<1>2. r.bytes \in Nat /\ r.dec \in Nat /\ (~LongRun(b) => r.dec <= f.dec + 4 * r.bytes)
  BY <1>1, BlockBound
<1>3. y = [bytes |-> f.bytes + r.bytes, dec |-> r.dec, top |-> t]
  BY Zenon DEF FieldStep
<1>4. t \in Nat /\ (t = r.dec \/ t = f.top)
  BY <1>1, <1>2
<1> HIDE DEF r, t
<1>5. y.bytes = f.bytes + r.bytes /\ y.dec = r.dec /\ y.top = t /\ y \in FieldStates
  BY <1>1, <1>2, <1>3, <1>4 DEF FieldStates
<1> HIDE DEF y
<1>6. WithinField(f) /\ ~LongRun(b) => WithinField(y)
  <2> SUFFICES ASSUME WithinField(f), ~LongRun(b) PROVE WithinField(y)
    OBVIOUS
  <2>1. r.dec <= 4 * (f.bytes + r.bytes) /\ f.top <= 4 * (f.bytes + r.bytes)
    BY <1>1, <1>2 DEF WithinField
  <2> QED
    BY <1>4, <1>5, <2>1 DEF WithinField
<1> QED
  BY <1>5, <1>6 DEF y

(* A field is read sub-block by sub-block. *)
LEMMA FieldTrace ==
  ASSUME NEW q \in Seq(SubBlocks)
  PROVE  Traced(FieldStates, Len(q), [bytes |-> 0, dec |-> 0, top |-> 0],
                [x \in FieldStates \X (1..Len(q)) |-> FieldStep(x[1], q[x[2]])],
                Field(q))
<1> DEFINE n == Len(q)
           b == [bytes |-> 0, dec |-> 0, top |-> 0]
           G == [x \in FieldStates \X (1..n) |-> FieldStep(x[1], q[x[2]])]
           Eq(f) == f = [s \in SUBSET (DOMAIN q) |->
                           IF s = {} THEN b ELSE FieldStep(f[s \ {Max(s)}], q[Max(s)])]
           iter == CHOOSE f : Eq(f)
<1>0. n \in Nat /\ DOMAIN q = 1..n
  OBVIOUS
<1>1. Field(q) = iter[1..n]
  <2>1. Field(q) = iter[DOMAIN q]
    BY Zenon DEF FoldLeft, MapThenFoldSet, Field, FieldStep
  <2> QED
    BY <1>0, <2>1, Zenon
<1>a. \A x \in FieldStates, i \in 1..n : FieldStep(x, q[i]) \in FieldStates
  <2>1. \A i \in 1..n : q[i] \in SubBlocks
    OBVIOUS
  <2> QED
    BY <2>1, FieldStepFacts
<1>2. G \in [FieldStates \X (1..n) -> FieldStates]
  BY <1>a
<1>3. \A x \in FieldStates, i \in 1..n : G[<<x, i>>] = FieldStep(x, q[i])
  BY Zenon
<1>b. b \in FieldStates
  BY DEF FieldStates
<1> HIDE DEF n, G, b
<1>4. PICK f \in [SUBSET (1..n) -> FieldStates] :
        \A s \in SUBSET (1..n) : f[s] = IF s = {} THEN b ELSE G[<<f[s \ {Max(s)}], Max(s)>>]
  <2>1. Folding(FieldStates, n, b, G)
    BY <1>0, <1>2, <1>b, FoldExists
  <2> QED
    BY <2>1 DEF Folding
<1>5. \A s \in SUBSET (1..n) : s # {} => Max(s) \in 1..n
  BY <1>0, MaxIn
<1>6. Eq(f)
  <2>1. f = [s \in SUBSET (1..n) |-> f[s]]
    OBVIOUS
  <2>2. ASSUME NEW s \in SUBSET (1..n)
        PROVE  f[s] = IF s = {} THEN b ELSE FieldStep(f[s \ {Max(s)}], q[Max(s)])
    <3>1. f[s \ {Max(s)}] \in FieldStates
      OBVIOUS
    <3> QED
      BY <1>3, <1>4, <1>5, <3>1, Zenon
  <2> QED
    BY <1>0, <2>1, <2>2, Zenon
<1>7. Eq(iter)
  <2> HIDE DEF Eq
  <2> QED
    BY <1>6
<1> HIDE DEF iter
<1>8. \A s \in SUBSET (1..n) :
        iter[s] = IF s = {} THEN b ELSE FieldStep(iter[s \ {Max(s)}], q[Max(s)])
  <2>1. iter = [s \in SUBSET (1..n) |->
                  IF s = {} THEN b ELSE FieldStep(iter[s \ {Max(s)}], q[Max(s)])]
    BY <1>0, <1>7, Zenon
  <2> QED
    BY <2>1, Zenon
<1>9. iter[{}] = b /\ \A s \in SUBSET (1..n) :
        s # {} /\ iter[s \ {Max(s)}] \in FieldStates => iter[s] = G[<<iter[s \ {Max(s)}], Max(s)>>]
  <2>1. {} \in SUBSET (1..n)
    OBVIOUS
  <2> QED
    BY <1>3, <1>5, <1>8, <2>1, Zenon
<1>10. Traced(FieldStates, n, b, G, iter[1..n])
  BY <1>0, <1>2, <1>9, <1>b, FoldTrace
<1> QED
  BY <1>1, <1>10, Zenon DEF n, G, b

(* Reading a field writes at most four bytes for each byte it takes, unless a
   4-bit string in it has three pixels in a row. *)
LEMMA FieldBound ==
  ASSUME NEW q \in Seq(SubBlocks)
  PROVE  /\ Field(q).bytes \in Nat /\ Field(q).top \in Nat
         /\ (\A i \in DOMAIN q : ~LongRun(q[i])) => Field(q).top <= 4 * Field(q).bytes
<1> DEFINE n == Len(q)
           G == [x \in FieldStates \X (1..n) |-> FieldStep(x[1], q[x[2]])]
           r == Field(q)
<1>1. Traced(FieldStates, n, [bytes |-> 0, dec |-> 0, top |-> 0], G, r)
  BY FieldTrace, Zenon
<1>2. n \in Nat /\ DOMAIN q = 1..n /\ \A i \in 1..n : q[i] \in SubBlocks
  OBVIOUS
<1>3. \A x \in FieldStates, i \in 1..n : G[<<x, i>>] = FieldStep(x, q[i])
  BY Zenon
<1> HIDE DEF G, n, r
<1>4. PICK g \in [0..n -> FieldStates] : /\ g[0] = [bytes |-> 0, dec |-> 0, top |-> 0] /\ r = g[n]
                                         /\ \A i \in 1..n : g[i] = G[<<g[i - 1], i>>]
  BY <1>1, Zenon DEF Traced
<1>5. r \in FieldStates
  BY <1>2, <1>4
<1>6. r.bytes \in Nat /\ r.top \in Nat
  BY <1>5 DEF FieldStates
<1>7. ASSUME \A i \in DOMAIN q : ~LongRun(q[i]) PROVE WithinField(r)
  <2> DEFINE T == {i \in 0..n : WithinField(g[i])}
  <2>1. 0 \in T
    <3>1. WithinField(g[0])
      BY <1>4 DEF WithinField
    <3> QED
      BY <1>2, <3>1
  <2>2. ASSUME NEW i \in 1..n, i - 1 \in T PROVE i \in T
    <3>1. WithinField(g[i - 1]) /\ i - 1 \in 0..n /\ i \in 0..n
      BY <1>2, <2>2
    <3>2. g[i - 1] \in FieldStates /\ q[i] \in SubBlocks /\ ~LongRun(q[i])
      BY <1>2, <1>4, <1>7, <3>1
    <3>3. g[i] = FieldStep(g[i - 1], q[i])
      BY <1>3, <1>4, <3>2
    <3>4. WithinField(g[i])
      BY <3>1, <3>2, <3>3, FieldStepFacts
    <3> QED
      BY <3>1, <3>4
  <2> HIDE DEF T
  <2>3. \A i \in 0..n : i \in T
    BY <1>2, <2>1, <2>2, IntervalInduction
  <2>4. n \in T
    BY <1>2, <2>3
  <2> QED
    BY <1>4, <2>4 DEF T
<1> QED
  BY <1>6, <1>7 DEF r, WithinField

(* The parts of a sum of positive numbers are below the sum. *)
LEMMA TotalGrows ==
  ASSUME NEW n \in Nat, NEW h \in [0..n -> Nat], \A i \in 1..n : h[i] > h[i - 1]
  PROVE  \A i \in 1..n : h[i - 1] < h[n]
<1> DEFINE T == {k \in 0..n : h[n - k] + k <= h[n]}
<1>1. 0 \in T
  <2>1. n \in 0..n /\ n - 0 = n /\ 0 \in 0..n
    OBVIOUS
  <2>2. h[n] \in Nat
    BY <2>1
  <2> QED
    BY <2>1, <2>2
<1>2. ASSUME NEW k \in 1..n, k - 1 \in T PROVE k \in T
  <2>1. n - (k - 1) \in 1..n /\ n - k \in 0..n /\ (n - (k - 1)) - 1 = n - k /\ k \in 0..n /\ n \in 0..n
    OBVIOUS
  <2> DEFINE a == h[n - k]
             b == h[n - (k - 1)]
  <2>2. a \in Nat /\ b \in Nat /\ h[n] \in Nat
    BY <2>1
  <2>3. b + (k - 1) <= h[n]
    BY <1>2
  <2>4. b > a
    <3>1. b > h[(n - (k - 1)) - 1]
      BY <2>1
    <3> QED
      BY <2>1, <3>1
  <2> HIDE DEF a, b
  <2>5. a + k <= h[n]
    BY <2>2, <2>3, <2>4
  <2> QED
    BY <2>1, <2>5 DEF a
<1> HIDE DEF T
<1>3. \A k \in 0..n : k \in T
  BY <1>1, <1>2, IntervalInduction
<1>4. ASSUME NEW i \in 1..n PROVE h[i - 1] < h[n]
  <2>1. n - (i - 1) \in 0..n /\ n - (n - (i - 1)) = i - 1 /\ n - (i - 1) > 0 /\ i - 1 \in 0..n /\ n \in 0..n
    OBVIOUS
  <2>2. n - (i - 1) \in T
    BY <1>3, <2>1
  <2>3. h[n - (n - (i - 1))] + (n - (i - 1)) <= h[n]
    BY <2>2 DEF T
  <2>4. h[i - 1] + (n - (i - 1)) <= h[n]
    BY <2>1, <2>3
  <2>5. h[i - 1] \in Nat /\ h[n] \in Nat
    BY <2>1
  <2> QED
    BY <2>1, <2>4, <2>5
<1> QED
  BY <1>4

(* What a loop does with one entry *)
LoopStep(s, limit, x, e) == IF x < limit THEN x + EntryBytes(s, e) ELSE x

(* The entries a loop takes while it is below the limit *)
LoopFold(s, limit) ==
  FoldLeft(LAMBDA x, e : IF x < limit THEN x + EntryBytes(s, e) ELSE x, FixedBytes(s), s.entries)

(* A loop goes through the entries one by one. *)
LEMMA EntriesTrace ==
  ASSUME NEW z, z.entries \in Seq(Nat), FixedBytes(z) \in Nat, NEW limit \in Nat,
         \A i \in DOMAIN z.entries : EntryBytes(z, z.entries[i]) \in Nat
  PROVE  Traced(Nat, Len(z.entries), FixedBytes(z),
                [x \in Nat \X (1..Len(z.entries)) |-> LoopStep(z, limit, x[1], z.entries[x[2]])],
                LoopFold(z, limit))
<1> DEFINE n == Len(z.entries)
           b == FixedBytes(z)
           G == [x \in Nat \X (1..n) |-> LoopStep(z, limit, x[1], z.entries[x[2]])]
           Eq(f) == f = [s \in SUBSET (DOMAIN z.entries) |->
                           IF s = {} THEN b ELSE LoopStep(z, limit, f[s \ {Max(s)}], z.entries[Max(s)])]
           iter == CHOOSE f : Eq(f)
<1>0. n \in Nat /\ DOMAIN z.entries = 1..n
  OBVIOUS
<1>1. LoopFold(z, limit) = iter[1..n]
  <2>1. LoopFold(z, limit) = iter[DOMAIN z.entries]
    BY Zenon DEF FoldLeft, MapThenFoldSet, LoopFold, LoopStep
  <2> QED
    BY <1>0, <2>1, Zenon
<1>a. \A x \in Nat, i \in 1..n : LoopStep(z, limit, x, z.entries[i]) \in Nat
  <2>1. \A i \in 1..n : EntryBytes(z, z.entries[i]) \in Nat
    BY <1>0
  <2> SUFFICES ASSUME NEW x \in Nat, NEW i \in 1..n
               PROVE  LoopStep(z, limit, x, z.entries[i]) \in Nat
    BY Zenon
  <2> HIDE DEF n
  <2>2. EntryBytes(z, z.entries[i]) \in Nat
    BY <2>1, Zenon
  <2>3. x + EntryBytes(z, z.entries[i]) \in Nat
    BY <2>2
  <2> QED
    BY <2>3, Zenon DEF LoopStep
<1>2. G \in [Nat \X (1..n) -> Nat]
  BY <1>a
<1>3. \A x \in Nat, i \in 1..n : G[<<x, i>>] = LoopStep(z, limit, x, z.entries[i])
  BY Zenon
<1>b. b \in Nat
  BY DEF Looped
<1> HIDE DEF n, G, b
<1>4. PICK f \in [SUBSET (1..n) -> Nat] :
        \A s \in SUBSET (1..n) : f[s] = IF s = {} THEN b ELSE G[<<f[s \ {Max(s)}], Max(s)>>]
  <2>1. Folding(Nat, n, b, G)
    BY <1>0, <1>2, <1>b, FoldExists
  <2> QED
    BY <2>1 DEF Folding
<1>5. \A s \in SUBSET (1..n) : s # {} => Max(s) \in 1..n
  BY <1>0, MaxIn
<1>6. Eq(f)
  <2>1. f = [s \in SUBSET (1..n) |-> f[s]]
    OBVIOUS
  <2>2. ASSUME NEW s \in SUBSET (1..n)
        PROVE  f[s] = IF s = {} THEN b ELSE LoopStep(z, limit, f[s \ {Max(s)}], z.entries[Max(s)])
    <3>1. f[s \ {Max(s)}] \in Nat
      OBVIOUS
    <3> QED
      BY <1>3, <1>4, <1>5, <3>1, Zenon
  <2> QED
    BY <1>0, <2>1, <2>2, Zenon
<1>7. Eq(iter)
  <2> HIDE DEF Eq
  <2> QED
    BY <1>6
<1> HIDE DEF iter
<1>8. \A s \in SUBSET (1..n) :
        iter[s] = IF s = {} THEN b ELSE LoopStep(z, limit, iter[s \ {Max(s)}], z.entries[Max(s)])
  <2>1. iter = [s \in SUBSET (1..n) |->
                  IF s = {} THEN b ELSE LoopStep(z, limit, iter[s \ {Max(s)}], z.entries[Max(s)])]
    BY <1>0, <1>7, Zenon
  <2> QED
    BY <2>1, Zenon
<1>9. iter[{}] = b /\ \A s \in SUBSET (1..n) :
        s # {} /\ iter[s \ {Max(s)}] \in Nat => iter[s] = G[<<iter[s \ {Max(s)}], Max(s)>>]
  <2>1. {} \in SUBSET (1..n)
    OBVIOUS
  <2> QED
    BY <1>3, <1>5, <1>8, <2>1, Zenon
<1>10. Traced(Nat, n, b, G, iter[1..n])
  BY <1>0, <1>2, <1>9, <1>b, FoldTrace
<1> QED
  BY <1>1, <1>10, Zenon DEF n, G, b

(* A loop whose entries are as long by the code as by the syntax, and not
   empty, takes all of them and nothing more. *)
LEMMA LoopTaken ==
  ASSUME NEW s, s.entries \in Seq(Nat), FixedBytes(s) \in Nat, SyntaxFixed(s) = FixedBytes(s),
         \A i \in DOMAIN s.entries : /\ EntryBytes(s, s.entries[i]) \in Nat \ {0}
                                     /\ SyntaxEntry(s, s.entries[i]) = EntryBytes(s, s.entries[i])
  PROVE  SyntaxLength(s) \in Nat /\ Entries(s, SyntaxLength(s)) = SyntaxLength(s)
<1> DEFINE es == s.entries
           n == Len(es)
           limit == SyntaxLength(s)
           q == [i \in DOMAIN es |-> SyntaxEntry(s, es[i])]
           fold == LoopFold(s, limit)
           G == [x \in Nat \X (1..n) |-> LoopStep(s, limit, x[1], es[x[2]])]
           H == [x \in Nat \X (1..Len(q)) |-> x[1] + q[x[2]]]
<1>0. n \in Nat /\ DOMAIN es = 1..n
  OBVIOUS
<1>1. limit = FixedBytes(s) + Total(q)
  BY Zenon DEF SyntaxLength
<1>2. Entries(s, limit) = IF fold >= limit THEN fold
                          ELSE fold + ExtraEntry(s) * ((limit - fold + ExtraEntry(s) - 1) \div ExtraEntry(s))
  BY Zenon DEF Entries, LoopFold
<1>4. q \in Seq(Nat) /\ Len(q) = n /\ \A i \in 1..n : q[i] \in Nat /\ q[i] > 0 /\ EntryBytes(s, es[i]) = q[i]
  <2>1. \A i \in 1..n : SyntaxEntry(s, es[i]) \in Nat /\ SyntaxEntry(s, es[i]) > 0
    BY <1>0
  <2>2. q \in [1..n -> Nat] /\ \A i \in 1..n : q[i] = SyntaxEntry(s, es[i])
    BY <1>0, <2>1
  <2>3. q \in Seq(Nat) /\ Len(q) = n
    <3> HIDE DEF q, n
    <3> QED
      BY <1>0, <2>2
  <2> QED
    BY <1>0, <2>1, <2>2, <2>3
<1>l. limit \in Nat
  <2> HIDE DEF q, limit
  <2> QED
    BY <1>1, <1>4, TotalType
<1>3. Traced(Nat, n, FixedBytes(s), G, fold)
  <2>1. \A i \in DOMAIN s.entries : EntryBytes(s, s.entries[i]) \in Nat
    OBVIOUS
  <2> HIDE DEF limit, q
  <2> QED
    BY <2>1, <1>l, EntriesTrace, Zenon
<1>5. Traced(Nat, Len(q), 0, H, Total(q))
  <2> HIDE DEF q
  <2> QED
    BY <1>4, TotalTrace
<1>6. \A x \in Nat, i \in 1..n : G[<<x, i>>] = LoopStep(s, limit, x, es[i])
  BY Zenon
<1>7. \A x \in Nat, i \in 1..Len(q) : H[<<x, i>>] = x + q[i]
  BY Zenon
<1> HIDE DEF G, H, q, fold, limit, n, es
<1>8. PICK g \in [0..n -> Nat] : /\ g[0] = FixedBytes(s) /\ fold = g[n]
                                 /\ \A i \in 1..n : g[i] = G[<<g[i - 1], i>>]
  BY <1>3, Zenon DEF Traced
<1>9. PICK h \in [0..n -> Nat] : /\ h[0] = 0 /\ Total(q) = h[n]
                                 /\ \A i \in 1..n : h[i] = H[<<h[i - 1], i>>]
  BY <1>4, <1>5, Zenon DEF Traced
<1>10. \A i \in 1..n : h[i] = h[i - 1] + q[i] /\ h[i - 1] \in Nat /\ h[i] \in Nat /\ i - 1 \in 0..n
  <2> TAKE i \in 1..n
  <2>1. i - 1 \in 0..n /\ i \in 0..n
    BY <1>0
  <2> QED
    BY <1>4, <1>7, <1>9, <2>1
<1>11. \A i \in 1..n : h[i - 1] < h[n]
  <2>1. \A i \in 1..n : h[i] > h[i - 1]
    BY <1>4, <1>10
  <2> QED
    BY <1>0, <2>1, TotalGrows
<1>12. limit = FixedBytes(s) + h[n] /\ h[n] \in Nat /\ limit \in Nat
  BY <1>0, <1>1, <1>9
<1> DEFINE T == {i \in 0..n : g[i] = FixedBytes(s) + h[i]}
<1>13. 0 \in T
  BY <1>0, <1>8, <1>9
<1>14. ASSUME NEW i \in 1..n, i - 1 \in T PROVE i \in T
  <2>1. g[i - 1] = FixedBytes(s) + h[i - 1] /\ i - 1 \in 0..n /\ i \in 0..n
    BY <1>0, <1>14
  <2>2. g[i - 1] < limit /\ g[i - 1] \in Nat
    <3> DEFINE a == h[i - 1]
               c == h[n]
               d == FixedBytes(s)
    <3>1. a \in Nat /\ a < c
      BY <1>10, <1>11
    <3>2. c \in Nat /\ limit = d + c /\ d \in Nat /\ g[i - 1] = d + a
      BY <1>12, <2>1
    <3> HIDE DEF a, c, d
    <3>3. d + a < d + c /\ d + a \in Nat
      BY <3>1, <3>2
    <3> QED
      BY <3>2, <3>3
  <2>3. g[i] = g[i - 1] + q[i]
    <3>1. g[i] = LoopStep(s, limit, g[i - 1], es[i])
      BY <1>6, <1>8, <2>2, Zenon
    <3>2. g[i] = g[i - 1] + EntryBytes(s, es[i])
      BY <2>2, <3>1, Zenon DEF LoopStep
    <3> QED
      BY <1>4, <3>2, Zenon
  <2>4. g[i] = FixedBytes(s) + h[i]
    BY <1>4, <1>10, <2>1, <2>3
  <2> QED
    BY <2>1, <2>4
<1> HIDE DEF T
<1>15. \A i \in 0..n : i \in T
  BY <1>0, <1>13, <1>14, IntervalInduction
<1>16. n \in T
  BY <1>0, <1>15
<1>17. fold = limit
  BY <1>8, <1>12, <1>16 DEF T
<1> QED
  BY <1>2, <1>12, <1>17 DEF limit

(* A sum of nothing, and a sum of sixes *)
LEMMA TotalOf ==
  ASSUME NEW q \in Seq(Nat)
  PROVE  (q = <<>> => Total(q) = 0) /\ ((\A i \in DOMAIN q : q[i] = 6) => Total(q) = 6 * Len(q))
<1> DEFINE n == Len(q)
           H == [x \in Nat \X (1..n) |-> x[1] + q[x[2]]]
<1>1. Traced(Nat, n, 0, H, Total(q))
  BY TotalTrace, Zenon
<1>2. \A x \in Nat, i \in 1..n : H[<<x, i>>] = x + q[i]
  BY Zenon
<1>3. n \in Nat /\ DOMAIN q = 1..n /\ (q = <<>> => n = 0)
  OBVIOUS
<1> HIDE DEF H, n
<1>4. PICK h \in [0..n -> Nat] : /\ h[0] = 0 /\ Total(q) = h[n]
                                 /\ \A i \in 1..n : h[i] = H[<<h[i - 1], i>>]
  BY <1>1, Zenon DEF Traced
<1>5. ASSUME \A i \in DOMAIN q : q[i] = 6 PROVE Total(q) = 6 * n
  <2> DEFINE T == {i \in 0..n : h[i] = 6 * i}
  <2>1. 0 \in T
    BY <1>3, <1>4
  <2>2. ASSUME NEW i \in 1..n, i - 1 \in T PROVE i \in T
    <3>1. h[i - 1] = 6 * (i - 1) /\ i - 1 \in 0..n /\ i \in 0..n /\ h[i - 1] \in Nat
      BY <1>3, <1>4, <2>2
    <3>2. h[i] = h[i - 1] + 6
      BY <1>2, <1>3, <1>4, <1>5, <3>1
    <3>3. h[i] = 6 * i
      BY <1>3, <3>1, <3>2
    <3> QED
      BY <3>1, <3>3
  <2> HIDE DEF T
  <2>3. \A i \in 0..n : i \in T
    BY <1>3, <2>1, <2>2, IntervalInduction
  <2>4. n \in T
    BY <1>3, <2>3
  <2> QED
    BY <1>4, <2>4 DEF T
<1>6. q = <<>> => Total(q) = 0
  BY <1>3, <1>4
<1> QED
  BY <1>5, <1>6 DEF n

(* The sub-blocks of an object are counted in bytes. *)
LEMMA ObjectType ==
  ASSUME NEW s, s.blocks \in Seq(Seq(SubBlocks))
  PROVE  ObjectBytes(s) \in Nat
<1> DEFINE q == [i \in DOMAIN s.blocks |-> Field(s.blocks[i]).bytes]
<1>1. Len(s.blocks) \in Nat /\ DOMAIN s.blocks = 1..Len(s.blocks)
  OBVIOUS
<1>2. \A i \in DOMAIN s.blocks : Field(s.blocks[i]).bytes \in Nat
  BY FieldBound
<1>3. q \in Seq(Nat)
  BY <1>1, <1>2
<1>4. ObjectBytes(s) = Total(q)
  BY Zenon DEF ObjectBytes
<1> HIDE DEF q
<1> QED
  BY <1>3, <1>4, TotalType

(* The code and the syntax agree on the bytes before the entries. *)
LEMMA FixedAgree ==
  ASSUME NEW s \in SegmentsSent, Supported(s), s.type # "other"
  PROVE  FixedBytes(s) \in Nat /\ SyntaxFixed(s) = FixedBytes(s)
<1>1. s.n \in Nat /\ s.blocks \in Seq(Seq(SubBlocks)) /\ s.type \in SegmentTypes
      /\ (s.type = "dds" => s.n \in 0..1)
  BY DEF SegmentsSent
<1>2. s.type # "acs" /\ (s.type = "chars" => s.n = 0)
  BY DEF Supported
<1>3. CASE s.type = "dds"
  BY <1>1, <1>3 DEF FixedBytes, SyntaxFixed, display_definition
<1>4. CASE s.type = "ods"
  <2>1. ObjectBytes(s) \in Nat
    BY <1>1, ObjectType
  <2> DEFINE m == ObjectBytes(s)
  <2>2. FixedBytes(s) = 7 + m + Padding(m)
    BY <1>4 DEF FixedBytes, object_data
  <2>3. SyntaxFixed(s) = 3 + 4 + m + ((7 + m) % 2)
    BY <1>4 DEF SyntaxFixed
  <2> HIDE DEF m
  <2>4. m \in Nat
    BY <2>1 DEF m
  <2>5. Padding(m) \in Nat /\ Padding(m) = (7 + m) % 2
    BY <2>4 DEF Padding
  <2> QED
    BY <2>2, <2>3, <2>4, <2>5
<1>5. CASE s.type = "chars"
  BY <1>2, <1>5 DEF FixedBytes, SyntaxFixed
<1>6. CASE s.type = "progressive"
  BY <1>1, <1>6 DEF FixedBytes, SyntaxFixed
<1>7. CASE s.type = "rcs"
  BY <1>7 DEF FixedBytes, SyntaxFixed
<1>8. CASE s.type = "dss"
  BY <1>1, <1>8 DEF FixedBytes, SyntaxFixed, update_sequence
<1>9. CASE s.type = "eds"
  BY <1>9 DEF FixedBytes, SyntaxFixed
<1>10. CASE s.type = "pcs" \/ s.type = "cds"
  BY <1>10 DEF FixedBytes, SyntaxFixed
<1> QED
  BY <1>1, <1>2, <1>3, <1>4, <1>5, <1>6, <1>7, <1>8, <1>9, <1>10 DEF SegmentTypes, Looped

(* And on the entries *)
LEMMA EntriesAgree ==
  ASSUME NEW s \in SegmentsSent, Supported(s), s.type \in Looped
  PROVE  \A i \in DOMAIN s.entries : /\ EntryBytes(s, s.entries[i]) \in Nat \ {0}
                                     /\ SyntaxEntry(s, s.entries[i]) = EntryBytes(s, s.entries[i])
<1> SUFFICES ASSUME NEW i \in DOMAIN s.entries
             PROVE  /\ EntryBytes(s, s.entries[i]) \in Nat \ {0}
                    /\ SyntaxEntry(s, s.entries[i]) = EntryBytes(s, s.entries[i])
  OBVIOUS
<1> DEFINE e == s.entries[i]
<1>1. s.type # "acs" /\ s.type # "dss"
  BY DEF Supported
<1>2. CASE s.type = "pcs"
  BY <1>2 DEF EntryBytes, SyntaxEntry
<1>3. CASE s.type = "rcs"
  <2>1. EntryBytes(s, e) = region_object(e) /\ SyntaxEntry(s, e) = 6 + (IF e \in {1, 2} THEN 2 ELSE 0)
    BY <1>3 DEF EntryBytes, SyntaxEntry
  <2> HIDE DEF e
  <2>2. region_object(e) = IF e \in {1, 2} THEN 8 ELSE 6
    BY Zenon DEF region_object
  <2>3. EntryBytes(s, e) \in Nat \ {0} /\ SyntaxEntry(s, e) = EntryBytes(s, e)
    BY <2>1, <2>2
  <2> QED
    BY <2>3 DEF e
<1>4. CASE s.type = "cds"
  <2>1. EntryBytes(s, e) = clut(e) /\ SyntaxEntry(s, e) = 2 + (IF e = 1 THEN 4 ELSE 2)
    BY <1>4 DEF EntryBytes, SyntaxEntry
  <2> HIDE DEF e
  <2>2. clut(e) = IF e = 1 THEN 6 ELSE 4
    BY Zenon DEF clut
  <2>3. EntryBytes(s, e) \in Nat \ {0} /\ SyntaxEntry(s, e) = EntryBytes(s, e)
    BY <2>1, <2>2
  <2> QED
    BY <2>3 DEF e
<1> QED
  BY <1>1, <1>2, <1>3, <1>4 DEF Looped

(* A segment that follows its syntax is taken to its end. *)
LEMMA SegmentTaken ==
  ASSUME NEW s \in SegmentsSent, Supported(s)
  PROVE  parse_sub_segment(s, SyntaxLength(s)) = SyntaxLength(s) /\ ObjectAssert(s, SyntaxLength(s))
<1> DEFINE L == SyntaxLength(s)
           q == [i \in DOMAIN s.entries |-> SyntaxEntry(s, s.entries[i])]
<1>1. s.entries \in Seq(Nat) /\ s.blocks \in Seq(Seq(SubBlocks)) /\ (s.type \notin Looped => s.entries = <<>>)
  BY DEF SegmentsSent
<1>2. s.type # "acs"
  BY DEF Supported
<1>3. CASE s.type \in Looped
  <2>1. s.type # "other" /\ s.type # "ods"
    BY <1>3 DEF Looped
  <2>2. FixedBytes(s) \in Nat /\ SyntaxFixed(s) = FixedBytes(s)
    BY <2>1, FixedAgree
  <2>3. Entries(s, L) = L
    BY <1>1, <1>3, <2>2, EntriesAgree, LoopTaken
  <2>4. parse_sub_segment(s, L) = Entries(s, L)
    BY <1>2, <1>3, Zenon DEF parse_sub_segment, Limit
  <2> QED
    BY <2>1, <2>3, <2>4 DEF ObjectAssert
<1>4. CASE s.type = "other"
  <2>1. s.type \notin Looped
    BY <1>4 DEF Looped
  <2> QED
    BY <1>4, <2>1 DEF ObjectAssert, parse_sub_segment
<1>5. CASE s.type \notin Looped /\ s.type # "other"
  <2>1. FixedBytes(s) \in Nat /\ SyntaxFixed(s) = FixedBytes(s)
    BY <1>5, FixedAgree
  <2>2. L = SyntaxFixed(s) + Total(q)
    BY Zenon DEF SyntaxLength
  <2>3. q = <<>> /\ q \in Seq(Nat)
    BY <1>1, <1>5
  <2>4. Total(q) = 0
    <3> HIDE DEF q
    <3> QED
      BY <2>3, TotalOf
  <2>5. L = FixedBytes(s)
    <3> HIDE DEF q, L
    <3> QED
      BY <2>1, <2>2, <2>4
  <2>6. parse_sub_segment(s, L) = FixedBytes(s)
    BY <1>5, Zenon DEF parse_sub_segment
  <2>7. ASSUME s.type = "ods" PROVE L - 7 - ObjectBytes(s) <= 1
    <3> DEFINE m == ObjectBytes(s)
    <3>1. m \in Nat
      BY <1>1, ObjectType
    <3>2. L = 7 + m + Padding(m)
      BY <2>5, <2>7 DEF FixedBytes, object_data
    <3> HIDE DEF m, L
    <3>3. Padding(m) \in {0, 1}
      BY <3>1 DEF Padding
    <3>4. L - 7 - m <= 1
      BY <3>1, <3>2, <3>3
    <3> QED
      BY <3>4 DEF m
  <2>8. ObjectAssert(s, L)
    BY <2>7, Zenon DEF ObjectAssert
  <2> QED
    BY <2>5, <2>6, <2>8, Zenon
<1> QED
  BY <1>3, <1>4, <1>5

(* And writes within what was allocated, unless a 4-bit string has a long
   run. *)
LEMMA SegmentWithin ==
  ASSUME NEW s \in SegmentsSent, Supported(s), Overruns(s, SyntaxLength(s))
  PROVE  HasLongRun(s)
<1> DEFINE L == SyntaxLength(s)
           q == [i \in DOMAIN s.entries |-> SyntaxEntry(s, s.entries[i])]
<1>1. s.entries \in Seq(Nat) /\ s.blocks \in Seq(Seq(SubBlocks))
  BY DEF SegmentsSent
<1>3. ASSUME \E i \in DOMAIN s.blocks : Field(s.blocks[i]).top > 4 * Field(s.blocks[i]).bytes
      PROVE  HasLongRun(s)
  <2>1. PICK i \in DOMAIN s.blocks : Field(s.blocks[i]).top > 4 * Field(s.blocks[i]).bytes
    BY <1>3
  <2>2. s.blocks[i] \in Seq(SubBlocks)
    BY <1>1
  <2> DEFINE f == Field(s.blocks[i])
  <2>3. f.bytes \in Nat /\ f.top \in Nat
    BY <2>2, FieldBound
  <2>4. ~(f.top <= 4 * f.bytes)
    <3> HIDE DEF f
    <3> QED
      BY <2>1, <2>3 DEF f
  <2>5. \E j \in DOMAIN s.blocks[i] : LongRun(s.blocks[i][j])
    BY <2>2, <2>4, FieldBound
  <2> QED
    BY <2>5, Zenon DEF HasLongRun
<1>2. CASE s.type = "pcs"
  <2>1. \A i \in DOMAIN s.entries : SyntaxEntry(s, s.entries[i]) = 6
    BY <1>2 DEF SyntaxEntry
  <2>2. q \in Seq(Nat) /\ Len(q) = Len(s.entries) /\ \A i \in DOMAIN q : q[i] = 6
    <3>1. DOMAIN s.entries = 1..Len(s.entries) /\ Len(s.entries) \in Nat
      BY <1>1
    <3>2. q \in [1..Len(s.entries) -> Nat] /\ \A i \in 1..Len(s.entries) : q[i] = 6
      BY <2>1, <3>1
    <3> HIDE DEF q
    <3> QED
      BY <3>1, <3>2
  <2> DEFINE n == Len(s.entries)
  <2>3. L = 2 + Total(q)
    <3>1. SyntaxFixed(s) = 2
      BY <1>2 DEF SyntaxFixed
    <3> QED
      BY <3>1, Zenon DEF SyntaxLength
  <2>4. Total(q) = 6 * n
    <3> HIDE DEF q
    <3> QED
      BY <2>2, TotalOf
  <2>5. n \in Nat
    BY <1>1
  <2> HIDE DEF n, L, q
  <2>6. L = 2 + 6 * n
    BY <2>3, <2>4
  <2>7. RegionsWritten(L) <= RegionsAllocated(L)
    <3>1. CASE n = 0
      BY <2>6, <3>1 DEF RegionsWritten, RegionsAllocated
    <3>2. CASE n > 0
      <4>1. L > 2 /\ L >= 8
        BY <2>5, <2>6, <3>2
      <4>2. (L + 3) \div 6 = n /\ (L - 2) \div 6 = n
        BY <2>5, <2>6
      <4> QED
        BY <2>5, <2>6, <4>1, <4>2 DEF RegionsWritten, RegionsAllocated
    <3> QED
      BY <2>5, <3>1, <3>2
  <2>8. RegionsWritten(L) \in Int /\ RegionsAllocated(L) \in Int
    BY <2>5, <2>6 DEF RegionsWritten, RegionsAllocated
  <2>9. ~(RegionsWritten(L) > RegionsAllocated(L))
    BY <2>7, <2>8
  <2>10. \E i \in DOMAIN s.blocks : Field(s.blocks[i]).top > 4 * Field(s.blocks[i]).bytes
    BY <2>9, Zenon DEF Overruns, L
  <2> QED
    BY <1>3, <2>10
<1> QED
  BY <1>2, <1>3, Zenon DEF Overruns

(* The segments from i on, and what the loop has left for them *)
Taken(segs, i, rem) ==
  \E h \in [0..Len(segs) -> Nat] :
    /\ h[0] = 0 /\ SegmentBytes(segs) = h[Len(segs)]
    /\ \A j \in 1..Len(segs) : h[j] = h[j - 1] + (6 + segs[j].length)
    /\ rem = h[Len(segs)] - h[i - 1]

SentSegments == Seq([seg : SegmentsSent, length : Nat])

(* The elements of the segments of a packet *)
LEMMA SegmentFacts ==
  ASSUME NEW segs \in SentSegments
  PROVE  /\ Len(segs) \in Nat /\ DOMAIN segs = 1..Len(segs)
         /\ \A i \in 1..Len(segs) : segs[i].seg \in SegmentsSent /\ segs[i].length \in Nat
<1> DEFINE S == [seg : SegmentsSent, length : Nat]
<1>1. segs \in Seq(S)
  BY DEF SentSegments
<1>2. \A x \in S : x.seg \in SegmentsSent /\ x.length \in Nat
  OBVIOUS
<1> HIDE DEF S
<1>3. Len(segs) \in Nat /\ DOMAIN segs = 1..Len(segs) /\ \A i \in 1..Len(segs) : segs[i] \in S
  BY <1>1
<1> QED
  BY <1>2, <1>3

(* Before the first segment all of them are left. *)
LEMMA TakenStart ==
  ASSUME NEW segs \in SentSegments
  PROVE  SegmentBytes(segs) \in Nat /\ Taken(segs, 1, SegmentBytes(segs))
<1> DEFINE n == Len(segs)
           q == [i \in DOMAIN segs |-> 6 + segs[i].length]
           H == [x \in Nat \X (1..Len(q)) |-> x[1] + q[x[2]]]
<1>1. n \in Nat /\ DOMAIN segs = 1..n /\ \A i \in 1..n : segs[i].length \in Nat
  BY SegmentFacts
<1>2. SegmentBytes(segs) = Total(q)
  BY Zenon DEF SegmentBytes
<1>3. q \in [1..n -> Nat] /\ \A i \in 1..n : q[i] = 6 + segs[i].length
  BY <1>1
<1>4. q \in Seq(Nat) /\ Len(q) = n
  <2> HIDE DEF q, n
  <2> QED
    BY <1>1, <1>3
<1>5. Traced(Nat, Len(q), 0, H, Total(q)) /\ Total(q) \in Nat
  <2> HIDE DEF q
  <2> QED
    BY <1>4, TotalTrace, TotalType
<1>6. \A x \in Nat, i \in 1..Len(q) : H[<<x, i>>] = x + q[i]
  BY Zenon
<1> HIDE DEF H, q, n
<1>7. PICK h \in [0..n -> Nat] : /\ h[0] = 0 /\ Total(q) = h[n]
                                 /\ \A i \in 1..n : h[i] = H[<<h[i - 1], i>>]
  BY <1>4, <1>5, Zenon DEF Traced
<1>8. \A j \in 1..n : h[j] = h[j - 1] + (6 + segs[j].length)
  <2> TAKE j \in 1..n
  <2>1. j - 1 \in 0..n
    BY <1>1
  <2>2. h[j - 1] \in Nat
    BY <2>1
  <2>3. h[j] = h[j - 1] + q[j]
    BY <1>4, <1>6, <1>7, <2>2
  <2> QED
    BY <1>3, <2>3, Zenon
<1>9. SegmentBytes(segs) = h[n] - h[1 - 1]
  <2>1. h[n] \in Nat /\ 1 - 1 = 0
    BY <1>1
  <2> QED
    BY <1>2, <1>7, <2>1
<1> QED
  BY <1>2, <1>5, <1>7, <1>8, <1>9, Zenon DEF Taken, n

(* A segment that is taken leaves the rest; before it something is left. *)
LEMMA TakenStep ==
  ASSUME NEW segs \in SentSegments, NEW i \in 1..Len(segs), NEW rem, Taken(segs, i, rem)
  PROVE  /\ rem \in Nat /\ rem > 0
         /\ Taken(segs, i + 1, rem - 6 - segs[i].length)
<1> DEFINE n == Len(segs)
<1>1. n \in Nat /\ DOMAIN segs = 1..n /\ \A j \in 1..n : segs[j].length \in Nat
  BY SegmentFacts
<1>2. PICK h \in [0..n -> Nat] : /\ h[0] = 0 /\ SegmentBytes(segs) = h[n]
                                 /\ \A j \in 1..n : h[j] = h[j - 1] + (6 + segs[j].length)
                                 /\ rem = h[n] - h[i - 1]
  BY Zenon DEF Taken
<1>3. i \in 1..n
  OBVIOUS
<1> HIDE DEF n
<1>4. \A j \in 1..n : h[j] > h[j - 1]
  <2> TAKE j \in 1..n
  <2>1. j - 1 \in 0..n /\ j \in 0..n
    BY <1>1
  <2>2. h[j - 1] \in Nat /\ h[j] \in Nat /\ segs[j].length \in Nat
    BY <1>1, <2>1
  <2>3. h[j] = h[j - 1] + (6 + segs[j].length)
    BY <1>2
  <2> QED
    BY <2>2, <2>3
<1>5. h[i - 1] < h[n]
  BY <1>1, <1>3, <1>4, TotalGrows
<1>6. i - 1 \in 0..n /\ i \in 0..n /\ n \in 0..n /\ (i + 1) - 1 = i
  BY <1>1, <1>3
<1> DEFINE a == h[i - 1]
           b == h[i]
           c == h[n]
           l == segs[i].length
<1>7. a \in Nat /\ b \in Nat /\ c \in Nat /\ l \in Nat /\ rem = c - a /\ a < c /\ b = a + (6 + l)
  BY <1>1, <1>2, <1>3, <1>5, <1>6
<1> HIDE DEF a, b, c, l
<1>8. rem \in Nat /\ rem > 0 /\ rem - 6 - l = c - b
  BY <1>7
<1>9. rem - 6 - segs[i].length = h[n] - h[(i + 1) - 1]
  BY <1>6, <1>8 DEF b, c, l
<1>10. Taken(segs, i + 1, rem - 6 - segs[i].length)
  BY <1>2, <1>9, Zenon DEF Taken, n
<1> QED
  BY <1>8, <1>10

(* Behind the last segment nothing is left. *)
LEMMA TakenEnd ==
  ASSUME NEW segs \in SentSegments, NEW rem, Taken(segs, Len(segs) + 1, rem)
  PROVE  rem = 0
<1> DEFINE n == Len(segs)
<1>1. n \in Nat
  BY SegmentFacts
<1>2. PICK h \in [0..n -> Nat] : rem = h[n] - h[(n + 1) - 1]
  BY Zenon DEF Taken
<1> HIDE DEF n
<1>3. h[n] \in Nat /\ (n + 1) - 1 = n
  BY <1>1
<1> QED
  BY <1>2, <1>3

(* The data of a subtitle or teletext PID, in bytes *)
LEMMA DataFacts ==
  ASSUME NEW d \in Contents
  PROVE  /\ d \in SubtitleData \/ d \in TeletextData
         /\ d \in SubtitleData => /\ d.kind = "sub" /\ d.segs \in SentSegments /\ d.marker \in BOOLEAN
                                  /\ DataBytes(d) = 2 + SegmentBytes(d.segs) + (IF d.marker THEN 1 ELSE 0)
                                  /\ DataBytes(d) \in Nat
         /\ d \in TeletextData => /\ d.kind = "text" /\ d.units \in Seq(TeletextUnits) /\ d.rest \in 0..45
                                  /\ DataBytes(d) = 1 + 46 * Len(d.units) + d.rest
                                  /\ DataBytes(d) \in Nat
<1>1. d \in SubtitleData \/ d \in TeletextData
  BY ContentsAssumption
<1>2. ASSUME d \in SubtitleData
      PROVE  /\ d.kind = "sub" /\ d.segs \in SentSegments /\ d.marker \in BOOLEAN
             /\ DataBytes(d) = 2 + SegmentBytes(d.segs) + (IF d.marker THEN 1 ELSE 0)
             /\ DataBytes(d) \in Nat
  <2>1. d.kind = "sub" /\ d.segs \in SentSegments /\ d.marker \in BOOLEAN
    BY <1>2 DEF SubtitleData, SentSegments
  <2>2. DataBytes(d) = 2 + SegmentBytes(d.segs) + (IF d.marker THEN 1 ELSE 0)
    BY <2>1 DEF DataBytes
  <2>3. SegmentBytes(d.segs) \in Nat
    BY <2>1, TakenStart
  <2>4. DataBytes(d) \in Nat
    BY <2>2, <2>3
  <2> QED
    BY <2>1, <2>2, <2>4
<1>3. ASSUME d \in TeletextData
      PROVE  /\ d.kind = "text" /\ d.units \in Seq(TeletextUnits) /\ d.rest \in 0..45
             /\ DataBytes(d) = 1 + 46 * Len(d.units) + d.rest
             /\ DataBytes(d) \in Nat
  <2>1. d.kind = "text" /\ d.units \in Seq(TeletextUnits) /\ d.rest \in 0..45
    <3> DEFINE R == 0..45
    <3>1. d \in [kind : {"text"}, units : Seq(TeletextUnits), rest : R]
      BY <1>3 DEF TeletextData
    <3> HIDE DEF R
    <3>2. d.kind = "text" /\ d.units \in Seq(TeletextUnits) /\ d.rest \in R
      BY <3>1
    <3> QED
      BY <3>2 DEF R
  <2>2. DataBytes(d) = 1 + 46 * Len(d.units) + d.rest
    <3>1. d.kind = "text"
      BY <2>1
    <3> QED
      BY <3>1 DEF DataBytes
  <2>3. Len(d.units) \in Nat
    BY <2>1
  <2>4. DataBytes(d) \in Nat
    <3> DEFINE u == Len(d.units)
               m == d.rest
    <3>a. m \in 0..45
      BY <2>1, Zenon
    <3>b. DataBytes(d) = 1 + 46 * u + m
      BY <2>2, Zenon
    <3>1. u \in Nat /\ m \in 0..45 /\ DataBytes(d) = 1 + 46 * u + m
      BY <2>3, <3>a, <3>b, Zenon
    <3> HIDE DEF u, m
    <3> QED
      BY <3>1
  <2> QED
    BY <2>1, <2>2, <2>4
<1> QED
  BY <1>1, <1>2, <1>3

(* Behind a plain header the callback is told the length of the data. *)
LEMMA PlainLength ==
  ASSUME NEW d \in Contents
  PROVE  data_length(SimpleHeader, PES_packet_length(SimpleHeader, d)) = DataBytes(d)
<1> DEFINE p == PES_header_data_length(SimpleHeader)
           f == PES_packet_length(SimpleHeader, d)
           m == DataBytes(d)
<1>1. /\ SimpleHeader.pack = 0 /\ SimpleHeader.field = 0 /\ SimpleHeader.stuffing = 0
      /\ SimpleHeader.short = 0
  BY DEF SimpleHeader
<1>2. p \in Nat
  BY <1>1, HeaderCounted DEF PES_header_data_length
<1>3. m \in Nat
  BY DataFacts
<1>4. f = 3 + p + m - 0
  BY <1>1 DEF PES_packet_length
<1>5. f \in 0 .. LengthValues - 1
  BY HeadersAssumption
<1>6. data_length(SimpleHeader, f) = (f - (3 + p)) % LengthValues
  BY Zenon DEF data_length
<1> HIDE DEF p, f, m
<1>7. f - (3 + p) = m /\ m < LengthValues
  BY <1>2, <1>3, <1>4, <1>5, LengthWidth
<1>8. m % LengthValues = m
  BY <1>3, <1>7, LengthWidth, SmallMod
<1> QED
  BY <1>6, <1>7, <1>8 DEF f, m

Mark(d) == IF d.marker THEN 1 ELSE 0
BadPage == digits[1] > 9 \/ digits[2] > 9 \/ decode_hamming8_code(run.mag[1]) = Rejected

(* The page number is the one of the digits received last. *)
DecPage == /\ digits[1] \in 0..15 /\ digits[2] \in 0..15
           /\ page = page_number(digits[1], digits[2])

(* A callback is told the length of the data it is given. *)
DecData ==
  run.pc = "data" =>
    /\ "data" \in DOMAIN run /\ "plen" \in DOMAIN run /\ "entry" \in DOMAIN run
    /\ run.data.kind = "raw" \/ (run.data \in Contents /\ run.plen = DataBytes(run.data))

(* parse_subtitle has left what the segments from i on take, and the marker. *)
DecSegment ==
  run.pc = "segment" =>
    /\ "data" \in DOMAIN run /\ "entry" \in DOMAIN run /\ "i" \in DOMAIN run /\ "seg_len" \in DOMAIN run
    /\ run.data \in Contents /\ run.data.kind = "sub" /\ Cur.cb = "parse_subtitle"
    /\ run.i \in 1..(Len(run.data.segs) + 1)
    /\ \E rem \in Nat : Taken(run.data.segs, run.i, rem) /\ run.seg_len = rem + Mark(run.data)

(* parse_teletext leaves the pages only with a bad digit or magazine. *)
DecUnit ==
  run.pc = "unit" =>
    /\ "data" \in DOMAIN run /\ "entry" \in DOMAIN run /\ "i" \in DOMAIN run /\ "plen" \in DOMAIN run
    /\ "room" \in DOMAIN run /\ "mag" \in DOMAIN run /\ "out" \in DOMAIN run
    /\ run.data \in Contents /\ run.data.kind = "text" /\ run.plen = DataBytes(run.data)
    /\ run.room = n_units(run.plen) /\ run.i \in Nat
    /\ run.out \in BOOLEAN /\ (run.out => BadPage)

DecInv == "pc" \in DOMAIN run /\ DecPage /\ DecData /\ DecSegment /\ DecUnit /\ DecodedWhole

(* Nothing has been decoded yet. *)
LEMMA DecInit == PesInit => DecInv
<1> SUFFICES ASSUME PesInit PROVE DecInv
  OBVIOUS
<1>1. "pc" \in DOMAIN run /\ run.pc = "idle"
  BY DEF PesInit, Idle
<1>2. DecPage
  BY DEF PesInit, DecPage, page_number
<1>3. DecData /\ DecSegment /\ DecUnit /\ DecodedWhole
  BY <1>1 DEF DecData, DecSegment, DecUnit, DecodedWhole
<1> QED
  BY <1>1, <1>2, <1>3 DEF DecInv

(* Nothing is claimed of a packet before and after it is parsed. *)
LEMMA DecOther ==
  ASSUME DecInv, page' = page, digits' = digits, "pc" \in DOMAIN run',
         run'.pc = "idle" \/ run'.pc = "off" \/ run'.pc = "fault"
  PROVE  DecInv'
<1>1. DecPage'
  BY DEF DecInv, DecPage
<1>2. DecData' /\ DecSegment' /\ DecUnit' /\ DecodedWhole'
  BY DEF DecData, DecSegment, DecUnit, DecodedWhole
<1> QED
  BY <1>1, <1>2 DEF DecInv

(* A packet is handed over with the length of its data. *)
LEMMA DecPacket ==
  ASSUME DecInv, NEW pid, NEW h, NEW d, parse_pes_packet(pid, h, d),
         d.kind = "raw" \/ (h = SimpleHeader /\ d \in Contents)
  PROVE  DecInv'
<1> DEFINE len == PES_packet_length(h, d)
           r == [pc |-> "data", pid |-> pid, entry |-> pid_index[pid] + 1, hdr |-> h, data |-> d,
                 offset |-> IF h.stream = "other" THEN 6 ELSE data_offset(h),
                 plen |-> IF h.stream = "other" THEN len ELSE data_length(h, len), field |-> len]
<1>1. run' = (IF h.stream = "padding" THEN Idle ELSE r) /\ page' = page /\ digits' = digits
  BY Zenon DEF parse_pes_packet
<1>2. CASE h.stream = "padding"
  <2>1. "pc" \in DOMAIN run' /\ run'.pc = "idle"
    BY <1>1, <1>2 DEF Idle
  <2> QED
    BY <1>1, <2>1, DecOther
<1>3. CASE h.stream # "padding"
  <2>1. /\ "pc" \in DOMAIN run' /\ "data" \in DOMAIN run' /\ "plen" \in DOMAIN run' /\ "entry" \in DOMAIN run'
        /\ run'.pc = "data" /\ run'.data = d
        /\ run'.plen = IF h.stream = "other" THEN len ELSE data_length(h, len)
    <3> HIDE DEF len
    <3> QED
      BY <1>1, <1>3
  <2>2. d \in Contents /\ h = SimpleHeader => run'.plen = DataBytes(d)
    <3> SUFFICES ASSUME d \in Contents, h = SimpleHeader PROVE run'.plen = DataBytes(d)
      OBVIOUS
    <3>1. h.stream = "normal"
      BY DEF SimpleHeader
    <3>2. run'.plen = data_length(h, len)
      BY <2>1, <3>1
    <3> QED
      BY <3>2, PlainLength
  <2>3. DecData'
    BY <2>1, <2>2 DEF DecData
  <2>4. DecPage' /\ DecSegment' /\ DecUnit' /\ DecodedWhole'
    BY <1>1, <2>1 DEF DecInv, DecPage, DecSegment, DecUnit, DecodedWhole
  <2> QED
    BY <2>1, <2>3, <2>4 DEF DecInv
<1> QED
  BY <1>2, <1>3

(* The segments a packet leaves in its entry do not change the callback. *)
LEMMA CallbackKept ==
  ASSUME RoutedInv, run.pc = "data" \/ run.pc = "segment", NEW X,
         X \subseteq {"map", "preiod"}, list' = [list EXCEPT ![run.entry].rest = X]
  PROVE  list'[run.entry].cb = list[run.entry].cb
<1>1. list \in Seq(PesEntry) /\ run.entry \in DOMAIN list
  BY DEF RoutedInv, PesTypes, PesRun
<1>2. SameEntries(list, list')
  <2> DEFINE e == run.entry
  <2>1. e \in DOMAIN list /\ list' = [list EXCEPT ![e].rest = X]
    BY <1>1
  <2> HIDE DEF e
  <2>2. SameEntries(list, [list EXCEPT ![e].rest = X])
    BY <1>1, <2>1, RestOfEntry
  <2> QED
    BY <2>1, <2>2, Zenon
<1> QED
  BY <1>1, <1>2 DEF SameEntries

(* parse_subtitle begins with all segments and the marker left. *)
LEMMA DecSubtitleBegin ==
  ASSUME RoutedInv, DecInv, subtitle_begin
  PROVE  DecInv'
<1>1. /\ run.pc = "data" /\ Cur.cb = "parse_subtitle" /\ page' = page /\ digits' = digits
      /\ list' = [list EXCEPT ![run.entry].rest = {}]
  BY DEF subtitle_begin
<1>2. run' = IF run.data.kind # "sub" THEN Idle
             ELSE [pc |-> "segment", pid |-> run.pid, entry |-> run.entry, data |-> run.data,
                   i |-> 1, seg_len |-> run.plen - 2]
  BY Zenon DEF subtitle_begin
<1>3. CASE run.data.kind # "sub"
  <2>1. "pc" \in DOMAIN run' /\ run'.pc = "idle"
    BY <1>2, <1>3 DEF Idle
  <2> QED
    BY <1>1, <2>1, DecOther
<1>4. CASE run.data.kind = "sub"
  <2>1. /\ "pc" \in DOMAIN run' /\ "data" \in DOMAIN run' /\ "entry" \in DOMAIN run'
        /\ "i" \in DOMAIN run' /\ "seg_len" \in DOMAIN run'
        /\ run'.pc = "segment" /\ run'.data = run.data /\ run'.entry = run.entry
        /\ run'.i = 1 /\ run'.seg_len = run.plen - 2
    BY <1>2, <1>4
  <2>2. run.data \in Contents /\ run.plen = DataBytes(run.data)
    BY <1>1, <1>4 DEF DecInv, DecData
  <2> DEFINE d == run.data
             b == SegmentBytes(d.segs)
  <2>3. d \in SubtitleData
    <3>1. d \in TeletextData => d.kind = "text"
      BY <2>2, DataFacts
    <3> QED
      BY <1>4, <2>2, <3>1, DataFacts
  <2>4. d.segs \in SentSegments /\ DataBytes(d) = 2 + b + (IF d.marker THEN 1 ELSE 0)
    BY <2>2, <2>3, DataFacts
  <2>5. b \in Nat /\ Taken(d.segs, 1, b) /\ Len(d.segs) \in Nat
    BY <2>4, TakenStart, SegmentFacts
  <2> HIDE DEF b
  <2>6. run'.seg_len = b + Mark(d)
    BY <2>1, <2>2, <2>4, <2>5 DEF Mark
  <2>7. Cur'.cb = "parse_subtitle"
    <3>1. list'[run.entry].cb = list[run.entry].cb
      BY <1>1, CallbackKept
    <3> QED
      BY <1>1, <2>1, <3>1 DEF Cur
  <2>8. \E rem \in Nat : Taken(run'.data.segs, run'.i, rem) /\ run'.seg_len = rem + Mark(run'.data)
    BY <2>1, <2>5, <2>6
  <2>9. run'.i \in 1..(Len(run'.data.segs) + 1)
    BY <2>1, <2>5
  <2>10. DecSegment'
    BY <1>4, <2>1, <2>2, <2>7, <2>8, <2>9, Zenon DEF DecSegment
  <2>11. DecPage' /\ DecData' /\ DecUnit' /\ DecodedWhole'
    BY <1>1, <2>1 DEF DecInv, DecPage, DecData, DecUnit, DecodedWhole
  <2> QED
    BY <2>1, <2>10, <2>11 DEF DecInv
<1> QED
  BY <1>3, <1>4

(* What DecSegment says, with the segments of the packet *)
LEMMA InSegment ==
  ASSUME DecInv, run.pc = "segment"
  PROVE  /\ run.data \in Contents /\ run.data.kind = "sub" /\ Cur.cb = "parse_subtitle"
         /\ run.data.segs \in SentSegments /\ run.data.marker \in BOOLEAN
         /\ Len(run.data.segs) \in Nat /\ DOMAIN run.data.segs = 1..Len(run.data.segs)
         /\ run.i \in 1..(Len(run.data.segs) + 1)
         /\ "data" \in DOMAIN run /\ "entry" \in DOMAIN run /\ "i" \in DOMAIN run
         /\ "seg_len" \in DOMAIN run /\ "pc" \in DOMAIN run
<1>1. /\ run.data \in Contents /\ run.data.kind = "sub" /\ Cur.cb = "parse_subtitle"
      /\ run.i \in 1..(Len(run.data.segs) + 1)
      /\ "data" \in DOMAIN run /\ "entry" \in DOMAIN run /\ "i" \in DOMAIN run
      /\ "seg_len" \in DOMAIN run /\ "pc" \in DOMAIN run
  BY Zenon DEF DecInv, DecSegment
<1> DEFINE d == run.data
<1>2. d \in SubtitleData
  <2>1. d \in TeletextData => d.kind = "text"
    BY <1>1, DataFacts
  <2> QED
    BY <1>1, <2>1, DataFacts
<1>3. d.segs \in SentSegments /\ d.marker \in BOOLEAN
  BY <1>1, <1>2, DataFacts
<1>4. Len(d.segs) \in Nat /\ DOMAIN d.segs = 1..Len(d.segs)
  BY <1>3, SegmentFacts
<1> QED
  BY <1>1, <1>3, <1>4, Zenon

(* The parser stops at a segment only when the segment does not follow its
   syntax, or writes too far only for a long run. *)
LEMMA DecStop ==
  ASSUME DecInv, run.pc = "segment", page' = page, digits' = digits, list' = list,
         NEW x, run' = [run EXCEPT !.pc = x],
         \/ x = "endless" /\ \E i \in DOMAIN Segment.seg.blocks : Endless(Segment.seg.blocks[i])
         \/ x = "overrun" /\ Overruns(Segment.seg, Segment.length)
         \/ /\ x = "abort"
            /\ ~(/\ ObjectAssert(Segment.seg, Segment.length)
                 /\ parse_sub_segment(Segment.seg, Segment.length) = Segment.length),
         run.i <= Len(run.data.segs)
  PROVE  DecInv'
<1> DEFINE n == Len(run.data.segs)
           s == Segment.seg
<1>1. /\ run.data.segs \in SentSegments /\ n \in Nat /\ DOMAIN run.data.segs = 1..n
      /\ run.i \in 1..n /\ run.data.kind = "sub"
  BY InSegment
<1>2. /\ "pc" \in DOMAIN run' /\ run'.pc = x /\ run'.data = run.data /\ run'.entry = run.entry
      /\ run'.i = run.i
  BY InSegment
<1>3. s \in SegmentsSent
  BY <1>1, SegmentFacts DEF Segment
<1>4. Conforming(run.data) => Supported(s) /\ Segment.length = SyntaxLength(s)
  <2> SUFFICES ASSUME Conforming(run.data) PROVE Supported(s) /\ Segment.length = SyntaxLength(s)
    OBVIOUS
  <2>1. \A i \in DOMAIN run.data.segs : /\ Supported(run.data.segs[i].seg)
                                        /\ run.data.segs[i].length = SyntaxLength(run.data.segs[i].seg)
    BY <1>1 DEF Conforming
  <2> QED
    BY <1>1, <2>1, Zenon DEF Segment
<1>5. Conforming(run.data) => x = "overrun" /\ HasLongRun(s)
  <2> SUFFICES ASSUME Conforming(run.data) PROVE x = "overrun" /\ HasLongRun(s)
    OBVIOUS
  <2>1. Supported(s) /\ Segment.length = SyntaxLength(s)
    BY <1>4
  <2>2. \A i \in DOMAIN s.blocks : ~Endless(s.blocks[i])
    BY <2>1 DEF Supported
  <2>3. ObjectAssert(s, Segment.length) /\ parse_sub_segment(s, Segment.length) = Segment.length
    BY <1>3, <2>1, SegmentTaken
  <2>4. x = "overrun" /\ Overruns(s, Segment.length)
    BY <2>2, <2>3, Zenon
  <2> QED
    BY <1>3, <2>1, <2>4, SegmentWithin
<1>6. Conforming(run'.data) = Conforming(run.data) /\ Segment' = Segment
  BY <1>2, Zenon DEF Segment
<1>7. DecodedWhole'
  <2>1. run'.pc = x /\ x # "done" /\ run'.data.kind = "sub"
    BY <1>1, <1>2
  <2>2. Conforming(run'.data) => x = "overrun" /\ HasLongRun(Segment'.seg)
    BY <1>5, <1>6, Zenon
  <2>3. x = "overrun" => x # "abort" /\ x # "endless"
    OBVIOUS
  <2> QED
    BY <2>1, <2>2, <2>3 DEF DecodedWhole
<1>8. DecPage' /\ DecData' /\ DecSegment' /\ DecUnit'
  BY <1>2 DEF DecInv, DecPage, DecData, DecSegment, DecUnit
<1> QED
  BY <1>2, <1>7, <1>8 DEF DecInv

(* A segment that is taken leaves the rest. *)
LEMMA DecNextSegment ==
  ASSUME RoutedInv, DecInv, run.pc = "segment", page' = page, digits' = digits,
         run.i <= Len(run.data.segs),
         parse_sub_segment(Segment.seg, Segment.length) = Segment.length,
         run' = [run EXCEPT !.i = @ + 1, !.seg_len = @ - 6 - parse_sub_segment(Segment.seg, Segment.length)],
         NEW X, X \subseteq {"map", "preiod"},
         list' = [list EXCEPT ![run.entry].rest = X]
  PROVE  DecInv'
<1> DEFINE segs == run.data.segs
           n == Len(segs)
           l == Segment.length
<1>1. segs \in SentSegments /\ n \in Nat /\ run.i \in 1..n
  BY InSegment
<1>2. /\ "pc" \in DOMAIN run' /\ "data" \in DOMAIN run' /\ "entry" \in DOMAIN run' /\ "i" \in DOMAIN run'
      /\ "seg_len" \in DOMAIN run'
      /\ run'.pc = "segment" /\ run'.data = run.data /\ run'.entry = run.entry
      /\ run'.i = run.i + 1 /\ run'.seg_len = run.seg_len - 6 - l
  <2> DEFINE m == parse_sub_segment(Segment.seg, Segment.length)
  <2>1. m = l /\ run' = [run EXCEPT !.i = @ + 1, !.seg_len = @ - 6 - m]
    OBVIOUS
  <2> HIDE DEF m, l
  <2> QED
    BY <2>1, InSegment
<1>3. PICK rem \in Nat : Taken(segs, run.i, rem) /\ run.seg_len = rem + Mark(run.data)
  BY DEF DecInv, DecSegment
<1>4. rem > 0 /\ Taken(segs, run.i + 1, rem - 6 - segs[run.i].length)
  BY <1>1, <1>3, TakenStep
<1>5. l \in Nat /\ l = segs[run.i].length
  BY <1>1, SegmentFacts DEF Segment
<1>6. rem - 6 - l \in Nat
  <2> SUFFICES \A r : \A j \in 1..(n + 1) : Taken(segs, j, r) => r \in Nat
    <3>1. run.i + 1 \in 1..(n + 1)
      BY <1>1
    <3> QED
      BY <1>4, <1>5, <3>1
  <2> SUFFICES ASSUME NEW r, NEW j \in 1..(n + 1), Taken(segs, j, r) PROVE r \in Nat
    OBVIOUS
  <2>1. CASE j \in 1..n
    BY <1>1, <2>1, TakenStep
  <2>2. CASE j = n + 1
    <3>1. Taken(segs, Len(segs) + 1, r)
      BY <2>2
    <3>2. r = 0
      BY <1>1, <3>1, TakenEnd, Zenon
    <3> QED
      BY <3>2
  <2> QED
    BY <1>1, <2>1, <2>2
<1>7. Mark(run.data) \in Nat
  BY DEF Mark
<1>8. run'.seg_len = (rem - 6 - l) + Mark(run'.data)
  <2> DEFINE m == Mark(run.data)
  <2>1. run'.seg_len = (rem + m) - 6 - l /\ m \in Nat /\ Mark(run'.data) = m
    BY <1>2, <1>3, <1>7
  <2> HIDE DEF m, l
  <2>2. (rem + m) - 6 - l = (rem - 6 - l) + m
    BY <1>5, <2>1
  <2> QED
    BY <2>1, <2>2
<1>9. run'.i \in 1..(Len(run'.data.segs) + 1)
  BY <1>1, <1>2
<1>10. Taken(run'.data.segs, run'.i, rem - 6 - l)
  BY <1>2, <1>4, <1>5, Zenon
<1>11. Cur'.cb = "parse_subtitle"
  <2>1. list'[run.entry].cb = list[run.entry].cb
    BY CallbackKept
  <2>2. Cur.cb = "parse_subtitle"
    BY InSegment
  <2> QED
    BY <1>2, <2>1, <2>2 DEF Cur
<1>12. run'.data \in Contents /\ run'.data.kind = "sub"
  BY <1>2, InSegment
<1>13. DecSegment'
  <2> HIDE DEF l
  <2> QED
    BY <1>2, <1>6, <1>8, <1>9, <1>10, <1>11, <1>12, Zenon DEF DecSegment
<1>14. DecPage' /\ DecData' /\ DecUnit' /\ DecodedWhole'
  BY <1>2 DEF DecInv, DecPage, DecData, DecUnit, DecodedWhole
<1> QED
  BY <1>2, <1>13, <1>14 DEF DecInv

(* When the loop ends, only the marker is left. *)
LEMMA DecSubtitleEnd ==
  ASSUME DecInv, subtitle_end
  PROVE  DecInv'
<1>1. /\ run.pc = "segment" /\ run' = [run EXCEPT !.pc = "done"] /\ page' = page /\ digits' = digits
      /\ list' = list /\ (run.i > Len(run.data.segs) \/ run.seg_len = 0)
  BY DEF subtitle_end
<1>2. /\ "pc" \in DOMAIN run' /\ run'.pc = "done" /\ run'.data = run.data /\ run'.entry = run.entry
      /\ run'.i = run.i /\ run'.seg_len = run.seg_len
  BY <1>1, InSegment
<1> DEFINE segs == run.data.segs
           n == Len(segs)
<1>3. segs \in SentSegments /\ n \in Nat /\ run.i \in 1..(n + 1)
  BY <1>1, InSegment
<1>4. PICK rem \in Nat : Taken(segs, run.i, rem) /\ run.seg_len = rem + Mark(run.data)
  BY <1>1 DEF DecInv, DecSegment
<1>5. run.i = n + 1
  <2> SUFFICES ASSUME run.i \in 1..n PROVE FALSE
    BY <1>3
  <2>1. rem > 0
    BY <1>3, <1>4, TakenStep
  <2>2. Mark(run.data) \in Nat
    BY DEF Mark
  <2>3. run.seg_len # 0
    <3> DEFINE m == Mark(run.data)
    <3>1. m \in Nat /\ run.seg_len = rem + m
      BY <1>4, <2>2
    <3> HIDE DEF m
    <3> QED
      BY <2>1, <3>1
  <2> QED
    BY <1>1, <1>3, <2>3
<1>6. rem = 0
  BY <1>3, <1>4, <1>5, TakenEnd
<1>7. run'.i > Len(run'.data.segs)
  BY <1>2, <1>3, <1>5
<1>8. run'.seg_len = IF run'.data.marker THEN 1 ELSE 0
  <2>1. run.seg_len = Mark(run.data)
    BY <1>4, <1>6 DEF Mark
  <2> QED
    BY <1>2, <2>1, Zenon DEF Mark
<1>9. DecodedWhole'
  BY <1>2, <1>7, <1>8 DEF DecodedWhole
<1>10. DecPage' /\ DecData' /\ DecSegment' /\ DecUnit'
  BY <1>1, <1>2 DEF DecInv, DecPage, DecData, DecSegment, DecUnit
<1> QED
  BY <1>2, <1>9, <1>10 DEF DecInv

(* Four data bits, and the magazine and row they make *)
LEMMA HammingRange ==
  ASSUME NEW x
  PROVE  HAMMING8_DATA(x) \in 0..15
<1> DEFINE a == IF 6 \in x THEN 1 ELSE 0
           b == IF 4 \in x THEN 2 ELSE 0
           c == IF 2 \in x THEN 4 ELSE 0
           d == IF 0 \in x THEN 8 ELSE 0
<1>1. HAMMING8_DATA(x) = IF x = Rejected THEN 15 ELSE a + b + c + d
  BY Zenon DEF HAMMING8_DATA
<1>2. a \in {0, 1} /\ b \in {0, 2} /\ c \in {0, 4} /\ d \in {0, 8}
  OBVIOUS
<1> HIDE DEF a, b, c, d
<1>3. a + b + c + d \in 0..15
  BY <1>2
<1> QED
  BY <1>1, <1>3

(* A magazine that is not rejected is one of eight, and its row one of 32. *)
LEMMA AddressRange ==
  ASSUME NEW mag, NEW pkt
  PROVE  LET r == decode_hamming_address(mag, pkt)
         IN IF decode_hamming8_code(mag) = Rejected THEN r.Y # 0
            ELSE r.X \in 0..7 /\ r.Y \in 0..31
<1> DEFINE d == HAMMING8_DATA(decode_hamming8_code(mag))
           p == HAMMING8_DATA(decode_hamming8_code(pkt))
           r == decode_hamming_address(mag, pkt)
<1>1. r = IF decode_hamming8_code(mag) = Rejected THEN [X |-> -1, Y |-> -1]
          ELSE [X |-> d % 8, Y |-> (d \div 8) + 2 * p]
  BY DEF decode_hamming_address
<1>2. d \in 0..15 /\ p \in 0..15
  BY HammingRange
<1> HIDE DEF d, p
<1>3. d % 8 \in 0..7 /\ (d \div 8) + 2 * p \in 0..31
  BY <1>2
<1>4. CASE decode_hamming8_code(mag) = Rejected
  <2>1. r = [X |-> -1, Y |-> -1]
    BY <1>1, <1>4
  <2>2. r.Y = -1
    BY <2>1
  <2> HIDE DEF r
  <2>3. r.Y # 0
    BY <2>2
  <2> QED
    BY <1>4, <2>3 DEF r
<1>5. CASE decode_hamming8_code(mag) # Rejected
  <2>1. r = [X |-> d % 8, Y |-> (d \div 8) + 2 * p]
    BY <1>1, <1>5
  <2>2. r.X = d % 8 /\ r.Y = (d \div 8) + 2 * p
    BY <2>1
  <2> HIDE DEF r
  <2>3. r.X \in 0..7 /\ r.Y \in 0..31
    BY <1>3, <2>2
  <2> QED
    BY <1>5, <2>3 DEF r
<1> QED
  BY <1>4, <1>5

(* Two decimal digits make a page of the hundred. *)
LEMMA PageRange ==
  ASSUME NEW u \in 0..15, NEW t \in 0..15
  PROVE  page_number(u, t) \in 0..99 \/ u > 9 \/ t > 9
  BY DEF page_number

(* What DecUnit says, with the units of the packet *)
LEMMA InUnit ==
  ASSUME DecInv, run.pc = "unit"
  PROVE  /\ run.data \in Contents /\ run.data.kind = "text" /\ run.data.units \in Seq(TeletextUnits)
         /\ Len(run.data.units) \in Nat /\ DOMAIN run.data.units = 1..Len(run.data.units)
         /\ run.data.rest \in 0..45 /\ run.plen = 1 + 46 * Len(run.data.units) + run.data.rest
         /\ run.room = Len(run.data.units) /\ run.i \in Nat /\ run.out \in BOOLEAN
         /\ (run.out => BadPage)
<1> DEFINE d == run.data
           n == Len(d.units)
<1>1. /\ d \in Contents /\ d.kind = "text" /\ run.plen = DataBytes(d) /\ run.room = n_units(run.plen)
      /\ run.i \in Nat /\ run.out \in BOOLEAN /\ (run.out => BadPage)
  BY Zenon DEF DecInv, DecUnit
<1>2. d \in TeletextData
  <2>1. d \in SubtitleData => d.kind = "sub"
    BY <1>1, DataFacts
  <2> QED
    BY <1>1, <2>1, DataFacts
<1>3. d.units \in Seq(TeletextUnits) /\ d.rest \in 0..45 /\ DataBytes(d) = 1 + 46 * n + d.rest
  BY <1>1, <1>2, DataFacts, Zenon
<1>4. n \in Nat /\ DOMAIN d.units = 1..n
  <2>1. d.units \in Seq(TeletextUnits)
    BY <1>3, Zenon
  <2> QED
    BY <2>1
<1>5. run.room = n
  <2> DEFINE r == d.rest
             p == run.plen
  <2>1. p = 1 + 46 * n + r
    BY <1>1, <1>3, Zenon
  <2>2. r \in 0..45
    BY <1>3, Zenon
  <2>3. run.room = (p - 1) \div 46
    BY <1>1, Zenon DEF n_units
  <2> HIDE DEF r, p, n
  <2>4. (p - 1) \div 46 = n
    BY <1>4, <2>1, <2>2
  <2> QED
    BY <2>3, <2>4
<1> QED
  BY <1>1, <1>3, <1>4, <1>5, Zenon

(* parse_teletext begins with room for the units; data of another kind is
   not of its kind. *)
LEMMA DecTeletextBegin ==
  ASSUME DecInv, teletext_begin
  PROVE  DecInv'
<1>1. /\ run.pc = "data" /\ Cur.cb = "parse_teletext" /\ page' = page /\ digits' = digits
      /\ list' = list
  BY DEF teletext_begin
<1>2. /\ "pc" \in DOMAIN run /\ "data" \in DOMAIN run /\ "plen" \in DOMAIN run /\ "entry" \in DOMAIN run
      /\ run.data.kind = "raw" \/ (run.data \in Contents /\ run.plen = DataBytes(run.data))
  BY <1>1 DEF DecInv, DecData
<1>3. CASE run.data.kind # "text"
  <2>1. run' = [run EXCEPT !.pc = "abort"] \/ run' = [run EXCEPT !.pc = "done"]
    BY <1>3, Zenon DEF teletext_begin
  <2>2. /\ "pc" \in DOMAIN run' /\ (run'.pc = "abort" \/ run'.pc = "done")
        /\ run'.data = run.data /\ run'.entry = run.entry
    BY <1>2, <2>1
  <2>3. run.data.kind = "raw" \/ run.data.kind = "sub"
    BY <1>2, <1>3, DataFacts
  <2>4. run.data.kind = "raw" => ~Conforming(run.data)
    BY DEF Conforming
  <2>5. run.data.kind = "sub" => ~OfItsKind'
    <3> SUFFICES ASSUME run.data.kind = "sub" PROVE ~OfItsKind'
      OBVIOUS
    <3>1. Cur'.cb = "parse_teletext" /\ run'.data.kind = "sub"
      BY <1>1, <2>2 DEF Cur
    <3>2. Parser["sub"] = "parse_subtitle"
      BY DEF Parser
    <3>3. OfItsKind' => Cur'.cb = Parser["sub"]
      BY <3>1, Zenon DEF OfItsKind
    <3> QED
      BY <3>1, <3>2, <3>3
  <2>6. DecodedWhole'
    BY <2>2, <2>3, <2>4, <2>5 DEF DecodedWhole
  <2>7. DecPage' /\ DecData' /\ DecSegment' /\ DecUnit'
    BY <1>1, <2>2 DEF DecInv, DecPage, DecData, DecSegment, DecUnit
  <2> QED
    BY <2>2, <2>6, <2>7 DEF DecInv
<1>4. CASE run.data.kind = "text"
  <2>1. run' = [pc |-> "unit", pid |-> run.pid, entry |-> run.entry, data |-> run.data, i |-> 0,
                plen |-> run.plen, room |-> n_units(run.plen), mag |-> <<{}, {}>>, out |-> FALSE]
    BY <1>4, Zenon DEF teletext_begin
  <2>2. /\ "pc" \in DOMAIN run' /\ "data" \in DOMAIN run' /\ "entry" \in DOMAIN run' /\ "i" \in DOMAIN run'
        /\ "plen" \in DOMAIN run' /\ "room" \in DOMAIN run' /\ "mag" \in DOMAIN run' /\ "out" \in DOMAIN run'
        /\ run'.pc = "unit" /\ run'.data = run.data /\ run'.plen = run.plen
        /\ run'.room = n_units(run.plen) /\ run'.i = 0 /\ run'.out = FALSE
    BY <2>1
  <2>3. run.data \in Contents /\ run.plen = DataBytes(run.data)
    BY <1>2, <1>4
  <2>4. run'.i \in Nat /\ run'.out \in BOOLEAN /\ ~run'.out
    <3>1. run'.i \in Nat
      BY <2>2
    <3> QED
      BY <2>2, <3>1, Zenon
  <2>5. DecUnit'
    BY <1>4, <2>2, <2>3, <2>4, Zenon DEF DecUnit
  <2>6. DecPage' /\ DecData' /\ DecSegment' /\ DecodedWhole'
    BY <1>1, <2>2 DEF DecInv, DecPage, DecData, DecSegment, DecodedWhole
  <2> QED
    BY <2>2, <2>5, <2>6 DEF DecInv
<1> QED
  BY <1>3, <1>4

(* One unit: the page number follows its digits, and a row or a page is
   outside only for a bad digit or magazine. *)
LEMMA DecUnitParsed ==
  ASSUME DecInv, run.pc = "unit", NEW u \in TeletextUnits, NEW mag, NEW pkt,
         parse_teletext_data(u, mag, pkt), UNCHANGED <<list, leaked>>
  PROVE  DecInv'
<1> DEFINE a == decode_hamming_address(mag[1], pkt[1])
           P == page_number(u.units, u.tens)
<1>1. u.units \in 0..15 /\ u.tens \in 0..15 /\ u.erase \in BOOLEAN
  <2> DEFINE R == 0..15
  <2>1. u \in [units : R, tens : R, erase : BOOLEAN, valid : BOOLEAN]
    BY DEF TeletextUnits
  <2> HIDE DEF R
  <2>2. u.units \in R /\ u.tens \in R /\ u.erase \in BOOLEAN
    BY <2>1
  <2> QED
    BY <2>2 DEF R
<1>2. digits[1] \in 0..15 /\ digits[2] \in 0..15 /\ page = page_number(digits[1], digits[2])
  BY DEF DecInv, DecPage
<1>3. /\ "data" \in DOMAIN run /\ "entry" \in DOMAIN run /\ "i" \in DOMAIN run /\ "plen" \in DOMAIN run
      /\ "room" \in DOMAIN run /\ "mag" \in DOMAIN run /\ "out" \in DOMAIN run /\ "pc" \in DOMAIN run
      /\ run.data \in Contents /\ run.data.kind = "text" /\ run.plen = DataBytes(run.data)
      /\ run.room = n_units(run.plen) /\ run.i \in Nat
  BY Zenon DEF DecInv, DecUnit
<1>4. ASSUME NEW o \in BOOLEAN, run' = [run EXCEPT !.i = @ + 1, !.mag = mag, !.out = o], DecPage',
             o => (digits[1] > 9 \/ digits[2] > 9)' \/ decode_hamming8_code(mag[1]) = Rejected
      PROVE  DecInv'
  <2>1. /\ "data" \in DOMAIN run' /\ "entry" \in DOMAIN run' /\ "i" \in DOMAIN run' /\ "plen" \in DOMAIN run'
        /\ "room" \in DOMAIN run' /\ "mag" \in DOMAIN run' /\ "out" \in DOMAIN run' /\ "pc" \in DOMAIN run'
    BY <1>3, <1>4
  <2>2. /\ run'.pc = "unit" /\ run'.data = run.data /\ run'.plen = run.plen /\ run'.room = run.room
        /\ run'.i = run.i + 1 /\ run'.mag = mag /\ run'.out = o
    BY <1>3, <1>4
  <2>3. run'.i \in Nat
    BY <1>3, <2>2
  <2>4. run'.out \in BOOLEAN /\ (run'.out => BadPage')
    BY <1>4, <2>2, Zenon DEF BadPage
  <2>5. DecUnit'
    BY <1>3, <2>1, <2>2, <2>3, <2>4, Zenon DEF DecUnit
  <2>6. DecData' /\ DecSegment' /\ DecodedWhole'
    BY <2>2 DEF DecData, DecSegment, DecodedWhole
  <2> QED
    BY <1>4, <2>1, <2>5, <2>6 DEF DecInv
<1>5. CASE a.Y = 0
  <2> DEFINE o == u.erase /\ ~Within(a.X, P, 28)
  <2>1. /\ page' = P /\ digits' = <<u.units, u.tens>>
        /\ run' = [run EXCEPT !.i = @ + 1, !.mag = mag, !.out = o]
    BY <1>5, Zenon DEF parse_teletext_data
  <2>2. digits'[1] = u.units /\ digits'[2] = u.tens
    BY <2>1
  <2>3. DecPage'
    BY <1>1, <2>1, <2>2, Zenon DEF DecPage
  <2>4. a.X \in 0..7
    BY <1>5, AddressRange
  <2>5. P \in 0..99 \/ u.units > 9 \/ u.tens > 9
    BY <1>1, PageRange, Zenon
  <2>6. o => u.units > 9 \/ u.tens > 9
    <3>1. 28 \in 0..31
      OBVIOUS
    <3> QED
      BY <2>4, <2>5, <3>1, Zenon DEF Within
  <2>7. o \in BOOLEAN
    BY Zenon
  <2> HIDE DEF o
  <2>8. o => (digits[1] > 9 \/ digits[2] > 9)'
    BY <2>2, <2>6
  <2> QED
    BY <1>4, <2>1, <2>3, <2>7, <2>8, Zenon
<1>6. CASE a.Y # 0
  <2> DEFINE o == a.Y <= 25 /\ ~Within(a.X, page, a.Y)
  <2>1. /\ page' = page /\ digits' = digits
        /\ run' = [run EXCEPT !.i = @ + 1, !.mag = mag, !.out = o]
    BY <1>6, Zenon DEF parse_teletext_data
  <2>2. DecPage'
    BY <1>2, <2>1, Zenon DEF DecPage
  <2>3. decode_hamming8_code(mag[1]) = Rejected \/ (a.X \in 0..7 /\ a.Y \in 0..31)
    BY AddressRange
  <2>4. page \in 0..99 \/ digits[1] > 9 \/ digits[2] > 9
    BY <1>2, PageRange, Zenon
  <2>5. o => digits[1] > 9 \/ digits[2] > 9 \/ decode_hamming8_code(mag[1]) = Rejected
    BY <2>3, <2>4, Zenon DEF Within
  <2>6. o \in BOOLEAN
    BY Zenon
  <2> HIDE DEF o
  <2>7. o => (digits[1] > 9 \/ digits[2] > 9)' \/ decode_hamming8_code(mag[1]) = Rejected
    BY <2>1, <2>5, Zenon
  <2> QED
    BY <1>4, <2>1, <2>2, <2>6, <2>7, Zenon
<1> QED
  BY <1>5, <1>6

(* Teletext data that follows its syntax fills its units; the only way out of
   the pages is a bad digit or magazine. *)
LEMMA DecTeletextUnit ==
  ASSUME DecInv, teletext_unit
  PROVE  DecInv'
<1>1. run.pc = "unit" /\ 1 + 46 * run.i < run.plen /\ UNCHANGED <<list, leaked>>
  BY DEF teletext_unit
<1> DEFINE n == Len(run.data.units)
<1>2. /\ run.data.kind = "text" /\ run.data.units \in Seq(TeletextUnits) /\ n \in Nat
      /\ DOMAIN run.data.units = 1..n /\ run.room = n /\ run.i \in Nat
  BY <1>1, InUnit, Zenon
<1>3. "pc" \in DOMAIN run /\ "data" \in DOMAIN run
  BY <1>1 DEF DecInv, DecUnit
<1>4. ASSUME NEW x, x = "overrun" \/ x = "abort", run' = [run EXCEPT !.pc = x], ~Conforming(run.data),
             UNCHANGED <<page, digits>>
      PROVE  DecInv'
  <2>1. "pc" \in DOMAIN run' /\ run'.pc = x /\ run'.data = run.data
    BY <1>3, <1>4
  <2>2. DecPage' /\ DecData' /\ DecSegment' /\ DecUnit'
    BY <1>4, <2>1 DEF DecInv, DecPage, DecData, DecSegment, DecUnit
  <2>3. DecodedWhole'
    <3>1. ~Conforming(run'.data) /\ run'.pc # "done"
      BY <1>4, <2>1
    <3> QED
      BY <3>1, Zenon DEF DecodedWhole
  <2> QED
    BY <2>1, <2>2, <2>3 DEF DecInv
<1>5. ASSUME run.i >= run.room PROVE ~Conforming(run.data)
  <2>1. run.data.rest \in 0..45 /\ run.plen = 1 + 46 * n + run.data.rest
    BY <1>1, InUnit, Zenon
  <2> DEFINE r == run.data.rest
             i == run.i
             p == run.plen
  <2>2. r \in 0..45 /\ p = 1 + 46 * n + r /\ i \in Nat /\ i >= n /\ 1 + 46 * i < p
    BY <1>1, <1>2, <1>5, <2>1, Zenon
  <2> HIDE DEF r, i, p, n
  <2>3. r # 0
    BY <1>2, <2>2
  <2>4. Conforming(run.data) => run.data.rest = 0
    <3>1. run.data.kind = "text"
      BY <1>2
    <3> QED
      BY <3>1 DEF Conforming
  <2> QED
    BY <2>3, <2>4 DEF r
<1>6. ASSUME run.i < run.room
      PROVE  /\ run.data.units[run.i + 1] \in TeletextUnits
             /\ ~run.data.units[run.i + 1].valid => ~Conforming(run.data)
  <2>1. run.i + 1 \in 1..n
    BY <1>2, <1>6
  <2>2. run.data.units[run.i + 1] \in TeletextUnits
    <3>1. run.data.units \in Seq(TeletextUnits)
      BY <1>2, Zenon
    <3> QED
      BY <2>1, <3>1
  <2>3. Conforming(run.data) => \A i \in DOMAIN run.data.units : run.data.units[i].valid
    <3>1. run.data.kind = "text"
      BY <1>2
    <3> QED
      BY <3>1 DEF Conforming
  <2> QED
    BY <1>2, <2>1, <2>2, <2>3, Zenon
<1>7. CASE run.i >= run.room /\ run' = [run EXCEPT !.pc = "overrun"] /\ UNCHANGED <<page, digits>>
  BY <1>4, <1>5, <1>7
<1>8. CASE /\ run.i < run.room /\ ~run.data.units[run.i + 1].valid
           /\ run' = [run EXCEPT !.pc = "abort"] /\ UNCHANGED <<page, digits>>
  BY <1>4, <1>6, <1>8
<1>9. ASSUME NEW mag, NEW pkt, run.i < run.room,
             parse_teletext_data(run.data.units[run.i + 1], mag, pkt)
      PROVE  DecInv'
  <2>1. run.data.units[run.i + 1] \in TeletextUnits
    BY <1>6, <1>9
  <2> QED
    BY <1>1, <1>9, <2>1, DecUnitParsed
<1> QED
  BY <1>7, <1>8, <1>9, Zenon DEF teletext_unit

(* The loop over the units ends at the end of the data or outside the
   pages. *)
LEMMA DecTeletextEnd ==
  ASSUME DecInv, teletext_end
  PROVE  DecInv'
<1>1. /\ run.pc = "unit" /\ UNCHANGED <<list, page, digits, leaked>>
      /\ run' = IF run.out THEN [run EXCEPT !.pc = "overrun"] ELSE [run EXCEPT !.pc = "done"]
  BY Zenon DEF teletext_end
<1>2. run.data.kind = "text" /\ (run.out => BadPage)
  BY <1>1, InUnit, Zenon
<1>3. "pc" \in DOMAIN run /\ "data" \in DOMAIN run /\ "mag" \in DOMAIN run
  BY <1>1 DEF DecInv, DecUnit
<1>4. CASE run.out
  <2>1. run' = [run EXCEPT !.pc = "overrun"]
    BY <1>1, <1>4, Zenon
  <2>2. "pc" \in DOMAIN run' /\ run'.pc = "overrun" /\ run'.data = run.data /\ run'.mag = run.mag
    BY <1>3, <2>1
  <2>3. digits'[1] > 9 \/ digits'[2] > 9 \/ decode_hamming8_code(run'.mag[1]) = Rejected
    BY <1>1, <1>2, <1>4, <2>2, Zenon DEF BadPage
  <2>4. DecodedWhole'
    BY <1>2, <2>2, <2>3 DEF DecodedWhole
  <2>5. DecPage' /\ DecData' /\ DecSegment' /\ DecUnit'
    BY <1>1, <2>2 DEF DecInv, DecPage, DecData, DecSegment, DecUnit
  <2> QED
    BY <2>2, <2>4, <2>5 DEF DecInv
<1>5. CASE ~run.out
  <2>1. run' = [run EXCEPT !.pc = "done"]
    BY <1>1, <1>5, Zenon
  <2>2. "pc" \in DOMAIN run' /\ run'.pc = "done" /\ run'.data.kind = "text"
    BY <1>2, <1>3, <2>1
  <2>3. DecodedWhole'
    BY <2>2 DEF DecodedWhole
  <2>4. DecPage' /\ DecData' /\ DecSegment' /\ DecUnit'
    BY <1>1, <2>2 DEF DecInv, DecPage, DecData, DecSegment, DecUnit
  <2> QED
    BY <2>2, <2>3, <2>4 DEF DecInv
<1> QED
  BY <1>4, <1>5

(* Every step keeps DecInv. *)
LEMMA DecInductive ==
  ASSUME RoutedInv, DecInv, [PesNext]_pes_vars
  PROVE  DecInv'
<1>0. "pc" \in DOMAIN run
  BY DEF DecInv
<1>1. CASE UNCHANGED pes_vars
  <2>1. UNCHANGED <<list, page, digits, run>>
    BY <1>1 DEF pes_vars
  <2>2. DecPage' = DecPage /\ DecData' = DecData /\ DecSegment' = DecSegment /\ DecUnit' = DecUnit
    BY <2>1, Zenon DEF DecPage, DecData, DecSegment, DecUnit, BadPage, Cur
  <2>3. DecodedWhole' = DecodedWhole
    BY <2>1, Zenon DEF DecodedWhole, OfItsKind, Cur, Segment
  <2> QED
    BY <2>1, <2>2, <2>3, Zenon DEF DecInv
<1>2. ASSUME NEW s \in Streams, NEW okl \in BOOLEAN, NEW okp \in BOOLEAN,
             Register(s[1], s[2], s[3], okl, okp)
      PROVE  DecInv'
  <2>1. run.pc = "idle" /\ UNCHANGED <<page, digits, run>>
    BY <1>2 DEF Register
  <2> QED
    BY <1>0, <2>1, DecOther
<1>3. ASSUME NEW pid, NEW h, parse_pes_packet(pid, h, [kind |-> "raw", size |-> 8]) PROVE DecInv'
  <2> DEFINE d == [kind |-> "raw", size |-> 8]
  <2>1. d.kind = "raw"
    OBVIOUS
  <2> HIDE DEF d
  <2>2. parse_pes_packet(pid, h, d)
    BY <1>3 DEF d
  <2> QED
    BY <2>1, <2>2, DecPacket
<1>4. ASSUME NEW pid, NEW d \in Contents, parse_pes_packet(pid, SimpleHeader, d) PROVE DecInv'
  BY <1>4, DecPacket
<1>5. CASE NoCallback \/ PacketDone \/ unregister_pes_ops
  <2>1. (run' = Idle \/ run' = [pc |-> "off"]) /\ UNCHANGED <<page, digits>>
    BY <1>5, Zenon DEF NoCallback, PacketDone, unregister_pes_ops
  <2>2. "pc" \in DOMAIN run' /\ (run'.pc = "idle" \/ run'.pc = "off")
    BY <2>1 DEF Idle
  <2> QED
    BY <2>1, <2>2, DecOther
<1>6. CASE NullPrivate
  <2>1. run' = [run EXCEPT !.pc = "fault"] /\ UNCHANGED <<page, digits>>
    BY <1>6 DEF NullPrivate
  <2>2. "pc" \in DOMAIN run' /\ run'.pc = "fault"
    BY <1>0, <2>1
  <2> QED
    BY <2>1, <2>2, DecOther
<1>7. CASE parse_subtitle_segment
  <2>1. /\ run.pc = "segment" /\ run.i <= Len(run.data.segs) /\ UNCHANGED <<page, digits, leaked>>
    BY <1>7 DEF parse_subtitle_segment
  <2> DEFINE s == Segment.seg
             m == parse_sub_segment(s, Segment.length)
             X == list[run.entry].rest \cup (Allocated(s) \ free_subtitles(s))
  <2>2. \/ \E x : /\ run' = [run EXCEPT !.pc = x] /\ list' = list
                  /\ \/ x = "endless" /\ \E i \in DOMAIN s.blocks : Endless(s.blocks[i])
                     \/ x = "overrun" /\ Overruns(s, Segment.length)
                     \/ x = "abort" /\ ~(ObjectAssert(s, Segment.length) /\ m = Segment.length)
        \/ /\ m = Segment.length
           /\ run' = [run EXCEPT !.i = @ + 1, !.seg_len = @ - 6 - m]
           /\ list' = [list EXCEPT ![run.entry].rest = @ \cup (Allocated(s) \ free_subtitles(s))]
    BY <1>7, Zenon DEF parse_subtitle_segment
  <2>3. CASE \E x : /\ run' = [run EXCEPT !.pc = x] /\ list' = list
                    /\ \/ x = "endless" /\ \E i \in DOMAIN s.blocks : Endless(s.blocks[i])
                       \/ x = "overrun" /\ Overruns(s, Segment.length)
                       \/ x = "abort" /\ ~(ObjectAssert(s, Segment.length) /\ m = Segment.length)
    BY <2>1, <2>3, DecStop, Zenon
  <2>4. CASE /\ m = Segment.length
             /\ run' = [run EXCEPT !.i = @ + 1, !.seg_len = @ - 6 - m]
             /\ list' = [list EXCEPT ![run.entry].rest = @ \cup (Allocated(s) \ free_subtitles(s))]
    <3>1. list[run.entry] \in PesEntry
      <4>1. list \in Seq(PesEntry) /\ run.entry \in DOMAIN list
        BY <2>1 DEF RoutedInv, PesTypes, PesRun
      <4> QED
        BY <4>1
    <3>2. X \subseteq {"map", "preiod"}
      BY <3>1, RestFact, LeftOfSegment, Zenon
    <3>3. list' = [list EXCEPT ![run.entry].rest = X]
      BY <2>4, Zenon
    <3> HIDE DEF X
    <3> QED
      BY <2>1, <2>4, <3>2, <3>3, DecNextSegment, Zenon
  <2> QED
    BY <2>2, <2>3, <2>4, Zenon
<1>8. CASE Dead \/ Off
  BY <1>1, <1>8 DEF Dead, Off
<1> QED
  BY <1>1, <1>2, <1>3, <1>4, <1>5, <1>6, <1>7, <1>8, DecSubtitleBegin, DecSubtitleEnd,
     DecTeletextBegin, DecTeletextUnit, DecTeletextEnd, Zenon DEF PesNext

(* DecodedWhole holds in every reachable state, for all subtitle and
   teletext data: data that follows its syntax is taken to its end and
   decoded within what was allocated, long 4-bit runs, digits above nine
   and rejected magazines apart (parse_subtitle, parse_teletext). *)
THEOREM DecodedToTheEnd == PesSpec => []DecodedWhole
<1>1. DecInv => DecodedWhole
  BY DEF DecInv
<1> QED
  BY <1>1, RoutedInit, RoutedInductive, DecInit, DecInductive, PTL DEF PesSpec
=============================================================================
