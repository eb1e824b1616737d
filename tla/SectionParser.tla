--------------------------- MODULE SectionParser ---------------------------
(***************************************************************************)
(* Reassembly of sections and PES packets from TS payloads on one PID:     *)
(* section_preproc and the end of ts_proc (src/src/ts.c).                  *)
(*                                                                         *)
(* struct section_parser is total_len, limit_len and the buffer; PIDs do   *)
(* not share any of it.  The continuity counter is stored by the code and  *)
(* never read, so it is not part of the state.  A call hands a section to  *)
(* filter_proc or returns -1 (buffering) or 0 (nothing).  The length       *)
(* travels through an int16_t, so it is taken modulo 2^16 and two values   *)
(* of it read as -1 and 0.  Writing past the buffer is undefined: the      *)
(* model stops there.                                                      *)
(***************************************************************************)
EXTENDS Integers, Sequences

CONSTANTS
  Bytes,   \* byte values of payloads
  Junk,    \* what malloc leaves in the buffer
  K,       \* most payload bytes in one packet (184)
  SecHdr,  \* bytes of a section up to its length field (3)
  PesHdr,  \* bytes of a PES packet up to its length field (6)
  MaxLen,  \* largest value of the section length field (0x0FFF)
  Cap,     \* MAX_SECTION_BUF (65535)
  LenMod   \* 2^16, the return type int16_t

ASSUME SectionConstants ==
  /\ K \in Nat \ {0} /\ SecHdr \in Nat \ {0} /\ PesHdr \in Nat \ {0}
  /\ MaxLen \in Nat /\ Cap \in Nat /\ LenMod \in Nat \ {0}
  /\ SecHdr + MaxLen + K <= Cap /\ K <= SecHdr + MaxLen
  /\ SecHdr + MaxLen < LenMod - 1
  /\ Junk \notin Bytes

VARIABLES
  total_len, \* bytes collected
  limit_len, \* bytes wanted
  buffer,    \* the reassembly buffer, by offset
  out,       \* what the last call gave to filter_proc
  overrun    \* a write went past the end of the buffer

parser == <<total_len, limit_len, buffer, out, overrun>>

NoSection == [len |-> 0, data |-> <<>>]

EmptyBuffer == [i \in 0 .. (Cap - 1) |-> Junk]

ParserInit ==
  /\ total_len = 0
  /\ limit_len = 0
  /\ buffer = EmptyBuffer
  /\ out = NoSection
  /\ overrun = FALSE

\* memcpy(pbuf + at, data, Len(data))
Written(at, data) ==
  [i \in 0 .. (Cap - 1) |->
     IF i >= at /\ i < at + Len(data) THEN data[i - at + 1] ELSE buffer[i]]

Prefix(buf, n) == [i \in 1 .. n |-> IF i <= Cap THEN buf[i - 1] ELSE Junk]

\* ts_proc drops results that read as 0 or -1 in an int16_t
Dispatched(n, data) ==
  IF n % LenMod \in {0, LenMod - 1} THEN NoSection
  ELSE [len |-> n % LenMod, data |-> data]

-----------------------------------------------------------------------------
\* Mutant: a start is ignored while a section is being collected
PsiStartBusy(field, data) ==
  /\ ~overrun
  /\ IF total_len # 0 THEN out' = NoSection /\ UNCHANGED <<total_len, limit_len, buffer>>
     ELSE /\ total_len' = Len(data)
          /\ limit_len' = field + SecHdr
          /\ IF field + SecHdr <= Len(data)
               THEN /\ out' = Dispatched(field + SecHdr, SubSeq(data, 1, field + SecHdr))
                    /\ UNCHANGED buffer
               ELSE out' = NoSection /\ buffer' = Written(0, data)
  /\ UNCHANGED overrun

\* Payload unit start on a PSI PID.  `data` is what follows pointer_field and
\* the bytes it skips, `field` the section_length read from it; pointer_field
\* points inside the packet.
PsiStart(field, data) ==
  /\ ~overrun
  /\ total_len' = Len(data)
  /\ limit_len' = field + SecHdr
  /\ IF field + SecHdr <= Len(data)
       THEN /\ out' = Dispatched(field + SecHdr, SubSeq(data, 1, field + SecHdr))
            /\ UNCHANGED buffer
       ELSE out' = NoSection /\ buffer' = Written(0, data)
  /\ UNCHANGED overrun

\* Mutant: total_len is not cleared when a section is complete
PsiContinueNoReset(data) ==
  /\ ~overrun
  /\ total_len # 0
  /\ overrun' = (total_len + Len(data) > Cap)
  /\ buffer' = Written(total_len, data)
  /\ out' = IF total_len + Len(data) >= limit_len
              THEN Dispatched(limit_len, Prefix(buffer', limit_len)) ELSE NoSection
  /\ total_len' = total_len + Len(data)
  /\ UNCHANGED limit_len

\* Further payload on a PSI PID
PsiContinue(data) ==
  /\ ~overrun
  /\ \/ /\ total_len = 0
        /\ out' = NoSection
        /\ UNCHANGED <<total_len, limit_len, buffer, overrun>>
     \/ /\ total_len # 0
        /\ overrun' = (total_len + Len(data) > Cap)
        /\ buffer' = Written(total_len, data)
        /\ IF total_len + Len(data) >= limit_len
             THEN /\ out' = Dispatched(limit_len, Prefix(buffer', limit_len))
                  /\ total_len' = 0
             ELSE out' = NoSection /\ total_len' = total_len + Len(data)
        /\ UNCHANGED limit_len

\* Mutant: PES_packet_length is taken for the length of the whole packet
PesStartNoHdr(field, data) ==
  /\ ~overrun
  /\ total_len' = Len(data)
  /\ limit_len' = field
  /\ \/ field <= Len(data)
        /\ out' = Dispatched(Len(data), data)
        /\ UNCHANGED buffer
     \/ /\ field > Len(data)
        /\ out' = NoSection
        /\ buffer' = Written(0, data)
  /\ UNCHANGED overrun

\* Payload unit start on a PES PID.  A length field of 0 (video) is dropped.
PesStart(field, data) ==
  /\ ~overrun
  /\ total_len' = Len(data)
  /\ limit_len' = IF field > 0 THEN field + PesHdr ELSE 0
  /\ \/ field = 0 /\ out' = NoSection /\ UNCHANGED buffer
     \/ /\ field > 0 /\ field + PesHdr <= Len(data)
        /\ out' = Dispatched(Len(data), data)
        /\ UNCHANGED buffer
     \/ /\ field > 0 /\ field + PesHdr > Len(data)
        /\ out' = NoSection
        /\ buffer' = Written(0, data)
  /\ UNCHANGED overrun

\* Further payload on a PES PID.  total_len is not cleared after the packet
\* is complete: more payload is appended and the packet is handed on again.
PesContinue(data) ==
  /\ ~overrun
  /\ \/ /\ limit_len = 0
        /\ out' = NoSection
        /\ UNCHANGED <<total_len, limit_len, buffer, overrun>>
     \/ /\ limit_len # 0
        /\ overrun' = (total_len + Len(data) > Cap)
        /\ buffer' = Written(total_len, data)
        /\ total_len' = total_len + Len(data)
        /\ out' = IF total_len + Len(data) >= limit_len
                    THEN Dispatched(limit_len, Prefix(buffer', limit_len))
                    ELSE NoSection
        /\ UNCHANGED limit_len

Payloads == UNION {[1 .. n -> Bytes] : n \in 0 .. K}

\* Payloads of any bytes on a PSI PID, in any order, with any length field
AnyPsiPacket ==
  \E data \in Payloads :
    \/ \E field \in 0 .. MaxLen : PsiStart(field, data)
    \/ PsiContinue(data)

ParserSpec == ParserInit /\ [][AnyPsiPacket]_parser

-----------------------------------------------------------------------------
(* Properties *)

\* The parser's variables stay in their domains.
ParserTypeOK ==
  /\ total_len \in Nat
  /\ limit_len \in Nat
  /\ buffer \in [0 .. (Cap - 1) -> Bytes \cup {Junk}]
  /\ overrun \in BOOLEAN
  /\ out = NoSection \/ out.len = Len(out.data)

\* Reassembly never writes past the buffer it allocated (the comment on
\* MAX_SECTION_BUF: "a fixed upper bound avoids unbounded growth").
WithinBuffer == ~overrun
=============================================================================
