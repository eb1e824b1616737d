------------------------------ MODULE Payload -------------------------------
(***************************************************************************)
(* PES packets behind reassembly (pes.c) and the two payloads that are     *)
(* decoded, DVB subtitles (subtitle.c) and teletext (teletext.c).          *)
(*                                                                         *)
(* parse_pmt registers a PID and the callback of its descriptor;           *)
(* parse_pes_packet finds the entry of the PID, walks the optional header  *)
(* fields and hands the data to the callback, which takes it segment by    *)
(* segment or unit by unit.  An allocation may fail once.                  *)
(***************************************************************************)
EXTENDS Subtitle, Teletext

CONSTANTS Pids,        \* elementary PIDs
          Streams,     \* <<pid, stream_type, tag>> that PMTs announce
          Headers,     \* packet headers, with data that is not decoded
          Contents,    \* data of subtitle and teletext PIDs
          MagBytes,    \* bytes received for magazine and row, each with the
          PktBytes,    \*   code word that was sent: <<received, sent>>
          MayFail      \* whether an allocation may fail

VARIABLES bitmap,    \* pes.pid_bitmap
          pid_index, \* pes.pid_index
          list,      \* pes.list, its length being pes.pid_num
          filters,   \* PIDs whose filter leads to pes_proc
          failed,    \* an allocation has failed
          announced, \* <<pid, tag>> that PMTs have announced so far
          page,      \* P of parse_teletext_data, static
          digits,    \* the digits of P as they were received
          leaked,    \* blocks no pointer leads to
          run        \* the packet being parsed

pes_vars == <<bitmap, pid_index, list, filters, failed, announced, page, digits, leaked, run>>

NONE == "none"
Parser == [sub |-> "parse_subtitle", text |-> "parse_teletext"]
Tags == {"sub", "text"}          \* 0x59 and 0x56
Idle == [pc |-> "idle"]

(* A descriptor is of a stream of a known PID, and a byte was received for a
   code word. *)
ASSUME StreamsAssumption == Streams \subseteq Pids \X Nat \X (Tags \cup {NONE})
ASSUME BytesAssumption == MagBytes \subseteq Byte \X CodeWords

PesInit ==
  /\ bitmap = {} /\ filters = {} /\ announced = {} /\ leaked = {}
  /\ pid_index = [p \in Pids |-> 0]
  /\ list = <<>>
  /\ failed = FALSE
  /\ page = 0 /\ digits = <<0, 0>>
  /\ run = Idle

-----------------------------------------------------------------------------
(* Registration, as parse_pmt does it for one elementary stream.  rest is
   what free_subtitles will not give back of the segments that are kept. *)

Entry(pid, type) == [pid |-> pid, type |-> type, cb |-> NONE, priv |-> NONE, rest |-> {}]

register_pes_ops(l, pid, type) == Append(l, Entry(pid, type))

(* Entry 0 when the PID has none, since pid_index is 0 then as well. *)
register_pes_data_callback_again(l, idx, type, tag, ok) ==
  IF idx >= Len(l) \/ l[idx + 1].type # type THEN l
  ELSE [l EXCEPT ![idx + 1].cb = Parser[tag],
                 ![idx + 1].priv = IF @ = NONE /\ ok THEN tag ELSE @]
register_pes_data_callback(l, idx, type, tag, ok) ==
  IF idx >= Len(l) \/ l[idx + 1].type # type \/ l[idx + 1].cb # NONE THEN l
  ELSE [l EXCEPT ![idx + 1].cb = Parser[tag],
                 ![idx + 1].priv = IF @ = NONE /\ ok THEN tag ELSE @]

(* tag is NONE for a stream without either descriptor; ok says whether the
   allocations succeed: the list's, then the private data's. *)
Register(pid, type, tag, okList, okPriv) ==
  LET isnew == pid \notin bitmap
      grown == IF isnew /\ okList THEN register_pes_ops(list, pid, type) ELSE list
      index == IF isnew /\ okList THEN [pid_index EXCEPT ![pid] = Len(list)] ELSE pid_index
  IN /\ run.pc = "idle"
     /\ ~(okList /\ okPriv) => MayFail /\ ~failed
     /\ ~okList => isnew
     /\ ~okPriv => tag # NONE
     /\ failed' = (failed \/ ~(okList /\ okPriv))
     /\ bitmap' = bitmap \cup {pid}
     /\ pid_index' = index
     /\ list' = IF tag = NONE THEN grown
                ELSE register_pes_data_callback(grown, index[pid], type, tag, okPriv)
     /\ filters' = IF isnew /\ okList THEN filters \cup {pid} ELSE filters
     /\ announced' = IF tag = NONE THEN announced ELSE announced \cup {<<pid, tag>>}
     /\ UNCHANGED <<page, digits, leaked, run>>

-----------------------------------------------------------------------------
(* The header.  Each optional field: the flag that announces it, the bytes
   buf moves by and the bytes head_len is told of. *)

Field1(flag, bytes) == [flag |-> flag, bytes |-> bytes, counted |-> bytes]
StandardFields ==
  << Field1("pts", 5), Field1("dts", 5), Field1("escr", 6), Field1("rate", 3),
     Field1("trick", 1), Field1("copy", 1), Field1("crc", 2), Field1("ext", 1) >>
extension_fields(h) ==
  << Field1("priv", 16), Field1("pack", 1 + h.pack),
     [flag |-> "ppsc", bytes |-> 2, counted |-> 0],
     Field1("pstd", 2), Field1("ext2", 1 + h.field) >>

(* The fields in the order they are read; a field is there with its flag, and
   those of the extension when there is one. *)
Fields(h) == StandardFields \o (IF "ext" \in h.flags THEN extension_fields(h) ELSE <<>>)
Given(h, i) == Fields(h)[i].flag \in h.flags

header_bytes(h) == Total([i \in DOMAIN Fields(h) |-> IF Given(h, i) THEN Fields(h)[i].bytes ELSE 0])
PES_header_data_length(h) == header_bytes(h) + h.stuffing

(* Where the data begins and how long PES_packet_length then says it is. *)
data_offset_unstuffed(h) == 9 + header_bytes(h)
data_offset(h) ==
  LET head_len == 9 + Total([i \in DOMAIN Fields(h) |->
                              IF Given(h, i) THEN Fields(h)[i].counted ELSE 0])
  IN 9 + header_bytes(h) + (9 + PES_header_data_length(h) - head_len)
LengthValues == 2^16            \* of a uint16_t
data_length(h, field) == (field - (3 + PES_header_data_length(h))) % LengthValues

-----------------------------------------------------------------------------
(* Data.  A subtitle packet holds segments, each with its stated length, and
   ends with a marker or without; a teletext packet holds units of 46 bytes
   behind its identifier, and some bytes more. *)

SegmentBytes(segs) == Total([i \in DOMAIN segs |-> 6 + segs[i].length])
DataBytes(d) ==
  CASE d.kind = "sub" -> 2 + SegmentBytes(d.segs) + (IF d.marker THEN 1 ELSE 0)
    [] d.kind = "text" -> 1 + 46 * Len(d.units) + d.rest
    [] d.kind = "raw" -> d.size

(* PES_packet_length as sent, in 16 bits: what follows it, less what the
   sender forgot. *)
PES_packet_length(h, d) == 3 + PES_header_data_length(h) + DataBytes(d) - h.short

(* The data of subtitle and teletext PIDs *)
SubtitleData == [kind : {"sub"}, segs : Seq([seg : SegmentsSent, length : Nat]), marker : BOOLEAN]
TeletextUnits == [units : 0..15, tens : 0..15, erase : BOOLEAN, valid : BOOLEAN]
TeletextData == [kind : {"text"}, units : Seq(TeletextUnits), rest : 0..45]
ASSUME ContentsAssumption == Contents \subseteq SubtitleData \cup TeletextData

SimpleHeader == [stream |-> "normal", flags |-> {"pts"}, pack |-> 0, field |-> 0,
                 stuffing |-> 0, short |-> 0]
ASSUME HeadersAssumption ==
  /\ \A h \in Headers : /\ h.stream \in {"normal", "other", "padding"}
                        /\ {h.pack, h.field, h.stuffing} \subseteq Nat
                        /\ PES_packet_length(h, [kind |-> "raw", size |-> 8]) \in 0 .. LengthValues - 1
  /\ \A d \in Contents : PES_packet_length(SimpleHeader, d) \in 0 .. LengthValues - 1

(* filter_proc calls pes_proc for a PID with a filter; packets of stream ids
   without a header take the data where it is, padding has none. *)
parse_pes_packet(pid, h, d) ==
  LET other == h.stream = "other"
      field == PES_packet_length(h, d)
      r == [pc |-> "data", pid |-> pid, entry |-> pid_index[pid] + 1, hdr |-> h, data |-> d,
            offset |-> IF other THEN 6 ELSE data_offset(h),
            plen |-> IF other THEN field ELSE data_length(h, field), field |-> field]
  IN /\ run.pc = "idle" /\ pid \in filters
     /\ run' = IF h.stream = "padding" THEN Idle ELSE r
     /\ UNCHANGED <<bitmap, pid_index, list, filters, failed, announced, page, digits, leaked>>

Quiet == UNCHANGED <<bitmap, pid_index, filters, failed, announced>>
Cur == list[run.entry]

(* No callback, or one whose private data could not be allocated. *)
NoCallback == /\ run.pc = "data" /\ Cur.cb = NONE
              /\ run' = Idle
              /\ Quiet /\ UNCHANGED <<list, page, digits, leaked>>
NullPrivate == /\ run.pc = "data" /\ Cur.cb # NONE /\ Cur.priv = NONE
               /\ run' = [run EXCEPT !.pc = "fault"]
               /\ Quiet /\ UNCHANGED <<list, page, digits, leaked>>

(* parse_subtitle: the segments of the last packet are given up, and data
   that is not of a subtitle is refused. *)
subtitle_begin ==
  /\ run.pc = "data" /\ Cur.cb = "parse_subtitle" /\ Cur.priv # NONE
  /\ list' = [list EXCEPT ![run.entry].rest = {}]
  /\ leaked' = leaked \cup Cur.rest
  /\ run' = IF run.data.kind # "sub" THEN Idle
            ELSE [pc |-> "segment", pid |-> run.pid, entry |-> run.entry, data |-> run.data,
                  i |-> 1, seg_len |-> run.plen - 2]
  /\ Quiet /\ UNCHANGED <<page, digits>>

Segment == run.data.segs[run.i]

(* One turn of the loop: a segment that the parser does not take to its
   stated length fails the assertion. *)
parse_subtitle_segment ==
  /\ run.pc = "segment"
  /\ run.i <= Len(run.data.segs) /\ run.seg_len # 0
  /\ LET s == Segment.seg
         n == parse_sub_segment(s, Segment.length)
         stop(pc) == run' = [run EXCEPT !.pc = pc] /\ UNCHANGED list
     IN \/ /\ \E i \in DOMAIN s.blocks : Endless(s.blocks[i])
           /\ stop("endless")
        \/ /\ \A i \in DOMAIN s.blocks : ~Endless(s.blocks[i])
           /\ Overruns(s, Segment.length)
           /\ stop("overrun")
        \/ /\ \A i \in DOMAIN s.blocks : ~Endless(s.blocks[i])
           /\ ~Overruns(s, Segment.length)
           /\ ~(ObjectAssert(s, Segment.length) /\ n = Segment.length)
           /\ stop("abort")
        \/ /\ \A i \in DOMAIN s.blocks : ~Endless(s.blocks[i])
           /\ ~Overruns(s, Segment.length)
           /\ ObjectAssert(s, Segment.length) /\ n = Segment.length
           /\ run' = [run EXCEPT !.i = @ + 1, !.seg_len = @ - 6 - n]
           /\ list' = [list EXCEPT ![run.entry].rest = @ \cup (Allocated(s) \ free_subtitles(s))]
  /\ Quiet /\ UNCHANGED <<page, digits, leaked>>

(* The next byte is the marker, or nothing is left. *)
subtitle_end ==
  /\ run.pc = "segment"
  /\ run.i > Len(run.data.segs) \/ run.seg_len = 0
  /\ run' = [run EXCEPT !.pc = "done"]
  /\ Quiet /\ UNCHANGED <<list, page, digits, leaked>>

(* parse_teletext: room for the whole units that fit.  Data of another kind
   fails the assertion on the first unit's identifier. *)
n_units(plen) == (plen - 1) \div 46
teletext_begin ==
  /\ run.pc = "data" /\ Cur.cb = "parse_teletext" /\ Cur.priv # NONE
  /\ run' = IF run.data.kind # "text"
            THEN [run EXCEPT !.pc = IF run.plen > 1 THEN "abort" ELSE "done"]
            ELSE [pc |-> "unit", pid |-> run.pid, entry |-> run.entry, data |-> run.data, i |-> 0,
                  plen |-> run.plen, room |-> n_units(run.plen), mag |-> <<{}, {}>>, out |-> FALSE]
  /\ Quiet /\ UNCHANGED <<list, page, digits, leaked>>

(* A row is written at g_text[8][100][32][40]; a page header sets P and, when
   it says so, clears rows 1 to 28 of the page. *)
Within(X, P, Y) == X \in 0..7 /\ P \in 0..99 /\ Y \in 0..31
parse_teletext_data(unit, mag, pkt) ==
  LET a == decode_hamming_address(mag[1], pkt[1])
      P == page_number(unit.units, unit.tens)
  IN IF a.Y = 0
     THEN /\ page' = P /\ digits' = <<unit.units, unit.tens>>
          /\ run' = [run EXCEPT !.i = @ + 1, !.mag = mag,
                                !.out = unit.erase /\ ~Within(a.X, P, 28)]
     ELSE /\ UNCHANGED <<page, digits>>
          /\ run' = [run EXCEPT !.i = @ + 1, !.mag = mag,
                                !.out = a.Y <= 25 /\ ~Within(a.X, page, a.Y)]

teletext_unit ==
  /\ run.pc = "unit" /\ 1 + 46 * run.i < run.plen /\ ~run.out
  /\ \/ /\ run.i >= run.room                       \* units[i] is behind its array
        /\ run' = [run EXCEPT !.pc = "overrun"]
        /\ UNCHANGED <<page, digits>>
     \/ /\ run.i < run.room /\ ~run.data.units[run.i + 1].valid
        /\ run' = [run EXCEPT !.pc = "abort"]
        /\ UNCHANGED <<page, digits>>
     \/ /\ run.i < run.room /\ run.data.units[run.i + 1].valid
        /\ \E mag \in MagBytes, pkt \in PktBytes :
             parse_teletext_data(run.data.units[run.i + 1], mag, pkt)
  /\ Quiet /\ UNCHANGED <<list, leaked>>

teletext_end ==
  /\ run.pc = "unit" /\ (1 + 46 * run.i >= run.plen \/ run.out)
  /\ run' = IF run.out THEN [run EXCEPT !.pc = "overrun"] ELSE [run EXCEPT !.pc = "done"]
  /\ Quiet /\ UNCHANGED <<list, page, digits, leaked>>

PacketDone == /\ run.pc = "done"
              /\ run' = Idle
              /\ Quiet /\ UNCHANGED <<list, page, digits, leaked>>

(* The process has died or does not return: nothing more happens. *)
Dead == /\ run.pc \in {"abort", "fault", "overrun", "endless"}
        /\ UNCHANGED pes_vars

(* free_tables at the end of the program; the entries go with their data. *)
free_pes_private(e) ==
  IF e.cb # NONE /\ e.priv # NONE THEN e.rest ELSE e.rest \cup ({e.priv} \ {NONE})
unregister_pes_ops ==
  /\ run.pc = "idle"
  /\ leaked' = leaked \cup UNION {free_pes_private(list[i]) : i \in DOMAIN list}
  /\ filters' = {p \in filters : \A i \in DOMAIN list : list[i].pid # p}
  /\ list' = <<>>
  /\ run' = [pc |-> "off"]
  /\ UNCHANGED <<bitmap, pid_index, failed, announced, page, digits>>
Off == run.pc = "off" /\ UNCHANGED pes_vars

PesNext ==
  \/ \E s \in Streams, okl, okp \in BOOLEAN : Register(s[1], s[2], s[3], okl, okp)
  \/ \E pid \in Pids : \/ \E h \in Headers : parse_pes_packet(pid, h, [kind |-> "raw", size |-> 8])
                       \/ \E d \in Contents : parse_pes_packet(pid, SimpleHeader, d)
  \/ NoCallback \/ NullPrivate
  \/ subtitle_begin \/ parse_subtitle_segment \/ subtitle_end
  \/ teletext_begin \/ teletext_unit \/ teletext_end
  \/ PacketDone \/ Dead \/ unregister_pes_ops \/ Off

PesSpec == PesInit /\ [][PesNext]_pes_vars

-----------------------------------------------------------------------------

(* Every entry has a PID of its own, whose bit is set and which pid_index
   leads to, so that a packet is parsed into the entry of its PID, in whatever
   order PMTs announced the PIDs; and the callback of an entry and its private
   data are of one kind, which a PMT announced for that PID.  When growing the
   list failed for a PID, its callback goes to the first entry instead
   (pes.c:41, pes.c:60). *)
Routed ==
  /\ run.pc \in {"data", "segment", "unit"} => list[run.entry].pid = run.pid
  /\ \A i \in DOMAIN list :
       LET e == list[i] IN
       /\ e.pid \in bitmap /\ pid_index[e.pid] = i - 1
       /\ e.cb = NONE => e.priv = NONE
       /\ e.cb # NONE => \E t \in Tags : /\ e.cb = Parser[t]
                                         /\ e.priv = t \/ (failed /\ e.priv = NONE)
                                         /\ <<e.pid, t>> \in announced \/ (failed /\ i = 1)

(* The data handed to the callback ends where the packet ends, for every set
   of optional fields and any stuffing.  Two cases are left out because the
   code misses them: a sequence counter moves the data by two, and a packet
   shorter than its header wraps the length (pes.c:60). *)
DataBounds ==
  run.pc = "data" =>
    \/ run.hdr.stream = "normal" /\ {"ext", "ppsc"} \subseteq run.hdr.flags
    \/ run.hdr.stream = "normal" /\ run.field < 3 + PES_header_data_length(run.hdr)
    \/ run.offset + run.plen = 6 + run.field

(* Data that follows its syntax, of the kinds the parser knows, is taken to
   its end: no assertion fails, no loop runs on (subtitle.c:788,
   teletext.c:258), and decoding stays within what was allocated.  Two kinds
   of conforming data leave it: 4-bit strings with runs of three pixels or
   more decode to more than four times their bytes, and a teletext row is
   written outside the pages when the page number had a digit above nine or
   the magazine byte was rejected (subtitle.c:416, teletext.c:18). *)
Conforming(d) ==
  CASE d.kind = "sub" -> \A i \in DOMAIN d.segs : /\ Supported(d.segs[i].seg)
                                                  /\ d.segs[i].length = SyntaxLength(d.segs[i].seg)
    [] d.kind = "text" -> d.rest = 0 /\ \A i \in DOMAIN d.units : d.units[i].valid
    [] OTHER -> FALSE
OfItsKind == Cur.cb = Parser[run.data.kind]
DecodedWhole ==
  /\ run.pc \in {"abort", "endless"} => ~Conforming(run.data) \/ ~OfItsKind
  /\ run.pc = "done" /\ run.data.kind = "sub" /\ OfItsKind =>
       run.i > Len(run.data.segs) /\ run.seg_len = IF run.data.marker THEN 1 ELSE 0
  /\ run.pc = "overrun" =>
       \/ ~Conforming(run.data)
       \/ run.data.kind = "sub" /\ HasLongRun(Segment.seg)
       \/ /\ run.data.kind = "text"
          /\ \/ digits[1] > 9 \/ digits[2] > 9
             \/ decode_hamming8_code(run.mag[1]) = Rejected

(* Of what the segments of a packet allocate, the next packet and the end of
   the program leave behind only map tables and periods (subtitle.c:1030). *)
OnlyTablesLeak == leaked \subseteq {"map", "preiod"}

(* A code word received as it was sent is kept; two flipped bits make
   it rejected; one flipped bit is repaired when the flip set it, and left as it
   was received when the flip cleared it (teletext.c:87). *)
HammingSound ==
  run.pc = "unit" /\ run.mag[2] # {} =>
    LET got == run.mag[1]  sent == run.mag[2]  err == Errors(got, sent)
        dec == decode_hamming8_code(got)
    IN /\ err = {} => dec = sent
       /\ Cardinality(err) = 2 => dec = Rejected
       /\ Cardinality(err) = 1 => dec = sent \ err
=============================================================================
