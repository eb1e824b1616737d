----------------------------- MODULE TsProcess -----------------------------
(***************************************************************************)
(* Cutting the input into packets: ts_process (src/src/ts.c) over the file *)
(* reader (src/src/fileio.c) or the UDP reader (src/src/udp.c).            *)
(*                                                                         *)
(* Input arrives in blocks.  Packets inside a block go to ts_proc in       *)
(* place; the rest of a block is kept in pkt_con and completed from the    *)
(* head of the next one.  Bytes are abstracted to their position in the    *)
(* input: ptr is the position it points at, and pkt_con is the interval    *)
(* saved from one block with the position its completion came from.        *)
(* The probe is abstracted to its length condition: when the block is long *)
(* enough it finds the packet length and the first sync byte.              *)
(***************************************************************************)
EXTENDS Naturals

CONSTANTS
  Sources,   \* the readers considered: "file", "udp"
  P,         \* ts_pktlen: 188, 192 or 204
  Starts,    \* possible positions of the first sync byte
  Sizes,     \* file: possible total sizes
  B,         \* file: block_size (2 MiB)
  Page,      \* file: page size, the granularity of mmap offsets
  IntMod,    \* file: 2^32, fileio_end returns an int
  Datagrams, \* udp: datagram sizes
  MaxStream, \* udp: bound on the bytes sent
  MinProbe,  \* CHECK_COUNT * TS_FEC_PACKET_SIZE = 2040
  SizeMod    \* 2^64, len is a size_t

ASSUME TsProcessConstants ==
  /\ Sources \subseteq {"file", "udp"}
  /\ P \in Nat \ {0} /\ B \in Nat /\ Page \in Nat \ {0}
  /\ IntMod \in Nat \ {0} /\ SizeMod \in Nat
  /\ MinProbe \in Nat /\ MaxStream \in Nat
  /\ P <= B /\ P <= SizeMod /\ P <= MinProbe
  /\ Starts \subseteq 0 .. (P - 1)
  /\ Sizes \subseteq Nat /\ Datagrams \subseteq Nat

VARIABLES
  source, \* the io_ops in use
  phase,  \* where ts_process is
  total,  \* file: total_size
  start,  \* position of the first sync byte (start_index)
  off,    \* end of the current block: bytes mapped or sent so far
  pos,    \* ptr
  len,    \* bytes left in the block
  con,    \* pkt_con: [a, l, b]: l bytes from position a, the rest from b
  conlen, \* pkt_con_len
  expect, \* ghost: end of the last packet given to ts_proc
  last    \* ghost: the last packet given to ts_proc: its place, and whether
          \* its bytes are consecutive in the input

vars == <<source, phase, total, start, off, pos, len, con, conlen, expect, last>>

Phases == {"open", "probe", "top", "inner", "save", "read", "complete", "end",
           "closed", "failed", "fault"}

Final == {"closed", "failed", "fault"}

NoPacket == [start |-> 0, whole |-> TRUE]

Least(a, b) == IF a <= b THEN a ELSE b

Init ==
  /\ source \in Sources
  /\ phase = "open"
  /\ total \in Sizes
  /\ start \in Starts
  /\ source = "udp" => start = 0   \* datagrams hold whole packets
  /\ off = 0 /\ pos = 0 /\ len = 0
  /\ con = [a |-> 0, l |-> 0, b |-> 0]
  /\ conlen = 0
  /\ expect = start
  /\ last = NoPacket

-----------------------------------------------------------------------------
(* The readers *)

\* fileio_read maps the next block; mmap refuses an offset that is not a
\* multiple of the page size, which is how the read at the end of a file
\* usually fails.  At the end of a page-sized file it maps 0 bytes.
fileio_read_ok ==
  /\ source = "file"
  /\ off % Page = 0
  /\ off' = off + Least(B, total - off)
  /\ len' = Least(B, total - off)
  /\ pos' = off

fileio_read_fails ==
  /\ source = "file"
  /\ off % Page # 0
  /\ pos' = 0 /\ len' = 0
  /\ UNCHANGED off

\* udp_read waits for a datagram and always returns 0; datagrams sent in the
\* meantime may have been lost.
udp_read ==
  /\ source = "udp"
  /\ \E d \in Datagrams, lost \in Datagrams \cup {0} :
       /\ off + lost + d <= MaxStream
       /\ off' = off + lost + d
       /\ pos' = off + lost
       /\ len' = d

\* Mutant: the end is reported with one block still to be read
ops_end_early == source = "udp" \/ total - off > B

\* fileio_end returns the bytes left as an int; udp_end always 1
ops_end == source = "udp" \/ (total - off) % IntMod # 0

-----------------------------------------------------------------------------
(* ts_process *)

\* ops->open and the first read, whose result is not looked at
OpenAndRead ==
  /\ phase = "open"
  /\ phase' = "probe"
  /\ fileio_read_ok \/ fileio_read_fails \/ udp_read
  /\ UNCHANGED <<source, total, start, con, conlen, expect, last>>

OpenFails ==
  /\ phase = "open"
  /\ phase' = "failed"
  /\ UNCHANGED <<source, total, start, off, pos, len, con, conlen, expect, last>>

\* mpegts_probe wants ten packets of the longest kind in the first block;
\* then ptr steps to the first sync byte.  For udp that is the first sync
\* byte of this datagram.
Probe ==
  /\ phase = "probe"
  /\ \/ /\ len < MinProbe
        /\ phase' = "failed"
        /\ UNCHANGED <<pos, len, expect>>
     \/ /\ len >= MinProbe
        /\ phase' = "top"
        /\ pos' = pos + start
        /\ len' = len - start
        /\ expect' = pos + start
  /\ UNCHANGED <<source, total, start, off, con, conlen, last>>

\* Mutant: a packet completed in pkt_con is dropped
ProcessCarried_dropped ==
  /\ phase = "top"
  /\ phase' = "inner"
  /\ conlen' = 0
  /\ UNCHANGED <<source, total, start, off, pos, len, con, expect, last>>

\* A packet completed in pkt_con is processed first.
ProcessCarried ==
  /\ phase = "top"
  /\ \/ /\ conlen = P
        /\ last' = [start |-> con.a,
                    whole |-> con.a + con.l = con.b /\ con.b + (P - con.l) <= off]
        /\ expect' = con.a + P
        /\ conlen' = 0
     \/ conlen # P /\ UNCHANGED <<last, expect, conlen>>
  /\ phase' = "inner"
  /\ UNCHANGED <<source, total, start, off, pos, len, con>>

\* Mutant: the loop runs while anything is left
ProcessPacketEager ==
  /\ phase = "inner"
  /\ len > 0
  /\ last' = [start |-> pos, whole |-> pos + P <= off]
  /\ expect' = pos + P
  /\ pos' = pos + P
  /\ len' = (len + SizeMod - P) % SizeMod
  /\ UNCHANGED <<source, phase, total, start, off, con, conlen>>

\* Mutant: ptr is stepped short
ProcessPacketShortStep ==
  /\ phase = "inner"
  /\ len >= P
  /\ last' = [start |-> pos, whole |-> pos + P <= off]
  /\ expect' = pos + P
  /\ pos' = pos + (P - 1)
  /\ len' = len - P
  /\ UNCHANGED <<source, phase, total, start, off, con, conlen>>

ProcessPacket ==
  /\ phase = "inner"
  /\ len >= P
  /\ last' = [start |-> pos, whole |-> pos + P <= off]
  /\ expect' = pos + P
  /\ pos' = pos + P
  /\ len' = len - P
  /\ UNCHANGED <<source, phase, total, start, off, con, conlen>>

BlockDone ==
  /\ phase = "inner"
  /\ len < P
  /\ phase' = "save"
  /\ UNCHANGED <<source, total, start, off, pos, len, con, conlen, expect, last>>

\* The bytes that are left are saved in pkt_con.
SaveRest ==
  /\ phase = "save"
  /\ IF len # 0
       THEN con' = [con EXCEPT !.a = pos, !.l = len] /\ conlen' = len
       ELSE UNCHANGED <<con, conlen>>
  /\ phase' = "read"
  /\ UNCHANGED <<source, total, start, off, pos, len, expect, last>>

\* Mutant: a failed read is tried again
ReadNextRetry ==
  /\ phase = "read"
  /\ \/ (fileio_read_ok \/ udp_read) /\ phase' = "complete"
     \/ fileio_read_fails /\ phase' = "read"
  /\ UNCHANGED <<source, total, start, con, conlen, expect, last>>

ReadNext ==
  /\ phase = "read"
  /\ \/ (fileio_read_ok \/ udp_read) /\ phase' = "complete"
     \/ fileio_read_fails /\ phase' = "closed"
  /\ UNCHANGED <<source, total, start, con, conlen, expect, last>>

\* pkt_con is completed from the new block, however short that is.  Reading
\* a mapping that starts at the end of the file raises SIGBUS.
Complete ==
  /\ phase = "complete"
  /\ \/ conlen = 0 /\ phase' = "end" /\ UNCHANGED <<pos, len, con, conlen>>
     \/ /\ conlen # 0
        /\ source = "file" /\ len = 0
        /\ phase' = "fault"
        /\ UNCHANGED <<pos, len, con, conlen>>
     \/ /\ conlen # 0
        /\ ~(source = "file" /\ len = 0)
        /\ LET need == P - conlen IN
             /\ con' = [con EXCEPT !.b = pos]
             /\ pos' = pos + need
             /\ len' = IF need <= len THEN len - need ELSE SizeMod - (need - len)
        /\ conlen' = P
        /\ phase' = "end"
  /\ UNCHANGED <<source, total, start, off, expect, last>>

EndTest ==
  /\ phase = "end"
  /\ phase' = IF ops_end THEN "top" ELSE "closed"
  /\ UNCHANGED <<source, total, start, off, pos, len, con, conlen, expect, last>>

\* recv waits for as long as no datagram comes.
Waiting == source = "udp" /\ phase \in {"open", "read"} /\ UNCHANGED vars

\* Return to main
Done == phase \in Final /\ UNCHANGED vars

Steps ==
  \/ OpenAndRead \/ OpenFails \/ Probe \/ ProcessCarried \/ ProcessPacket \/ BlockDone
  \/ SaveRest \/ ReadNext \/ Complete \/ EndTest

Next == Steps \/ Waiting \/ Done

Spec == Init /\ [][Next]_vars

\* The process is scheduled as long as it can take a step.
FairSpec == Spec /\ WF_vars(Steps)

-----------------------------------------------------------------------------
(* Properties *)

\* The variables of ts_process stay in their domains.
TypeOK ==
  /\ source \in Sources /\ phase \in Phases
  /\ total \in Nat /\ start \in 0 .. (P - 1)
  /\ off \in Nat /\ pos \in Nat /\ len \in Nat
  /\ con \in [a : Nat, l : Nat, b : Nat]
  /\ conlen \in 0 .. P
  /\ expect \in Nat
  /\ last \in [start : Nat, whole : BOOLEAN]

\* Every packet given to ts_proc is P consecutive bytes of the input that
\* were really read, also when it was put together from two blocks.
PacketWhole == last.whole

\* A file's packets are given to ts_proc in order and without a gap: each
\* starts where the one before it ended.
NoGap == [][source = "file" /\ last' # last => last'.start = expect]_vars

\* Every packet given to ts_proc starts at a packet boundary of the input,
\* whatever datagrams are lost in between.
PacketAligned == last # NoPacket => last.start % P = start

\* What ts_process leaves behind when it closes a file of several blocks is
\* less than one block and one packet; of a file of one block, less than a
\* packet.
DropsAtMostLastBlock ==
  source = "file" /\ phase = "closed" =>
    total - expect < P + (IF total <= B THEN 0 ELSE B)

\* Reading ahead of the end of the file raises SIGBUS only when the file
\* ends on a page boundary inside a packet, and then every whole packet
\* has been processed.
FaultOnlyInTail ==
  phase = "fault" =>
    /\ source = "file" /\ total % Page = 0
    /\ 0 < total - expect /\ total - expect < P

\* ts_process comes back from every file.
Terminates == source = "file" => <>(phase \in Final)
=============================================================================
