-------------------------- MODULE TsProcessProofs --------------------------
(***************************************************************************)
(* Proofs about TsProcess, for every packet length, block size, file size  *)
(* and datagram size: the packets given to ts_proc from either reader are  *)
(* whole and start at packet boundaries; those of a file come in order and *)
(* without a gap, and at most the last block of it is left unprocessed.    *)
(***************************************************************************)
EXTENDS TsProcess, TLAPS

(* What the arguments below assume of the build and the input: blocks are a
   whole number of pages, the file size fits fileio_end's int, and datagrams
   hold whole packets. *)
InputAssumptions ==
  /\ B % Page = 0
  /\ \A n \in Sizes : n < IntMod
  /\ \A d \in Datagrams : d % P = 0

(* Where ptr, pkt_con and the mapped part of the file stand to each other in
   each phase.  `expect` is the end of the last packet processed. *)
InStep == pos = expect /\ pos + len = off

Carried ==
  /\ conlen = P
  /\ con.a = expect /\ con.l > 0 /\ con.l < P /\ con.b = con.a + con.l

FileInv ==
  /\ TypeOK
  /\ source = "file"
  /\ last.whole
  /\ total \in Sizes
  /\ off <= total
  /\ off = total \/ off % Page = 0
  /\ phase \notin {"open", "failed"} /\ total <= B => off = total
  /\ phase = "open" => off = 0 /\ conlen = 0
  /\ phase = "probe" => conlen = 0 /\ pos = 0 /\ len = off
  /\ phase = "top" =>
       \/ conlen = 0 /\ InStep
       \/ Carried /\ pos = expect + P /\ pos + len = off
  /\ phase = "inner" => conlen = 0 /\ InStep
  /\ phase = "save" => conlen = 0 /\ InStep /\ len < P
  /\ phase \in {"read", "complete"} =>
       conlen < P /\ (conlen # 0 => con.a = expect /\ con.l = conlen)
  /\ phase = "read" => expect + conlen = off
  /\ phase = "complete" =>
       /\ expect + conlen = pos /\ pos + len = off /\ len <= B
       /\ len = B \/ off = total
       /\ total <= B => len = 0
       /\ len = 0 => off % Page = 0
  /\ phase = "end" =>
       /\ \/ conlen = 0 /\ InStep
          \/ Carried /\ pos = expect + P /\ pos + len = off
          \/ off = total
       /\ off < expect + P + B
       /\ total <= B => off < expect + P
  /\ DropsAtMostLastBlock
  /\ FaultOnlyInTail

(* Multiples of the page size are closed under addition. *)
LEMMA ModSum ==
  ASSUME NEW p \in Nat \ {0}, NEW a \in Nat, NEW b \in Nat, a % p = 0, b % p = 0
  PROVE  (a + b) % p = 0
<1>1. a = p * (a \div p) /\ b = p * (b \div p) /\ a \div p \in Nat /\ b \div p \in Nat
  OBVIOUS
<1>2. a + b = p * ((a \div p) + (b \div p))
  BY <1>1
<1>3. \A n, q \in Nat : n = p * q => n % p = 0
  OBVIOUS
<1> QED
  BY <1>1, <1>2, <1>3

(* A number that fits the int of fileio_end is not cut off by it. *)
LEMMA ModSmall ==
  ASSUME NEW p \in Nat \ {0}, NEW a \in Nat, a < p
  PROVE  a % p = a
  OBVIOUS

(* A read of the file maps the block after the ones mapped so far. *)
LEMMA ReadBlock ==
  ASSUME InputAssumptions, FileInv, fileio_read_ok
  PROVE  /\ off' \in Nat /\ off' <= total /\ pos' = off /\ len' \in Nat
         /\ pos' + len' = off' /\ len' <= B
         /\ len' = B \/ off' = total
         /\ off' = total \/ off' % Page = 0
         /\ total <= B => off' = total
         /\ len' = 0 => off' % Page = 0
<1> USE TsProcessConstants
<1>1. /\ off \in Nat /\ total \in Nat /\ off <= total /\ off % Page = 0
      /\ off' = off + Least(B, total - off) /\ len' = Least(B, total - off)
      /\ pos' = off
  BY DEF fileio_read_ok, FileInv, TypeOK
<1>2. CASE B <= total - off
  <2>1. len' = B /\ off' = off + B
    BY <1>1, <1>2 DEF Least
  <2>2. off' % Page = 0
    BY <1>1, <2>1, ModSum DEF InputAssumptions
  <2>3. off' \in Nat /\ off' <= total /\ pos' + len' = off' /\ (total <= B => off' = total)
    BY <1>1, <1>2, <2>1
  <2> QED
    BY <1>1, <2>1, <2>2, <2>3
<1>3. CASE ~(B <= total - off)
  BY <1>1, <1>3 DEF Least
<1> QED
  BY <1>2, <1>3

(* The invariant is inductive. *)
LEMMA FileInductive ==
  ASSUME InputAssumptions, FileInv, [Next]_vars
  PROVE  FileInv'
<1> USE TsProcessConstants
<1>s. source = "file"
  BY DEF FileInv
<1>1. CASE OpenAndRead
  <2>1. fileio_read_ok
    <3>1. off = 0 /\ ~udp_read
      BY <1>1, <1>s DEF OpenAndRead, udp_read, FileInv
    <3>2. off % Page = 0
      BY <3>1
    <3> QED
      BY <1>1, <3>1, <3>2 DEF OpenAndRead, fileio_read_fails
  <2>2. off = 0 /\ conlen = 0 /\ phase' = "probe"
    BY <1>1 DEF OpenAndRead, FileInv
  <2>3. /\ off' \in Nat /\ off' <= total /\ pos' = 0 /\ len' \in Nat /\ len' = off'
        /\ off' = total \/ off' % Page = 0
        /\ total <= B => off' = total
    BY <2>1, <2>2, ReadBlock
  <2>4. UNCHANGED <<source, total, start, con, conlen, expect, last>>
    BY <1>1 DEF OpenAndRead
  <2> QED
    BY <2>2, <2>3, <2>4 DEF FileInv, TypeOK, Phases, FaultOnlyInTail, DropsAtMostLastBlock
<1>2. CASE OpenFails
  BY <1>2 DEF OpenFails, FileInv, TypeOK, Phases, FaultOnlyInTail, DropsAtMostLastBlock
<1>3. CASE Probe
  BY <1>3 DEF Probe, FileInv, TypeOK, Phases, FaultOnlyInTail, DropsAtMostLastBlock, InStep
<1>4. CASE ProcessCarried
  <2>1. /\ phase = "top" /\ phase' = "inner"
        /\ UNCHANGED <<source, total, start, off, pos, len, con>>
    BY <1>4 DEF ProcessCarried
  <2>2. CASE conlen = P
    <3>1. Carried /\ pos = expect + P /\ pos + len = off
      BY <2>1, <2>2 DEF FileInv
    <3>2. con.a \in Nat /\ con.l \in Nat /\ con.b \in Nat /\ expect \in Nat
      BY DEF FileInv, TypeOK
    <3>3. conlen' = 0 /\ expect' = con.a + P
      BY <1>4, <2>2 DEF ProcessCarried
    <3>4. con.a + con.l = con.b /\ con.b + (P - con.l) <= off
      BY <3>1, <3>2 DEF Carried, FileInv, TypeOK
    <3>5. last' = [start |-> con.a, whole |-> TRUE]
      BY <1>4, <2>2, <3>4 DEF ProcessCarried
    <3> QED
      BY <2>1, <3>1, <3>2, <3>3, <3>5
         DEF FileInv, TypeOK, Phases, FaultOnlyInTail, DropsAtMostLastBlock, InStep, Carried
  <2>3. CASE conlen # P
    BY <1>4, <2>1, <2>3 DEF ProcessCarried, FileInv, TypeOK, Phases,
                            FaultOnlyInTail, DropsAtMostLastBlock, InStep, Carried
  <2> QED
    BY <2>2, <2>3
<1>5. CASE ProcessPacket
  BY <1>5 DEF ProcessPacket, FileInv, TypeOK, Phases, FaultOnlyInTail, DropsAtMostLastBlock, InStep
<1>6. CASE BlockDone
  BY <1>6 DEF BlockDone, FileInv, TypeOK, Phases, FaultOnlyInTail, DropsAtMostLastBlock, InStep
<1>7. CASE SaveRest
  <2>1. /\ phase = "save" /\ phase' = "read"
        /\ UNCHANGED <<source, total, start, off, pos, len, expect, last>>
        /\ conlen = 0 /\ pos = expect /\ pos + len = off /\ len < P
    BY <1>7 DEF SaveRest, FileInv, InStep
  <2>2. CASE len # 0
    <3>1. con' = [con EXCEPT !.a = pos, !.l = len] /\ conlen' = len
      BY <1>7, <2>2 DEF SaveRest
    <3>2. con' \in [a : Nat, l : Nat, b : Nat] /\ con'.a = pos /\ con'.l = len
      BY <3>1 DEF FileInv, TypeOK
    <3> QED
      BY <2>1, <3>1, <3>2 DEF FileInv, TypeOK, Phases, FaultOnlyInTail, DropsAtMostLastBlock
  <2>3. CASE len = 0
    <3>1. con' = con /\ conlen' = conlen
      BY <1>7, <2>3 DEF SaveRest
    <3> QED
      BY <2>1, <2>3, <3>1 DEF FileInv, TypeOK, Phases, FaultOnlyInTail, DropsAtMostLastBlock
  <2> QED
    BY <2>2, <2>3
<1>8. CASE ReadNext
  <2>1. CASE fileio_read_ok /\ phase' = "complete"
    BY <1>8, <2>1, ReadBlock
       DEF ReadNext, FileInv, TypeOK, Phases, FaultOnlyInTail, DropsAtMostLastBlock
  <2>2. CASE fileio_read_fails /\ phase' = "closed"
    BY <1>8, <2>2 DEF ReadNext, fileio_read_fails, FileInv, TypeOK, Phases,
                      FaultOnlyInTail, DropsAtMostLastBlock
  <2> QED
    BY <1>8, <1>s, <2>1, <2>2 DEF ReadNext, udp_read
<1>9. CASE Complete
  <2>1. CASE phase' = "fault"
    <3>1. /\ phase = "complete" /\ conlen # 0 /\ len = 0
          /\ UNCHANGED <<source, total, start, off, pos, len, con, conlen, expect, last>>
      BY <1>9, <2>1 DEF Complete
    <3>2. off = total /\ off % Page = 0 /\ expect + conlen = total /\ conlen < P
      BY <3>1 DEF FileInv, TypeOK
    <3>3. total % Page = 0 /\ 0 < total - expect /\ total - expect < P
      BY <3>1, <3>2 DEF FileInv, TypeOK
    <3> QED
      BY <2>1, <3>1, <3>3 DEF FileInv, TypeOK, Phases, FaultOnlyInTail, DropsAtMostLastBlock
  <2>2. CASE phase' # "fault"
    BY <1>9, <1>s, <2>2 DEF Complete, FileInv, TypeOK, Phases, FaultOnlyInTail,
                            DropsAtMostLastBlock, InStep, Carried
  <2> QED
    BY <2>1, <2>2
<1>10. CASE EndTest
  <2>1. /\ phase = "end" /\ off \in Nat /\ total \in Nat /\ off <= total
        /\ UNCHANGED <<source, total, start, off, pos, len, con, conlen, expect, last>>
    BY <1>10 DEF EndTest, FileInv, TypeOK
  <2>2. total - off \in Nat /\ total - off < IntMod
    BY <2>1 DEF InputAssumptions, FileInv
  <2>3. ops_end <=> off # total
    BY <1>s, <2>1, <2>2, ModSmall DEF ops_end
  <2>4. CASE off = total
    <3>1. phase' = "closed"
      BY <1>10, <2>3, <2>4 DEF EndTest
    <3> QED
      BY <2>1, <2>4, <3>1 DEF FileInv, TypeOK, Phases, FaultOnlyInTail, DropsAtMostLastBlock
  <2>5. CASE off # total
    <3>1. phase' = "top"
      BY <1>10, <2>3, <2>5 DEF EndTest
    <3> QED
      BY <2>1, <2>5, <3>1 DEF FileInv, TypeOK, Phases, FaultOnlyInTail, DropsAtMostLastBlock,
                              InStep, Carried
  <2> QED
    BY <2>4, <2>5
<1>11. CASE UNCHANGED vars
  BY <1>11 DEF vars, FileInv, TypeOK, FaultOnlyInTail, DropsAtMostLastBlock, InStep, Carried
<1> QED
  BY <1>1, <1>2, <1>3, <1>4, <1>5, <1>6, <1>7, <1>8, <1>9, <1>10, <1>11
     DEF Next, Steps, Waiting, Done

-----------------------------------------------------------------------------
(* Alignment, and the UDP reader *)

(* A multiple of the packet length added to a position keeps its place in
   the packet. *)
LEMMA ModShift ==
  ASSUME NEW p \in Nat \ {0}, NEW a \in Nat
  PROVE  (a + p) % p = a % p
<1> DEFINE q == a \div p  r == a % p
<1>1. a = p * q + r /\ q \in Nat /\ r \in 0 .. (p - 1)
  OBVIOUS
<1>2. a + p = p * (q + 1) + r
  BY <1>1
<1>3. \A n, k, m \in Nat : n = p * k + m /\ m < p => n % p = m
  OBVIOUS
<1>4. a + p \in Nat /\ q + 1 \in Nat /\ r \in Nat /\ r < p
  BY <1>1
<1> HIDE DEF q, r
<1>5. (a + p) % p = r
  BY <1>2, <1>3, <1>4
<1> QED
  BY <1>5 DEF r

(* Taking a whole packet off a whole number of packets leaves a whole
   number of packets. *)
LEMMA ModTake ==
  ASSUME NEW p \in Nat \ {0}, NEW a \in Nat, a % p = 0, a >= p
  PROVE  (a - p) % p = 0
<1>1. a - p \in Nat /\ (a - p) + p = a
  OBVIOUS
<1>2. ((a - p) + p) % p = (a - p) % p
  BY <1>1, ModShift
<1> QED
  BY <1>1, <1>2

(* The end of the last packet of a file is as far into a packet as the
   first sync byte was. *)
FileAligned == expect % P = start /\ PacketAligned

(* Every step that gives a packet of a file to ts_proc moves on by one packet
   length. *)
LEMMA FileAlignedInductive ==
  ASSUME FileInv, FileAligned, [Next]_vars
  PROVE  FileAligned'
<1> USE TsProcessConstants
<1>1. /\ P \in Nat \ {0} /\ expect \in Nat /\ start \in 0 .. (P - 1)
      /\ expect % P = start
  BY DEF FileInv, TypeOK, FileAligned
<1>2. (expect + P) % P = start
  BY <1>1, ModShift
<1>3. start' = start
  BY DEF Next, Steps, Waiting, Done, OpenAndRead, OpenFails, Probe, ProcessCarried,
         ProcessPacket, BlockDone, SaveRest, ReadNext, Complete, EndTest, vars
<1>4. CASE last' # last
  <2>1. last'.start = expect /\ expect' = expect + P
    <3>1. CASE ProcessCarried
      BY <1>4, <3>1 DEF ProcessCarried, FileInv, Carried
    <3>2. CASE ProcessPacket
      BY <3>2 DEF ProcessPacket, FileInv, InStep
    <3> QED
      BY <1>4, <3>1, <3>2 DEF Next, Steps, Waiting, Done, OpenAndRead, OpenFails, Probe,
                              BlockDone, SaveRest, ReadNext, Complete, EndTest, vars
  <2> QED
    BY <1>1, <1>2, <1>3, <2>1 DEF FileAligned, PacketAligned
<1>5. CASE last' = last
  <2>1. expect' \in {expect, start, expect + P}
    <3>1. CASE Probe
      BY <1>1, <3>1 DEF Probe, FileInv
    <3>2. CASE ProcessCarried
      BY <3>2 DEF ProcessCarried, FileInv, Carried
    <3>3. CASE ProcessPacket
      BY <3>3 DEF ProcessPacket, FileInv, InStep
    <3> QED
      BY <3>1, <3>2, <3>3 DEF Next, Steps, Waiting, Done, OpenAndRead, OpenFails,
                              BlockDone, SaveRest, ReadNext, Complete, EndTest, vars
  <2>2. start % P = start
    BY <1>1, ModSmall
  <2>3. expect' % P = start
    BY <1>1, <1>2, <2>1, <2>2
  <2> QED
    BY <1>3, <1>5, <2>3 DEF FileAligned, PacketAligned, NoPacket
<1> QED
  BY <1>4, <1>5

(* Over UDP everything is a whole number of packets, whatever datagrams are
   lost, and pkt_con is never used. *)
UdpInv ==
  /\ TypeOK
  /\ source = "udp" /\ start = 0 /\ conlen = 0
  /\ off % P = 0 /\ pos % P = 0 /\ len % P = 0
  /\ pos + len = off
  /\ phase # "fault" /\ (phase = "save" => len = 0)
  /\ last.whole /\ last.start % P = 0

(* A datagram extends the stream by whole packets. *)
LEMMA UdpRead ==
  ASSUME InputAssumptions, UdpInv, udp_read
  PROVE  /\ off' \in Nat /\ pos' \in Nat /\ len' \in Nat
         /\ off' % P = 0 /\ pos' % P = 0 /\ len' % P = 0
         /\ pos' + len' = off'
<1> USE TsProcessConstants
<1>1. PICK d \in Datagrams, lost \in Datagrams \cup {0} :
        off' = off + lost + d /\ pos' = off + lost /\ len' = d
  BY DEF udp_read
<1>2. /\ d \in Nat /\ lost \in Nat /\ off \in Nat /\ P \in Nat \ {0}
      /\ d % P = 0 /\ off % P = 0
  BY <1>1 DEF InputAssumptions, UdpInv, TypeOK
<1>3. lost % P = 0
  <2>1. 0 % P = 0
    BY <1>2
  <2> QED
    BY <1>1, <2>1 DEF InputAssumptions
<1>m. \A a, b \in Nat : a % P = 0 /\ b % P = 0 => (a + b) % P = 0
  BY <1>2, ModSum, Zenon
<1>4. off + lost \in Nat /\ off + lost + d \in Nat /\ pos' + len' = off'
  BY <1>1, <1>2
<1>5. (off + lost) % P = 0
  BY <1>2, <1>3, <1>m, Zenon
<1>6. (off + lost + d) % P = 0
  BY <1>2, <1>4, <1>5, <1>m, Zenon
<1> QED
  BY <1>1, <1>2, <1>4, <1>5, <1>6, Zenon

(* Every step of ts_process over UDP keeps the stream in whole packets. *)
LEMMA UdpInductive ==
  ASSUME InputAssumptions, UdpInv, [Next]_vars
  PROVE  UdpInv'
<1> USE TsProcessConstants
<1>s. source = "udp" /\ start = 0 /\ conlen = 0 /\ P \in Nat \ {0}
  BY DEF UdpInv
<1>1. CASE OpenAndRead
  <2>1. udp_read /\ UNCHANGED <<source, total, start, con, conlen, expect, last>> /\ phase' = "probe"
    BY <1>1, <1>s DEF OpenAndRead, fileio_read_ok, fileio_read_fails
  <2> QED
    BY <2>1, UdpRead DEF UdpInv, TypeOK, Phases
<1>2. CASE OpenFails
  BY <1>2 DEF OpenFails, UdpInv, TypeOK, Phases
<1>3. CASE Probe
  BY <1>3, <1>s DEF Probe, UdpInv, TypeOK, Phases
<1>4. CASE ProcessCarried
  BY <1>4, <1>s DEF ProcessCarried, UdpInv, TypeOK, Phases
<1>5. CASE ProcessPacket
  <2>1. /\ pos \in Nat /\ len \in Nat /\ off \in Nat /\ len >= P
        /\ pos % P = 0 /\ len % P = 0 /\ pos + len = off
        /\ last' = [start |-> pos, whole |-> pos + P <= off]
        /\ expect' = pos + P /\ pos' = pos + P /\ len' = len - P
        /\ UNCHANGED <<source, phase, total, start, off, con, conlen>>
    BY <1>5 DEF ProcessPacket, UdpInv, TypeOK
  <2>2. pos + P <= off
    BY <1>s, <2>1
  <2>3. last' = [start |-> pos, whole |-> TRUE]
    BY <2>1, <2>2
  <2>4. pos' % P = 0 /\ len' % P = 0
    BY <1>s, <2>1, ModShift, ModTake
  <2> QED
    BY <1>s, <2>1, <2>3, <2>4 DEF UdpInv, TypeOK
<1>6. CASE BlockDone
  <2>1. len \in Nat /\ len < P /\ len % P = 0
    BY <1>6 DEF BlockDone, UdpInv, TypeOK
  <2>2. len = 0
    BY <1>s, <2>1, ModSmall
  <2> QED
    BY <1>6, <2>2 DEF BlockDone, UdpInv, TypeOK, Phases
<1>7. CASE SaveRest
  <2>1. /\ phase = "save" /\ phase' = "read"
        /\ UNCHANGED <<source, total, start, off, pos, len, expect, last>>
    BY <1>7 DEF SaveRest
  <2>2. con' = con /\ conlen' = conlen
    BY <1>7, <2>1 DEF SaveRest, UdpInv
  <2> QED
    BY <2>1, <2>2 DEF UdpInv, TypeOK, Phases
<1>8. CASE ReadNext
  <2>1. udp_read /\ UNCHANGED <<source, total, start, con, conlen, expect, last>> /\ phase' = "complete"
    BY <1>8, <1>s DEF ReadNext, fileio_read_ok, fileio_read_fails
  <2> QED
    BY <2>1, UdpRead DEF UdpInv, TypeOK, Phases
<1>9. CASE Complete
  BY <1>9, <1>s DEF Complete, UdpInv, TypeOK, Phases
<1>10. CASE EndTest
  BY <1>10, <1>s DEF EndTest, UdpInv, TypeOK, Phases
<1>11. CASE UNCHANGED vars
  BY <1>11 DEF vars, UdpInv, TypeOK
<1> QED
  BY <1>1, <1>2, <1>3, <1>4, <1>5, <1>6, <1>7, <1>8, <1>9, <1>10, <1>11
     DEF Next, Steps, Waiting, Done

-----------------------------------------------------------------------------
(* The positions of ptr, pkt_con and the input agree in every state. *)
InputInv == (FileInv /\ FileAligned) \/ UdpInv

THEOREM InputInvariance == ASSUME InputAssumptions PROVE Spec => []InputInv
<1> USE TsProcessConstants
<1>1. Init => InputInv
  <2> SUFFICES ASSUME Init PROVE InputInv
    OBVIOUS
  <2>1. /\ TypeOK /\ last.whole /\ P \in Nat \ {0}
        /\ off = 0 /\ pos = 0 /\ len = 0 /\ conlen = 0 /\ phase = "open" /\ total \in Sizes
        /\ expect = start /\ start \in 0 .. (P - 1) /\ last = NoPacket
        /\ source \in {"file", "udp"} /\ (source = "udp" => start = 0)
    BY DEF Init, TypeOK, Phases, NoPacket
  <2>2. 0 % P = 0 /\ start % P = start
    BY <2>1, ModSmall
  <2>3. CASE source = "file"
    <3>1. FileInv
      BY <2>1, <2>3 DEF FileInv, FaultOnlyInTail, DropsAtMostLastBlock, TypeOK
    <3>2. FileAligned
      BY <2>1, <2>2 DEF FileAligned, PacketAligned
    <3> QED
      BY <3>1, <3>2 DEF InputInv
  <2>4. CASE source = "udp"
    BY <2>1, <2>2, <2>4 DEF InputInv, UdpInv, NoPacket
  <2> QED
    BY <2>1, <2>3, <2>4
<1>2. InputInv /\ [Next]_vars => InputInv'
  BY FileInductive, FileAlignedInductive, UdpInductive DEF InputInv
<1> QED
  BY <1>1, <1>2, PTL DEF Spec

(* Every packet ts_proc gets, from a file or over UDP, is P consecutive bytes
   that were really read, and ts_process's variables stay in their domains. *)
THEOREM PacketsWhole ==
  ASSUME InputAssumptions
  PROVE  Spec => [](TypeOK /\ PacketWhole)
<1>1. InputInv => TypeOK /\ PacketWhole
  BY DEF InputInv, FileInv, UdpInv, PacketWhole
<1> QED
  BY <1>1, InputInvariance, PTL

(* Every packet ts_proc gets starts at a packet boundary of the input: in a
   file also after a packet put together from two blocks, over UDP also
   after lost datagrams. *)
THEOREM PacketsAligned ==
  ASSUME InputAssumptions
  PROVE  Spec => []PacketAligned
<1>1. InputInv => PacketAligned
  BY DEF InputInv, FileAligned, UdpInv, PacketAligned
<1> QED
  BY <1>1, InputInvariance, PTL

(* Each packet of a file starts where the one before it ended, across block
   boundaries too. *)
THEOREM FilePacketsInOrder == ASSUME InputAssumptions PROVE Spec => NoGap
<1>1. InputInv /\ [Next]_vars => [source = "file" /\ last' # last => last'.start = expect]_vars
  <2> SUFFICES ASSUME InputInv, [Next]_vars, source = "file", last' # last
               PROVE  last'.start = expect
    BY DEF vars
  <2>0. FileInv
    BY DEF InputInv, UdpInv
  <2>1. CASE ProcessCarried
    BY <2>0, <2>1, TsProcessConstants DEF ProcessCarried, FileInv, Carried
  <2>2. CASE ProcessPacket
    BY <2>0, <2>2 DEF ProcessPacket, FileInv, InStep
  <2> QED
    BY <2>1, <2>2 DEF Next, Steps, Waiting, Done, OpenAndRead, OpenFails, Probe, BlockDone,
                      SaveRest, ReadNext, Complete, EndTest, vars
<1> QED
  BY <1>1, InputInvariance, PTL DEF Spec, NoGap

(* When a file is closed, less than its last block and one packet has not
   been processed; and only a file that ends on a page boundary inside a
   packet makes ts_process read past its end. *)
THEOREM FileTailBounded ==
  ASSUME InputAssumptions
  PROVE  Spec => [](DropsAtMostLastBlock /\ FaultOnlyInTail)
<1>1. InputInv => DropsAtMostLastBlock /\ FaultOnlyInTail
  <2>1. UdpInv => DropsAtMostLastBlock /\ FaultOnlyInTail
    BY DEF UdpInv, DropsAtMostLastBlock, FaultOnlyInTail
  <2> QED
    BY <2>1 DEF InputInv, FileInv
<1> QED
  BY <1>1, InputInvariance, PTL
=============================================================================
