------------------------------- MODULE SiTable -------------------------------
(***************************************************************************)
(* The bodies of the section parsers: parse_pat ... parse_pmt (table.c),   *)
(* dvb_si.c, atsc_psip.c and parse_splice_info (scte.c).  Every one walks  *)
(* pdata over a head, a loop of entries and sometimes a tail; each part    *)
(* has fixed bytes and may carry the length of something variable that     *)
(* follows.  The loop is steered by section_len, a 16-bit counter that     *)
(* pdata has to stay in step with, or by a count field.                    *)
(*                                                                         *)
(* Layouts are data: the fixed bytes the code moves pdata by (code), the   *)
(* bytes it takes off section_len (sub), the bytes of the section syntax   *)
(* (spec), whether a length is read (var) and its width (bits), whether    *)
(* the variable bytes are skipped (skip) and whether they are descriptors  *)
(* (desc).                                                                 *)
(***************************************************************************)
EXTENDS Integers, Sequences, SequencesExt, FiniteSets

CONSTANTS
  Tables,     \* the tables tried
  MaxEntries, \* entries of a section
  Loops,      \* descriptor loops: [len |-> the length field, ds |-> length bytes]
  Errors,     \* by how much section_length differs from what is there
  MaxRounds,  \* sections parsed one after the other into the same table
  MaxPast,    \* bytes past the end of the section after which a walk is lost
  MaxExtra    \* entries more than the section holds that a walk is followed

ASSUME LoopsAssumption == Loops \subseteq [len : Nat, ds : Seq(0..255)]
ASSUME ErrorsAssumption == Errors \subseteq Int /\ 0 \in Errors
ASSUME BoundsAssumption == {MaxEntries, MaxRounds, MaxPast, MaxExtra} \subseteq Nat

-----------------------------------------------------------------------------
(* Layouts. *)

P(n) == [code |-> n, sub |-> n, spec |-> n, var |-> FALSE, bits |-> 0, skip |-> FALSE, desc |-> FALSE]
X(n) == [code |-> n, sub |-> n, spec |-> n, var |-> TRUE, bits |-> 8, skip |-> TRUE, desc |-> FALSE]
D(n) == [code |-> n, sub |-> n, spec |-> n, var |-> TRUE, bits |-> 12, skip |-> TRUE, desc |-> TRUE]
Bits(w, p) == [p EXCEPT !.bits = w]
Stays(p) == [p EXCEPT !.skip = FALSE]

(* loop: how the entries are counted; forms: the parts an entry may have;
   clears: the old entries are dropped first; frees: with their descriptors *)
Layout(head, loop, forms, tail, clears, frees) ==
  [head |-> head, loop |-> loop, forms |-> forms, tail |-> tail,
   clears |-> clears, frees |-> frees]

parse_pat  == Layout(<<>>, "u16", {<<P(4)>>}, <<>>, FALSE, TRUE)
parse_cat  == Layout(<<>>, "all", {<<D(0)>>}, <<>>, TRUE, TRUE)
parse_tsdt == Layout(<<>>, "all", {<<D(0)>>}, <<>>, TRUE, TRUE)
parse_pmt  == Layout(<<D(4)>>, "s16", {<<D(5)>>}, <<>>, TRUE, TRUE)

parse_nit == Layout(<<D(2), P(2)>>, "s16", {<<Bits(16, D(6))>>}, <<>>, TRUE, FALSE)
parse_bat_unsigned == Layout(<<D(2), P(2)>>, "u16", {<<D(6)>>}, <<>>, TRUE, FALSE)
parse_bat == Layout(<<D(2), P(2)>>, "s16", {<<D(6)>>}, <<>>, TRUE, FALSE)
parse_sdt_stale == Layout(<<P(3)>>, "s16", {<<D(5)>>}, <<>>, FALSE, TRUE)
parse_sdt == Layout(<<P(3)>>, "s16", {<<D(5)>>}, <<>>, TRUE, TRUE)
parse_eit == Layout(<<P(6)>>, "u16", {<<Stays(D(12))>>}, <<>>, FALSE, TRUE)
parse_tdt == Layout(<<P(5)>>, "none", {}, <<>>, TRUE, TRUE)
parse_tot == Layout(<<P(5), D(2)>>, "none", {}, <<>>, TRUE, TRUE)

parse_mgt == Layout(<<P(3)>>, "count", {<<D(11)>>}, <<D(2)>>, TRUE, TRUE)
parse_vct_stuck(cable) == Layout(<<P(2)>>, "count", {<<Bits(10, Stays(D(32)))>>}, <<Bits(10, D(2))>>, TRUE, TRUE)
parse_vct(cable) ==
  Layout(<<P(2)>>, "count", {<<[Bits(10, D(32)) EXCEPT !.code = IF cable THEN 7 * 16 + 18 ELSE 14 + 18]>>},
         <<Bits(10, D(2))>>, TRUE, TRUE)
parse_rrt == Layout(<<X(2), P(1)>>, "count", {<<X(1), P(1)>>}, <<Bits(10, D(2))>>, TRUE, TRUE)
parse_ett == Layout(<<P(5), X(0)>>, "none", {}, <<>>, TRUE, TRUE)
parse_atsc_eit == Layout(<<P(2)>>, "count", {<<X(10), Stays(D(2))>>}, <<>>, TRUE, TRUE)
parse_stt == Layout(<<P(8)>>, "stt", {<<D(0)>>}, <<>>, TRUE, TRUE)
D10(n) == Bits(10, D(n))
parse_dcct ==
  Layout(<<P(2)>>, "count", {<<P(15), D10(2)>>, <<P(15), D10(11), D10(2)>>}, <<D10(2)>>,
         FALSE, FALSE)
parse_dccsct ==   \* updates of no known type, of a genre or a state, of a county
  Layout(<<P(2)>>, "count", {<<P(2), D10(2)>>, <<X(3), D10(2)>>, <<X(5), D10(2)>>}, <<D10(2)>>,
         FALSE, FALSE)

parse_splice_info == Layout(<<Bits(12, X(11))>>, "none", {}, <<Bits(16, D(2))>>, TRUE, TRUE)

LayoutOf(t) ==
  CASE t = "PAT" -> parse_pat   [] t = "CAT" -> parse_cat   [] t = "TSDT" -> parse_tsdt
    [] t = "PMT" -> parse_pmt   [] t = "NIT" -> parse_nit   [] t = "BAT" -> parse_bat
    [] t = "SDT" -> parse_sdt   [] t = "EIT" -> parse_eit   [] t = "TDT" -> parse_tdt
    [] t = "TOT" -> parse_tot   [] t = "MGT" -> parse_mgt
    [] t = "TVCT" -> parse_vct(FALSE)   [] t = "CVCT" -> parse_vct(TRUE)
    [] t = "RRT" -> parse_rrt   [] t = "ETT" -> parse_ett
    [] t = "ATSC EIT" -> parse_atsc_eit [] t = "STT" -> parse_stt
    [] t = "DCCT" -> parse_dcct [] t = "DCCSCT" -> parse_dccsct
    [] t = "SCTE" -> parse_splice_info

(* A table whose entries the code does not find where the syntax puts them
   once an entry has descriptors, or (CVCT) at all. *)
Misread == {"EIT", "ATSC EIT", "CVCT"}

-----------------------------------------------------------------------------
(* Descriptor loops. *)

Nothing == [len |-> 0, ds |-> <<>>]

(* parse_descriptors: the bytes it has consumed once l <= 0; behind the known
   descriptors it reads zeros, descriptors of two bytes. *)
walk(len, l, d) == IF l >= len THEN l ELSE l + d + 2
walked(len, ds) == FoldLeft(LAMBDA x, d : walk(len, x, d), 0, ds)
parse_descriptors(len, ds) ==
  LET l == walked(len, ds \o <<0>>)
  IN IF l >= len THEN l ELSE l + 2 * ((len - l + 1) \div 2)

(* parse_splice_descriptors: l falls by length - 6 while ptr moves by
   length + 6, so after the last descriptor of the loop l is still positive
   and the walk goes on behind it (a lower bound of what it reads). *)
splice_left(len, ds) == FoldLeft(LAMBDA l, d : l - (d - 6), len, ds)
parse_splice_descriptors(len, ds) == IF len = 0 THEN 0 ELSE len + splice_left(len, ds)

-----------------------------------------------------------------------------
(* Sections: the parts in the order of the syntax, each with its loop. *)

VARIABLES
  table,
  sec,          \* the section: its parts, and the bytes its length claims
  pc,           \* idle, parts, loop, done, stuffed, lost, cut, fault, nomem, refused
  todo,         \* the parts left of the head, the entry or the tail
  after,        \* what follows them: loop, or done
  pdata,        \* offset from private_data_byte
  section_len,
  left,         \* entries left in a counted loop
  k,            \* the part of sec that is next, as long as the walk is aligned
  aligned,      \* history: every part was read where the syntax puts it
  reach,        \* history: the byte after the last one a descriptor walk read
  old, fresh,   \* entries of earlier sections, and of this one, in the list
  held, leaked, \* entries hold descriptors; descriptors no list holds any more
  round

walkvars == <<todo, after, pdata, section_len, left, k, aligned, reach>>
listvars == <<old, fresh, held, leaked>>
vars == <<table, sec, pc, walkvars, listvars, round>>

L == LayoutOf(table)

(* What a length field can say: the value, in the bits the code keeps. *)
Kept(bits) == CASE bits = 8 -> 256 [] bits = 10 -> 1024 [] bits = 12 -> 4096 [] OTHER -> 65536
Values(p) ==
  IF p.var THEN {[len |-> v.len % Kept(p.bits), ds |-> v.ds] : v \in Loops} ELSE {Nothing}

Filled(parts) == {[i \in DOMAIN parts |-> [part |-> parts[i], v |-> vs[i]]] :
                    vs \in {f \in [DOMAIN parts -> UNION {Values(parts[i]) : i \in DOMAIN parts}] :
                              \A i \in DOMAIN parts : f[i] \in Values(parts[i])}}

Entries(lay) == UNION {Filled(f) : f \in lay.forms}
EntrySeqs(lay) ==
  IF lay.loop = "none" THEN {<<>>}
  ELSE IF lay.loop \in {"all", "stt"} THEN {<<e>> : e \in Entries(lay)}
  ELSE UNION {[1..n -> Entries(lay)] : n \in 0..MaxEntries}

(* Where the syntax ends the first i parts. *)
SpecEnds(ps) ==
  LET ends[i \in 0..Len(ps)] ==
        IF i = 0 THEN 0 ELSE ends[i - 1] + (ps[i].part.spec + ps[i].v.len)
  IN ends
SpecSize(ps) == SpecEnds(ps)[Len(ps)]

Section(h, es, t, e) ==
  LET ps == h \o FlattenSeq(es) \o t
  IN [parts |-> ps, n |-> Len(es), size |-> SpecSize(ps), claimed |-> SpecSize(ps) + e,
      forms |-> [i \in DOMAIN es |-> [j \in DOMAIN es[i] |-> es[i][j].part]]]

Sections(lay) == {Section(h, es, t, e) :
                    h \in Filled(lay.head), es \in EntrySeqs(lay), t \in Filled(lay.tail),
                    e \in Errors}

(* A section that keeps to its syntax: the lengths say what is there. *)
Listed(ds) == FoldLeft(LAMBDA n, d : n + d + 2, 0, ds)
Exact(v) == v.len = Listed(v.ds)
Conforms(s) == s.claimed = s.size /\ \A i \in DOMAIN s.parts : Exact(s.parts[i].v)
Conforming == Conforms(sec)

(* Where the syntax puts part i. *)
SpecPos(i) == SpecEnds(sec.parts)[i - 1]
InPlace == aligned /\ k <= Len(sec.parts) /\ pdata = SpecPos(k) /\ sec.parts[k].part = Head(todo)

Int16(x) == ((x + 32768) % 65536) - 32768
UInt16(x) == x % 65536
Len16(lay, x) == IF lay.loop = "s16" THEN Int16(x) ELSE UInt16(x)

-----------------------------------------------------------------------------
(* Actions. *)

Init ==
  /\ table \in Tables /\ sec \in Sections(LayoutOf(table))
  /\ pc = "idle" /\ todo = <<>> /\ after = "loop"
  /\ pdata = 0 /\ section_len = 0 /\ left = 0 /\ k = 1 /\ aligned = TRUE /\ reach = 0
  /\ old = 0 /\ fresh = 0 /\ held = FALSE /\ leaked = FALSE
  /\ round = 1

(* The section header was accepted: the old contents go, where the code drops
   them, and section_len is what is left behind the header and the CRC. *)
Begin ==
  /\ pc = "idle" /\ pc' = "parts"
  /\ IF L.clears THEN /\ old' = 0
                      /\ leaked' = (leaked \/ (held /\ ~L.frees))
                      /\ held' = FALSE
                 ELSE /\ old' = IF L.loop = "count" THEN 0 ELSE old + fresh
                      /\ leaked' = (leaked \/ (held /\ ~L.frees))
                      /\ UNCHANGED held
  /\ fresh' = 0
  /\ todo' = L.head /\ after' = "loop"
  /\ pdata' = 0 /\ k' = 1 /\ aligned' = TRUE /\ reach' = 0
  /\ section_len' = Len16(L, sec.claimed)
  /\ left' = IF L.loop = "count" THEN sec.n ELSE 0
  /\ UNCHANGED <<table, sec, round>>

(* parse_section_header, or a table_id or length test, refuses the section. *)
Refuse ==
  /\ pc = "idle" /\ pc' = "refused"
  /\ UNCHANGED <<table, sec, walkvars, listvars, round>>

(* A part: fixed bytes, and what its length field says follows them. *)
DescReach(p, v) ==
  IF table = "SCTE" THEN parse_splice_descriptors(v.len, v.ds)
                    ELSE parse_descriptors(v.len, v.ds)

Deducted_fixed(p, v) == p.sub
Deducted_body(p, v) == v.len
Deducted(p, v) == p.sub + v.len

ReadPart ==
  /\ pc = "parts" /\ todo # <<>>
  /\ LET p == Head(todo)
     IN \E v \in Values(p) :
          /\ InPlace => v = sec.parts[k].v
          /\ pdata' = pdata + p.code + (IF p.skip THEN v.len ELSE 0)
          /\ section_len' = Len16(L, section_len - Deducted(p, v))
          /\ reach' = IF p.desc /\ v.len > 0 THEN pdata + p.code + DescReach(p, v) ELSE reach
          /\ held' = (held \/ (p.desc /\ v.len > 0 /\ after = "loop" /\ k > Len(L.head)))
  /\ aligned' = InPlace
  /\ k' = k + 1 /\ todo' = Tail(todo)
  /\ UNCHANGED <<table, sec, pc, after, left, old, fresh, leaked, round>>

(* The head, an entry or the tail is complete; a finished entry is listed. *)
PartsDone ==
  /\ pc = "parts" /\ todo = <<>> /\ pc' = after
  /\ UNCHANGED <<table, sec, walkvars, listvars, round>>

LoopTest == IF L.loop = "count" THEN left > 0 ELSE section_len > 0

Far == pdata > sec.claimed + MaxPast
Crowded == fresh > sec.n + MaxExtra

(* The next entry: the data decide its form. *)
NextEntry ==
  /\ pc = "loop" /\ L.loop \in {"s16", "u16", "count"} /\ LoopTest /\ ~Far /\ ~Crowded
  /\ \E f \in L.forms :
       /\ aligned /\ sec.n > fresh => f = sec.forms[fresh + 1]
       /\ todo' = f
  /\ pc' = IF table = "RRT" THEN "fault" ELSE "parts"   \* dimensions is never allocated
  /\ fresh' = fresh + 1 /\ left' = IF left > 0 THEN left - 1 ELSE 0
  /\ UNCHANGED <<table, sec, after, pdata, section_len, k, aligned, reach, old, held, leaked, round>>

(* calloc of the entry, or of the array of all, fails. *)
Alloc_fails ==
  /\ pc = "loop" /\ L.loop \in {"s16", "u16", "count"} /\ LoopTest
  /\ pc' = "nomem"
  /\ UNCHANGED <<table, sec, walkvars, listvars, round>>

(* The walk has left the section; the counter keeps it going. *)
Lost ==
  /\ pc = "loop" /\ L.loop \in {"s16", "u16", "count"} /\ LoopTest /\ Far
  /\ pc' = "lost"
  /\ UNCHANGED <<table, sec, walkvars, listvars, round>>

(* The walk reads more entries out of the section than were put into it, and
   is not followed further. *)
Cut ==
  /\ pc = "loop" /\ L.loop \in {"s16", "u16", "count"} /\ LoopTest /\ ~Far /\ Crowded
  /\ pc' = "cut"
  /\ UNCHANGED <<table, sec, walkvars, listvars, round>>

(* A PAT entry with program_number 0xFFFF ends the loop. *)
Stuffing ==
  /\ pc = "loop" /\ table = "PAT" /\ section_len > 0 /\ fresh > 0 /\ pc' = "stuffed"
  /\ UNCHANGED <<table, sec, walkvars, listvars, round>>

(* CAT and TSDT: the rest of the section is one descriptor loop. *)
AllDescriptors ==
  /\ pc = "loop" /\ L.loop = "all"
  /\ pc' = IF section_len > sec.size THEN "lost" ELSE "done"
  /\ LET ds == sec.parts[1].v.ds
     IN reach' = IF section_len > sec.size THEN section_len ELSE parse_descriptors(section_len, ds)
  /\ fresh' = 1 /\ pdata' = section_len
  /\ UNCHANGED <<table, sec, todo, after, section_len, left, k, aligned, old, held, leaked, round>>

(* parse_stt: the loop parses the descriptors but never lowers section_len;
   each pass forgets the list of the one before. *)
SttLoop ==
  /\ pc = "loop" /\ L.loop = "stt" /\ section_len > 0
  /\ fresh' = 1 /\ leaked' = (leaked \/ fresh = 1)
  /\ UNCHANGED <<table, sec, pc, walkvars, old, held, round>>

(* The loop is over: the tail is read, or the parser returns. *)
LoopDone ==
  /\ pc = "loop"
  /\ L.loop \in {"none", "all"} \/ ~LoopTest
  /\ L.loop # "all"
  /\ IF L.tail = <<>> THEN pc' = "done" /\ UNCHANGED <<todo, after>>
     ELSE pc' = "parts" /\ todo' = L.tail /\ after' = "done"
  /\ UNCHANGED <<table, sec, pdata, section_len, left, k, aligned, reach, listvars, round>>

(* Another section of the same table: the next version, with as many entries. *)
NextSection ==
  /\ pc \in {"done", "stuffed", "nomem", "refused"} /\ round < MaxRounds
  /\ pc' = "idle" /\ round' = round + 1
  /\ todo' = <<>> /\ after' = "loop"
  /\ pdata' = 0 /\ section_len' = 0 /\ left' = 0 /\ k' = 1 /\ aligned' = TRUE /\ reach' = 0
  /\ UNCHANGED <<table, sec, listvars>>

Next ==
  \/ Begin \/ Refuse \/ ReadPart \/ PartsDone \/ NextEntry \/ Alloc_fails \/ Lost \/ Cut
  \/ Stuffing \/ AllDescriptors \/ SttLoop \/ LoopDone \/ NextSection

Spec == Init /\ [][Next]_vars

-----------------------------------------------------------------------------
(* Instances for TLC. *)

AllTables == {"PAT", "CAT", "TSDT", "PMT", "NIT", "BAT", "SDT", "EIT", "TDT", "TOT", "MGT",
              "TVCT", "CVCT", "RRT", "ETT", "ATSC EIT", "STT", "DCCT", "DCCSCT", "SCTE"}

SmallErrors == {0, 2, -3}

(* Empty, two descriptors, and a length that no descriptors add up to, near
   the end of the range in any width. *)
SmallLoops == {Nothing, [len |-> 7, ds |-> <<0, 3>>], [len |-> 65530, ds |-> <<255>>]}

-----------------------------------------------------------------------------
(* Properties. *)

(* At each test of a loop that section_len steers, section_len is the distance
   of pdata to the end of the section, in the width of the counter: no length
   is added to one and forgotten for the other (parse_eit does forget it). *)
InStep ==
  pc = "loop" /\ L.loop \in {"s16", "u16"} /\ table \notin Misread =>
    section_len = Len16(L, sec.claimed - pdata)

(* In a section that keeps to its syntax every field is read where it is, the
   walk is never lost, it ends at the CRC and parse_descriptors reads no byte
   behind the section (the walk of SCTE-35 does, whenever there is a
   descriptor); for the tables that lose their place, as long as no entry has
   descriptors. *)
NoDescriptors == \A i \in DOMAIN sec.parts : sec.parts[i].part.desc => sec.parts[i].v.len = 0
Found == Conforming /\ (table \in Misread => NoDescriptors) /\ table # "CVCT"
Aligned ==
  Found => /\ aligned /\ pc \notin {"lost", "cut"}
           /\ pc = "done" => pdata = sec.size
           /\ table # "SCTE" => reach <= sec.size

(* A section whose lengths do not add up: a signed section_len stops the walk
   at the entry that passes the end.  Only an unsigned one (PAT, EIT, CAT,
   TSDT), a count, or a 16-bit length that overflows it (NIT) runs on. *)
StopsPastEnd == pc = "lost" => table \notin {"PMT", "BAT", "SDT"}

(* The next section of a table replaces the last one: the list holds its
   entries and no others, but for the EIT and the PAT, which keep the earlier
   ones; and the descriptors of the last one are freed, but for the entries
   of NIT and BAT, for DCCT and DCCSCT, and for STT. *)
Replaced ==
  /\ pc = "done" /\ old > 0 => table \in {"PAT", "EIT"}
  /\ leaked => table \in {"NIT", "BAT", "DCCT", "DCCSCT", "STT"}

(* Every turn of a loop lowers what steers it, so that the section parsers
   return whatever the lengths say: the count, or section_len by each entry.
   Four do not.  parse_stt lowers nothing.  The unsigned section_len of
   parse_pat goes round when it is no multiple of four, and never is zero, and
   that of parse_eit when the entries do not add up to it.  A length of 16
   bits in parse_nit, when it is 2^15 or more, takes section_len round to a
   value that is no smaller. *)
RunsOn ==
  \/ table = "PAT" /\ sec.claimed % 4 # 0
  \/ table = "EIT" /\ ~Found
Reading == pc = "parts" /\ pc' = "parts" /\ after = "loop" /\ fresh > 0
Turning == pc = "loop" /\ fresh' # fresh
Shrinks ==
  /\ Reading /\ L.loop \in {"s16", "u16"} =>
       section_len' < section_len \/ RunsOn \/ (table = "NIT" /\ pdata' - pdata > 32768)
  /\ Turning /\ L.loop = "count" => left' < left
  /\ pc = "loop" /\ pc' = "loop" => table = "STT"
LoopsShrink == [][Shrinks]_vars
=============================================================================
