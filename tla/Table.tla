------------------------------- MODULE Table -------------------------------
(***************************************************************************)
(* Versions and sections of one PSI/SI table: parse_section_header, the    *)
(* section bitmap of utils.c, concat_sections and the version check of     *)
(* parse_pat and parse_cat (src/src/table.c).                              *)
(*                                                                         *)
(* The PAT and the CAT keep a list with a structure per version; every     *)
(* other table has one structure, the same for every sub-table             *)
(* (table_id_extension) it is sent as.  The broadcaster, external, sends   *)
(* the sections of the current version of each sub-table in any order and  *)
(* any number of times, and moves on to the next version when every        *)
(* section was received.  A section's payload is abstracted to the         *)
(* sub-table, the issue and the section number it carries, and its length. *)
(* malloc is taken to succeed.                                             *)
(***************************************************************************)
EXTENDS Naturals, Sequences

CONSTANTS
  Kind,     \* "pat", "cat": a list of versions; "single": one structure
  Exts,     \* sub-tables on air
  VMod,     \* versions (32); VMod - 1 = 0x1F also means "no version"
  First,    \* version of the first issue of every sub-table
  MaxIssue, \* bound on the issues of a sub-table
  Lasts,    \* values of last_section_number
  Lens,     \* section lengths
  W,        \* bits in a word of the bitmap (64)
  Words,    \* words in the bitmap (4)
  Inputs,   \* what else arrives: subset of {"overlong", "short"}
  MaxTabs   \* bound on the structures of the list

ASSUME TableConstants ==
  /\ Kind \in {"pat", "cat", "single"}
  /\ VMod \in Nat \ {0} /\ First \in 0 .. (VMod - 1)
  /\ MaxIssue \in Nat /\ MaxTabs \in Nat
  /\ W \in Nat \ {0} /\ Words \in Nat \ {0}
  /\ Lasts \subseteq 0 .. (W * Words - 1)
  /\ Lens \subseteq Nat \ {0}

VARIABLES
  tabs,   \* the table structures, the current one last
  issue,  \* issue[x]: how often sub-table x has changed
  last,   \* last[x]: its last_section_number
  got,    \* ghost: got[x]: sections of this issue that were received
  done,   \* ghost: <<x, i, l>> for each issue i of x that was received
          \* completely, l its last_section_number
  fault   \* "no", or what brought the process down

vars == <<tabs, issue, last, got, done, fault>>

Sections == 0 .. (W * Words - 1)

NoVersion == VMod - 1

Version(i) == (First + i) % VMod

NoNode == [len |-> 0, part |-> <<>>, ptr |-> "null"]

\* calloc; psi_table_init clears the single structures the same way
NewTable(v) ==
  [version |-> v, ext |-> 0, last |-> 0, length |-> 0, bitmap |-> {},
   nodes |-> [n \in Sections |-> NoNode], data |-> <<>>, decoded |-> <<>>]

Init ==
  /\ tabs = IF Kind = "single" THEN <<NewTable(0)>> ELSE <<>>
  /\ issue = [x \in Exts |-> 0]
  /\ last \in [Exts -> Lasts]
  /\ got = [x \in Exts |-> {}]
  /\ done = {}
  /\ fault = "no"

-----------------------------------------------------------------------------
(* utils.c and the helpers of table.c *)

\* The possible answers of bitmap64_full.  The last word is indexed with
\* last % 64 instead of last / 64: it may lie past the bitmap, where the
\* answer is anything, and an empty mask is always full.
bitmap64_full(bm, n) ==
  LET words == \A b \in 0 .. (W * (n \div W) - 1) : b \in bm
      bits  == (n + 1) % W
  IN  IF ~words THEN {FALSE}
      ELSE IF bits = 0 THEN {TRUE}
      ELSE IF n % W >= Words THEN {TRUE, FALSE}
      ELSE {\A k \in 0 .. (bits - 1) : W * (n % W) + k \in bm}

\* Mutant: the last section is left out
Copied_short(nodes, total, num) ==
  [len |-> IF num > 1 THEN nodes[0].len ELSE 0, parts |-> <<>>, over |-> FALSE]

\* concat_sections copies until it has total bytes or more: the bytes and
\* parts copied from the first i nodes, and whether it wrote past the end
Copied(nodes, total, num) ==
  LET copy[i \in 0 .. num] ==
        IF i = 0 THEN [len |-> 0, parts |-> <<>>, over |-> FALSE]
        ELSE LET c == copy[i - 1]
                 nd == nodes[i - 1]
             IN  IF c.len >= total THEN c
                 ELSE [len |-> c.len + nd.len,
                       parts |-> IF nd.len = 0 THEN c.parts ELSE Append(c.parts, nd.part),
                       over |-> c.over \/ c.len + nd.len > total]
  IN  copy[num]

\* Pointers are freed and lengths cleared; the pointers stay.
clear_sections(nodes, num) ==
  [n \in Sections |->
     IF n < num
       THEN [nodes[n] EXCEPT !.len = 0, !.part = <<>>,
                             !.ptr = IF nodes[n].len # 0 THEN "freed" ELSE @]
       ELSE nodes[n]]

\* Mutant: 0x1F is a version like any other
check_version_nowrap(v, cur) == IF v = cur THEN 0 ELSE IF v > cur THEN 1 ELSE 2

\* check_section_header_version: 0 same version, 1 new, 2 older
check_version(v, cur) ==
  IF v = cur THEN 0 ELSE IF v > cur \/ cur = NoVersion THEN 1 ELSE 2

\* The header of a section with syntax is stored before anything is checked.
HeaderStored(t, x, len) ==
  [t EXCEPT !.version = Version(issue[x]), !.ext = x, !.last = last[x], !.length = len]

\* parse_section_header on structure t: what it and the table's parser make
\* of section n of sub-table x, and whether the process survives
Parsed(t, x, n, len) ==
  LET h  == HeaderStored(t, x, len)
      bm == h.bitmap \cup {n}
      nd == [h.nodes EXCEPT ![n] = [len |-> len, part |-> <<x, issue[x], n>>, ptr |-> "live"]]
      c  == Copied(nd, len, last[x] + 1)
  IN  IF n \in h.bitmap THEN {[t |-> h, fault |-> "no"]}
      ELSE {IF ~full THEN [t |-> [h EXCEPT !.bitmap = bm, !.nodes = nd], fault |-> "no"]
            ELSE IF c.over THEN [t |-> h, fault |-> "heap"]
            ELSE IF c.len # len THEN [t |-> h, fault |-> "null"]
            ELSE [t |-> [h EXCEPT !.bitmap = bm,
                                  !.nodes = clear_sections(nd, last[x] + 1),
                                  !.data = c.parts, !.decoded = c.parts],
                  fault |-> "no"]
            : full \in bitmap64_full(bm, last[x])}

-----------------------------------------------------------------------------
\* Mutant: a new version goes into the old structure
Target_reuse(v) == IF tabs = <<>> THEN <<NewTable(NoVersion)>> ELSE tabs

\* A structure for this version: the current one, a new one, or none.  A
\* first section whose version is 0x1F is taken for one of the same version
\* of a table that does not exist.
Target(v) ==
  LET cur == IF tabs = <<>> THEN NoVersion ELSE tabs[Len(tabs)].version
      how == check_version(v, cur)
  IN  IF Kind = "single" THEN tabs
      ELSE IF how = 1 THEN Append(tabs, NewTable(NoVersion))
      ELSE IF how = 0 THEN tabs
      ELSE <<>>

\* cat_proc counts psi.cat->list whether or not a CAT was parsed.
NoTable == IF Kind = "cat" /\ tabs = <<>> THEN "null" ELSE "no"

\* A section of the current issue of sub-table x arrives.
Receive(x, n, len) ==
  /\ fault = "no"
  /\ n <= last[x]
  /\ got' = [got EXCEPT ![x] = @ \cup {n}]
  /\ done' = done \cup {d \in {<<x, issue[x], last[x]>>} : got'[x] = 0 .. d[3]}
  /\ LET ts == Target(Version(issue[x]))
         k  == Len(ts)
     IN  \/ ts = <<>> /\ fault' = NoTable /\ UNCHANGED tabs
         \/ /\ ts # <<>>
            /\ \E r \in Parsed(ts[k], x, n, len) :
                 tabs' = [ts EXCEPT ![k] = r.t] /\ fault' = r.fault
  /\ UNCHANGED <<issue, last>>

\* A section with section_length above 1021 is refused, after parse_pat or
\* parse_cat made a structure for its version.
ReceiveOverlong(v) ==
  /\ "overlong" \in Inputs
  /\ fault = "no"
  /\ Len(tabs) < MaxTabs
  /\ tabs' = IF Target(v) = <<>> THEN tabs ELSE Target(v)
  /\ fault' = IF Target(v) = <<>> THEN NoTable ELSE "no"
  /\ UNCHANGED <<issue, last, got, done>>

\* A section without the long header replaces section 0 and the data; its
\* buffer was freed already if section 0 was concatenated before.
ReceiveShort(len) ==
  /\ "short" \in Inputs
  /\ fault = "no"
  /\ \/ tabs = <<>> /\ fault' = NoTable /\ UNCHANGED tabs
     \/ /\ tabs # <<>>
        /\ LET k == Len(tabs)
               part == <<"short">>
           IN  IF tabs[k].nodes[0].ptr = "freed"
                 THEN fault' = "free" /\ UNCHANGED tabs
                 ELSE /\ fault' = "no"
                      /\ tabs' = [tabs EXCEPT ![k].length = len,
                                    ![k].nodes[0] = [len |-> len, part |-> part, ptr |-> "live"],
                                    ![k].data = <<part>>, ![k].decoded = <<part>>]
  /\ UNCHANGED <<issue, last, got, done>>

\* The broadcaster changes sub-table x.
NewIssue(x, l) ==
  /\ got[x] = 0 .. last[x]
  /\ issue[x] < MaxIssue
  /\ issue' = [issue EXCEPT ![x] = @ + 1]
  /\ last' = [last EXCEPT ![x] = l]
  /\ got' = [got EXCEPT ![x] = {}]
  /\ UNCHANGED <<tabs, done, fault>>

Next ==
  \/ \E x \in Exts, n \in Sections, len \in Lens : Receive(x, n, len)
  \/ \E v \in 0 .. (VMod - 1) : ReceiveOverlong(v)
  \/ \E len \in Lens : ReceiveShort(len)
  \/ \E x \in Exts, l \in Lasts : NewIssue(x, l)

Spec == Init /\ [][Next]_vars

-----------------------------------------------------------------------------
(* Properties *)

Parts(x, i, l) == [n \in 1 .. (l + 1) |-> <<x, i, n - 1>>]

Decoded(d) == \E k \in 1 .. Len(tabs) : tabs[k].decoded = Parts(d[1], d[2], d[3])

ShortData == <<<<"short">>>>

Replaced(d) ==
  \E k \in 1 .. Len(tabs) :
    tabs[k].version = Version(d[2]) /\ tabs[k].decoded = ShortData

\* A table of one section is decoded when it is received and kept when its
\* next versions come, through the wrap of the version number and with
\* refused sections in between; only a section without the long header takes
\* its place (README: "a stream carries many versions of the same table ...
\* page through the different versions").
OneSectionKept ==
  fault = "no" => \A d \in done : d[3] = 0 => Decoded(d) \/ Replaced(d)

\* A structure's header describes the data decoded from it: same sub-table,
\* same version (only "old data" is ignored, says parse_section_header).
Coherent ==
  \A k \in 1 .. Len(tabs) :
    \A j \in 1 .. Len(tabs[k].decoded) :
      LET part == tabs[k].decoded[j] IN
        part # <<"short">> =>
          tabs[k].ext = part[1] /\ tabs[k].version = Version(part[2])

\* Concatenating sections never overruns the buffer, and never comes out
\* short, which would leave a null pointer to be followed: only a section
\* without the long header can bring the process down.  This is about tables
\* of no more sections than the bitmap has words: bitmap64_full looks past it
\* for longer ones, and may call a table full that is not.
ConcatSafe == fault \notin {"heap", "null"}

\* A table that was received completely has been decoded, whole (the comment
\* in parse_section_header: "concat them if there are multiple sections").
Complete == fault = "no" => \A d \in done : d[2] = issue[d[1]] => Decoded(d)

\* Every version received so far is still there to be shown (README: "a
\* stream carries many versions of the same table").
KeepsVersions == fault = "no" => \A d \in done : Decoded(d)
=============================================================================
