----------------------------- MODULE Descriptor -----------------------------
(***************************************************************************)
(* The parser, and the free function, that include/descriptor.h generates  *)
(* for every descriptor: parse_<name>_descriptor walks the members of the  *)
(* layout, keeping the offset in bytes (bytes_off) and in bits (bits_off), *)
(* and free_<name>_descriptor releases what the members allocated.  A      *)
(* behaviour is the life of one descriptor of any tag, with any length     *)
(* byte of Sizes and any value of the fields that steer the parser.        *)
(*                                                                         *)
(* The offsets are uint32_t: the test length + 2 - bytes_off > 0 is true   *)
(* for every offset but the end itself, so a loop that passes the end does *)
(* not stop (it reads on for gigabytes): pc = "runaway".  A negative value *)
(* of bytes_off stands for the offset it wraps to.                         *)
(***************************************************************************)
EXTENDS DescriptorLayouts

CONSTANTS
  Sizes,      \* values of the descriptor's length byte, buf[1]
  Tags        \* the tags tried

ASSUME SizesAssumption == Sizes \subseteq 0..255
ASSUME TagsAssumption == Tags \subseteq DOMAIN TagNames \cup {Reserved}

VARIABLES
  tag, length,  \* dr->descriptor
  pc,           \* parse, parsed, runaway, freed, badfree, aborted
  at,           \* the member that is parsed next
  bytes_off, bits_off,
  vals,         \* the fields later members look at; 0 while unread (calloc)
  num,          \* entries of an mploop, name##_num
  lvs,          \* mlv members whose pointer is set
  nomem,        \* an allocation failed
  ent,          \* history: bytes_off when the current loop was entered
  fits          \* history: no unchecked member reached past the end

des_vars == <<tag, length, pc, at, bytes_off, bits_off, vals, num, lvs, nomem, ent, fits>>

(***************************************************************************)
(* init_descriptor_parsers: every tag has the reserved functions, then the *)
(* named ones replace them; the parse of a reserved descriptor is a copy.  *)
(***************************************************************************)
des_ops(t) == IF t \in DOMAIN TagNames THEN Layouts[TagNames[t]] ELSE <<>>

(***************************************************************************)
(* What the layouts have in common.  The bits in front of member j fill    *)
(* whole bytes unless member j continues a run of bit fields, in every     *)
(* layout but that of isdb 0xC4, where a 24-bit field is declared with one *)
(* bit.                                                                    *)
(***************************************************************************)
Uneven == {196}
Kinds == {"m", "m1", "if", "lv", "last", "loop", "subif", "sublast", "subloop"}
WellMade(L) ==
  /\ DOMAIN L = 1..Len(L)
  /\ \A j \in DOMAIN L : LET e == L[j] IN
       /\ e.k \in Kinds /\ {e.w, e.n} \cup e.V \cup e.R \subseteq Nat
       /\ e.k = "m" => e.n \in 1..64
       /\ e.k = "m1" => e.w <= 4
       /\ e.k = "last" => e.w > 0
       /\ e.k = "lv" => e.n > 0
       /\ e.k = "subloop" => j = Len(L)
       /\ e.k = "subif" /\ e.c \in {"compat", "module"} => \A i \in DOMAIN L : L[i].k # "last"

FieldBits(L, j) ==
  {b \in (1..Len(L)) \X (1..64) : b[1] < j /\ L[b[1]].k = "m" /\ b[2] <= L[b[1]].n}
BitsBefore(L, j) == Cardinality(FieldBits(L, j))
BitsFill(L) ==
  \A j \in 1..(Len(L) + 1) :
    LET off == BitsBefore(L, j) % 8 IN
    IF j <= Len(L) /\ L[j].k = "m" THEN off + L[j].n <= 8 * L[j].w ELSE off = 0

ASSUME LayoutsAssumption ==
  \A t \in Tags : WellMade(des_ops(t)) /\ (t \notin Uneven => BitsFill(des_ops(t)))

Layout == des_ops(tag)
Cur == Layout[at]
End == length + 2                     \* the len the parser is called with
Value(f) == IF f \in DOMAIN vals THEN vals[f] ELSE 0

DesInit ==
  /\ tag \in Tags /\ length \in Sizes
  /\ pc = "parse" /\ at = 1
  /\ bytes_off = 2 /\ bits_off = 0
  /\ vals = <<>> /\ num = 0 /\ lvs = 0 /\ nomem = FALSE
  /\ ent = 2 /\ fits = TRUE

At(k) == pc = "parse" /\ at <= Len(Layout) /\ Cur.k = k

(* The next member; a field that steers later members takes a value. *)
Pass(read) ==
  /\ at' = at + 1
  /\ IF read /\ Cur.f # ""
     THEN \E v \in Cur.V :
            vals' = [f \in DOMAIN vals \cup {Cur.f} |-> IF f = Cur.f THEN v ELSE vals[f]]
     ELSE UNCHANGED vals

(* Bytes taken with no look at the end of the descriptor. *)
Advance(n) ==
  /\ bytes_off' = bytes_off + n
  /\ fits' = (fits /\ bytes_off + n <= End)

Rest == UNCHANGED <<tag, length>>

(***************************************************************************)
(* The member macros.                                                      *)
(***************************************************************************)

m_off_kept(n) ==
  /\ bits_off' = bits_off + n
  /\ Advance((bits_off + n) \div 8)
m_off(n) ==
  /\ bits_off' = (bits_off + n) % 8
  /\ Advance((bits_off + n) \div 8)

Parse_m ==
  /\ At("m")
  /\ m_off(Cur.n) /\ Pass(TRUE)
  /\ Rest /\ UNCHANGED <<pc, num, lvs, nomem>> /\ ent' = bytes_off'

m1_reads_always == TRUE
m1_reads == bytes_off \in 0..(End - 1)

Parse_m1 ==
  /\ At("m1")
  /\ bytes_off' = bytes_off + (IF m1_reads THEN Cur.w ELSE 0)
  /\ Pass(m1_reads)
  /\ Rest /\ UNCHANGED <<pc, bits_off, num, lvs, nomem, fits>> /\ ent' = bytes_off'

Parse_mif ==
  /\ At("if")
  /\ LET present == Value(Cur.c) \in Cur.S IN
       Advance(IF present THEN Cur.w ELSE 0) /\ Pass(present)
  /\ Rest /\ UNCHANGED <<pc, bits_off, num, lvs, nomem>> /\ ent' = bytes_off'

Parse_mlv ==
  /\ At("lv")
  /\ Advance(Cur.w * (Value(Cur.c) \div Cur.n)) /\ Pass(TRUE) /\ lvs' = lvs + 1
  /\ Rest /\ UNCHANGED <<pc, bits_off, num, nomem>> /\ ent' = bytes_off'

(* __mif_custom and __mrangelv_custom. *)
Parse_mif_custom ==
  /\ At("subif")
  /\ IF Value(Cur.c) \in Cur.S THEN \E r \in Cur.R : Advance(r)
                               ELSE UNCHANGED <<bytes_off, fits>>
  /\ Pass(TRUE)
  /\ Rest /\ UNCHANGED <<pc, bits_off, num, lvs, nomem>> /\ ent' = bytes_off'

(* dr->descriptor.length + 2 - bytes_off > 0 and len - bytes_off, unsigned;
   len > bytes_off in __mploop_custom. *)
more_short(k) == IF k = "subloop" THEN bytes_off \in 0..(End - 1) ELSE bytes_off # length
more(k) == IF k = "subloop" THEN bytes_off \in 0..(End - 1) ELSE bytes_off # End

Loops == {"last", "sublast", "loop", "subloop"}
AtLoop == pc = "parse" /\ at <= Len(Layout) /\ Cur.k \in Loops

ElementSizes == IF Cur.k = "last" THEN {Cur.w} ELSE Cur.R

Parse_element ==
  /\ AtLoop /\ more(Cur.k)
  /\ bytes_off \in 0..End
  /\ \E r \in ElementSizes : bytes_off' = bytes_off + r
  /\ num' = IF Cur.k = "loop" THEN num + 1 ELSE num
  /\ Rest /\ UNCHANGED <<pc, at, bits_off, vals, lvs, nomem, ent, fits>>

Parse_loop_end ==
  /\ AtLoop /\ ~more(Cur.k)
  /\ Pass(FALSE) /\ ent' = bytes_off
  /\ Rest /\ UNCHANGED <<pc, bytes_off, bits_off, num, lvs, nomem, fits>>

(* Past the end the unsigned test stays true. *)
Parse_runs_away ==
  /\ AtLoop /\ more(Cur.k) /\ bytes_off \notin 0..End
  /\ pc' = "runaway"
  /\ Rest /\ UNCHANGED <<at, bytes_off, bits_off, vals, num, lvs, nomem, ent, fits>>

(***************************************************************************)
(* An allocation fails: the macros return ENOMEM and leave the members     *)
(* after them as calloc left them.  A parser of a nested structure returns *)
(* ENOMEM too, and its caller adds that 12 (or -12) to the offset.         *)
(***************************************************************************)
ENOMEM == 12

Alloc_fails ==
  /\ ~nomem /\ nomem' = TRUE
  /\ \/ At("lv") /\ pc' = "parsed"
     \/ AtLoop /\ more(Cur.k) /\ bytes_off \in 0..End /\ pc' = "parsed"
  /\ Rest /\ UNCHANGED <<at, bytes_off, bits_off, vals, num, lvs, ent, fits>>

Nested_alloc_fails ==
  /\ ~nomem /\ nomem' = TRUE
  /\ \/ /\ At("subif") /\ Value(Cur.c) \in Cur.S
        /\ bytes_off' = bytes_off + (IF Cur.c \in {"compat", "module"} THEN -ENOMEM ELSE ENOMEM)
        /\ Pass(TRUE) /\ ent' = bytes_off'
     \/ /\ AtLoop /\ more(Cur.k) /\ bytes_off \in 0..End /\ Cur.k \in {"sublast", "subloop"}
        /\ bytes_off' = bytes_off + ENOMEM
        /\ UNCHANGED <<at, vals, ent>>
  /\ Rest /\ UNCHANGED <<pc, bits_off, num, lvs, fits>>

(* assert(bits_off == 0); return 0.  A reserved descriptor ends here at
   once: it is copied whole. *)
Parse_returns ==
  /\ pc = "parse" /\ at > Len(Layout)
  /\ pc' = IF bits_off = 0 THEN "parsed" ELSE "aborted"
  /\ Rest /\ UNCHANGED <<at, bytes_off, bits_off, vals, num, lvs, nomem, ent, fits>>

(***************************************************************************)
(* free_<name>_descriptor.  An mlv asserts its pointer.  The entries of an *)
(* mploop keep their block at the end of the length member, and the free   *)
(* loop starts at the last entry and moves by the size of the members.     *)
(***************************************************************************)
LvMembers == Cardinality({j \in DOMAIN Layout : Layout[j].k = "lv"})
LoopMembers == {j \in DOMAIN Layout : Layout[j].k = "loop"}

Slots(j) == {e * Layout[j].n + Layout[j].w + 1 : e \in 0..(num - 1)}

FreedSlots_past(j) == {num * Layout[j].n + k * (Layout[j].w + 1) : k \in 1..num}
FreedSlots(j) == {(num - 1) * Layout[j].n + k * (Layout[j].w + 1) : k \in 1..num}

Free ==
  /\ pc = "parsed"
  /\ pc' = CASE lvs < LvMembers -> "aborted"
             [] lvs = LvMembers /\ \E j \in LoopMembers : FreedSlots(j) # Slots(j) -> "badfree"
             [] OTHER -> "freed"
  /\ Rest /\ UNCHANGED <<at, bytes_off, bits_off, vals, num, lvs, nomem, ent, fits>>

DesNext ==
  \/ Parse_m \/ Parse_m1 \/ Parse_mif \/ Parse_mlv \/ Parse_mif_custom
  \/ Parse_element \/ Parse_loop_end \/ Parse_runs_away
  \/ Alloc_fails \/ Nested_alloc_fails
  \/ Parse_returns \/ Free

DesSpec == DesInit /\ [][DesNext]_des_vars

-----------------------------------------------------------------------------
(* A bit field never straddles the word it is read from, and every member
   that is read in bytes starts at a byte boundary (TS_READ_BITS shifts by
   8 * w - off - bits, and __m1 ignores bits_off), in every layout but one. *)
BitFieldsSound ==
  pc = "parse" /\ at <= Len(Layout) /\ tag \notin Uneven =>
    IF Cur.k = "m" THEN bits_off + Cur.n <= 8 * Cur.w ELSE bits_off = 0

(* A loop of fixed-size elements ends exactly at the descriptor's end, and
   runs away only if it was entered past the end or its elements do not
   tile the bytes left. *)
TrailingLoop ==
  /\ pc = "runaway" /\ Cur.k = "last" => ent > End \/ (End - ent) % Cur.w # 0
  /\ pc = "parse" /\ at > 1 /\ at <= Len(Layout) + 1
       /\ Layout[at - 1].k \in {"last", "sublast", "loop"} => bytes_off = End

(* While the unchecked members stay inside the descriptor, the checked ones
   (__m1, which tests where it starts and not where it ends) overshoot it by
   less than the width of one of them, however many follow. *)
GuardedOvershoot ==
  fits /\ ~nomem /\ pc = "parse" /\ at <= Len(Layout) /\ Cur.k \notin Loops =>
    bytes_off <= End + 3

(* Without an allocation failure no assertion stops the free functions, and
   every block of an mploop is released unless it has two or more entries:
   the free loop starts at the last entry and then leaves the array. *)
FreeSound ==
  /\ pc = "aborted" => nomem \/ tag \in Uneven
  /\ pc = "badfree" => num >= 2
=============================================================================
