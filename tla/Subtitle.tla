------------------------------ MODULE Subtitle ------------------------------
(***************************************************************************)
(* DVB subtitles (subtitle.c): how many bytes parse_sub_segment takes for  *)
(* a segment, against what the segment holds by its syntax (EN 300 743),   *)
(* how far the pixel decoders write, and what free_subtitles releases.     *)
(***************************************************************************)
EXTENDS Integers, Sequences, SequencesExt

Total(s) == FoldLeft(LAMBDA x, y : x + y, 0, s)

-----------------------------------------------------------------------------
(* Pixel code strings: the bits each code takes and the bytes it writes. *)

(* Pixels kept in encode[]: three or more are written in absolute mode, with
   a header and padding to a word, fewer as runs of one. *)
flush(n) == IF n > 2 THEN 2 + n + ((4 - (n % 4)) % 4) ELSE 2 * n

(* 4 bits per pixel.  A pixel is written at once and kept as well; the next
   code that is not a pixel writes the kept ones again. *)
PixelBits == [pixel |-> 4, zeros |-> 8, run4 |-> 12, run9 |-> 16, run25 |-> 20, end |-> 8]
PixelStep(st, c) ==
  IF c = "pixel" THEN [bits |-> st.bits + 4, out |-> st.out + 1, kept |-> st.kept + 1]
  ELSE [bits |-> st.bits + PixelBits[c],
        out  |-> st.out + flush(st.kept) + (IF c = "end" THEN 0 ELSE 2),
        kept |-> 0]
read_4bit_pixel_code_string(codes) ==
  LET st == FoldLeft(PixelStep, [bits |-> 0, out |-> 0, kept |-> 0], codes)
  IN [bytes |-> (st.bits + 7) \div 8, out |-> st.out]

(* 8 bits per pixel: only the flush writes the pixels, a run of zeros takes
   one byte, and a short one ("few") none. *)
ByteSize == [pixel |-> 1, few |-> 2, zeros |-> 2, run |-> 3, end |-> 2]
ByteOut == [few |-> 0, zeros |-> 1, run |-> 2, end |-> 0]
ByteStep(st, c) ==
  IF c = "pixel" THEN [st EXCEPT !.bytes = @ + 1, !.kept = @ + 1]
  ELSE [bytes |-> st.bytes + ByteSize[c], out |-> st.out + flush(st.kept) + ByteOut[c], kept |-> 0]
read_8bit_pixel_code_string(codes) ==
  FoldLeft(ByteStep, [bytes |-> 0, out |-> 0, kept |-> 0], codes)

(* A sub-block: the bytes it takes, and the decoded length behind it, dec
   being the one before.  A 4-bit string is appended to what is decoded, an
   8-bit string is written over it.  A 2-bit string never sets end. *)
read_pixel_data_sub_block(b, dec) ==
  LET S4 == read_4bit_pixel_code_string(b.codes)
      S8 == read_8bit_pixel_code_string(b.codes)
  IN CASE b.data_type = 17 -> [bytes |-> 1 + S4.bytes, dec |-> dec + S4.out]
       [] b.data_type = 18 -> [bytes |-> 1 + S8.bytes, dec |-> S8.out]
       [] b.data_type = 32 -> [bytes |-> 3, dec |-> dec]
       [] b.data_type = 33 -> [bytes |-> 5, dec |-> dec]
       [] b.data_type = 34 -> [bytes |-> 17, dec |-> dec]
       [] b.data_type = 240 -> [bytes |-> 1, dec |-> dec + 2]
       [] OTHER -> [bytes |-> 1, dec |-> dec]

SubBlock(t, codes) == [data_type |-> t, codes |-> codes]

(* The sub-blocks of a field, and the farthest byte written. *)
Field(bs) ==
  FoldLeft(LAMBDA f, b : LET r == read_pixel_data_sub_block(b, f.dec)
                         IN [bytes |-> f.bytes + r.bytes, dec |-> r.dec,
                             top |-> IF r.dec > f.top THEN r.dec ELSE f.top],
           [bytes |-> 0, dec |-> 0, top |-> 0], bs)
Endless(bs) == \E i \in DOMAIN bs : bs[i].data_type = 16

-----------------------------------------------------------------------------
(* Segments: the type, a number and the entries of the loop, whose meaning
   depends on the type, and the fields of an object. *)
Seg(type, n, entries) == [type |-> type, n |-> n, entries |-> entries, blocks |-> <<>>]
Object(top, bottom) == [Seg("ods", 0, <<>>) EXCEPT !.blocks = <<top, bottom>>]
ObjectBytes(s) == Total([i \in DOMAIN s.blocks |-> Field(s.blocks[i]).bytes])
Padding(n) == IF n % 2 = 0 THEN 1 ELSE 0

(* By the code.  The flags byte of a disparity region is read but not passed,
   and character codes are copied but not counted. *)
display_definition(s) == IF s.n = 1 THEN 13 ELSE 5
object_data_unpadded(s) == 7 + ObjectBytes(s)
object_data(s) == 7 + ObjectBytes(s) + Padding(ObjectBytes(s))
update_sequence(n) == IF n = 0 THEN 0 ELSE 5 + 2 * (n - 1)
region_object(type) == IF type \in {1, 2} THEN 8 ELSE 6
clut(full_range) == IF full_range = 1 THEN 6 ELSE 4
disparity_region(s, subs) ==
  1 + subs * ((IF subs > 1 THEN 4 ELSE 0) + 2 + update_sequence(s.n))
alternative_clut(depth) == IF depth = 1 THEN 4 ELSE 5

FixedBytes(s) ==
  CASE s.type = "dds" -> display_definition(s)
    [] s.type = "ods" -> object_data(s)
    [] s.type = "chars" -> 4
    [] s.type = "progressive" -> 9 + s.n
    [] s.type = "rcs" -> 10
    [] s.type = "dss" -> 2 + update_sequence(s.n)
    [] s.type = "acs" -> 4
    [] s.type = "eds" -> 0
    [] OTHER -> 2
EntryBytes(s, e) ==
  CASE s.type = "pcs" -> 6
    [] s.type = "rcs" -> region_object(e)
    [] s.type = "cds" -> clut(e)
    [] s.type = "dss" -> disparity_region(s, e)
    [] s.type = "acs" -> alternative_clut(s.n)

(* By the syntax of the standard, field by field. *)
SyntaxFixed(s) ==
  CASE s.type = "dds" -> 1 + 2 + 2 + 8 * s.n
    [] s.type = "ods" -> 3 + 4 + ObjectBytes(s) + ((7 + ObjectBytes(s)) % 2)
    [] s.type = "chars" -> 3 + 1 + 2 * s.n
    [] s.type = "progressive" -> 3 + 6 + s.n
    [] s.type = "rcs" -> 2 + 4 + 1 + 3
    [] s.type = "dss" -> 2 + (IF s.n = 0 THEN 0 ELSE 1 + 3 + 1 + 2 * (s.n - 1))
    [] s.type = "acs" -> 2 + 2
    [] s.type = "eds" -> 0
    [] OTHER -> 1 + 1
SyntaxEntry(s, e) ==
  CASE s.type = "pcs" -> 1 + 1 + 2 + 2
    [] s.type = "rcs" -> 2 + 2 + 2 + (IF e \in {1, 2} THEN 2 ELSE 0)
    [] s.type = "cds" -> 1 + 1 + (IF e = 1 THEN 4 ELSE 2)
    [] s.type = "dss" -> 1 + 1 + e * ((IF e > 1 THEN 4 ELSE 0) + 2 +
                           (IF s.n = 0 THEN 0 ELSE 1 + 3 + 1 + 2 * (s.n - 1)))
    [] s.type = "acs" -> IF s.n = 1 THEN 4 ELSE 5
SyntaxLength(s) ==
  SyntaxFixed(s) + Total([i \in DOMAIN s.entries |-> SyntaxEntry(s, s.entries[i])])

(* The loops take entries while slen is below the stated length; behind the
   entries that are there they find one more of the last kind, and again. *)
Looped == {"pcs", "rcs", "cds", "dss", "acs"}
Limit(s, length) == IF s.type = "acs" THEN length + 4 ELSE length
ExtraEntry(s) == EntryBytes(s, IF s.entries # <<>> THEN Last(s.entries) ELSE 1)
Entries(s, limit) ==
  LET n == FoldLeft(LAMBDA x, e : IF x < limit THEN x + EntryBytes(s, e) ELSE x,
                    FixedBytes(s), s.entries)
  IN IF n >= limit THEN n
     ELSE n + ExtraEntry(s) * ((limit - n + ExtraEntry(s) - 1) \div ExtraEntry(s))

parse_sub_segment(s, length) ==
  IF s.type \in Looped THEN Entries(s, Limit(s, length))
  ELSE IF s.type = "other" THEN length ELSE FixedBytes(s)

(* The assertion inside an object: at most one byte behind the fields. *)
ObjectAssert(s, length) == s.type = "ods" => length - 7 - ObjectBytes(s) <= 1

-----------------------------------------------------------------------------
(* Regions of a page are allocated by division and written to the end; four
   bytes are allocated for each byte of a field. *)
RegionsAllocated(length) == IF length < 8 THEN 0 ELSE (length - 2) \div 6
RegionsWritten(length) == IF length <= 2 THEN 0 ELSE (length + 3) \div 6
Overruns(s, length) ==
  \/ s.type = "pcs" /\ RegionsWritten(length) > RegionsAllocated(length)
  \/ \E i \in DOMAIN s.blocks : Field(s.blocks[i]).top > 4 * Field(s.blocks[i]).bytes

(* Three pixels in a row in a 4-bit string. *)
LongRun(b) == /\ b.data_type = 17
              /\ \E i \in 1..(Len(b.codes) - 2) : \A j \in i..(i + 2) : b.codes[j] = "pixel"
HasLongRun(s) == \E i \in DOMAIN s.blocks : \E j \in DOMAIN s.blocks[i] : LongRun(s.blocks[i][j])

(* Segments as they are sent: a loop has entries where the type has a loop,
   and the strings of a sub-block are made of its codes. *)
SubBlocks ==
  {b \in [data_type : Nat, codes : Seq(DOMAIN PixelBits \cup DOMAIN ByteSize)] :
     /\ b.data_type = 17 => b.codes \in Seq(DOMAIN PixelBits)
     /\ b.data_type = 18 => b.codes \in Seq(DOMAIN ByteSize)}
SegmentTypes == Looped \cup {"dds", "ods", "chars", "progressive", "eds", "other"}
SegmentsSent ==
  {s \in [type : SegmentTypes, n : Nat, entries : Seq(Nat), blocks : Seq(Seq(SubBlocks))] :
     /\ s.type = "dds" => s.n \in 0..1
     /\ s.type \notin Looped => s.entries = <<>>}

(* What a segment allocates besides its own node, and what free_subtitles
   gives back: not the periods of disparities, nor the map tables. *)
Allocated(s) ==
  CASE s.type = "pcs" -> {"region"}
    [] s.type = "rcs" -> {"object"}
    [] s.type \in {"cds", "acs"} -> {"cluts"}
    [] s.type = "chars" -> {"character_code"}
    [] s.type = "progressive" -> {"bitmap"}
    [] s.type = "ods" -> {"data_top", "data_bottom"} \cup
         (IF \E i \in DOMAIN s.blocks : \E j \in DOMAIN s.blocks[i] :
               s.blocks[i][j].data_type \in {32, 33, 34} THEN {"map"} ELSE {})
    [] s.type = "dss" -> {"regions", "subregions"} \cup (IF s.n > 0 THEN {"preiod"} ELSE {})
    [] OTHER -> {}
free_subtitles_flat(s) == Allocated(s) \cap {"region", "object", "cluts", "regions"}
free_subtitles(s) ==
  Allocated(s) \cap {"region", "object", "cluts", "character_code", "bitmap",
                     "data_top", "data_bottom", "regions", "subregions"}

(* Kinds of segment the parser takes for what they are by the syntax. *)
Supported(s) == /\ s.type # "acs"
                /\ s.type = "chars" => s.n = 0
                /\ s.type = "dss" => s.entries = <<>>
                /\ \A i \in DOMAIN s.blocks : ~Endless(s.blocks[i])
=============================================================================
