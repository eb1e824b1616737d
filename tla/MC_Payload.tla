----------------------------- MODULE MC_Payload -----------------------------
(***************************************************************************)
(* Two elementary PIDs; every set of optional header fields; one segment   *)
(* of each kind, at its length and beside it, and pairs of segments; a     *)
(* teletext unit with every byte within two flips of a code word.          *)
(***************************************************************************)
EXTENDS Payload

MCStreams == {<<256, 6, "sub">>, <<256, 6, "text">>, <<257, 6, "none">>, <<257, 2, "text">>}

MCHeaders ==
  {[SimpleHeader EXCEPT !.flags = f, !.pack = 3, !.field = 2, !.stuffing = s] :
     f \in {{"pts"}, {"pts", "dts"}, {"escr", "rate", "trick", "copy", "crc"}} \cup
           {{"ext"} \cup x : x \in SUBSET {"priv", "pack", "ppsc", "pstd", "ext2"}},
     s \in {32}} \cup {[SimpleHeader EXCEPT !.flags = {}]}
  \cup {[SimpleHeader EXCEPT !.stream = x] : x \in {"other", "padding"}}
  \cup {[SimpleHeader EXCEPT !.short = n] : n \in {8, 9, 16}}

Run(n) == [i \in 1..n |-> "pixel"] \o <<"zeros">>
Lines4 == SubBlock(17, <<"pixel", "zeros", "run4", "pixel", "pixel", "run9", "run25", "end">>)
LongLines4 == SubBlock(17, Run(5) \o Run(5) \o [i \in 1..5 |-> "pixel"] \o <<"end">>)
Lines8 == SubBlock(18, <<"pixel", "few", "pixel", "pixel", "pixel", "zeros", "run", "end">>)
EndLine == SubBlock(240, <<>>)
MapTables == <<SubBlock(32, <<>>), SubBlock(33, <<>>), SubBlock(34, <<>>)>>

Segments ==
  {Seg("dds", w, <<>>) : w \in 0..1} \cup
  {Seg("pcs", 0, e) : e \in {<<>>, <<0>>, <<0, 0>>}} \cup
  {Seg("rcs", 0, e) : e \in {<<>>, <<0>>, <<1, 0>>, <<3, 2>>}} \cup
  {Seg("cds", 0, e) : e \in {<<>>, <<1>>, <<0, 1>>}} \cup
  {Object(t, b) : t \in {<<Lines4, EndLine>>, <<LongLines4>>}, b \in {<<>>, <<Lines8, Lines8, EndLine>>}} \cup
  {Object(MapTables, <<Lines4>>), Object(<<SubBlock(16, <<>>)>>, <<>>)} \cup
  {Seg("chars", n, <<>>) : n \in {0, 2}} \cup
  {Seg("progressive", n, <<>>) : n \in {0, 5}} \cup
  {Seg("dss", n, e) : n \in {0, 2}, e \in {<<1>>, <<2>>}} \cup {Seg("dss", 0, <<>>)} \cup
  {Seg("acs", 1, <<0>>), Seg("eds", 0, <<>>), Seg("other", 0, <<>>)}

Sub(segs, marker) == [kind |-> "sub", segs |-> segs, marker |-> marker]
At(s, d) == [seg |-> s, length |-> SyntaxLength(s) + d]
Unit(u, t, e, ok) == [units |-> u, tens |-> t, erase |-> e, valid |-> ok]
Units == {Unit(9, 9, TRUE, TRUE), Unit(15, 15, TRUE, TRUE), Unit(15, 15, FALSE, TRUE)}
Text(units, rest) == [kind |-> "text", units |-> units, rest |-> rest]

MCContents ==
  {Sub(<<At(s, 0)>>, TRUE) : s \in Segments} \cup
  {Sub(<<At(s, 1)>>, TRUE) : s \in {x \in Segments : x.entries = <<>> \/ Len(x.entries) = 2}} \cup
  {Sub(<<At(Object(MapTables, <<Lines4>>), 0), At(Seg("eds", 0, <<>>), 0)>>, m) : m \in BOOLEAN} \cup
  {Sub(<<At(Seg("pcs", 0, <<0>>), 0), At(Seg("rcs", 0, <<1>>), 0)>>, FALSE)} \cup
  {Text(<<u>>, 0) : u \in Units} \cup
  {Text(<<Unit(9, 9, TRUE, FALSE)>>, 0), Text(<<>>, 7)}

Sent == {w \in CodeWords : HAMMING8_DATA(w) \in {0, 9}}
MCMagBytes == {<<c, w>> \in Byte \X Sent : Cardinality(Errors(c, w)) <= 2}
MCPktBytes == {<<w, w>> : w \in {x \in CodeWords : HAMMING8_DATA(x) \in {0, 12}}}
=============================================================================
