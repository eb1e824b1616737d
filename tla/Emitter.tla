------------------------------- MODULE Emitter -------------------------------
(***************************************************************************)
(* result.c: the report is a list of rout calls, and the emitter turns it  *)
(* into one tree.  A stack of open containers decides, for each call, what *)
(* is closed, whether a keyed field must be wrapped in an object of its    *)
(* own, and whether a container turns out to be an array or an object.     *)
(* JSON and HTML are checked by a reader of JSON tokens, YAML by a reader  *)
(* of indented lines; text output is checked for the size of its line.     *)
(***************************************************************************)
EXTENDS Dump, FiniteSets, Functions, TLC

CONSTANTS
  OutTypes,   \* the output types tried: "json", "html", "yaml", "txt"
  MaxDumps,   \* tables dumped in one report
  Sizes,      \* <<loop count, descriptors>> of a table
  LongKeys,   \* keys too long for "key #N" to fit in kbuf
  TextLens,   \* lengths of keys and of values in a text line
  HexLens,    \* lengths of hex dumps
  TitleLens   \* lengths of the first line of a hex dump: a name and the length

SmallSizes == {<<0, 0>>, <<0, 1>>, <<1, 0>>, <<1, 1>>, <<2, 2>>}

MAX_DEPTH == 32
LINE_LEN == 512
RAW_LEN == LINE_LEN * 4

ASSUME SizesAssumption == Sizes \subseteq Nat \X Nat
(* The dump functions write at levels below 14, of which the stack has room
   for two containers each; for the sizes of a run TLC looks at every call. *)
MaxLevel == 13
CallSet == [k : {"open", "leaf", "elem"}, lv : 0..MaxLevel, key : STRING]
ASSUME CallsAssumption ==
  \A i \in 1..Len(dump_result), z \in Sizes : Calls(dump_result[i], z[1], z[2]) \in Seq(CallSet)
(* An element is written only into a container that began with one: opened
   at its level or below, not left since, and with nothing keyed in between
   at its level or below. *)
Elements(q) ==
  \A j \in 1..Len(q) :
    q[j].k = "elem" =>
      \E i \in 1..(j - 1) :
        /\ q[i].k = "open" /\ q[i].lv <= q[j].lv /\ q[i + 1].k = "elem"
        /\ \A m \in (i + 1)..(j - 1) :
             IF q[m].k = "elem" THEN q[m].lv >= q[i].lv ELSE q[m].lv > q[j].lv
ASSUME ElementsAssumption ==
  \A i \in 1..Len(dump_result), z \in Sizes : Elements(Calls(dump_result[i], z[1], z[2]))
ASSUME LensAssumption == TextLens \subseteq Nat /\ HexLens \subseteq Nat
(* The titles are names of the source, of at most 64 characters. *)
MaxTitle == 64 + 17
ASSUME TitlesAssumption == TitleLens \subseteq 0..MaxTitle

VARIABLES
  outtype,
  pc,        \* open, dump, closed
  jstack,    \* the open containers; jdepth is its length
  calls,     \* the rout calls the current dump function has left to make
  at,        \* the part of dump_result reached
  dumped,    \* tables dumped so far
  jread,     \* the state of the JSON reader
  yread,     \* the state of the YAML reader
  ret, asked,\* text: the terminator's index in buf, the characters asked for
  raw        \* hex dump: the terminator's index in raw or, for text, in line

stackvars == <<outtype, pc, jstack>>
readers == <<jread, yread>>
text == <<ret, asked, raw>>
vars == <<stackvars, calls, at, dumped, readers, text>>

-----------------------------------------------------------------------------
(* The container stack. *)

Undecided == -1

jcnt(lv, child_lv, close) ==
  [lv |-> lv, child_lv |-> child_lv, close |-> close, has_child |-> FALSE, ek |-> <<>>]

res_init_root(close) == <<jcnt(-1, 0, close)>>

Top(s) == s[Len(s)]
SetTop(s, f) == [s EXCEPT ![Len(s)] = f]

(* The containers at or above this level are left; the root stays. *)
min_close_late(c) == c.lv + 1
min_close(c) == IF c.k = "elem" THEN c.lv + 1 ELSE c.lv
Stays(s, c, i) == i = 1 \/ s[i].lv < min_close(c)
Kept(s, c) == CHOOSE i \in DOMAIN s : Stays(s, c, i) /\ \A j \in (i+1)..Len(s) : ~Stays(s, c, j)
Ascend(s, c) == SubSeq(s, 1, Kept(s, c))

(* A keyed member inside an array gets an object of its own (1b). *)
Wraps_never(s, c) == FALSE
Wraps(s, c) == c.k # "elem" /\ Top(s).close = "]"
Wrap(s, c) == IF Wraps(s, c) THEN Append(s, jcnt(c.lv, c.lv, "}")) ELSE s

(* The first child decides what an undecided container is (2). *)
IsUndecided(s) == Len(s) > 1 /\ Top(s).child_lv = Undecided
ClosingOf(c) == IF c.k = "elem" THEN "]" ELSE "}"
Resolve(s, c) ==
  IF IsUndecided(s)
  THEN SetTop(s, [Top(s) EXCEPT !.child_lv = c.lv, !.close = ClosingOf(c), !.has_child = FALSE])
  ELSE s

Push(s, c) ==
  IF c.k = "open" /\ Len(s) < MAX_DEPTH THEN Append(s, jcnt(c.lv, Undecided, "")) ELSE s

(* j_prelude marks the array before it wraps, and the parent of the child. *)
Mark(s) == SetTop(s, [Top(s) EXCEPT !.has_child = TRUE])

-----------------------------------------------------------------------------
(* JSON: the tokens of one call, and a reader of JSON tokens. *)

Closed(f) == IF f.child_lv = Undecided THEN <<"[", "]">> ELSE <<f.close>>
Closing(s, n) == FlattenSeq([j \in 1..(Len(s) - n) |-> Closed(s[Len(s) + 1 - j])])

Comma(s) == IF Top(s).has_child THEN <<",">> ELSE <<>>

j_prelude(s, c) ==
  LET s1 == Ascend(s, c)
      s2 == IF Wraps(s1, c) THEN Wrap(Mark(s1), c) ELSE s1
      s3 == Resolve(s2, c)
  IN [stack  |-> Mark(s3),
      tokens |-> Closing(s, Len(s1)) \o
                 (IF Wraps(s1, c) THEN Comma(s1) \o <<"{">> ELSE <<>>) \o
                 (IF IsUndecided(s2) THEN <<IF c.k = "elem" THEN "[" ELSE "{">> ELSE <<>>) \o
                 Comma(s3)]

Body(c) == CASE c.k = "open" -> <<"key">>
             [] c.k = "leaf" -> <<"key", "string">>
             [] c.k = "elem" -> <<"string">>

(* The reader is a stack of what each open value expects next. *)
AfterValue ==
  [s \in {"document", "member", "array_first", "element"} |->
     CASE s = "document" -> "end" [] s = "member" -> "object_more" [] OTHER -> "array_more"]

Read(r, t) ==
  LET s == Last(r)
      To(x) == Append(Front(r), x)
  IN CASE t = "string" /\ s \in DOMAIN AfterValue -> To(AfterValue[s])
       [] t = "{" /\ s \in DOMAIN AfterValue -> Append(To(AfterValue[s]), "object_first")
       [] t = "[" /\ s \in DOMAIN AfterValue -> Append(To(AfterValue[s]), "array_first")
       [] t = "key" /\ s \in {"object_first", "key"} -> To("member")
       [] t = "," /\ s = "object_more" -> To("key")
       [] t = "," /\ s = "array_more" -> To("element")
       [] t = "}" /\ s \in {"object_first", "object_more"} -> Front(r)
       [] t = "]" /\ s \in {"array_first", "array_more"} -> Front(r)
       [] OTHER -> <<"error">>

ReadAll(r, tokens) == FoldLeft(Read, r, tokens)

-----------------------------------------------------------------------------
(* YAML: the line of one call, and a reader of lines. *)

(* The n-th use of a key in one mapping is written "key #n", cut to kbuf. *)
y_dedup_key_off(f, key) == [name |-> <<key, 1>>, ek |-> f.ek]
y_dedup_key(f, key) ==
  LET n == IF key \in DOMAIN f.ek THEN f.ek[key] + 1 ELSE 1
  IN [name |-> <<key, IF n > 1 /\ key \in LongKeys THEN 0 ELSE n>>,
      ek   |-> [x \in DOMAIN f.ek \cup {key} |-> IF x = key THEN n ELSE f.ek[x]]]

y_wrap_fails(s, c) == Wraps(s, c) /\ Len(s) >= MAX_DEPTH - 1

Block(col, kind) == [col |-> col, kind |-> kind, keys |-> {}]

(* The blocks up to the last one that does not begin right of a column *)
Reached(blocks, col) ==
  CHOOSE n \in 0..Len(blocks) :
    (n = 0 \/ blocks[n].col <= col) /\ \A j \in (n + 1)..Len(blocks) : blocks[j].col > col

(* A line's column decides the block it belongs to: a deeper column starts a
   block below a key without a value, and any other must continue one. *)
YRead(r, l) ==
  LET up    == SubSeq(r.blocks, 1, Reached(r.blocks, l.col))
      deep  == up = <<>> \/ Last(up).col < l.col
      blks  == IF deep THEN Append(up, Block(l.col, l.kind)) ELSE up
      item  == IF l.kind = "seq" /\ l.keyed THEN Append(blks, Block(l.col + 2, "map")) ELSE blks
      b     == Last(item)
  IN [ok     |-> /\ r.ok
                 /\ deep => r.pending
                 /\ Last(blks).kind = l.kind
                 /\ l.keyed => l.name \notin b.keys,
      pending |-> l.opens,
      blocks  |-> IF l.keyed THEN SetTop(item, [b EXCEPT !.keys = @ \cup {l.name}]) ELSE item]

-----------------------------------------------------------------------------
(* Text: one line in buf, its pieces kept only while they fit whole. *)

Piece(st, n) ==
  IF st.stop \/ n >= st.size - st.out THEN [st EXCEPT !.stop = TRUE]
                                      ELSE [st EXCEPT !.out = @ + n]
Byte(st, n) == IF st.stop \/ st.out + n > st.size THEN [st EXCEPT !.stop = TRUE]
                                                  ELSE [st EXCEPT !.out = @ + n]
Buffer(size) == [size |-> size, out |-> 0, stop |-> FALSE]

(* Piece for an sprintf, Byte for a store behind its own test. *)
Put_unchecked(st, p) == [st EXCEPT !.out = @ + p.n]
Put(st, p) == IF p.whole THEN Piece(st, p.n) ELSE Byte(st, p.n)

TextPieces(lv, k, v) ==
  [j \in 1..lv |-> [whole |-> TRUE, n |-> 2]] \o
  (IF lv = 0 THEN <<[whole |-> FALSE, n |-> 1]>> ELSE <<>>) \o
  (IF k >= 0 THEN <<[whole |-> TRUE, n |-> k]>> ELSE <<>>) \o
  (IF k >= 0 /\ v >= 0 THEN <<[whole |-> FALSE, n |-> 2]>> ELSE <<>>) \o
  (IF v >= 0 THEN <<[whole |-> TRUE, n |-> v]>> ELSE <<>>) \o
  <<[whole |-> FALSE, n |-> 1]>>

Total(pieces) == FoldLeft(LAMBDA n, p : n + p.n, 0, pieces)
res_put_text(lv, k, v) == FoldLeft(Put, Buffer(LINE_LEN), TextPieces(lv, k, v)).out

(* Hex dumps of the tree formats: rows of 16 bytes, each with its offset, the
   bytes in hex and in characters; only the characters are stored untested. *)
Row(st, m, first) ==
  LET st1 == IF ~first /\ ~st.stop /\ st.out < st.size THEN [st EXCEPT !.out = @ + 1] ELSE st
      st2 == FoldLeft(Piece, st1, <<9>> \o [j \in 1..16 |-> 3] \o <<4>>)
  IN IF st2.stop THEN st2 ELSE [st2 EXCEPT !.out = @ + m]

res_hexdump(len) ==
  LET rows == (len + 15) \div 16
      m(j) == IF 16 * j <= len THEN 16 ELSE len % 16
  IN FoldLeft(LAMBDA st, j : IF st.stop THEN st ELSE Row(st, m(j), j = 1),
              Buffer(RAW_LEN), [j \in 1..rows |-> j]).out

-----------------------------------------------------------------------------
(* Hex dumps of the text format: the title line and the rows, each piece kept
   while it fits; that the offset of a row fits is not tested.  The title is
   in line with the first row, which makes it the longest one. *)
Unchecked(st, n) == IF st.stop THEN st ELSE [st EXCEPT !.out = @ + n]
Indent(st, lv) == FoldLeft(Piece, st, [j \in 1..lv |-> 2])
hexdump_line(lv, t, len) ==
  LET title == Piece(Indent(Buffer(LINE_LEN), lv), t)
      m     == IF len < 16 THEN len ELSE 16
  IN IF title.stop \/ len = 0 THEN title.out
     ELSE FoldLeft(Piece, Unchecked(Indent(title, lv), 9),
                   [j \in 1..17 |-> 3] \o [j \in 1..(m + 1) |-> 1]).out

-----------------------------------------------------------------------------
(* The actions. *)

Trees == {"json", "html", "yaml"}

Init ==
  /\ outtype \in OutTypes /\ pc = "open"
  /\ jstack = <<>> /\ calls = <<>> /\ at = 1 /\ dumped = 0
  /\ jread = <<"document">>
  /\ yread = [ok |-> TRUE, pending |-> TRUE, blocks |-> <<>>]
  /\ ret = 0 /\ asked = 0 /\ raw = 0

(* The file is created and, for a tree, the root is opened. *)
res_open ==
  /\ pc = "open" /\ pc' = "dump"
  /\ jstack' = IF outtype \notin Trees THEN <<>>
               ELSE res_init_root(IF outtype = "html" THEN "]" ELSE "}")
  /\ jread' = CASE outtype = "json" -> ReadAll(jread, <<"{">>)
                [] outtype = "html" -> ReadAll(jread, <<"[">>)
                [] OTHER -> jread
  /\ UNCHANGED <<outtype, calls, at, dumped, yread, text>>

(* fopen fails: res_open reports nothing, and the first rout has no file. *)
res_open_fails ==
  /\ pc = "open" /\ pc' = "no_file"
  /\ UNCHANGED <<outtype, jstack, calls, at, dumped, readers, text>>

(* dump_result reaches the next table there is; some come more than once. *)
NextTable ==
  /\ pc = "dump" /\ calls = <<>> /\ dumped < MaxDumps
  /\ \E i \in at..Len(dump_result), z \in Sizes :
       /\ calls' = Calls(dump_result[i], z[1], z[2])
       /\ at' = IF dump_result[i] \in Repeated THEN i ELSE i + 1
  /\ dumped' = dumped + 1
  /\ UNCHANGED <<stackvars, readers, text>>

Emitting == pc = "dump" /\ calls # <<>>
Consume == calls' = Tail(calls) /\ UNCHANGED <<outtype, pc, at, dumped>>

(* The value of a leaf is formatted, or a hex dump. *)
Value(c) ==
  /\ raw' \in IF c.key = "unknown" THEN {res_hexdump(len) : len \in HexLens} ELSE {0}
  /\ UNCHANGED <<ret, asked>>

j_emit ==
  /\ Emitting /\ outtype \in {"json", "html"}
  /\ LET c == Head(calls)
         p == j_prelude(jstack, c)
     IN /\ jread' = ReadAll(jread, p.tokens \o Body(c))
        /\ jstack' = Push(p.stack, c)
        /\ Value(c)
  /\ Consume /\ UNCHANGED yread

y_emit ==
  /\ Emitting /\ outtype = "yaml"
  /\ LET c  == Head(calls)
         s1 == Ascend(jstack, c)
         s2 == Resolve(Wrap(s1, c), c)
         dd == y_dedup_key(Top(s2), c.key)
         s3 == IF c.k = "elem" THEN s2 ELSE SetTop(s2, [Top(s2) EXCEPT !.ek = dd.ek])
     IN /\ Value(c)
        /\ IF y_wrap_fails(s1, c) THEN jstack' = s1 /\ UNCHANGED yread
           ELSE /\ jstack' = Push(s3, c)
                /\ yread' = YRead(yread,
                     [col   |-> 2 * (Len(s1) - 1),
                      kind  |-> IF c.k = "elem" \/ Wraps(s1, c) THEN "seq" ELSE "map",
                      keyed |-> c.k # "elem", name |-> dd.name, opens |-> c.k = "open"])
  /\ Consume /\ UNCHANGED jread

Line(c) ==
  /\ \E k \in (IF c.k = "elem" THEN {-1} ELSE TextLens),
        v \in (IF c.k = "open" THEN {-1} ELSE TextLens) :
       /\ ret' = res_put_text(c.lv, k, v)
       /\ asked' = Total(TextPieces(c.lv, k, v))
  /\ UNCHANGED raw
HexLine(c) ==
  /\ \E t \in TitleLens, len \in HexLens : raw' = hexdump_line(c.lv, t, len)
  /\ UNCHANGED <<ret, asked>>
res_put ==
  /\ Emitting /\ outtype = "txt"
  /\ LET c == Head(calls) IN IF c.key = "unknown" THEN HexLine(c) ELSE Line(c)
  /\ Consume /\ UNCHANGED <<jstack, readers>>

(* res_close and hier_close: what is open is closed, then the root. *)
res_close ==
  /\ pc = "dump" /\ calls = <<>> /\ pc' = "closed"
  /\ jstack' = <<>>
  /\ jread' = IF outtype \in {"json", "html"}
              THEN ReadAll(jread, Closing(jstack, 1) \o <<jstack[1].close>>) ELSE jread
  /\ UNCHANGED <<outtype, calls, at, dumped, yread, text>>

Next == res_open \/ res_open_fails \/ NextTable \/ j_emit \/ y_emit \/ res_put \/ res_close

Spec == Init /\ [][Next]_vars

-----------------------------------------------------------------------------
(* Properties. *)

(* Whatever tables the report holds, what j_emit has written so far is the
   beginning of a JSON text, and the text is whole when res_close returns:
   commas, wrapped objects and late brackets always agree. *)
JsonWellFormed ==
  /\ Last(jread) # "error"
  /\ pc = "closed" /\ outtype \in {"json", "html"} => jread = <<"end">>

(* What y_emit writes is a YAML document: a line opens a block only below a
   key with no value, a block is all items or all keys, and no key comes
   twice in a mapping ("every key stays unique"). *)
YamlWellFormed == yread.ok

(* No level holds more than two open containers (an object that wraps a keyed
   member and the container opened in it), so the depth is bounded by the
   levels the dump functions use and never reaches MAX_DEPTH. *)
DepthBounded ==
  /\ \A i \in DOMAIN jstack : i <= 2 * jstack[i].lv + 3
  /\ Len(jstack) < MAX_DEPTH - 1

(* A text line that fits in buf is written whole; a longer one is cut so that
   the terminator is at most one past the end.  A hex dump of any length
   leaves room for its terminator in raw and, in the text format, in line,
   where the offset of a row is added untested (result.c:474): the titles are
   too short for it to matter. *)
BuffersFit ==
  /\ ret <= LINE_LEN /\ (asked < LINE_LEN => ret = asked)
  /\ raw < IF outtype = "txt" THEN LINE_LEN ELSE RAW_LEN
=============================================================================
