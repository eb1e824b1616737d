---------------------------- MODULE TableProofs -----------------------------
(***************************************************************************)
(* Proofs about the versions and sections of a table, for any number of    *)
(* versions and issues, sections repeated and in any order: the header of  *)
(* a structure describes its data; tables of one section are decoded and   *)
(* kept; concatenation stays in its buffer.  And about the descriptors of  *)
(* tables: their generated parsers, for every length and all field values. *)
(***************************************************************************)
EXTENDS Table, Descriptor, WellFoundedInduction, FiniteSetTheorems, TLAPS

(* Induction over the numbers up to n, with the set T of those for which the
   claim holds *)
LEMMA IntervalInduction ==
  ASSUME NEW n \in Nat, NEW T, 0 \in T, \A i \in 1..n : i - 1 \in T => i \in T
  PROVE  \A i \in 0..n : i \in T
<1> DEFINE Bad == {i \in 0..n : i \notin T}
<1> SUFFICES ASSUME Bad # {} PROVE FALSE
  OBVIOUS
<1>1. Bad \subseteq Nat
  OBVIOUS
<1> HIDE DEF Bad
<1>2. PICK top \in Bad : \A j \in Bad : ~(<<j, top>> \in OpToRel(<, Nat))
  BY <1>1, WFMin, NatLessThanWellFounded, Zenon
<1>3. top \in 0..n /\ top \notin T
  BY DEF Bad
<1>4. top \in 1..n /\ top - 1 \in 0..n /\ top - 1 \in Nat /\ top - 1 < top /\ top \in Nat
  <2>1. top # 0
    BY <1>3
  <2> QED
    BY <1>3, <2>1
<1>5. <<top - 1, top>> \in OpToRel(<, Nat)
  BY <1>4 DEF OpToRel
<1>6. top - 1 \in T
  BY <1>2, <1>4, <1>5 DEF Bad
<1> QED
  BY <1>3, <1>4, <1>6

(* A function defined by recursion over 0..n exists. *)
Recursion(S, n, base, G) ==
  \E g \in [0..n -> S] : g[0] = base /\ \A i \in 1..n : g[i] = G[<<g[i - 1], i>>]

LEMMA RecursionExists ==
  ASSUME NEW S, NEW n \in Nat, NEW base \in S, NEW G \in [S \X (1..n) -> S]
  PROVE  Recursion(S, n, base, G)
<1> DEFINE Good(top, g) == g[0] = base /\ \A i \in 1..top : g[i] = G[<<g[i - 1], i>>]
           T == {top \in 0..n : \E g \in [0..top -> S] : Good(top, g)}
<1>1. 0 \in T
  <2> DEFINE g == [i \in 0..0 |-> base]
  <2>1. g \in [0..0 -> S]
    OBVIOUS
  <2>2. g[0] = base
    BY 0 \in 0..0
  <2>3. Good(0, g)
    BY <2>2
  <2> HIDE DEF g
  <2> QED
    BY <2>1, <2>3
<1>2. ASSUME NEW top \in 1..n, top - 1 \in T PROVE top \in T
  <2>1. PICK g \in [0..(top - 1) -> S] : Good(top - 1, g)
    BY <1>2
  <2>2. G[<<g[top - 1], top>>] \in S
    <3>1. top - 1 \in 0..(top - 1)
      OBVIOUS
    <3>2. g[top - 1] \in S
      BY <3>1
    <3> QED
      BY <3>2
  <2> DEFINE h == [i \in 0..top |-> IF i = top THEN G[<<g[top - 1], top>>] ELSE g[i]]
  <2>3. h \in [0..top -> S]
    <3> SUFFICES ASSUME NEW i \in 0..top, i # top PROVE g[i] \in S
      BY <2>2
    <3>1. i \in 0..(top - 1)
      OBVIOUS
    <3> QED
      BY <3>1
  <2>4. h[0] = base
    BY <2>1
  <2>5. ASSUME NEW i \in 1..top PROVE h[i] = G[<<h[i - 1], i>>]
    <3>0. i - 1 \in 0..top /\ i - 1 # top
      OBVIOUS
    <3>1. h[i - 1] = g[i - 1]
      BY <3>0
    <3>2. CASE i = top
      <4>1. h[top] = G[<<g[top - 1], top>>]
        BY top \in 0..top
      <4> HIDE DEF h
      <4> QED
        BY <3>1, <3>2, <4>1
    <3>3. CASE i # top
      <4>1. i \in 1..(top - 1) /\ h[i] = g[i]
        BY <3>3
      <4> QED
        BY <2>1, <3>1, <4>1
    <3> QED
      BY <3>2, <3>3
  <2>6. Good(top, h)
    BY <2>4, <2>5
  <2> HIDE DEF h, Good
  <2> QED
    BY <2>3, <2>6
<1>3. n \in T
  <2> HIDE DEF T
  <2>1. \A i \in 0..n : i \in T
    BY <1>1, <1>2, IntervalInduction
  <2> QED
    BY <2>1
<1> QED
  BY <1>3 DEF Recursion

-----------------------------------------------------------------------------
(* Versions *)

(* The remainder of the next number *)
LEMMA ModNext ==
  ASSUME NEW v \in Nat \ {0}, NEW top \in Nat
  PROVE  (top + 1) % v = IF top % v = v - 1 THEN 0 ELSE (top % v) + 1
<1> DEFINE q == top \div v
           r == top % v
<1>1. top = v * q + r /\ q \in Nat /\ r \in 0..(v - 1)
  OBVIOUS
<1>2. \A n, k, x \in Nat : n = v * k + x /\ x < v => n % v = x
  OBVIOUS
<1> HIDE DEF q, r
<1>3. CASE r = v - 1
  <2>1. top + 1 = v * (q + 1) + 0 /\ q + 1 \in Nat /\ top + 1 \in Nat /\ 0 < v
    BY <1>1, <1>3
  <2>2. (top + 1) % v = 0
    BY <1>2, <2>1
  <2> QED
    BY <1>3, <2>2 DEF r
<1>4. CASE r # v - 1
  <2>1. top + 1 = v * q + (r + 1) /\ r + 1 \in Nat /\ r + 1 < v /\ top + 1 \in Nat
    BY <1>1, <1>4
  <2>2. (top + 1) % v = r + 1
    BY <1>1, <1>2, <2>1
  <2> QED
    BY <1>4, <2>2 DEF r
<1> QED
  BY <1>3, <1>4

(* The version of the next issue is new to check_version. *)
LEMMA NextVersion ==
  ASSUME NEW i \in Nat, VMod > 1
  PROVE  /\ Version(i) \in 0..(VMod - 1)
         /\ Version(i + 1) # Version(i)
         /\ check_version(Version(i + 1), Version(i)) = 1
<1>1. VMod \in Nat /\ VMod > 0 /\ First \in Nat
  BY TableConstants
<1>2. \A top, v \in Nat : v > 0 => top % v \in 0..(v - 1)
  OBVIOUS
<1>3. VMod \in Nat \ {0}
  BY <1>1
<1> DEFINE top == First + i
<1>4. top \in Nat /\ Version(i) = top % VMod /\ Version(i + 1) = (top + 1) % VMod
  BY <1>1 DEF Version
<1> HIDE DEF top
<1>5. Version(i) \in 0..(VMod - 1)
  BY <1>1, <1>2, <1>4
<1>6. Version(i + 1) = IF Version(i) = VMod - 1 THEN 0 ELSE Version(i) + 1
  BY <1>3, <1>4, ModNext
<1> QED
  BY <1>1, <1>5, <1>6 DEF check_version, NoVersion

-----------------------------------------------------------------------------
(* Concatenation *)

Copy(G) == [len : Nat, parts : Seq(G), over : BOOLEAN]

(* One step of the loop of concat_sections *)
Step(c, nd, total) ==
  IF c.len >= total THEN c
  ELSE [len |-> c.len + nd.len,
        parts |-> IF nd.len = 0 THEN c.parts ELSE Append(c.parts, nd.part),
        over |-> c.over \/ c.len + nd.len > total]

LEMMA StepType ==
  ASSUME NEW G, NEW c \in Copy(G), NEW nd, NEW total \in Nat,
         nd.len \in Nat, nd.len # 0 => nd.part \in G
  PROVE  Step(c, nd, total) \in Copy(G)
<1>1. c.len \in Nat /\ c.parts \in Seq(G) /\ c.over \in BOOLEAN
  BY DEF Copy
<1>2. nd.len # 0 => Append(c.parts, nd.part) \in Seq(G)
  BY <1>1
<1>3. (c.over \/ c.len + nd.len > total) \in BOOLEAN
  OBVIOUS
<1>4. (IF nd.len = 0 THEN c.parts ELSE Append(c.parts, nd.part)) \in Seq(G)
  BY <1>1, <1>2
<1>5. c.len + nd.len \in Nat
  BY <1>1
<1> QED
  BY <1>3, <1>4, <1>5 DEF Step, Copy

(* What concat_sections copies are parts of the nodes. *)
LEMMA CopiedType ==
  ASSUME NEW G, NEW nodes, NEW total \in Nat, NEW cnt \in Nat,
         \A i \in 0..(cnt - 1) : nodes[i].len \in Nat /\ (nodes[i].len # 0 => nodes[i].part \in G)
  PROVE  Copied(nodes, total, cnt) \in Copy(G)
<1> DEFINE base == [len |-> 0, parts |-> <<>>, over |-> FALSE]
           F == [x \in Copy(G) \X (1..cnt) |-> Step(x[1], nodes[x[2] - 1], total)]
           Eq(f) == f = [i \in 0..cnt |-> IF i = 0 THEN base ELSE Step(f[i - 1], nodes[i - 1], total)]
           copy == CHOOSE f : Eq(f)
<1>1. base \in Copy(G)
  BY DEF Copy
<1>2. F \in [Copy(G) \X (1..cnt) -> Copy(G)]
  <2> SUFFICES ASSUME NEW c \in Copy(G), NEW i \in 1..cnt
               PROVE  Step(c, nodes[i - 1], total) \in Copy(G)
    OBVIOUS
  <2>1. i - 1 \in 0..(cnt - 1)
    OBVIOUS
  <2> QED
    BY <2>1, StepType
<1>3. PICK g \in [0..cnt -> Copy(G)] : g[0] = base /\ \A i \in 1..cnt : g[i] = F[<<g[i - 1], i>>]
  <2> HIDE DEF F, base
  <2>1. Recursion(Copy(G), cnt, base, F)
    BY <1>1, <1>2, RecursionExists
  <2> QED
    BY <2>1 DEF Recursion
<1>4. \A i \in 1..cnt : g[i] = Step(g[i - 1], nodes[i - 1], total)
  <2> HIDE DEF base
  <2> TAKE i \in 1..cnt
  <2>1. i - 1 \in 0..cnt
    OBVIOUS
  <2>2. <<g[i - 1], i>> \in Copy(G) \X (1..cnt)
    BY <2>1
  <2>3. F[<<g[i - 1], i>>] = Step(g[i - 1], nodes[i - 1], total)
    BY <2>2
  <2> HIDE DEF F
  <2> QED
    BY <1>3, <2>3
<1>5. Eq(g)
  <2> HIDE DEF base
  <2>1. g = [i \in 0..cnt |-> g[i]]
    OBVIOUS
  <2>2. g[0] = base
    BY <1>3
  <2>3. \A i \in 0..cnt : i # 0 => i \in 1..cnt
    OBVIOUS
  <2>4. \A i \in 0..cnt : g[i] = IF i = 0 THEN base ELSE Step(g[i - 1], nodes[i - 1], total)
    BY <1>4, <2>2, <2>3, Zenon
  <2> QED
    BY <2>1, <2>4, Zenon
<1>6. Eq(copy)
  <2> HIDE DEF Eq
  <2> QED
    BY <1>5
<1>7. copy[0] = base /\ \A i \in 1..cnt : copy[i] = Step(copy[i - 1], nodes[i - 1], total)
  <2> HIDE DEF copy, base
  <2> QED
    BY <1>6
<1>8. Copied(nodes, total, cnt) = copy[cnt]
  BY DEF Copied, Step
<1> HIDE DEF copy, Eq, base
<1> DEFINE T == {i \in 0..cnt : copy[i] \in Copy(G)}
<1>9. 0 \in T
  BY <1>1, <1>7
<1>10. ASSUME NEW i \in 1..cnt, i - 1 \in T PROVE i \in T
  <2>1. i - 1 \in 0..(cnt - 1) /\ i \in 0..cnt
    OBVIOUS
  <2>2. copy[i - 1] \in Copy(G)
    BY <1>10
  <2>3. Step(copy[i - 1], nodes[i - 1], total) \in Copy(G)
    BY <2>1, <2>2, StepType
  <2> QED
    BY <1>7, <2>1, <2>3
<1>11. \A i \in 0..cnt : i \in T
  <2> HIDE DEF T
  <2> QED
    BY <1>9, <1>10, IntervalInduction
<1> QED
  BY <1>8, <1>11

(* A table of one section is copied whole. *)
LEMMA CopiedOne ==
  ASSUME NEW nodes, NEW len \in Nat \ {0}, nodes[0].len = len
  PROVE  Copied(nodes, len, 1) = [len |-> len, parts |-> <<nodes[0].part>>, over |-> FALSE]
<1> DEFINE base == [len |-> 0, parts |-> <<>>, over |-> FALSE]
           one == [len |-> len, parts |-> <<nodes[0].part>>, over |-> FALSE]
           Eq(f) == f = [i \in 0..1 |-> IF i = 0 THEN base ELSE Step(f[i - 1], nodes[i - 1], len)]
           copy == CHOOSE f : Eq(f)
           g == [i \in 0..1 |-> IF i = 0 THEN base ELSE one]
<1>1. Step(base, nodes[0], len) = one
  <2>1. base.len = 0 /\ base.parts = <<>> /\ base.over = FALSE
    OBVIOUS
  <2>2. ~(base.len >= len) /\ base.len + nodes[0].len = len /\ ~(len > len) /\ nodes[0].len # 0
    BY <2>1
  <2>3. Append(<<>>, nodes[0].part) = <<nodes[0].part>>
    OBVIOUS
  <2>4. (base.over \/ base.len + nodes[0].len > len) = FALSE
    BY <2>1, <2>2
  <2> HIDE DEF base
  <2> QED
    BY <2>1, <2>2, <2>3, <2>4 DEF Step
<1>2. Eq(g)
  <2> HIDE DEF base, one
  <2>1. g[0] = base /\ g[1] = one
    OBVIOUS
  <2>2. \A i \in 0..1 : i = 0 \/ (i = 1 /\ i - 1 = 0)
    OBVIOUS
  <2> QED
    BY <1>1, <2>1, <2>2
<1>3. Eq(copy)
  <2> HIDE DEF Eq, g
  <2> QED
    BY <1>2
<1>4. copy[0] = base /\ copy[1] = Step(copy[0], nodes[0], len)
  <2> HIDE DEF copy, base
  <2>1. 1 - 1 = 0
    OBVIOUS
  <2> QED
    BY <1>3, <2>1
<1>5. Copied(nodes, len, 1) = copy[1]
  BY DEF Copied, Step
<1> HIDE DEF copy, Eq, base, one
<1>6. Copied(nodes, len, 1) = one
  BY <1>1, <1>4, <1>5
<1> QED
  BY <1>6 DEF one

-----------------------------------------------------------------------------
(* Structures *)

Short == <<"short">>
PartSet == {<<>>, Short} \cup {<<y, i, n>> : y \in Exts, i \in Nat, n \in Sections}
NodeSet == [len : Nat, part : PartSet, ptr : {"null", "live", "freed"}]
TabSet == [version : Nat, ext : Exts \cup {0}, last : Nat, length : Nat,
           bitmap : SUBSET Sections, nodes : [Sections -> NodeSet],
           data : Seq(PartSet), decoded : Seq(PartSet)]

TypeInv == /\ tabs \in Seq(TabSet)
           /\ issue \in [Exts -> Nat] /\ last \in [Exts -> Lasts]

(* A part that belongs into a structure of version v, and a structure that
   holds only such parts *)
Fit(p, v) == p # <<>> /\ (p # Short => Version(p[2]) = v)
FitParts(v) == {p \in PartSet : Fit(p, v)}
TabOK(t) ==
  /\ \A n \in Sections : t.nodes[n].len # 0 => Fit(t.nodes[n].part, t.version)
  /\ \A j \in 1..Len(t.decoded) : Fit(t.decoded[j], t.version)
  /\ t.ext \in Exts \/ \A j \in 1..Len(t.decoded) : t.decoded[j] = Short

LEMMA ConstantFacts ==
  /\ VMod \in Nat /\ VMod > 0 /\ First \in Nat /\ NoVersion \in Nat
  /\ W \in Nat \ {0} /\ Words \in Nat \ {0}
  /\ \A l \in Lasts : l \in Nat /\ l \in Sections
  /\ \A l \in Lens : l \in Nat \ {0}
  /\ 0 \in Sections
  /\ \A n \in Sections : n \in Nat
  /\ \A l \in Sections : \A n \in 0..l : n \in Sections
<1>1. /\ VMod \in Nat /\ VMod > 0 /\ First \in Nat /\ NoVersion \in Nat
  BY TableConstants DEF NoVersion
<1>2. W \in Nat \ {0} /\ Words \in Nat \ {0}
  BY TableConstants
<1>3. W * Words \in Nat /\ W * Words > 0
  BY <1>2
<1>4. Sections = 0..(W * Words - 1)
  BY DEF Sections
<1> DEFINE top == W * Words
<1>5. top \in Nat /\ top > 0 /\ Sections = 0..(top - 1) /\ Lasts \subseteq 0..(top - 1)
  BY <1>3, <1>4, TableConstants
<1> HIDE DEF top
<1>6. 0 \in Sections /\ (\A n \in Sections : n \in Nat) /\ (\A l \in Sections : \A n \in 0..l : n \in Sections)
  BY <1>5
<1>7. \A l \in Lasts : l \in Nat /\ l \in Sections
  BY <1>5
<1>8. \A l \in Lens : l \in Nat \ {0}
  BY TableConstants
<1> QED
  BY <1>1, <1>2, <1>6, <1>7, <1>8

LEMMA VersionType == \A i \in Nat : Version(i) \in Nat
<1> TAKE i \in Nat
<1>1. First + i \in Nat /\ VMod \in Nat /\ VMod > 0
  BY ConstantFacts
<1>2. \A top, v \in Nat : v > 0 => top % v \in Nat
  OBVIOUS
<1> QED
  BY <1>1, <1>2 DEF Version

(* A structure as calloc leaves it *)
LEMMA NewTableFacts ==
  ASSUME NEW v \in Nat
  PROVE  LET t == NewTable(v) IN
         /\ t \in TabSet /\ t.version = v /\ t.bitmap = {} /\ t.decoded = <<>>
         /\ \A n \in Sections : t.nodes[n].len = 0
<1>1. NoNode \in NodeSet /\ NoNode.len = 0
  BY DEF NoNode, NodeSet, PartSet
<1>2. [n \in Sections |-> NoNode] \in [Sections -> NodeSet]
  BY <1>1
<1>3. <<>> \in Seq(PartSet)
  OBVIOUS
<1> DEFINE ns == [n \in Sections |-> NoNode]
<1>4. \A n \in Sections : ns[n].len = 0
  BY <1>1
<1>5. NewTable(v) = [version |-> v, ext |-> 0, last |-> 0, length |-> 0, bitmap |-> {},
                     nodes |-> ns, data |-> <<>>, decoded |-> <<>>]
  BY DEF NewTable
<1> HIDE DEF ns
<1>6. ns \in [Sections -> NodeSet]
  BY <1>2 DEF ns
<1>7. NewTable(v) \in TabSet
  BY <1>3, <1>5, <1>6 DEF TabSet
<1> QED
  BY <1>4, <1>5, <1>7

(* Storing the header *)
LEMMA HeaderFacts ==
  ASSUME TypeInv, NEW t \in TabSet, NEW x \in Exts, NEW len \in Nat
  PROVE  LET h == HeaderStored(t, x, len) IN
         /\ h \in TabSet /\ h.version = Version(issue[x]) /\ h.ext = x
         /\ h.bitmap = t.bitmap /\ h.nodes = t.nodes /\ h.decoded = t.decoded
<1>1. Version(issue[x]) \in Nat /\ last[x] \in Nat
  BY VersionType, ConstantFacts DEF TypeInv
<1>2. HeaderStored(t, x, len) = [t EXCEPT !.version = Version(issue[x]), !.ext = x, !.last = last[x],
                                          !.length = len]
  BY DEF HeaderStored
<1> QED
  BY <1>1, <1>2 DEF TabSet

(* The node of a section that is stored *)
LEMMA StoredFacts ==
  ASSUME TypeInv, NEW t \in TabSet, NEW x \in Exts, NEW n \in Sections, NEW len \in Nat
  PROVE  LET part == <<x, issue[x], n>>
             nd == [t.nodes EXCEPT ![n] = [len |-> len, part |-> part, ptr |-> "live"]]
         IN /\ nd \in [Sections -> NodeSet] /\ part \in FitParts(Version(issue[x]))
            /\ nd[n].len = len /\ nd[n].part = part
            /\ \A top \in Sections : top # n => nd[top] = t.nodes[top]
<1> DEFINE part == <<x, issue[x], n>>
           node == [len |-> len, part |-> part, ptr |-> "live"]
           nd == [t.nodes EXCEPT ![n] = node]
<1>1. issue[x] \in Nat
  BY DEF TypeInv
<1>2. part \in PartSet
  BY <1>1 DEF PartSet
<1>3. part # <<>> /\ part # Short /\ part[2] = issue[x]
  BY DEF Short
<1>4. part \in FitParts(Version(issue[x]))
  <2> HIDE DEF part
  <2> QED
    BY <1>2, <1>3, Zenon DEF FitParts, Fit
<1>5. node \in NodeSet /\ node.len = len /\ node.part = part
  <2> HIDE DEF part
  <2> QED
    BY <1>2 DEF NodeSet
<1>6. t.nodes \in [Sections -> NodeSet]
  BY DEF TabSet
<1>7. /\ nd \in [Sections -> NodeSet] /\ nd[n] = node
      /\ \A top \in Sections : top # n => nd[top] = t.nodes[top]
  <2> HIDE DEF node, part
  <2> QED
    BY <1>5, <1>6
<1> QED
  BY <1>4, <1>5, <1>7

(* clear_sections leaves nodes that hold no part, and the ones behind. *)
LEMMA ClearFacts ==
  ASSUME NEW nodes \in [Sections -> NodeSet], NEW cnt
  PROVE  /\ clear_sections(nodes, cnt) \in [Sections -> NodeSet]
         /\ \A n \in Sections : \/ clear_sections(nodes, cnt)[n].len = 0
                                \/ clear_sections(nodes, cnt)[n] = nodes[n]
<1> DEFINE cl(n) == [nodes[n] EXCEPT !.len = 0, !.part = <<>>,
                                     !.ptr = IF nodes[n].len # 0 THEN "freed" ELSE @]
<1>1. ASSUME NEW n \in Sections PROVE cl(n) \in NodeSet /\ cl(n).len = 0
  <2>1. nodes[n] \in NodeSet
    OBVIOUS
  <2>2. <<>> \in PartSet
    BY DEF PartSet
  <2> QED
    BY <2>1, <2>2 DEF NodeSet
<1>2. clear_sections(nodes, cnt) = [n \in Sections |-> IF n < cnt THEN cl(n) ELSE nodes[n]]
  BY DEF clear_sections
<1> HIDE DEF cl
<1> QED
  BY <1>1, <1>2

(* What parse_section_header makes of a section, whole or in part: a structure
   of the section's sub-table and version, whose parts fit when they did
   before. *)
LEMMA ParsedFacts ==
  ASSUME TypeInv, NEW t \in TabSet, NEW x \in Exts, NEW n \in Sections, NEW len \in Nat,
         NEW r \in Parsed(t, x, n, len)
  PROVE  /\ r.t \in TabSet /\ r.t.version = Version(issue[x]) /\ r.t.ext = x
         /\ r.t.bitmap = t.bitmap \/ r.t.bitmap = t.bitmap \cup {n}
         /\ TabOK(HeaderStored(t, x, len)) => TabOK(r.t)
<1> DEFINE h == HeaderStored(t, x, len)
           v == Version(issue[x])
           bm == h.bitmap \cup {n}
           part == <<x, issue[x], n>>
           nd == [h.nodes EXCEPT ![n] = [len |-> len, part |-> part, ptr |-> "live"]]
           c == Copied(nd, len, last[x] + 1)
           cl == clear_sections(nd, last[x] + 1)
<1>1. /\ h \in TabSet /\ h.version = v /\ h.ext = x
      /\ h.bitmap = t.bitmap /\ h.nodes = t.nodes /\ h.decoded = t.decoded
  BY HeaderFacts
<1>2. /\ nd \in [Sections -> NodeSet] /\ part \in FitParts(v)
      /\ nd[n].len = len /\ nd[n].part = part
      /\ \A top \in Sections : top # n => nd[top] = h.nodes[top]
  <2> HIDE DEF h
  <2> QED
    BY <1>1, StoredFacts
<1>3. last[x] \in Nat /\ last[x] + 1 \in Nat /\ \A top \in 0..((last[x] + 1) - 1) : top \in Sections
  <2>1. last[x] \in Nat /\ last[x] \in Sections
    BY ConstantFacts DEF TypeInv
  <2>2. (last[x] + 1) - 1 = last[x]
    BY <2>1
  <2> QED
    BY <2>1, <2>2, ConstantFacts
<1>4. \/ r.t = h
      \/ r.t = [h EXCEPT !.bitmap = bm, !.nodes = nd]
      \/ r.t = [h EXCEPT !.bitmap = bm, !.nodes = cl, !.data = c.parts, !.decoded = c.parts]
  BY DEF Parsed
<1>5. cl \in [Sections -> NodeSet] /\ \A top \in Sections : cl[top].len = 0 \/ cl[top] = nd[top]
  <2> HIDE DEF nd
  <2> QED
    BY <1>2, ClearFacts
<1>6. \A top \in Sections : nd[top].len \in Nat /\ nd[top].part \in PartSet
  <2> HIDE DEF nd
  <2> QED
    BY <1>2 DEF NodeSet
<1>7. c \in Copy(PartSet)
  <2> HIDE DEF nd
  <2> QED
    BY <1>3, <1>6, CopiedType
<1>8. c.parts \in Seq(PartSet)
  <2> HIDE DEF c
  <2> QED
    BY <1>7 DEF Copy
<1>9. bm \in SUBSET Sections
  BY <1>1 DEF TabSet
<1>10. r.t \in TabSet /\ r.t.version = v /\ r.t.ext = x
  <2>0. nd \in [Sections -> NodeSet]
    BY <1>2
  <2> DEFINE ps == c.parts
             rt == r.t
  <2> SUFFICES rt \in TabSet /\ rt.version = v /\ rt.ext = x
    OBVIOUS
  <2>1. ps \in Seq(PartSet)
    BY <1>8
  <2>2. \/ rt = h
        \/ rt = [h EXCEPT !.bitmap = bm, !.nodes = nd]
        \/ rt = [h EXCEPT !.bitmap = bm, !.nodes = cl, !.data = ps, !.decoded = ps]
    BY <1>4
  <2> HIDE DEF h, bm, nd, c, cl, v, ps, rt
  <2>3. CASE rt = h
    BY <1>1, <2>3
  <2>4. CASE rt = [h EXCEPT !.bitmap = bm, !.nodes = nd]
    <3>1. rt \in TabSet
      BY <1>1, <1>9, <2>0, <2>4 DEF TabSet
    <3> QED
      BY <1>1, <2>4, <3>1 DEF TabSet
  <2>5. CASE rt = [h EXCEPT !.bitmap = bm, !.nodes = cl, !.data = ps, !.decoded = ps]
    <3>1. rt \in TabSet
      BY <1>1, <1>5, <1>9, <2>1, <2>5 DEF TabSet
    <3> QED
      BY <1>1, <2>5, <3>1 DEF TabSet
  <2> QED
    BY <2>2, <2>3, <2>4, <2>5
<1>11. r.t.bitmap = t.bitmap \/ r.t.bitmap = t.bitmap \cup {n}
  <2>1. bm = t.bitmap \cup {n}
    BY <1>1
  <2> HIDE DEF h, bm, nd, c, cl, v
  <2> QED
    BY <1>1, <1>4, <2>1 DEF TabSet
<1>12. ASSUME TabOK(h) PROVE TabOK(r.t)
  <2>1. \A top \in Sections : nd[top].len # 0 => Fit(nd[top].part, v)
    <3> TAKE top \in Sections
    <3>1. CASE top = n
      BY <1>2, <3>1 DEF FitParts
    <3>2. CASE top # n
      <4>1. nd[top] = h.nodes[top]
        BY <1>2, <3>2
      <4> HIDE DEF nd, h
      <4> QED
        BY <1>1, <1>12, <4>1 DEF TabOK
    <3> QED
      BY <3>1, <3>2
  <2>2. \A top \in Sections : cl[top].len # 0 => Fit(cl[top].part, v)
    <3> HIDE DEF nd, cl, v
    <3> QED
      BY <1>5, <2>1
  <2>3. c.parts \in Seq(FitParts(v))
    <3> HIDE DEF nd, v
    <3>1. \A top \in Sections : nd[top].len \in Nat /\ (nd[top].len # 0 => nd[top].part \in FitParts(v))
      BY <1>6, <2>1 DEF FitParts
    <3>2. c \in Copy(FitParts(v))
      BY <1>3, <3>1, CopiedType
    <3> HIDE DEF c
    <3> QED
      BY <3>2 DEF Copy
  <2>4. \A j \in 1..Len(c.parts) : Fit(c.parts[j], v)
    <3> HIDE DEF c, v
    <3> QED
      BY <2>3 DEF FitParts
  <2> HIDE DEF bm, nd, c, cl, v, h
  <2>5. CASE r.t = h
    BY <1>12, <2>5
  <2>6. CASE r.t = [h EXCEPT !.bitmap = bm, !.nodes = nd]
    <3>1. r.t.nodes = nd /\ r.t.decoded = h.decoded /\ r.t.version = v /\ r.t.ext \in Exts
      BY <1>1, <1>10, <2>6 DEF TabSet
    <3> QED
      BY <1>1, <1>12, <2>1, <3>1 DEF TabOK
  <2>7. CASE r.t = [h EXCEPT !.bitmap = bm, !.nodes = cl, !.data = c.parts, !.decoded = c.parts]
    <3>1. r.t.nodes = cl /\ r.t.decoded = c.parts /\ r.t.version = v /\ r.t.ext \in Exts
      BY <1>1, <1>10, <2>7 DEF TabSet
    <3> QED
      BY <2>2, <2>4, <3>1 DEF TabOK
  <2> QED
    BY <1>4, <2>5, <2>6, <2>7
<1> QED
  BY <1>10, <1>11, <1>12

-----------------------------------------------------------------------------
(* The list of structures *)

(* Replacing the last structure *)
LEMMA LastReplaced ==
  ASSUME NEW S, NEW ts \in Seq(S), ts # <<>>, NEW u \in S
  PROVE  LET us == [ts EXCEPT ![Len(ts)] = u] IN
         /\ us \in Seq(S) /\ us # <<>> /\ Len(us) = Len(ts)
         /\ us[Len(us)] = u
         /\ \A k \in 1..Len(ts) : k # Len(ts) => us[k] = ts[k]
<1>1. Len(ts) \in Nat /\ Len(ts) \in 1..Len(ts)
  OBVIOUS
<1> QED
  BY <1>1

(* A structure added at the end *)
LEMMA Added ==
  ASSUME NEW S, NEW ts \in Seq(S), NEW u \in S
  PROVE  LET us == Append(ts, u) IN
         /\ us \in Seq(S) /\ us # <<>> /\ Len(us) = Len(ts) + 1 /\ us[Len(us)] = u
         /\ \A k \in 1..Len(ts) : us[k] = ts[k]
OBVIOUS

LEMMA LastOne ==
  ASSUME NEW S, NEW ts \in Seq(S), ts # <<>>
  PROVE  Len(ts) \in 1..Len(ts) /\ ts[Len(ts)] \in S
OBVIOUS

(* The structure a section goes to: one of its version, or a new one *)
LEMMA TargetFacts ==
  ASSUME TypeInv, NEW v \in Nat
  PROVE  /\ Target(v) \in Seq(TabSet)
         /\ \/ Target(v) = tabs /\ (tabs # <<>> /\ Kind # "single" => tabs[Len(tabs)].version = v)
            \/ Target(v) = Append(tabs, NewTable(NoVersion))
            \/ Target(v) = <<>>
<1>1. NewTable(NoVersion) \in TabSet
  BY NewTableFacts, ConstantFacts
<1>2. tabs \in Seq(TabSet)
  BY DEF TypeInv
<1>3. Append(tabs, NewTable(NoVersion)) \in Seq(TabSet)
  BY <1>1, <1>2
<1> DEFINE app == Append(tabs, NewTable(NoVersion))
           cur == IF tabs = <<>> THEN NoVersion ELSE tabs[Len(tabs)].version
<1>4. \/ Kind = "single" /\ Target(v) = tabs
      \/ Kind # "single" /\ check_version(v, cur) = 1 /\ Target(v) = app
      \/ Kind # "single" /\ check_version(v, cur) = 0 /\ Target(v) = tabs
      \/ Target(v) = <<>>
  BY Zenon DEF Target
<1>5. check_version(v, cur) = 0 => v = cur
  BY DEF check_version
<1>6. <<>> \in Seq(TabSet)
  OBVIOUS
<1> HIDE DEF app
<1> QED
  BY <1>2, <1>3, <1>4, <1>5, <1>6 DEF app

(* A section without the long header *)
Shortened(t, len) ==
  [t EXCEPT !.length = len, !.nodes[0] = [len |-> len, part |-> Short, ptr |-> "live"],
            !.data = ShortData, !.decoded = ShortData]

LEMMA ShortenedFacts ==
  ASSUME NEW t \in TabSet, NEW len \in Nat
  PROVE  LET u == Shortened(t, len) IN
         /\ u \in TabSet /\ u.version = t.version /\ u.ext = t.ext /\ u.bitmap = t.bitmap
         /\ u.decoded = ShortData
         /\ TabOK(t) => TabOK(u)
<1> DEFINE node == [len |-> len, part |-> Short, ptr |-> "live"]
           nd == [t.nodes EXCEPT ![0] = node]
           u == Shortened(t, len)
<1>1. Short \in PartSet /\ Short # <<>>
  BY DEF PartSet, Short
<1>2. node \in NodeSet /\ node.part = Short
  BY <1>1 DEF NodeSet
<1>3. t.nodes \in [Sections -> NodeSet]
  BY DEF TabSet
<1>4. nd \in [Sections -> NodeSet] /\ \A top \in Sections : nd[top] = t.nodes[top] \/ nd[top] = node
  <2> HIDE DEF node
  <2> QED
    BY <1>2, <1>3
<1>5. ShortData \in Seq(PartSet) /\ Len(ShortData) = 1 /\ ShortData[1] = Short
  <2>1. ShortData = <<Short>>
    BY DEF ShortData, Short
  <2> QED
    BY <1>1, <2>1
<1>6. u = [t EXCEPT !.length = len, !.nodes = nd, !.data = ShortData, !.decoded = ShortData]
  <2>1. u = [t EXCEPT !.length = len, !.nodes[0] = node, !.data = ShortData, !.decoded = ShortData]
    BY DEF Shortened
  <2> HIDE DEF u, node
  <2> QED
    BY <2>1 DEF TabSet
<1> HIDE DEF nd, u, node
<1>7. /\ u \in TabSet /\ u.version = t.version /\ u.ext = t.ext /\ u.bitmap = t.bitmap
      /\ u.decoded = ShortData /\ u.nodes = nd
  BY <1>4, <1>5, <1>6 DEF TabSet
<1>8. ASSUME TabOK(t) PROVE TabOK(u)
  <2>1. Fit(Short, t.version)
    BY <1>1 DEF Fit
  <2>2. \A top \in Sections : nd[top].len # 0 => Fit(nd[top].part, t.version)
    BY <1>2, <1>4, <1>8, <2>1 DEF TabOK
  <2>3. \A j \in 1..Len(ShortData) : ShortData[j] = Short
    BY <1>5
  <2> QED
    BY <1>7, <2>1, <2>2, <2>3 DEF TabOK
<1> QED
  BY <1>7, <1>8 DEF u

LEMMA ShortStep ==
  ASSUME TypeInv, NEW len \in Lens, ReceiveShort(len)
  PROVE  \/ tabs' = tabs
         \/ tabs # <<>> /\ tabs' = [tabs EXCEPT ![Len(tabs)] = Shortened(tabs[Len(tabs)], len)]
<1> DEFINE k == Len(tabs)
           node == [len |-> len, part |-> Short, ptr |-> "live"]
<1>1. \/ tabs' = tabs
      \/ /\ tabs # <<>>
         /\ tabs' = [tabs EXCEPT ![k].length = len, ![k].nodes[0] = node,
                                 ![k].data = <<Short>>, ![k].decoded = <<Short>>]
  BY DEF ReceiveShort, Short
<1>2. ShortData = <<Short>>
  BY DEF ShortData, Short
<1>3. ASSUME tabs # <<>> PROVE k \in 1..Len(tabs) /\ tabs \in Seq(TabSet)
  BY <1>3 DEF TypeInv
<1>4. Shortened(tabs[k], len) =
         [tabs[k] EXCEPT !.length = len, !.nodes[0] = node, !.data = <<Short>>, !.decoded = <<Short>>]
  BY <1>2 DEF Shortened
<1> HIDE DEF k, node
<1> QED
  BY <1>1, <1>3, <1>4 DEF k


-----------------------------------------------------------------------------
(* Types *)

LEMMA TypeInit == Init => TypeInv
<1> SUFFICES ASSUME Init PROVE TypeInv
  OBVIOUS
<1>1. NewTable(0) \in TabSet
  BY NewTableFacts
<1>2. tabs \in Seq(TabSet)
  BY <1>1 DEF Init
<1> QED
  BY <1>2 DEF Init, TypeInv

(* A section that is not dropped goes into the last structure. *)
Filed(x, n, len, ts, r) ==
  /\ ts = Target(Version(issue[x])) /\ ts # <<>> /\ ts \in Seq(TabSet) /\ ts[Len(ts)] \in TabSet
  /\ r \in Parsed(ts[Len(ts)], x, n, len)
  /\ tabs' = [ts EXCEPT ![Len(ts)] = r.t] /\ fault' = r.fault

FiledSome(x, n, len) == \E ts, r : Filed(x, n, len, ts, r)

LEMMA ReceiveStep ==
  ASSUME TypeInv, NEW x \in Exts, NEW n \in Sections, NEW len \in Lens, Receive(x, n, len)
  PROVE  \/ tabs' = tabs /\ fault' = NoTable /\ Target(Version(issue[x])) = <<>>
         \/ FiledSome(x, n, len)
<1> DEFINE ts == Target(Version(issue[x]))
           k == Len(ts)
<1>1. Version(issue[x]) \in Nat
  BY VersionType DEF TypeInv
<1>2. ts \in Seq(TabSet)
  BY <1>1, TargetFacts
<1>3. \/ tabs' = tabs /\ fault' = NoTable /\ ts = <<>>
      \/ ts # <<>> /\ \E r \in Parsed(ts[k], x, n, len) : tabs' = [ts EXCEPT ![k] = r.t] /\ fault' = r.fault
  BY DEF Receive
<1> HIDE DEF ts
<1>4. ASSUME ts # <<>> PROVE ts[k] \in TabSet
  BY <1>2, <1>4
<1>5. ts = Target(Version(issue[x]))
  BY DEF ts
<1> QED
  BY <1>2, <1>3, <1>4, <1>5, Zenon DEF Filed, FiledSome

LEMMA TypeStep == TypeInv /\ [Next]_vars => TypeInv'
<1> SUFFICES ASSUME TypeInv, [Next]_vars PROVE TypeInv'
  OBVIOUS
<1>0. tabs \in Seq(TabSet) /\ issue \in [Exts -> Nat] /\ last \in [Exts -> Lasts]
  BY DEF TypeInv
<1>1. ASSUME NEW x \in Exts, NEW n \in Sections, NEW len \in Lens, Receive(x, n, len) PROVE TypeInv'
  <2>1. issue' = issue /\ last' = last
    BY <1>1 DEF Receive
  <2>2. len \in Nat
    BY ConstantFacts
  <2>3. ASSUME FiledSome(x, n, len) PROVE tabs' \in Seq(TabSet)
    <3>1. PICK ts, r : Filed(x, n, len, ts, r)
      BY <2>3, Zenon DEF FiledSome
    <3>2. r.t \in TabSet
      BY <2>2, <3>1, ParsedFacts DEF Filed
    <3> QED
      BY <3>1, <3>2, LastReplaced DEF Filed
  <2>4. tabs' \in Seq(TabSet)
    BY <1>0, <1>1, <2>3, ReceiveStep
  <2> QED
    BY <1>0, <2>1, <2>4 DEF TypeInv
<1>2. ASSUME NEW v \in 0..(VMod - 1), ReceiveOverlong(v) PROVE TypeInv'
  <2>1. v \in Nat
    OBVIOUS
  <2>2. tabs' \in Seq(TabSet)
    BY <1>0, <1>2, <2>1, TargetFacts DEF ReceiveOverlong
  <2> QED
    BY <1>0, <1>2, <2>2 DEF TypeInv, ReceiveOverlong
<1>3. ASSUME NEW len \in Lens, ReceiveShort(len) PROVE TypeInv'
  <2>1. len \in Nat
    BY ConstantFacts
  <2>2. CASE tabs # <<>> /\ tabs' = [tabs EXCEPT ![Len(tabs)] = Shortened(tabs[Len(tabs)], len)]
    <3>1. Shortened(tabs[Len(tabs)], len) \in TabSet
      BY <1>0, <2>1, <2>2, LastOne, ShortenedFacts
    <3>2. tabs' \in Seq(TabSet)
      BY <1>0, <2>2, <3>1, LastReplaced
    <3> QED
      BY <1>0, <1>3, <3>2 DEF TypeInv, ReceiveShort
  <2> QED
    BY <1>0, <1>3, <2>2, ShortStep DEF TypeInv, ReceiveShort
<1>4. ASSUME NEW x \in Exts, NEW l \in Lasts, NewIssue(x, l) PROVE TypeInv'
  BY <1>0, <1>4 DEF TypeInv, NewIssue
<1>5. CASE UNCHANGED vars
  BY <1>0, <1>5 DEF TypeInv, vars
<1> QED
  BY <1>1, <1>2, <1>3, <1>4, <1>5 DEF Next

-----------------------------------------------------------------------------
(* Headers and data *)

(* The PAT and the CAT, which keep a structure per version *)
ByVersion == Kind \in {"pat", "cat"}

(* One table_id_extension: one transport stream's PAT, its CAT *)
OneSubTable == \A x, y \in Exts : x = y

CoherentInv == \A k \in 1..Len(tabs) : TabOK(tabs[k])

(* A section is filed with parts of its own version only. *)
LEMMA FiledFits ==
  ASSUME TypeInv, ByVersion, CoherentInv, NEW x \in Exts, NEW n \in Sections, NEW len \in Nat,
         NEW ts, NEW r, Filed(x, n, len, ts, r)
  PROVE  TabOK(r.t) /\ \A k \in 1..Len(ts) : k # Len(ts) => TabOK(ts[k])
<1> DEFINE t == ts[Len(ts)]
           h == HeaderStored(t, x, len)
           v == Version(issue[x])
<1>1. v \in Nat
  BY VersionType DEF TypeInv
<1>2. t \in TabSet /\ r \in Parsed(t, x, n, len) /\ ts # <<>> /\ ts = Target(v) /\ tabs \in Seq(TabSet)
  BY DEF Filed, TypeInv
<1>3. /\ h.version = v /\ h.ext = x /\ h.nodes = t.nodes /\ h.decoded = t.decoded
  BY <1>2, HeaderFacts
<1>4. NoVersion \in Nat /\ NewTable(NoVersion) \in TabSet
  BY ConstantFacts, NewTableFacts
<1>5. TabOK(h) /\ \A k \in 1..Len(ts) : k # Len(ts) => TabOK(ts[k])
  <2>1. CASE ts = tabs /\ tabs[Len(tabs)].version = v
    <3>1. TabOK(t) /\ t.version = v
      BY <1>2, <2>1, LastOne DEF CoherentInv
    <3>2. TabOK(h)
      <4> HIDE DEF h, t, v
      <4> QED
        BY <1>3, <3>1 DEF TabOK
    <3> QED
      BY <2>1, <3>2 DEF CoherentInv
  <2>2. CASE ts = Append(tabs, NewTable(NoVersion))
    <3>1. t = NewTable(NoVersion) /\ \A k \in 1..Len(ts) : k # Len(ts) => k \in 1..Len(tabs) /\ ts[k] = tabs[k]
      BY <1>2, <1>4, <2>2
    <3>2. t.decoded = <<>> /\ \A top \in Sections : t.nodes[top].len = 0
      BY <1>4, <3>1, NewTableFacts
    <3>3. TabOK(h)
      <4> HIDE DEF h, t, v
      <4> QED
        BY <1>3, <3>2 DEF TabOK
    <3> QED
      BY <3>1, <3>3 DEF CoherentInv
  <2> QED
    BY <1>1, <1>2, <2>1, <2>2, TargetFacts DEF ByVersion
<1> QED
  BY <1>2, <1>5, ParsedFacts

LEMMA CoherentStep == ByVersion /\ TypeInv /\ CoherentInv /\ [Next]_vars => CoherentInv'
<1> SUFFICES ASSUME ByVersion, TypeInv, CoherentInv, [Next]_vars PROVE CoherentInv'
  OBVIOUS
<1>0. tabs \in Seq(TabSet)
  BY DEF TypeInv
<1>1. ASSUME tabs' = tabs PROVE CoherentInv'
  BY <1>1 DEF CoherentInv
<1>2. ASSUME NEW ts \in Seq(TabSet), ts # <<>>, NEW u \in TabSet, tabs' = [ts EXCEPT ![Len(ts)] = u],
             TabOK(u), \A k \in 1..Len(ts) : k # Len(ts) => TabOK(ts[k])
      PROVE  CoherentInv'
  <2>1. /\ Len(tabs') = Len(ts) /\ tabs'[Len(ts)] = u
        /\ \A k \in 1..Len(ts) : k # Len(ts) => tabs'[k] = ts[k]
    BY <1>2, LastReplaced
  <2>2. \A k \in 1..Len(tabs') : TabOK(tabs'[k])
    BY <1>2, <2>1
  <2> QED
    BY <2>2 DEF CoherentInv
<1>3. ASSUME NEW x \in Exts, NEW n \in Sections, NEW len \in Lens, Receive(x, n, len) PROVE CoherentInv'
  <2>1. len \in Nat
    BY ConstantFacts
  <2>2. ASSUME FiledSome(x, n, len) PROVE CoherentInv'
    <3>1. PICK ts, r : Filed(x, n, len, ts, r)
      BY <2>2, Zenon DEF FiledSome
    <3>2. r.t \in TabSet
      BY <2>1, <3>1, ParsedFacts DEF Filed
    <3>3. TabOK(r.t) /\ \A k \in 1..Len(ts) : k # Len(ts) => TabOK(ts[k])
      BY <2>1, <3>1, FiledFits
    <3> QED
      BY <1>2, <3>1, <3>2, <3>3 DEF Filed
  <2> QED
    BY <1>1, <1>3, <2>2, ReceiveStep
<1>4. ASSUME NEW v \in 0..(VMod - 1), ReceiveOverlong(v) PROVE CoherentInv'
  <2>1. v \in Nat /\ NoVersion \in Nat
    BY ConstantFacts
  <2>2. tabs' = tabs \/ tabs' = Append(tabs, NewTable(NoVersion))
    BY <1>4, <2>1, TargetFacts DEF ReceiveOverlong
  <2>3. CASE tabs' = Append(tabs, NewTable(NoVersion))
    <3> DEFINE u == NewTable(NoVersion)
    <3>1. u \in TabSet /\ u.decoded = <<>> /\ \A top \in Sections : u.nodes[top].len = 0
      BY <2>1, NewTableFacts
    <3>2. TabOK(u)
      <4> HIDE DEF u
      <4> QED
        BY <3>1 DEF TabOK
    <3>3. /\ Len(tabs') = Len(tabs) + 1 /\ tabs'[Len(tabs) + 1] = u
          /\ \A k \in 1..Len(tabs) : tabs'[k] = tabs[k]
      BY <1>0, <2>3, <3>1, Added
    <3>4. \A k \in 1..Len(tabs') : TabOK(tabs'[k])
      <4> HIDE DEF u
      <4>1. Len(tabs) \in Nat
        BY <1>0
      <4> QED
        BY <3>2, <3>3, <4>1 DEF CoherentInv
    <3> QED
      BY <3>4 DEF CoherentInv
  <2> QED
    BY <1>1, <2>2, <2>3
<1>5. ASSUME NEW len \in Lens, ReceiveShort(len) PROVE CoherentInv'
  <2>1. len \in Nat
    BY ConstantFacts
  <2>2. CASE tabs # <<>> /\ tabs' = [tabs EXCEPT ![Len(tabs)] = Shortened(tabs[Len(tabs)], len)]
    <3>1. tabs[Len(tabs)] \in TabSet /\ TabOK(tabs[Len(tabs)])
      BY <1>0, <2>2, LastOne DEF CoherentInv
    <3>2. Shortened(tabs[Len(tabs)], len) \in TabSet /\ TabOK(Shortened(tabs[Len(tabs)], len))
      BY <2>1, <3>1, ShortenedFacts
    <3> QED
      BY <1>0, <1>2, <2>2, <3>2 DEF CoherentInv
  <2> QED
    BY <1>1, <1>5, <2>2, ShortStep
<1>6. ASSUME NEW x \in Exts, NEW l \in Lasts, NewIssue(x, l) PROVE CoherentInv'
  BY <1>1, <1>6 DEF NewIssue
<1>7. CASE UNCHANGED vars
  BY <1>1, <1>7 DEF vars
<1> QED
  BY <1>3, <1>4, <1>5, <1>6, <1>7 DEF Next

(* The header of every PAT and CAT structure describes the data decoded into
   it, whatever sections are repeated, refused or missing in between: a
   version's sections never land in another version's structure
   (check_section_header_version before parse_section_header).  Single tables
   have no structure per version and no such theorem. *)
THEOREM HeaderMatchesData ==
  ASSUME ByVersion, OneSubTable
  PROVE  Spec => []Coherent
<1>1. Init => TypeInv /\ CoherentInv
  <2> SUFFICES ASSUME Init PROVE TypeInv /\ CoherentInv
    OBVIOUS
  <2>1. tabs = <<>>
    BY DEF Init, ByVersion
  <2> QED
    BY <2>1, TypeInit DEF CoherentInv
<1>2. TypeInv /\ CoherentInv /\ [Next]_vars => (TypeInv /\ CoherentInv)'
  BY TypeStep, CoherentStep
<1>3. TypeInv /\ CoherentInv => Coherent
  <2> SUFFICES ASSUME TypeInv, CoherentInv, NEW k \in 1..Len(tabs),
                      NEW j \in 1..Len(tabs[k].decoded), tabs[k].decoded[j] # Short
               PROVE  /\ tabs[k].ext = tabs[k].decoded[j][1]
                      /\ tabs[k].version = Version(tabs[k].decoded[j][2])
    BY DEF Coherent, Short
  <2> DEFINE t == tabs[k]
             p == t.decoded[j]
  <2>1. t \in TabSet /\ TabOK(t)
    BY DEF TypeInv, CoherentInv
  <2>2. p \in PartSet
    BY <2>1 DEF TabSet
  <2>3. p # Short /\ Fit(p, t.version) /\ t.ext \in Exts
    BY <2>1 DEF TabOK
  <2>4. p # <<>> /\ Version(p[2]) = t.version
    BY <2>3 DEF Fit
  <2>5. p[1] \in Exts
    <3> HIDE DEF p
    <3>1. PICK y \in Exts, i \in Nat, top \in Sections : p = <<y, i, top>>
      BY <2>2, <2>3, <2>4 DEF PartSet
    <3> QED
      BY <3>1
  <2> QED
    BY <2>3, <2>4, <2>5 DEF OneSubTable
<1> QED
  BY <1>1, <1>2, <1>3, PTL DEF Spec

-----------------------------------------------------------------------------
(* Concatenation stays in its buffer *)

(* Tables of no more sections than the bitmap has words (4), where
   bitmap64_full stays in the bitmap although it indexes a word with a bit
   number *)
FewSections == Lasts \subseteq 0..(Words - 1) /\ Words < W

SmallInv == \A k \in 1..Len(tabs) : tabs[k].bitmap \subseteq 0..(Words - 1)

LEMMA ModSmall ==
  ASSUME NEW a \in Nat, NEW w \in Nat, a < w
  PROVE  a % w = a /\ a \div w = 0
OBVIOUS

(* What bitmap64_full answers for such a table: a table of one section is
   full with its section, and one of more never is. *)
LEMMA FullSmall ==
  ASSUME FewSections, NEW bm, bm \subseteq 0..(Words - 1), NEW l \in Lasts,
         NEW full \in bitmap64_full(bm, l)
  PROVE  /\ l = 0 /\ 0 \in bm => full
         /\ l # 0 => ~full
<1>1. W \in Nat /\ Words \in Nat /\ l \in Nat /\ l + 1 \in Nat /\ l < Words /\ l + 1 < W /\ l < W /\ W > 0
  BY ConstantFacts DEF FewSections
<1>2. l % W = l /\ l \div W = 0 /\ (l + 1) % W = l + 1
  BY <1>1, ModSmall
<1>3. W * (l \div W) - 1 = 0 - 1 /\ W * (l % W) = W * l /\ W * l \in Nat
  BY <1>1, <1>2
<1>4. \A b \in 0..(W * (l \div W) - 1) : b \in bm
  BY <1>3
<1>5. full = \A k \in 0..l : W * l + k \in bm
  <2>1. ~(l % W >= Words) /\ (l + 1) % W # 0 /\ ((l + 1) % W) - 1 = l
    BY <1>1, <1>2
  <2> DEFINE quot == l \div W
             rem == l % W
             rest == (l + 1) % W
  <2>2. full = \A k \in 0..(rest - 1) : W * rem + k \in bm
    <3>1. (\A b \in 0..(W * quot - 1) : b \in bm) /\ rest # 0 /\ ~(rem >= Words)
      BY <1>4, <2>1
    <3>2. bitmap64_full(bm, l) =
            IF ~(\A b \in 0..(W * quot - 1) : b \in bm) THEN {FALSE}
            ELSE IF rest = 0 THEN {TRUE}
            ELSE IF rem >= Words THEN {TRUE, FALSE}
            ELSE {\A k \in 0..(rest - 1) : W * rem + k \in bm}
      BY DEF bitmap64_full
    <3> HIDE DEF quot, rem, rest
    <3> QED
      BY <3>1, <3>2, Zenon
  <2>3. rest - 1 = l /\ rem = l
    BY <1>2, <2>1
  <2> HIDE DEF quot, rem, rest
  <2> QED
    BY <2>2, <2>3
<1>6. ASSUME l = 0, 0 \in bm PROVE \A k \in 0..l : W * l + k \in bm
  <2>1. \A k \in 0..l : W * l + k = 0
    BY <1>1, <1>6
  <2> QED
    BY <1>6, <2>1
<1>7. ASSUME l # 0 PROVE ~(\A k \in 0..l : W * l + k \in bm)
  <2>1. W * l >= W
    <3>1. \A i \in Nat : W * (i + 1) >= W
      BY <1>1
    <3>2. l - 1 \in Nat /\ (l - 1) + 1 = l
      BY <1>1, <1>7
    <3> QED
      BY <3>1, <3>2
  <2>2. 0 \in 0..l /\ W * l + 0 \notin bm
    BY <1>1, <1>3, <2>1 DEF FewSections
  <2> QED
    BY <2>2
<1> QED
  BY <1>5, <1>6, <1>7

(* parse_section_header on a table of few sections: it survives, marks the
   section, and decodes a section only if it is the table's only one and
   was not received before. *)
LEMMA ParsedSmall ==
  ASSUME FewSections, TypeInv, NEW t \in TabSet, t.bitmap \subseteq 0..(Words - 1),
         NEW x \in Exts, NEW n \in Sections, n <= last[x], NEW len \in Lens,
         NEW r \in Parsed(t, x, n, len)
  PROVE  /\ r.fault = "no" /\ n \in r.t.bitmap /\ r.t.bitmap \subseteq 0..(Words - 1)
         /\ 0 \in t.bitmap => r.t.decoded = t.decoded
         /\ 0 \notin t.bitmap /\ last[x] = 0 => r.t.decoded = <<<<x, issue[x], 0>>>>
<1> DEFINE h == HeaderStored(t, x, len)
           bm == h.bitmap \cup {n}
           part == <<x, issue[x], n>>
           nd == [h.nodes EXCEPT ![n] = [len |-> len, part |-> part, ptr |-> "live"]]
           c == Copied(nd, len, last[x] + 1)
           cl == clear_sections(nd, last[x] + 1)
           l == last[x]
<1>1. len \in Nat \ {0} /\ len \in Nat /\ l \in Lasts /\ l \in Nat /\ n \in Nat /\ l \in 0..(Words - 1)
  BY ConstantFacts DEF TypeInv, FewSections
<1>2. h \in TabSet /\ h.bitmap = t.bitmap /\ h.nodes = t.nodes /\ h.decoded = t.decoded
  BY <1>1, HeaderFacts
<1>3. bm = t.bitmap \cup {n} /\ bm \subseteq 0..(Words - 1)
  <2>1. n \in 0..(Words - 1)
    BY <1>1, ConstantFacts
  <2> QED
    BY <1>2, <2>1
<1>4. nd \in [Sections -> NodeSet] /\ nd[n].len = len /\ nd[n].part = part
  <2> HIDE DEF h
  <2> QED
    BY <1>1, <1>2, StoredFacts
<1>5. CASE n \in t.bitmap
  <2>1. r = [t |-> h, fault |-> "no"]
    BY <1>2, <1>5 DEF Parsed
  <2>2. r.t = h /\ r.fault = "no"
    <3> HIDE DEF h
    <3> QED
      BY <2>1
  <2>3. l = 0 => 0 \in t.bitmap
    BY <1>1, <1>5
  <2> HIDE DEF h
  <2> QED
    BY <1>2, <1>5, <2>2, <2>3
<1>6. CASE n \notin t.bitmap /\ l = 0
  <2>1. n = 0 /\ last[x] + 1 = 1
    BY <1>1, <1>6
  <2>2. \A full \in bitmap64_full(bm, l) : full
    <3>1. 0 \in bm /\ bm \subseteq 0..(Words - 1) /\ l \in Lasts /\ l = 0
      BY <1>1, <1>3, <1>6, <2>1
    <3> HIDE DEF bm, l
    <3> QED
      BY <3>1, FullSmall
  <2>3. c = [len |-> len, parts |-> <<part>>, over |-> FALSE]
    <3> HIDE DEF nd, part
    <3> QED
      BY <1>1, <1>4, <2>1, CopiedOne
  <2>4. c.len = len /\ c.parts = <<part>> /\ ~c.over
    <3> HIDE DEF c, part
    <3> QED
      BY <2>3
  <2> DEFINE u == [h EXCEPT !.bitmap = bm, !.nodes = cl, !.data = c.parts, !.decoded = c.parts]
  <2>5. r = [t |-> u, fault |-> "no"]
    <3>1. r \in {IF ~full THEN [t |-> [h EXCEPT !.bitmap = bm, !.nodes = nd], fault |-> "no"]
                 ELSE IF c.over THEN [t |-> h, fault |-> "heap"]
                 ELSE IF c.len # len THEN [t |-> h, fault |-> "null"]
                 ELSE [t |-> u, fault |-> "no"] : full \in bitmap64_full(bm, l)}
      <4>1. n \notin h.bitmap
        BY <1>2, <1>6
      <4> QED
        BY <4>1, Zenon DEF Parsed
    <3> HIDE DEF h, bm, nd, c, u, l
    <3> QED
      BY <2>2, <2>4, <3>1, Zenon
  <2>6. r.t = u /\ r.fault = "no"
    <3> HIDE DEF u
    <3> QED
      BY <2>5
  <2>7. u.bitmap = bm /\ u.decoded = c.parts
    <3> HIDE DEF h, bm, nd, c, cl
    <3> QED
      BY <1>2 DEF TabSet
  <2>8. part = <<x, issue[x], 0>>
    BY <2>1
  <2> HIDE DEF u, part, c, bm
  <2> QED
    BY <1>3, <1>6, <2>1, <2>4, <2>6, <2>7, <2>8
<1>7. CASE n \notin t.bitmap /\ l # 0
  <2>1. \A full \in bitmap64_full(bm, l) : ~full
    BY <1>1, <1>3, <1>7, FullSmall
  <2> DEFINE u == [h EXCEPT !.bitmap = bm, !.nodes = nd]
             w == [h EXCEPT !.bitmap = bm, !.nodes = cl, !.data = c.parts, !.decoded = c.parts]
  <2>2. r = [t |-> u, fault |-> "no"]
    <3>1. r \in {IF ~full THEN [t |-> u, fault |-> "no"]
                 ELSE IF c.over THEN [t |-> h, fault |-> "heap"]
                 ELSE IF c.len # len THEN [t |-> h, fault |-> "null"]
                 ELSE [t |-> w, fault |-> "no"] : full \in bitmap64_full(bm, l)}
      <4>1. n \notin h.bitmap
        BY <1>2, <1>7
      <4> QED
        BY <4>1, Zenon DEF Parsed
    <3> HIDE DEF h, bm, nd, c, u, w, l
    <3> QED
      BY <2>1, <3>1, Zenon
  <2>3. r.t = u /\ r.fault = "no"
    <3> HIDE DEF u
    <3> QED
      BY <2>2
  <2>4. u.bitmap = bm /\ u.decoded = h.decoded
    <3> HIDE DEF h, bm, nd
    <3> QED
      BY <1>2 DEF TabSet
  <2> HIDE DEF u, bm, h
  <2> QED
    BY <1>2, <1>3, <1>7, <2>3, <2>4
<1> QED
  BY <1>5, <1>6, <1>7

LEMMA SmallStep == FewSections /\ TypeInv /\ SmallInv /\ [Next]_vars => SmallInv'
<1> SUFFICES ASSUME FewSections, TypeInv, SmallInv, [Next]_vars PROVE SmallInv'
  OBVIOUS
<1> DEFINE Small(t) == t.bitmap \subseteq 0..(Words - 1)
<1>0. tabs \in Seq(TabSet) /\ NoVersion \in Nat /\ NewTable(NoVersion) \in TabSet /\ Small(NewTable(NoVersion))
  BY ConstantFacts, NewTableFacts DEF TypeInv
<1>1. ASSUME NEW ts \in Seq(TabSet), ts = tabs \/ ts = Append(tabs, NewTable(NoVersion))
      PROVE  \A k \in 1..Len(ts) : Small(ts[k])
  <2> HIDE DEF Small
  <2>1. \A k \in 1..Len(tabs) : Small(tabs[k])
    BY DEF SmallInv, Small
  <2> QED
    BY <1>0, <1>1, <2>1
<1>2. ASSUME NEW ts \in Seq(TabSet), tabs' = ts, ts = tabs \/ ts = Append(tabs, NewTable(NoVersion))
      PROVE  SmallInv'
  BY <1>1, <1>2 DEF SmallInv
<1>3. ASSUME NEW ts \in Seq(TabSet), ts = tabs \/ ts = Append(tabs, NewTable(NoVersion)), ts # <<>>,
             NEW u \in TabSet, tabs' = [ts EXCEPT ![Len(ts)] = u], Small(u)
      PROVE  SmallInv'
  <2>1. /\ Len(tabs') = Len(ts) /\ tabs'[Len(ts)] = u
        /\ \A k \in 1..Len(ts) : k # Len(ts) => tabs'[k] = ts[k]
    BY <1>3, LastReplaced
  <2>2. \A k \in 1..Len(ts) : Small(ts[k])
    BY <1>1, <1>3
  <2>3. \A k \in 1..Len(tabs') : Small(tabs'[k])
    <3> HIDE DEF Small
    <3> QED
      BY <1>3, <2>1, <2>2
  <2> QED
    BY <2>3 DEF SmallInv
<1>4. ASSUME NEW x \in Exts, NEW n \in Sections, NEW len \in Lens, Receive(x, n, len) PROVE SmallInv'
  <2>1. len \in Nat /\ Version(issue[x]) \in Nat
    BY ConstantFacts, VersionType DEF TypeInv
  <2>2. ASSUME FiledSome(x, n, len) PROVE SmallInv'
    <3>1. PICK ts, r : Filed(x, n, len, ts, r)
      BY <2>2, Zenon DEF FiledSome
    <3>2. ts \in Seq(TabSet) /\ ts # <<>> /\ (ts = tabs \/ ts = Append(tabs, NewTable(NoVersion)))
      BY <2>1, <3>1, TargetFacts DEF Filed
    <3>3. ts[Len(ts)] \in TabSet /\ ts[Len(ts)].bitmap \subseteq 0..(Words - 1)
      BY <1>1, <3>2, LastOne
    <3>4. n <= last[x]
      BY <1>4 DEF Receive
    <3>5. r.t \in TabSet
      BY <2>1, <3>1, ParsedFacts DEF Filed
    <3>6. Small(r.t)
      BY <3>1, <3>3, <3>4, ParsedSmall DEF Filed
    <3> HIDE DEF Small
    <3> QED
      BY <1>3, <3>1, <3>2, <3>5, <3>6 DEF Filed
  <2> QED
    BY <1>0, <1>2, <1>4, <2>2, ReceiveStep
<1>5. ASSUME NEW v \in 0..(VMod - 1), ReceiveOverlong(v) PROVE SmallInv'
  <2>1. v \in Nat
    OBVIOUS
  <2> QED
    BY <1>0, <1>2, <1>5, <2>1, TargetFacts DEF ReceiveOverlong
<1>6. ASSUME NEW len \in Lens, ReceiveShort(len) PROVE SmallInv'
  <2>1. len \in Nat
    BY ConstantFacts
  <2>2. CASE tabs # <<>> /\ tabs' = [tabs EXCEPT ![Len(tabs)] = Shortened(tabs[Len(tabs)], len)]
    <3> DEFINE t == tabs[Len(tabs)]
               u == Shortened(t, len)
    <3>1. t \in TabSet /\ Small(t)
      BY <1>0, <1>1, <2>2, LastOne
    <3>2. u \in TabSet /\ u.bitmap = t.bitmap
      BY <2>1, <3>1, ShortenedFacts
    <3> HIDE DEF t, u
    <3>3. Small(u)
      BY <3>1, <3>2
    <3> HIDE DEF Small
    <3> QED
      BY <1>0, <1>3, <2>2, <3>2, <3>3 DEF t, u
  <2> QED
    BY <1>0, <1>2, <1>6, <2>2, ShortStep
<1>7. ASSUME NEW x \in Exts, NEW l \in Lasts, NewIssue(x, l) PROVE SmallInv'
  BY <1>0, <1>2, <1>7 DEF NewIssue
<1>8. CASE UNCHANGED vars
  BY <1>0, <1>2, <1>8 DEF vars
<1> QED
  BY <1>4, <1>5, <1>6, <1>7, <1>8 DEF Next

(* Concatenation of a table of at most as many sections as the bitmap has
   words neither overruns the buffer nor leaves a null pointer, with sections
   repeated, reordered and of any length, for one structure or a list of
   them.  The CAT is left out: cat_proc follows a null list before the first
   CAT is parsed. *)
THEOREM ConcatenationSafe ==
  ASSUME FewSections, Kind # "cat"
  PROVE  Spec => []ConcatSafe
<1> DEFINE Inv == TypeInv /\ SmallInv /\ ConcatSafe
<1>1. Init => Inv
  <2> SUFFICES ASSUME Init PROVE Inv
    OBVIOUS
  <2>1. NewTable(0) \in TabSet /\ NewTable(0).bitmap = {}
    BY NewTableFacts
  <2>2. \A k \in 1..Len(tabs) : tabs[k].bitmap = {}
    BY <2>1 DEF Init
  <2>3. SmallInv
    BY <2>2 DEF SmallInv
  <2>4. ConcatSafe
    BY DEF Init, ConcatSafe
  <2> QED
    BY <2>3, <2>4, TypeInit
<1>2. Inv /\ [Next]_vars => Inv'
  <2> SUFFICES ASSUME TypeInv, SmallInv, ConcatSafe, [Next]_vars PROVE ConcatSafe'
    BY TypeStep, SmallStep
  <2>0. NoTable = "no" /\ "no" \notin {"heap", "null"} /\ "free" \notin {"heap", "null"}
    BY DEF NoTable
  <2>1. ASSUME NEW x \in Exts, NEW n \in Sections, NEW len \in Lens, Receive(x, n, len) PROVE ConcatSafe'
    <3>1. Version(issue[x]) \in Nat /\ n <= last[x] /\ tabs \in Seq(TabSet) /\ NoVersion \in Nat
      BY <2>1, VersionType, ConstantFacts DEF TypeInv, Receive
    <3>2. ASSUME FiledSome(x, n, len) PROVE fault' = "no"
      <4>1. PICK ts, r : Filed(x, n, len, ts, r)
        BY <3>2, Zenon DEF FiledSome
      <4>2. ts # <<>> /\ (ts = tabs \/ ts = Append(tabs, NewTable(NoVersion)))
        BY <3>1, <4>1, TargetFacts DEF Filed
      <4>3. NewTable(NoVersion) \in TabSet /\ NewTable(NoVersion).bitmap = {}
        BY <3>1, NewTableFacts
      <4>4. ts[Len(ts)].bitmap \subseteq 0..(Words - 1)
        <5>1. CASE ts = tabs
          BY <3>1, <4>2, <5>1, LastOne DEF SmallInv
        <5>2. CASE ts = Append(tabs, NewTable(NoVersion))
          <6>1. ts[Len(ts)] = NewTable(NoVersion)
            BY <3>1, <4>3, <5>2, Added
          <6> QED
            BY <4>3, <6>1
        <5> QED
          BY <4>2, <5>1, <5>2
      <4> QED
        BY <3>1, <4>1, <4>4, ParsedSmall DEF Filed
    <3>3. fault' = "no"
      BY <2>0, <2>1, <3>2, ReceiveStep
    <3> QED
      BY <2>0, <3>3 DEF ConcatSafe
  <2>2. ASSUME NEW v \in 0..(VMod - 1), ReceiveOverlong(v) PROVE ConcatSafe'
    <3>1. fault' = "no"
      BY <2>0, <2>2 DEF ReceiveOverlong
    <3> QED
      BY <2>0, <3>1 DEF ConcatSafe
  <2>3. ASSUME NEW len \in Lens, ReceiveShort(len) PROVE ConcatSafe'
    <3>1. fault' \in {"no", "free"}
      BY <2>0, <2>3 DEF ReceiveShort
    <3> QED
      BY <2>0, <3>1 DEF ConcatSafe
  <2>4. ASSUME NEW x \in Exts, NEW l \in Lasts, NewIssue(x, l) PROVE ConcatSafe'
    BY <2>4 DEF NewIssue, ConcatSafe
  <2>5. CASE UNCHANGED vars
    BY <2>5 DEF vars, ConcatSafe
  <2> QED
    BY <2>1, <2>2, <2>3, <2>4, <2>5 DEF Next
<1> QED
  BY <1>1, <1>2, PTL DEF Spec

-----------------------------------------------------------------------------
(* Tables of one section are kept *)

(* Versions 0x1F and "no version" are the same number: the first version on
   air is another, and there is more than one. *)
FirstKnown == VMod > 1 /\ First # NoVersion

Single(x, i) == <<<<x, i, 0>>>>

(* Structure t keeps issue d of a table of one section. *)
Holds(t, d) ==
  t.version = Version(d[2]) /\ 0 \in t.bitmap /\ t.decoded \in {Single(d[1], d[2]), ShortData}

(* The current structure is fresh (a refused section made it), has sections
   of the issue on air, or is the previous issue's. *)
Fresh(t) == t.version = NoVersion /\ t.bitmap = {}
Current(t, x) ==
  /\ got[x] # {} /\ t.version = Version(issue[x])
  /\ last[x] = 0 /\ 0 \in t.bitmap => t.decoded \in {Single(x, issue[x]), ShortData}
Previous(t, x) == got[x] = {} /\ issue[x] > 0 /\ t.version = Version(issue[x] - 1)

GotType == got \in [Exts -> SUBSET Sections]

CurrentInv ==
  \A x \in Exts :
    /\ tabs = <<>> => got[x] = {} /\ issue[x] = 0
    /\ tabs # <<>> => \/ Fresh(tabs[Len(tabs)]) \/ Current(tabs[Len(tabs)], x)
                      \/ Previous(tabs[Len(tabs)], x)

DoneInv == \A d \in done : d[3] = 0 => \E k \in 1..Len(tabs) : Holds(tabs[k], d)

KeptInv == TypeInv /\ SmallInv /\ GotType /\ (fault = "no" => CurrentInv /\ DoneInv)

LEMMA PartsSingle ==
  ASSUME NEW x, NEW i
  PROVE  Parts(x, i, 0) = Single(x, i)
<1>1. \A n \in 1..(0 + 1) : n = 1 /\ n - 1 = 0
  OBVIOUS
<1>2. 1..(0 + 1) = 1..1
  OBVIOUS
<1>3. Parts(x, i, 0) = [n \in 1..1 |-> <<x, i, 0>>]
  BY <1>1, <1>2 DEF Parts
<1> QED
  BY <1>3 DEF Single

(* A section of the issue on air goes to its structure or to a fresh one,
   through the wrap of the version number too. *)
LEMMA TargetKept ==
  ASSUME ByVersion, FirstKnown, TypeInv, CurrentInv, NEW x \in Exts
  PROVE  LET v == Version(issue[x])
             t == tabs[Len(tabs)]
         IN  \/ /\ Target(v) = tabs /\ tabs # <<>> /\ t.version = v
                /\ Fresh(t) \/ Current(t, x)
             \/ Target(v) = Append(tabs, NewTable(NoVersion))
<1> DEFINE v == Version(issue[x])
           t == tabs[Len(tabs)]
           cur == IF tabs = <<>> THEN NoVersion ELSE t.version
<1> SUFFICES \/ Target(v) = tabs /\ tabs # <<>> /\ t.version = v /\ (Fresh(t) \/ Current(t, x))
             \/ Target(v) = Append(tabs, NewTable(NoVersion))
  OBVIOUS
<1>0. Kind # "single" /\ VMod > 1 /\ 0 # 1
  BY DEF ByVersion, FirstKnown
<1>1. /\ check_version(v, cur) = 1 => Target(v) = Append(tabs, NewTable(NoVersion))
      /\ check_version(v, cur) = 0 => Target(v) = tabs
  <2> DEFINE app == Append(tabs, NewTable(NoVersion))
  <2>1. Target(v) = IF Kind = "single" THEN tabs
                    ELSE IF check_version(v, cur) = 1 THEN app
                    ELSE IF check_version(v, cur) = 0 THEN tabs ELSE <<>>
    BY Zenon DEF Target
  <2> HIDE DEF app, v, cur
  <2>2. /\ check_version(v, cur) = 1 => Target(v) = app
        /\ check_version(v, cur) = 0 => Target(v) = tabs
    BY <1>0, <2>1
  <2> QED
    BY <2>2 DEF app
<1>2. issue[x] \in Nat
  BY DEF TypeInv
<1>3. v = NoVersion \/ check_version(v, NoVersion) = 1
  BY DEF check_version
<1>4. check_version(v, v) = 0
  BY DEF check_version
<1>5. CASE tabs = <<>>
  <2>1. issue[x] = 0
    BY <1>5 DEF CurrentInv
  <2>2. First \in Nat /\ VMod \in Nat /\ First < VMod /\ First + 0 = First
    BY TableConstants
  <2>3. v = First
    BY <2>1, <2>2, ModSmall DEF Version
  <2>4. check_version(v, cur) = 1
    BY <1>3, <1>5, <2>3 DEF FirstKnown
  <2> QED
    BY <1>1, <2>4
<1>6. CASE tabs # <<>>
  <2>1. cur = t.version /\ (Fresh(t) \/ Current(t, x) \/ Previous(t, x))
    BY <1>6 DEF CurrentInv
  <2> HIDE DEF v
  <2>2. CASE Fresh(t)
    <3>1. cur = NoVersion /\ t.version = NoVersion
      BY <2>1, <2>2 DEF Fresh
    <3> QED
      BY <1>1, <1>3, <1>4, <1>6, <2>2, <3>1
  <2>3. CASE Current(t, x)
    <3>1. cur = v /\ t.version = v
      BY <2>1, <2>3 DEF Current, v
    <3> QED
      BY <1>1, <1>4, <1>6, <2>3, <3>1
  <2>4. CASE Previous(t, x)
    <3>1. issue[x] > 0 /\ cur = Version(issue[x] - 1)
      BY <2>1, <2>4 DEF Previous
    <3>2. issue[x] - 1 \in Nat /\ (issue[x] - 1) + 1 = issue[x]
      BY <1>2, <3>1
    <3>3. check_version(Version((issue[x] - 1) + 1), Version(issue[x] - 1)) = 1
      BY <1>0, <3>2, NextVersion
    <3>4. check_version(v, cur) = 1
      BY <3>1, <3>2, <3>3 DEF v
    <3> QED
      BY <1>1, <3>4
  <2> QED
    BY <2>1, <2>2, <2>3, <2>4
<1> QED
  BY <1>5, <1>6

(* What becomes of the structures when a section is received *)
LEMMA ReceiveKeeps ==
  ASSUME ByVersion, OneSubTable, FewSections, FirstKnown, KeptInv,
         NEW x \in Exts, NEW n \in Sections, NEW len \in Lens, Receive(x, n, len)
  PROVE  KeptInv'
<1> DEFINE v == Version(issue[x])
<1>0. /\ TypeInv /\ SmallInv /\ GotType /\ CurrentInv /\ DoneInv
      /\ tabs \in Seq(TabSet) /\ issue[x] \in Nat /\ last[x] \in Nat /\ len \in Nat /\ NoVersion \in Nat
      /\ n \in Nat /\ n <= last[x] /\ v \in Nat
  <2>1. TypeInv /\ SmallInv /\ GotType /\ CurrentInv /\ DoneInv
    BY DEF KeptInv, Receive
  <2> QED
    BY <2>1, ConstantFacts, VersionType DEF TypeInv, Receive
<1>1. /\ issue' = issue /\ last' = last /\ got' = [got EXCEPT ![x] = @ \cup {n}]
      /\ done' \subseteq done \cup {<<x, issue[x], last[x]>>}
  BY DEF Receive
<1>2. GotType' /\ got'[x] # {}
  BY <1>0, <1>1 DEF GotType
<1>3. TypeInv' /\ SmallInv'
  <2>1. [Next]_vars
    BY DEF Next
  <2> QED
    BY <1>0, <2>1, TypeStep, SmallStep
<1>4. Target(v) # <<>>
  BY <1>0, TargetKept
<1>5. PICK ts, r : Filed(x, n, len, ts, r)
  <2>1. FiledSome(x, n, len)
    BY <1>0, <1>4, ReceiveStep
  <2> QED
    BY <2>1, Zenon DEF FiledSome
<1> DEFINE t == ts[Len(ts)]
           u == r.t
<1>6. ts = Target(v) /\ ts # <<>> /\ ts \in Seq(TabSet) /\ t \in TabSet /\ r \in Parsed(t, x, n, len)
  BY <1>5 DEF Filed
<1>7. /\ Fresh(t) \/ (Current(t, x) /\ t.version = v)
      /\ t.bitmap \subseteq 0..(Words - 1)
      /\ \/ ts = tabs /\ t.version = v
         \/ Len(ts) = Len(tabs) + 1 /\ \A k \in 1..Len(tabs) : ts[k] = tabs[k]
  <2>1. CASE ts = tabs /\ t.version = v /\ (Fresh(t) \/ Current(t, x))
    <3>1. t.bitmap \subseteq 0..(Words - 1)
      BY <1>0, <1>6, <2>1, LastOne DEF SmallInv
    <3> QED
      BY <2>1, <3>1
  <2>2. CASE ts = Append(tabs, NewTable(NoVersion))
    <3>1. /\ NewTable(NoVersion) \in TabSet /\ NewTable(NoVersion).version = NoVersion
          /\ NewTable(NoVersion).bitmap = {}
      BY <1>0, NewTableFacts
    <3>2. t = NewTable(NoVersion) /\ Len(ts) = Len(tabs) + 1 /\ \A k \in 1..Len(tabs) : ts[k] = tabs[k]
      BY <1>0, <2>2, <3>1, Added
    <3> QED
      BY <3>1, <3>2 DEF Fresh
  <2> QED
    BY <1>0, <1>6, <2>1, <2>2, TargetKept
<1>8. /\ u \in TabSet /\ u.version = v /\ t.bitmap \subseteq u.bitmap
      /\ n \in u.bitmap
      /\ 0 \in t.bitmap => u.decoded = t.decoded
      /\ 0 \notin t.bitmap /\ last[x] = 0 => u.decoded = Single(x, issue[x])
  <2>1. u \in TabSet /\ u.version = v /\ (u.bitmap = t.bitmap \/ u.bitmap = t.bitmap \cup {n})
    BY <1>0, <1>6, ParsedFacts
  <2>2. /\ n \in u.bitmap
        /\ 0 \in t.bitmap => u.decoded = t.decoded
        /\ 0 \notin t.bitmap /\ last[x] = 0 => u.decoded = <<<<x, issue[x], 0>>>>
    BY <1>0, <1>6, <1>7, ParsedSmall
  <2> QED
    BY <2>1, <2>2 DEF Single
<1>9. /\ tabs' # <<>> /\ Len(tabs') = Len(ts) /\ tabs'[Len(tabs')] = u
      /\ \A k \in 1..Len(ts) : k # Len(ts) => tabs'[k] = ts[k]
      /\ Len(ts) \in 1..Len(ts)
  BY <1>5, <1>6, <1>8, LastReplaced, LastOne DEF Filed
<1> HIDE DEF t, u, v
<1>10. last[x] = 0 /\ 0 \in u.bitmap => u.decoded \in {Single(x, issue[x]), ShortData}
  BY <1>7, <1>8 DEF Fresh, Current
<1>11. CurrentInv'
  <2>1. (Current(u, x))'
    <3>1. /\ u' = u
      BY DEF u
    <3>2. got'[x] # {} /\ u.version = Version(issue'[x])
      BY <1>1, <1>2, <1>8 DEF v
    <3> QED
      BY <1>1, <1>10, <3>1, <3>2 DEF Current
  <2>2. \A y \in Exts : y = x
    BY DEF OneSubTable
  <2> QED
    BY <1>9, <2>1, <2>2 DEF CurrentInv
<1>12. DoneInv'
  <2> SUFFICES ASSUME NEW d \in done', d[3] = 0 PROVE \E k \in 1..Len(tabs') : Holds(tabs'[k], d)
    BY DEF DoneInv, Holds
  <2>1. CASE d \in done
    <3>1. PICK k \in 1..Len(tabs) : Holds(tabs[k], d)
      BY <1>0, <2>1 DEF DoneInv
    <3>2. CASE ts = tabs /\ t.version = v /\ k = Len(tabs)
      <4>1. tabs[k] = t
        BY <3>2 DEF t
      <4>2. Holds(u, d)
        BY <1>8, <3>1, <3>2, <4>1 DEF Holds
      <4> QED
        BY <1>9, <4>2
    <3>3. CASE ts = tabs /\ k # Len(tabs)
      <4>1. k \in 1..Len(tabs') /\ tabs'[k] = tabs[k]
        BY <1>9, <3>3
      <4> QED
        BY <3>1, <4>1
    <3>4. CASE Len(ts) = Len(tabs) + 1 /\ \A j \in 1..Len(tabs) : ts[j] = tabs[j]
      <4>1. k \in 1..Len(ts) /\ k # Len(ts)
        BY <1>0, <3>4
      <4>2. k \in 1..Len(tabs') /\ tabs'[k] = tabs[k]
        BY <1>9, <3>4, <4>1
      <4> QED
        BY <3>1, <4>2
    <3> QED
      BY <1>7, <3>2, <3>3, <3>4
  <2>2. CASE d = <<x, issue[x], last[x]>>
    <3>1. d[1] = x /\ d[2] = issue[x] /\ d[3] = last[x]
      BY <2>2
    <3>2. last[x] = 0 /\ n = 0
      BY <1>0, <3>1
    <3>3. Holds(u, d)
      BY <1>8, <1>10, <3>1, <3>2 DEF Holds, v
    <3> QED
      BY <1>9, <3>3
  <2> QED
    BY <1>1, <2>1, <2>2
<1> QED
  BY <1>2, <1>3, <1>11, <1>12 DEF KeptInv

(* A section without the long header replaces the data, nothing else. *)
LEMMA ShortKeeps ==
  ASSUME OneSubTable, FewSections, KeptInv, NEW len \in Lens, ReceiveShort(len)
  PROVE  KeptInv'
<1>0. /\ TypeInv /\ SmallInv /\ GotType /\ CurrentInv /\ DoneInv /\ tabs \in Seq(TabSet) /\ len \in Nat
  BY ConstantFacts DEF KeptInv, ReceiveShort, TypeInv
<1>1. issue' = issue /\ last' = last /\ got' = got /\ done' = done
  BY DEF ReceiveShort
<1>2. TypeInv' /\ SmallInv' /\ GotType'
  <2>1. [Next]_vars
    BY DEF Next
  <2> QED
    BY <1>0, <1>1, <2>1, TypeStep, SmallStep DEF GotType
<1>3. CASE tabs' = tabs
  <2>1. CurrentInv'
    BY <1>0, <1>1, <1>3 DEF CurrentInv, Current, Previous
  <2>2. DoneInv'
    BY <1>0, <1>1, <1>3 DEF DoneInv
  <2> QED
    BY <1>2, <2>1, <2>2 DEF KeptInv
<1>4. CASE tabs # <<>> /\ tabs' = [tabs EXCEPT ![Len(tabs)] = Shortened(tabs[Len(tabs)], len)]
  <2> DEFINE t == tabs[Len(tabs)]
             u == Shortened(t, len)
  <2>1. t \in TabSet /\ Len(tabs) \in 1..Len(tabs)
    BY <1>0, <1>4, LastOne
  <2>2. u \in TabSet /\ u.version = t.version /\ u.bitmap = t.bitmap /\ u.decoded = ShortData
    BY <1>0, <2>1, ShortenedFacts
  <2>3. /\ tabs' # <<>> /\ Len(tabs') = Len(tabs) /\ tabs'[Len(tabs')] = u
        /\ \A k \in 1..Len(tabs) : k # Len(tabs) => tabs'[k] = tabs[k]
    BY <1>0, <1>4, <2>2, LastReplaced
  <2>4. CurrentInv'
    <3> DEFINE w == tabs'[Len(tabs')]
    <3>1. w.version = t.version /\ w.bitmap = t.bitmap /\ w.decoded = ShortData
      BY <2>2, <2>3
    <3>2. \A x \in Exts : Fresh(t) \/ Current(t, x) \/ Previous(t, x)
      BY <1>0, <1>4 DEF CurrentInv
    <3> HIDE DEF w, t
    <3>3. \A x \in Exts :
            \/ w.version = NoVersion /\ w.bitmap = {}
            \/ /\ got'[x] # {} /\ w.version = Version(issue'[x])
               /\ last'[x] = 0 /\ 0 \in w.bitmap => w.decoded \in {Single(x, issue'[x]), ShortData}
            \/ got'[x] = {} /\ issue'[x] > 0 /\ w.version = Version(issue'[x] - 1)
      BY <1>1, <3>1, <3>2 DEF Fresh, Current, Previous
    <3> QED
      BY <2>3, <3>3 DEF CurrentInv, Fresh, Current, Previous, w
  <2>5. DoneInv'
    <3> SUFFICES ASSUME NEW d \in done, d[3] = 0 PROVE \E k \in 1..Len(tabs') : Holds(tabs'[k], d)
      BY <1>1 DEF DoneInv, Holds
    <3>1. PICK k \in 1..Len(tabs) : Holds(tabs[k], d)
      BY <1>0 DEF DoneInv
    <3>2. CASE k = Len(tabs)
      <4>1. Holds(t, d)
        BY <3>1, <3>2
      <4> HIDE DEF t, u
      <4>2. Holds(u, d)
        BY <2>2, <4>1 DEF Holds
      <4> QED
        BY <2>1, <2>3, <4>2
    <3>3. CASE k # Len(tabs)
      BY <2>3, <3>1, <3>3
    <3> QED
      BY <3>2, <3>3
  <2> QED
    BY <1>2, <2>4, <2>5 DEF KeptInv
<1> QED
  BY <1>0, <1>3, <1>4, ShortStep

(* A refused section leaves the structures alone or adds a fresh one. *)
LEMMA OverlongKeeps ==
  ASSUME FewSections, KeptInv, NEW v \in 0..(VMod - 1), ReceiveOverlong(v)
  PROVE  KeptInv'
<1>0. /\ TypeInv /\ SmallInv /\ GotType /\ CurrentInv /\ DoneInv /\ tabs \in Seq(TabSet) /\ v \in Nat
      /\ NoVersion \in Nat
  BY ConstantFacts DEF KeptInv, ReceiveOverlong, TypeInv
<1>1. issue' = issue /\ last' = last /\ got' = got /\ done' = done
  BY DEF ReceiveOverlong
<1>2. TypeInv' /\ SmallInv' /\ GotType'
  <2>1. [Next]_vars
    BY DEF Next
  <2> QED
    BY <1>0, <1>1, <2>1, TypeStep, SmallStep DEF GotType
<1>3. tabs' = tabs \/ tabs' = Append(tabs, NewTable(NoVersion))
  BY <1>0, TargetFacts DEF ReceiveOverlong
<1>4. CASE tabs' = tabs
  <2>1. CurrentInv'
    BY <1>0, <1>1, <1>4 DEF CurrentInv, Current, Previous
  <2>2. DoneInv'
    BY <1>0, <1>1, <1>4 DEF DoneInv
  <2> QED
    BY <1>2, <2>1, <2>2 DEF KeptInv
<1>5. CASE tabs' = Append(tabs, NewTable(NoVersion))
  <2>1. /\ NewTable(NoVersion) \in TabSet /\ NewTable(NoVersion).version = NoVersion
        /\ NewTable(NoVersion).bitmap = {}
    BY <1>0, NewTableFacts
  <2>2. /\ tabs' # <<>> /\ Len(tabs') = Len(tabs) + 1 /\ tabs'[Len(tabs')] = NewTable(NoVersion)
        /\ \A k \in 1..Len(tabs) : tabs'[k] = tabs[k]
    BY <1>0, <1>5, <2>1, Added
  <2>3. CurrentInv'
    <3>1. Fresh(tabs'[Len(tabs')])
      BY <2>1, <2>2 DEF Fresh
    <3> QED
      BY <2>2, <3>1 DEF CurrentInv
  <2>4. DoneInv'
    <3>1. \A k \in 1..Len(tabs) : k \in 1..Len(tabs') /\ tabs'[k] = tabs[k]
      BY <1>0, <2>2
    <3> SUFFICES ASSUME NEW d \in done, d[3] = 0 PROVE \E k \in 1..Len(tabs') : Holds(tabs'[k], d)
      BY <1>1 DEF DoneInv, Holds
    <3>2. PICK k \in 1..Len(tabs) : Holds(tabs[k], d)
      BY <1>0 DEF DoneInv
    <3> QED
      BY <3>1, <3>2
  <2> QED
    BY <1>2, <2>3, <2>4 DEF KeptInv
<1> QED
  BY <1>3, <1>4, <1>5

(* When the next issue comes, the current structure is the previous one's. *)
LEMMA NewIssueKeeps ==
  ASSUME OneSubTable, FewSections, KeptInv, NEW x \in Exts, NEW l \in Lasts, NewIssue(x, l)
  PROVE  KeptInv'
<1>0. TypeInv /\ SmallInv /\ GotType
  BY DEF KeptInv
<1>1. TypeInv' /\ SmallInv'
  <2>1. [Next]_vars
    BY DEF Next
  <2> QED
    BY <1>0, <2>1, TypeStep, SmallStep
<1>2. /\ tabs' = tabs /\ done' = done /\ fault' = fault
      /\ got[x] = 0..last[x] /\ got'[x] = {} /\ issue'[x] = issue[x] + 1
      /\ GotType' /\ issue[x] \in Nat /\ last[x] \in Nat
  BY <1>0, ConstantFacts DEF NewIssue, GotType, TypeInv
<1>3. got[x] # {}
  <2>1. 0 \in 0..last[x]
    BY <1>2
  <2> QED
    BY <1>2, <2>1
<1>4. ASSUME fault = "no" PROVE CurrentInv'
  <2> DEFINE t == tabs[Len(tabs)]
  <2>1. CurrentInv
    BY <1>4 DEF KeptInv
  <2>2. tabs # <<>> /\ (Fresh(t) \/ Current(t, x))
    BY <1>3, <2>1 DEF CurrentInv, Previous
  <2>3. issue'[x] > 0 /\ issue'[x] - 1 = issue[x]
    BY <1>2
  <2> HIDE DEF t
  <2>4. Fresh(t) \/ (got'[x] = {} /\ issue'[x] > 0 /\ t.version = Version(issue'[x] - 1))
    BY <1>2, <2>2, <2>3 DEF Current
  <2>5. \A y \in Exts : y = x
    BY DEF OneSubTable
  <2>6. t = tabs'[Len(tabs')] /\ tabs' # <<>>
    BY <1>2, <2>2 DEF t
  <2> QED
    BY <2>4, <2>5, <2>6 DEF CurrentInv, Fresh, Previous
<1>5. ASSUME fault = "no" PROVE DoneInv'
  BY <1>2, <1>5 DEF KeptInv, DoneInv
<1> QED
  BY <1>1, <1>2, <1>4, <1>5 DEF KeptInv

(* Every issue of a PAT or CAT of one section that was received is decoded
   and still there after any number of later versions, through the wrap of
   the 5-bit version number, with sections repeated and refused ones in
   between; only a section without the long header takes the data's place.
   Where the first version is 0x1F or tables have more sections than the
   bitmap has words the code does not promise it. *)
THEOREM VersionsKept ==
  ASSUME ByVersion, OneSubTable, FewSections, FirstKnown
  PROVE  Spec => []OneSectionKept
<1>1. Init => KeptInv
  <2> SUFFICES ASSUME Init PROVE KeptInv
    OBVIOUS
  <2>1. tabs = <<>> /\ done = {} /\ got = [x \in Exts |-> {}] /\ issue = [x \in Exts |-> 0]
    BY DEF Init, ByVersion
  <2>2. SmallInv /\ GotType /\ CurrentInv /\ DoneInv
    BY <2>1 DEF SmallInv, GotType, CurrentInv, DoneInv
  <2> QED
    BY <2>2, TypeInit DEF KeptInv
<1>2. KeptInv /\ [Next]_vars => KeptInv'
  <2> SUFFICES ASSUME KeptInv, [Next]_vars PROVE KeptInv'
    OBVIOUS
  <2>1. CASE UNCHANGED vars
    BY <2>1 DEF vars, KeptInv, TypeInv, SmallInv, GotType, CurrentInv, Current, Previous, DoneInv
  <2> QED
    BY <2>1, ReceiveKeeps, OverlongKeeps, ShortKeeps, NewIssueKeeps DEF Next
<1>3. KeptInv => OneSectionKept
  <2> SUFFICES ASSUME KeptInv, fault = "no", NEW d \in done, d[3] = 0 PROVE Decoded(d) \/ Replaced(d)
    BY DEF OneSectionKept
  <2>1. PICK k \in 1..Len(tabs) : Holds(tabs[k], d)
    BY DEF KeptInv, DoneInv
  <2>2. Parts(d[1], d[2], d[3]) = Single(d[1], d[2])
    BY PartsSingle
  <2> QED
    BY <2>1, <2>2 DEF Holds, Decoded, Replaced
<1> QED
  BY <1>1, <1>2, <1>3, PTL DEF Spec

-----------------------------------------------------------------------------
(***************************************************************************)
(* The generated descriptor parsers.                                       *)
(***************************************************************************)


(* The bit fields and variable members in front of member j *)
LvBefore(L, j) == {i \in 1..Len(L) : i < j /\ L[i].k = "lv"}

(* What the parser keeps *)
DesTypes ==
  /\ tag \in Tags /\ length \in Sizes
  /\ at \in 1..(Len(Layout) + 1)
  /\ bytes_off \in Int /\ bits_off \in 0..7 /\ ent \in Int
  /\ num \in Nat /\ nomem \in BOOLEAN /\ fits \in BOOLEAN
  /\ \A f \in DOMAIN vals : vals[f] \in Nat

(* The offset in bits is that of the layout. *)
DesBits == tag \notin Uneven => bits_off = BitsBefore(Layout, at) % 8

(* The pointers set are those of the members passed; a parser that stopped
   early had no memory. *)
DesLvs ==
  /\ lvs = Cardinality(LvBefore(Layout, at))
  /\ pc = "parsed" /\ ~nomem => at = Len(Layout) + 1

(* Inside a loop of fixed elements that tile what is left, they still do. *)
DesTiles ==
  pc = "parse" /\ at <= Len(Layout) /\ Cur.k = "last" =>
    /\ ent >= 0 /\ bytes_off >= 0
    /\ ent <= End /\ (End - ent) % Cur.w = 0 => bytes_off <= End /\ (End - bytes_off) % Cur.w = 0

(* Only the members that may be lowered by an error code go below zero. *)
DesForward == (\E j \in DOMAIN Layout : Layout[j].k = "last") => bytes_off >= 0

DesInv == /\ DesTypes /\ DesBits /\ DesLvs /\ DesTiles /\ DesForward
          /\ TrailingLoop /\ GuardedOvershoot /\ FreeSound

(* A layout is a sequence. *)
LEMMA LayoutLength ==
  ASSUME tag \in Tags
  PROVE  Len(Layout) \in Nat /\ DOMAIN Layout = 1..Len(Layout)
  BY LayoutsAssumption DEF WellMade, Layout

(* What LayoutsAssumption says of the members of the layout of a tag. *)
LEMMA LayoutFacts ==
  ASSUME tag \in Tags
  PROVE  /\ Len(Layout) \in Nat /\ DOMAIN Layout = 1..Len(Layout)
         /\ \A j \in 1..Len(Layout) :
              /\ Layout[j].k \in Kinds /\ Layout[j].w \in Nat /\ Layout[j].n \in Nat
              /\ \A v \in Layout[j].V : v \in Nat
              /\ \A r \in Layout[j].R : r \in Nat
              /\ Layout[j].k = "m" => Layout[j].n \in 1..64
              /\ Layout[j].k = "m1" => Layout[j].w <= 4
              /\ Layout[j].k = "last" => Layout[j].w > 0
              /\ Layout[j].k = "lv" => Layout[j].n > 0
              /\ Layout[j].k = "subloop" => j = Len(Layout)
              /\ Layout[j].k = "subif" /\ Layout[j].c \in {"compat", "module"} =>
                   \A i \in DOMAIN Layout : Layout[i].k # "last"
  BY LayoutsAssumption DEF WellMade, Layout


(* The bits in front of a member are finitely many. *)
LEMMA FieldBitsFinite ==
  ASSUME NEW L, Len(L) \in Nat, NEW j \in Nat
  PROVE  IsFiniteSet(FieldBits(L, j)) /\ BitsBefore(L, j) \in Nat
<1>0. 1 \in Int /\ 64 \in Int /\ Len(L) \in Int
  OBVIOUS
<1>a. IsFiniteSet(1..Len(L))
  BY ONLY <1>0, FS_Interval
<1>b. IsFiniteSet(1..64)
  BY ONLY <1>0, FS_Interval
<1>1. IsFiniteSet(1..Len(L)) /\ IsFiniteSet(1..64)
  BY <1>a, <1>b
<1>2. IsFiniteSet((1..Len(L)) \X (1..64))
  BY <1>1, FS_Product
<1>3. IsFiniteSet(FieldBits(L, j))
  BY <1>2, FS_Subset DEF FieldBits
<1> QED
  BY <1>3, FS_CardinalityType DEF BitsBefore

(* No member is in front of the first. *)
LEMMA NoBitsBefore ==
  ASSUME NEW L, Len(L) \in Nat
  PROVE  BitsBefore(L, 1) = 0
<1>1. \A b \in (1..Len(L)) \X (1..64) : b[1] \in 1..Len(L)
  OBVIOUS
<1>2. \A i \in 1..Len(L) : ~(i < 1)
  OBVIOUS
<1>3. FieldBits(L, 1) = {}
  BY <1>1, <1>2, Zenon DEF FieldBits
<1> QED
  BY <1>3, FS_EmptySet DEF BitsBefore

(* A member adds the bits it has. *)
LEMMA BitsStep ==
  ASSUME NEW L, Len(L) \in Nat, NEW j \in 1..Len(L),
         L[j].k = "m" => L[j].n \in 1..64
  PROVE  BitsBefore(L, j + 1) = BitsBefore(L, j) + (IF L[j].k = "m" THEN L[j].n ELSE 0)
<1> DEFINE P == (1..Len(L)) \X (1..64)
<1>0. \A b \in P : b[1] \in 1..Len(L) /\ b[2] \in 1..64 /\ b = <<b[1], b[2]>>
  OBVIOUS
<1>1. \A i \in 1..Len(L) : i < j + 1 <=> i < j \/ i = j
  OBVIOUS
<1>2. CASE L[j].k # "m"
  <2>1. FieldBits(L, j + 1) = FieldBits(L, j)
    BY <1>0, <1>1, <1>2, Zenon DEF FieldBits
  <2>2. BitsBefore(L, j) \in Nat
    BY FieldBitsFinite
  <2> QED
    BY <1>2, <2>1, <2>2 DEF BitsBefore
<1>3. CASE L[j].k = "m"
  <2> DEFINE n == L[j].n
             B == {j} \X (1..n)
  <2>0. n \in 1..64
    BY ONLY <1>3, L[j].k = "m" => L[j].n \in 1..64, Zenon
  <2> HIDE DEF n
  <2>1. n \in Nat /\ n \in 1..64 /\ n >= 1 /\ n <= 64
    BY ONLY <2>0
  <2>2. IsFiniteSet({j}) /\ Cardinality({j}) = 1
    BY ONLY FS_Singleton
  <2>a. 1 \in Int /\ n \in Int /\ ~(1 > n) /\ n - 1 + 1 = n
    BY ONLY <2>1
  <2>3. IsFiniteSet(1..n) /\ Cardinality(1..n) = n
    <3>1. IsFiniteSet(1..n) /\ Cardinality(1..n) = IF 1 > n THEN 0 ELSE n - 1 + 1
      BY ONLY <2>a, FS_Interval
    <3> QED
      BY <3>1, <2>a
  <2>4. IsFiniteSet(B) /\ Cardinality(B) = n
    <3>1. IsFiniteSet(B) /\ Cardinality(B) = Cardinality({j}) * Cardinality(1..n)
      BY ONLY <2>2, <2>3, FS_Product
    <3>2. Cardinality(B) = 1 * n
      BY <3>1, <2>2, <2>3
    <3> QED
      BY <3>1, <3>2, <2>1
  <2>5. \A x \in 1..64 : x <= n <=> x \in 1..n
    BY <2>1
  <2>6. \A x \in 1..n : x \in 1..64
    BY ONLY <2>1
  <2>7. FieldBits(L, j + 1) = FieldBits(L, j) \cup B
    <3>1. ASSUME NEW b \in FieldBits(L, j + 1) PROVE b \in FieldBits(L, j) \cup B
      <4>1. b \in P /\ (b[1] < j \/ b[1] = j) /\ L[b[1]].k = "m" /\ b[2] <= L[b[1]].n
        BY <1>0, <1>1, Zenon DEF FieldBits
      <4>2. CASE b[1] < j
        BY <4>1, <4>2, Zenon DEF FieldBits
      <4>3. CASE b[1] = j
        <5>1. b[2] \in 1..n /\ b = <<b[1], b[2]>>
          BY <1>0, <4>1, <4>3, <2>5, Zenon DEF n
        <5> QED
          BY <5>1, <4>3
      <4> QED
        BY <4>1, <4>2, <4>3
    <3>2. ASSUME NEW b \in FieldBits(L, j) PROVE b \in FieldBits(L, j + 1)
      BY <1>0, <1>1, Zenon DEF FieldBits
    <3>3. ASSUME NEW b \in B PROVE b \in FieldBits(L, j + 1)
      <4>1. PICK x \in 1..n : b = <<j, x>>
        OBVIOUS
      <4>2. b[1] = j /\ b[2] = x
        BY <4>1
      <4>3. x \in 1..64 /\ x <= n
        BY <2>6, <2>5
      <4>4. b \in P
        BY <4>1, <4>3
      <4>5. j < j + 1
        OBVIOUS
      <4> QED
        BY <1>3, <4>2, <4>3, <4>4, <4>5, Zenon DEF FieldBits, n
    <3> QED
      BY <3>1, <3>2, <3>3, Zenon
  <2>8. FieldBits(L, j) \cap B = {}
    <3>1. \A b \in FieldBits(L, j) : b[1] < j
      BY DEF FieldBits
    <3>2. \A b \in B : b[1] = j
      OBVIOUS
    <3>3. ~(j < j)
      OBVIOUS
    <3> QED
      BY <3>1, <3>2, <3>3, Zenon
  <2>9. IsFiniteSet(FieldBits(L, j)) /\ BitsBefore(L, j) \in Nat
    BY FieldBitsFinite
  <2>10. Cardinality(FieldBits(L, j) \cup B) =
           Cardinality(FieldBits(L, j)) + Cardinality(B) - Cardinality(FieldBits(L, j) \cap B)
    BY ONLY <2>4, <2>9, FS_Union
  <2>11. Cardinality(FieldBits(L, j) \cap B) = 0
    BY <2>8, FS_EmptySet
  <2>12. BitsBefore(L, j + 1) = BitsBefore(L, j) + n - 0
    BY <2>4, <2>7, <2>10, <2>11, Zenon DEF BitsBefore
  <2>13. BitsBefore(L, j + 1) = BitsBefore(L, j) + n
    BY ONLY <2>1, <2>9, <2>12
  <2> QED
    BY <1>3, <2>13, Zenon DEF n
<1> QED
  BY <1>2, <1>3

(* A variable member adds one to those passed. *)
LEMMA LvStep ==
  ASSUME NEW L, Len(L) \in Nat, NEW j \in 1..Len(L)
  PROVE  /\ Cardinality(LvBefore(L, j)) \in Nat
         /\ Cardinality(LvBefore(L, j + 1)) =
              Cardinality(LvBefore(L, j)) + (IF L[j].k = "lv" THEN 1 ELSE 0)
<1>0. 1 \in Int /\ Len(L) \in Int
  OBVIOUS
<1>1. IsFiniteSet(1..Len(L))
  BY ONLY <1>0, FS_Interval
<1>2. IsFiniteSet(LvBefore(L, j))
  BY <1>1, FS_Subset DEF LvBefore
<1>3. Cardinality(LvBefore(L, j)) \in Nat
  BY <1>2, FS_CardinalityType
<1>4. j \notin LvBefore(L, j)
  BY DEF LvBefore
<1>5. LvBefore(L, j + 1) = IF L[j].k = "lv" THEN LvBefore(L, j) \cup {j} ELSE LvBefore(L, j)
  BY DEF LvBefore
<1>6. Cardinality(LvBefore(L, j) \cup {j}) = Cardinality(LvBefore(L, j)) + 1
  BY ONLY <1>2, <1>4, FS_AddElement
<1> QED
  BY <1>3, <1>5, <1>6

(* The remainder of a sum *)
LEMMA BitsMod ==
  ASSUME NEW a \in Nat, NEW b \in Nat
  PROVE  ((a % 8) + b) % 8 = (a + b) % 8 /\ a % 8 \in 0..7
  OBVIOUS


(* A member that is passed: the next one is in the layout or behind it, and
   the values kept are numbers. *)
LEMMA PassMember ==
  ASSUME DesTypes, at <= Len(Layout), NEW read, Pass(read), UNCHANGED <<tag, length>>
  PROVE  /\ at' = at + 1 /\ at \in 1..Len(Layout) /\ at' \in 1..(Len(Layout) + 1)
         /\ Layout' = Layout /\ End' = End /\ End \in Nat
         /\ \A f \in DOMAIN vals' : vals'[f] \in Nat
<1>1. tag \in Tags /\ at \in 1..(Len(Layout) + 1) /\ length \in Sizes
  BY DEF DesTypes
<1>2. Len(Layout) \in Nat /\ at \in 1..Len(Layout)
  BY <1>1, LayoutLength
<1>3. \A v \in Cur.V : v \in Nat
  BY <1>1, <1>2, LayoutFacts DEF Cur
<1>4. length \in Nat
  BY <1>1, SizesAssumption
<1>5. \A f \in DOMAIN vals' : vals'[f] \in Nat
  <2>1. CASE ~(read /\ Cur.f # "")
    BY <2>1 DEF Pass, DesTypes
  <2>2. CASE read /\ Cur.f # ""
    <3>1. PICK v \in Cur.V : vals' = [f \in DOMAIN vals \cup {Cur.f} |-> IF f = Cur.f THEN v ELSE vals[f]]
      BY <2>2 DEF Pass
    <3>2. v \in Nat
      BY <1>3
    <3> QED
      BY <3>1, <3>2 DEF DesTypes
  <2> QED
    BY <2>1, <2>2
<1>6. Layout' = Layout /\ End' = End
  BY DEF Layout, End
<1>7. End \in Nat
  BY <1>4 DEF End
<1>8. at' = at + 1
  BY DEF Pass
<1>9. at' \in 1..(Len(Layout) + 1)
  BY <1>2, <1>8
<1> QED
  BY <1>2, <1>5, <1>6, <1>7, <1>8, <1>9, Zenon

(* What a member other than a bit field leaves: the offset in bits. *)
LEMMA PassBits ==
  ASSUME DesTypes, DesBits, tag' = tag, at \in 1..Len(Layout), at' = at + 1,
         bits_off' = (bits_off + (IF Cur.k = "m" THEN Cur.n ELSE 0)) % 8
  PROVE  DesBits' /\ bits_off' \in 0..7
<1>1. tag \in Tags /\ bits_off \in 0..7
  BY DEF DesTypes
<1> DEFINE n == IF Cur.k = "m" THEN Cur.n ELSE 0
           a == BitsBefore(Layout, at)
<1>2. Len(Layout) \in Nat /\ (Layout[at].k = "m" => Layout[at].n \in 1..64) /\ Layout[at].n \in Nat
  BY <1>1, LayoutFacts
<1>3. BitsBefore(Layout, at + 1) = a + n
  BY <1>2, BitsStep DEF Cur
<1>4. a \in Nat /\ n \in Nat
  BY <1>2, FieldBitsFinite DEF Cur
<1>5. Layout' = Layout
  BY DEF Layout
<1>6. bits_off' = (bits_off + n) % 8
  OBVIOUS
<1> HIDE DEF n, a
<1>7. bits_off' \in 0..7
  BY <1>1, <1>4, <1>6
<1>8. ASSUME tag \notin Uneven PROVE bits_off' = (a + n) % 8
  <2>1. bits_off = a % 8
    BY <1>8 DEF DesBits, a
  <2> QED
    BY <2>1, <1>4, <1>6, BitsMod
<1>9. DesBits'
  BY <1>3, <1>5, <1>8 DEF DesBits
<1> QED
  BY <1>7, <1>9

(* Nothing is known to be set but what was passed. *)
LEMMA PassLvs ==
  ASSUME DesTypes, DesLvs, tag' = tag, at \in 1..Len(Layout), at' = at + 1, pc' = "parse",
         lvs' = lvs + (IF Cur.k = "lv" THEN 1 ELSE 0)
  PROVE  DesLvs'
<1>1. tag \in Tags
  BY DEF DesTypes
<1>2. Len(Layout) \in Nat /\ Layout' = Layout
  BY <1>1, LayoutFacts DEF Layout
<1>3. lvs' = Cardinality(LvBefore(Layout, at + 1))
  BY <1>2, LvStep DEF DesLvs, Cur
<1> QED
  BY <1>2, <1>3 DEF DesLvs

(* A loop is entered where it starts. *)
LEMMA EnterLoop ==
  ASSUME DesTypes, tag' = tag, length' = length, at' \in 1..(Len(Layout) + 1), ent' = bytes_off',
         bytes_off' \in Int, DesForward'
  PROVE  DesTiles'
<1>1. tag \in Tags /\ Layout' = Layout /\ End' = End
  BY DEF DesTypes, Layout, End
<1>2. ASSUME at' <= Len(Layout), Layout[at'].k = "last" PROVE bytes_off' >= 0
  <2>1. at' \in DOMAIN Layout
    BY <1>1, <1>2, LayoutLength
  <2> QED
    BY <1>1, <1>2, <2>1 DEF DesForward
<1> QED
  BY <1>1, <1>2 DEF DesTiles, Cur

(* A member other than a loop leaves nothing to show of loops and the free
   function. *)
LEMMA PassPlain ==
  ASSUME at' = at + 1, at \in 1..Len(Layout), Layout' = Layout, pc' = "parse", Cur.k \notin Loops
  PROVE  TrailingLoop' /\ FreeSound'
<1>1. at' - 1 = at
  BY LayoutFacts
<1>2. Layout'[at' - 1].k = Cur.k
  BY <1>1 DEF Cur
<1> QED
  BY <1>2 DEF TrailingLoop, FreeSound, Loops


(* What is known of the member the parser stands at *)
LEMMA MemberFacts ==
  ASSUME DesTypes, at <= Len(Layout)
  PROVE  /\ at \in 1..Len(Layout) /\ Len(Layout) \in Nat /\ length \in Nat /\ End \in Nat
         /\ Cur.k \in Kinds /\ Cur.w \in Nat /\ Cur.n \in Nat
         /\ Cur.k = "m1" => Cur.w <= 4
         /\ Cur.k = "last" => Cur.w > 0
         /\ Cur.k = "lv" => Cur.n > 0
         /\ Cur.k = "subloop" => at = Len(Layout)
         /\ Cur.k = "subif" /\ Cur.c \in {"compat", "module"} =>
              \A i \in DOMAIN Layout : Layout[i].k # "last"
         /\ \A r \in Cur.R : r \in Nat
<1>1. tag \in Tags /\ at \in 1..(Len(Layout) + 1) /\ length \in Sizes
  BY DEF DesTypes
<1>2. Len(Layout) \in Nat /\ at \in 1..Len(Layout)
  BY <1>1, LayoutLength
<1>3. length \in Nat
  BY <1>1, SizesAssumption
<1>4. End \in Nat
  BY <1>3 DEF End
<1> QED
  BY <1>1, <1>2, <1>3, <1>4, LayoutFacts, Zenon DEF Cur

(* A plain member that moves forward, or by an error code in a layout with no
   trailing loop, keeps everything, once the overshoot is shown. *)
LEMMA PlainStep ==
  ASSUME DesInv, pc = "parse", at <= Len(Layout), NEW read, Pass(read), UNCHANGED <<tag, length, num>>,
         pc' = "parse", Cur.k \notin Loops, bytes_off' \in Int, ent' = bytes_off',
         nomem' \in BOOLEAN, fits' \in BOOLEAN,
         bits_off' = (bits_off + (IF Cur.k = "m" THEN Cur.n ELSE 0)) % 8,
         lvs' = lvs + (IF Cur.k = "lv" THEN 1 ELSE 0),
         bytes_off' >= bytes_off \/ (\A i \in DOMAIN Layout : Layout[i].k # "last"),
         fits' /\ ~nomem' => bytes_off' <= End + 3
  PROVE  DesInv'
<1>1. DesTypes /\ DesBits /\ DesLvs /\ DesTiles /\ DesForward /\ GuardedOvershoot
  BY DEF DesInv
<1>2. /\ at' = at + 1 /\ at \in 1..Len(Layout) /\ at' \in 1..(Len(Layout) + 1)
      /\ Layout' = Layout /\ End' = End
      /\ \A f \in DOMAIN vals' : vals'[f] \in Nat
  BY <1>1, PassMember
<1>3. DesBits' /\ bits_off' \in 0..7
  BY <1>1, <1>2, PassBits
<1>4. DesTypes'
  BY <1>1, <1>2, <1>3 DEF DesTypes
<1>5. DesLvs'
  BY <1>1, <1>2, PassLvs
<1>6. DesForward'
  BY <1>1, <1>2 DEF DesForward, DesTypes
<1>7. DesTiles'
  BY <1>1, <1>2, <1>6, EnterLoop
<1>8. TrailingLoop' /\ FreeSound'
  BY <1>2, PassPlain
<1>9. GuardedOvershoot'
  BY <1>2 DEF GuardedOvershoot
<1> QED
  BY <1>3, <1>4, <1>5, <1>6, <1>7, <1>8, <1>9 DEF DesInv


(* A member that is no bit field leaves the offset in bits. *)
LEMMA BitsKept ==
  ASSUME DesTypes, bits_off' = bits_off, Cur.k # "m"
  PROVE  bits_off' = (bits_off + (IF Cur.k = "m" THEN Cur.n ELSE 0)) % 8
  BY DEF DesTypes

(* Fields that steer later members are numbers. *)
LEMMA ValueNat ==
  ASSUME DesTypes, NEW f
  PROVE  Value(f) \in Nat
  BY DEF DesTypes, Value

(* Unchecked members that fit end inside. *)
LEMMA AdvanceFits ==
  ASSUME DesTypes, End \in Nat, NEW n \in Nat, Advance(n)
  PROVE  /\ bytes_off' = bytes_off + n /\ bytes_off' \in Int /\ bytes_off' >= bytes_off
         /\ fits' \in BOOLEAN /\ (fits' => bytes_off' <= End + 3)
<1>1. bytes_off \in Int /\ fits \in BOOLEAN
  BY DEF DesTypes
<1>2. bytes_off' = bytes_off + n
  BY DEF Advance
<1>3. fits' \in BOOLEAN
  BY <1>1, Zenon DEF Advance
<1>4. fits' => bytes_off + n <= End
  BY Zenon DEF Advance
<1> QED
  BY <1>1, <1>2, <1>3, <1>4

(* __m: a bit field. *)
LEMMA StepM == ASSUME DesInv, Parse_m PROVE DesInv'
<1>1. pc = "parse" /\ at <= Len(Layout) /\ Cur.k = "m" /\ DesTypes
  BY DEF Parse_m, At, DesInv
<1>2. Cur.n \in Nat /\ End \in Nat /\ bits_off \in Nat
  BY <1>1, MemberFacts DEF DesTypes
<1>3. (bits_off + Cur.n) \div 8 \in Nat
  BY <1>2
<1>4. Advance((bits_off + Cur.n) \div 8) /\ bits_off' = (bits_off + Cur.n) % 8
  BY DEF Parse_m, m_off
<1>5. /\ bytes_off' \in Int /\ bytes_off' >= bytes_off
      /\ fits' \in BOOLEAN /\ (fits' => bytes_off' <= End + 3)
  BY <1>1, <1>2, <1>3, <1>4, AdvanceFits
<1>6. /\ Pass(TRUE) /\ UNCHANGED <<tag, length, num>> /\ pc' = "parse" /\ ent' = bytes_off'
      /\ lvs' = lvs /\ nomem' = nomem
  BY <1>1 DEF Parse_m, Rest
<1>7. lvs' = lvs + (IF Cur.k = "lv" THEN 1 ELSE 0) /\ nomem' \in BOOLEAN
  BY <1>1, <1>6, LvStep DEF DesTypes, DesInv, DesLvs
<1>8. bits_off' = (bits_off + (IF Cur.k = "m" THEN Cur.n ELSE 0)) % 8 /\ Cur.k \notin Loops
  BY <1>1, <1>4 DEF Loops
<1> QED
  BY <1>1, <1>5, <1>6, <1>7, <1>8, PlainStep

(* __m1: bytes, if they begin inside the descriptor. *)
LEMMA StepM1 == ASSUME DesInv, Parse_m1 PROVE DesInv'
<1>1. pc = "parse" /\ at <= Len(Layout) /\ Cur.k = "m1" /\ DesTypes /\ GuardedOvershoot
  BY DEF Parse_m1, At, DesInv
<1>2. Cur.w \in Nat /\ Cur.w <= 4 /\ End \in Nat /\ bytes_off \in Int /\ fits \in BOOLEAN
  BY <1>1, MemberFacts DEF DesTypes
<1>3. bytes_off' = bytes_off + (IF m1_reads THEN Cur.w ELSE 0)
  BY DEF Parse_m1
<1>4. m1_reads => bytes_off <= End - 1
  BY <1>2 DEF m1_reads
<1>5. Pass(m1_reads) /\ UNCHANGED <<tag, length, num>> /\ pc' = "parse" /\ ent' = bytes_off'
      /\ lvs' = lvs /\ nomem' = nomem /\ fits' = fits /\ bits_off' = bits_off
  BY <1>1 DEF Parse_m1, Rest
<1>6. fits /\ ~nomem => bytes_off <= End + 3
  BY <1>1 DEF GuardedOvershoot, Loops
<1>7. bytes_off' \in Int /\ bytes_off' >= bytes_off
  BY <1>2, <1>3
<1>8. fits' /\ ~nomem' => bytes_off' <= End + 3
  BY <1>2, <1>3, <1>4, <1>5, <1>6
<1>9. lvs' = lvs + (IF Cur.k = "lv" THEN 1 ELSE 0) /\ nomem' \in BOOLEAN /\ fits' \in BOOLEAN
  BY <1>1, <1>5, LvStep DEF DesTypes, DesInv, DesLvs
<1>10. bits_off' = (bits_off + (IF Cur.k = "m" THEN Cur.n ELSE 0)) % 8 /\ Cur.k \notin Loops
  BY <1>1, <1>5, BitsKept DEF Loops
<1> QED
  BY <1>1, <1>5, <1>7, <1>8, <1>9, <1>10, PlainStep

(* __mif: bytes, if an earlier field says so. *)
LEMMA StepMif == ASSUME DesInv, Parse_mif PROVE DesInv'
<1> DEFINE present == Value(Cur.c) \in Cur.S
<1>1. pc = "parse" /\ at <= Len(Layout) /\ Cur.k = "if" /\ DesTypes
  BY DEF Parse_mif, At, DesInv
<1>2. Cur.w \in Nat /\ End \in Nat
  BY <1>1, MemberFacts
<1>3. Advance(IF present THEN Cur.w ELSE 0) /\ (IF present THEN Cur.w ELSE 0) \in Nat
  BY <1>2 DEF Parse_mif
<1>4. /\ bytes_off' \in Int /\ bytes_off' >= bytes_off
      /\ fits' \in BOOLEAN /\ (fits' => bytes_off' <= End + 3)
  <2> HIDE DEF present
  <2> QED BY <1>1, <1>2, <1>3, AdvanceFits
<1>5. Pass(present) /\ UNCHANGED <<tag, length, num>> /\ pc' = "parse" /\ ent' = bytes_off'
      /\ lvs' = lvs /\ nomem' = nomem /\ bits_off' = bits_off
  BY <1>1 DEF Parse_mif, Rest
<1>9. lvs' = lvs + (IF Cur.k = "lv" THEN 1 ELSE 0) /\ nomem' \in BOOLEAN
  BY <1>1, <1>5, LvStep DEF DesTypes, DesInv, DesLvs
<1>10. bits_off' = (bits_off + (IF Cur.k = "m" THEN Cur.n ELSE 0)) % 8 /\ Cur.k \notin Loops
  BY <1>1, <1>5, BitsKept DEF Loops
<1> HIDE DEF present
<1> QED
  BY <1>1, <1>4, <1>5, <1>9, <1>10, PlainStep

(* __mlv: as many elements as an earlier field says. *)
LEMMA StepMlv == ASSUME DesInv, Parse_mlv PROVE DesInv'
<1>1. pc = "parse" /\ at <= Len(Layout) /\ Cur.k = "lv" /\ DesTypes
  BY DEF Parse_mlv, At, DesInv
<1>2. Cur.w \in Nat /\ End \in Nat /\ Cur.n \in Nat /\ Cur.n > 0 /\ Value(Cur.c) \in Nat
  BY <1>1, MemberFacts, ValueNat
<1> DEFINE b == Cur.w * (Value(Cur.c) \div Cur.n)
<1>3. Advance(b) /\ b \in Nat
  <2>1. Value(Cur.c) \div Cur.n \in Nat
    BY <1>2
  <2> QED
    BY <1>2, <2>1 DEF Parse_mlv
<1> HIDE DEF b
<1>4. /\ bytes_off' \in Int /\ bytes_off' >= bytes_off
      /\ fits' \in BOOLEAN /\ (fits' => bytes_off' <= End + 3)
  BY <1>1, <1>2, <1>3, AdvanceFits
<1>5. Pass(TRUE) /\ UNCHANGED <<tag, length, num>> /\ pc' = "parse" /\ ent' = bytes_off'
      /\ lvs' = lvs + 1 /\ nomem' = nomem /\ bits_off' = bits_off
  BY <1>1 DEF Parse_mlv, Rest
<1>9. lvs' = lvs + (IF Cur.k = "lv" THEN 1 ELSE 0) /\ nomem' \in BOOLEAN
  BY <1>1, <1>5 DEF DesTypes
<1>10. bits_off' = (bits_off + (IF Cur.k = "m" THEN Cur.n ELSE 0)) % 8 /\ Cur.k \notin Loops
  BY <1>1, <1>5, BitsKept DEF Loops
<1> QED
  BY <1>1, <1>4, <1>5, <1>9, <1>10, PlainStep

(* __mif_custom: a nested structure. *)
LEMMA StepMifCustom == ASSUME DesInv, Parse_mif_custom PROVE DesInv'
<1>1. pc = "parse" /\ at <= Len(Layout) /\ Cur.k = "subif" /\ DesTypes /\ GuardedOvershoot
  BY DEF Parse_mif_custom, At, DesInv
<1>2. End \in Nat /\ (\A r \in Cur.R : r \in Nat) /\ bytes_off \in Int /\ fits \in BOOLEAN
  BY <1>1, MemberFacts DEF DesTypes
<1>5. Pass(TRUE) /\ UNCHANGED <<tag, length, num>> /\ pc' = "parse" /\ ent' = bytes_off'
      /\ lvs' = lvs /\ nomem' = nomem /\ bits_off' = bits_off
  BY <1>1 DEF Parse_mif_custom, Rest
<1>6. fits /\ ~nomem => bytes_off <= End + 3
  BY <1>1 DEF GuardedOvershoot, Loops
<1>4. /\ bytes_off' \in Int /\ bytes_off' >= bytes_off
      /\ fits' \in BOOLEAN /\ (fits' /\ ~nomem' => bytes_off' <= End + 3)
  <2>1. CASE Value(Cur.c) \in Cur.S
    <3>1. PICK r \in Cur.R : Advance(r)
      BY <2>1 DEF Parse_mif_custom
    <3>2. r \in Nat
      BY <1>2
    <3> QED
      BY <1>1, <1>2, <3>1, <3>2, AdvanceFits
  <2>2. CASE Value(Cur.c) \notin Cur.S
    <3>1. bytes_off' = bytes_off /\ fits' = fits
      BY <2>2 DEF Parse_mif_custom
    <3> QED
      BY <1>2, <1>5, <1>6, <3>1
  <2> QED
    BY <2>1, <2>2
<1>9. lvs' = lvs + (IF Cur.k = "lv" THEN 1 ELSE 0) /\ nomem' \in BOOLEAN
  BY <1>1, <1>5, LvStep DEF DesTypes, DesInv, DesLvs
<1>10. bits_off' = (bits_off + (IF Cur.k = "m" THEN Cur.n ELSE 0)) % 8 /\ Cur.k \notin Loops
  BY <1>1, <1>5, BitsKept DEF Loops
<1> QED
  BY <1>1, <1>4, <1>5, <1>9, <1>10, PlainStep


(* The next element of a tiling fits, and the rest is tiled. *)
LEMMA TileStep ==
  ASSUME NEW x \in Nat, NEW w \in Nat \ {0}, x > 0, x % w = 0
  PROVE  x - w >= 0 /\ (x - w) % w = 0
<1> DEFINE q == x \div w
<1>1. x = w * q /\ q \in Nat
  OBVIOUS
<1>4. \A n, k \in Nat : n = w * k => n % w = 0
  OBVIOUS
<1> HIDE DEF q
<1>2. q # 0
  BY <1>1
<1>3. q - 1 \in Nat /\ x - w = w * (q - 1)
  BY <1>1, <1>2
<1>5. \A k \in Nat : w * k \in Nat
  OBVIOUS
<1>6. x - w \in Nat
  BY <1>3, <1>5
<1>7. (x - w) % w = 0
  BY <1>3, <1>4, <1>6
<1> QED
  BY <1>6, <1>7

(* The step to another phase, with the place and the layout as they were *)
LEMMA SamePlace ==
  ASSUME DesInv, UNCHANGED <<tag, length, at, bits_off, vals, lvs>>,
         bytes_off' \in Int, ent' \in Int, num' \in Nat, nomem' \in BOOLEAN, fits' \in BOOLEAN,
         pc' = "parsed" /\ ~nomem' => at = Len(Layout) + 1
  PROVE  /\ DesTypes' /\ DesBits' /\ DesLvs' /\ Layout' = Layout /\ End' = End /\ Cur' = Cur
<1>1. Layout' = Layout /\ End' = End /\ Cur' = Cur
  BY DEF Layout, End, Cur
<1>2. DesTypes'
  BY <1>1 DEF DesInv, DesTypes
<1>3. DesBits'
  BY <1>1 DEF DesInv, DesBits
<1>4. DesLvs'
  BY <1>1 DEF DesInv, DesLvs
<1> QED
  BY <1>1, <1>2, <1>3, <1>4

(* An element of a loop moves by a number of bytes. *)
LEMMA ElementNat ==
  ASSUME DesTypes, at <= Len(Layout), NEW r \in ElementSizes
  PROVE  r \in Nat /\ (Cur.k = "last" => r = Cur.w /\ r > 0)
<1>1. Cur.w \in Nat /\ (Cur.k = "last" => Cur.w > 0) /\ \A x \in Cur.R : x \in Nat
  BY MemberFacts
<1> QED
  BY <1>1 DEF ElementSizes

(* One more element of a loop. *)
LEMMA StepElement == ASSUME DesInv, Parse_element PROVE DesInv'
<1>1. /\ pc = "parse" /\ at <= Len(Layout) /\ Cur.k \in Loops /\ DesTypes /\ DesTiles /\ DesForward
      /\ TrailingLoop /\ more(Cur.k)
  BY DEF Parse_element, AtLoop, DesInv
<1>2. PICK r \in ElementSizes : bytes_off' = bytes_off + r
  BY DEF Parse_element
<1>3. r \in Nat /\ (Cur.k = "last" => r = Cur.w /\ r > 0)
  BY <1>1, ElementNat
<1>4. bytes_off \in Int /\ bytes_off >= 0 /\ End \in Nat /\ Cur.w \in Nat /\ bytes_off <= End
  BY <1>1, MemberFacts DEF DesTypes, Parse_element
<1>5. /\ UNCHANGED <<tag, length, at, bits_off, vals, lvs, nomem, ent, fits>> /\ pc' = "parse"
      /\ num' \in Nat
  BY <1>1 DEF Parse_element, Rest, DesTypes
<1>6. DesTypes' /\ DesBits' /\ DesLvs' /\ Layout' = Layout /\ End' = End /\ Cur' = Cur
  <2>1. bytes_off' \in Int /\ ent' \in Int /\ nomem' \in BOOLEAN /\ fits' \in BOOLEAN
    BY <1>1, <1>2, <1>3, <1>4, <1>5 DEF DesTypes
  <2> QED
    BY <1>5, <2>1, SamePlace
<1>7. bytes_off' >= 0 /\ DesForward'
  BY <1>2, <1>3, <1>4 DEF DesForward
<1>8. ASSUME Cur.k = "last", ent <= End, (End - ent) % Cur.w = 0
      PROVE  bytes_off' <= End /\ (End - bytes_off') % Cur.w = 0
  <2>1. (End - bytes_off) % Cur.w = 0 /\ bytes_off # End
    BY <1>1, <1>8 DEF DesTiles, more
  <2> DEFINE x == End - bytes_off
  <2>2. x \in Nat /\ x > 0 /\ x % Cur.w = 0 /\ Cur.w > 0
    BY <1>3, <1>4, <1>8, <2>1
  <2>3. x - Cur.w >= 0 /\ (x - Cur.w) % Cur.w = 0
    <3> HIDE DEF x
    <3>1. Cur.w \in Nat \ {0}
      BY <1>4, <2>2
    <3> QED
      BY <2>2, <3>1, TileStep
  <2>4. End - bytes_off' = x - Cur.w
    BY <1>2, <1>3, <1>4, <1>8
  <2> QED
    BY <1>2, <1>3, <1>4, <1>8, <2>3, <2>4
<1>9. DesTiles'
  BY <1>1, <1>5, <1>6, <1>7, <1>8 DEF DesTiles
<1>10. TrailingLoop'
  <2>1. ASSUME at > 1, Layout[at - 1].k \in {"last", "sublast", "loop"} PROVE FALSE
    <3>1. bytes_off = End
      BY <1>1, <2>1 DEF TrailingLoop, DesTypes
    <3> QED
      BY <1>1, <1>4, <3>1 DEF more
  <2> QED
    BY <1>5, <1>6, <2>1 DEF TrailingLoop
<1>11. GuardedOvershoot' /\ FreeSound'
  BY <1>1, <1>5, <1>6 DEF GuardedOvershoot, FreeSound
<1> QED
  BY <1>6, <1>7, <1>9, <1>10, <1>11 DEF DesInv

(* The end of a loop: at the end of the descriptor, but for __mploop_custom, which no
   member follows. *)
LEMMA StepLoopEnd == ASSUME DesInv, Parse_loop_end PROVE DesInv'
<1>1. /\ pc = "parse" /\ at <= Len(Layout) /\ Cur.k \in Loops /\ DesTypes /\ DesBits /\ DesLvs
      /\ DesForward /\ ~more(Cur.k)
  BY DEF Parse_loop_end, AtLoop, DesInv
<1>2. Pass(FALSE) /\ UNCHANGED <<tag, length, bytes_off, bits_off, num, lvs, nomem, fits>>
      /\ pc' = "parse" /\ ent' = bytes_off
  BY <1>1 DEF Parse_loop_end, Rest
<1>3. /\ at' = at + 1 /\ at \in 1..Len(Layout) /\ at' \in 1..(Len(Layout) + 1)
      /\ Layout' = Layout /\ End' = End /\ End \in Nat
      /\ \A f \in DOMAIN vals' : vals'[f] \in Nat
  BY <1>1, <1>2, PassMember
<1>4. Cur.k # "subloop" => bytes_off = End
  BY <1>1 DEF more
<1>5. Cur.k = "subloop" => at = Len(Layout)
  BY <1>1, MemberFacts
<1>6. Cur.k # "m" /\ Cur.k # "lv"
  BY <1>1 DEF Loops
<1>7. DesBits'
  BY <1>1, <1>2, <1>3, <1>6, BitsKept, PassBits
<1>8. DesTypes'
  BY <1>1, <1>2, <1>3 DEF DesTypes
<1>9. DesLvs'
  <2>1. lvs' = lvs + (IF Cur.k = "lv" THEN 1 ELSE 0)
    <3>1. Len(Layout) \in Nat
      BY <1>1, MemberFacts
    <3>2. lvs \in Nat
      BY <1>1, <1>3, <3>1, LvStep DEF DesLvs
    <3> QED
      BY <1>2, <1>6, <3>2
  <2> QED
    BY <1>1, <1>2, <1>3, <2>1, PassLvs
<1>10. DesForward'
  BY <1>1, <1>2, <1>3 DEF DesForward
<1>11. DesTiles'
  BY <1>1, <1>2, <1>3, <1>10, EnterLoop DEF DesTypes
<1>12. TrailingLoop'
  <2>1. at' - 1 = at
    BY <1>3
  <2>2. Layout'[at' - 1] = Cur
    BY <1>3, <2>1 DEF Cur
  <2> QED
    BY <1>2, <1>3, <1>4, <2>2 DEF TrailingLoop
<1>13. GuardedOvershoot'
  <2>1. at' <= Len(Layout) => bytes_off = End
    BY <1>3, <1>4, <1>5, <1>1, MemberFacts
  <2>2. End <= End + 3
    BY <1>3
  <2> QED
    BY <1>2, <1>3, <2>1, <2>2 DEF GuardedOvershoot
<1>14. FreeSound'
  BY <1>2 DEF FreeSound
<1> QED
  BY <1>7, <1>8, <1>9, <1>10, <1>11, <1>12, <1>13, <1>14 DEF DesInv


(* A loop of fixed elements runs away only from where they did not tile the rest. *)
LEMMA StepRunsAway == ASSUME DesInv, Parse_runs_away PROVE DesInv'
<1>1. /\ pc = "parse" /\ at <= Len(Layout) /\ Cur.k \in Loops /\ DesTypes /\ DesTiles /\ DesForward
      /\ bytes_off \notin 0..End
  BY DEF Parse_runs_away, AtLoop, DesInv
<1>2. /\ UNCHANGED <<tag, length, at, bytes_off, bits_off, vals, num, lvs, nomem, ent, fits>>
      /\ pc' = "runaway"
  BY DEF Parse_runs_away, Rest
<1>3. DesTypes' /\ DesBits' /\ DesLvs' /\ Layout' = Layout /\ End' = End /\ Cur' = Cur
  <2>1. /\ bytes_off' \in Int /\ ent' \in Int /\ num' \in Nat /\ nomem' \in BOOLEAN /\ fits' \in BOOLEAN
        /\ pc' # "parsed"
    BY <1>1, <1>2 DEF DesTypes
  <2> QED
    BY <1>2, <2>1, SamePlace
<1>4. bytes_off \in Int /\ ent \in Int /\ End \in Nat
  BY <1>1, MemberFacts DEF DesTypes
<1>5. ASSUME Cur.k = "last" PROVE ent > End \/ (End - ent) % Cur.w # 0
  BY <1>1, <1>4, <1>5 DEF DesTiles
<1>6. TrailingLoop'
  BY <1>2, <1>3, <1>5 DEF TrailingLoop
<1>7. DesTiles' /\ GuardedOvershoot' /\ FreeSound'
  BY <1>2 DEF DesTiles, GuardedOvershoot, FreeSound
<1>8. DesForward'
  BY <1>1, <1>2, <1>3 DEF DesForward
<1> QED
  BY <1>3, <1>6, <1>7, <1>8 DEF DesInv

(* A phase that is neither parsing nor running away claims little. *)
LEMMA OtherPhase ==
  ASSUME DesInv, UNCHANGED <<tag, length, at, bytes_off, bits_off, vals, num, lvs, ent, fits>>,
         nomem' \in BOOLEAN, pc' # "parse", pc' # "runaway",
         pc' = "parsed" /\ ~nomem' => at = Len(Layout) + 1,
         pc' = "aborted" => nomem' \/ tag \in Uneven, pc' = "badfree" => num >= 2
  PROVE  DesInv'
<1>1. DesTypes' /\ DesBits' /\ DesLvs' /\ Layout' = Layout /\ End' = End /\ Cur' = Cur
  <2>1. bytes_off' \in Int /\ ent' \in Int /\ num' \in Nat /\ fits' \in BOOLEAN
    BY DEF DesInv, DesTypes
  <2> QED
    BY <2>1, SamePlace
<1>2. TrailingLoop' /\ DesTiles' /\ GuardedOvershoot'
  BY DEF TrailingLoop, DesTiles, GuardedOvershoot
<1>3. FreeSound'
  BY DEF FreeSound
<1>4. DesForward'
  BY <1>1 DEF DesForward, DesInv
<1> QED
  BY <1>1, <1>2, <1>3, <1>4 DEF DesInv

(* A parser without memory returns at once. *)
LEMMA StepAllocFails == ASSUME DesInv, Alloc_fails PROVE DesInv'
<1>1. /\ UNCHANGED <<tag, length, at, bytes_off, bits_off, vals, num, lvs, ent, fits>>
      /\ nomem' = TRUE /\ pc' = "parsed"
  BY DEF Alloc_fails, Rest
<1> QED
  BY <1>1, OtherPhase

(* A nested parser without memory moves the offset by its error code. *)
LEMMA StepNested == ASSUME DesInv, Nested_alloc_fails PROVE DesInv'
<1>0. UNCHANGED <<tag, length, pc, bits_off, num, lvs, fits>> /\ nomem' = TRUE
      /\ DesTypes /\ DesTiles /\ DesForward /\ TrailingLoop
  BY DEF Nested_alloc_fails, Rest, DesInv
<1>1. CASE /\ At("subif") /\ Value(Cur.c) \in Cur.S
           /\ bytes_off' = bytes_off + (IF Cur.c \in {"compat", "module"} THEN -ENOMEM ELSE ENOMEM)
           /\ Pass(TRUE) /\ ent' = bytes_off'
  <2>1. pc = "parse" /\ at <= Len(Layout) /\ Cur.k = "subif"
    BY <1>1 DEF At
  <2>2. bytes_off \in Int /\ fits \in BOOLEAN
    BY <1>0 DEF DesTypes
  <2>3. Cur.c \in {"compat", "module"} => \A i \in DOMAIN Layout : Layout[i].k # "last"
    BY <1>0, <2>1, MemberFacts
  <2>4. bytes_off' \in Int /\ (bytes_off' >= bytes_off \/ \A i \in DOMAIN Layout : Layout[i].k # "last")
    BY <1>1, <2>2, <2>3 DEF ENOMEM
  <2>5. lvs' = lvs + (IF Cur.k = "lv" THEN 1 ELSE 0)
    <3>1. Len(Layout) \in Nat /\ at \in 1..Len(Layout)
      BY <1>0, <2>1, MemberFacts
    <3>2. lvs \in Nat
      BY <3>1, LvStep DEF DesInv, DesLvs
    <3> QED
      BY <1>0, <2>1, <3>2
  <2>6. bits_off' = (bits_off + (IF Cur.k = "m" THEN Cur.n ELSE 0)) % 8 /\ Cur.k \notin Loops
    BY <1>0, <2>1, BitsKept DEF Loops
  <2>7. /\ Pass(TRUE) /\ UNCHANGED <<tag, length, num>> /\ pc' = "parse" /\ ent' = bytes_off'
        /\ nomem' \in BOOLEAN /\ fits' \in BOOLEAN /\ ~(fits' /\ ~nomem')
    BY <1>0, <1>1, <2>1, <2>2
  <2> QED
    BY <2>1, <2>4, <2>5, <2>6, <2>7, PlainStep
<1>2. CASE /\ AtLoop /\ more(Cur.k) /\ bytes_off \in 0..End /\ Cur.k \in {"sublast", "subloop"}
           /\ bytes_off' = bytes_off + ENOMEM
           /\ UNCHANGED <<at, vals, ent>>
  <2>1. pc = "parse" /\ at <= Len(Layout) /\ Cur.k \in Loops /\ Cur.k # "last"
    BY <1>2 DEF AtLoop
  <2>2. bytes_off \in Int /\ bytes_off' \in Int /\ bytes_off' >= 0 /\ End \in Nat /\ bytes_off <= End
    BY <1>0, <1>2, <2>1, MemberFacts DEF DesTypes, ENOMEM
  <2>3. DesTypes' /\ DesBits' /\ DesLvs' /\ Layout' = Layout /\ End' = End /\ Cur' = Cur
    <3>1. /\ ent' \in Int /\ num' \in Nat /\ fits' \in BOOLEAN /\ nomem' \in BOOLEAN
          /\ pc' # "parsed" /\ UNCHANGED <<tag, length, at, bits_off, vals, lvs>>
      BY <1>0, <1>2, <2>1 DEF DesTypes
    <3> QED
      BY <2>2, <3>1, SamePlace
  <2>4. DesForward'
    BY <2>2 DEF DesForward
  <2>5. DesTiles' /\ GuardedOvershoot' /\ FreeSound'
    BY <1>0, <2>1, <2>3 DEF DesTiles, GuardedOvershoot, FreeSound
  <2>6. TrailingLoop'
    <3>1. ASSUME at > 1, Layout[at - 1].k \in {"last", "sublast", "loop"} PROVE FALSE
      <4>1. bytes_off = End
        BY <1>0, <2>1, <3>1 DEF TrailingLoop, DesTypes
      <4> QED
        BY <1>2, <2>2, <4>1 DEF more
    <3> QED
      BY <1>0, <1>2, <2>1, <2>3, <3>1 DEF TrailingLoop
  <2> QED
    BY <2>3, <2>4, <2>5, <2>6 DEF DesInv
<1> QED
  BY <1>1, <1>2 DEF Nested_alloc_fails

(* A parser that reached the end of the layout is on a byte boundary. *)
LEMMA StepReturns == ASSUME DesInv, Parse_returns PROVE DesInv'
<1>1. /\ pc = "parse" /\ at > Len(Layout) /\ pc' = (IF bits_off = 0 THEN "parsed" ELSE "aborted")
      /\ UNCHANGED <<tag, length, at, bytes_off, bits_off, vals, num, lvs, nomem, ent, fits>>
  BY DEF Parse_returns, Rest
<1>2. DesTypes /\ DesBits /\ tag \in Tags
  BY DEF DesInv, DesTypes
<1>3. Len(Layout) \in Nat /\ at = Len(Layout) + 1
  BY <1>1, <1>2, LayoutLength DEF DesTypes
<1>4. ASSUME tag \notin Uneven PROVE bits_off = 0
  <2>1. BitsFill(Layout)
    BY <1>2, <1>4, LayoutsAssumption DEF Layout
  <2>2. BitsBefore(Layout, at) % 8 = 0
    <3>1. at \in 1..(Len(Layout) + 1) /\ ~(at <= Len(Layout))
      BY <1>3
    <3> QED
      BY <2>1, <3>1, Zenon DEF BitsFill
  <2> QED
    BY <1>2, <1>4, <2>2 DEF DesBits
<1>5. nomem' \in BOOLEAN /\ (pc' = "aborted" => nomem' \/ tag \in Uneven)
  BY <1>1, <1>2, <1>4 DEF DesTypes
<1>6. pc' # "parse" /\ pc' # "runaway" /\ pc' # "badfree"
  BY <1>1
<1> QED
  BY <1>1, <1>3, <1>5, <1>6, OtherPhase


(* The pointers set are those of all variable members once the parse was
   whole, and one entry of an mploop is found by the free loop. *)
LEMMA StepFree == ASSUME DesInv, Free PROVE DesInv'
<1>1. /\ pc = "parsed"
      /\ UNCHANGED <<tag, length, at, bytes_off, bits_off, vals, num, lvs, nomem, ent, fits>>
      /\ pc' = (CASE lvs < LvMembers -> "aborted"
             [] lvs = LvMembers /\ \E j \in LoopMembers : FreedSlots(j) # Slots(j) -> "badfree"
             [] OTHER -> "freed")
  BY DEF Free, Rest
<1>2. DesTypes /\ DesLvs /\ tag \in Tags /\ num \in Nat /\ nomem \in BOOLEAN
  BY DEF DesInv, DesTypes
<1>3. Len(Layout) \in Nat /\ DOMAIN Layout = 1..Len(Layout)
  BY <1>2, LayoutLength
<1>4. ASSUME ~nomem PROVE ~(lvs < LvMembers)
  <2>1. at = Len(Layout) + 1
    BY <1>1, <1>2, <1>4 DEF DesLvs
  <2>2. LvBefore(Layout, at) = {j \in DOMAIN Layout : Layout[j].k = "lv"}
    BY <1>3, <2>1 DEF LvBefore
  <2>3. lvs = LvMembers
    BY <1>2, <2>2, Zenon DEF DesLvs, LvMembers
  <2>4. lvs \in Nat
    <3>1. IsFiniteSet(1..Len(Layout))
      <4>1. 1 \in Int /\ Len(Layout) \in Int
        BY <1>3
      <4> QED
        BY ONLY <4>1, FS_Interval
    <3>2. IsFiniteSet(LvBefore(Layout, at))
      BY <3>1, FS_Subset DEF LvBefore
    <3> QED
      BY <1>2, <3>2, FS_CardinalityType DEF DesLvs
  <2> QED
    BY <2>3, <2>4
<1>5. ASSUME ~(num >= 2), NEW j \in LoopMembers PROVE FreedSlots(j) = Slots(j)
  <2>1. j \in 1..Len(Layout)
    BY <1>3 DEF LoopMembers
  <2>2. Layout[j].n \in Nat /\ Layout[j].w \in Nat
    BY <1>2, <2>1, LayoutFacts
  <2>3. num = 0 \/ num = 1
    BY <1>2, <1>5
  <2> DEFINE nn == Layout[j].n  ww == Layout[j].w
  <2>4. nn \in Nat /\ ww \in Nat
    BY <2>2
  <2>5. Slots(j) = {e * nn + ww + 1 : e \in 0..(num - 1)}
    BY DEF Slots
  <2>6. FreedSlots(j) = {(num - 1) * nn + k * (ww + 1) : k \in 1..num}
    BY DEF FreedSlots
  <2> HIDE DEF nn, ww
  <2>7. CASE num = 0
    <3>1. 0..(num - 1) = {} /\ 1..num = {}
      BY <2>7
    <3> QED
      BY <2>5, <2>6, <3>1
  <2>8. CASE num = 1
    <3>1. 0..(num - 1) = {0} /\ 1..num = {1}
      BY <2>8
    <3>2. 0 * nn + ww + 1 = ww + 1 /\ (num - 1) * nn + 1 * (ww + 1) = ww + 1
      BY <2>4, <2>8
    <3>3. Slots(j) = {ww + 1}
      BY <2>5, <3>1, <3>2
    <3>4. FreedSlots(j) = {ww + 1}
      BY <2>6, <3>1, <3>2
    <3> QED
      BY <3>3, <3>4
  <2> QED
    BY <2>3, <2>7, <2>8
<1>6. pc' \in {"aborted", "badfree", "freed"}
  BY <1>1
<1>7. pc' = "aborted" => nomem' \/ tag \in Uneven
  BY <1>1, <1>2, <1>4
<1>8. pc' = "badfree" => num >= 2
  BY <1>1, <1>5
<1> QED
  BY <1>1, <1>2, <1>6, <1>7, <1>8, OtherPhase

(* Every step keeps the invariant. *)
LEMMA DesStep == ASSUME DesInv, [DesNext]_des_vars PROVE DesInv'
<1>1. CASE UNCHANGED des_vars
  BY <1>1 DEF des_vars, DesInv, DesTypes, DesBits, DesLvs, DesTiles, DesForward, TrailingLoop,
     GuardedOvershoot, FreeSound, Layout, Cur, End
<1>2. CASE Parse_m
  BY <1>2, StepM
<1>3. CASE Parse_m1
  BY <1>3, StepM1
<1>4. CASE Parse_mif
  BY <1>4, StepMif
<1>5. CASE Parse_mlv
  BY <1>5, StepMlv
<1>6. CASE Parse_mif_custom
  BY <1>6, StepMifCustom
<1>7. CASE Parse_element
  BY <1>7, StepElement
<1>8. CASE Parse_loop_end
  BY <1>8, StepLoopEnd
<1>9. CASE Parse_runs_away
  BY <1>9, StepRunsAway
<1>10. CASE Alloc_fails
  BY <1>10, StepAllocFails
<1>11. CASE Nested_alloc_fails
  BY <1>11, StepNested
<1>12. CASE Parse_returns
  BY <1>12, StepReturns
<1>13. CASE Free
  BY <1>13, StepFree
<1> QED
  BY <1>1, <1>2, <1>3, <1>4, <1>5, <1>6, <1>7, <1>8, <1>9, <1>10, <1>11, <1>12, <1>13, Zenon DEF DesNext

(* And it holds before the first member. *)
LEMMA DesStart == DesInit => DesInv
<1> SUFFICES ASSUME DesInit PROVE DesInv
  OBVIOUS
<1>1. /\ tag \in Tags /\ length \in Sizes /\ pc = "parse" /\ at = 1 /\ bytes_off = 2 /\ bits_off = 0
      /\ vals = <<>> /\ num = 0 /\ lvs = 0 /\ nomem = FALSE /\ ent = 2 /\ fits = TRUE
  BY DEF DesInit
<1>2. Len(Layout) \in Nat /\ DOMAIN Layout = 1..Len(Layout)
  BY <1>1, LayoutLength
<1>3. length \in Nat /\ End \in Nat /\ End >= 2
  BY <1>1, SizesAssumption DEF End
<1>4. DesTypes
  <2>1. \A f \in DOMAIN vals : vals[f] \in Nat
    BY <1>1
  <2>2. /\ at \in 1..(Len(Layout) + 1) /\ bytes_off \in Int /\ bits_off \in 0..7 /\ ent \in Int
        /\ num \in Nat
    BY <1>1, <1>2
  <2>3. nomem \in BOOLEAN /\ fits \in BOOLEAN
    BY <1>1
  <2> QED
    BY <1>1, <2>1, <2>2, <2>3, Zenon DEF DesTypes
<1>5. DesBits
  BY <1>1, <1>2, NoBitsBefore DEF DesBits
<1>6. DesLvs
  <2>1. LvBefore(Layout, 1) = {}
    BY <1>2 DEF LvBefore
  <2> QED
    BY <1>1, <2>1, FS_EmptySet DEF DesLvs
<1>7. DesForward
  BY <1>1 DEF DesForward
<1>8. DesTiles
  BY <1>1, <1>3 DEF DesTiles
<1>9. TrailingLoop /\ GuardedOvershoot /\ FreeSound
  BY <1>1, <1>3 DEF TrailingLoop, GuardedOvershoot, FreeSound
<1> QED
  BY <1>4, <1>5, <1>6, <1>7, <1>8, <1>9 DEF DesInv

(* For every length byte and all values of the fields, a loop of fixed elements ends at the
   end of its descriptor, and runs away only if it was entered past the end or its elements
   do not tile what is left (__mplast of descriptor.h). *)
THEOREM DescriptorLoopsEnd == DesSpec => []TrailingLoop
<1>1. DesInv => TrailingLoop
  BY DEF DesInv
<1> QED
  BY <1>1, DesStart, DesStep, PTL DEF DesSpec

(* While the unchecked members stay inside the descriptor, members that test where they begin
   end at most three bytes behind it, for every length byte (__m1 of descriptor.h). *)
THEOREM OvershootBounded == DesSpec => []GuardedOvershoot
<1>1. DesInv => GuardedOvershoot
  BY DEF DesInv
<1> QED
  BY <1>1, DesStart, DesStep, PTL DEF DesSpec

(* Without an allocation failure no assertion stops a parser or a free function, in every
   layout but one, and the blocks of an __mploop of at most one entry are all released. *)
THEOREM DescriptorsFreed == DesSpec => []FreeSound
<1>1. DesInv => FreeSound
  BY DEF DesInv
<1> QED
  BY <1>1, DesStart, DesStep, PTL DEF DesSpec

(* A bit field never straddles the word it is read from, and bytes are read at byte
   boundaries, wherever the lengths in the data lead the parser (TS_READ_BITS). *)
THEOREM BitFieldsInWord == DesSpec => []BitFieldsSound
<1>1. DesInv => BitFieldsSound
  <2> SUFFICES ASSUME DesInv, pc = "parse", at <= Len(Layout), tag \notin Uneven
               PROVE  IF Cur.k = "m" THEN bits_off + Cur.n <= 8 * Cur.w ELSE bits_off = 0
    BY DEF BitFieldsSound
  <2>1. tag \in Tags /\ at \in 1..(Len(Layout) + 1) /\ bits_off = BitsBefore(Layout, at) % 8
    BY DEF DesInv, DesTypes, DesBits
  <2>2. BitsFill(Layout)
    BY <2>1, LayoutsAssumption DEF Layout
  <2> QED
    BY <2>1, <2>2, Zenon DEF BitsFill, Cur
<1> QED
  BY <1>1, DesStart, DesStep, PTL DEF DesSpec
=============================================================================
