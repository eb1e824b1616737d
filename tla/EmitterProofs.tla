---------------------------- MODULE EmitterProofs ----------------------------
(***************************************************************************)
(* For every number of tables in a report and whatever their loops and     *)
(* descriptors hold: the container stack of result.c never overflows, as   *)
(* long as the dump functions stay below level 14; the JSON written with   *)
(* it is well formed, as long as they write elements only into containers  *)
(* opened for them, and so is the YAML, if their keys fit in kbuf.  Lines  *)
(* of text and hex dumps of any length stay in their buffers.              *)
(***************************************************************************)
EXTENDS Emitter, WellFoundedInduction, TLAPS

Keys == UNION {[D -> Nat] : D \in SUBSET STRING}
Brackets == {"", "]", "}"}
Frame == [lv : -1..MaxLevel, child_lv : Int, close : Brackets, has_child : BOOLEAN, ek : Keys]

(* Container i of the stack lies at a level that two containers a level allow. *)
Deep(s) == \A i \in 1..Len(s) : i <= 2 * s[i].lv + 3
StackOK(s) == s \in Seq(Frame) /\ Deep(s) /\ Len(s) > 0 /\ s[1].lv = -1

(* Of the slots that stay, a last one exists, since the root stays. *)
LEMMA GreatestElement ==
  ASSUME NEW n \in Nat, NEW S \in SUBSET (1..n), S # {}
  PROVE  \E i \in S : \A j \in (i+1)..n : j \notin S
<1> DEFINE T == {n - i : i \in S}
<1>1. T \subseteq Nat /\ T # {}
  <2>1. \A i \in S : n - i \in Nat
    OBVIOUS
  <2> QED
    BY <2>1
<1>2. \E x \in T : \A y \in T : ~(<<y, x>> \in OpToRel(<, Nat))
  BY <1>1, WFMin, NatLessThanWellFounded, Zenon
<1>3. ASSUME NEW x \in Nat, NEW y \in Nat, y < x
      PROVE  <<y, x>> \in OpToRel(<, Nat)
  BY <1>3 DEF OpToRel
<1>4. PICK x \in T : \A y \in T : ~(y < x)
  BY <1>1, <1>2, <1>3, Zenon
<1>5. PICK i \in S : x = n - i
  BY <1>4
<1>6. ASSUME NEW j \in (i+1)..n, j \in S PROVE FALSE
  <2>1. n - j \in T /\ n - j < n - i
    BY <1>6
  <2> QED
    BY <2>1, <1>4, <1>5
<1> QED
  BY <1>6

(* What Ascend leaves: the stack up to the last container that stays. *)
LEMMA AscendShape ==
  ASSUME NEW s, StackOK(s), NEW c \in CallSet
  PROVE  /\ Kept(s, c) \in 1..Len(s) /\ Stays(s, c, Kept(s, c))
         /\ \A j \in (Kept(s, c) + 1)..Len(s) : ~Stays(s, c, j)
         /\ Ascend(s, c) \in Seq(Frame) /\ Len(Ascend(s, c)) = Kept(s, c)
         /\ \A i \in 1..Kept(s, c) : Ascend(s, c)[i] = s[i]
<1> DEFINE S == {i \in 1..Len(s) : Stays(s, c, i)}
           k == Kept(s, c)
<1>1. s \in Seq(Frame) /\ Len(s) \in Nat /\ DOMAIN s = 1..Len(s) /\ Len(s) > 0
  BY DEF StackOK
<1>2. 1 \in S
  BY <1>1 DEF Stays
<1>3. PICK i \in S : \A j \in (i+1)..Len(s) : j \notin S
  <2> HIDE DEF S
  <2>1. S \in SUBSET (1..Len(s))
    BY DEF S
  <2> QED
    BY <1>1, <1>2, <2>1, GreatestElement
<1>4. \E m \in DOMAIN s : Stays(s, c, m) /\ \A j \in (m+1)..Len(s) : ~Stays(s, c, j)
  BY <1>1, <1>3
<1>5. k \in 1..Len(s) /\ Stays(s, c, k) /\ \A j \in (k + 1)..Len(s) : ~Stays(s, c, j)
  BY <1>1, <1>4 DEF Kept
<1> HIDE DEF k, S
<1>6. /\ SubSeq(s, 1, k) \in Seq(Frame) /\ Len(SubSeq(s, 1, k)) = k
      /\ \A m \in 1..k : SubSeq(s, 1, k)[m] = s[m]
  BY <1>1, <1>5
<1> QED
  BY <1>5, <1>6 DEF Ascend, k

(* Leaving containers keeps a stack, and what is on top then lies below the
   level of the call (the root lies below every level). *)
LEMMA AscendProperties ==
  ASSUME NEW s, StackOK(s), NEW c \in CallSet
  PROVE  /\ StackOK(Ascend(s, c))
         /\ Len(Ascend(s, c)) <= 2 * c.lv + (IF c.k = "elem" THEN 3 ELSE 1)
<1> DEFINE k == Kept(s, c)
<1>1. s \in Seq(Frame) /\ Len(s) \in Nat /\ Len(s) > 0
  BY DEF StackOK
<1>2. k \in 1..Len(s) /\ Stays(s, c, k)
  BY AscendShape
<1>3. c.lv \in Nat /\ s[k].lv \in Int
  <2>1. s[k] \in Frame
    BY <1>1, <1>2
  <2> QED
    BY <2>1 DEF CallSet, Frame, MaxLevel
<1>4. Ascend(s, c) \in Seq(Frame) /\ Len(Ascend(s, c)) = k /\ \A m \in 1..k : Ascend(s, c)[m] = s[m]
  BY AscendShape
<1> HIDE DEF k
<1>5. StackOK(Ascend(s, c))
  BY <1>1, <1>2, <1>4 DEF StackOK, Deep
<1>6. k <= 2 * c.lv + (IF c.k = "elem" THEN 3 ELSE 1)
  <2>1. CASE k = 1
    BY <2>1, <1>3
  <2>2. CASE k # 1
    <3>1. s[k].lv < min_close(c)
      BY <2>2, <1>2 DEF Stays
    <3>2. k <= 2 * s[k].lv + 3
      BY <1>2 DEF StackOK, Deep
    <3> QED
      BY <3>1, <3>2, <1>2, <1>3 DEF min_close
  <2> QED
    BY <2>1, <2>2
<1> QED
  BY <1>4, <1>5, <1>6

(* A container fits on a stack whose length its level allows. *)
LEMMA NewContainer ==
  ASSUME NEW s, StackOK(s), NEW lv \in 0..MaxLevel, NEW child_lv \in Int, NEW close \in Brackets,
         Len(s) <= 2 * lv + 2
  PROVE  /\ StackOK(Append(s, jcnt(lv, child_lv, close)))
         /\ Len(Append(s, jcnt(lv, child_lv, close))) = Len(s) + 1
<1> DEFINE f == jcnt(lv, child_lv, close)
<1>1. <<>> \in Keys
  <2>1. <<>> \in [{} -> Nat] /\ {} \in SUBSET STRING
    OBVIOUS
  <2> QED
    BY <2>1 DEF Keys
<1>2. f \in Frame /\ f.lv = lv
  BY <1>1 DEF jcnt, Frame, MaxLevel
<1> HIDE DEF f
<1>3. s \in Seq(Frame) /\ Len(s) \in Nat /\ Len(s) > 0
  BY DEF StackOK
<1>4. /\ Append(s, f) \in Seq(Frame) /\ Len(Append(s, f)) = Len(s) + 1
      /\ \A m \in 1..Len(s) : Append(s, f)[m] = s[m]
      /\ Append(s, f)[Len(s) + 1] = f
  BY <1>2, <1>3
<1>5. ASSUME NEW m \in 1..(Len(s) + 1)
      PROVE  m <= 2 * Append(s, f)[m].lv + 3
  <2>1. CASE m \in 1..Len(s)
    BY <2>1, <1>4 DEF StackOK, Deep
  <2>2. CASE m = Len(s) + 1
    BY <2>2, <1>2, <1>3, <1>4
  <2> QED
    BY <2>1, <2>2, <1>3
<1> QED
  BY <1>3, <1>4, <1>5 DEF StackOK, Deep, f

(* A container that is decided, or marked, keeps its level. *)
LEMMA ChangedTop ==
  ASSUME NEW s, StackOK(s), NEW f \in Frame, f.lv = Top(s).lv
  PROVE  StackOK(SetTop(s, f)) /\ Len(SetTop(s, f)) = Len(s)
<1>1. s \in Seq(Frame) /\ Len(s) \in Nat /\ Len(s) > 0 /\ Len(s) \in 1..Len(s)
  BY DEF StackOK
<1>2. /\ SetTop(s, f) \in Seq(Frame) /\ Len(SetTop(s, f)) = Len(s)
      /\ \A m \in 1..Len(s) : SetTop(s, f)[m] = IF m = Len(s) THEN f ELSE s[m]
  BY <1>1 DEF SetTop
<1>3. \A m \in 1..Len(s) : SetTop(s, f)[m].lv = s[m].lv
  BY <1>2 DEF Top
<1> QED
  BY <1>1, <1>2, <1>3 DEF StackOK, Deep

(* The last container is a container. *)
LEMMA TopIsFrame ==
  ASSUME NEW s, StackOK(s)
  PROVE  Top(s) \in Frame
BY DEF StackOK, Top

(* Marking that the last container has a child keeps a stack. *)
LEMMA MarkProperties ==
  ASSUME NEW s, StackOK(s)
  PROVE  StackOK(Mark(s)) /\ Len(Mark(s)) = Len(s)
<1> DEFINE f == [Top(s) EXCEPT !.has_child = TRUE]
<1>1. f \in Frame /\ f.lv = Top(s).lv
  BY TopIsFrame DEF Frame
<1> QED
  BY <1>1, ChangedTop DEF Mark

(* Deciding the kind of the last container keeps a stack. *)
LEMMA ResolveProperties ==
  ASSUME NEW s, StackOK(s), NEW c \in CallSet
  PROVE  StackOK(Resolve(s, c)) /\ Len(Resolve(s, c)) = Len(s)
<1> DEFINE f == [Top(s) EXCEPT !.child_lv = c.lv, !.close = ClosingOf(c), !.has_child = FALSE]
<1>1. c.lv \in Int
  BY DEF CallSet, MaxLevel
<1>2. ClosingOf(c) \in Brackets
  BY DEF ClosingOf, Brackets
<1>3. f \in Frame /\ f.lv = Top(s).lv
  BY <1>1, <1>2, TopIsFrame DEF Frame
<1>4. StackOK(SetTop(s, f)) /\ Len(SetTop(s, f)) = Len(s)
  BY <1>3, ChangedTop
<1> QED
  BY <1>4 DEF Resolve

(* A wrapped field adds one container, on a stack that has just been left
   down to below its level. *)
LEMMA WrapProperties ==
  ASSUME NEW s, StackOK(s), NEW c \in CallSet,
         Len(s) <= 2 * c.lv + (IF c.k = "elem" THEN 3 ELSE 1)
  PROVE  /\ StackOK(Wrap(s, c))
         /\ c.k = "open" => Len(Wrap(s, c)) <= 2 * c.lv + 2
<1>1. Len(s) \in Nat /\ c.lv \in 0..MaxLevel /\ c.lv \in Int
  BY DEF StackOK, CallSet, MaxLevel
<1>2. CASE Wraps(s, c)
  <2>1. c.k # "elem" /\ Len(s) <= 2 * c.lv + 1
    BY <1>2 DEF Wraps
  <2>2. Len(s) <= 2 * c.lv + 2
    BY <1>1, <2>1
  <2>5. "}" \in Brackets
    BY DEF Brackets
  <2> DEFINE w == Append(s, jcnt(c.lv, c.lv, "}"))
  <2>3. StackOK(w) /\ Len(w) = Len(s) + 1
    BY <1>1, <2>2, <2>5, NewContainer, Zenon
  <2>4. Wrap(s, c) = w
    BY <1>2 DEF Wrap
  <2> HIDE DEF w
  <2> QED
    BY <1>1, <2>1, <2>3, <2>4
<1>3. CASE ~Wraps(s, c)
  BY <1>1, <1>3 DEF Wrap
<1> QED
  BY <1>2, <1>3

(* Opening the container of a key keeps a stack. *)
LEMMA PushProperties ==
  ASSUME NEW s, StackOK(s), NEW c \in CallSet, c.k = "open" => Len(s) <= 2 * c.lv + 2
  PROVE  StackOK(Push(s, c))
<1>1. c.lv \in 0..MaxLevel /\ Undecided \in Int
  BY DEF CallSet, Undecided
<1>4. "" \in Brackets
  BY DEF Brackets
<1>2. CASE c.k = "open"
  <2>1. StackOK(Append(s, jcnt(c.lv, Undecided, "")))
    BY <1>1, <1>2, <1>4, NewContainer, Zenon
  <2> QED
    BY <2>1 DEF Push
<1>3. CASE c.k # "open"
  BY <1>3 DEF Push
<1> QED
  BY <1>2, <1>3

(* The stack behind a call of j_emit. *)
LEMMA JsonStack ==
  ASSUME NEW s, StackOK(s), NEW c \in CallSet
  PROVE  StackOK(Push(j_prelude(s, c).stack, c))
<1> DEFINE s1 == Ascend(s, c)
           s2 == IF Wraps(s1, c) THEN Wrap(Mark(s1), c) ELSE s1
           s3 == Resolve(s2, c)
<1>1. StackOK(s1) /\ Len(s1) <= 2 * c.lv + (IF c.k = "elem" THEN 3 ELSE 1)
  BY AscendProperties
<1>2. Len(s1) \in Nat /\ c.lv \in Int
  BY <1>1 DEF StackOK, CallSet, MaxLevel
<1> HIDE DEF s1
<1>3. StackOK(Mark(s1)) /\ Len(Mark(s1)) = Len(s1)
  BY <1>1, MarkProperties
<1>4. StackOK(s2) /\ (c.k = "open" => Len(s2) <= 2 * c.lv + 2)
  <2>1. StackOK(Wrap(Mark(s1), c)) /\ (c.k = "open" => Len(Wrap(Mark(s1), c)) <= 2 * c.lv + 2)
    BY <1>1, <1>3, WrapProperties
  <2>2. c.k = "open" => Len(s1) <= 2 * c.lv + 2
    BY <1>1, <1>2
  <2> QED
    BY <1>1, <2>1, <2>2
<1> HIDE DEF s2
<1>5. StackOK(s3) /\ Len(s3) = Len(s2)
  BY <1>4, ResolveProperties
<1> HIDE DEF s3
<1>6. StackOK(Mark(s3)) /\ Len(Mark(s3)) = Len(s3)
  BY <1>5, MarkProperties
<1>7. StackOK(Push(Mark(s3), c))
  BY <1>4, <1>5, <1>6, PushProperties
<1> QED
  BY <1>7 DEF j_prelude, s1, s2, s3

(* A key that is counted again leaves a count of keys. *)
LEMMA DedupKeys ==
  ASSUME NEW f \in Frame, NEW key \in STRING
  PROVE  y_dedup_key(f, key).ek \in Keys
<1> DEFINE n == IF key \in DOMAIN f.ek THEN f.ek[key] + 1 ELSE 1
           g == [x \in DOMAIN f.ek \cup {key} |-> IF x = key THEN n ELSE f.ek[x]]
<1>1. PICK D \in SUBSET STRING : f.ek \in [D -> Nat]
  BY DEF Frame, Keys
<1>2. n \in Nat
  BY <1>1
<1> HIDE DEF n
<1>3. g \in [D \cup {key} -> Nat]
  BY <1>1, <1>2
<1>4. D \cup {key} \in SUBSET STRING
  BY <1>1
<1> HIDE DEF g
<1>5. g \in Keys
  BY <1>3, <1>4 DEF Keys
<1> QED
  BY <1>5 DEF y_dedup_key, g, n

(* The stack behind a call of y_emit that writes its line. *)
LEMMA YamlStack ==
  ASSUME NEW s, StackOK(s), NEW c \in CallSet
  PROVE  LET s2 == Resolve(Wrap(Ascend(s, c), c), c)
             dd == y_dedup_key(Top(s2), c.key)
             s3 == IF c.k = "elem" THEN s2 ELSE SetTop(s2, [Top(s2) EXCEPT !.ek = dd.ek])
         IN  StackOK(Push(s3, c))
<1> DEFINE s1 == Ascend(s, c)
           s2 == Resolve(Wrap(s1, c), c)
           ek == y_dedup_key(Top(s2), c.key).ek
           f  == [Top(s2) EXCEPT !.ek = ek]
           s3 == IF c.k = "elem" THEN s2 ELSE SetTop(s2, f)
<1>1. StackOK(s1) /\ Len(s1) <= 2 * c.lv + (IF c.k = "elem" THEN 3 ELSE 1)
  BY AscendProperties
<1> HIDE DEF s1
<1>2. StackOK(Wrap(s1, c)) /\ (c.k = "open" => Len(Wrap(s1, c)) <= 2 * c.lv + 2)
  BY <1>1, WrapProperties
<1>3. StackOK(s2) /\ Len(s2) = Len(Wrap(s1, c))
  BY <1>2, ResolveProperties
<1> HIDE DEF s2
<1>4. Top(s2) \in Frame /\ c.key \in STRING
  BY <1>3, TopIsFrame DEF CallSet
<1>5. ek \in Keys
  BY <1>4, DedupKeys
<1> HIDE DEF ek
<1>6. f \in Frame /\ f.lv = Top(s2).lv
  BY <1>4, <1>5 DEF Frame
<1> HIDE DEF f
<1>7. StackOK(s3) /\ Len(s3) = Len(s2)
  BY <1>3, <1>6, ChangedTop
<1> HIDE DEF s3
<1>8. StackOK(Push(s3, c))
  BY <1>2, <1>3, <1>7, PushProperties
<1> QED
  BY <1>8 DEF s1, s2, ek, f, s3

-----------------------------------------------------------------------------
(* The inductive invariant: what is left to be written is calls of known
   levels, and a tree format has a stack with a root while it is written. *)
EmitterInv ==
  /\ calls \in Seq(CallSet) /\ at \in Nat \ {0}
  /\ jstack = <<>> \/ StackOK(jstack)
  /\ pc = "dump" /\ outtype \in Trees => StackOK(jstack)

(* The invariant of the stack holds at the start. *)
LEMMA InvHoldsInit == Init => EmitterInv
  BY DEF Init, EmitterInv

(* The root alone is a stack. *)
LEMMA RootOK ==
  ASSUME NEW close \in Brackets
  PROVE  StackOK(res_init_root(close))
<1> DEFINE f == jcnt(-1, 0, close)
<1>1. <<>> \in Keys
  <2>1. <<>> \in [{} -> Nat] /\ {} \in SUBSET STRING
    OBVIOUS
  <2> QED
    BY <2>1 DEF Keys
<1>2. f \in Frame /\ f.lv = -1
  BY <1>1 DEF jcnt, Frame, MaxLevel
<1> HIDE DEF f
<1>3. <<f>> \in Seq(Frame) /\ Len(<<f>>) = 1 /\ <<f>>[1] = f
  BY <1>2
<1> QED
  BY <1>2, <1>3 DEF StackOK, Deep, res_init_root, f

(* Each step keeps the invariant of the stack. *)
LEMMA InvIsInductive == EmitterInv /\ [Next]_vars => EmitterInv'
<1> SUFFICES ASSUME EmitterInv, [Next]_vars PROVE EmitterInv'
  OBVIOUS
<1> USE DEF EmitterInv
<1>1. CASE res_open
  <2>1. "]" \in Brackets /\ "}" \in Brackets
    BY DEF Brackets
  <2>2. StackOK(res_init_root("]")) /\ StackOK(res_init_root("}"))
    BY <2>1, RootOK
  <2> QED
    BY <1>1, <2>2 DEF res_open
<1>2. CASE res_open_fails
  BY <1>2 DEF res_open_fails
<1>3. CASE NextTable
  <2>1. PICK i \in at..Len(dump_result), z \in Sizes :
          /\ calls' = Calls(dump_result[i], z[1], z[2])
          /\ at' = IF dump_result[i] \in Repeated THEN i ELSE i + 1
    BY <1>3 DEF NextTable
  <2>2. i \in Nat \ {0} /\ i \in 1..Len(dump_result)
    BY <2>1
  <2>3. calls' \in Seq(CallSet) /\ at' \in Nat \ {0}
    BY <2>1, <2>2, CallsAssumption
  <2> QED
    BY <1>3, <2>3 DEF NextTable, stackvars
<1>4. ASSUME Emitting, Consume
      PROVE  /\ calls' \in Seq(CallSet) /\ Head(calls) \in CallSet
             /\ pc = "dump" /\ UNCHANGED <<outtype, pc, at>>
  BY <1>4 DEF Emitting, Consume
<1>5. CASE j_emit
  <2>1. Emitting /\ Consume /\ outtype \in Trees
    BY <1>5 DEF j_emit, Trees
  <2>2. StackOK(jstack) /\ Head(calls) \in CallSet
    BY <1>4, <2>1
  <2>3. jstack' = Push(j_prelude(jstack, Head(calls)).stack, Head(calls))
    BY <1>5 DEF j_emit
  <2>4. StackOK(jstack')
    BY <2>2, <2>3, JsonStack
  <2> QED
    BY <1>4, <2>1, <2>4
<1>6. CASE y_emit
  <2> DEFINE c == Head(calls)
  <2>1. Emitting /\ Consume /\ outtype \in Trees
    BY <1>6 DEF y_emit, Trees
  <2>2. StackOK(jstack) /\ c \in CallSet
    BY <1>4, <2>1
  <2>3. StackOK(Ascend(jstack, c))
    BY <2>2, AscendProperties
  <2>4. StackOK(jstack')
    <3>1. CASE y_wrap_fails(Ascend(jstack, c), c)
      BY <1>6, <2>3, <3>1 DEF y_emit
    <3>2. CASE ~y_wrap_fails(Ascend(jstack, c), c)
      BY <1>6, <2>2, <3>2, YamlStack DEF y_emit
    <3> QED
      BY <3>1, <3>2
  <2> QED
    BY <1>4, <2>1, <2>4
<1>7. CASE res_put
  <2>1. Emitting /\ Consume /\ jstack' = jstack
    BY <1>7 DEF res_put
  <2> QED
    BY <1>4, <2>1
<1>8. CASE res_close
  BY <1>8 DEF res_close
<1>9. CASE UNCHANGED vars
  BY <1>9 DEF vars, stackvars
<1> QED
  BY <1>1, <1>2, <1>3, <1>5, <1>6, <1>7, <1>8, <1>9 DEF Next

(* Levels below 14 leave the stack below MAX_DEPTH. *)
LEMMA InvImpliesBound == EmitterInv => DepthBounded
<1> SUFFICES ASSUME EmitterInv PROVE DepthBounded
  OBVIOUS
<1>1. CASE jstack = <<>>
  BY <1>1 DEF DepthBounded, MAX_DEPTH
<1>2. CASE StackOK(jstack)
  <2>1. jstack \in Seq(Frame) /\ Len(jstack) \in 1..Len(jstack) /\ DOMAIN jstack = 1..Len(jstack)
    BY <1>2 DEF StackOK
  <2>2. jstack[Len(jstack)].lv \in -1..MaxLevel
    <3>1. jstack[Len(jstack)] \in Frame
      BY <2>1
    <3> QED
      BY <3>1 DEF Frame, MaxLevel
  <2>3. \A i \in 1..Len(jstack) : i <= 2 * jstack[i].lv + 3
    BY <1>2 DEF StackOK, Deep
  <2>4. Len(jstack) <= 2 * jstack[Len(jstack)].lv + 3
    BY <2>1, <2>3
  <2>5. Len(jstack) < 31
    <3> DEFINE n == Len(jstack)
               lv == jstack[Len(jstack)].lv
    <3>1. n \in Int /\ lv \in Int /\ lv <= 13 /\ n <= 2 * lv + 3
      BY <2>1, <2>2, <2>4 DEF MaxLevel
    <3> HIDE DEF n, lv
    <3>2. n < 31
      BY <3>1
    <3> QED
      BY <3>2 DEF n
  <2> QED
    BY <2>1, <2>3, <2>5 DEF DepthBounded, MAX_DEPTH
<1> QED
  BY <1>1, <1>2 DEF EmitterInv

(* However many tables a report holds, container i of the stack lies at a
   level of at least (i - 3) / 2, so that j_prelude, which pushes a wrapping
   object without looking at MAX_DEPTH (result.c:174), never writes past
   jstack, and no container is refused for lack of room. *)
THEOREM StackNeverOverflows == Spec => []DepthBounded
<1>1. Spec => []EmitterInv
  BY InvHoldsInit, InvIsInductive, PTL DEF Spec
<1> QED
  BY <1>1, InvImpliesBound, PTL

-----------------------------------------------------------------------------
(* The reader, and texts read one after the other *)

(* Induction over the numbers up to n, with the set T of those for which the
   claim holds *)
LEMMA IntervalInduction ==
  ASSUME NEW n \in Nat, NEW T, 0 \in T, \A i \in 1..n : i - 1 \in T => i \in T
  PROVE  \A i \in 0..n : i \in T
<1> DEFINE Bad == {i \in 0..n : i \notin T}
<1> SUFFICES ASSUME Bad # {} PROVE FALSE
  OBVIOUS
<1>1. Bad \subseteq Nat
  OBVIOUS
<1> HIDE DEF Bad
<1>2. PICK m \in Bad : \A j \in Bad : ~(<<j, m>> \in OpToRel(<, Nat))
  BY <1>1, WFMin, NatLessThanWellFounded, Zenon
<1>3. m \in 0..n /\ m \notin T
  BY DEF Bad
<1>4. m \in 1..n /\ m - 1 \in 0..n /\ m - 1 \in Nat /\ m - 1 < m /\ m \in Nat
  <2>1. m # 0
    BY <1>3
  <2> QED
    BY <1>3, <2>1
<1>5. <<m - 1, m>> \in OpToRel(<, Nat)
  BY <1>4 DEF OpToRel
<1>6. m - 1 \in T
  BY <1>2, <1>4, <1>5 DEF Bad
<1> QED
  BY <1>3, <1>4, <1>6

(* The greatest number of a set bounded by one of its members *)
LEMMA MaxOf ==
  ASSUME NEW m \in Nat, NEW s \in SUBSET (1..m), m \in s
  PROVE  Max(s) = m
<1>1. \A x \in s : (\A y \in s : x >= y) => x = m
  OBVIOUS
<1>2. \A y \in s : m >= y
  OBVIOUS
<1> QED
  BY <1>1, <1>2 DEF Max

(* A set of numbers that is bounded holds its greatest one. *)
LEMMA MaxIn ==
  ASSUME NEW n \in Nat, NEW s \in SUBSET (1..n), s # {}
  PROVE  Max(s) \in s
<1>1. PICK i \in s : \A j \in (i+1)..n : j \notin s
  BY GreatestElement
<1>2. \A y \in s : i >= y
  BY <1>1
<1> QED
  BY <1>2 DEF Max

(* A fold over a sequence of n elements, as FoldLeft goes through it: the
   function f of the sets of positions still to be folded exists. *)
Folding(S, n, base, G) ==
  \E f \in [SUBSET (1..n) -> S] :
    \A s \in SUBSET (1..n) : f[s] = IF s = {} THEN base ELSE G[<<f[s \ {Max(s)}], Max(s)>>]

(* A fold over 1..n is a function that satisfies its equations. *)
LEMMA FoldExists ==
  ASSUME NEW S, NEW n \in Nat, NEW base \in S, NEW G \in [S \X (1..n) -> S]
  PROVE  Folding(S, n, base, G)
<1> DEFINE Good(m, f) ==
             \A s \in SUBSET (1..m) : f[s] = IF s = {} THEN base ELSE G[<<f[s \ {Max(s)}], Max(s)>>]
           T == {m \in 0..n : \E f \in [SUBSET (1..m) -> S] : Good(m, f)}
<1>1. 0 \in T
  <2> DEFINE f == [s \in SUBSET (1..0) |-> base]
  <2>1. f \in [SUBSET (1..0) -> S] /\ Good(0, f)
    <3>1. \A s \in SUBSET (1..0) : s = {}
      OBVIOUS
    <3> QED
      BY <3>1
  <2>2. 0 \in 0..n
    OBVIOUS
  <2> HIDE DEF f, Good
  <2> QED
    BY <2>1, <2>2, Zenon
<1>2. ASSUME NEW m \in 1..n, m - 1 \in T PROVE m \in T
  <2>1. PICK f \in [SUBSET (1..(m - 1)) -> S] : Good(m - 1, f)
    BY <1>2
  <2> DEFINE h == [s \in SUBSET (1..m) |-> IF m \in s THEN G[<<f[s \ {m}], m>>] ELSE f[s]]
  <2>2. \A s \in SUBSET (1..m) : s \ {m} \in SUBSET (1..(m - 1)) /\ (m \notin s => s \in SUBSET (1..(m - 1)))
    OBVIOUS
  <2>3. h \in [SUBSET (1..m) -> S]
    <3> SUFFICES ASSUME NEW s \in SUBSET (1..m)
                 PROVE  (IF m \in s THEN G[<<f[s \ {m}], m>>] ELSE f[s]) \in S
      OBVIOUS
    <3>1. <<f[s \ {m}], m>> \in S \X (1..n)
      BY <2>2
    <3>2. G[<<f[s \ {m}], m>>] \in S
      BY <3>1
    <3> QED
      BY <2>2, <3>2
  <2>4. ASSUME NEW s \in SUBSET (1..m)
        PROVE  h[s] = IF s = {} THEN base ELSE G[<<h[s \ {Max(s)}], Max(s)>>]
    <3>1. CASE m \in s
      <4>1. Max(s) = m /\ s # {}
        BY <3>1, MaxOf
      <4>2. h[s] = G[<<f[s \ {m}], m>>]
        BY <3>1
      <4>3. s \ {m} \in SUBSET (1..m) /\ m \notin s \ {m}
        OBVIOUS
      <4>4. h[s \ {m}] = f[s \ {m}]
        BY <4>3
      <4> HIDE DEF h
      <4> QED
        BY <4>1, <4>2, <4>4
    <3>2. CASE m \notin s
      <4>1. s \in SUBSET (1..(m - 1))
        BY <2>2, <3>2
      <4>2. h[s] = f[s]
        BY <3>2
      <4>3. f[s] = IF s = {} THEN base ELSE G[<<f[s \ {Max(s)}], Max(s)>>]
        BY <2>1, <4>1
      <4>4. s \ {Max(s)} \in SUBSET (1..m) /\ m \notin s \ {Max(s)}
        BY <3>2
      <4>5. h[s \ {Max(s)}] = f[s \ {Max(s)}]
        BY <4>4
      <4> HIDE DEF h
      <4> QED
        BY <4>2, <4>3, <4>5
    <3> QED
      BY <3>1, <3>2
  <2>5. Good(m, h)
    BY <2>4
  <2> HIDE DEF h, Good
  <2> QED
    BY <2>3, <2>5
<1>3. n \in T
  <2> HIDE DEF T
  <2>1. \A i \in 0..n : i \in T
    BY <1>1, <1>2, IntervalInduction
  <2> QED
    BY <2>1
<1> QED
  BY <1>3 DEF Folding

(* What a fold of n steps leaves, by way of the states after each step *)
Traced(S, n, base, G, r) ==
  \E g \in [0..n -> S] :
    g[0] = base /\ r = g[n] /\ \A i \in 1..n : g[i] = G[<<g[i - 1], i>>]

(* The function FoldLeft chooses goes through the sequence step by step. *)
LEMMA FoldTrace ==
  ASSUME NEW S, NEW n \in Nat, NEW base \in S, NEW G \in [S \X (1..n) -> S], NEW iter,
         iter[{}] = base,
         \A s \in SUBSET (1..n) :
           s # {} /\ iter[s \ {Max(s)}] \in S => iter[s] = G[<<iter[s \ {Max(s)}], Max(s)>>]
  PROVE  Traced(S, n, base, G, iter[1..n])
<1> DEFINE g == [i \in 0..n |-> iter[1..i]]
           T == {i \in 0..n : g[i] \in S}
<1>1. g[0] = base /\ 0 \in T
  <2>1. 1..0 = {} /\ 0 \in 0..n
    OBVIOUS
  <2>2. g[0] = iter[1..0]
    BY <2>1
  <2> QED
    BY <2>1, <2>2
<1>2. ASSUME NEW i \in 1..n, i - 1 \in T PROVE g[i] = G[<<g[i - 1], i>>] /\ i \in T
  <2>1. /\ i \in 0..n /\ i - 1 \in 0..n /\ (1..i) \ {i} = 1..(i - 1)
        /\ i \in 1..i /\ 1..i \in SUBSET (1..n) /\ i \in Nat
    OBVIOUS
  <2>2. Max(1..i) = i /\ 1..i # {}
    BY <2>1, MaxOf
  <2>3. g[i] = iter[1..i] /\ g[i - 1] = iter[1..(i - 1)]
    BY <2>1
  <2>4. g[i - 1] \in S
    BY <1>2
  <2> HIDE DEF g
  <2>5. (1..i) \ {Max(1..i)} = 1..(i - 1)
    BY <2>1, <2>2
  <2>6. iter[1..i] = G[<<iter[1..(i - 1)], i>>]
    BY <2>1, <2>2, <2>3, <2>4, <2>5
  <2>7. G[<<g[i - 1], i>>] \in S
    BY <2>4
  <2> QED
    BY <2>1, <2>3, <2>6, <2>7
<1>3. \A i \in 0..n : i \in T
  <2> HIDE DEF T, g
  <2> QED
    BY <1>1, <1>2, IntervalInduction
<1>4. g \in [0..n -> S]
  BY <1>3
<1>5. \A i \in 1..n : g[i] = G[<<g[i - 1], i>>]
  <2>1. \A i \in 1..n : i - 1 \in 0..n
    OBVIOUS
  <2> HIDE DEF T, g
  <2> QED
    BY <1>2, <1>3, <2>1
<1>6. g[n] = iter[1..n]
  OBVIOUS
<1> HIDE DEF g
<1> QED
  BY <1>1, <1>4, <1>5, <1>6 DEF Traced

(* Reading tokens one by one *)
ReaderStates == {"document", "end", "member", "object_first", "object_more", "key",
                 "array_first", "array_more", "element", "error"}
Readers == Seq(ReaderStates)
Tokens == {"{", "}", "[", "]", ",", "key", "string"}

(* Front and Last undo Append. *)
LEMMA FrontLast ==
  ASSUME NEW S, NEW q \in Seq(S), NEW x \in S
  PROVE  /\ Append(q, x) \in Seq(S) /\ Front(Append(q, x)) = q /\ Last(Append(q, x)) = x
         /\ Front(q) \in Seq(S)
<1>1. Append(q, x) \in Seq(S) /\ Len(Append(q, x)) = Len(q) + 1 /\ Append(q, x)[Len(q) + 1] = x
  OBVIOUS
<1>2. Front(q) \in Seq(S)
  BY DEF Front
<1>3. Len(q) + 1 - 1 = Len(q)
  OBVIOUS
<1>4. SubSeq(Append(q, x), 1, Len(q)) = q
  OBVIOUS
<1> QED
  BY <1>1, <1>2, <1>3, <1>4 DEF Front, Last

(* Reading a token leaves a reader. *)
LEMMA ReadType ==
  ASSUME NEW r \in Readers, NEW t
  PROVE  Read(r, t) \in Readers
<1>1. Front(r) \in Readers
  BY FrontLast DEF Readers, ReaderStates
<1>2. \A x \in ReaderStates : Append(Front(r), x) \in Readers
  <2> HIDE DEF ReaderStates
  <2> QED
    BY <1>1 DEF Readers
<1>3. \A x, y \in ReaderStates : Append(Append(Front(r), x), y) \in Readers
  <2> HIDE DEF ReaderStates
  <2> QED
    BY <1>2 DEF Readers
<1>4. \A s \in DOMAIN AfterValue : AfterValue[s] \in ReaderStates
  BY DEF AfterValue, ReaderStates
<1>5. "error" \in ReaderStates
  BY DEF ReaderStates
<1>6. <<"error">> \in Readers
  BY <1>5 DEF Readers
<1>7. {"object_first", "array_first", "member", "key", "element"} \subseteq ReaderStates
  BY DEF ReaderStates
<1> DEFINE s == Last(r)
           To(x) == Append(Front(r), x)
<1>8. \/ Read(r, t) = To(AfterValue[s]) /\ s \in DOMAIN AfterValue
      \/ Read(r, t) = Append(To(AfterValue[s]), "object_first") /\ s \in DOMAIN AfterValue
      \/ Read(r, t) = Append(To(AfterValue[s]), "array_first") /\ s \in DOMAIN AfterValue
      \/ Read(r, t) = To("member") \/ Read(r, t) = To("key") \/ Read(r, t) = To("element")
      \/ Read(r, t) = Front(r) \/ Read(r, t) = <<"error">>
  BY DEF Read
<1> HIDE DEF s
<1> QED
  BY <1>1, <1>2, <1>3, <1>4, <1>6, <1>7, <1>8, Zenon

ReadTrace(r, tokens) ==
  \E g \in [0..Len(tokens) -> Readers] :
    /\ g[0] = r /\ \A i \in 1..Len(tokens) : g[i] = Read(g[i - 1], tokens[i])
    /\ ReadAll(r, tokens) = g[Len(tokens)]

(* ReadAll reads one token after the other. *)
LEMMA ReadAllTrace ==
  ASSUME NEW r \in Readers, NEW tokens \in Seq(Tokens)
  PROVE  ReadTrace(r, tokens)
<1> DEFINE n == Len(tokens)
           G == [x \in Readers \X (1..n) |-> Read(x[1], tokens[x[2]])]
           Eq(f) == f = [s \in SUBSET (DOMAIN tokens) |->
                           IF s = {} THEN r ELSE Read(f[s \ {Max(s)}], tokens[Max(s)])]
           iter == CHOOSE f : Eq(f)
<1>0. n \in Nat /\ DOMAIN tokens = 1..n
  OBVIOUS
<1>1. ReadAll(r, tokens) = iter[1..n]
  <2>1. ReadAll(r, tokens) = iter[DOMAIN tokens]
    BY Zenon DEF ReadAll, FoldLeft, MapThenFoldSet
  <2> QED
    BY <1>0, <2>1
<1>2. G \in [Readers \X (1..n) -> Readers]
  BY ReadType
<1>3. \A x \in Readers, i \in 1..n : G[<<x, i>>] = Read(x, tokens[i])
  OBVIOUS
<1> HIDE DEF n, G
<1>4. PICK f \in [SUBSET (1..n) -> Readers] :
        \A s \in SUBSET (1..n) : f[s] = IF s = {} THEN r ELSE G[<<f[s \ {Max(s)}], Max(s)>>]
  <2>1. Folding(Readers, n, r, G)
    BY <1>0, <1>2, FoldExists
  <2> QED
    BY <2>1 DEF Folding
<1>5. \A s \in SUBSET (1..n) : s # {} => Max(s) \in 1..n
  BY <1>0, MaxIn
<1>6. Eq(f)
  <2>1. f = [s \in SUBSET (1..n) |-> f[s]]
    OBVIOUS
  <2>2. ASSUME NEW s \in SUBSET (1..n) PROVE f[s] = IF s = {} THEN r ELSE Read(f[s \ {Max(s)}], tokens[Max(s)])
    <3>1. f[s \ {Max(s)}] \in Readers
      OBVIOUS
    <3> QED
      BY <1>3, <1>4, <1>5, <3>1
  <2> QED
    BY <1>0, <2>1, <2>2, Zenon
<1>7. Eq(iter)
  <2> HIDE DEF Eq
  <2> QED
    BY <1>6
<1> HIDE DEF iter
<1>8. \A s \in SUBSET (1..n) : iter[s] = IF s = {} THEN r ELSE Read(iter[s \ {Max(s)}], tokens[Max(s)])
  <2>1. iter = [s \in SUBSET (1..n) |-> IF s = {} THEN r ELSE Read(iter[s \ {Max(s)}], tokens[Max(s)])]
    BY <1>0, <1>7, Zenon
  <2> QED
    BY <2>1, Zenon
<1>9. iter[{}] = r /\ \A s \in SUBSET (1..n) :
        s # {} /\ iter[s \ {Max(s)}] \in Readers => iter[s] = G[<<iter[s \ {Max(s)}], Max(s)>>]
  BY <1>3, <1>5, <1>8
<1>10. Traced(Readers, n, r, G, iter[1..n])
  BY <1>0, <1>2, <1>9, FoldTrace
<1>11. PICK g \in [0..n -> Readers] :
         g[0] = r /\ iter[1..n] = g[n] /\ \A i \in 1..n : g[i] = G[<<g[i - 1], i>>]
  BY <1>10 DEF Traced
<1>12. ASSUME NEW i \in 1..n PROVE g[i] = Read(g[i - 1], tokens[i])
  <2>1. i - 1 \in 0..n
    BY <1>0
  <2> QED
    BY <1>3, <1>11, <2>1
<1> QED
  BY <1>1, <1>11, <1>12 DEF ReadTrace, n

(* No token leaves the reader as it is. *)
LEMMA ReadEmpty ==
  ASSUME NEW r \in Readers
  PROVE  ReadAll(r, <<>>) = r
<1>1. <<>> \in Seq(Tokens) /\ Len(<<>>) = 0
  OBVIOUS
<1>2. ReadTrace(r, <<>>)
  BY <1>1, ReadAllTrace
<1> QED
  BY <1>1, <1>2 DEF ReadTrace

(* One token is one step of the reader. *)
LEMMA ReadOne ==
  ASSUME NEW r \in Readers, NEW t \in Tokens
  PROVE  ReadAll(r, <<t>>) = Read(r, t)
<1>1. <<t>> \in Seq(Tokens) /\ Len(<<t>>) = 1 /\ <<t>>[1] = t
  OBVIOUS
<1>2. ReadTrace(r, <<t>>)
  BY <1>1, ReadAllTrace
<1>3. PICK g \in [0..1 -> Readers] :
        g[0] = r /\ (\A i \in 1..1 : g[i] = Read(g[i - 1], <<t>>[i])) /\ ReadAll(r, <<t>>) = g[1]
  BY <1>1, <1>2 DEF ReadTrace
<1>4. 1 \in 1..1 /\ 1 - 1 = 0
  OBVIOUS
<1>5. g[1] = Read(g[1 - 1], <<t>>[1])
  BY <1>3, <1>4
<1> QED
  BY <1>1, <1>3, <1>4, <1>5

(* Two texts in a row are read one after the other. *)
LEMMA ReadConcat ==
  ASSUME NEW r \in Readers, NEW a \in Seq(Tokens), NEW b \in Seq(Tokens)
  PROVE  ReadAll(r, a) \in Readers /\ ReadAll(r, a \o b) = ReadAll(ReadAll(r, a), b)
<1> DEFINE n == Len(a)
           m == Len(b)
           c == a \o b
<1>1. /\ n \in Nat /\ m \in Nat /\ c \in Seq(Tokens) /\ Len(c) = n + m
      /\ \A i \in 1..n : c[i] = a[i]
      /\ \A i \in 1..m : c[n + i] = b[i]
  OBVIOUS
<1>2. PICK f \in [0..n -> Readers] :
        f[0] = r /\ (\A i \in 1..n : f[i] = Read(f[i - 1], a[i])) /\ ReadAll(r, a) = f[n]
  BY ReadAllTrace DEF ReadTrace
<1>3. ReadAll(r, a) \in Readers
  BY <1>1, <1>2
<1>4. PICK g \in [0..m -> Readers] :
        /\ g[0] = ReadAll(r, a) /\ \A i \in 1..m : g[i] = Read(g[i - 1], b[i])
        /\ ReadAll(ReadAll(r, a), b) = g[m]
  BY <1>3, ReadAllTrace DEF ReadTrace
<1>5. PICK h \in [0..(n + m) -> Readers] :
        h[0] = r /\ (\A i \in 1..(n + m) : h[i] = Read(h[i - 1], c[i])) /\ ReadAll(r, c) = h[n + m]
  <2>1. ReadTrace(r, c)
    BY <1>1, ReadAllTrace
  <2> QED
    BY <1>1, <2>1 DEF ReadTrace
<1> HIDE DEF n, m, c
<1>6. \A i \in 0..n : h[i] = f[i]
  <2> DEFINE T == {i \in 0..n : h[i] = f[i]}
  <2>1. 0 \in T
    BY <1>1, <1>2, <1>5
  <2>2. ASSUME NEW i \in 1..n, i - 1 \in T PROVE i \in T
    <3>1. h[i - 1] = f[i - 1] /\ i \in 0..n /\ i \in 1..(n + m)
      BY <1>1, <2>2
    <3> QED
      BY <1>1, <1>2, <1>5, <3>1
  <2> HIDE DEF T
  <2>3. \A i \in 0..n : i \in T
    BY <1>1, <2>1, <2>2, IntervalInduction
  <2> QED
    BY <2>3 DEF T
<1>7. \A i \in 0..m : h[n + i] = g[i]
  <2> DEFINE T == {i \in 0..m : h[n + i] = g[i]}
  <2>1. 0 \in T
    <3>1. h[n] = f[n] /\ n + 0 = n /\ 0 \in 0..m
      BY <1>1, <1>6
    <3> QED
      BY <1>2, <1>4, <3>1
  <2>2. ASSUME NEW i \in 1..m, i - 1 \in T PROVE i \in T
    <3>1. h[n + (i - 1)] = g[i - 1] /\ i \in 0..m /\ n + i \in 1..(n + m) /\ (n + i) - 1 = n + (i - 1)
      BY <1>1, <2>2
    <3>2. h[n + i] = Read(h[n + (i - 1)], c[n + i])
      BY <1>5, <3>1
    <3> QED
      BY <1>1, <1>4, <3>1, <3>2
  <2> HIDE DEF T
  <2>3. \A i \in 0..m : i \in T
    BY <1>1, <2>1, <2>2, IntervalInduction
  <2> QED
    BY <2>3 DEF T
<1>8. h[n + m] = g[m]
  BY <1>1, <1>7
<1> QED
  BY <1>3, <1>4, <1>5, <1>8 DEF c

(* Two tokens are two steps of the reader. *)
LEMMA ReadTwo ==
  ASSUME NEW r \in Readers, NEW t \in Tokens, NEW u \in Tokens
  PROVE  ReadAll(r, <<t, u>>) = Read(Read(r, t), u)
<1> DEFINE q == <<t, u>>
<1>1. q \in Seq(Tokens) /\ Len(q) = 2 /\ q[1] = t /\ q[2] = u
  OBVIOUS
<1> HIDE DEF q
<1>2. ReadTrace(r, q)
  BY <1>1, ReadAllTrace
<1>3. PICK g \in [0..2 -> Readers] :
        g[0] = r /\ (\A i \in 1..2 : g[i] = Read(g[i - 1], q[i])) /\ ReadAll(r, q) = g[2]
  BY <1>1, <1>2 DEF ReadTrace
<1>4. 1 \in 1..2 /\ 2 \in 1..2 /\ 1 - 1 = 0 /\ 2 - 1 = 1
  OBVIOUS
<1>5. g[1] = Read(g[1 - 1], q[1]) /\ g[2] = Read(g[2 - 1], q[2])
  BY <1>3, <1>4
<1>6. ReadAll(r, q) = Read(Read(r, t), u)
  BY <1>1, <1>3, <1>4, <1>5
<1> QED
  BY <1>6 DEF q

(* What the reader does with the tokens the emitter writes *)
LEMMA ReadFacts ==
  ASSUME NEW q \in Readers
  PROVE  /\ Read(Append(q, "member"), "string") = Append(q, "object_more")
         /\ Read(Append(q, "member"), "{") = Append(Append(q, "object_more"), "object_first")
         /\ Read(Append(q, "member"), "[") = Append(Append(q, "object_more"), "array_first")
         /\ \A x \in {"array_first", "element"} :
              /\ Read(Append(q, x), "string") = Append(q, "array_more")
              /\ Read(Append(q, x), "{") = Append(Append(q, "array_more"), "object_first")
         /\ \A x \in {"object_first", "key"} : Read(Append(q, x), "key") = Append(q, "member")
         /\ Read(Append(q, "object_more"), ",") = Append(q, "key")
         /\ Read(Append(q, "array_more"), ",") = Append(q, "element")
         /\ \A x \in {"object_first", "object_more"} : Read(Append(q, x), "}") = q
         /\ \A x \in {"array_first", "array_more"} : Read(Append(q, x), "]") = q
         /\ Read(Append(q, "document"), "{") = Append(Append(q, "end"), "object_first")
         /\ Read(Append(q, "document"), "[") = Append(Append(q, "end"), "array_first")
<1>1. \A x \in ReaderStates : Front(Append(q, x)) = q /\ Last(Append(q, x)) = x
  <2> HIDE DEF ReaderStates
  <2> QED
    BY FrontLast DEF Readers
<1>2. ASSUME NEW x \in ReaderStates
      PROVE  /\ Front(Append(q, x)) = q /\ Last(Append(q, x)) = x
  BY <1>1
<1>3. {"document", "end", "member", "object_first", "object_more", "key",
       "array_first", "array_more", "element", "error"} = ReaderStates
  BY DEF ReaderStates
<1>4. DOMAIN AfterValue = {"document", "member", "array_first", "element"} /\ AfterValue["document"] = "end"
      /\ AfterValue["member"] = "object_more" /\ AfterValue["array_first"] = "array_more"
      /\ AfterValue["element"] = "array_more"
  BY DEF AfterValue
<1>5. /\ Read(Append(q, "member"), "string") = Append(q, "object_more")
      /\ Read(Append(q, "member"), "{") = Append(Append(q, "object_more"), "object_first")
      /\ Read(Append(q, "member"), "[") = Append(Append(q, "object_more"), "array_first")
  <2>1. Front(Append(q, "member")) = q /\ Last(Append(q, "member")) = "member"
    BY <1>2, <1>3
  <2> QED
    BY <1>4, <2>1 DEF Read
<1>6. ASSUME NEW x \in {"array_first", "element"}
      PROVE  /\ Read(Append(q, x), "string") = Append(q, "array_more")
             /\ Read(Append(q, x), "{") = Append(Append(q, "array_more"), "object_first")
  <2>1. Front(Append(q, x)) = q /\ Last(Append(q, x)) = x
    BY <1>2, <1>3
  <2> QED
    BY <1>4, <2>1 DEF Read
<1>7. ASSUME NEW x \in {"object_first", "key"} PROVE Read(Append(q, x), "key") = Append(q, "member")
  <2>1. Front(Append(q, x)) = q /\ Last(Append(q, x)) = x
    BY <1>2, <1>3
  <2> QED
    BY <1>4, <2>1 DEF Read
<1>8. /\ Read(Append(q, "object_more"), ",") = Append(q, "key")
      /\ Read(Append(q, "array_more"), ",") = Append(q, "element")
  <2>1. /\ Front(Append(q, "object_more")) = q /\ Last(Append(q, "object_more")) = "object_more"
        /\ Front(Append(q, "array_more")) = q /\ Last(Append(q, "array_more")) = "array_more"
    BY <1>2, <1>3
  <2> QED
    BY <1>4, <2>1 DEF Read
<1>9. ASSUME NEW x \in {"object_first", "object_more"} PROVE Read(Append(q, x), "}") = q
  <2>1. Front(Append(q, x)) = q /\ Last(Append(q, x)) = x
    BY <1>2, <1>3
  <2> QED
    BY <1>4, <2>1 DEF Read
<1>10. ASSUME NEW x \in {"array_first", "array_more"} PROVE Read(Append(q, x), "]") = q
  <2>1. Front(Append(q, x)) = q /\ Last(Append(q, x)) = x
    BY <1>2, <1>3
  <2> QED
    BY <1>4, <2>1 DEF Read
<1>11. /\ Read(Append(q, "document"), "{") = Append(Append(q, "end"), "object_first")
       /\ Read(Append(q, "document"), "[") = Append(Append(q, "end"), "array_first")
  <2>1. Front(Append(q, "document")) = q /\ Last(Append(q, "document")) = "document"
    BY <1>2, <1>3
  <2> QED
    BY <1>4, <2>1 DEF Read
<1> QED
  BY <1>5, <1>6, <1>7, <1>8, <1>9, <1>10, <1>11

-----------------------------------------------------------------------------
(* The reader a stack of containers stands for *)

(* What the reader expects in a container, and in a stack of them *)
Expects(f) ==
  IF f.close = "}" THEN IF f.has_child THEN "object_more" ELSE "object_first"
                   ELSE IF f.has_child THEN "array_more" ELSE "array_first"
Base(s) == [i \in 1..(Len(s) + 1) |-> IF i = 1 THEN "end" ELSE Expects(s[i - 1])]
ReaderOf(s) == IF IsUndecided(s) THEN Append(Base(Front(Front(s))), "member") ELSE Base(s)

(* A container is decided unless it is the last one and the value of a key;
   the ones below the last have a child. *)
Settled(f) == f.child_lv # Undecided /\ f.close \in {"}", "]"}
Pending(s) ==
  /\ Len(s) > 1 /\ Top(s).child_lv = Undecided /\ Top(s).close = "" /\ ~Top(s).has_child
  /\ s[Len(s) - 1].close = "}"
Proper(s) ==
  /\ \A i \in 1..(Len(s) - 1) : Settled(s[i]) /\ s[i].has_child
  /\ Settled(Top(s)) \/ Pending(s)

(* What a container expects is a state of the reader. *)
LEMMA ExpectsType ==
  ASSUME NEW f
  PROVE  Expects(f) \in ReaderStates
BY DEF Expects, ReaderStates

(* The reader of a stack has one state a container, and the end below. *)
LEMMA BaseType ==
  ASSUME NEW s \in Seq(Frame)
  PROVE  Base(s) \in Readers /\ Len(Base(s)) = Len(s) + 1
<1>1. Len(s) + 1 \in Nat
  OBVIOUS
<1>2. "end" \in ReaderStates
  BY DEF ReaderStates
<1>3. Base(s) \in [1..(Len(s) + 1) -> ReaderStates]
  <2> HIDE DEF ReaderStates
  <2> QED
    BY <1>1, <1>2, ExpectsType DEF Base
<1> QED
  BY <1>1, <1>3 DEF Readers

(* A container more is a state more. *)
LEMMA BaseAppend ==
  ASSUME NEW s \in Seq(Frame), NEW f \in Frame
  PROVE  Base(Append(s, f)) = Append(Base(s), Expects(f))
<1> DEFINE t == Append(s, f)
           n == Len(s)
           e == Expects(f)
<1>1. t \in Seq(Frame) /\ Len(t) = n + 1 /\ n \in Nat /\ t[n + 1] = f /\ \A i \in 1..n : t[i] = s[i]
  OBVIOUS
<1>2. Base(s) \in Readers /\ Len(Base(s)) = n + 1 /\ Base(t) \in Readers /\ Len(Base(t)) = n + 2
  <2> HIDE DEF t, n
  <2>1. Base(t) \in Readers /\ Len(Base(t)) = n + 1 + 1
    BY <1>1, BaseType
  <2>2. Base(s) \in Readers /\ Len(Base(s)) = n + 1
    BY BaseType DEF n
  <2>3. n + 1 + 1 = n + 2
    BY <1>1
  <2> QED
    BY <2>1, <2>2, <2>3
<1>3. e \in ReaderStates
  BY ExpectsType
<1>4. /\ \A i \in 1..(n + 1) : Base(s)[i] = IF i = 1 THEN "end" ELSE Expects(s[i - 1])
      /\ \A i \in 1..(n + 2) : Base(t)[i] = IF i = 1 THEN "end" ELSE Expects(t[i - 1])
  <2>1. n + 1 + 1 = n + 2
    BY <1>1
  <2> HIDE DEF t, n
  <2> QED
    BY <1>1, <2>1 DEF Base, n
<1> HIDE DEF n, t, e
<1>5. /\ Append(Base(s), e) \in Readers /\ Len(Append(Base(s), e)) = n + 2
      /\ \A i \in 1..(n + 1) : Append(Base(s), e)[i] = Base(s)[i]
      /\ Append(Base(s), e)[n + 2] = e
  <2>1. n \in Nat /\ n + 1 + 1 = n + 2
    BY <1>1
  <2>2. /\ Append(Base(s), e) \in Readers /\ Len(Append(Base(s), e)) = n + 1 + 1
        /\ \A i \in 1..(n + 1) : Append(Base(s), e)[i] = Base(s)[i]
        /\ Append(Base(s), e)[n + 1 + 1] = e
    <3> HIDE DEF ReaderStates
    <3> QED
      BY <1>2, <1>3, <2>1 DEF Readers
  <2> QED
    BY <2>1, <2>2
<1>6. ASSUME NEW i \in 1..(n + 2) PROVE Base(t)[i] = Append(Base(s), e)[i]
  <2>1. CASE i = n + 2
    <3>1. i # 1 /\ i - 1 = n + 1
      BY <1>1, <2>1
    <3>2. Base(t)[i] = Expects(t[n + 1])
      BY <1>4, <3>1
    <3>3. Base(t)[i] = e
      BY <1>1, <3>2 DEF e
    <3> QED
      BY <1>5, <2>1, <3>3
  <2>2. CASE i # n + 2
    <3>1. i \in 1..(n + 1) /\ (i # 1 => i - 1 \in 1..n)
      BY <1>1, <2>2
    <3>2. Base(t)[i] = Base(s)[i]
      BY <1>1, <1>4, <3>1
    <3> QED
      BY <1>5, <3>1, <3>2
  <2> QED
    BY <2>1, <2>2
<1>7. Base(t) = Append(Base(s), e)
  <2> HIDE DEF ReaderStates
  <2> QED
    BY <1>1, <1>2, <1>5, <1>6 DEF Readers
<1> QED
  BY <1>7 DEF t, e

(* A stack is its last container on top of the others. *)
LEMMA StackSplit ==
  ASSUME NEW s \in Seq(Frame), Len(s) > 0
  PROVE  /\ Front(s) \in Seq(Frame) /\ Top(s) \in Frame /\ s = Append(Front(s), Top(s))
         /\ Len(Front(s)) = Len(s) - 1 /\ \A i \in 1..(Len(s) - 1) : Front(s)[i] = s[i]
<1> DEFINE n == Len(s)
           t == SubSeq(s, 1, n - 1)
<1>1. n \in Nat /\ n > 0 /\ s[n] \in Frame
  OBVIOUS
<1>2. t \in Seq(Frame) /\ Len(t) = n - 1 /\ \A i \in 1..(n - 1) : t[i] = s[i]
  <2>1. DOMAIN s = 1..n /\ \A i \in 1..(n - 1) : i \in 1..n
    BY <1>1
  <2>2. SubSeq(s, 1, n - 1) = [i \in 1..(n - 1) |-> s[i]]
    BY <1>1, <2>1
  <2> QED
    BY <1>1, <2>1, <2>2
<1>3. s = Append(t, s[n])
  <2> HIDE DEF t
  <2> DEFINE a == Append(t, s[n])
  <2>1. a \in Seq(Frame) /\ Len(a) = n - 1 + 1 /\ a[n - 1 + 1] = s[n] /\ \A i \in 1..(n - 1) : a[i] = t[i]
    BY <1>1, <1>2
  <2>2. n - 1 + 1 = n /\ \A i \in 1..n : i = n \/ i \in 1..(n - 1)
    BY <1>1
  <2> HIDE DEF a
  <2>3. Len(a) = Len(s) /\ \A i \in 1..Len(s) : a[i] = s[i]
    BY <1>2, <2>1, <2>2
  <2>4. a = s
    BY <2>1, <2>3
  <2> QED
    BY <2>4 DEF a
<1> QED
  BY <1>1, <1>2, <1>3 DEF Front, Top

(* So is the reader of it. *)
LEMMA BaseSplit ==
  ASSUME NEW s \in Seq(Frame), Len(s) > 0
  PROVE  Base(s) = Append(Base(Front(s)), Expects(Top(s))) /\ Base(Front(s)) \in Readers
  BY StackSplit, BaseAppend, BaseType

(* Leaving the last container of a stack *)
LEMMA CloseOne ==
  ASSUME NEW s \in Seq(Frame), Len(s) > 1, Proper(s)
  PROVE  /\ Front(s) \in Seq(Frame) /\ Proper(Front(s)) /\ ReaderOf(Front(s)) = Base(Front(s))
         /\ Settled(Top(Front(s))) /\ Top(Front(s)).has_child
         /\ Closed(Top(s)) \in Seq(Tokens)
         /\ ReaderOf(s) \in Readers
         /\ ReadAll(ReaderOf(s), Closed(Top(s))) = ReaderOf(Front(s))
<1> DEFINE t == Front(s)
           f == Top(s)
           n == Len(s)
<1>1. n \in Nat /\ n > 1
  OBVIOUS
<1>2. t \in Seq(Frame) /\ f \in Frame /\ Len(t) = n - 1 /\ \A i \in 1..(n - 1) : t[i] = s[i]
  BY <1>1, StackSplit
<1>3. /\ \A i \in 1..(n - 1) : Settled(s[i]) /\ s[i].has_child
      /\ Settled(f) \/ Pending(s)
  BY DEF Proper
<1> HIDE DEF t, f, n
<1>4. Top(t) = s[n - 1] /\ Settled(Top(t)) /\ Top(t).has_child
  BY <1>1, <1>2, <1>3 DEF Top
<1>5. Proper(t)
  BY <1>1, <1>2, <1>3, <1>4 DEF Proper
<1>6. ~IsUndecided(t)
  BY <1>4 DEF IsUndecided, Settled
<1>7. ReaderOf(t) = Base(t)
  BY <1>6 DEF ReaderOf
<1>8. Base(t) \in Readers /\ Base(s) = Append(Base(t), Expects(f)) /\ Base(s) \in Readers
  BY <1>1, BaseSplit, BaseType DEF t, f, n
<1>9. CASE Settled(f)
  <2>1. ReaderOf(s) = Base(s)
    BY <1>9 DEF ReaderOf, IsUndecided, Settled, f
  <2>2. Closed(f) = <<f.close>> /\ f.close \in {"}", "]"} /\ f.close \in Tokens
    BY <1>9 DEF Closed, Settled, Tokens
  <2>3. ReadAll(Base(s), <<f.close>>) = Read(Base(s), f.close)
    BY <1>8, <2>2, ReadOne
  <2>4. Read(Append(Base(t), Expects(f)), f.close) = Base(t)
    <3>1. CASE f.close = "}"
      <4>1. Expects(f) \in {"object_first", "object_more"}
        BY <3>1 DEF Expects
      <4> QED
        BY <1>8, <3>1, <4>1, ReadFacts
    <3>2. CASE f.close = "]"
      <4>1. Expects(f) \in {"array_first", "array_more"}
        BY <3>2 DEF Expects
      <4> QED
        BY <1>8, <3>2, <4>1, ReadFacts
    <3> QED
      BY <2>2, <3>1, <3>2
  <2>5. Closed(f) \in Seq(Tokens)
    <3> DEFINE x == f.close
    <3>1. x \in Tokens
      BY <2>2
    <3> HIDE DEF x, Tokens
    <3>2. <<x>> \in Seq(Tokens)
      BY <3>1
    <3> QED
      BY <2>2, <3>2 DEF x
  <2> QED
    BY <1>2, <1>4, <1>5, <1>7, <1>8, <2>1, <2>2, <2>3, <2>4, <2>5 DEF t, f
<1>10. CASE Pending(s)
  <2> DEFINE u == Front(t)
             m == Append(Base(u), "member")
  <2>1. IsUndecided(s) /\ s[n - 1].close = "}"
    BY <1>10 DEF IsUndecided, Pending, n
  <2>2. ReaderOf(s) = m
    BY <2>1 DEF ReaderOf, t
  <2>3. Len(t) > 0
    BY <1>1, <1>2
  <2>4. Base(t) = Append(Base(u), Expects(Top(t))) /\ Base(u) \in Readers
    BY <1>2, <2>3, BaseSplit
  <2>5. Expects(Top(t)) = "object_more"
    BY <1>4, <2>1 DEF Expects
  <2>6. Closed(f) = <<"[", "]">> /\ "[" \in Tokens /\ "]" \in Tokens
    BY <1>10 DEF Closed, Pending, f, Tokens
  <2>7. "member" \in ReaderStates /\ "object_more" \in ReaderStates
    BY DEF ReaderStates
  <2> HIDE DEF u
  <2>8. m \in Readers /\ Append(Base(u), "object_more") \in Readers
    <3> HIDE DEF ReaderStates
    <3> QED
      BY <2>4, <2>7 DEF Readers
  <2>9. ReadAll(m, <<"[", "]">>) = Read(Read(m, "["), "]")
    BY <2>6, <2>8, ReadTwo
  <2>10. Read(m, "[") = Append(Append(Base(u), "object_more"), "array_first")
    BY <2>4, ReadFacts
  <2>11. Read(Append(Append(Base(u), "object_more"), "array_first"), "]") = Append(Base(u), "object_more")
    BY <2>8, ReadFacts
  <2>12. Closed(f) \in Seq(Tokens)
    <3> HIDE DEF Tokens
    <3> QED
      BY <2>6
  <2> HIDE DEF m
  <2> QED
    BY <1>2, <1>4, <1>5, <1>7, <1>8, <2>2, <2>4, <2>5, <2>6, <2>8, <2>9, <2>10, <2>11, <2>12 DEF t, f
<1> QED
  BY <1>3, <1>9, <1>10

(* A function defined by recursion over 0..n exists. *)
Recursion(S, n, base, G) ==
  \E g \in [0..n -> S] : g[0] = base /\ \A i \in 1..n : g[i] = G[<<g[i - 1], i>>]

(* A recursive function over 0..n satisfies its equations. *)
LEMMA RecursionExists ==
  ASSUME NEW S, NEW n \in Nat, NEW base \in S, NEW G \in [S \X (1..n) -> S]
  PROVE  Recursion(S, n, base, G)
<1>0. Folding(S, n, base, G)
  BY FoldExists
<1>1. PICK f \in [SUBSET (1..n) -> S] :
        \A s \in SUBSET (1..n) : f[s] = IF s = {} THEN base ELSE G[<<f[s \ {Max(s)}], Max(s)>>]
  BY <1>0 DEF Folding
<1> DEFINE g == [i \in 0..n |-> f[1..i]]
<1>2. g \in [0..n -> S]
  <2>1. \A i \in 0..n : 1..i \in SUBSET (1..n)
    OBVIOUS
  <2> QED
    BY <2>1
<1>3. g[0] = base
  <2>1. 1..0 = {} /\ 0 \in 0..n /\ {} \in SUBSET (1..n)
    OBVIOUS
  <2>2. g[0] = f[1..0]
    BY <2>1
  <2> QED
    BY <1>1, <2>1, <2>2
<1>4. ASSUME NEW i \in 1..n PROVE g[i] = G[<<g[i - 1], i>>]
  <2>1. i \in 0..n /\ i - 1 \in 0..n /\ (1..i) \ {i} = 1..(i - 1) /\ i \in 1..i /\ 1..i \in SUBSET (1..n) /\ i \in Nat
    OBVIOUS
  <2>2. Max(1..i) = i /\ 1..i # {}
    BY <2>1, MaxOf
  <2>3. g[i] = f[1..i] /\ g[i - 1] = f[1..(i - 1)]
    BY <2>1
  <2>4. f[1..i] = G[<<f[(1..i) \ {Max(1..i)}], Max(1..i)>>]
    BY <1>1, <2>1, <2>2
  <2> HIDE DEF g
  <2> QED
    BY <2>1, <2>2, <2>3, <2>4
<1> HIDE DEF g
<1> QED
  BY <1>2, <1>3, <1>4 DEF Recursion

(* FlattenSeq puts the texts one behind the other. *)
Flattened(q) ==
  \E g \in [0..Len(q) -> Seq(Tokens)] :
    g[0] = <<>> /\ (\A i \in 1..Len(q) : g[i] = g[i - 1] \o q[i]) /\ FlattenSeq(q) = g[Len(q)]

(* FlattenSeq concatenates one sequence after the other. *)
LEMMA FlattenFacts ==
  ASSUME NEW q \in Seq(Seq(Tokens))
  PROVE  Flattened(q)
<1> DEFINE n == Len(q)
           S == Seq(Tokens)
           G == [x \in S \X (1..n) |-> x[1] \o q[x[2]]]
           Eq(f) == f = [i \in 1..n |-> IF i = 1 THEN q[i] ELSE f[i - 1] \o q[i]]
           flat == CHOOSE f : Eq(f)
<1>0. n \in Nat /\ <<>> \in S /\ \A i \in 1..n : q[i] \in S
  OBVIOUS
<1>a. \A a, b \in S : a \o b \in S /\ <<>> \o b = b
  <2> HIDE DEF Tokens
  <2> QED
    OBVIOUS
<1> HIDE DEF S
<1>1. G \in [S \X (1..n) -> S]
  BY <1>0, <1>a
<1>2. PICK g \in [0..n -> S] : g[0] = <<>> /\ \A i \in 1..n : g[i] = G[<<g[i - 1], i>>]
  <2> HIDE DEF G, n
  <2>1. Recursion(S, n, <<>>, G)
    BY <1>0, <1>1, RecursionExists
  <2> QED
    BY <2>1 DEF Recursion
<1>3. ASSUME NEW i \in 1..n PROVE g[i] = g[i - 1] \o q[i] /\ g[i - 1] \in S
  <2>1. i - 1 \in 0..n
    BY <1>0
  <2>2. g[i - 1] \in S /\ <<g[i - 1], i>> \in S \X (1..n)
    BY <2>1
  <2>3. G[<<g[i - 1], i>>] = g[i - 1] \o q[i]
    BY <2>2
  <2> HIDE DEF G
  <2> QED
    BY <1>2, <2>2, <2>3
<1> HIDE DEF n, G
<1>4. CASE n = 0
  <2>1. q = <<>>
    BY <1>4 DEF n
  <2>2. FlattenSeq(q) = q
    BY <1>4 DEF FlattenSeq, n
  <2> QED
    BY <1>0, <1>2, <1>3, <1>4, <2>1, <2>2 DEF Flattened, n, S
<1>5. CASE n # 0
  <2> DEFINE f == [i \in 1..n |-> g[i]]
  <2>0. 1 \in 1..n /\ n \in 1..n
    BY <1>0, <1>5
  <2>1. Eq(f)
    <3>1. ASSUME NEW i \in 1..n PROVE f[i] = IF i = 1 THEN q[i] ELSE f[i - 1] \o q[i]
      <4>1. CASE i = 1
        <5>0. 1 - 1 = 0
          OBVIOUS
        <5>1. g[1] = <<>> \o q[1]
          BY <1>2, <1>3, <2>0, <5>0, Zenon
        <5>2. g[1] = q[1]
          BY <1>0, <1>a, <2>0, <5>1
        <5>3. f[1] = g[1]
          BY <2>0
        <5> HIDE DEF f
        <5> QED
          BY <4>1, <5>2, <5>3
      <4>2. CASE i # 1
        <5>1. i - 1 \in 1..n
          BY <1>0, <4>2
        <5>2. f[i - 1] = g[i - 1] /\ f[i] = g[i]
          BY <5>1
        <5> HIDE DEF f
        <5> QED
          BY <1>3, <4>2, <5>2
      <4> QED
        BY <4>1, <4>2
    <3>2. f = [i \in 1..n |-> f[i]]
      OBVIOUS
    <3> HIDE DEF f
    <3> QED
      BY <3>1, <3>2, Zenon
  <2>2. Eq(flat)
    <3> HIDE DEF f, Eq
    <3> QED
      BY <2>1
  <2>3. FlattenSeq(q) = flat[n]
    BY <1>5, Zenon DEF FlattenSeq, n
  <2> HIDE DEF flat, f
  <2>4. \A i \in 1..n : flat[i] = IF i = 1 THEN q[i] ELSE flat[i - 1] \o q[i]
    BY <2>2, Zenon
  <2> DEFINE T == {0} \cup {i \in 1..n : flat[i] = g[i]}
  <2>5. 0 \in T
    OBVIOUS
  <2>6. ASSUME NEW i \in 1..n, i - 1 \in T PROVE i \in T
    <3>1. CASE i = 1
      <4>0. 1 - 1 = 0
        OBVIOUS
      <4>1. g[1] = <<>> \o q[1]
        BY <1>2, <1>3, <2>0, <4>0, Zenon
      <4>2. <<>> \o q[1] = q[1]
        BY <1>0, <1>a, <2>0
      <4>3. flat[1] = q[1]
        BY <2>0, <2>4
      <4> QED
        BY <2>0, <3>1, <4>1, <4>2, <4>3
    <3>2. CASE i # 1
      <4>1. flat[i - 1] = g[i - 1]
        BY <1>0, <2>6, <3>2
      <4> QED
        BY <1>3, <2>4, <3>2, <4>1
    <3> QED
      BY <3>1, <3>2
  <2>7. \A i \in 0..n : i \in T
    <3> HIDE DEF T
    <3> QED
      BY <1>0, <2>5, <2>6, IntervalInduction
  <2>8. flat[n] = g[n]
    BY <1>0, <1>5, <2>0, <2>7
  <2> QED
    BY <1>2, <1>3, <2>3, <2>8 DEF Flattened, n, S
<1> QED
  BY <1>4, <1>5

(* Leaving the containers above the n-th *)
LEMMA CloseMany ==
  ASSUME NEW s \in Seq(Frame), Proper(s), NEW n \in 1..Len(s)
  PROVE  /\ Closing(s, n) \in Seq(Tokens)
         /\ ReadAll(ReaderOf(s), Closing(s, n)) = ReaderOf(SubSeq(s, 1, n))
         /\ SubSeq(s, 1, n) \in Seq(Frame) /\ Proper(SubSeq(s, 1, n))
         /\ ReaderOf(SubSeq(s, 1, n)) \in Readers
<1> DEFINE k == Len(s)
           m == k - n
           q == [j \in 1..m |-> Closed(s[k + 1 - j])]
           P(j) == SubSeq(s, 1, k - j)
<1>1. k \in Nat /\ m \in 0..k /\ m \in Nat /\ n \in Nat /\ n > 0 /\ n <= k
  OBVIOUS
<1>2. ASSUME NEW j \in 0..m
      PROVE  P(j) \in Seq(Frame) /\ Len(P(j)) = k - j /\ k - j > 0 /\ \A i \in 1..(k - j) : P(j)[i] = s[i]
  <2>1. k - j \in 1..k
    BY <1>1
  <2> DEFINE x == k - j
  <2> HIDE DEF x, k
  <2>2. DOMAIN s = 1..k /\ x \in 1..k
    BY <1>1, <2>1 DEF k, x
  <2>3. SubSeq(s, 1, x) = [i \in 1..x |-> s[i]]
    BY <1>1, <2>2
  <2>4. SubSeq(s, 1, x) \in Seq(Frame) /\ Len(SubSeq(s, 1, x)) = x /\ \A i \in 1..x : SubSeq(s, 1, x)[i] = s[i]
    BY <1>1, <2>2, <2>3
  <2> QED
    BY <1>1, <2>2, <2>4 DEF x
<1>3. P(0) = s
  <2>1. k - 0 = k
    BY <1>1
  <2>2. SubSeq(s, 1, k) = s
    OBVIOUS
  <2> QED
    BY <2>1, <2>2
<1>4. ASSUME NEW j \in 1..m
      PROVE  Front(P(j - 1)) = P(j) /\ Top(P(j - 1)) = s[k + 1 - j] /\ Len(P(j - 1)) > 1
  <2>1. j - 1 \in 0..m /\ j \in 0..m /\ k - (j - 1) = k + 1 - j /\ k + 1 - j > 1 /\ (k + 1 - j) - 1 = k - j
    BY <1>1
  <2>2. P(j - 1) \in Seq(Frame) /\ Len(P(j - 1)) = k + 1 - j /\ \A i \in 1..(k + 1 - j) : P(j - 1)[i] = s[i]
    BY <1>2, <2>1
  <2>3. P(j) \in Seq(Frame) /\ Len(P(j)) = k - j /\ \A i \in 1..(k - j) : P(j)[i] = s[i]
    BY <1>2, <2>1
  <2> HIDE DEF P
  <2> DEFINE a == P(j - 1)
             b == P(j)
             x == k + 1 - j
  <2>4. x \in Nat /\ x > 1 /\ x - 1 = k - j /\ \A i \in 1..(x - 1) : i \in 1..x
    BY <1>1, <2>1
  <2>5. a \in Seq(Frame) /\ Len(a) = x /\ \A i \in 1..x : a[i] = s[i]
    BY <2>2
  <2>6. b \in Seq(Frame) /\ Len(b) = x - 1 /\ \A i \in 1..(x - 1) : b[i] = s[i]
    BY <2>3, <2>4
  <2> HIDE DEF a, b, x, k
  <2>7. Front(a) \in Seq(Frame) /\ Len(Front(a)) = x - 1 /\ \A i \in 1..(x - 1) : Front(a)[i] = a[i]
    <3>1. Len(a) > 0
      BY <2>4, <2>5
    <3>2. /\ Front(a) \in Seq(Frame) /\ Len(Front(a)) = Len(a) - 1
          /\ \A i \in 1..(Len(a) - 1) : Front(a)[i] = a[i]
      BY <2>5, <3>1, StackSplit
    <3> QED
      BY <2>5, <3>2
  <2>8. Front(a) = b
    BY <2>4, <2>5, <2>6, <2>7
  <2>9. Top(a) = s[x]
    BY <2>4, <2>5 DEF Top
  <2> QED
    BY <2>1, <2>4, <2>5, <2>8, <2>9 DEF a, b, x
<1> HIDE DEF k, m, P
<1>5. ASSUME NEW j \in 1..m, Proper(P(j - 1))
      PROVE  /\ Proper(P(j)) /\ ReaderOf(P(j)) \in Readers /\ ReaderOf(P(j - 1)) \in Readers
             /\ Closed(s[k + 1 - j]) \in Seq(Tokens)
             /\ ReadAll(ReaderOf(P(j - 1)), Closed(s[k + 1 - j])) = ReaderOf(P(j))
  <2>1. j - 1 \in 0..m /\ j \in 0..m
    BY <1>1
  <2>2. P(j - 1) \in Seq(Frame) /\ Len(P(j - 1)) > 1
    BY <1>2, <1>4, <2>1
  <2>3. /\ Proper(Front(P(j - 1))) /\ ReaderOf(Front(P(j - 1))) = Base(Front(P(j - 1)))
        /\ Front(P(j - 1)) \in Seq(Frame)
        /\ Closed(Top(P(j - 1))) \in Seq(Tokens) /\ ReaderOf(P(j - 1)) \in Readers
        /\ ReadAll(ReaderOf(P(j - 1)), Closed(Top(P(j - 1)))) = ReaderOf(Front(P(j - 1)))
    BY <1>5, <2>2, CloseOne
  <2>4. Base(Front(P(j - 1))) \in Readers
    BY <2>3, BaseType
  <2> QED
    BY <1>4, <2>3, <2>4
<1> DEFINE T == {j \in 0..m : Proper(P(j))}
<1>6. \A j \in 0..m : Proper(P(j))
  <2>1. 0 \in T
    BY <1>1, <1>3
  <2>2. \A j \in 1..m : j - 1 \in T => j \in T
    BY <1>1, <1>5
  <2>3. \A j \in 0..m : j \in T
    <3> HIDE DEF T
    <3> QED
      BY <1>1, <2>1, <2>2, IntervalInduction
  <2> QED
    BY <2>3
<1> HIDE DEF T
<1>7. \A j \in 1..m : j - 1 \in 0..m
  BY <1>1
<1>8. q \in Seq(Seq(Tokens)) /\ Len(q) = m /\ \A j \in 1..m : q[j] = Closed(s[k + 1 - j])
  <2>1. \A j \in 1..m : Closed(s[k + 1 - j]) \in Seq(Tokens)
    BY <1>5, <1>6, <1>7
  <2>2. q \in [1..m -> Seq(Tokens)]
    <3> HIDE DEF Tokens
    <3> QED
      BY <2>1
  <2> HIDE DEF Tokens
  <2> QED
    BY <1>1, <2>2
<1>9. Closing(s, n) = FlattenSeq(q)
  BY DEF Closing, k, m
<1> HIDE DEF q
<1>10. PICK g \in [0..m -> Seq(Tokens)] :
         g[0] = <<>> /\ (\A i \in 1..m : g[i] = g[i - 1] \o q[i]) /\ FlattenSeq(q) = g[m]
  BY <1>8, FlattenFacts DEF Flattened
<1>11. ReaderOf(s) \in Readers
  <2>1. CASE m = 0
    <3>1. CASE IsUndecided(s)
      <4>1. Len(s) > 1
        BY <3>1 DEF IsUndecided
      <4> QED
        BY <4>1, CloseOne
    <3>2. CASE ~IsUndecided(s)
      BY <3>2, BaseType DEF ReaderOf
    <3> QED
      BY <3>1, <3>2
  <2>2. CASE m # 0
    <3>1. 1 \in 1..m /\ 1 - 1 = 0 /\ 0 \in 0..m
      BY <1>1, <2>2
    <3> QED
      BY <1>3, <1>5, <1>6, <3>1
  <2> QED
    BY <2>1, <2>2
<1> DEFINE U == {j \in 0..m : ReadAll(ReaderOf(s), g[j]) = ReaderOf(P(j)) /\ ReaderOf(P(j)) \in Readers}
<1>12. \A j \in 0..m : ReadAll(ReaderOf(s), g[j]) = ReaderOf(P(j)) /\ ReaderOf(P(j)) \in Readers
  <2>1. 0 \in U
    <3>1. ReadAll(ReaderOf(s), <<>>) = ReaderOf(s)
      BY <1>11, ReadEmpty
    <3>2. ReadAll(ReaderOf(s), g[0]) = ReaderOf(P(0)) /\ ReaderOf(P(0)) \in Readers /\ 0 \in 0..m
      BY <1>1, <1>3, <1>10, <1>11, <3>1
    <3> QED
      BY <3>2
  <2>2. ASSUME NEW j \in 1..m, j - 1 \in U PROVE j \in U
    <3>1. /\ ReaderOf(P(j)) \in Readers /\ q[j] \in Seq(Tokens)
          /\ ReadAll(ReaderOf(P(j - 1)), q[j]) = ReaderOf(P(j))
      BY <1>5, <1>6, <1>7, <1>8
    <3>2. ReadAll(ReaderOf(s), g[j - 1]) = ReaderOf(P(j - 1)) /\ g[j - 1] \in Seq(Tokens)
      BY <1>7, <1>10, <2>2
    <3>3. ReadAll(ReaderOf(s), g[j - 1] \o q[j]) = ReadAll(ReaderOf(P(j - 1)), q[j])
      BY <1>11, <3>1, <3>2, ReadConcat
    <3>4. g[j] = g[j - 1] \o q[j]
      BY <1>10, Zenon
    <3>5. j \in 0..m
      BY <1>1
    <3> QED
      BY <3>1, <3>3, <3>4, <3>5
  <2>3. \A j \in 0..m : j \in U
    <3> HIDE DEF U
    <3> QED
      BY <1>1, <2>1, <2>2, IntervalInduction
  <2> QED
    BY <2>3
<1>13. k - m = n /\ m \in 0..m
  BY <1>1 DEF m
<1>14. P(m) = SubSeq(s, 1, n)
  BY <1>13 DEF P
<1> QED
  BY <1>2, <1>6, <1>9, <1>10, <1>12, <1>13, <1>14

(* A stack as what lies below its last container, and that one *)
LEMMA AppendFacts ==
  ASSUME NEW u \in Seq(Frame), NEW f \in Frame, NEW g \in Frame
  PROVE  /\ Append(u, f) \in Seq(Frame) /\ Len(Append(u, f)) = Len(u) + 1 /\ Top(Append(u, f)) = f
         /\ SetTop(Append(u, f), g) = Append(u, g) /\ Front(Append(u, f)) = u
         /\ Append(u, f)[Len(u) + 1] = f /\ \A i \in 1..Len(u) : Append(u, f)[i] = u[i]
<1> DEFINE n == Len(u)
           a == Append(u, f)
           b == Append(u, g)
           e == [a EXCEPT ![Len(a)] = g]
<1>1. n \in Nat /\ a \in Seq(Frame) /\ Len(a) = n + 1 /\ a[n + 1] = f /\ \A i \in 1..n : a[i] = u[i]
  OBVIOUS
<1>2. b \in Seq(Frame) /\ Len(b) = n + 1 /\ b[n + 1] = g /\ \A i \in 1..n : b[i] = u[i]
  OBVIOUS
<1> HIDE DEF n, a, b
<1>3. e \in Seq(Frame) /\ Len(e) = n + 1 /\ \A i \in 1..(n + 1) : e[i] = IF i = n + 1 THEN g ELSE a[i]
  BY <1>1
<1> HIDE DEF e
<1>4. \A i \in 1..(n + 1) : i = n + 1 \/ i \in 1..n
  BY <1>1
<1>5. \A i \in 1..(n + 1) : e[i] = b[i]
  BY <1>1, <1>2, <1>3, <1>4
<1>6. e = b
  BY <1>2, <1>3, <1>5
<1>7. Front(a) = u
  BY FrontLast DEF a
<1> QED
  BY <1>1, <1>6, <1>7 DEF n, a, b, e, Top, SetTop

Marked(f) == [f EXCEPT !.has_child = TRUE]

(* Having a child changes nothing else of a container. *)
LEMMA MarkedFacts ==
  ASSUME NEW f \in Frame
  PROVE  /\ Marked(f) \in Frame /\ Marked(f).has_child /\ Marked(f).lv = f.lv /\ Marked(f).close = f.close
         /\ Marked(f).child_lv = f.child_lv
BY DEF Marked, Frame

(* Mark changes the last container only. *)
LEMMA MarkAppend ==
  ASSUME NEW u \in Seq(Frame), NEW f \in Frame
  PROVE  Mark(Append(u, f)) = Append(u, Marked(f))
<1>1. Marked(f) \in Frame
  BY MarkedFacts
<1>2. Top(Append(u, f)) = f /\ SetTop(Append(u, f), Marked(f)) = Append(u, Marked(f))
  BY <1>1, AppendFacts
<1> QED
  BY <1>2 DEF Mark, Marked

(* The tokens a call can write *)
LEMMA TokenSeqs ==
  /\ <<>> \in Seq(Tokens) /\ <<",">> \in Seq(Tokens) /\ <<"{">> \in Seq(Tokens) /\ <<"[">> \in Seq(Tokens)
  /\ <<"key">> \in Seq(Tokens) /\ <<"string">> \in Seq(Tokens) /\ <<"key", "string">> \in Seq(Tokens)
  /\ {",", "{", "[", "key", "string", "]", "}"} \subseteq Tokens
<1>1. {",", "{", "[", "key", "string", "]", "}"} \subseteq Tokens
  BY DEF Tokens
<1>2. \A x, y \in Tokens : <<x>> \in Seq(Tokens) /\ <<x, y>> \in Seq(Tokens)
  OBVIOUS
<1>3. <<>> \in Seq(Tokens)
  OBVIOUS
<1> QED
  BY <1>1, <1>2, <1>3

(* A state on top of a reader is a reader. *)
LEMMA Readable ==
  ASSUME NEW q \in Readers, NEW x \in ReaderStates
  PROVE  Append(q, x) \in Readers
<1> HIDE DEF ReaderStates
<1> QED
  BY DEF Readers

(* The comma and the text of a call, in a container of the kind it needs *)
LEMMA Written ==
  ASSUME NEW q \in Readers, NEW f \in Frame, NEW c \in CallSet, f.close = ClosingOf(c),
         NEW s, Top(s) = f
  PROVE  /\ Comma(s) \in Seq(Tokens) /\ Body(c) \in Seq(Tokens)
         /\ ReadAll(ReadAll(Append(q, Expects(f)), Comma(s)), Body(c)) =
              Append(q, IF c.k = "open" THEN "member" ELSE IF c.k = "elem" THEN "array_more" ELSE "object_more")
<1>0. c.k \in {"open", "leaf", "elem"}
  BY DEF CallSet
<1>1. Comma(s) = (IF f.has_child THEN <<",">> ELSE <<>>) /\ Comma(s) \in Seq(Tokens)
  BY TokenSeqs DEF Comma
<1>2. {"object_first", "object_more", "array_first", "array_more", "key", "element", "member"} \subseteq ReaderStates
  BY DEF ReaderStates
<1>3. Append(q, Expects(f)) \in Readers
  BY Readable, ExpectsType
<1>4. /\ \A x \in ReaderStates : Append(q, x) \in Readers
  BY Readable
<1> DEFINE r == ReadAll(Append(q, Expects(f)), Comma(s))
<1>5. CASE c.k = "elem"
  <2>1. f.close = "]" /\ Expects(f) = IF f.has_child THEN "array_more" ELSE "array_first"
    BY <1>5 DEF ClosingOf, Expects
  <2>2. r = Append(q, IF f.has_child THEN "element" ELSE "array_first")
    <3>1. CASE f.has_child
      <4>1. ReadAll(Append(q, "array_more"), <<",">>) = Read(Append(q, "array_more"), ",")
        BY <1>2, <1>4, ReadOne, TokenSeqs
      <4> QED
        BY <1>1, <2>1, <3>1, <4>1, ReadFacts
    <3>2. CASE ~f.has_child
      BY <1>1, <1>3, <2>1, <3>2, ReadEmpty
    <3> QED
      BY <3>1, <3>2
  <2>3. Body(c) = <<"string">>
    BY <1>5 DEF Body
  <2>4. PICK x \in {"element", "array_first"} : r = Append(q, x)
    BY <2>2
  <2>5. ReadAll(Append(q, x), <<"string">>) = Read(Append(q, x), "string")
    BY <1>2, <1>4, ReadOne, TokenSeqs
  <2>6. Read(Append(q, x), "string") = Append(q, "array_more")
    BY ReadFacts
  <2> HIDE DEF r
  <2>7. ReadAll(r, Body(c)) = Append(q, "array_more")
    BY <2>3, <2>4, <2>5, <2>6
  <2> QED
    BY <1>1, <1>5, <2>3, <2>7, TokenSeqs DEF r
<1>6. CASE c.k # "elem"
  <2>1. f.close = "}" /\ Expects(f) = IF f.has_child THEN "object_more" ELSE "object_first"
    BY <1>6 DEF ClosingOf, Expects
  <2>2. r = Append(q, IF f.has_child THEN "key" ELSE "object_first")
    <3>1. CASE f.has_child
      <4>1. ReadAll(Append(q, "object_more"), <<",">>) = Read(Append(q, "object_more"), ",")
        BY <1>2, <1>4, ReadOne, TokenSeqs
      <4> QED
        BY <1>1, <2>1, <3>1, <4>1, ReadFacts
    <3>2. CASE ~f.has_child
      BY <1>1, <1>3, <2>1, <3>2, ReadEmpty
    <3> QED
      BY <3>1, <3>2
  <2>4. PICK x \in {"key", "object_first"} : r = Append(q, x)
    BY <2>2
  <2>5. Read(Append(q, x), "key") = Append(q, "member") /\ Read(Append(q, "member"), "string") = Append(q, "object_more")
    BY ReadFacts
  <2>6. Append(q, x) \in Readers
    BY <1>2, <1>4
  <2> HIDE DEF r
  <2>7. CASE c.k = "open"
    <3>1. Body(c) = <<"key">>
      BY <2>7 DEF Body
    <3>2. ReadAll(Append(q, x), <<"key">>) = Read(Append(q, x), "key")
      BY <2>6, ReadOne, TokenSeqs
    <3>3. ReadAll(r, Body(c)) = Append(q, "member")
      BY <2>4, <2>5, <3>1, <3>2
    <3> QED
      BY <1>1, <2>7, <3>1, <3>3, TokenSeqs DEF r
  <2>8. CASE c.k = "leaf"
    <3>1. Body(c) = <<"key", "string">>
      BY <2>8 DEF Body
    <3>2. ReadAll(Append(q, x), <<"key", "string">>) = Read(Read(Append(q, x), "key"), "string")
      BY <2>6, ReadTwo, TokenSeqs
    <3>3. ReadAll(r, Body(c)) = Append(q, "object_more")
      BY <2>4, <2>5, <3>1, <3>2
    <3> QED
      BY <1>1, <2>8, <3>1, <3>3, TokenSeqs DEF r
  <2> QED
    BY <1>0, <1>6, <2>7, <2>8
<1> QED
  BY <1>5, <1>6

-----------------------------------------------------------------------------
(* One call of j_emit *)

(* Each container has a child. *)
Parents(v) == \A i \in 1..Len(v) : Settled(v[i]) /\ v[i].has_child

(* The fields of a new container *)
LEMMA NewFrame ==
  ASSUME NEW lv \in 0..MaxLevel, NEW child_lv \in Int, NEW close \in Brackets
  PROVE  /\ jcnt(lv, child_lv, close) \in Frame
         /\ jcnt(lv, child_lv, close).lv = lv /\ jcnt(lv, child_lv, close).child_lv = child_lv
         /\ jcnt(lv, child_lv, close).close = close /\ jcnt(lv, child_lv, close).has_child = FALSE
<1>1. <<>> \in Keys
  <2>1. <<>> \in [{} -> Nat] /\ {} \in SUBSET STRING
    OBVIOUS
  <2> QED
    BY <2>1 DEF Keys
<1> QED
  BY <1>1 DEF jcnt, Frame, MaxLevel

(* The stack a call leaves *)
Yields(N, v, f, c) ==
  /\ N \in Seq(Frame)
  /\ Len(N) = Len(v) + (IF c.k = "open" THEN 2 ELSE 1)
  /\ \A i \in 1..Len(v) : N[i] = v[i]
  /\ N[Len(v) + 1].lv = f.lv /\ N[Len(v) + 1].close = f.close
  /\ c.k = "open" => N[Len(v) + 2].lv = c.lv /\ N[Len(v) + 2].child_lv = Undecided /\ IsUndecided(N)

(* A call is written into a container of the kind it needs, and that
   container's stack is again a proper one. *)
LEMMA Finish ==
  ASSUME NEW v \in Seq(Frame), NEW f \in Frame, NEW c \in CallSet,
         Parents(v), Settled(f), f.close = ClosingOf(c), Len(v) + 1 < MAX_DEPTH
  PROVE  LET s == Append(v, f)
             N == Push(Mark(s), c)
         IN  /\ Comma(s) \in Seq(Tokens) /\ Body(c) \in Seq(Tokens)
             /\ ReadAll(ReadAll(Base(s), Comma(s)), Body(c)) = ReaderOf(N)
             /\ Proper(N) /\ Yields(N, v, f, c)
<1> DEFINE s == Append(v, f)
           g == Marked(f)
           t == Append(v, g)
           N == Push(Mark(s), c)
           n == Len(v)
<1>1. n \in Nat /\ Base(v) \in Readers /\ Base(s) = Append(Base(v), Expects(f)) /\ Top(s) = f
  BY BaseType, BaseAppend, AppendFacts
<1>2. g \in Frame /\ g.has_child /\ g.lv = f.lv /\ g.close = f.close /\ g.child_lv = f.child_lv /\ Mark(s) = t
  BY MarkedFacts, MarkAppend
<1>3. /\ Comma(s) \in Seq(Tokens) /\ Body(c) \in Seq(Tokens)
      /\ ReadAll(ReadAll(Base(s), Comma(s)), Body(c)) =
           Append(Base(v), IF c.k = "open" THEN "member" ELSE IF c.k = "elem" THEN "array_more" ELSE "object_more")
  <2> HIDE DEF s
  <2> QED
    BY <1>1, Written
<1>4. /\ t \in Seq(Frame) /\ Len(t) = n + 1 /\ Top(t) = g /\ Front(t) = v
      /\ t[n + 1] = g /\ \A i \in 1..n : t[i] = v[i]
  <2> HIDE DEF g
  <2> QED
    BY <1>2, AppendFacts
<1>5. Settled(g)
  <2> HIDE DEF g
  <2> QED
    BY <1>2 DEF Settled
<1>6. Base(t) = Append(Base(v), Expects(g))
  <2> HIDE DEF g
  <2> QED
    BY <1>2, BaseAppend
<1>c. c.k \in {"open", "leaf", "elem"} /\ c.lv \in 0..MaxLevel
  BY DEF CallSet
<1> HIDE DEF s, t, g, n
<1>7. CASE c.k # "open"
  <2>1. N = t
    BY <1>2, <1>7 DEF Push
  <2>2. ~IsUndecided(t) /\ ReaderOf(t) = Base(t)
    BY <1>4, <1>5 DEF IsUndecided, ReaderOf, Settled
  <2>3. Expects(g) = IF c.k = "elem" THEN "array_more" ELSE "object_more"
    BY <1>2, <1>c DEF Expects, ClosingOf
  <2>4. Proper(t)
    <3>1. Len(t) - 1 = n
      BY <1>1, <1>4
    <3>2. \A i \in 1..n : Settled(t[i]) /\ t[i].has_child
      BY <1>4 DEF Parents, n
    <3> QED
      BY <1>4, <1>5, <3>1, <3>2 DEF Proper
  <2>5. Yields(t, v, f, c)
    BY <1>2, <1>4, <1>7 DEF Yields, n
  <2> HIDE DEF N
  <2>6. ReadAll(ReadAll(Base(s), Comma(s)), Body(c)) = ReaderOf(N)
    BY <1>3, <1>6, <1>7, <2>1, <2>2, <2>3
  <2> QED
    BY <1>3, <2>1, <2>4, <2>5, <2>6 DEF s, N
<1>8. CASE c.k = "open"
  <2> DEFINE h == jcnt(c.lv, Undecided, "")
             a == Append(t, h)
  <2>1. /\ h \in Frame /\ h.lv = c.lv /\ h.child_lv = Undecided /\ h.close = "" /\ h.has_child = FALSE
    <3>1. Undecided \in Int /\ "" \in Brackets
      BY DEF Undecided, Brackets
    <3> DEFINE l == c.lv
               x == jcnt(l, Undecided, "")
    <3>2. l \in 0..MaxLevel
      BY <1>c
    <3> HIDE DEF l
    <3>3. x \in Frame /\ x.lv = l /\ x.child_lv = Undecided /\ x.close = "" /\ x.has_child = FALSE
      <4>1. x \in Frame
        BY <3>1, <3>2, NewFrame
      <4>2. x.lv = l /\ x.child_lv = Undecided /\ x.close = "" /\ x.has_child = FALSE
        BY DEF jcnt
      <4> QED
        BY <4>1, <4>2
    <3> HIDE DEF x
    <3> QED
      BY <3>3 DEF x, l
  <2>2. N = a
    <3>1. Len(t) < MAX_DEPTH
      BY <1>4 DEF n
    <3> QED
      BY <1>2, <1>8, <3>1 DEF Push
  <2> HIDE DEF h
  <2>3. /\ a \in Seq(Frame) /\ Len(a) = n + 1 + 1 /\ Top(a) = h /\ Front(a) = t
        /\ a[n + 1 + 1] = h /\ \A i \in 1..(n + 1) : a[i] = t[i]
    <3>1. /\ a \in Seq(Frame) /\ Len(a) = Len(t) + 1 /\ Top(a) = h /\ Front(a) = t
          /\ a[Len(t) + 1] = h /\ \A i \in 1..Len(t) : a[i] = t[i]
      BY <1>4, <2>1, AppendFacts
    <3> HIDE DEF a
    <3> QED
      BY <1>4, <3>1
  <2>4. n + 1 + 1 = n + 2 /\ n + 2 > 1 /\ n + 2 - 1 = n + 1 /\ \A i \in 1..(n + 1) : i = n + 1 \/ i \in 1..n
    BY <1>1
  <2> HIDE DEF a
  <2>5. IsUndecided(a) /\ Front(Front(a)) = v
    BY <1>4, <2>1, <2>3, <2>4 DEF IsUndecided
  <2>6. ReaderOf(a) = Append(Base(v), "member")
    BY <2>5 DEF ReaderOf
  <2>7. g.close = "}"
    BY <1>2, <1>8 DEF ClosingOf
  <2>8. Pending(a)
    <3>1. a[n + 1] = g
      BY <1>1, <1>4, <2>3
    <3>2. Len(a) - 1 = n + 1 /\ Len(a) > 1
      BY <1>1, <2>3
    <3> QED
      BY <2>1, <2>3, <2>7, <3>1, <3>2 DEF Pending
  <2>9. \A i \in 1..(n + 1) : Settled(a[i]) /\ a[i].has_child
    <3>1. \A i \in 1..n : Settled(a[i]) /\ a[i].has_child
      BY <1>1, <1>4, <2>3 DEF Parents, n
    <3>2. Settled(a[n + 1]) /\ a[n + 1].has_child
      BY <1>1, <1>2, <1>4, <1>5, <2>3
    <3> QED
      BY <2>4, <3>1, <3>2
  <2>10. Proper(a)
    <3>1. Len(a) - 1 = n + 1
      BY <1>1, <2>3
    <3> QED
      BY <2>8, <2>9, <3>1 DEF Proper
  <2>11. Yields(a, v, f, c)
    <3>1. \A i \in 1..n : a[i] = v[i]
      BY <1>1, <1>4, <2>3
    <3>2. a[n + 1] = g
      BY <1>1, <1>4, <2>3
    <3>3. a[n + 2] = h
      BY <2>3, <2>4
    <3> QED
      BY <1>2, <1>8, <2>1, <2>3, <2>4, <2>5, <3>1, <3>2, <3>3 DEF Yields, n
  <2> HIDE DEF N
  <2>12. ReadAll(ReadAll(Base(s), Comma(s)), Body(c)) = ReaderOf(N)
    BY <1>3, <1>8, <2>2, <2>6
  <2> QED
    BY <1>3, <2>2, <2>10, <2>11, <2>12 DEF s, N
<1> QED
  BY <1>7, <1>8

(* What j_prelude does to a stack whose containers above the call's level
   are closed: the texts that wrap a keyed member of an array and that decide
   a container, and the stack v with the container f the call is written in *)
Wrapped(s, c) == IF Wraps(s, c) THEN Wrap(Mark(s), c) ELSE s
WrapText(s, c) == IF Wraps(s, c) THEN Comma(s) \o <<"{">> ELSE <<>>
OpenText(s, c) == IF IsUndecided(s) THEN <<IF c.k = "elem" THEN "[" ELSE "{">> ELSE <<>>

Prepared(s, c, v, f) ==
  /\ Resolve(Wrapped(s, c), c) = Append(v, f)
  /\ Parents(v) /\ Settled(f) /\ f.close = ClosingOf(c)
  /\ WrapText(s, c) \in Seq(Tokens) /\ OpenText(Wrapped(s, c), c) \in Seq(Tokens)
  /\ ReadAll(ReadAll(ReaderOf(s), WrapText(s, c)), OpenText(Wrapped(s, c), c)) = Base(Append(v, f))
  /\ \/ /\ Len(v) = Len(s) /\ f.lv = c.lv /\ c.k # "elem" /\ ~IsUndecided(s)
        /\ \A i \in 1..Len(v) : v[i].lv = s[i].lv /\ v[i].close = s[i].close
     \/ v = Front(s) /\ f.lv = Top(s).lv /\ (~IsUndecided(s) => f.close = Top(s).close)

(* j_prelude, where it wraps a keyed call into an object of an array *)
LEMMA PrepareWrap ==
  ASSUME NEW s \in Seq(Frame), Len(s) > 0, Proper(s), NEW c \in CallSet, Wraps(s, c)
  PROVE  \E v \in Seq(Frame), f \in Frame : Prepared(s, c, v, f)
<1> DEFINE u == Front(s)
           g == Top(s)
           m == Marked(g)
           v == Append(u, m)
           f == jcnt(c.lv, c.lv, "}")
<1>1. u \in Seq(Frame) /\ g \in Frame /\ s = Append(u, g) /\ Len(u) = Len(s) - 1 /\ \A i \in 1..(Len(s) - 1) : u[i] = s[i]
  BY StackSplit
<1>2. g.close = "]" /\ c.k # "elem" /\ Settled(g)
  BY DEF Wraps, Proper, Pending
<1>3. ~IsUndecided(s) /\ ReaderOf(s) = Base(s)
  BY <1>2 DEF IsUndecided, Settled, ReaderOf
<1>4. m \in Frame /\ m.has_child /\ m.lv = g.lv /\ m.close = g.close /\ m.child_lv = g.child_lv
  BY <1>1, MarkedFacts
<1>5. Mark(s) = v
  <2> HIDE DEF u, g
  <2> QED
    BY <1>1, MarkAppend
<1> HIDE DEF u, g, m
<1>6. /\ v \in Seq(Frame) /\ Len(v) = Len(u) + 1 /\ Top(v) = m /\ v[Len(u) + 1] = m
      /\ \A i \in 1..Len(u) : v[i] = u[i]
  BY <1>1, <1>4, AppendFacts
<1>7. Len(s) \in Nat /\ Len(u) = Len(s) - 1 /\ Len(v) = Len(s) /\ Len(s) > 0 /\ Len(u) + 1 = Len(s)
  <2> HIDE DEF v
  <2> QED
    BY <1>1, <1>6
<1>8. c.lv \in 0..MaxLevel /\ c.lv \in Int /\ c.lv # Undecided
  <2>1. c.lv \in 0..MaxLevel
    BY DEF CallSet
  <2> QED
    BY <2>1 DEF MaxLevel, Undecided
<1>9. f \in Frame /\ f.lv = c.lv /\ f.child_lv = c.lv /\ f.close = "}" /\ f.has_child = FALSE
  <2>1. "}" \in Brackets
    BY DEF Brackets
  <2>2. f \in Frame
    BY <1>8, <2>1, NewFrame
  <2>3. f.lv = c.lv /\ f.child_lv = c.lv /\ f.close = "}" /\ f.has_child = FALSE
    BY DEF jcnt
  <2> QED
    BY <2>2, <2>3
<1> HIDE DEF v
<1>10. Wrap(v, c) = Append(v, f)
  <2>1. Top(v).close = "]"
    BY <1>2, <1>4, <1>6
  <2> QED
    BY <1>2, <2>1 DEF Wrap, Wraps
<1>11. Wrapped(s, c) = Append(v, f)
  BY <1>5, <1>10 DEF Wrapped
<1> HIDE DEF f
<1> DEFINE w == Append(v, f)
<1>12. w \in Seq(Frame) /\ Top(w) = f
  BY <1>6, <1>9, AppendFacts
<1> HIDE DEF w
<1>13. ~IsUndecided(w)
  BY <1>8, <1>9, <1>12 DEF IsUndecided
<1>14. Resolve(Wrapped(s, c), c) = w
  BY <1>11, <1>13 DEF Resolve, w
<1>15. OpenText(Wrapped(s, c), c) = <<>>
  BY <1>11, <1>13 DEF OpenText, w
<1>16. Parents(v)
  <2>1. \A i \in 1..Len(u) : Settled(v[i]) /\ v[i].has_child
    BY <1>1, <1>6, <1>7 DEF Proper
  <2>2. Settled(v[Len(s)]) /\ v[Len(s)].has_child
    BY <1>2, <1>4, <1>6, <1>7 DEF Settled
  <2>3. \A i \in 1..Len(v) : i = Len(s) \/ i \in 1..Len(u)
    BY <1>7
  <2> QED
    BY <2>1, <2>2, <2>3 DEF Parents
<1>17. Settled(f) /\ f.close = ClosingOf(c)
  BY <1>2, <1>8, <1>9 DEF Settled, ClosingOf
<1>18. Base(u) \in Readers /\ Base(s) = Append(Base(u), Expects(g)) /\ Base(s) \in Readers
  BY <1>1, BaseSplit, BaseType DEF u, g
<1>19. Base(v) = Append(Base(u), "array_more") /\ Base(w) = Append(Base(v), "object_first")
  <2>1. Base(v) = Append(Base(u), Expects(m))
    BY <1>1, <1>4, BaseAppend DEF v
  <2>2. Expects(m) = "array_more"
    BY <1>2, <1>4 DEF Expects
  <2>3. Base(w) = Append(Base(v), Expects(f))
    BY <1>6, <1>9, BaseAppend DEF w
  <2>4. Expects(f) = "object_first"
    BY <1>9 DEF Expects
  <2> QED
    BY <2>1, <2>2, <2>3, <2>4
<1>20. Comma(s) \in Seq(Tokens) /\ <<"{">> \in Seq(Tokens) /\ Comma(s) = IF g.has_child THEN <<",">> ELSE <<>>
  BY TokenSeqs DEF Comma, g
<1>21. WrapText(s, c) = Comma(s) \o <<"{">> /\ WrapText(s, c) \in Seq(Tokens)
  <2>1. WrapText(s, c) = Comma(s) \o <<"{">>
    BY DEF WrapText
  <2>2. \A a, b \in Seq(Tokens) : a \o b \in Seq(Tokens)
    OBVIOUS
  <2> QED
    BY <1>20, <2>1, <2>2
<1>22. ReadAll(Base(s), Comma(s) \o <<"{">>) = ReadAll(ReadAll(Base(s), Comma(s)), <<"{">>)
  BY <1>18, <1>20, ReadConcat
<1>23. \A x \in ReaderStates : Append(Base(u), x) \in Readers
  BY <1>18, Readable
<1>24. "array_more" \in ReaderStates /\ "array_first" \in ReaderStates /\ "element" \in ReaderStates
  BY DEF ReaderStates
<1>25. ReadAll(Base(s), Comma(s)) \in {Append(Base(u), "element"), Append(Base(u), "array_first")}
  <2>1. CASE g.has_child
    <3>1. Expects(g) = "array_more"
      BY <1>2, <2>1 DEF Expects
    <3>2. ReadAll(Base(s), <<",">>) = Read(Base(s), ",")
      BY <1>18, ReadOne, TokenSeqs
    <3>3. Read(Append(Base(u), "array_more"), ",") = Append(Base(u), "element")
      BY <1>18, ReadFacts
    <3> QED
      BY <1>18, <1>20, <2>1, <3>1, <3>2, <3>3
  <2>2. CASE ~g.has_child
    <3>1. Expects(g) = "array_first"
      BY <1>2, <2>2 DEF Expects
    <3>2. ReadAll(Base(s), <<>>) = Base(s)
      BY <1>18, ReadEmpty
    <3> QED
      BY <1>18, <1>20, <2>2, <3>1, <3>2
  <2> QED
    BY <2>1, <2>2
<1>26. ReadAll(ReadAll(Base(s), Comma(s)), <<"{">>) = Base(w)
  <2>1. PICK x \in {"element", "array_first"} : ReadAll(Base(s), Comma(s)) = Append(Base(u), x)
    BY <1>25
  <2>2. ReadAll(Append(Base(u), x), <<"{">>) = Read(Append(Base(u), x), "{")
    BY <1>23, <1>24, ReadOne, TokenSeqs
  <2>3. Read(Append(Base(u), x), "{") = Append(Append(Base(u), "array_more"), "object_first")
    BY <1>18, ReadFacts
  <2> QED
    BY <1>19, <2>1, <2>2, <2>3
<1>27. Base(w) \in Readers
  BY <1>12, BaseType
<1>28. ReadAll(ReadAll(ReaderOf(s), WrapText(s, c)), OpenText(Wrapped(s, c), c)) = Base(w)
  <2>1. ReadAll(ReaderOf(s), WrapText(s, c)) = Base(w)
    BY <1>3, <1>21, <1>22, <1>26
  <2>2. ReadAll(Base(w), <<>>) = Base(w)
    BY <1>27, ReadEmpty
  <2> QED
    BY <1>15, <2>1, <2>2
<1>29. \A i \in 1..Len(v) : v[i].lv = s[i].lv /\ v[i].close = s[i].close
  <2>1. \A i \in 1..Len(u) : v[i] = s[i]
    BY <1>1, <1>6, <1>7
  <2>2. v[Len(s)].lv = s[Len(s)].lv /\ v[Len(s)].close = s[Len(s)].close
    BY <1>4, <1>6, <1>7 DEF g, Top
  <2>3. \A i \in 1..Len(v) : i = Len(s) \/ i \in 1..Len(u)
    BY <1>7
  <2> QED
    BY <2>1, <2>2, <2>3
<1>30. Prepared(s, c, v, f)
  BY <1>2, <1>3, <1>7, <1>9, <1>14, <1>15, <1>16, <1>17, <1>21, <1>28, <1>29, TokenSeqs DEF Prepared, w
<1> QED
  BY <1>6, <1>9, <1>30

(* j_prelude, where the call decides the kind of the last container *)
LEMMA PrepareOpen ==
  ASSUME NEW s \in Seq(Frame), Len(s) > 0, Proper(s), NEW c \in CallSet, IsUndecided(s)
  PROVE  \E v \in Seq(Frame), f \in Frame : Prepared(s, c, v, f)
<1> DEFINE v == Front(s)
           g == Top(s)
           f == [g EXCEPT !.child_lv = c.lv, !.close = ClosingOf(c), !.has_child = FALSE]
           u == Front(v)
           t == IF c.k = "elem" THEN "[" ELSE "{"
<1>1. v \in Seq(Frame) /\ g \in Frame /\ s = Append(v, g) /\ Len(v) = Len(s) - 1 /\ \A i \in 1..(Len(s) - 1) : v[i] = s[i]
  BY StackSplit
<1>2. Len(s) \in Nat /\ Len(s) > 1 /\ g.child_lv = Undecided
  BY DEF IsUndecided
<1>3. Pending(s)
  BY <1>2 DEF Proper, Settled
<1>4. g.close = "" /\ s[Len(s) - 1].close = "}"
  BY <1>3 DEF Pending
<1>5. ~Wraps(s, c) /\ Wrapped(s, c) = s /\ WrapText(s, c) = <<>>
  <2>1. ~Wraps(s, c)
    BY <1>4 DEF Wraps
  <2> QED
    BY <2>1 DEF Wrapped, WrapText
<1>6. OpenText(s, c) = <<t>> /\ t \in Tokens /\ <<t>> \in Seq(Tokens)
  BY TokenSeqs DEF OpenText
<1>7. c.lv \in Int /\ c.lv # Undecided
  <2>1. c.lv \in 0..MaxLevel
    BY DEF CallSet
  <2> QED
    BY <2>1 DEF MaxLevel, Undecided
<1>8. f \in Frame /\ f.lv = g.lv /\ f.child_lv = c.lv /\ f.close = ClosingOf(c) /\ f.has_child = FALSE
  <2>1. ClosingOf(c) \in Brackets
    BY DEF ClosingOf, Brackets
  <2> HIDE DEF g
  <2> QED
    BY <1>1, <1>7, <2>1 DEF Frame
<1>9. Resolve(s, c) = SetTop(s, f)
  BY DEF Resolve
<1> HIDE DEF v, g, f
<1>10. SetTop(Append(v, g), f) = Append(v, f)
  BY <1>1, <1>8, AppendFacts
<1>11. Resolve(Wrapped(s, c), c) = Append(v, f)
  BY <1>1, <1>5, <1>9, <1>10
<1>12. Parents(v)
  BY <1>1 DEF Parents, Proper
<1>13. Settled(f)
  BY <1>7, <1>8 DEF Settled, ClosingOf
<1>14. Len(v) > 0 /\ Top(v) = s[Len(s) - 1] /\ Settled(Top(v)) /\ Top(v).has_child
  <2>1. Len(v) > 0 /\ Len(v) \in 1..(Len(s) - 1)
    BY <1>1, <1>2
  <2> QED
    BY <1>1, <1>12, <2>1 DEF Top, Parents
<1>15. Base(v) = Append(Base(u), Expects(Top(v))) /\ Base(u) \in Readers /\ Base(v) \in Readers
  BY <1>1, <1>14, BaseSplit, BaseType
<1>16. Expects(Top(v)) = "object_more"
  BY <1>4, <1>14 DEF Expects
<1>17. ReaderOf(s) = Append(Base(u), "member")
  BY DEF ReaderOf, u, v
<1> HIDE DEF u
<1>18. Base(Append(v, f)) = Append(Base(v), Expects(f))
  BY <1>1, <1>8, BaseAppend
<1>19. Append(Base(u), "member") \in Readers
  <2>1. "member" \in ReaderStates
    BY DEF ReaderStates
  <2> QED
    BY <1>15, <2>1, Readable
<1>20. ReadAll(Append(Base(u), "member"), <<t>>) = Read(Append(Base(u), "member"), t)
  <2> HIDE DEF t
  <2> QED
    BY <1>6, <1>19, ReadOne
<1>21. Read(Append(Base(u), "member"), t) = Append(Append(Base(u), "object_more"), Expects(f))
  <2>1. CASE c.k = "elem"
    <3>1. Expects(f) = "array_first" /\ t = "["
      BY <1>8, <2>1 DEF Expects, ClosingOf
    <3>2. Read(Append(Base(u), "member"), "[") = Append(Append(Base(u), "object_more"), "array_first")
      BY <1>15, ReadFacts
    <3> QED
      BY <3>1, <3>2
  <2>2. CASE c.k # "elem"
    <3>1. Expects(f) = "object_first" /\ t = "{"
      BY <1>8, <2>2 DEF Expects, ClosingOf
    <3>2. Read(Append(Base(u), "member"), "{") = Append(Append(Base(u), "object_more"), "object_first")
      BY <1>15, ReadFacts
    <3> QED
      BY <3>1, <3>2
  <2> QED
    BY <2>1, <2>2
<1>22. ReadAll(ReaderOf(s), <<>>) = ReaderOf(s)
  BY <1>17, <1>19, ReadEmpty
<1> HIDE DEF t
<1>23. ReadAll(ReadAll(ReaderOf(s), WrapText(s, c)), OpenText(Wrapped(s, c), c)) = Base(Append(v, f))
  BY <1>5, <1>6, <1>15, <1>16, <1>17, <1>18, <1>20, <1>21, <1>22
<1>24. v = Front(s) /\ f.lv = Top(s).lv
  BY <1>8 DEF v, g
<1>25. Prepared(s, c, v, f)
  BY <1>5, <1>6, <1>8, <1>11, <1>12, <1>13, <1>23, <1>24, TokenSeqs DEF Prepared
<1> QED
  BY <1>1, <1>8, <1>25

(* j_prelude, where the last container is of the kind the call needs *)
LEMMA PreparePlain ==
  ASSUME NEW s \in Seq(Frame), Len(s) > 0, Proper(s), NEW c \in CallSet, ~IsUndecided(s), ~Wraps(s, c),
         c.k = "elem" => Top(s).close = "]"
  PROVE  \E v \in Seq(Frame), f \in Frame : Prepared(s, c, v, f)
<1> DEFINE v == Front(s)
           f == Top(s)
<1>1. v \in Seq(Frame) /\ f \in Frame /\ s = Append(v, f) /\ Len(v) = Len(s) - 1 /\ \A i \in 1..(Len(s) - 1) : v[i] = s[i]
  BY StackSplit
<1>2. Settled(f)
  BY DEF IsUndecided, Proper, Pending
<1>3. Parents(v)
  BY <1>1 DEF Parents, Proper
<1>4. f.close = ClosingOf(c)
  BY <1>2 DEF Wraps, Settled, ClosingOf
<1>5. Wrapped(s, c) = s /\ WrapText(s, c) = <<>> /\ OpenText(s, c) = <<>> /\ Resolve(s, c) = s
  BY DEF Wrapped, WrapText, OpenText, Resolve
<1>6. ReaderOf(s) = Base(s) /\ Base(s) \in Readers
  BY BaseType DEF ReaderOf
<1>7. ReadAll(Base(s), <<>>) = Base(s)
  BY <1>6, ReadEmpty
<1>8. ReadAll(ReadAll(ReaderOf(s), WrapText(s, c)), OpenText(Wrapped(s, c), c)) = Base(s)
  BY <1>5, <1>6, <1>7
<1>9. v = Front(s) /\ f.lv = Top(s).lv /\ f.close = Top(s).close
  OBVIOUS
<1> HIDE DEF v, f
<1>10. Prepared(s, c, v, f)
  BY <1>1, <1>2, <1>3, <1>4, <1>5, <1>8, <1>9, TokenSeqs DEF Prepared
<1> QED
  BY <1>1, <1>10

(* A call with level and kind that the containers left open allow *)
Fits(s, c) == c.k = "elem" => IsUndecided(s) \/ Top(s).close = "]"

(* j_prelude, for a call that fits the stack *)
LEMMA Prepare ==
  ASSUME NEW s \in Seq(Frame), Len(s) > 0, Proper(s), NEW c \in CallSet, Fits(s, c)
  PROVE  \E v \in Seq(Frame), f \in Frame : Prepared(s, c, v, f)
  BY PrepareWrap, PrepareOpen, PreparePlain DEF Fits

(* A text of five parts is read part by part. *)
LEMMA ReadFive ==
  ASSUME NEW r \in Readers, NEW A \in Seq(Tokens), NEW W \in Seq(Tokens), NEW R \in Seq(Tokens),
         NEW C \in Seq(Tokens), NEW B \in Seq(Tokens)
  PROVE  ReadAll(r, (A \o W \o R \o C) \o B) =
           ReadAll(ReadAll(ReadAll(ReadAll(ReadAll(r, A), W), R), C), B)
<1>0. \A a, b \in Seq(Tokens) : a \o b \in Seq(Tokens)
  OBVIOUS
<1>1. A \o W \in Seq(Tokens) /\ A \o W \o R \in Seq(Tokens) /\ A \o W \o R \o C \in Seq(Tokens)
  BY <1>0, Zenon
<1>2. ReadAll(r, A \o W) = ReadAll(ReadAll(r, A), W)
  BY ReadConcat
<1>3. ReadAll(r, A \o W \o R) = ReadAll(ReadAll(r, A \o W), R)
  BY <1>1, ReadConcat
<1>4. ReadAll(r, A \o W \o R \o C) = ReadAll(ReadAll(r, A \o W \o R), C)
  BY <1>1, ReadConcat
<1>5. ReadAll(r, (A \o W \o R \o C) \o B) = ReadAll(ReadAll(r, A \o W \o R \o C), B)
  BY <1>1, ReadConcat
<1> QED
  BY <1>2, <1>3, <1>4, <1>5, Zenon

(* How the stack N behind call c comes from the stack s before it: the
   containers up to the last one that stays keep level and kind, and an
   undecided one gets its kind; those above it were opened by the call. *)
Shape(s, c, N) ==
  LET k == Kept(s, c)
  IN /\ N \in Seq(Frame) /\ Len(N) >= k
     /\ \A i \in 1..k : N[i].lv = s[i].lv
     /\ \A i \in 1..(k - 1) : N[i].close = s[i].close
     /\ N[k].close = IF IsUndecided(Ascend(s, c)) THEN ClosingOf(c) ELSE s[k].close
     /\ \A i \in (k + 1)..Len(N) : N[i].lv = c.lv /\ c.k # "elem"
     /\ c.k = "open" => Top(N).lv = c.lv /\ IsUndecided(N)

(* The stack Append(v, f) that a call is written into: what stays, with the
   last container of the kind the call needs, or an object that wraps it. *)
Came(s, c, v, f) ==
  LET k == Kept(s, c)
      s1 == Ascend(s, c)
  IN /\ f.close = ClosingOf(c)
     /\ \/ /\ Len(v) = k /\ f.lv = c.lv /\ c.k # "elem" /\ ~IsUndecided(s1)
           /\ \A i \in 1..k : v[i].lv = s1[i].lv /\ v[i].close = s1[i].close
        \/ v = Front(s1) /\ f.lv = Top(s1).lv /\ (~IsUndecided(s1) => f.close = Top(s1).close)

(* The stack a call leaves has the shape that the calls after it rely on. *)
LEMMA ShapeOf ==
  ASSUME NEW s, StackOK(s), NEW c \in CallSet, NEW v \in Seq(Frame), NEW f \in Frame,
         Came(s, c, v, f), NEW N, Yields(N, v, f, c)
  PROVE  Shape(s, c, N)
<1> DEFINE k == Kept(s, c)
           s1 == Ascend(s, c)
<1>1. k \in 1..Len(s) /\ s1 \in Seq(Frame) /\ Len(s1) = k /\ \A i \in 1..k : s1[i] = s[i]
  BY AscendShape
<1>2. s \in Seq(Frame) /\ Len(s) \in Nat /\ k \in Nat /\ k > 0
  BY <1>1 DEF StackOK
<1>3. /\ f.close = ClosingOf(c)
      /\ \/ /\ Len(v) = k /\ f.lv = c.lv /\ c.k # "elem" /\ ~IsUndecided(s1)
            /\ \A i \in 1..k : v[i].lv = s1[i].lv /\ v[i].close = s1[i].close
         \/ v = Front(s1) /\ f.lv = Top(s1).lv /\ (~IsUndecided(s1) => f.close = Top(s1).close)
  BY DEF Came
<1> HIDE DEF k, s1
<1>4. Len(Front(s1)) = k - 1 /\ (\A i \in 1..(k - 1) : Front(s1)[i] = s1[i]) /\ Top(s1) = s1[k]
  <2>1. Len(s1) > 0
    BY <1>1, <1>2
  <2>2. Len(Front(s1)) = Len(s1) - 1 /\ \A i \in 1..(Len(s1) - 1) : Front(s1)[i] = s1[i]
    BY <1>1, <2>1, StackSplit
  <2> QED
    BY <1>1, <2>2 DEF Top
<1>5. /\ N \in Seq(Frame)
      /\ Len(N) = Len(v) + (IF c.k = "open" THEN 2 ELSE 1)
      /\ \A i \in 1..Len(v) : N[i] = v[i]
      /\ N[Len(v) + 1].lv = f.lv /\ N[Len(v) + 1].close = f.close
      /\ c.k = "open" => N[Len(v) + 2].lv = c.lv /\ IsUndecided(N)
  BY DEF Yields
<1>6. c.k = "open" => Top(N) = N[Len(v) + 2]
  BY <1>5 DEF Top
<1>7. CASE /\ Len(v) = k /\ f.lv = c.lv /\ c.k # "elem" /\ ~IsUndecided(s1)
           /\ \A i \in 1..k : v[i].lv = s1[i].lv /\ v[i].close = s1[i].close
  <2>1. \A i \in 1..k : N[i].lv = s[i].lv /\ N[i].close = s[i].close
    BY <1>1, <1>5, <1>7
  <2>2. Len(N) \in {k + 1, k + 2} /\ (Len(N) = k + 2 => c.k = "open") /\ Len(N) >= k
    BY <1>2, <1>5, <1>7
  <2>3. N[k + 1].lv = c.lv /\ (c.k = "open" => N[k + 2].lv = c.lv)
    BY <1>5, <1>7
  <2>4. \A i \in (k + 1)..Len(N) : i = k + 1 \/ (i = k + 2 /\ Len(N) = k + 2)
    BY <1>2, <2>2
  <2>5. \A i \in (k + 1)..Len(N) : N[i].lv = c.lv /\ c.k # "elem"
    BY <1>7, <2>2, <2>3, <2>4
  <2>6. k \in 1..k /\ \A i \in 1..(k - 1) : i \in 1..k
    BY <1>2
  <2> QED
    BY <1>5, <1>7, <1>6, <2>1, <2>2, <2>5, <2>6 DEF Shape, k, s1
<1>8. CASE v = Front(s1) /\ f.lv = Top(s1).lv /\ (~IsUndecided(s1) => f.close = Top(s1).close)
  <2>1. Len(v) = k - 1 /\ (\A i \in 1..(k - 1) : v[i] = s[i]) /\ Top(s1) = s[k] /\ Len(v) + 1 = k /\ Len(v) + 2 = k + 1
    BY <1>1, <1>2, <1>4, <1>8
  <2>2. \A i \in 1..(k - 1) : N[i].lv = s[i].lv /\ N[i].close = s[i].close
    BY <1>5, <2>1
  <2>3. N[k].lv = s[k].lv /\ N[k].close = IF IsUndecided(s1) THEN ClosingOf(c) ELSE s[k].close
    BY <1>3, <1>5, <1>8, <2>1
  <2>4. Len(N) \in {k, k + 1} /\ (Len(N) = k + 1 => c.k = "open") /\ Len(N) >= k
    BY <1>2, <1>5, <2>1
  <2>5. \A i \in (k + 1)..Len(N) : i = k + 1 /\ Len(N) = k + 1
    BY <1>2, <2>4
  <2>6. \A i \in (k + 1)..Len(N) : N[i].lv = c.lv /\ c.k # "elem"
    BY <1>5, <2>1, <2>4, <2>5
  <2>7. \A i \in 1..k : i = k \/ i \in 1..(k - 1)
    BY <1>2
  <2>8. \A i \in 1..k : N[i].lv = s[i].lv
    BY <2>2, <2>3, <2>7
  <2> QED
    BY <1>5, <1>6, <2>1, <2>2, <2>3, <2>4, <2>6, <2>8 DEF Shape, k, s1
<1> QED
  BY <1>3, <1>7, <1>8

(* One call of j_emit: the reader is left where the new stack says. *)
LEMMA CallRead ==
  ASSUME NEW s, StackOK(s), Proper(s), NEW c \in CallSet, Fits(Ascend(s, c), c)
  PROVE  LET N == Push(j_prelude(s, c).stack, c)
         IN  /\ ReadAll(ReaderOf(s), j_prelude(s, c).tokens \o Body(c)) = ReaderOf(N)
             /\ Proper(N) /\ Shape(s, c, N)
<1> DEFINE k == Kept(s, c)
           s1 == Ascend(s, c)
           s2 == Wrapped(s1, c)
           s3 == Resolve(s2, c)
           A == Closing(s, Len(s1))
           W == WrapText(s1, c)
           R == OpenText(s2, c)
           N == Push(Mark(s3), c)
<1>1. /\ k \in 1..Len(s) /\ s1 \in Seq(Frame) /\ Len(s1) = k /\ s1 = SubSeq(s, 1, k)
      /\ \A i \in 1..k : s1[i] = s[i]
  BY AscendShape DEF Ascend
<1>2. s \in Seq(Frame) /\ Len(s) \in Nat /\ k \in Nat /\ k > 0
  BY <1>1 DEF StackOK
<1>3. j_prelude(s, c).stack = Mark(s3) /\ j_prelude(s, c).tokens = A \o W \o R \o Comma(s3)
  BY DEF j_prelude, Wrapped, WrapText, OpenText
<1>4. k <= 29
  <2>1. k <= 2 * c.lv + 3
    <3>1. Len(s1) <= 2 * c.lv + (IF c.k = "elem" THEN 3 ELSE 1)
      BY AscendProperties
    <3>2. c.lv \in Int
      BY DEF CallSet, MaxLevel
    <3> HIDE DEF s1, k
    <3> QED
      BY <1>1, <1>2, <3>1, <3>2
  <2>2. c.lv \in Int /\ c.lv <= 13
    BY DEF CallSet, MaxLevel
  <2> HIDE DEF k
  <2> QED
    BY <1>2, <2>1, <2>2
<1> HIDE DEF s1, k
<1>5. /\ A \in Seq(Tokens) /\ ReadAll(ReaderOf(s), A) = ReaderOf(s1) /\ Proper(s1)
      /\ ReaderOf(s1) \in Readers
  <2>1. k \in 1..Len(s)
    BY <1>1
  <2> QED
    BY <1>1, <1>2, <2>1, CloseMany
<1>6. PICK v \in Seq(Frame), f \in Frame : Prepared(s1, c, v, f)
  <2>1. Len(s1) > 0 /\ Fits(s1, c)
    BY <1>1, <1>2 DEF s1
  <2> QED
    BY <1>1, <1>5, <2>1, Prepare
<1>7. /\ s3 = Append(v, f) /\ Parents(v) /\ Settled(f) /\ f.close = ClosingOf(c)
      /\ W \in Seq(Tokens) /\ R \in Seq(Tokens)
      /\ ReadAll(ReadAll(ReaderOf(s1), W), R) = Base(s3)
  BY <1>6 DEF Prepared
<1>8. \/ /\ Len(v) = k /\ f.lv = c.lv /\ c.k # "elem" /\ ~IsUndecided(s1)
         /\ \A i \in 1..k : v[i].lv = s1[i].lv /\ v[i].close = s1[i].close
      \/ v = Front(s1) /\ f.lv = Top(s1).lv /\ (~IsUndecided(s1) => f.close = Top(s1).close)
  BY <1>1, <1>6 DEF Prepared
<1>9. Len(Front(s1)) = k - 1 /\ (\A i \in 1..(k - 1) : Front(s1)[i] = s1[i]) /\ Top(s1) = s1[k]
  <2>1. Len(s1) > 0
    BY <1>1, <1>2
  <2>2. Len(Front(s1)) = Len(s1) - 1 /\ \A i \in 1..(Len(s1) - 1) : Front(s1)[i] = s1[i]
    BY <1>1, <2>1, StackSplit
  <2> QED
    BY <1>1, <2>2 DEF Top
<1>10. Len(v) \in Nat /\ Len(v) + 1 < MAX_DEPTH
  BY <1>2, <1>4, <1>8, <1>9 DEF MAX_DEPTH
<1>11. /\ Comma(s3) \in Seq(Tokens) /\ Body(c) \in Seq(Tokens)
       /\ ReadAll(ReadAll(Base(s3), Comma(s3)), Body(c)) = ReaderOf(N)
       /\ Proper(N) /\ Yields(N, v, f, c)
  <2> HIDE DEF s3
  <2> QED
    BY <1>7, <1>10, Finish
<1> HIDE DEF s2, s3, A, W, R, N
<1>12. ReaderOf(s) \in Readers
  <2>1. Len(s) \in 1..Len(s)
    BY <1>1, <1>2
  <2>2. SubSeq(s, 1, Len(s)) = s
    BY <1>2
  <2>3. ReaderOf(SubSeq(s, 1, Len(s))) \in Readers
    BY <1>2, <2>1, CloseMany
  <2> QED
    BY <2>2, <2>3
<1>13. ReadAll(ReaderOf(s), (A \o W \o R \o Comma(s3)) \o Body(c)) = ReaderOf(N)
  <2>1. ReadAll(ReaderOf(s), (A \o W \o R \o Comma(s3)) \o Body(c)) =
          ReadAll(ReadAll(ReadAll(ReadAll(ReadAll(ReaderOf(s), A), W), R), Comma(s3)), Body(c))
    BY <1>5, <1>7, <1>11, <1>12, ReadFive
  <2> QED
    BY <1>5, <1>7, <1>11, <2>1, Zenon
<1>14. Shape(s, c, N)
  <2>1. Came(s, c, v, f)
    BY <1>7, <1>8 DEF Came, k, s1
  <2> QED
    BY <1>11, <2>1, ShapeOf
<1> QED
  BY <1>3, <1>11, <1>13, <1>14 DEF N

(* The calls left to make suit the stack: an element's container is opened by
   one of them, or it is on the stack, an array or about to become one, and no
   call before the element leaves it or opens another one at its level. *)
Spares(q, j, m, lv) == IF q[m].k = "elem" THEN q[m].lv >= lv ELSE q[m].lv > q[j].lv
InCalls(q, j) ==
  \E i \in 1..(j - 1) :
    /\ q[i].k = "open" /\ q[i].lv <= q[j].lv /\ q[i + 1].k = "elem"
    /\ \A m \in (i + 1)..(j - 1) : Spares(q, j, m, q[i].lv)
Holder(s, q, j, p) ==
  /\ s[p].lv <= q[j].lv /\ \A i \in (p + 1)..Len(s) : s[i].lv > q[j].lv
  /\ s[p].close = "]" \/ (p = Len(s) /\ IsUndecided(s) /\ q[1].k = "elem")
  /\ \A m \in 1..(j - 1) : Spares(q, j, m, s[p].lv)
InStack(s, q, j) == \E p \in 2..Len(s) : Holder(s, q, j, p)
Ready(s, q) == \A j \in 1..Len(q) : q[j].k = "elem" => InCalls(q, j) \/ InStack(s, q, j)

(* The levels of a stack and of the calls are numbers. *)
LEMMA LevelTypes ==
  ASSUME NEW s, StackOK(s), NEW q \in Seq(CallSet)
  PROVE  /\ s \in Seq(Frame) /\ Len(s) \in Nat /\ Len(s) > 0 /\ \A i \in 1..Len(s) : s[i].lv \in Int
         /\ Len(q) \in Nat /\ \A i \in 1..Len(q) : q[i] \in CallSet /\ q[i].lv \in Int
<1>1. s \in Seq(Frame) /\ Len(s) > 0
  BY DEF StackOK
<1>2. \A f \in Frame : f.lv \in Int
  BY DEF Frame, MaxLevel
<1>3. \A c \in CallSet : c.lv \in Int
  BY DEF CallSet, MaxLevel
<1> QED
  BY <1>1, <1>2, <1>3

(* The last container that stays for a call, if container p stays *)
LEMMA KeptAbove ==
  ASSUME NEW s, StackOK(s), NEW c \in CallSet, NEW p \in 1..Len(s), Stays(s, c, p)
  PROVE  p <= Kept(s, c) /\ Kept(s, c) \in 1..Len(s)
<1> DEFINE k == Kept(s, c)
<1>1. k \in 1..Len(s) /\ \A j \in (k + 1)..Len(s) : ~Stays(s, c, j)
  BY AscendShape
<1>2. Len(s) \in Nat
  BY DEF StackOK
<1> HIDE DEF k
<1>3. p <= k
  <2> SUFFICES ASSUME p > k PROVE FALSE
    BY <1>1, <1>2
  <2>1. p \in (k + 1)..Len(s)
    BY <1>1, <1>2
  <2> QED
    BY <1>1, <2>1
<1> QED
  BY <1>1, <1>3 DEF k

(* When the calls to come suit the stack, the next one fits. *)
LEMMA ReadyFits ==
  ASSUME NEW s, StackOK(s), NEW q \in Seq(CallSet), q # <<>>, Ready(s, q)
  PROVE  Fits(Ascend(s, q[1]), q[1])
<1> DEFINE c == q[1]
           k == Kept(s, c)
<1> SUFFICES ASSUME c.k = "elem" PROVE IsUndecided(Ascend(s, c)) \/ Top(Ascend(s, c)).close = "]"
  BY DEF Fits
<1>1. Len(q) \in Nat /\ 1 \in 1..Len(q) /\ c \in CallSet /\ c.lv \in Int /\ Len(s) \in Nat
      /\ s \in Seq(Frame) /\ \A i \in 1..Len(s) : s[i].lv \in Int
  BY LevelTypes
<1>2. ~InCalls(q, 1)
  BY DEF InCalls
<1>3. PICK p \in 2..Len(s) : Holder(s, q, 1, p)
  BY <1>1, <1>2 DEF Ready, InStack
<1>4. p \in 1..Len(s) /\ Stays(s, c, p)
  BY <1>1, <1>3 DEF Holder, Stays, min_close
<1>5. p <= k /\ k \in 1..Len(s) /\ Stays(s, c, k)
  BY <1>1, <1>4, KeptAbove, AscendShape
<1> HIDE DEF k
<1>6. k = p
  <2> SUFFICES ASSUME k > p PROVE FALSE
    BY <1>1, <1>4, <1>5
  <2>1. k \in (p + 1)..Len(s) /\ k # 1
    BY <1>1, <1>4, <1>5
  <2>2. s[k].lv > c.lv
    BY <1>3, <2>1 DEF Holder
  <2> QED
    BY <1>1, <1>5, <2>1, <2>2 DEF Stays, min_close
<1>7. Len(Ascend(s, c)) = p /\ Top(Ascend(s, c)) = s[p] /\ Ascend(s, c) = SubSeq(s, 1, p)
  <2>1. Len(Ascend(s, c)) = k /\ (\A i \in 1..k : Ascend(s, c)[i] = s[i]) /\ Ascend(s, c) = SubSeq(s, 1, k)
    <3>1. Len(Ascend(s, c)) = k /\ \A i \in 1..k : Ascend(s, c)[i] = s[i]
      BY <1>1, AscendShape DEF k
    <3>2. Ascend(s, c) = SubSeq(s, 1, k)
      BY DEF k, Ascend
    <3> QED
      BY <3>1, <3>2
  <2>2. p \in 1..p
    BY <1>4
  <2> QED
    BY <1>6, <2>1, <2>2 DEF Top
<1>8. CASE s[p].close = "]"
  BY <1>7, <1>8
<1>9. CASE p = Len(s) /\ IsUndecided(s)
  <2>1. SubSeq(s, 1, Len(s)) = s
    BY <1>1
  <2> QED
    BY <1>7, <1>9, <2>1
<1> QED
  BY <1>3, <1>8, <1>9 DEF Holder

(* The calls left after the next one *)
LEMMA TailFacts ==
  ASSUME NEW q \in Seq(CallSet), q # <<>>
  PROVE  /\ Tail(q) \in Seq(CallSet) /\ Len(Tail(q)) = Len(q) - 1 /\ Head(q) = q[1] /\ Len(q) \in Nat \ {0}
         /\ \A i \in 1..(Len(q) - 1) : Tail(q)[i] = q[i + 1]
<1> HIDE DEF CallSet
<1> QED
  OBVIOUS

(* A container known to be an array is decided. *)
Kinds(s) == \A p \in 1..Len(s) : s[p].close = "]" => s[p].child_lv # Undecided

(* So it is on a proper stack. *)
LEMMA ProperKinds ==
  ASSUME NEW s, StackOK(s), Proper(s)
  PROVE  Kinds(s)
<1>1. Len(s) \in Nat
  BY DEF StackOK
<1>2. SUFFICES ASSUME NEW p \in 1..Len(s), s[p].close = "]" PROVE s[p].child_lv # Undecided
  BY DEF Kinds
<1>3. CASE p = Len(s)
  BY <1>2, <1>3 DEF Proper, Settled, Pending, Top
<1>4. CASE p # Len(s)
  <2>1. p \in 1..(Len(s) - 1)
    BY <1>1, <1>4
  <2> QED
    BY <2>1 DEF Proper, Settled
<1> QED
  BY <1>3, <1>4

(* A call leaves what the ones behind it need. *)
LEMMA ReadyNext ==
  ASSUME NEW s, StackOK(s), Kinds(s), NEW q \in Seq(CallSet), q # <<>>, Ready(s, q),
         NEW N, Shape(s, q[1], N), StackOK(N)
  PROVE  Ready(N, Tail(q))
<1> DEFINE c == q[1]
           k == Kept(s, c)
           t == Tail(q)
<1>1. /\ t \in Seq(CallSet) /\ Len(t) = Len(q) - 1 /\ Len(q) \in Nat \ {0}
      /\ \A i \in 1..(Len(q) - 1) : t[i] = q[i + 1]
  BY TailFacts
<1>2. /\ Len(s) \in Nat /\ Len(s) > 0 /\ s \in Seq(Frame) /\ \A i \in 1..Len(s) : s[i].lv \in Int
      /\ \A i \in 1..Len(q) : q[i] \in CallSet /\ q[i].lv \in Int
      /\ c \in CallSet /\ c.lv \in Int
  BY <1>1, LevelTypes
<1>3. /\ Len(N) \in Nat /\ Len(N) >= k /\ \A i \in 1..k : N[i].lv = s[i].lv
      /\ \A i \in 1..(k - 1) : N[i].close = s[i].close
      /\ N[k].close = IF IsUndecided(Ascend(s, c)) THEN ClosingOf(c) ELSE s[k].close
      /\ \A i \in (k + 1)..Len(N) : N[i].lv = c.lv /\ c.k # "elem"
      /\ c.k = "open" => Top(N).lv = c.lv /\ IsUndecided(N)
  BY DEF Shape
<1>4. k \in 1..Len(s) /\ Len(Ascend(s, c)) = k /\ \A i \in 1..k : Ascend(s, c)[i] = s[i]
  <2> HIDE DEF c
  <2> QED
    BY <1>2, AscendShape
<1> HIDE DEF t
<1> SUFFICES ASSUME NEW j \in 1..Len(t), t[j].k = "elem" PROVE InCalls(t, j) \/ InStack(N, t, j)
  BY DEF Ready, t
<1>5. j + 1 \in 1..Len(q) /\ t[j] = q[j + 1] /\ q[j + 1].k = "elem" /\ (j + 1) - 1 = j /\ j \in Nat
  BY <1>1
<1>6. \A m \in 1..(j - 1) : t[m] = q[m + 1] /\ m + 1 \in 1..Len(q)
  BY <1>1
<1>7. ASSUME NEW m \in 1..(j - 1), NEW lv, Spares(q, j + 1, m + 1, lv) PROVE Spares(t, j, m, lv)
  BY <1>5, <1>6, <1>7 DEF Spares
<1>8. CASE InCalls(q, j + 1)
  <2>1. PICK i \in 1..j :
          /\ q[i].k = "open" /\ q[i].lv <= q[j + 1].lv /\ q[i + 1].k = "elem"
          /\ \A m \in (i + 1)..j : Spares(q, j + 1, m, q[i].lv)
    BY <1>5, <1>8 DEF InCalls
  <2>2. CASE i = 1
    <3>1. c.k = "open" /\ c.lv <= q[j + 1].lv /\ q[2].k = "elem" /\ \A m \in 2..j : Spares(q, j + 1, m, c.lv)
      BY <2>1, <2>2
    <3>2. Top(N).lv = c.lv /\ IsUndecided(N) /\ Len(N) > 1 /\ N[Len(N)].lv = c.lv /\ Len(N) \in 2..Len(N)
      BY <1>3, <3>1 DEF IsUndecided, Top
    <3>3. t[1].k = "elem"
      BY <1>1, <1>5, <3>1
    <3>4. \A m \in 1..(j - 1) : Spares(t, j, m, c.lv)
      <4> TAKE m \in 1..(j - 1)
      <4>1. m + 1 \in 2..j
        BY <1>5
      <4> QED
        BY <1>7, <3>1, <4>1
    <3>5. \A x \in (Len(N) + 1)..Len(N) : FALSE
      BY <1>3
    <3>6. Holder(N, t, j, Len(N))
      BY <1>5, <3>1, <3>2, <3>3, <3>4, <3>5 DEF Holder
    <3> QED
      BY <3>2, <3>6 DEF InStack
  <2>3. CASE i # 1
    <3> DEFINE x == i - 1
    <3>1. x \in 1..(j - 1) /\ x + 1 = i /\ x \in 1..(Len(q) - 1) /\ x + 1 \in 1..(Len(q) - 1)
      BY <1>1, <1>5, <2>3
    <3>2. t[x] = q[i] /\ t[x + 1] = q[i + 1]
      <4> HIDE DEF x
      <4>1. t[x] = q[x + 1]
        BY <1>1, <3>1
      <4>2. t[i] = q[i + 1]
        BY <1>1, <3>1
      <4> QED
        BY <3>1, <4>1, <4>2
    <3>3. \A m \in (x + 1)..(j - 1) : Spares(t, j, m, t[x].lv)
      <4> TAKE m \in (x + 1)..(j - 1)
      <4>1. m + 1 \in (i + 1)..j /\ m \in 1..(j - 1)
        BY <1>5, <3>1
      <4>2. Spares(q, j + 1, m + 1, q[i].lv)
        BY <2>1, <4>1
      <4> QED
        BY <1>7, <3>2, <4>1, <4>2
    <3> HIDE DEF x
    <3>4. InCalls(t, j)
      BY <1>5, <2>1, <3>1, <3>2, <3>3 DEF InCalls
    <3> QED
      BY <3>4
  <2> QED
    BY <2>2, <2>3
<1>9. CASE InStack(s, q, j + 1)
  <2>1. PICK p \in 2..Len(s) : Holder(s, q, j + 1, p)
    BY <1>9 DEF InStack
  <2>2. /\ s[p].lv <= q[j + 1].lv /\ \A i \in (p + 1)..Len(s) : s[i].lv > q[j + 1].lv
        /\ s[p].close = "]" \/ (p = Len(s) /\ IsUndecided(s) /\ c.k = "elem")
        /\ \A m \in 1..j : Spares(q, j + 1, m, s[p].lv)
    BY <1>5, <2>1 DEF Holder
  <2>3. p \in 1..Len(s) /\ p \in Nat /\ p > 1 /\ s[p].lv \in Int /\ q[j + 1].lv \in Int
    BY <1>2, <1>5
  <2>4. IF c.k = "elem" THEN c.lv >= s[p].lv ELSE c.lv > q[j + 1].lv
    <3>1. 1 \in 1..j
      BY <1>5
    <3> QED
      BY <2>2, <3>1 DEF Spares
  <2>5. Stays(s, c, p)
    BY <1>2, <2>2, <2>3, <2>4 DEF Stays, min_close
  <2>6. p <= k
    BY <1>2, <2>3, <2>5, KeptAbove
  <2> HIDE DEF k
  <2>7. N[p].lv = s[p].lv /\ p \in 2..Len(N)
    BY <1>3, <1>4, <2>3, <2>6
  <2>8. \A i \in (p + 1)..Len(N) : N[i].lv > q[j + 1].lv
    <3> TAKE i \in (p + 1)..Len(N)
    <3>1. CASE i <= k
      <4>1. i \in 1..k /\ i \in (p + 1)..Len(s)
        BY <1>2, <1>4, <2>3, <3>1
      <4> QED
        BY <1>3, <2>2, <4>1
    <3>2. CASE i > k
      <4>1. i \in (k + 1)..Len(N)
        BY <1>3, <1>4, <2>3, <3>2
      <4> QED
        BY <1>3, <2>4, <4>1
    <3> QED
      BY <1>4, <2>3, <3>1, <3>2
  <2>9. N[p].close = "]"
    <3>1. CASE p < k
      <4>1. p \in 1..(k - 1) /\ p # Len(s)
        BY <1>2, <1>4, <2>3, <3>1
      <4> QED
        BY <1>3, <2>2, <4>1
    <3>2. CASE p = k
      <4>1. /\ Len(Ascend(s, c)) = p /\ Top(Ascend(s, c)) = s[p] /\ Ascend(s, c) = SubSeq(s, 1, p)
        <5>1. Len(Ascend(s, c)) = k /\ (\A i \in 1..k : Ascend(s, c)[i] = s[i]) /\ Ascend(s, c) = SubSeq(s, 1, k)
          BY <1>4 DEF k, Ascend
        <5>2. p \in 1..p
          BY <2>3
        <5> QED
          BY <3>2, <5>1, <5>2 DEF Top
      <4>2. CASE s[p].close = "]"
        <5>1. s[p].child_lv # Undecided
          BY <2>3, <4>2 DEF Kinds
        <5>2. ~IsUndecided(Ascend(s, c))
          BY <4>1, <5>1 DEF IsUndecided
        <5> QED
          BY <1>3, <3>2, <4>2, <5>2
      <4>3. CASE p = Len(s) /\ IsUndecided(s) /\ c.k = "elem"
        <5>1. SubSeq(s, 1, Len(s)) = s
          BY <1>2
        <5>2. IsUndecided(Ascend(s, c))
          BY <4>1, <4>3, <5>1
        <5> QED
          BY <1>3, <3>2, <4>3, <5>2 DEF ClosingOf
      <4> QED
        BY <2>2, <4>2, <4>3
    <3> QED
      BY <1>4, <2>3, <2>6, <3>1, <3>2
  <2>10. \A m \in 1..(j - 1) : Spares(t, j, m, N[p].lv)
    <3> TAKE m \in 1..(j - 1)
    <3>1. m + 1 \in 1..j
      BY <1>5
    <3> QED
      BY <1>7, <2>2, <2>7, <3>1
  <2>11. Holder(N, t, j, p)
    BY <1>5, <2>2, <2>7, <2>8, <2>9, <2>10 DEF Holder
  <2> QED
    BY <2>7, <2>11 DEF InStack
<1> QED
  BY <1>5, <1>8, <1>9 DEF Ready

(* The inductive invariant: while a JSON report is written the reader stands
   where the stack says, and the calls to come suit the stack. *)
Json == {"json", "html"}
Phases == {"open", "no_file", "dump", "closed"}
JsonInv ==
  /\ pc \in Phases
  /\ outtype \notin Json \/ pc \in {"open", "no_file"} => jread = <<"document">>
  /\ pc = "open" => calls = <<>>
  /\ outtype \in Json /\ pc = "dump" =>
       Proper(jstack) /\ jread = ReaderOf(jstack) /\ Ready(jstack, calls)
  /\ outtype \in Json /\ pc = "closed" => jread = <<"end">>

(* A table that writes elements only into containers of its own suits every stack. *)
LEMMA ElementsReady ==
  ASSUME NEW s, NEW q, Elements(q)
  PROVE  Ready(s, q)
  BY DEF Elements, Ready, InCalls, Spares

(* Readers of one state *)
LEMMA BaseEmpty ==
  /\ Base(<<>>) = <<"end">> /\ <<"end">> \in Readers /\ <<"document">> \in Readers
  /\ Append(<<>>, "end") = <<"end">> /\ Append(<<>>, "document") = <<"document">> /\ <<>> \in Readers
<1>1. <<>> \in Seq(Frame) /\ Len(<<>>) = 0
  OBVIOUS
<1>2. Base(<<>>) \in Readers /\ Len(Base(<<>>)) = 1
  <2>1. Base(<<>>) \in Readers /\ Len(Base(<<>>)) = Len(<<>>) + 1
    BY <1>1, BaseType
  <2> QED
    BY <1>1, <2>1
<1>3. Base(<<>>)[1] = "end"
  BY <1>1 DEF Base
<1>4. "end" \in ReaderStates /\ "document" \in ReaderStates
  BY DEF ReaderStates
<1>5. <<"end">> \in Readers /\ Len(<<"end">>) = 1 /\ <<"end">>[1] = "end" /\ <<"document">> \in Readers
  BY <1>4 DEF Readers
<1>6. Base(<<>>) = <<"end">>
  BY <1>2, <1>3, <1>5 DEF Readers
<1>7. Append(<<>>, "end") = <<"end">> /\ Append(<<>>, "document") = <<"document">> /\ <<>> \in Readers
  BY DEF Readers
<1> QED
  BY <1>5, <1>6, <1>7

(* A token alone is a text. *)
LEMMA OneToken ==
  ASSUME NEW x \in Tokens
  PROVE  <<x>> \in Seq(Tokens)
OBVIOUS

(* A stack of one decided container *)
LEMMA OneFrame ==
  ASSUME NEW f \in Frame, Settled(f)
  PROVE  Proper(<<f>>) /\ ReaderOf(<<f>>) = Append(<<"end">>, Expects(f))
<1>1. <<>> \in Seq(Frame) /\ <<f>> = Append(<<>>, f) /\ Len(<<f>>) = 1 /\ <<f>>[1] = f
  OBVIOUS
<1>2. Base(<<f>>) = Append(<<"end">>, Expects(f))
  BY <1>1, BaseAppend, BaseEmpty
<1>3. ReaderOf(<<f>>) = Base(<<f>>)
  BY <1>1 DEF ReaderOf, IsUndecided
<1>4. Top(<<f>>) = f
  BY <1>1 DEF Top
<1>5. Proper(<<f>>)
  BY <1>1, <1>4 DEF Proper
<1> QED
  BY <1>2, <1>3, <1>5

(* The container res_open opens *)
LEMMA RootFrame ==
  ASSUME NEW close \in Brackets
  PROVE  /\ jcnt(-1, 0, close) \in Frame /\ jcnt(-1, 0, close).child_lv # Undecided
         /\ jcnt(-1, 0, close).close = close /\ jcnt(-1, 0, close).has_child = FALSE
<1>1. <<>> \in Keys
  <2>1. <<>> \in [{} -> Nat] /\ {} \in SUBSET STRING
    OBVIOUS
  <2> QED
    BY <2>1 DEF Keys
<1> QED
  BY <1>1 DEF jcnt, Frame, MaxLevel, Undecided

(* The bracket res_open writes *)
LEMMA FirstToken ==
  /\ ReadAll(<<"document">>, <<"{">>) = Append(<<"end">>, "object_first")
  /\ ReadAll(<<"document">>, <<"[">>) = Append(<<"end">>, "array_first")
<1>1. /\ Read(Append(<<>>, "document"), "{") = Append(Append(<<>>, "end"), "object_first")
      /\ Read(Append(<<>>, "document"), "[") = Append(Append(<<>>, "end"), "array_first")
  BY BaseEmpty, ReadFacts
<1>2. /\ Read(<<"document">>, "{") = Append(<<"end">>, "object_first")
      /\ Read(<<"document">>, "[") = Append(<<"end">>, "array_first")
  BY <1>1, BaseEmpty
<1>3. "{" \in Tokens /\ "[" \in Tokens /\ <<"document">> \in Readers
  BY TokenSeqs, BaseEmpty
<1>4. /\ ReadAll(<<"document">>, <<"{">>) = Read(<<"document">>, "{")
      /\ ReadAll(<<"document">>, <<"[">>) = Read(<<"document">>, "[")
  BY <1>3, ReadOne
<1> QED
  BY <1>2, <1>4

(* After res_open the reader stands where the root says. *)
LEMMA RootRead ==
  /\ Proper(res_init_root("}"))
  /\ ReadAll(<<"document">>, <<"{">>) = ReaderOf(res_init_root("}"))
  /\ Proper(res_init_root("]"))
  /\ ReadAll(<<"document">>, <<"[">>) = ReaderOf(res_init_root("]"))
<1>1. "]" \in Brackets /\ "}" \in Brackets
  BY DEF Brackets
<1> DEFINE f == jcnt(-1, 0, "}")
           g == jcnt(-1, 0, "]")
<1>2. /\ f \in Frame /\ f.child_lv # Undecided /\ f.close = "}" /\ f.has_child = FALSE
      /\ g \in Frame /\ g.child_lv # Undecided /\ g.close = "]" /\ g.has_child = FALSE
  BY <1>1, RootFrame
<1>3. res_init_root("}") = <<f>> /\ res_init_root("]") = <<g>>
  BY DEF res_init_root
<1> HIDE DEF f, g
<1>4. Settled(f) /\ Settled(g)
  BY <1>2 DEF Settled
<1>5. Expects(f) = "object_first" /\ Expects(g) = "array_first"
  BY <1>2 DEF Expects
<1>6. /\ Proper(<<f>>) /\ ReaderOf(<<f>>) = Append(<<"end">>, Expects(f))
      /\ Proper(<<g>>) /\ ReaderOf(<<g>>) = Append(<<"end">>, Expects(g))
  BY <1>2, <1>4, OneFrame
<1> QED
  BY <1>3, <1>5, <1>6, FirstToken

(* hier_close *)
LEMMA ClosedRead ==
  ASSUME NEW s, StackOK(s), Proper(s)
  PROVE  ReadAll(ReaderOf(s), Closing(s, 1) \o <<s[1].close>>) = <<"end">>
<1> DEFINE r == SubSeq(s, 1, 1)
           f == s[1]
<1>1. s \in Seq(Frame) /\ Len(s) \in Nat /\ 1 \in 1..Len(s) /\ Len(s) \in 1..Len(s)
  BY DEF StackOK
<1>2. /\ Closing(s, 1) \in Seq(Tokens) /\ ReadAll(ReaderOf(s), Closing(s, 1)) = ReaderOf(r)
      /\ r \in Seq(Frame) /\ Proper(r) /\ ReaderOf(r) \in Readers
  BY <1>1, CloseMany
<1>3. ReaderOf(s) \in Readers
  <2>1. SubSeq(s, 1, Len(s)) = s
    BY <1>1
  <2>2. ReaderOf(SubSeq(s, 1, Len(s))) \in Readers
    BY <1>1, CloseMany
  <2> QED
    BY <2>1, <2>2
<1>4. Len(r) = 1 /\ Top(r) = f /\ Front(r) = <<>>
  <2>1. Len(r) = 1 /\ r[1] = s[1]
    BY <1>1
  <2> HIDE DEF r
  <2>2. Len(r) > 0
    BY <2>1
  <2>3. Front(r) \in Seq(Frame) /\ Len(Front(r)) = 1 - 1
    BY <1>2, <2>1, <2>2, StackSplit
  <2>4. Front(r) = <<>>
    BY <2>3
  <2> QED
    BY <2>1, <2>4 DEF Top
<1> HIDE DEF r
<1>5. Settled(f)
  <2>1. ~(Len(r) > 1)
    BY <1>4
  <2>2. Settled(Top(r))
    BY <1>2, <2>1 DEF Proper, Pending
  <2> QED
    BY <1>4, <2>2
<1>6. ReaderOf(r) = Append(<<"end">>, Expects(f))
  <2>1. ReaderOf(r) = Base(r)
    BY <1>4 DEF ReaderOf, IsUndecided
  <2>2. Len(r) > 0
    BY <1>4
  <2>3. Base(r) = Append(Base(Front(r)), Expects(Top(r)))
    BY <1>2, <2>2, BaseSplit
  <2> QED
    BY <1>4, <2>1, <2>3, BaseEmpty
<1> DEFINE x == f.close
<1>7. x \in Tokens /\ x \in {"}", "]"}
  BY <1>5, TokenSeqs DEF Settled
<1>8. Read(Append(<<"end">>, Expects(f)), x) = <<"end">>
  <2>1. CASE x = "}"
    <3>1. Expects(f) \in {"object_first", "object_more"}
      BY <2>1 DEF Expects
    <3> QED
      BY <2>1, <3>1, BaseEmpty, ReadFacts
  <2>2. CASE x = "]"
    <3>1. Expects(f) \in {"array_first", "array_more"}
      BY <2>2 DEF Expects
    <3> QED
      BY <2>2, <3>1, BaseEmpty, ReadFacts
  <2> QED
    BY <1>7, <2>1, <2>2
<1> HIDE DEF x
<1>9. <<x>> \in Seq(Tokens) /\ ReadAll(ReaderOf(r), <<x>>) = Read(ReaderOf(r), x)
  <2>1. <<x>> \in Seq(Tokens)
    BY <1>7, OneToken
  <2>2. ReadAll(ReaderOf(r), <<x>>) = Read(ReaderOf(r), x)
    BY <1>2, <1>7, ReadOne
  <2> QED
    BY <2>1, <2>2
<1>10. ReadAll(ReaderOf(s), Closing(s, 1) \o <<x>>) = ReadAll(ReadAll(ReaderOf(s), Closing(s, 1)), <<x>>)
  BY <1>2, <1>3, <1>9, ReadConcat
<1> QED
  BY <1>2, <1>6, <1>8, <1>9, <1>10 DEF x

(* Each step keeps the invariant of the reader. *)
LEMMA JsonStep == EmitterInv /\ EmitterInv' /\ JsonInv /\ [Next]_vars => JsonInv'
<1> SUFFICES ASSUME EmitterInv, EmitterInv', JsonInv, [Next]_vars PROVE JsonInv'
  OBVIOUS
<1>0. calls \in Seq(CallSet) /\ (pc = "dump" /\ outtype \in Json => StackOK(jstack))
      /\ (pc' = "dump" /\ outtype' \in Json => StackOK(jstack'))
  BY DEF EmitterInv, Json, Trees
<1>1. CASE res_open
  <2>0. /\ pc = "open" /\ pc' = "dump" /\ outtype' = outtype /\ calls' = calls /\ calls = <<>> /\ jread = <<"document">>
    BY <1>1 DEF res_open, JsonInv
  <2>1. CASE outtype = "json"
    <3>1. jstack' = res_init_root("}") /\ jread' = ReadAll(<<"document">>, <<"{">>)
      BY <1>1, <2>0, <2>1 DEF res_open, Trees
    <3>2. Proper(jstack') /\ jread' = ReaderOf(jstack')
      BY <3>1, RootRead
    <3>3. Ready(jstack', calls')
      BY <2>0 DEF Ready
    <3> QED
      BY <2>0, <2>1, <3>2, <3>3 DEF JsonInv, Phases, Json
  <2>2. CASE outtype = "html"
    <3>1. jstack' = res_init_root("]") /\ jread' = ReadAll(<<"document">>, <<"[">>)
      BY <1>1, <2>0, <2>2 DEF res_open, Trees
    <3>2. Proper(jstack') /\ jread' = ReaderOf(jstack')
      BY <3>1, RootRead
    <3>3. Ready(jstack', calls')
      BY <2>0 DEF Ready
    <3> QED
      BY <2>0, <2>2, <3>2, <3>3 DEF JsonInv, Phases, Json
  <2>3. CASE outtype \notin Json
    <3>1. jread' = jread
      BY <1>1, <2>3 DEF res_open, Json
    <3> QED
      BY <2>0, <2>3, <3>1 DEF JsonInv, Phases, Json
  <2> QED
    BY <2>1, <2>2, <2>3 DEF Json
<1>2. CASE res_open_fails
  BY <1>2 DEF res_open_fails, readers, JsonInv, Phases
<1>3. CASE NextTable
  <2>1. PICK i \in at..Len(dump_result), z \in Sizes : calls' = Calls(dump_result[i], z[1], z[2])
    BY <1>3 DEF NextTable
  <2>2. i \in 1..Len(dump_result)
    BY <2>1 DEF EmitterInv
  <2>3. Elements(calls')
    BY <2>1, <2>2, ElementsAssumption
  <2>4. Ready(jstack, calls')
    BY <2>3, ElementsReady
  <2>5. pc = "dump" /\ pc' = pc /\ outtype' = outtype /\ jstack' = jstack /\ jread' = jread
    BY <1>3 DEF NextTable, stackvars, readers
  <2> QED
    BY <2>4, <2>5 DEF JsonInv, Phases
<1>4. CASE j_emit
  <2> DEFINE c == Head(calls)
             N == Push(j_prelude(jstack, c).stack, c)
  <2>1. /\ pc = "dump" /\ calls # <<>> /\ outtype \in Json /\ pc' = pc /\ outtype' = outtype
        /\ calls' = Tail(calls)
    BY <1>4 DEF j_emit, Emitting, Consume, Json
  <2>2. jread' = ReadAll(jread, j_prelude(jstack, c).tokens \o Body(c)) /\ jstack' = N
    BY <1>4 DEF j_emit
  <2>3. c = calls[1] /\ c \in CallSet /\ StackOK(jstack) /\ StackOK(N)
    <3>1. c = calls[1] /\ c \in CallSet
      BY <1>0, <2>1
    <3> QED
      BY <1>0, <2>1, <2>2, <3>1
  <2>4. Proper(jstack) /\ jread = ReaderOf(jstack) /\ Ready(jstack, calls)
    BY <2>1 DEF JsonInv
  <2>5. Fits(Ascend(jstack, c), c)
    BY <1>0, <2>1, <2>3, <2>4, ReadyFits
  <2> HIDE DEF c
  <2>6. /\ ReadAll(ReaderOf(jstack), j_prelude(jstack, c).tokens \o Body(c)) = ReaderOf(N)
        /\ Proper(N) /\ Shape(jstack, c, N)
    BY <2>3, <2>4, <2>5, CallRead
  <2> HIDE DEF N
  <2>7. Ready(N, Tail(calls))
    BY <1>0, <2>1, <2>3, <2>4, <2>6, ProperKinds, ReadyNext
  <2> QED
    BY <2>1, <2>2, <2>4, <2>6, <2>7 DEF JsonInv, Phases
<1>5. CASE y_emit
  <2>1. outtype = "yaml" /\ pc = "dump" /\ pc' = pc /\ outtype' = outtype /\ jread' = jread
    BY <1>5 DEF y_emit, Emitting, Consume
  <2> QED
    BY <2>1 DEF JsonInv, Phases, Json
<1>6. CASE res_put
  <2>1. outtype = "txt" /\ pc = "dump" /\ pc' = pc /\ outtype' = outtype /\ jread' = jread
    BY <1>6 DEF res_put, Emitting, Consume, readers
  <2> QED
    BY <2>1 DEF JsonInv, Phases, Json
<1>7. CASE res_close
  <2>0. pc = "dump" /\ pc' = "closed" /\ outtype' = outtype /\ calls' = calls
    BY <1>7 DEF res_close
  <2>1. CASE outtype \in Json
    <3>1. jread' = ReadAll(jread, Closing(jstack, 1) \o <<jstack[1].close>>)
      BY <1>7, <2>1 DEF res_close, Json
    <3>2. Proper(jstack) /\ jread = ReaderOf(jstack) /\ StackOK(jstack)
      BY <1>0, <2>0, <2>1 DEF JsonInv
    <3>3. jread' = <<"end">>
      BY <3>1, <3>2, ClosedRead
    <3> QED
      BY <2>0, <2>1, <3>3 DEF JsonInv, Phases
  <2>2. CASE outtype \notin Json
    <3>1. jread' = jread
      BY <1>7, <2>2 DEF res_close, Json
    <3> QED
      BY <2>0, <2>2, <3>1 DEF JsonInv, Phases
  <2> QED
    BY <2>1, <2>2
<1>8. CASE UNCHANGED vars
  BY <1>8 DEF vars, stackvars, readers, JsonInv
<1> QED
  BY <1>1, <1>2, <1>3, <1>4, <1>5, <1>6, <1>7, <1>8 DEF Next

(* A reader of a stack expects something: it has not failed. *)
LEMMA ReaderFine ==
  ASSUME NEW s, StackOK(s), Proper(s)
  PROVE  Last(ReaderOf(s)) # "error"
<1>1. s \in Seq(Frame) /\ Len(s) > 0 /\ Len(s) \in Nat
  BY DEF StackOK
<1>2. {"object_first", "object_more", "array_first", "array_more", "member"} \subseteq ReaderStates
  BY DEF ReaderStates
<1>3. \A q \in Readers : \A x \in ReaderStates : Last(Append(q, x)) = x
  <2> HIDE DEF ReaderStates
  <2> QED
    BY FrontLast DEF Readers
<1>4. CASE IsUndecided(s)
  <2>1. Len(s) > 1
    BY <1>4 DEF IsUndecided
  <2>2. Front(s) \in Seq(Frame) /\ Len(Front(s)) = Len(s) - 1
    BY <1>1, StackSplit
  <2>3. Len(Front(s)) > 0
    BY <1>1, <2>1, <2>2
  <2>4. Base(Front(Front(s))) \in Readers
    BY <2>2, <2>3, BaseSplit
  <2> QED
    BY <1>2, <1>3, <1>4, <2>4 DEF ReaderOf
<1>5. CASE ~IsUndecided(s)
  <2>1. Base(s) = Append(Base(Front(s)), Expects(Top(s))) /\ Base(Front(s)) \in Readers
    BY <1>1, BaseSplit
  <2>2. Expects(Top(s)) \in {"object_first", "object_more", "array_first", "array_more"}
    BY DEF Expects
  <2>3. Last(Base(s)) = Expects(Top(s))
    BY <1>2, <1>3, <2>1, <2>2
  <2> QED
    BY <1>5, <2>2, <2>3 DEF ReaderOf
<1> QED
  BY <1>4, <1>5

(* The invariant of the reader says that the text is well formed. *)
LEMMA JsonFine == EmitterInv /\ JsonInv => JsonWellFormed
<1> SUFFICES ASSUME EmitterInv, JsonInv PROVE JsonWellFormed
  OBVIOUS
<1>1. Last(<<"document">>) # "error" /\ Last(<<"end">>) # "error"
  BY DEF Last
<1>2. Last(jread) # "error"
  <2>1. CASE outtype \in Json /\ pc = "dump"
    <3>1. StackOK(jstack) /\ Proper(jstack) /\ jread = ReaderOf(jstack)
      BY <2>1 DEF EmitterInv, JsonInv, Json, Trees
    <3> QED
      BY <3>1, ReaderFine
  <2>2. CASE ~(outtype \in Json /\ pc = "dump")
    <3>1. jread = <<"document">> \/ jread = <<"end">>
      BY <2>2 DEF JsonInv, Phases
    <3> QED
      BY <1>1, <3>1
  <2> QED
    BY <2>1, <2>2
<1> QED
  BY <1>2 DEF JsonWellFormed, JsonInv, Json

(* Whatever tables a report holds, and however many, what j_emit writes is
   at each moment the beginning of a JSON text, and the text is whole when
   res_close returns. *)
THEOREM JsonAlwaysWellFormed == Spec => []JsonWellFormed
<1>1. Init => JsonInv
  BY DEF Init, JsonInv, Phases
<1>2. Spec => []EmitterInv
  BY InvHoldsInit, InvIsInductive, PTL DEF Spec
<1>3. EmitterInv /\ EmitterInv' /\ JsonInv /\ [Next]_vars => JsonInv'
  BY JsonStep
<1>4. EmitterInv /\ JsonInv => JsonWellFormed
  BY JsonFine
<1> QED
  BY <1>1, <1>2, <1>3, <1>4, PTL DEF Spec

-----------------------------------------------------------------------------
(* YAML: the blocks that its lines make are the containers of the stack. *)

(* The names a mapping holds: the n-th use of a key is one of its own. *)
Names(ek) == {p \in (DOMAIN ek) \X Nat : p[2] \in 1..ek[p[1]]}
KindOf(f) == IF f.close = "]" THEN "seq" ELSE "map"
BlockAt(i, f) == [col |-> 2 * (i - 1), kind |-> KindOf(f), keys |-> Names(f.ek)]
Outline(s) == [i \in 1..Len(s) |-> BlockAt(i, s[i])]
BlockSet == [col : Nat, kind : {"seq", "map"}, keys : SUBSET (STRING \X Nat)]

(* A container's block is a block. *)
LEMMA BlockType ==
  ASSUME NEW f \in Frame, NEW i \in Nat \ {0}
  PROVE  BlockAt(i, f) \in BlockSet /\ BlockAt(i, f).col = 2 * (i - 1)
<1>1. PICK D \in SUBSET STRING : f.ek \in [D -> Nat]
  BY DEF Frame, Keys
<1>2. Names(f.ek) \in SUBSET (STRING \X Nat)
  BY <1>1 DEF Names
<1>3. KindOf(f) \in {"seq", "map"}
  BY DEF KindOf
<1>4. 2 * (i - 1) \in Nat
  OBVIOUS
<1> HIDE DEF Names, KindOf
<1> QED
  BY <1>2, <1>3, <1>4 DEF BlockAt, BlockSet

(* The outline of a stack has a block for each container. *)
LEMMA OutlineType ==
  ASSUME NEW u \in Seq(Frame)
  PROVE  /\ Outline(u) \in Seq(BlockSet) /\ Len(Outline(u)) = Len(u) /\ Len(u) \in Nat
         /\ \A i \in 1..Len(u) : Outline(u)[i] = BlockAt(i, u[i]) /\ Outline(u)[i].col = 2 * (i - 1)
<1>1. Len(u) \in Nat /\ \A i \in 1..Len(u) : u[i] \in Frame /\ i \in Nat \ {0}
  OBVIOUS
<1>2. \A i \in 1..Len(u) : BlockAt(i, u[i]) \in BlockSet /\ BlockAt(i, u[i]).col = 2 * (i - 1)
  BY <1>1, BlockType
<1> HIDE DEF BlockAt, BlockSet
<1>3. Outline(u) \in Seq(BlockSet) /\ Len(Outline(u)) = Len(u)
  BY <1>1, <1>2 DEF Outline
<1>4. \A i \in 1..Len(u) : Outline(u)[i] = BlockAt(i, u[i])
  BY DEF Outline
<1> QED
  BY <1>1, <1>2, <1>3, <1>4

(* A container on top adds its block. *)
LEMMA OutlineAppend ==
  ASSUME NEW u \in Seq(Frame), NEW f \in Frame
  PROVE  Outline(Append(u, f)) = Append(Outline(u), BlockAt(Len(u) + 1, f))
<1> DEFINE a == Append(u, f)
           n == Len(u)
           b == BlockAt(n + 1, f)
           x == Append(Outline(u), b)
<1>1. n \in Nat /\ a \in Seq(Frame) /\ Len(a) = n + 1 /\ a[n + 1] = f /\ \A i \in 1..n : a[i] = u[i]
  BY AppendFacts
<1>2. b \in BlockSet
  BY <1>1, BlockType
<1>3. /\ Outline(a) \in Seq(BlockSet) /\ Len(Outline(a)) = n + 1
      /\ \A i \in 1..(n + 1) : Outline(a)[i] = BlockAt(i, a[i])
  BY <1>1, OutlineType
<1>4. /\ Outline(u) \in Seq(BlockSet) /\ Len(Outline(u)) = n
      /\ \A i \in 1..n : Outline(u)[i] = BlockAt(i, u[i])
  BY OutlineType
<1> HIDE DEF b, a, n, BlockSet, BlockAt, Outline
<1>5. x \in Seq(BlockSet) /\ Len(x) = n + 1 /\ x[n + 1] = b /\ \A i \in 1..n : x[i] = Outline(u)[i]
  BY <1>1, <1>2, <1>4
<1> HIDE DEF x
<1>6. \A i \in 1..(n + 1) : i = n + 1 \/ i \in 1..n
  BY <1>1
<1>7. b = BlockAt(n + 1, a[n + 1])
  BY <1>1 DEF b
<1>8. \A i \in 1..(n + 1) : Outline(a)[i] = x[i]
  BY <1>1, <1>3, <1>4, <1>5, <1>6, <1>7
<1>9. Outline(a) = x
  BY <1>3, <1>5, <1>8
<1> QED
  BY <1>9 DEF a, b, n, x

(* The outline of the lower part of a stack is the lower part of its outline. *)
LEMMA OutlinePart ==
  ASSUME NEW v \in Seq(Frame), NEW n \in 0..Len(v)
  PROVE  SubSeq(Outline(v), 1, n) = Outline(SubSeq(v, 1, n)) /\ SubSeq(v, 1, n) \in Seq(Frame)
<1> DEFINE t == SubSeq(v, 1, n)
           x == SubSeq(Outline(v), 1, n)
<1>1. t \in Seq(Frame) /\ Len(t) = n /\ \A i \in 1..n : t[i] = v[i] /\ i \in 1..Len(v)
  OBVIOUS
<1>2. /\ Outline(v) \in Seq(BlockSet) /\ Len(Outline(v)) = Len(v)
      /\ \A i \in 1..Len(v) : Outline(v)[i] = BlockAt(i, v[i])
  BY OutlineType
<1>3. Outline(t) \in Seq(BlockSet) /\ Len(Outline(t)) = n /\ \A i \in 1..n : Outline(t)[i] = BlockAt(i, t[i])
  BY <1>1, OutlineType
<1> HIDE DEF t, BlockSet, BlockAt, Outline
<1>4. x \in Seq(BlockSet) /\ Len(x) = n /\ \A i \in 1..n : x[i] = Outline(v)[i]
  BY <1>2
<1> HIDE DEF x
<1>5. \A i \in 1..n : x[i] = Outline(t)[i]
  BY <1>1, <1>2, <1>3, <1>4
<1>6. x = Outline(t)
  BY <1>3, <1>4, <1>5
<1> QED
  BY <1>1, <1>6 DEF x, t

(* A line at the column of container n reaches the blocks up to the n-th. *)
LEMMA ReachedOutline ==
  ASSUME NEW v \in Seq(Frame), NEW n \in Nat \ {0}
  PROVE  Reached(Outline(v), 2 * (n - 1)) = IF n <= Len(v) THEN n ELSE Len(v)
<1> DEFINE o == Outline(v)
           d == Len(v)
           m == IF n <= d THEN n ELSE d
           P(k) == (k = 0 \/ o[k].col <= 2 * (n - 1)) /\ \A j \in (k + 1)..Len(o) : o[j].col > 2 * (n - 1)
<1>1. d \in Nat /\ Len(o) = d /\ \A i \in 1..d : o[i].col = 2 * (i - 1)
  BY OutlineType
<1> HIDE DEF o, d
<1>2. m \in 0..Len(o) /\ P(m)
  BY <1>1
<1>3. ASSUME NEW k \in 0..Len(o), P(k) PROVE k = m
  <2>1. k > m => FALSE
    BY <1>1, <1>3
  <2>2. k < m => FALSE
    <3> SUFFICES ASSUME k < m PROVE FALSE
      OBVIOUS
    <3>1. m \in (k + 1)..Len(o) /\ m \in 1..d
      BY <1>1
    <3>2. o[m].col > 2 * (n - 1) /\ o[m].col = 2 * (m - 1)
      BY <1>1, <1>3, <3>1
    <3> QED
      BY <1>1, <3>1, <3>2
  <2> QED
    BY <1>1, <2>1, <2>2
<1>4. Reached(o, 2 * (n - 1)) = CHOOSE k \in 0..Len(o) : P(k)
  BY DEF Reached
<1> HIDE DEF P, m
<1>5. (CHOOSE k \in 0..Len(o) : P(k)) = m
  BY <1>2, <1>3
<1> QED
  BY <1>4, <1>5 DEF m, o, d

(* A sequence as what lies below its last block, and that one *)
LEMMA BlockAppend ==
  ASSUME NEW u \in Seq(BlockSet), NEW f \in BlockSet, NEW g \in BlockSet
  PROVE  /\ Append(u, f) \in Seq(BlockSet) /\ Len(Append(u, f)) = Len(u) + 1 /\ Append(u, f) # <<>>
         /\ Last(Append(u, f)) = f /\ SetTop(Append(u, f), g) = Append(u, g)
<1> DEFINE n == Len(u)
           a == Append(u, f)
           b == Append(u, g)
           e == [a EXCEPT ![Len(a)] = g]
<1> HIDE DEF BlockSet
<1>1. n \in Nat /\ a \in Seq(BlockSet) /\ Len(a) = n + 1 /\ a[n + 1] = f /\ \A i \in 1..n : a[i] = u[i]
  OBVIOUS
<1>2. b \in Seq(BlockSet) /\ Len(b) = n + 1 /\ b[n + 1] = g /\ \A i \in 1..n : b[i] = u[i]
  OBVIOUS
<1> HIDE DEF n, a, b
<1>3. e \in Seq(BlockSet) /\ Len(e) = n + 1 /\ \A i \in 1..(n + 1) : e[i] = IF i = n + 1 THEN g ELSE a[i]
  BY <1>1
<1> HIDE DEF e
<1>4. \A i \in 1..(n + 1) : i = n + 1 \/ i \in 1..n
  BY <1>1
<1>5. \A i \in 1..(n + 1) : e[i] = b[i]
  BY <1>1, <1>2, <1>3, <1>4
<1>6. e = b
  BY <1>2, <1>3, <1>5
<1>7. a # <<>>
  BY <1>1
<1> QED
  BY <1>1, <1>6, <1>7 DEF n, a, b, e, Last, SetTop

(* A name entered in a block *)
Entered(b, l) == IF l.keyed THEN [b EXCEPT !.keys = @ \cup {l.name}] ELSE b

(* Entering a name leaves column and kind. *)
LEMMA EnteredFacts ==
  ASSUME NEW b \in BlockSet, NEW l, l.keyed => l.name \in STRING \X Nat
  PROVE  /\ Entered(b, l) \in BlockSet
         /\ Entered(b, l) = [col |-> b.col, kind |-> b.kind, keys |-> IF l.keyed THEN b.keys \cup {l.name} ELSE b.keys]
<1>1. b = [col |-> b.col, kind |-> b.kind, keys |-> b.keys] /\ b.keys \in SUBSET (STRING \X Nat)
      /\ b.col \in Nat /\ b.kind \in {"seq", "map"}
  BY DEF BlockSet
<1>2. CASE l.keyed
  <2>1. l.name \in STRING \X Nat
    BY <1>2
  <2>2. b.keys \cup {l.name} \in SUBSET (STRING \X Nat)
    BY <1>1, <2>1, Zenon
  <2>3. Entered(b, l) = [col |-> b.col, kind |-> b.kind, keys |-> b.keys \cup {l.name}]
    BY <1>1, <1>2 DEF Entered
  <2> QED
    BY <1>1, <1>2, <2>2, <2>3 DEF BlockSet
<1>3. CASE ~l.keyed
  BY <1>1, <1>3 DEF Entered
<1> QED
  BY <1>2, <1>3

(* The blocks a column reaches, and whether a line there starts another *)
Up(blocks, col) == SubSeq(blocks, 1, Reached(blocks, col))
Deeper(blocks, col) == Up(blocks, col) = <<>> \/ Last(Up(blocks, col)).col < col
Placed(r, l) ==
  IF Deeper(r.blocks, l.col) THEN Append(Up(r.blocks, l.col), Block(l.col, l.kind)) ELSE Up(r.blocks, l.col)

(* A line of the block b above the blocks p, with a name of its own *)
Suits(r, l, p, b) ==
  /\ p \in Seq(BlockSet) /\ b \in BlockSet /\ r.ok /\ Placed(r, l) = Append(p, b)
  /\ Deeper(r.blocks, l.col) => r.pending
  /\ b.kind = l.kind /\ ~(l.kind = "seq" /\ l.keyed)
  /\ l.keyed => l.name \in STRING \X Nat /\ l.name \notin b.keys

(* The reader of a line whose blocks, up to the line's own, are known *)
LEMMA ReadLine ==
  ASSUME NEW r, NEW l, NEW p, NEW b, Suits(r, l, p, b)
  PROVE  /\ YRead(r, l).ok /\ YRead(r, l).pending = l.opens
         /\ YRead(r, l).blocks = Append(p, Entered(b, l))
<1> DEFINE blks == Placed(r, l)
           item == IF l.kind = "seq" /\ l.keyed THEN Append(blks, Block(l.col + 2, "map")) ELSE blks
           y    == YRead(r, l)
<1> p \in Seq(BlockSet) /\ b \in BlockSet /\ r.ok /\ (Deeper(r.blocks, l.col) => r.pending)
  BY DEF Suits
<1> b.kind = l.kind /\ ~(l.kind = "seq" /\ l.keyed)
  BY DEF Suits
<1> (l.keyed => l.name \in STRING \X Nat) /\ (l.keyed => l.name \notin b.keys)
  BY DEF Suits
<1>1. blks = Append(p, b)
  BY DEF Suits
<1>2. /\ y.ok <=> /\ r.ok
                  /\ Deeper(r.blocks, l.col) => r.pending
                  /\ Last(blks).kind = l.kind
                  /\ l.keyed => l.name \notin Last(item).keys
      /\ y.pending = l.opens
      /\ y.blocks = IF l.keyed THEN SetTop(item, [Last(item) EXCEPT !.keys = @ \cup {l.name}]) ELSE item
  BY DEF YRead, Placed, Deeper, Up
<1> HIDE DEF blks, item, y
<1>3. item = Append(p, b)
  BY <1>1 DEF item
<1>4. Entered(b, l) \in BlockSet
  BY EnteredFacts
<1>5. Last(Append(p, b)) = b /\ SetTop(Append(p, b), Entered(b, l)) = Append(p, Entered(b, l))
  BY <1>4, BlockAppend
<1>6. y.ok
  BY <1>1, <1>2, <1>3, <1>5
<1>7. y.blocks = Append(p, Entered(b, l))
  BY <1>2, <1>3, <1>5 DEF Entered
<1> QED
  BY <1>2, <1>6, <1>7 DEF y

(* What the names of a mapping are *)
LEMMA NamesAre ==
  ASSUME NEW ek, NEW D, DOMAIN ek = D
  PROVE  /\ \A x \in D, m \in Nat : <<x, m>> \in Names(ek) <=> m \in 1..ek[x]
         /\ \A p \in Names(ek) : \E x \in D, m \in Nat : p = <<x, m>>
<1>1. ASSUME NEW x \in D, NEW m \in Nat PROVE <<x, m>> \in D \X Nat /\ <<x, m>>[1] = x /\ <<x, m>>[2] = m
  OBVIOUS
<1>2. ASSUME NEW x \in D, NEW m \in Nat PROVE <<x, m>> \in Names(ek) <=> m \in 1..ek[x]
  <2> DEFINE p == <<x, m>>
  <2>1. p \in D \X Nat /\ p[1] = x /\ p[2] = m
    BY <1>1
  <2> HIDE DEF p
  <2>2. p \in Names(ek) <=> p \in D \X Nat /\ p[2] \in 1..ek[p[1]]
    BY Zenon DEF Names
  <2>3. p \in Names(ek) <=> m \in 1..ek[x]
    BY <2>1, <2>2, Zenon
  <2> QED
    BY <2>3 DEF p
<1>3. ASSUME NEW p \in Names(ek) PROVE \E x \in D, m \in Nat : p = <<x, m>>
  <2>1. p \in D \X Nat
    BY <1>3, Zenon DEF Names
  <2> QED
    BY <2>1
<1> QED
  BY <1>2, <1>3, Zenon

(* g counts what ek counts, and the key once more. *)
Counts(D, ek, key, n, g) ==
  /\ ek \in [D -> Nat] /\ n \in Nat \ {0} /\ (key \in D => n = ek[key] + 1) /\ (key \notin D => n = 1)
  /\ DOMAIN g = D \cup {key} /\ g[key] = n /\ \A x \in D : x # key => g[x] = ek[x]

(* Counting a key once more adds the next of its names. *)
LEMMA CountedNames ==
  ASSUME NEW D, NEW ek, NEW key, NEW n, NEW g, Counts(D, ek, key, n, g)
  PROVE  <<key, n>> \notin Names(ek) /\ Names(g) = Names(ek) \cup {<<key, n>>}
<1> ek \in [D -> Nat] /\ n \in Nat \ {0} /\ (key \in D => n = ek[key] + 1) /\ (key \notin D => n = 1)
  BY DEF Counts
<1> DOMAIN g = D \cup {key} /\ g[key] = n /\ \A x \in D : x # key => g[x] = ek[x]
  BY DEF Counts
<1>1. \A x \in D : ek[x] \in Nat
  OBVIOUS
<1>2. DOMAIN ek = D
  OBVIOUS
<1>3. \A x \in D, m \in Nat : <<x, m>> \in Names(ek) <=> m \in 1..ek[x]
  BY <1>2, NamesAre
<1>4. \A p \in Names(ek) : \E x \in D, m \in Nat : p = <<x, m>>
  BY <1>2, NamesAre
<1>5. \A x \in D \cup {key}, m \in Nat : <<x, m>> \in Names(g) <=> m \in 1..g[x]
  BY NamesAre
<1>6. \A p \in Names(g) : \E x \in D \cup {key}, m \in Nat : p = <<x, m>>
  BY NamesAre
<1> HIDE DEF Names
<1>7. <<key, n>> \notin Names(ek)
  <2>1. CASE key \in D
    <3>1. ~(n \in 1..ek[key])
      <4> DEFINE m == ek[key]
      <4>1. m \in Nat /\ n = m + 1
        BY <1>1, <2>1
      <4> HIDE DEF m
      <4>2. ~(n \in 1..m)
        BY <4>1
      <4> QED
        BY <4>2 DEF m
    <3> QED
      BY <1>3, <2>1, <3>1, Zenon
  <2>2. CASE key \notin D
    <3>1. \A x, m : <<key, n>> = <<x, m>> => x = key
      OBVIOUS
    <3> QED
      BY <1>4, <2>2, <3>1, Zenon
  <2> QED
    BY <2>1, <2>2
<1>8. ASSUME NEW p \in Names(g) PROVE p \in Names(ek) \cup {<<key, n>>}
  <2>1. PICK x \in D \cup {key}, m \in Nat : p = <<x, m>>
    BY <1>6
  <2>2. m \in 1..g[x]
    BY <1>5, <2>1, Zenon
  <2>3. CASE x = key
    <3>1. m \in 1..n
      BY <2>2, <2>3, Zenon
    <3>2. CASE m = n
      BY <2>1, <2>3, <3>2, Zenon
    <3>3. CASE m # n
      <4>1. n # 1
        BY <3>1, <3>3
      <4>2. key \in D /\ n = ek[key] + 1 /\ ek[key] \in Nat
        BY <1>1, <4>1, Zenon
      <4>3. m \in 1..ek[key]
        <5> DEFINE k == ek[key]
        <5>1. k \in Nat /\ n = k + 1
          BY <4>2
        <5> HIDE DEF k
        <5>2. m \in 1..k
          BY <3>1, <3>3, <5>1
        <5> QED
          BY <5>2 DEF k
      <4> QED
        BY <1>3, <2>1, <2>3, <4>2, <4>3, Zenon
    <3> QED
      BY <3>2, <3>3
  <2>4. CASE x # key
    <3>1. x \in D /\ g[x] = ek[x]
      BY <2>1, <2>4, Zenon
    <3> QED
      BY <1>3, <2>1, <2>2, <3>1, Zenon
  <2> QED
    BY <2>3, <2>4
<1>9. <<key, n>> \in Names(g)
  <2>1. n \in 1..n /\ n \in Nat
    OBVIOUS
  <2>2. key \in D \cup {key} /\ n \in 1..g[key]
    BY <2>1, Zenon
  <2> QED
    BY <1>5, <2>1, <2>2, Zenon
<1>10. ASSUME NEW p \in Names(ek) PROVE p \in Names(g)
  <2>1. PICK x \in D, m \in Nat : p = <<x, m>>
    BY <1>4
  <2>2. m \in 1..ek[x] /\ ek[x] \in Nat
    BY <1>1, <1>3, <2>1, Zenon
  <2>3. m \in 1..g[x]
    <3>1. CASE x = key
      <4> DEFINE k == ek[x]
      <4>1. k \in Nat /\ n = k + 1 /\ m \in 1..k
        BY <2>1, <2>2, <3>1, Zenon
      <4> HIDE DEF k
      <4>2. m \in 1..n
        BY <4>1
      <4> QED
        BY <3>1, <4>2, Zenon
    <3>2. CASE x # key
      BY <2>1, <2>2, <3>2, Zenon
    <3> QED
      BY <3>1, <3>2
  <2>4. x \in D \cup {key}
    BY Zenon
  <2> QED
    BY <1>5, <2>1, <2>3, <2>4, Zenon
<1> QED
  BY <1>7, <1>8, <1>9, <1>10, Zenon

(* A key used again gets a name that its mapping does not hold. *)
LEMMA DedupNames ==
  ASSUME NEW f \in Frame, NEW key \in STRING, key \notin LongKeys
  PROVE  LET dd == y_dedup_key(f, key)
         IN  /\ dd.name \in STRING \X Nat /\ dd.name \notin Names(f.ek)
             /\ dd.ek \in Keys /\ Names(dd.ek) = Names(f.ek) \cup {dd.name}
<1> DEFINE n == IF key \in DOMAIN f.ek THEN f.ek[key] + 1 ELSE 1
           g == [x \in DOMAIN f.ek \cup {key} |-> IF x = key THEN n ELSE f.ek[x]]
<1>1. PICK D \in SUBSET STRING : f.ek \in [D -> Nat]
  BY DEF Frame, Keys
<1>2. y_dedup_key(f, key).name = <<key, n>> /\ y_dedup_key(f, key).ek = g
  BY DEF y_dedup_key
<1>3. n \in Nat \ {0} /\ (key \in D => n = f.ek[key] + 1) /\ (key \notin D => n = 1)
  BY <1>1
<1> HIDE DEF n
<1>4. <<key, n>> \in STRING \X Nat
  BY <1>3
<1>5. DOMAIN g = D \cup {key} /\ g[key] = n /\ \A x \in D : x # key => g[x] = f.ek[x]
  BY <1>1
<1> HIDE DEF g
<1>6. <<key, n>> \notin Names(f.ek) /\ Names(g) = Names(f.ek) \cup {<<key, n>>}
  <2>1. Counts(D, f.ek, key, n, g)
    BY <1>1, <1>3, <1>5 DEF Counts
  <2> QED
    BY <2>1, CountedNames
<1>7. g \in Keys
  BY <1>2, DedupKeys
<1> QED
  BY <1>2, <1>4, <1>6, <1>7

(* A line below a key without a value starts a block. *)
LEMMA ReadBelow ==
  ASSUME NEW u \in Seq(Frame), NEW r, NEW l, r.ok, r.pending, r.blocks = Outline(u),
         l.col = 2 * Len(u), l.kind \in {"seq", "map"}, ~(l.kind = "seq" /\ l.keyed),
         l.keyed => l.name \in STRING \X Nat
  PROVE  /\ YRead(r, l).ok /\ YRead(r, l).pending = l.opens
         /\ YRead(r, l).blocks = Append(Outline(u), Entered(Block(l.col, l.kind), l))
<1> DEFINE o == Outline(u)
           b == Block(l.col, l.kind)
           up == SubSeq(r.blocks, 1, Reached(r.blocks, l.col))
<1>1. Len(u) \in Nat /\ o \in Seq(BlockSet) /\ Len(o) = Len(u) /\ \A i \in 1..Len(u) : o[i].col = 2 * (i - 1)
  BY OutlineType
<1>2. b \in BlockSet /\ b.kind = l.kind /\ b.keys = {}
  BY <1>1 DEF Block, BlockSet
<1>3. Reached(o, l.col) = Len(u)
  <2>1. Len(u) + 1 \in Nat \ {0} /\ 2 * ((Len(u) + 1) - 1) = l.col /\ ~(Len(u) + 1 <= Len(u))
    BY <1>1
  <2> QED
    BY <2>1, ReachedOutline
<1> HIDE DEF o, b, BlockSet
<1>4. Up(r.blocks, l.col) = o
  <2>1. SubSeq(o, 1, Len(o)) = o
    BY <1>1
  <2> QED
    BY <1>1, <1>3, <2>1 DEF o, Up
<1>5. Deeper(r.blocks, l.col)
  <2>1. CASE Len(u) = 0
    <3>1. o = <<>>
      BY <1>1, <2>1
    <3> QED
      BY <1>4, <3>1 DEF Deeper
  <2>2. CASE Len(u) # 0
    <3>1. Len(u) \in 1..Len(u) /\ Last(o) = o[Len(u)]
      BY <1>1, <2>2 DEF Last
    <3>2. Last(o).col = 2 * (Len(u) - 1)
      BY <1>1, <3>1
    <3>3. Last(o).col < l.col
      BY <1>1, <3>2
    <3> QED
      BY <1>4, <3>3 DEF Deeper
  <2> QED
    BY <2>1, <2>2
<1>6. Placed(r, l) = Append(o, b)
  BY <1>4, <1>5 DEF Placed, b
<1>7. l.keyed => l.name \notin b.keys
  BY <1>2
<1>8. /\ YRead(r, l).ok /\ YRead(r, l).pending = l.opens
      /\ YRead(r, l).blocks = Append(o, Entered(b, l))
  <2>1. Suits(r, l, o, b)
    BY <1>1, <1>2, <1>6, <1>7 DEF Suits
  <2> QED
    BY <2>1, ReadLine
<1> QED
  BY <1>8 DEF o, b

(* The blocks a line at the column of an open container reaches *)
LEMMA ReachedPart ==
  ASSUME NEW v \in Seq(Frame), NEW u \in Seq(Frame), NEW f \in Frame,
         Len(u) < Len(v), Append(u, f) = SubSeq(v, 1, Len(u) + 1)
  PROVE  /\ Up(Outline(v), 2 * Len(u)) = Append(Outline(u), BlockAt(Len(u) + 1, f))
         /\ ~Deeper(Outline(v), 2 * Len(u))
<1> DEFINE n == Len(u) + 1
           b == BlockAt(n, f)
           up == Up(Outline(v), 2 * Len(u))
<1>1. Len(u) \in Nat /\ Len(v) \in Nat /\ n \in Nat \ {0} /\ n \in 0..Len(v) /\ n <= Len(v) /\ 2 * (n - 1) = 2 * Len(u)
  OBVIOUS
<1>2. Reached(Outline(v), 2 * Len(u)) = n
  <2> HIDE DEF n
  <2>1. Reached(Outline(v), 2 * (n - 1)) = n
    BY <1>1, ReachedOutline
  <2> QED
    BY <1>1, <2>1
<1>3. up = Outline(Append(u, f))
  <2> HIDE DEF n
  <2>1. SubSeq(Outline(v), 1, n) = Outline(SubSeq(v, 1, n))
    BY <1>1, OutlinePart
  <2> QED
    BY <1>2, <2>1 DEF n, Up
<1>4. up = Append(Outline(u), b)
  BY <1>3, OutlineAppend
<1>5. b \in BlockSet /\ b.col = 2 * Len(u) /\ Outline(u) \in Seq(BlockSet)
  BY <1>1, BlockType, OutlineType
<1>6. up # <<>> /\ Last(up) = b
  <2> HIDE DEF b, up
  <2>1. Append(Outline(u), b) # <<>> /\ Last(Append(Outline(u), b)) = b
    BY <1>5, BlockAppend
  <2> QED
    BY <1>4, <2>1
<1> HIDE DEF up, b
<1>7. ~(b.col < 2 * Len(u))
  BY <1>1, <1>5
<1>8. ~Deeper(Outline(v), 2 * Len(u))
  BY <1>6, <1>7 DEF up, Deeper
<1> QED
  BY <1>4, <1>8 DEF up, b, n

(* The blocks read are those of v, and the line lies in the column of its
   container f, which lies above u. *)
OnBlock(r, l, v, u, f) ==
  /\ v \in Seq(Frame) /\ u \in Seq(Frame) /\ f \in Frame
  /\ Len(u) < Len(v) /\ Append(u, f) = SubSeq(v, 1, Len(u) + 1)
  /\ r.ok /\ r.blocks = Outline(v) /\ l.col = 2 * Len(u) /\ l.name \in STRING \X Nat

(* A line of the block of an open container *)
LEMMA ReadSame ==
  ASSUME NEW r, NEW l, NEW v, NEW u, NEW f, OnBlock(r, l, v, u, f),
         l.kind = KindOf(f), ~(l.kind = "seq" /\ l.keyed), l.name \notin Names(f.ek)
  PROVE  /\ YRead(r, l).ok /\ YRead(r, l).pending = l.opens
         /\ YRead(r, l).blocks = Append(Outline(u), Entered(BlockAt(Len(u) + 1, f), l))
<1> DEFINE o == Outline(u)
           b == BlockAt(Len(u) + 1, f)
<1> v \in Seq(Frame) /\ u \in Seq(Frame) /\ f \in Frame
  BY DEF OnBlock
<1> Len(u) < Len(v) /\ Append(u, f) = SubSeq(v, 1, Len(u) + 1)
  BY DEF OnBlock
<1> r.ok /\ r.blocks = Outline(v) /\ l.col = 2 * Len(u) /\ l.name \in STRING \X Nat
  BY DEF OnBlock
<1>1. Up(r.blocks, l.col) = Append(o, b) /\ ~Deeper(r.blocks, l.col)
  <2>1. Up(Outline(v), 2 * Len(u)) = Append(o, b) /\ ~Deeper(Outline(v), 2 * Len(u))
    BY ReachedPart, Zenon
  <2> HIDE DEF o, b
  <2> QED
    BY <2>1, Zenon
<1>2. Len(u) + 1 \in Nat \ {0}
  OBVIOUS
<1>3. o \in Seq(BlockSet) /\ b \in BlockSet
  BY <1>2, BlockType, OutlineType
<1>4. b.kind = l.kind /\ b.keys = Names(f.ek)
  BY DEF BlockAt
<1> HIDE DEF b, o, BlockSet, Names
<1>5. Placed(r, l) = Append(o, b)
  BY <1>1 DEF Placed
<1>6. /\ YRead(r, l).ok /\ YRead(r, l).pending = l.opens
      /\ YRead(r, l).blocks = Append(o, Entered(b, l))
  <2>1. Suits(r, l, o, b)
    BY <1>1, <1>3, <1>4, <1>5 DEF Suits
  <2> QED
    BY <2>1, ReadLine
<1> QED
  BY <1>6 DEF o, b

(* An item of an array that is a mapping *)
LEMMA ReadItem ==
  ASSUME NEW r, NEW l, NEW v, NEW u, NEW f, OnBlock(r, l, v, u, f),
         l.kind = "seq", KindOf(f) = "seq", l.keyed
  PROVE  /\ YRead(r, l).ok /\ YRead(r, l).pending = l.opens
         /\ YRead(r, l).blocks = Append(Outline(Append(u, f)), Entered(Block(l.col + 2, "map"), l))
<1> DEFINE dp   == Deeper(r.blocks, l.col)
           blks == Placed(r, l)
           item == IF l.kind = "seq" /\ l.keyed THEN Append(blks, Block(l.col + 2, "map")) ELSE blks
           y    == YRead(r, l)
           b    == BlockAt(Len(u) + 1, f)
           o    == Outline(Append(u, f))
           w    == Block(l.col + 2, "map")
<1> v \in Seq(Frame) /\ u \in Seq(Frame) /\ f \in Frame
  BY DEF OnBlock
<1> Len(u) < Len(v) /\ Append(u, f) = SubSeq(v, 1, Len(u) + 1)
  BY DEF OnBlock
<1> r.ok /\ r.blocks = Outline(v) /\ l.col = 2 * Len(u) /\ l.name \in STRING \X Nat
  BY DEF OnBlock
<1>1. Up(r.blocks, l.col) = Append(Outline(u), b) /\ ~dp
  <2>1. Up(Outline(v), 2 * Len(u)) = Append(Outline(u), b) /\ ~Deeper(Outline(v), 2 * Len(u))
    BY ReachedPart, Zenon
  <2> HIDE DEF b
  <2> QED
    BY <2>1, Zenon
<1>2. Len(u) \in Nat /\ Len(u) + 1 \in Nat \ {0} /\ Append(u, f) \in Seq(Frame)
  OBVIOUS
<1>3. Outline(u) \in Seq(BlockSet) /\ b \in BlockSet /\ o \in Seq(BlockSet) /\ o = Append(Outline(u), b)
  BY <1>2, BlockType, OutlineType, OutlineAppend
<1>4. w \in BlockSet /\ w.keys = {}
  BY <1>2 DEF Block, BlockSet
<1>5. b.kind = "seq"
  BY DEF BlockAt
<1>6. /\ y.ok <=> /\ r.ok
                  /\ dp => r.pending
                  /\ Last(blks).kind = l.kind
                  /\ l.keyed => l.name \notin Last(item).keys
      /\ y.pending = l.opens
      /\ y.blocks = IF l.keyed THEN SetTop(item, [Last(item) EXCEPT !.keys = @ \cup {l.name}]) ELSE item
  BY DEF YRead, Placed, Deeper, Up
<1> HIDE DEF b, o
<1>7. blks = o
  BY <1>1, <1>3 DEF Placed
<1> HIDE DEF blks, dp
<1>8. item = Append(o, w)
  BY <1>7
<1> HIDE DEF item, y, w
<1>9. Entered(w, l) \in BlockSet
  BY <1>4, EnteredFacts
<1>10. Last(o) = b /\ Last(Append(o, w)) = w /\ SetTop(Append(o, w), Entered(w, l)) = Append(o, Entered(w, l))
  BY <1>3, <1>4, <1>9, BlockAppend
<1>11. y.ok
  BY <1>1, <1>4, <1>5, <1>6, <1>7, <1>8, <1>10
<1>12. y.blocks = Append(o, Entered(w, l))
  BY <1>6, <1>8, <1>10 DEF Entered
<1> QED
  BY <1>6, <1>11, <1>12 DEF y, o, w

(* The container that a call is written into, with its key counted *)
Counted(g, c) == IF c.k = "elem" THEN g ELSE [g EXCEPT !.ek = y_dedup_key(g, c.key).ek]

(* A call's line is one of the block of its container. *)
LEMMA BlockEntered ==
  ASSUME NEW g \in Frame, NEW i \in Nat \ {0}, NEW c \in CallSet, c.key \notin LongKeys, NEW l,
         l.keyed <=> c.k # "elem", l.name = y_dedup_key(g, c.key).name
  PROVE  /\ Counted(g, c) \in Frame /\ Counted(g, c).lv = g.lv /\ Counted(g, c).close = g.close
         /\ Counted(g, c).child_lv = g.child_lv
         /\ Entered(BlockAt(i, g), l) = BlockAt(i, Counted(g, c))
         /\ l.name \in STRING \X Nat /\ l.name \notin Names(g.ek)
<1> DEFINE dd == y_dedup_key(g, c.key)
           h == Counted(g, c)
<1>1. c.key \in STRING
  BY DEF CallSet
<1>2. dd.name \in STRING \X Nat /\ dd.name \notin Names(g.ek) /\ dd.ek \in Keys
      /\ Names(dd.ek) = Names(g.ek) \cup {dd.name}
  BY <1>1, DedupNames
<1> HIDE DEF dd
<1>3. h \in Frame /\ h.lv = g.lv /\ h.close = g.close /\ h.child_lv = g.child_lv
      /\ h.ek = IF c.k = "elem" THEN g.ek ELSE dd.ek
  <2>1. CASE c.k = "elem"
    BY <2>1 DEF Counted
  <2>2. CASE c.k # "elem"
    <3>1. h = [g EXCEPT !.ek = dd.ek]
      BY <2>2 DEF Counted, dd
    <3> HIDE DEF h
    <3> QED
      BY <1>2, <2>2, <3>1 DEF Frame
  <2> QED
    BY <2>1, <2>2
<1> HIDE DEF h
<1>4. BlockAt(i, g) \in BlockSet
  BY BlockType
<1>5. BlockAt(i, g).col = 2 * (i - 1) /\ BlockAt(i, g).kind = KindOf(g) /\ BlockAt(i, g).keys = Names(g.ek)
  BY DEF BlockAt
<1>6. KindOf(h) = KindOf(g)
  BY <1>3 DEF KindOf
<1>7. Names(h.ek) = IF l.keyed THEN Names(g.ek) \cup {l.name} ELSE Names(g.ek)
  <2> HIDE DEF Names
  <2>1. CASE c.k = "elem"
    <3>1. h.ek = g.ek /\ ~l.keyed
      BY <1>3, <2>1
    <3> QED
      BY <3>1
  <2>2. CASE c.k # "elem"
    <3>1. h.ek = dd.ek /\ l.keyed /\ l.name = dd.name
      BY <1>3, <2>2 DEF dd
    <3> QED
      BY <1>2, <3>1
  <2> QED
    BY <2>1, <2>2
<1>8. l.keyed => l.name \in STRING \X Nat
  BY <1>2 DEF dd
<1> HIDE DEF Names, KindOf
<1>9. Entered(BlockAt(i, g), l) =
        [col |-> 2 * (i - 1), kind |-> KindOf(g), keys |-> IF l.keyed THEN Names(g.ek) \cup {l.name} ELSE Names(g.ek)]
  BY <1>4, <1>5, <1>8, EnteredFacts
<1>10. Entered(BlockAt(i, g), l) = BlockAt(i, h)
  BY <1>6, <1>7, <1>9 DEF BlockAt
<1> QED
  BY <1>2, <1>3, <1>10 DEF h, dd

(* The stack and what has been read of the text agree: each decided container
   is a block with the names it has counted; the last one has no block yet if
   it is the value of a key with nothing written below it, or the root. *)
Unwritten(s) ==
  /\ Top(s).ek = <<>>
  /\ \/ IsUndecided(s) /\ Top(s).close = ""
     \/ Len(s) = 1 /\ Settled(Top(s)) /\ Top(s).close = "}"
Follows(s, r) ==
  /\ r.ok /\ \A i \in 1..(Len(s) - 1) : Settled(s[i])
  /\ \/ r.pending /\ Unwritten(s) /\ r.blocks = Outline(Front(s))
     \/ Settled(Top(s)) /\ r.blocks = Outline(s)

(* The container a key opens *)
LEMMA OpenedFrame ==
  ASSUME NEW c \in CallSet
  PROVE  LET w == jcnt(c.lv, Undecided, "")
         IN  w \in Frame /\ w.lv = c.lv /\ w.child_lv = Undecided /\ w.close = "" /\ w.ek = <<>>
<1>1. c.lv \in 0..MaxLevel /\ Undecided \in Int /\ "" \in Brackets
  BY DEF CallSet, Undecided, Brackets
<1> DEFINE w == jcnt(c.lv, Undecided, "")
<1>2. w.lv = c.lv /\ w.child_lv = Undecided /\ w.close = "" /\ w.ek = <<>>
  BY DEF jcnt
<1>3. w \in Frame
  BY <1>1, NewFrame
<1> QED
  BY <1>2, <1>3

(* A call's container is opened below the block of its line. *)
LEMMA FollowsPush ==
  ASSUME NEW x \in Seq(Frame), NEW h \in Frame, Settled(h), \A i \in 1..Len(x) : Settled(x[i]),
         NEW c \in CallSet, Len(x) < MAX_DEPTH - 1,
         NEW y, y.ok, c.k = "open" => y.pending,
         y.blocks = Append(Outline(x), BlockAt(Len(x) + 1, h))
  PROVE  Follows(Push(Append(x, h), c), y)
<1> DEFINE a == Append(x, h)
           w == jcnt(c.lv, Undecided, "")
<1>1. /\ a \in Seq(Frame) /\ Len(a) = Len(x) + 1 /\ Len(x) \in Nat /\ Top(a) = h
      /\ a[Len(x) + 1] = h /\ \A i \in 1..Len(x) : a[i] = x[i]
  BY AppendFacts
<1>2. \A i \in 1..Len(a) : Settled(a[i])
  <2>1. \A i \in 1..Len(a) : i = Len(x) + 1 \/ i \in 1..Len(x)
    BY <1>1
  <2> HIDE DEF a, Settled
  <2> QED
    BY <1>1, <2>1
<1>3. y.blocks = Outline(a)
  BY OutlineAppend
<1> HIDE DEF a
<1>4. CASE c.k = "open"
  <2>1. Push(a, c) = Append(a, w)
    <3>1. Len(a) < MAX_DEPTH
      BY <1>1 DEF MAX_DEPTH
    <3> QED
      BY <1>4, <3>1, Zenon DEF Push
  <2>2. w \in Frame /\ w.child_lv = Undecided /\ w.close = "" /\ w.ek = <<>>
    BY OpenedFrame
  <2> HIDE DEF w
  <2>3. /\ Len(Append(a, w)) = Len(a) + 1 /\ Top(Append(a, w)) = w /\ Front(Append(a, w)) = a
        /\ \A i \in 1..Len(a) : Append(a, w)[i] = a[i]
    BY <1>1, <2>2, AppendFacts
  <2>4. Len(Append(a, w)) - 1 = Len(a) /\ Len(Append(a, w)) > 1
    BY <1>1, <2>3
  <2>5. Unwritten(Append(a, w))
    BY <2>2, <2>3, <2>4 DEF Unwritten, IsUndecided
  <2>6. \A i \in 1..(Len(Append(a, w)) - 1) : Settled(Append(a, w)[i])
    BY <1>2, <2>3, <2>4
  <2> QED
    BY <1>3, <1>4, <2>1, <2>3, <2>5, <2>6 DEF Follows, a
<1>5. CASE c.k # "open"
  <2>1. Push(a, c) = a
    BY <1>5 DEF Push
  <2>2. \A i \in 1..(Len(a) - 1) : Settled(a[i])
    BY <1>1, <1>2
  <2> QED
    BY <1>1, <1>3, <2>1, <2>2 DEF Follows, a
<1> QED
  BY <1>4, <1>5

(* The stack after a call of y_emit, and its line *)
YStack(s1, c) ==
  LET s2 == Resolve(Wrap(s1, c), c)
      dd == y_dedup_key(Top(s2), c.key)
      s3 == IF c.k = "elem" THEN s2 ELSE SetTop(s2, [Top(s2) EXCEPT !.ek = dd.ek])
  IN  Push(s3, c)
YLine(s1, c) ==
  [col   |-> 2 * (Len(s1) - 1),
   kind  |-> IF c.k = "elem" \/ Wraps(s1, c) THEN "seq" ELSE "map",
   keyed |-> c.k # "elem",
   name  |-> y_dedup_key(Top(Resolve(Wrap(s1, c), c)), c.key).name,
   opens |-> c.k = "open"]

(* What a line says *)
LEMMA LineFacts ==
  ASSUME NEW s1, NEW c
  PROVE  LET l == YLine(s1, c)
         IN  /\ l.col = 2 * (Len(s1) - 1)
             /\ l.kind = IF c.k = "elem" \/ Wraps(s1, c) THEN "seq" ELSE "map"
             /\ l.keyed <=> c.k # "elem"
             /\ l.name = y_dedup_key(Top(Resolve(Wrap(s1, c), c)), c.key).name
             /\ l.opens <=> c.k = "open"
BY DEF YLine

(* The stack after a call whose container g lies above x *)
LEMMA CountedStack ==
  ASSUME NEW s1, NEW c \in CallSet, c.key \notin LongKeys, NEW x \in Seq(Frame), NEW g \in Frame,
         Resolve(Wrap(s1, c), c) = Append(x, g)
  PROVE  YStack(s1, c) = Push(Append(x, Counted(g, c)), c)
<1> DEFINE dd == y_dedup_key(g, c.key)
           h == [g EXCEPT !.ek = dd.ek]
           a == Append(x, g)
<1>1. Top(a) = g
  BY AppendFacts
<1>2. c.k # "elem" => h \in Frame
  <2>1. YLine(s1, c).name = dd.name /\ (YLine(s1, c).keyed <=> c.k # "elem")
    BY <1>1, LineFacts
  <2>2. 1 \in Nat \ {0}
    OBVIOUS
  <2> HIDE DEF dd
  <2>3. Counted(g, c) \in Frame
    <3> USE DEF dd
    <3> QED
      BY <2>1, <2>2, BlockEntered
  <2> QED
    BY <2>3 DEF Counted, dd
<1>3. CASE c.k = "elem"
  <2>1. YStack(s1, c) = Push(a, c)
    BY <1>3 DEF YStack
  <2> QED
    BY <1>3, <2>1 DEF Counted
<1>4. CASE c.k # "elem"
  <2>1. YStack(s1, c) = Push(SetTop(a, h), c)
    BY <1>1, <1>4 DEF YStack
  <2> HIDE DEF h
  <2>2. SetTop(a, h) = Append(x, h)
    BY <1>2, <1>4, AppendFacts
  <2> QED
    BY <1>4, <2>1, <2>2 DEF Counted, h
<1> QED
  BY <1>3, <1>4

(* The stack after a call, container by container *)
LEMMA PushYields ==
  ASSUME NEW v \in Seq(Frame), NEW f \in Frame, NEW c \in CallSet, Len(v) + 1 < MAX_DEPTH
  PROVE  Yields(Push(Append(v, f), c), v, f, c)
<1> DEFINE a == Append(v, f)
           w == jcnt(c.lv, Undecided, "")
<1>1. /\ a \in Seq(Frame) /\ Len(a) = Len(v) + 1 /\ Len(v) \in Nat
      /\ a[Len(v) + 1] = f /\ \A i \in 1..Len(v) : a[i] = v[i]
  BY AppendFacts
<1> HIDE DEF a
<1>2. CASE c.k = "open"
  <2>1. Push(a, c) = Append(a, w)
    <3>1. Len(a) < MAX_DEPTH
      BY <1>1
    <3> QED
      BY <1>2, <3>1, Zenon DEF Push
  <2>2. w \in Frame /\ w.lv = c.lv /\ w.child_lv = Undecided
    BY OpenedFrame
  <2> HIDE DEF w
  <2> DEFINE N == Append(a, w)
  <2>3. /\ N \in Seq(Frame) /\ Len(N) = Len(a) + 1 /\ Top(N) = w /\ N[Len(a) + 1] = w
        /\ \A i \in 1..Len(a) : N[i] = a[i]
    BY <1>1, <2>2, AppendFacts
  <2> HIDE DEF N
  <2>4. Len(N) = Len(v) + 2 /\ N[Len(v) + 2] = w /\ N[Len(v) + 1] = f /\ \A i \in 1..Len(v) : N[i] = v[i]
    BY <1>1, <2>3
  <2>5. IsUndecided(N)
    BY <1>1, <2>2, <2>3, <2>4 DEF IsUndecided
  <2>6. Yields(N, v, f, c)
    BY <1>2, <2>2, <2>3, <2>4, <2>5 DEF Yields
  <2> QED
    BY <2>1, <2>6 DEF N, a
<1>3. CASE c.k # "open"
  <2>1. Push(a, c) = a
    BY <1>3 DEF Push
  <2>2. Yields(a, v, f, c)
    BY <1>1, <1>3 DEF Yields
  <2> QED
    BY <2>1, <2>2 DEF a
<1> QED
  BY <1>2, <1>3

(* The container g above x that a call goes to, and the reader of its line *)
Target(s, r, c, x, g) ==
  LET s1 == Ascend(s, c)
      l  == YLine(s1, c)
      y  == YRead(r, l)
  IN /\ Resolve(Wrap(s1, c), c) = Append(x, g)
     /\ Settled(g) /\ (\A i \in 1..Len(x) : Settled(x[i])) /\ Came(s, c, x, g) /\ Len(x) <= Len(s1)
     /\ y.ok /\ y.pending = l.opens
     /\ y.blocks = Append(Outline(x), Entered(BlockAt(Len(x) + 1, g), l))

(* Once its container is known, a call leaves reader and stack in agreement. *)
LEMMA TargetRead ==
  ASSUME NEW s, StackOK(s), NEW r, NEW c \in CallSet, c.key \notin LongKeys,
         NEW x \in Seq(Frame), NEW g \in Frame, Target(s, r, c, x, g)
  PROVE  LET s1 == Ascend(s, c)
         IN  Follows(YStack(s1, c), YRead(r, YLine(s1, c))) /\ Shape(s, c, YStack(s1, c))
<1> DEFINE s1 == Ascend(s, c)
           l  == YLine(s1, c)
           y  == YRead(r, l)
           h  == Counted(g, c)
<1>1. Resolve(Wrap(s1, c), c) = Append(x, g)
  BY DEF Target
<1>2. Settled(g) /\ (\A i \in 1..Len(x) : Settled(x[i])) /\ Came(s, c, x, g) /\ Len(x) <= Len(s1)
  BY DEF Target
<1>3. y.ok /\ y.pending = l.opens
      /\ y.blocks = Append(Outline(x), Entered(BlockAt(Len(x) + 1, g), l))
  BY DEF Target
<1>4. Len(x) \in Nat /\ Len(x) < MAX_DEPTH - 1 /\ Len(x) + 1 < MAX_DEPTH
  <2>1. StackOK(s1) /\ Len(s1) <= 2 * c.lv + (IF c.k = "elem" THEN 3 ELSE 1)
    BY AscendProperties
  <2>2. Len(s1) \in Nat /\ c.lv \in Int /\ c.lv <= 13
    BY <2>1 DEF StackOK, CallSet, MaxLevel
  <2> HIDE DEF s1
  <2> QED
    BY <1>2, <2>1, <2>2 DEF MAX_DEPTH
<1>5. (l.keyed <=> c.k # "elem") /\ (l.opens <=> c.k = "open") /\ l.name = y_dedup_key(g, c.key).name
  <2>1. Top(Append(x, g)) = g
    BY AppendFacts
  <2> HIDE DEF s1
  <2> QED
    BY <1>1, <2>1, LineFacts
<1> HIDE DEF s1, l, y
<1>6. /\ h \in Frame /\ h.lv = g.lv /\ h.close = g.close /\ h.child_lv = g.child_lv
      /\ Entered(BlockAt(Len(x) + 1, g), l) = BlockAt(Len(x) + 1, h)
  <2>1. Len(x) + 1 \in Nat \ {0}
    BY <1>4
  <2> QED
    BY <1>5, <2>1, BlockEntered
<1> HIDE DEF h
<1>7. YStack(s1, c) = Push(Append(x, h), c)
  BY <1>1, CountedStack DEF h
<1>8. Follows(Push(Append(x, h), c), y)
  <2>1. Settled(h)
    BY <1>2, <1>6 DEF Settled
  <2>2. c.k = "open" => y.pending
    BY <1>3, <1>5
  <2>3. y.blocks = Append(Outline(x), BlockAt(Len(x) + 1, h))
    BY <1>3, <1>6
  <2> QED
    BY <1>2, <1>3, <1>4, <1>6, <2>1, <2>2, <2>3, FollowsPush
<1>9. Came(s, c, x, h)
  BY <1>2, <1>6 DEF Came
<1>10. Shape(s, c, Push(Append(x, h), c))
  <2>1. Yields(Push(Append(x, h), c), x, h, c)
    BY <1>4, <1>6, PushYields
  <2> QED
    BY <1>6, <1>9, <2>1, ShapeOf
<1> QED
  BY <1>7, <1>8, <1>10 DEF y, l, s1

(* What is left of a stack, as its last container above the others *)
LEMMA AscendSplit ==
  ASSUME NEW s, StackOK(s), NEW c \in CallSet
  PROVE  LET s1 == Ascend(s, c)
             k  == Kept(s, c)
         IN  /\ k \in 1..Len(s) /\ s1 \in Seq(Frame) /\ Len(s1) = k /\ s1 = SubSeq(s, 1, k)
             /\ Front(s1) \in Seq(Frame) /\ Top(s1) \in Frame /\ s1 = Append(Front(s1), Top(s1))
             /\ Len(Front(s1)) = k - 1 /\ \A i \in 1..(k - 1) : Front(s1)[i] = s1[i]
             /\ Top(s1) = s1[k] /\ Len(s) \in Nat /\ s \in Seq(Frame)
             /\ \A i \in 1..k : s1[i] = s[i]
<1> DEFINE s1 == Ascend(s, c)
           k  == Kept(s, c)
<1>1. /\ k \in 1..Len(s) /\ s1 \in Seq(Frame) /\ Len(s1) = k /\ s1 = SubSeq(s, 1, k)
      /\ \A i \in 1..k : s1[i] = s[i]
  BY AscendShape DEF Ascend
<1>2. Len(s) \in Nat /\ s \in Seq(Frame)
  BY DEF StackOK
<1> HIDE DEF s1, k
<1>3. Len(s1) > 0
  BY <1>1, <1>2
<1>4. /\ Front(s1) \in Seq(Frame) /\ Top(s1) \in Frame /\ s1 = Append(Front(s1), Top(s1))
      /\ Len(Front(s1)) = Len(s1) - 1 /\ \A i \in 1..(Len(s1) - 1) : Front(s1)[i] = s1[i]
  BY <1>1, <1>3, StackSplit
<1> QED
  BY <1>1, <1>2, <1>4 DEF s1, k, Top

(* Nothing is counted in a new mapping. *)
LEMMA NoNames == Names(<<>>) = {}
<1>1. DOMAIN <<>> = {}
  OBVIOUS
<1> QED
  BY <1>1, Zenon DEF Names

(* The block of a container with nothing in it *)
LEMMA EmptyBlock ==
  ASSUME NEW g \in Frame, g.ek = <<>>, NEW n \in Nat
  PROVE  BlockAt(n + 1, g) = Block(2 * n, KindOf(g))
<1>1. 2 * ((n + 1) - 1) = 2 * n
  OBVIOUS
<1>2. Names(g.ek) = {}
  BY NoNames
<1> HIDE DEF Names, KindOf
<1> QED
  BY <1>1, <1>2 DEF BlockAt, Block

(* The first line below a key, or of the document *)
LEMMA LineBelow ==
  ASSUME NEW s, StackOK(s), NEW r, NEW c \in CallSet, c.key \notin LongKeys, Fits(Ascend(s, c), c),
         r.ok, r.pending, Unwritten(s), r.blocks = Outline(Front(s)),
         \A i \in 1..(Len(s) - 1) : Settled(s[i]), Kept(s, c) = Len(s)
  PROVE  \E x \in Seq(Frame), g \in Frame : Target(s, r, c, x, g)
<1> DEFINE u == Front(s)
           f == Top(s)
           n == Len(u)
           g == IF IsUndecided(s) THEN [f EXCEPT !.child_lv = c.lv, !.close = ClosingOf(c), !.has_child = FALSE] ELSE f
           l == YLine(s, c)
           y == YRead(r, l)
<1>1. s \in Seq(Frame) /\ Len(s) \in Nat /\ Len(s) > 0
  BY DEF StackOK
<1>2. /\ u \in Seq(Frame) /\ f \in Frame /\ s = Append(u, f) /\ n = Len(s) - 1 /\ n \in Nat
      /\ \A i \in 1..n : u[i] = s[i]
  BY <1>1, StackSplit
<1>3. Ascend(s, c) = s
  <2>1. SubSeq(s, 1, Len(s)) = s
    BY <1>1
  <2> QED
    BY <2>1 DEF Ascend
<1>4. f.close # "]" /\ f.ek = <<>>
  BY DEF Unwritten
<1>5. ~Wraps(s, c) /\ Wrap(s, c) = s
  BY <1>4 DEF Wraps, Wrap
<1>6. c.lv \in Int /\ c.lv # Undecided /\ ClosingOf(c) \in {"}", "]"} /\ ClosingOf(c) \in Brackets
  BY DEF CallSet, MaxLevel, Undecided, ClosingOf, Brackets
<1>7. /\ g \in Frame /\ g.lv = f.lv /\ g.ek = <<>> /\ Settled(g) /\ g.close = ClosingOf(c)
      /\ ~IsUndecided(s) => g.close = f.close
  <2>1. CASE IsUndecided(s)
    <3>1. g = [f EXCEPT !.child_lv = c.lv, !.close = ClosingOf(c), !.has_child = FALSE]
      BY <2>1
    <3> HIDE DEF g, f
    <3>2. g \in Frame /\ g.lv = f.lv /\ g.ek = f.ek /\ g.close = ClosingOf(c) /\ g.child_lv = c.lv
      BY <1>2, <1>6, <3>1 DEF Frame
    <3> QED
      BY <1>4, <1>6, <2>1, <3>2 DEF Settled
  <2>2. CASE ~IsUndecided(s)
    <3>1. g = f /\ Settled(f) /\ f.close = "}"
      BY <2>2 DEF Unwritten
    <3>2. c.k # "elem"
      BY <1>3, <2>2, <3>1 DEF Fits
    <3>3. ClosingOf(c) = "}"
      BY <3>2 DEF ClosingOf
    <3> QED
      BY <1>2, <1>4, <3>1, <3>3
  <2> QED
    BY <2>1, <2>2
<1>8. Resolve(Wrap(s, c), c) = Append(u, g)
  <2>1. CASE IsUndecided(s)
    <3>1. Resolve(s, c) = SetTop(s, g)
      BY <2>1 DEF Resolve
    <3> HIDE DEF g, f, u
    <3>2. SetTop(Append(u, f), g) = Append(u, g)
      BY <1>2, <1>7, AppendFacts
    <3> QED
      BY <1>2, <1>5, <3>1, <3>2
  <2>2. CASE ~IsUndecided(s)
    BY <1>2, <1>5, <2>2 DEF Resolve
  <2> QED
    BY <2>1, <2>2
<1> HIDE DEF g
<1>9. /\ l.col = 2 * n /\ l.kind = KindOf(g) /\ l.kind \in {"seq", "map"} /\ ~(l.kind = "seq" /\ l.keyed)
      /\ l.name \in STRING \X Nat
  <2>1. /\ l.col = 2 * (Len(s) - 1) /\ l.kind = (IF c.k = "elem" \/ Wraps(s, c) THEN "seq" ELSE "map")
        /\ (l.keyed <=> c.k # "elem") /\ l.name = y_dedup_key(Top(Resolve(Wrap(s, c), c)), c.key).name
    BY LineFacts
  <2>2. Top(Append(u, g)) = g
    BY <1>2, <1>7, AppendFacts
  <2>3. l.name = y_dedup_key(g, c.key).name
    BY <1>8, <2>1, <2>2
  <2> HIDE DEF l
  <2>4. l.name \in STRING \X Nat
    <3>1. c.key \in STRING
      BY DEF CallSet
    <3> QED
      BY <1>7, <2>3, <3>1, DedupNames
  <2>5. l.kind = (IF c.k = "elem" THEN "seq" ELSE "map") /\ l.col = 2 * n
    BY <1>2, <1>5, <2>1
  <2>6. KindOf(g) = IF c.k = "elem" THEN "seq" ELSE "map"
    BY <1>7 DEF KindOf, ClosingOf
  <2> QED
    BY <2>1, <2>4, <2>5, <2>6
<1> HIDE DEF l, u, n
<1>10. y.ok /\ y.pending = l.opens /\ y.blocks = Append(Outline(u), Entered(Block(l.col, l.kind), l))
  BY <1>2, <1>9, ReadBelow DEF n, u
<1>11. Block(l.col, l.kind) = BlockAt(n + 1, g)
  BY <1>2, <1>7, <1>9, EmptyBlock
<1>12. \A i \in 1..Len(u) : Settled(u[i])
  BY <1>2 DEF n
<1>13. Came(s, c, u, g)
  BY <1>3, <1>7 DEF Came, u, f
<1>14. Len(u) <= Len(s)
  BY <1>1, <1>2 DEF n
<1> HIDE DEF y
<1>15. Target(s, r, c, u, g)
  BY <1>3, <1>7, <1>8, <1>10, <1>11, <1>12, <1>13, <1>14 DEF Target, y, l, n
<1> QED
  BY <1>2, <1>7, <1>15

(* What is known of a call that finds its block among those already read *)
Found(s, r, c, v) ==
  LET s1 == Ascend(s, c)
  IN  /\ v \in Seq(Frame) /\ r.ok /\ r.blocks = Outline(v)
      /\ Kept(s, c) <= Len(v) /\ SubSeq(v, 1, Kept(s, c)) = s1
      /\ \A i \in 1..Kept(s, c) : Settled(s1[i])

(* A line of an open container's own block *)
LEMMA LineSame ==
  ASSUME NEW s, StackOK(s), NEW r, NEW c \in CallSet, c.key \notin LongKeys, Fits(Ascend(s, c), c),
         NEW v, Found(s, r, c, v), ~Wraps(Ascend(s, c), c)
  PROVE  \E x \in Seq(Frame), g \in Frame : Target(s, r, c, x, g)
<1> DEFINE s1 == Ascend(s, c)
           k == Kept(s, c)
           u == Front(s1)
           f == Top(s1)
           l == YLine(s1, c)
           y == YRead(r, l)
<1>1. /\ v \in Seq(Frame) /\ r.ok /\ r.blocks = Outline(v) /\ k <= Len(v) /\ SubSeq(v, 1, k) = s1
      /\ \A i \in 1..k : Settled(s1[i])
  BY DEF Found
<1>2. /\ k \in Nat /\ k > 0 /\ Len(s1) = k /\ u \in Seq(Frame) /\ f \in Frame /\ s1 = Append(u, f)
      /\ Len(u) = k - 1 /\ (\A i \in 1..(k - 1) : u[i] = s1[i]) /\ f = s1[k]
  BY AscendSplit
<1> HIDE DEF s1, k
<1>3. Settled(f) /\ \A i \in 1..Len(u) : Settled(u[i])
  BY <1>1, <1>2
<1>4. ~IsUndecided(s1) /\ Wrap(s1, c) = s1 /\ Resolve(s1, c) = s1
  BY <1>3 DEF IsUndecided, Settled, Wrap, Resolve, s1
<1>5. f.close = ClosingOf(c)
  <2>1. CASE c.k = "elem"
    BY <1>4, <2>1 DEF Fits, ClosingOf, s1
  <2>2. CASE c.k # "elem"
    BY <1>3, <2>2 DEF Wraps, ClosingOf, Settled, s1
  <2> QED
    BY <2>1, <2>2
<1>6. /\ l.col = 2 * Len(u) /\ l.kind = KindOf(f) /\ ~(l.kind = "seq" /\ l.keyed)
      /\ l.name \in STRING \X Nat /\ l.name \notin Names(f.ek)
  <2>1. /\ l.col = 2 * (Len(s1) - 1) /\ l.kind = (IF c.k = "elem" \/ Wraps(s1, c) THEN "seq" ELSE "map")
        /\ (l.keyed <=> c.k # "elem") /\ l.name = y_dedup_key(Top(Resolve(Wrap(s1, c), c)), c.key).name
    BY LineFacts
  <2>2. l.name = y_dedup_key(f, c.key).name
    BY <1>4, <2>1
  <2> HIDE DEF l, f
  <2>3. l.name \in STRING \X Nat /\ l.name \notin Names(f.ek)
    <3>1. c.key \in STRING
      BY DEF CallSet
    <3> QED
      BY <1>2, <2>2, <3>1, DedupNames
  <2>4. l.kind = (IF c.k = "elem" THEN "seq" ELSE "map") /\ l.col = 2 * Len(u)
    BY <1>2, <2>1 DEF s1
  <2>5. KindOf(f) = IF c.k = "elem" THEN "seq" ELSE "map"
    BY <1>5 DEF KindOf, ClosingOf
  <2> QED
    BY <2>1, <2>3, <2>4, <2>5
<1> HIDE DEF l, u, f
<1>7. y.ok /\ y.pending = l.opens /\ y.blocks = Append(Outline(u), Entered(BlockAt(Len(u) + 1, f), l))
  <2>1. Len(u) < Len(v) /\ Append(u, f) = SubSeq(v, 1, Len(u) + 1)
    <3>1. Len(u) + 1 = k /\ Len(v) \in Nat /\ Len(u) < Len(v)
      BY <1>1, <1>2 DEF u
    <3> QED
      BY <1>1, <1>2, <3>1, Zenon DEF u, f
  <2> QED
    <3>1. OnBlock(r, l, v, u, f)
      BY <1>1, <1>2, <1>6, <2>1 DEF OnBlock, u, f
    <3> QED
      BY <1>6, <3>1, ReadSame
<1>8. Came(s, c, u, f)
  BY <1>5 DEF Came, u, f, s1
<1>9. Len(u) <= Len(s1)
  BY <1>2
<1> HIDE DEF y
<1>10. Target(s, r, c, u, f)
  BY <1>2, <1>3, <1>4, <1>7, <1>8, <1>9 DEF Target, y, l, s1
<1> QED
  BY <1>2, <1>10

(* A keyed member of an array, wrapped *)
LEMMA LineItem ==
  ASSUME NEW s, StackOK(s), NEW r, NEW c \in CallSet, c.key \notin LongKeys,
         NEW v, Found(s, r, c, v), Wraps(Ascend(s, c), c)
  PROVE  \E x \in Seq(Frame), g \in Frame : Target(s, r, c, x, g)
<1> DEFINE s1 == Ascend(s, c)
           k == Kept(s, c)
           u == Front(s1)
           f == Top(s1)
           g == jcnt(c.lv, c.lv, "}")
           l == YLine(s1, c)
           y == YRead(r, l)
<1>1. /\ v \in Seq(Frame) /\ r.ok /\ r.blocks = Outline(v) /\ k <= Len(v) /\ SubSeq(v, 1, k) = s1
      /\ \A i \in 1..k : Settled(s1[i])
  BY DEF Found
<1>2. /\ k \in Nat /\ k > 0 /\ Len(s1) = k /\ u \in Seq(Frame) /\ f \in Frame /\ s1 = Append(u, f)
      /\ Len(u) = k - 1 /\ f = s1[k] /\ s1 \in Seq(Frame)
  BY AscendSplit
<1>3. /\ g \in Frame /\ g.lv = c.lv /\ g.child_lv = c.lv /\ g.close = "}" /\ g.ek = <<>>
      /\ g.child_lv # Undecided
  <2>1. c.lv \in 0..MaxLevel /\ c.lv \in Int /\ "}" \in Brackets /\ c.lv # Undecided
    BY DEF CallSet, MaxLevel, Undecided, Brackets
  <2>2. g.lv = c.lv /\ g.child_lv = c.lv /\ g.close = "}" /\ g.ek = <<>>
    BY DEF jcnt
  <2>3. g \in Frame
    BY <2>1, NewFrame
  <2> QED
    BY <2>1, <2>2, <2>3
<1> HIDE DEF s1, k
<1>4. c.k # "elem" /\ f.close = "]" /\ Wrap(s1, c) = Append(s1, g)
  BY DEF Wraps, Wrap, s1
<1> HIDE DEF g
<1>5. Top(Append(s1, g)) = g
  BY <1>2, <1>3, AppendFacts
<1>6. Settled(f) /\ Settled(g) /\ ~IsUndecided(s1) /\ Resolve(Append(s1, g), c) = Append(s1, g)
  <2>1. Settled(g)
    BY <1>3 DEF Settled
  <2>2. Settled(f)
    <3>1. k \in 1..k
      BY <1>2
    <3> QED
      BY <1>1, <1>2, <3>1, Zenon
  <2> QED
    BY <1>3, <1>5, <2>1, <2>2 DEF IsUndecided, Settled, Resolve
<1>7. l.col = 2 * Len(u) /\ l.kind = "seq" /\ KindOf(f) = "seq" /\ l.keyed /\ l.name \in STRING \X Nat
  <2>1. /\ l.col = 2 * (Len(s1) - 1) /\ l.kind = (IF c.k = "elem" \/ Wraps(s1, c) THEN "seq" ELSE "map")
        /\ (l.keyed <=> c.k # "elem") /\ l.name = y_dedup_key(Top(Resolve(Wrap(s1, c), c)), c.key).name
    BY LineFacts
  <2>2. l.name = y_dedup_key(g, c.key).name
    BY <1>4, <1>5, <1>6, <2>1
  <2> HIDE DEF l, f
  <2>3. l.name \in STRING \X Nat
    <3>1. c.key \in STRING
      BY DEF CallSet
    <3> QED
      BY <1>3, <2>2, <3>1, DedupNames
  <2>4. l.kind = "seq" /\ l.col = 2 * Len(u) /\ l.keyed
    BY <1>2, <1>4, <2>1 DEF s1
  <2>5. KindOf(f) = "seq"
    BY <1>4 DEF KindOf
  <2> QED
    BY <2>3, <2>4, <2>5
<1> HIDE DEF l, u, f
<1>8. y.ok /\ y.pending = l.opens /\ y.blocks = Append(Outline(s1), Entered(Block(l.col + 2, "map"), l))
  <2>1. Len(u) < Len(v) /\ Append(u, f) = SubSeq(v, 1, Len(u) + 1)
    <3>1. Len(u) + 1 = k /\ Len(v) \in Nat /\ Len(u) < Len(v)
      BY <1>1, <1>2 DEF u
    <3> QED
      BY <1>1, <1>2, <3>1, Zenon DEF u, f
  <2> QED
    <3>1. OnBlock(r, l, v, u, f)
      BY <1>1, <1>2, <1>7, <2>1 DEF OnBlock, u, f
    <3>2. s1 = Append(u, f)
      BY <1>2 DEF u, f
    <3> QED
      BY <1>7, <3>1, <3>2, ReadItem
<1>9. Block(l.col + 2, "map") = BlockAt(Len(s1) + 1, g)
  <2>1. KindOf(g) = "map" /\ l.col + 2 = 2 * Len(s1) /\ Len(s1) \in Nat
    <3>1. KindOf(g) = "map"
      BY <1>3 DEF KindOf
    <3>2. Len(u) = k - 1 /\ Len(s1) = k /\ k \in Nat
      BY <1>2 DEF u
    <3>3. l.col = 2 * Len(u)
      BY <1>7
    <3> QED
      BY <3>1, <3>2, <3>3
  <2> QED
    BY <1>3, <2>1, EmptyBlock
<1>10. Came(s, c, s1, g)
  <2>1. Len(s1) = Kept(s, c)
    BY <1>2 DEF k
  <2>2. g.close = ClosingOf(c)
    BY <1>3, <1>4 DEF ClosingOf
  <2> QED
    BY <1>3, <1>4, <1>6, <2>1, <2>2 DEF Came, s1
<1>11. \A i \in 1..Len(s1) : Settled(s1[i])
  BY <1>1, <1>2
<1> HIDE DEF y
<1>12. Len(s1) <= Len(s1)
  BY <1>2
<1>13. Resolve(Wrap(s1, c), c) = Append(s1, g)
  BY <1>4, <1>6
<1>14. Target(s, r, c, s1, g)
  BY <1>6, <1>8, <1>9, <1>10, <1>11, <1>12, <1>13 DEF Target, y, l, s1
<1> QED
  BY <1>2, <1>3, <1>14

(* One call of y_emit: its line is read without fault, and the reader is left
   where the new stack says. *)
LEMMA LineRead ==
  ASSUME NEW s, StackOK(s), NEW r, Follows(s, r), NEW c \in CallSet, c.key \notin LongKeys,
         Fits(Ascend(s, c), c)
  PROVE  LET s1 == Ascend(s, c)
         IN  /\ ~y_wrap_fails(s1, c)
             /\ Follows(YStack(s1, c), YRead(r, YLine(s1, c))) /\ Shape(s, c, YStack(s1, c))
<1> DEFINE s1 == Ascend(s, c)
           k == Kept(s, c)
<1>1. /\ k \in 1..Len(s) /\ Len(s1) = k /\ s1 = SubSeq(s, 1, k) /\ Len(s) \in Nat /\ s \in Seq(Frame)
      /\ \A i \in 1..k : s1[i] = s[i]
  BY AscendSplit
<1>2. r.ok /\ \A i \in 1..(Len(s) - 1) : Settled(s[i])
  BY DEF Follows
<1> HIDE DEF k, s1
<1>3. ~y_wrap_fails(s1, c)
  <2>1. Len(s1) <= 2 * c.lv + (IF c.k = "elem" THEN 3 ELSE 1)
    BY AscendProperties DEF s1
  <2>2. c.lv \in Int /\ c.lv <= 13
    BY DEF CallSet, MaxLevel
  <2>3. ~(Len(s1) >= MAX_DEPTH - 1)
    BY <1>1, <2>1, <2>2 DEF MAX_DEPTH
  <2> QED
    BY <2>3 DEF y_wrap_fails
<1>4. ASSUME NEW v, Found(s, r, c, v)
      PROVE  \E x \in Seq(Frame), g \in Frame : Target(s, r, c, x, g)
  <2>1. CASE Wraps(Ascend(s, c), c)
    BY <1>4, <2>1, LineItem
  <2>2. CASE ~Wraps(Ascend(s, c), c)
    BY <1>4, <2>2, LineSame
  <2> QED
    BY <2>1, <2>2
<1>5. \E x \in Seq(Frame), g \in Frame : Target(s, r, c, x, g)
  <2>1. CASE r.pending /\ Unwritten(s) /\ r.blocks = Outline(Front(s))
    <3>1. CASE k = Len(s)
      BY <1>2, <2>1, <3>1, LineBelow DEF k
    <3>2. CASE k # Len(s)
      <4> DEFINE v == Front(s)
      <4>1. Len(s) > 0
        BY <1>1
      <4>2. v \in Seq(Frame) /\ Len(v) = Len(s) - 1 /\ \A i \in 1..(Len(s) - 1) : v[i] = s[i]
        BY <1>1, <4>1, StackSplit
      <4> HIDE DEF v
      <4>3. k <= Len(v) /\ \A i \in 1..k : i \in 1..(Len(s) - 1)
        BY <1>1, <3>2, <4>2
      <4>4. SubSeq(v, 1, k) = s1
        <5>1. SubSeq(v, 1, k) \in Seq(Frame) /\ Len(SubSeq(v, 1, k)) = k /\ \A i \in 1..k : SubSeq(v, 1, k)[i] = v[i]
          BY <1>1, <4>2, <4>3
        <5>2. s1 \in Seq(Frame)
          BY AscendSplit DEF s1
        <5>3. \A i \in 1..k : SubSeq(v, 1, k)[i] = s1[i]
          BY <1>1, <4>2, <4>3, <5>1
        <5> DEFINE w == SubSeq(v, 1, k)
        <5> HIDE DEF w
        <5>4. w = s1
          BY <1>1, <5>1, <5>2, <5>3 DEF w
        <5> QED
          BY <5>4 DEF w
      <4>5. \A i \in 1..k : Settled(s1[i])
        BY <1>1, <1>2, <4>3
      <4>6. Found(s, r, c, v)
        BY <1>2, <2>1, <4>2, <4>3, <4>4, <4>5 DEF Found, v, k, s1
      <4> QED
        BY <1>4, <4>6
    <3> QED
      BY <3>1, <3>2
  <2>2. CASE Settled(Top(s)) /\ r.blocks = Outline(s)
    <3>1. \A i \in 1..Len(s) : Settled(s[i])
      <4>1. \A i \in 1..Len(s) : i = Len(s) \/ i \in 1..(Len(s) - 1)
        BY <1>1
      <4> QED
        BY <1>2, <2>2, <4>1 DEF Top
    <3>2. k <= Len(s) /\ \A i \in 1..k : Settled(s1[i]) /\ i \in 1..Len(s)
      BY <1>1, <3>1
    <3>3. Found(s, r, c, s)
      BY <1>1, <1>2, <2>2, <3>2 DEF Found, k, s1
    <3> QED
      BY <1>4, <3>3
  <2> QED
    BY <2>1, <2>2 DEF Follows
<1>6. PICK x \in Seq(Frame), g \in Frame : Target(s, r, c, x, g)
  BY <1>5
<1> QED
  BY <1>3, <1>6, TargetRead DEF s1

(* No container is called an array before it is one. *)
LEMMA FollowsKinds ==
  ASSUME NEW s, StackOK(s), NEW r, Follows(s, r)
  PROVE  Kinds(s)
<1>1. Len(s) \in Nat
  BY DEF StackOK
<1>2. SUFFICES ASSUME NEW p \in 1..Len(s), s[p].close = "]" PROVE s[p].child_lv # Undecided
  BY DEF Kinds
<1>3. CASE p = Len(s)
  BY <1>2, <1>3 DEF Follows, Unwritten, Settled, Top
<1>4. CASE p # Len(s)
  <2>1. p \in 1..(Len(s) - 1)
    BY <1>1, <1>4
  <2> QED
    BY <2>1 DEF Follows, Settled
<1> QED
  BY <1>3, <1>4

(* Nothing has been read of an empty document. *)
NothingRead == [ok |-> TRUE, pending |-> TRUE, blocks |-> <<>>]

(* The root alone, before the first line *)
LEMMA RootFollows == Follows(res_init_root("}"), NothingRead)
<1> DEFINE f == jcnt(-1, 0, "}")
<1>1. res_init_root("}") = <<f>> /\ f.child_lv = 0 /\ f.close = "}" /\ f.ek = <<>>
  BY DEF res_init_root, jcnt
<1>2. StackOK(<<f>>)
  <2>1. "}" \in Brackets
    BY DEF Brackets
  <2> QED
    BY <1>1, <2>1, RootOK
<1> HIDE DEF f
<1>3. <<f>> \in Seq(Frame) /\ Len(<<f>>) = 1 /\ Top(<<f>>) = f
  BY <1>2 DEF StackOK, Top
<1>4. Len(Front(<<f>>)) = 0 /\ Front(<<f>>) \in Seq(Frame)
  <2> DEFINE q == <<f>>
  <2>1. q \in Seq(Frame) /\ Len(q) = 1 /\ Len(q) > 0
    BY <1>3
  <2> HIDE DEF q
  <2>2. Front(q) \in Seq(Frame) /\ Len(Front(q)) = Len(q) - 1
    BY <2>1, StackSplit
  <2>3. Len(Front(q)) = 0
    BY <2>1, <2>2
  <2> QED
    BY <2>2, <2>3 DEF q
<1>5. Outline(Front(<<f>>)) = <<>>
  <2> DEFINE o == Outline(Front(<<f>>))
  <2>1. o \in Seq(BlockSet) /\ Len(o) = 0
    BY <1>4, OutlineType
  <2> HIDE DEF o, BlockSet
  <2>2. o = <<>>
    BY <2>1
  <2> QED
    BY <2>2 DEF o
<1>6. Settled(f)
  <2>1. Undecided # 0
    BY DEF Undecided
  <2> QED
    BY <1>1, <2>1, Zenon DEF Settled
<1>7. Unwritten(<<f>>)
  BY <1>1, <1>3, <1>6 DEF Unwritten
<1>8. NothingRead.ok /\ NothingRead.pending /\ NothingRead.blocks = <<>>
  BY DEF NothingRead
<1>9. \A i \in 1..(Len(<<f>>) - 1) : Settled(<<f>>[i])
  BY <1>3
<1> QED
  BY <1>1, <1>5, <1>7, <1>8, <1>9 DEF Follows

(* The keys that the dump functions use, numbered, fit in kbuf. *)
ShortKeys ==
  \A i \in 1..Len(dump_result), z \in Sizes :
    LET q == Calls(dump_result[i], z[1], z[2])
    IN  \A j \in 1..Len(q) : q[j].key \notin LongKeys

(* The inductive invariant: while a YAML report is written, the blocks read
   are those of the stack, and the calls to come suit it. *)
YamlInv ==
  /\ yread.ok
  /\ pc = "open" => calls = <<>> /\ yread = NothingRead
  /\ \A j \in 1..Len(calls) : calls[j].key \notin LongKeys
  /\ outtype = "yaml" /\ pc = "dump" => Follows(jstack, yread) /\ Ready(jstack, calls)

(* Each step keeps the invariant of the blocks. *)
LEMMA YamlStep ==
  ASSUME ShortKeys, EmitterInv, EmitterInv', YamlInv, [Next]_vars
  PROVE  YamlInv'
<1>0. calls \in Seq(CallSet) /\ (pc = "dump" /\ outtype = "yaml" => StackOK(jstack))
      /\ (pc' = "dump" /\ outtype' = "yaml" => StackOK(jstack'))
  BY DEF EmitterInv, Trees
<1>1. CASE res_open
  <2>1. pc = "open" /\ pc' = "dump" /\ outtype' = outtype /\ calls' = calls /\ calls = <<>>
        /\ yread' = yread /\ yread = NothingRead
    BY <1>1 DEF res_open, YamlInv
  <2>2. Ready(jstack', calls')
    BY <2>1 DEF Ready
  <2>3. outtype = "yaml" => jstack' = res_init_root("}")
    BY <1>1 DEF res_open, Trees
  <2>4. outtype = "yaml" => Follows(jstack', yread')
    BY <2>1, <2>3, RootFollows
  <2> QED
    BY <2>1, <2>2, <2>4 DEF YamlInv
<1>2. CASE res_open_fails
  BY <1>2 DEF res_open_fails, readers, YamlInv
<1>3. CASE NextTable
  <2>1. PICK i \in at..Len(dump_result), z \in Sizes : calls' = Calls(dump_result[i], z[1], z[2])
    BY <1>3 DEF NextTable
  <2>2. i \in 1..Len(dump_result)
    BY <2>1 DEF EmitterInv
  <2>3. Elements(calls') /\ \A j \in 1..Len(calls') : calls'[j].key \notin LongKeys
    BY <2>1, <2>2, ElementsAssumption DEF ShortKeys
  <2>4. Ready(jstack, calls')
    BY <2>3, ElementsReady
  <2>5. pc = "dump" /\ pc' = pc /\ outtype' = outtype /\ jstack' = jstack /\ yread' = yread
    BY <1>3 DEF NextTable, stackvars, readers
  <2> QED
    BY <2>3, <2>4, <2>5 DEF YamlInv
<1>4. ASSUME Emitting, Consume
      PROVE  /\ calls # <<>> /\ pc = "dump" /\ pc' = pc /\ outtype' = outtype /\ calls' = Tail(calls)
             /\ \A j \in 1..Len(calls') : calls'[j].key \notin LongKeys
             /\ Head(calls) = calls[1] /\ calls[1] \in CallSet /\ calls[1].key \notin LongKeys
  <2>1. calls # <<>> /\ pc = "dump" /\ pc' = pc /\ outtype' = outtype /\ calls' = Tail(calls)
    BY <1>4 DEF Emitting, Consume
  <2>2. /\ Len(Tail(calls)) = Len(calls) - 1 /\ Head(calls) = calls[1] /\ Len(calls) \in Nat \ {0}
        /\ \A i \in 1..(Len(calls) - 1) : Tail(calls)[i] = calls[i + 1]
    BY <1>0, <2>1, TailFacts
  <2>3. \A j \in 1..Len(calls) : calls[j].key \notin LongKeys
    BY DEF YamlInv
  <2>4. 1 \in 1..Len(calls) /\ \A j \in 1..(Len(calls) - 1) : j + 1 \in 1..Len(calls)
    BY <2>2
  <2> QED
    BY <1>0, <2>1, <2>2, <2>3, <2>4
<1>5. CASE j_emit
  <2>1. Emitting /\ Consume /\ outtype # "yaml" /\ yread' = yread
    BY <1>5 DEF j_emit
  <2> QED
    BY <1>4, <2>1 DEF YamlInv
<1>6. CASE y_emit
  <2> DEFINE c == Head(calls)
             s1 == Ascend(jstack, c)
             N == YStack(s1, c)
  <2>1. Emitting /\ Consume /\ outtype = "yaml"
    BY <1>6 DEF y_emit
  <2>2. c = calls[1] /\ c \in CallSet /\ c.key \notin LongKeys /\ StackOK(jstack)
        /\ Follows(jstack, yread) /\ Ready(jstack, calls)
    BY <1>0, <1>4, <2>1 DEF YamlInv
  <2>3. Fits(s1, c)
    BY <1>0, <1>4, <2>1, <2>2, ReadyFits
  <2>4. ~y_wrap_fails(s1, c) => jstack' = N /\ yread' = YRead(yread, YLine(s1, c))
    BY <1>6 DEF y_emit, YStack, YLine
  <2> HIDE DEF c
  <2>5. /\ ~y_wrap_fails(s1, c)
        /\ Follows(N, YRead(yread, YLine(s1, c))) /\ Shape(jstack, c, N)
    BY <2>2, <2>3, LineRead
  <2> HIDE DEF N, s1
  <2>6. jstack' = N /\ Follows(jstack', yread') /\ StackOK(N)
    BY <1>0, <1>4, <2>1, <2>4, <2>5
  <2>7. Kinds(jstack)
    BY <2>2, FollowsKinds
  <2>8. Ready(N, Tail(calls))
    BY <1>0, <1>4, <2>1, <2>2, <2>5, <2>6, <2>7, ReadyNext
  <2>9. yread'.ok
    BY <2>6 DEF Follows
  <2> QED
    BY <1>4, <2>1, <2>6, <2>8, <2>9 DEF YamlInv
<1>7. CASE res_put
  <2>1. Emitting /\ Consume /\ outtype # "yaml" /\ yread' = yread
    BY <1>7 DEF res_put, readers
  <2> QED
    BY <1>4, <2>1 DEF YamlInv
<1>8. CASE res_close
  BY <1>8 DEF res_close, YamlInv
<1>9. CASE UNCHANGED vars
  BY <1>9 DEF vars, stackvars, readers, YamlInv
<1> QED
  BY <1>1, <1>2, <1>3, <1>5, <1>6, <1>7, <1>8, <1>9 DEF Next

(* Whatever tables a report holds, and however many, what y_emit writes is a
   YAML document: a block begins only below a key without a value, is all
   items or all keys, and y_dedup_key keeps the keys of a mapping apart. *)
THEOREM YamlAlwaysWellFormed ==
  ASSUME ShortKeys
  PROVE  Spec => []YamlWellFormed
<1>1. Init => YamlInv
  BY DEF Init, YamlInv, NothingRead
<1>2. Spec => []EmitterInv
  BY InvHoldsInit, InvIsInductive, PTL DEF Spec
<1>3. EmitterInv /\ EmitterInv' /\ YamlInv /\ [Next]_vars => YamlInv'
  BY YamlStep
<1>4. YamlInv => YamlWellFormed
  BY DEF YamlInv, YamlWellFormed
<1> QED
  BY <1>1, <1>2, <1>3, <1>4, PTL DEF Spec

-----------------------------------------------------------------------------
(* Lines of text and hex dumps *)

(* A buffer, and the pieces put into it *)
Buffers == [size : Nat, out : Nat, stop : BOOLEAN]
Pieces == [whole : BOOLEAN, n : Nat]

(* A piece is kept whole or ends the line. *)
LEMMA PieceFacts ==
  ASSUME NEW b \in Buffers, NEW n \in Nat
  PROVE  /\ Piece(b, n) \in Buffers /\ Piece(b, n).size = b.size
         /\ IF b.stop \/ n >= b.size - b.out
            THEN Piece(b, n).stop /\ Piece(b, n).out = b.out
            ELSE ~Piece(b, n).stop /\ Piece(b, n).out = b.out + n
         /\ Byte(b, n) \in Buffers /\ Byte(b, n).size = b.size
         /\ IF b.stop \/ b.out + n > b.size
            THEN Byte(b, n).stop /\ Byte(b, n).out = b.out
            ELSE ~Byte(b, n).stop /\ Byte(b, n).out = b.out + n
<1> DEFINE S == [b EXCEPT !.stop = TRUE]
           O == [b EXCEPT !.out = @ + n]
<1>1. b.out \in Nat /\ b.size \in Nat /\ b.stop \in BOOLEAN
  BY DEF Buffers
<1>2. b.out + n \in Nat
  BY <1>1
<1>3. S \in Buffers /\ S.size = b.size /\ S.stop = TRUE /\ S.out = b.out
  BY DEF Buffers
<1>4. O \in Buffers /\ O.size = b.size /\ O.stop = b.stop /\ O.out = b.out + n
  BY <1>2, Zenon DEF Buffers
<1>5. /\ Piece(b, n) = IF b.stop \/ n >= b.size - b.out THEN S ELSE O
      /\ Byte(b, n) = IF b.stop \/ b.out + n > b.size THEN S ELSE O
  BY DEF Piece, Byte
<1> HIDE DEF S, O
<1> QED
  BY <1>3, <1>4, <1>5

(* Putting a piece leaves a buffer. *)
LEMMA PutType ==
  ASSUME NEW b \in Buffers, NEW p \in Pieces
  PROVE  Put(b, p) \in Buffers
<1>1. p.n \in Nat
  BY DEF Pieces
<1> QED
  BY <1>1, PieceFacts DEF Put

(* The pieces of a line are put one after the other. *)
LEMMA PutTrace ==
  ASSUME NEW b \in Buffers, NEW q \in Seq(Pieces)
  PROVE  Traced(Buffers, Len(q), b, [x \in Buffers \X (1..Len(q)) |-> Put(x[1], q[x[2]])], FoldLeft(Put, b, q))
<1> DEFINE n == Len(q)
           G == [x \in Buffers \X (1..n) |-> Put(x[1], q[x[2]])]
           Eq(f) == f = [s \in SUBSET (DOMAIN q) |->
                           IF s = {} THEN b ELSE Put(f[s \ {Max(s)}], q[Max(s)])]
           iter == CHOOSE f : Eq(f)
<1>0. n \in Nat /\ DOMAIN q = 1..n
  OBVIOUS
<1>1. FoldLeft(Put, b, q) = iter[1..n]
  <2>1. FoldLeft(Put, b, q) = iter[DOMAIN q]
    BY Zenon DEF FoldLeft, MapThenFoldSet
  <2> QED
    BY <1>0, <2>1
<1>2. G \in [Buffers \X (1..n) -> Buffers]
  BY PutType
<1>3. \A x \in Buffers, i \in 1..n : G[<<x, i>>] = Put(x, q[i])
  OBVIOUS
<1> HIDE DEF n, G
<1>4. PICK f \in [SUBSET (1..n) -> Buffers] :
        \A s \in SUBSET (1..n) : f[s] = IF s = {} THEN b ELSE G[<<f[s \ {Max(s)}], Max(s)>>]
  <2>1. Folding(Buffers, n, b, G)
    BY <1>0, <1>2, FoldExists
  <2> QED
    BY <2>1 DEF Folding
<1>5. \A s \in SUBSET (1..n) : s # {} => Max(s) \in 1..n
  BY <1>0, MaxIn
<1>6. Eq(f)
  <2>1. f = [s \in SUBSET (1..n) |-> f[s]]
    OBVIOUS
  <2>2. ASSUME NEW s \in SUBSET (1..n) PROVE f[s] = IF s = {} THEN b ELSE Put(f[s \ {Max(s)}], q[Max(s)])
    <3>1. f[s \ {Max(s)}] \in Buffers
      OBVIOUS
    <3> QED
      BY <1>3, <1>4, <1>5, <3>1
  <2> QED
    BY <1>0, <2>1, <2>2, Zenon
<1>7. Eq(iter)
  <2> HIDE DEF Eq
  <2> QED
    BY <1>6
<1> HIDE DEF iter
<1>8. \A s \in SUBSET (1..n) : iter[s] = IF s = {} THEN b ELSE Put(iter[s \ {Max(s)}], q[Max(s)])
  <2>1. iter = [s \in SUBSET (1..n) |-> IF s = {} THEN b ELSE Put(iter[s \ {Max(s)}], q[Max(s)])]
    BY <1>0, <1>7, Zenon
  <2> QED
    BY <2>1, Zenon
<1>9. iter[{}] = b /\ \A s \in SUBSET (1..n) :
        s # {} /\ iter[s \ {Max(s)}] \in Buffers => iter[s] = G[<<iter[s \ {Max(s)}], Max(s)>>]
  BY <1>3, <1>5, <1>8
<1>10. Traced(Buffers, n, b, G, iter[1..n])
  BY <1>0, <1>2, <1>9, FoldTrace
<1> QED
  BY <1>1, <1>10, Zenon DEF n, G

(* Total adds up the lengths of the pieces. *)
LEMMA TotalTrace ==
  ASSUME NEW q \in Seq(Pieces)
  PROVE  Traced(Nat, Len(q), 0, [x \in Nat \X (1..Len(q)) |-> x[1] + q[x[2]].n], Total(q))
<1> DEFINE n == Len(q)
           G == [x \in Nat \X (1..n) |-> x[1] + q[x[2]].n]
           Eq(f) == f = [s \in SUBSET (DOMAIN q) |->
                           IF s = {} THEN 0 ELSE f[s \ {Max(s)}] + q[Max(s)].n]
           iter == CHOOSE f : Eq(f)
<1>0. n \in Nat /\ DOMAIN q = 1..n
  OBVIOUS
<1>1. Total(q) = iter[1..n]
  <2>1. Total(q) = iter[DOMAIN q]
    BY Zenon DEF FoldLeft, MapThenFoldSet, Total
  <2> QED
    BY <1>0, <2>1
<1>2. G \in [Nat \X (1..n) -> Nat]
  <2>1. \A p \in Pieces : p.n \in Nat
    BY DEF Pieces
  <2>2. \A i \in 1..n : q[i].n \in Nat
    BY <2>1
  <2>3. \A x \in Nat \X (1..n) : x[1] + q[x[2]].n \in Nat
    BY <2>2
  <2> QED
    BY <2>3
<1>3. \A x \in Nat, i \in 1..n : G[<<x, i>>] = x + q[i].n
  OBVIOUS
<1> HIDE DEF n, G
<1>4. PICK f \in [SUBSET (1..n) -> Nat] :
        \A s \in SUBSET (1..n) : f[s] = IF s = {} THEN 0 ELSE G[<<f[s \ {Max(s)}], Max(s)>>]
  <2>1. Folding(Nat, n, 0, G)
    BY <1>0, <1>2, FoldExists
  <2> QED
    BY <2>1 DEF Folding
<1>5. \A s \in SUBSET (1..n) : s # {} => Max(s) \in 1..n
  BY <1>0, MaxIn
<1>6. Eq(f)
  <2>1. f = [s \in SUBSET (1..n) |-> f[s]]
    OBVIOUS
  <2>2. ASSUME NEW s \in SUBSET (1..n) PROVE f[s] = IF s = {} THEN 0 ELSE f[s \ {Max(s)}] + q[Max(s)].n
    <3>1. f[s \ {Max(s)}] \in Nat
      OBVIOUS
    <3> QED
      BY <1>3, <1>4, <1>5, <3>1
  <2> QED
    BY <1>0, <2>1, <2>2, Zenon
<1>7. Eq(iter)
  <2> HIDE DEF Eq
  <2> QED
    BY <1>6
<1> HIDE DEF iter
<1>8. \A s \in SUBSET (1..n) : iter[s] = IF s = {} THEN 0 ELSE iter[s \ {Max(s)}] + q[Max(s)].n
  <2>1. iter = [s \in SUBSET (1..n) |-> IF s = {} THEN 0 ELSE iter[s \ {Max(s)}] + q[Max(s)].n]
    BY <1>0, <1>7, Zenon
  <2> QED
    BY <2>1, Zenon
<1>9. iter[{}] = 0 /\ \A s \in SUBSET (1..n) :
        s # {} /\ iter[s \ {Max(s)}] \in Nat => iter[s] = G[<<iter[s \ {Max(s)}], Max(s)>>]
  BY <1>3, <1>5, <1>8
<1>10. Traced(Nat, n, 0, G, iter[1..n])
  <2>1. 0 \in Nat
    OBVIOUS
  <2> QED
    BY <1>0, <1>2, <1>9, <2>1, FoldTrace
<1> QED
  BY <1>1, <1>10, Zenon DEF n, G

(* The pieces of a row are put one after the other. *)
LEMMA PieceTrace ==
  ASSUME NEW b \in Buffers, NEW q \in Seq(Nat)
  PROVE  Traced(Buffers, Len(q), b, [x \in Buffers \X (1..Len(q)) |-> Piece(x[1], q[x[2]])],
                FoldLeft(Piece, b, q))
<1> DEFINE n == Len(q)
           G == [x \in Buffers \X (1..n) |-> Piece(x[1], q[x[2]])]
           Eq(f) == f = [s \in SUBSET (DOMAIN q) |->
                           IF s = {} THEN b ELSE Piece(f[s \ {Max(s)}], q[Max(s)])]
           iter == CHOOSE f : Eq(f)
<1>0. n \in Nat /\ DOMAIN q = 1..n
  OBVIOUS
<1>1. FoldLeft(Piece, b, q) = iter[1..n]
  <2>1. FoldLeft(Piece, b, q) = iter[DOMAIN q]
    BY Zenon DEF FoldLeft, MapThenFoldSet
  <2> QED
    BY <1>0, <2>1
<1>2. G \in [Buffers \X (1..n) -> Buffers]
  <2>1. \A x \in Buffers \X (1..n) : q[x[2]] \in Nat /\ x[1] \in Buffers
    BY <1>0
  <2>2. \A x \in Buffers \X (1..n) : Piece(x[1], q[x[2]]) \in Buffers
    BY <2>1, PieceFacts
  <2> QED
    BY <2>2
<1>3. \A x \in Buffers, i \in 1..n : G[<<x, i>>] = Piece(x, q[i])
  OBVIOUS
<1> HIDE DEF n, G
<1>4. PICK f \in [SUBSET (1..n) -> Buffers] :
        \A s \in SUBSET (1..n) : f[s] = IF s = {} THEN b ELSE G[<<f[s \ {Max(s)}], Max(s)>>]
  <2>1. Folding(Buffers, n, b, G)
    BY <1>0, <1>2, FoldExists
  <2> QED
    BY <2>1 DEF Folding
<1>5. \A s \in SUBSET (1..n) : s # {} => Max(s) \in 1..n
  BY <1>0, MaxIn
<1>6. Eq(f)
  <2>1. f = [s \in SUBSET (1..n) |-> f[s]]
    OBVIOUS
  <2>2. ASSUME NEW s \in SUBSET (1..n) PROVE f[s] = IF s = {} THEN b ELSE Piece(f[s \ {Max(s)}], q[Max(s)])
    <3>1. f[s \ {Max(s)}] \in Buffers
      OBVIOUS
    <3> QED
      BY <1>3, <1>4, <1>5, <3>1
  <2> QED
    BY <1>0, <2>1, <2>2, Zenon
<1>7. Eq(iter)
  <2> HIDE DEF Eq
  <2> QED
    BY <1>6
<1> HIDE DEF iter
<1>8. \A s \in SUBSET (1..n) : iter[s] = IF s = {} THEN b ELSE Piece(iter[s \ {Max(s)}], q[Max(s)])
  <2>1. iter = [s \in SUBSET (1..n) |-> IF s = {} THEN b ELSE Piece(iter[s \ {Max(s)}], q[Max(s)])]
    BY <1>0, <1>7, Zenon
  <2> QED
    BY <2>1, Zenon
<1>9. iter[{}] = b /\ \A s \in SUBSET (1..n) :
        s # {} /\ iter[s \ {Max(s)}] \in Buffers => iter[s] = G[<<iter[s \ {Max(s)}], Max(s)>>]
  BY <1>3, <1>5, <1>8
<1>10. Traced(Buffers, n, b, G, iter[1..n])
  BY <1>0, <1>2, <1>9, FoldTrace
<1> QED
  BY <1>1, <1>10, Zenon DEF n, G

(* The steps of the two folds over the pieces of a line *)
LEMMA LineSteps ==
  ASSUME NEW q \in Seq(Pieces), NEW b \in Buffers
  PROVE  \E g \in [0..Len(q) -> Buffers], h \in [0..Len(q) -> Nat] :
           /\ g[0] = b /\ FoldLeft(Put, b, q) = g[Len(q)] /\ h[0] = 0 /\ Total(q) = h[Len(q)]
           /\ \A i \in 1..Len(q) : g[i] = Put(g[i - 1], q[i]) /\ h[i] = h[i - 1] + q[i].n
<1> DEFINE n == Len(q)
           G == [x \in Buffers \X (1..n) |-> Put(x[1], q[x[2]])]
           H == [x \in Nat \X (1..n) |-> x[1] + q[x[2]].n]
<1>1. n \in Nat /\ \A i \in 1..n : i - 1 \in 0..n
  OBVIOUS
<1>2. /\ \A x \in Buffers, i \in 1..n : G[<<x, i>>] = Put(x, q[i])
      /\ \A x \in Nat, i \in 1..n : H[<<x, i>>] = x + q[i].n
  OBVIOUS
<1>3. Traced(Buffers, n, b, G, FoldLeft(Put, b, q))
  BY PutTrace
<1>4. Traced(Nat, n, 0, H, Total(q))
  BY TotalTrace
<1> HIDE DEF n, G, H
<1>5. PICK g \in [0..n -> Buffers] :
        g[0] = b /\ FoldLeft(Put, b, q) = g[n] /\ \A i \in 1..n : g[i] = G[<<g[i - 1], i>>]
  BY <1>3 DEF Traced
<1>6. PICK h \in [0..n -> Nat] :
        h[0] = 0 /\ Total(q) = h[n] /\ \A i \in 1..n : h[i] = H[<<h[i - 1], i>>]
  BY <1>4 DEF Traced
<1>7. \A i \in 1..n : g[i] = Put(g[i - 1], q[i]) /\ h[i] = h[i - 1] + q[i].n
  BY <1>1, <1>2, <1>5, <1>6
<1> QED
  BY <1>5, <1>6, <1>7 DEF n

(* A line that fits is kept whole, and another is cut. *)
LEMMA LineFits ==
  ASSUME NEW q \in Seq(Pieces), NEW size \in Nat
  PROVE  /\ FoldLeft(Put, Buffer(size), q).out <= size
         /\ Total(q) < size => FoldLeft(Put, Buffer(size), q).out = Total(q)
         /\ FoldLeft(Put, Buffer(size), q).out \in Nat /\ Total(q) \in Nat
<1> DEFINE b == Buffer(size)
           n == Len(q)
<1>1. b \in Buffers /\ b.size = size /\ b.out = 0 /\ b.stop = FALSE
  BY DEF Buffer, Buffers
<1> HIDE DEF b
<1>2. PICK g \in [0..n -> Buffers], h \in [0..n -> Nat] :
        /\ g[0] = b /\ FoldLeft(Put, b, q) = g[n] /\ h[0] = 0 /\ Total(q) = h[n]
        /\ \A i \in 1..n : g[i] = Put(g[i - 1], q[i]) /\ h[i] = h[i - 1] + q[i].n
  BY <1>1, LineSteps
<1>3. n \in Nat /\ \A i \in 1..n : i - 1 \in 0..n /\ q[i] \in Pieces
  OBVIOUS
<1> HIDE DEF n
<1> DEFINE Fine(i) == /\ g[i].size = size /\ g[i].out <= size
                      /\ h[i] < size => ~g[i].stop /\ g[i].out = h[i]
           T == {i \in 0..n : Fine(i)}
<1>4. 0 \in T
  <2>1. 0 \in 0..n
    BY <1>3
  <2> QED
    BY <1>1, <1>2, <2>1
<1>5. ASSUME NEW i \in 1..n, i - 1 \in T PROVE i \in T
  <2> DEFINE x == g[i - 1]
             p == q[i]
             y == g[i]
             w == h[i - 1]
  <2>1. i \in 0..n /\ x \in Buffers /\ p \in Pieces /\ w \in Nat /\ h[i] = w + p.n /\ y = Put(x, p)
    BY <1>2, <1>3
  <2>2. x.size = size /\ x.out <= size /\ (w < size => ~x.stop /\ x.out = w)
    BY <1>5
  <2> HIDE DEF x, p, y, w
  <2>3. \A m \in Nat :
          /\ Piece(x, m).size = x.size /\ Byte(x, m).size = x.size
          /\ IF x.stop \/ m >= x.size - x.out
             THEN Piece(x, m).out = x.out ELSE ~Piece(x, m).stop /\ Piece(x, m).out = x.out + m
          /\ IF x.stop \/ x.out + m > x.size
             THEN Byte(x, m).out = x.out ELSE ~Byte(x, m).stop /\ Byte(x, m).out = x.out + m
    BY <2>1, PieceFacts
  <2>4. p.n \in Nat /\ x.out \in Nat /\ x.size \in Nat
    BY <2>1 DEF Pieces, Buffers
  <2>5. y = Piece(x, p.n) \/ y = Byte(x, p.n)
    BY <2>1 DEF Put
  <2>6. /\ y.size = x.size
        /\ \/ y.out = x.out /\ (x.stop \/ p.n >= x.size - x.out \/ x.out + p.n > x.size)
           \/ ~y.stop /\ y.out = x.out + p.n /\ x.out + p.n <= x.size
    <3>1. CASE y = Piece(x, p.n)
      <4>1. IF x.stop \/ p.n >= x.size - x.out THEN y.out = x.out ELSE ~y.stop /\ y.out = x.out + p.n
        BY <2>3, <2>4, <3>1
      <4>2. y.size = x.size
        BY <2>3, <2>4, <3>1
      <4> QED
        BY <2>4, <4>1, <4>2
    <3>2. CASE y = Byte(x, p.n)
      <4>1. IF x.stop \/ x.out + p.n > x.size THEN y.out = x.out ELSE ~y.stop /\ y.out = x.out + p.n
        BY <2>3, <2>4, <3>2
      <4>2. y.size = x.size
        BY <2>3, <2>4, <3>2
      <4> QED
        BY <2>4, <4>1, <4>2
    <3> QED
      BY <2>5, <3>1, <3>2
  <2>7. y.size = size /\ y.out <= size /\ (w + p.n < size => ~y.stop /\ y.out = w + p.n)
    BY <2>1, <2>2, <2>4, <2>6
  <2> QED
    BY <2>1, <2>7 DEF y
<1>6. n \in T
  <2> HIDE DEF T
  <2>1. \A i \in 0..n : i \in T
    BY <1>3, <1>4, <1>5, IntervalInduction
  <2> QED
    BY <1>3, <2>1
<1>7. g[n].out \in Nat /\ h[n] \in Nat
  <2>1. n \in 0..n
    BY <1>3
  <2>2. g[n] \in Buffers /\ h[n] \in Nat
    BY <2>1
  <2> QED
    BY <2>2 DEF Buffers
<1> QED
  BY <1>2, <1>6, <1>7 DEF b

(* The pieces of a line are pieces. *)
LEMMA TextPiecesType ==
  ASSUME NEW lv \in Nat, NEW k \in Int, NEW v \in Int
  PROVE  TextPieces(lv, k, v) \in Seq(Pieces)
<1>1. /\ \A i \in Nat : [whole |-> TRUE, n |-> i] \in Pieces
      /\ \A i \in Nat : [whole |-> FALSE, n |-> i] \in Pieces
  BY DEF Pieces
<1>2. 1 \in Nat /\ 2 \in Nat /\ (k >= 0 => k \in Nat) /\ (v >= 0 => v \in Nat)
  OBVIOUS
<1>3. \A p \in Pieces : <<p>> \in Seq(Pieces)
  OBVIOUS
<1>4. \A p \in Pieces : [j \in 1..lv |-> p] \in Seq(Pieces)
  OBVIOUS
<1>5. <<>> \in Seq(Pieces)
  OBVIOUS
<1>6. \A a, b \in Seq(Pieces) : a \o b \in Seq(Pieces)
  OBVIOUS
<1> DEFINE A == [j \in 1..lv |-> [whole |-> TRUE, n |-> 2]]
           B == IF lv = 0 THEN <<[whole |-> FALSE, n |-> 1]>> ELSE <<>>
           C == IF k >= 0 THEN <<[whole |-> TRUE, n |-> k]>> ELSE <<>>
           D == IF k >= 0 /\ v >= 0 THEN <<[whole |-> FALSE, n |-> 2]>> ELSE <<>>
           E == IF v >= 0 THEN <<[whole |-> TRUE, n |-> v]>> ELSE <<>>
           F == <<[whole |-> FALSE, n |-> 1]>>
<1>7. A \in Seq(Pieces) /\ B \in Seq(Pieces) /\ C \in Seq(Pieces)
  BY <1>1, <1>2, <1>3, <1>4, <1>5
<1>8. D \in Seq(Pieces) /\ E \in Seq(Pieces) /\ F \in Seq(Pieces)
  BY <1>1, <1>2, <1>3, <1>5
<1>9. TextPieces(lv, k, v) = A \o B \o C \o D \o E \o F
  BY Zenon DEF TextPieces
<1> HIDE DEF A, B, C, D, E, F
<1>10. A \o B \in Seq(Pieces)
  BY <1>6, <1>7
<1>11. A \o B \o C \in Seq(Pieces)
  BY <1>6, <1>7, <1>10
<1>12. A \o B \o C \o D \in Seq(Pieces)
  BY <1>6, <1>8, <1>11
<1>13. A \o B \o C \o D \o E \in Seq(Pieces)
  BY <1>6, <1>8, <1>12
<1> QED
  BY <1>6, <1>8, <1>9, <1>13

(* The offset, the bytes in hex and the bar of a row *)
RowPieces == <<9>> \o [j \in 1..16 |-> 3] \o <<4>>

(* The elements of two sequences after one another *)
LEMMA ConcatFacts ==
  ASSUME NEW a \in Seq(Nat), NEW b \in Seq(Nat)
  PROVE  /\ a \o b \in Seq(Nat) /\ Len(a \o b) = Len(a) + Len(b)
         /\ \A i \in 1..Len(a) : (a \o b)[i] = a[i]
         /\ \A i \in 1..Len(b) : (a \o b)[Len(a) + i] = b[i]
OBVIOUS

(* One by one *)
LEMMA RowPiecesAre ==
  /\ RowPieces \in Seq(Nat) /\ Len(RowPieces) = 18
  /\ \A i \in 1..18 : RowPieces[i] = IF i = 1 THEN 9 ELSE IF i = 18 THEN 4 ELSE 3
<1> DEFINE A == <<9>>
           B == [j \in 1..16 |-> 3]
           C == <<4>>
           D == A \o B
<1>1. A \in Seq(Nat) /\ Len(A) = 1 /\ A[1] = 9
  OBVIOUS
<1>2. B \in Seq(Nat) /\ Len(B) = 16 /\ \A i \in 1..16 : B[i] = 3
  OBVIOUS
<1>3. C \in Seq(Nat) /\ Len(C) = 1 /\ C[1] = 4
  OBVIOUS
<1>4. RowPieces = D \o C
  BY Zenon DEF RowPieces
<1> HIDE DEF A, B, C
<1>5. D \in Seq(Nat) /\ Len(D) = 17 /\ D[1] = 9 /\ \A i \in 1..16 : D[1 + i] = 3
  <2>1. /\ D \in Seq(Nat) /\ Len(D) = Len(A) + Len(B)
        /\ \A i \in 1..Len(A) : D[i] = A[i]
        /\ \A i \in 1..Len(B) : D[Len(A) + i] = B[i]
    BY <1>1, <1>2, ConcatFacts
  <2>2. 1 \in 1..1 /\ 1 + 16 = 17
    OBVIOUS
  <2> HIDE DEF D
  <2> QED
    BY <1>1, <1>2, <2>1, <2>2
<1> HIDE DEF D
<1>6. /\ D \o C \in Seq(Nat) /\ Len(D \o C) = 18 /\ (D \o C)[18] = 4
      /\ \A i \in 1..17 : (D \o C)[i] = D[i]
  <2> DEFINE Z == D \o C
  <2>1. /\ Z \in Seq(Nat) /\ Len(Z) = Len(D) + Len(C)
        /\ \A i \in 1..Len(D) : Z[i] = D[i]
        /\ \A i \in 1..Len(C) : Z[Len(D) + i] = C[i]
    BY <1>3, <1>5, ConcatFacts
  <2>2. 1 \in 1..1 /\ 17 + 1 = 18
    OBVIOUS
  <2> HIDE DEF Z
  <2>3. Z \in Seq(Nat) /\ Len(Z) = 18 /\ Z[18] = 4 /\ \A i \in 1..17 : Z[i] = D[i]
    BY <1>3, <1>5, <2>1, <2>2
  <2> QED
    BY <2>3 DEF Z
<1> DEFINE R == RowPieces
<1>7. R \in Seq(Nat) /\ Len(R) = 18 /\ R[18] = 4 /\ \A i \in 1..17 : R[i] = D[i]
  BY <1>4, <1>6, Zenon
<1> HIDE DEF R
<1>8. \A i \in 1..18 : R[i] = IF i = 1 THEN 9 ELSE IF i = 18 THEN 4 ELSE 3
  <2>1. \A i \in 2..17 : i \in 1..17 /\ i - 1 \in 1..16 /\ 1 + (i - 1) = i
    OBVIOUS
  <2>2. \A i \in 2..17 : D[i] = 3
    BY <1>5, <2>1
  <2>3. ASSUME NEW i \in 2..17 PROVE R[i] = 3
    <3>1. i \in 1..17 /\ D[i] = 3
      BY <2>1, <2>2
    <3>2. R[i] = D[i]
      BY <1>7, <3>1
    <3> QED
      BY <3>1, <3>2
  <2>4. R[1] = 9
    <3>1. 1 \in 1..17
      OBVIOUS
    <3> QED
      BY <1>5, <1>7, <3>1, Zenon
  <2>5. \A i \in 1..18 : i = 1 \/ i = 18 \/ i \in 2..17
    OBVIOUS
  <2> QED
    BY <1>7, <2>3, <2>4, <2>5
<1> QED
  BY <1>7, <1>8 DEF R

(* They take 61 bytes, or end the dump inside the buffer. *)
LEMMA RowFits ==
  ASSUME NEW b \in Buffers, ~b.stop, b.out < b.size
  PROVE  /\ FoldLeft(Piece, b, RowPieces) \in Buffers
         /\ FoldLeft(Piece, b, RowPieces).size = b.size
         /\ FoldLeft(Piece, b, RowPieces).out < b.size
         /\ ~FoldLeft(Piece, b, RowPieces).stop => FoldLeft(Piece, b, RowPieces).out = b.out + 61
<1> DEFINE q == RowPieces
           G == [x \in Buffers \X (1..18) |-> Piece(x[1], q[x[2]])]
           e == FoldLeft(Piece, b, q)
<1>1. q \in Seq(Nat) /\ Len(q) = 18
  BY RowPiecesAre
<1>2. Traced(Buffers, 18, b, G, e)
  BY <1>1, PieceTrace
<1>3. \A x \in Buffers, i \in 1..18 : G[<<x, i>>] = Piece(x, q[i])
  OBVIOUS
<1> HIDE DEF G, e, q
<1>4. PICK g \in [0..18 -> Buffers] : g[0] = b /\ e = g[18] /\ \A i \in 1..18 : g[i] = G[<<g[i - 1], i>>]
  BY <1>2 DEF Traced
<1> DEFINE D(i) == IF i = 0 THEN 0 ELSE IF i = 18 THEN 61 ELSE 6 + 3 * i
           Fine(i) == /\ g[i].size = b.size /\ g[i].out < b.size
                      /\ ~g[i].stop => g[i].out = b.out + D(i)
           T == {i \in 0..18 : Fine(i)}
<1>5. b.out \in Nat /\ b.size \in Nat
  BY DEF Buffers
<1>6. 0 \in T
  BY <1>4, <1>5
<1>7. ASSUME NEW i \in 1..18, i - 1 \in T PROVE i \in T
  <2> DEFINE x == g[i - 1]
             y == g[i]
             m == q[i]
  <2>1. i \in 0..18 /\ i - 1 \in 0..18 /\ D(i) = D(i - 1) + (IF i = 1 THEN 9 ELSE IF i = 18 THEN 4 ELSE 3)
    OBVIOUS
  <2>2. x \in Buffers
    BY <2>1
  <2>3. m \in Nat /\ D(i) = D(i - 1) + m /\ m > 0 /\ D(i - 1) \in Nat
    <3>1. m = IF i = 1 THEN 9 ELSE IF i = 18 THEN 4 ELSE 3
      BY RowPiecesAre DEF q
    <3>2. D(i - 1) \in Nat
      OBVIOUS
    <3> HIDE DEF m, D
    <3> QED
      BY <2>1, <3>1, <3>2
  <2>4. y = Piece(x, m)
    BY <1>3, <1>4, <2>2
  <2>5. x.size = b.size /\ x.out < b.size /\ (~x.stop => x.out = b.out + D(i - 1))
    BY <1>7
  <2> HIDE DEF x, y, m, D
  <2>6. /\ Piece(x, m).size = x.size
        /\ IF x.stop \/ m >= x.size - x.out
           THEN Piece(x, m).stop /\ Piece(x, m).out = x.out
           ELSE ~Piece(x, m).stop /\ Piece(x, m).out = x.out + m
    BY <2>2, <2>3, PieceFacts
  <2>7. x.out \in Nat /\ x.size \in Nat
    BY <2>2 DEF Buffers
  <2>8. y.size = b.size /\ y.out < b.size /\ (~y.stop => y.out = b.out + D(i))
    BY <1>5, <2>3, <2>4, <2>5, <2>6, <2>7
  <2> QED
    BY <2>1, <2>8 DEF y
<1>8. 18 \in T
  <2> HIDE DEF T
  <2>1. 18 \in Nat /\ 18 \in 0..18
    OBVIOUS
  <2>2. \A i \in 0..18 : i \in T
    BY <1>6, <1>7, <2>1, IntervalInduction
  <2> QED
    BY <2>1, <2>2
<1>9. D(18) = 61 /\ g[18] \in Buffers
  OBVIOUS
<1> HIDE DEF D
<1> QED
  BY <1>4, <1>8, <1>9 DEF e, q

(* The line break before a row *)
Break(b, first) ==
  IF ~first /\ ~b.stop /\ b.out < b.size THEN [b EXCEPT !.out = @ + 1] ELSE b

(* It takes a byte, but not before the first row. *)
LEMMA BreakFacts ==
  ASSUME NEW b \in Buffers, NEW first \in BOOLEAN
  PROVE  /\ Break(b, first) \in Buffers /\ Break(b, first).size = b.size /\ Break(b, first).stop = b.stop
         /\ Break(b, first).out = IF ~first /\ ~b.stop /\ b.out < b.size THEN b.out + 1 ELSE b.out
<1> DEFINE O == [b EXCEPT !.out = @ + 1]
<1>1. b.out \in Nat
  BY DEF Buffers
<1>2. b.out + 1 \in Nat
  BY <1>1
<1>3. O \in Buffers /\ O.size = b.size /\ O.stop = b.stop /\ O.out = b.out + 1
  BY <1>2, Zenon DEF Buffers
<1>4. Break(b, first) = IF ~first /\ ~b.stop /\ b.out < b.size THEN O ELSE b
  BY DEF Break
<1> HIDE DEF O
<1> QED
  BY <1>3, <1>4

(* A row is its line break, its pieces and, where they fit, its characters. *)
LEMMA RowFacts ==
  ASSUME NEW b \in Buffers, NEW m \in Nat, NEW first \in BOOLEAN
  PROVE  LET r == FoldLeft(Piece, Break(b, first), RowPieces)
             e == Row(b, m, first)
         IN  /\ r \in Buffers /\ e \in Buffers /\ e.size = r.size
             /\ IF r.stop THEN e.stop /\ e.out = r.out ELSE ~e.stop /\ e.out = r.out + m
<1> DEFINE a == Break(b, first)
           r == FoldLeft(Piece, a, RowPieces)
           e == Row(b, m, first)
           O == [r EXCEPT !.out = @ + m]
<1>1. a \in Buffers
  BY BreakFacts
<1>2. r \in Buffers
  <2>1. RowPieces \in Seq(Nat) /\ Len(RowPieces) = 18
    BY RowPiecesAre
  <2> HIDE DEF a
  <2>2. PICK G : Traced(Buffers, 18, a, G, r)
    BY <1>1, <2>1, PieceTrace
  <2>3. \E g \in [0..18 -> Buffers] : r = g[18]
    BY <2>2 DEF Traced
  <2>4. 18 \in 0..18
    OBVIOUS
  <2> HIDE DEF r
  <2> QED
    BY <2>3, <2>4
<1>3. e = IF r.stop THEN r ELSE O
  BY Zenon DEF Row, Break, RowPieces
<1> HIDE DEF a, r
<1>4. r.out \in Nat /\ r.stop \in BOOLEAN
  BY <1>2 DEF Buffers
<1>5. r.out + m \in Nat
  BY <1>4
<1>6. O \in Buffers /\ O.size = r.size /\ O.stop = r.stop /\ O.out = r.out + m
  BY <1>2, <1>5, Zenon DEF Buffers
<1> HIDE DEF O, e
<1>7. /\ e \in Buffers /\ e.size = r.size
      /\ IF r.stop THEN e.stop /\ e.out = r.out ELSE ~e.stop /\ e.out = r.out + m
  BY <1>2, <1>3, <1>4, <1>6
<1> QED
  BY <1>2, <1>7 DEF r, a, e

(* One pass of the loop of res_hexdump *)
HexStep(len, b, j) ==
  IF b.stop THEN b ELSE Row(b, IF 16 * j <= len THEN 16 ELSE len % 16, j = 1)

(* A row leaves a buffer. *)
LEMMA HexStepType ==
  ASSUME NEW len \in Nat, NEW b \in Buffers, NEW j \in Nat
  PROVE  HexStep(len, b, j) \in Buffers
<1> DEFINE m == IF 16 * j <= len THEN 16 ELSE len % 16
           x == (j = 1)
<1>1. m \in Nat /\ x \in BOOLEAN
  OBVIOUS
<1>2. HexStep(len, b, j) = IF b.stop THEN b ELSE Row(b, m, x)
  BY Zenon DEF HexStep
<1> HIDE DEF m, x
<1>3. Row(b, m, x) \in Buffers
  BY <1>1, RowFacts
<1> QED
  BY <1>2, <1>3

(* The loop *)
HexFold(len, b, q) ==
  FoldLeft(LAMBDA st, j : IF st.stop THEN st
                          ELSE Row(st, IF 16 * j <= len THEN 16 ELSE len % 16, j = 1), b, q)

(* The rows of a dump are put one after the other. *)
LEMMA HexTrace ==
  ASSUME NEW len \in Nat, NEW b \in Buffers, NEW q \in Seq(Nat)
  PROVE  Traced(Buffers, Len(q), b, [x \in Buffers \X (1..Len(q)) |-> HexStep(len, x[1], q[x[2]])],
                HexFold(len, b, q))
<1> DEFINE n == Len(q)
           G == [x \in Buffers \X (1..n) |-> HexStep(len, x[1], q[x[2]])]
           Eq(f) == f = [s \in SUBSET (DOMAIN q) |->
                           IF s = {} THEN b ELSE HexStep(len, f[s \ {Max(s)}], q[Max(s)])]
           iter == CHOOSE f : Eq(f)
<1>0. n \in Nat /\ DOMAIN q = 1..n
  OBVIOUS
<1>1. HexFold(len, b, q) = iter[1..n]
  <2>1. HexFold(len, b, q) = iter[DOMAIN q]
    BY Zenon DEF FoldLeft, MapThenFoldSet, HexFold, HexStep
  <2> QED
    BY <1>0, <2>1
<1>2. G \in [Buffers \X (1..n) -> Buffers]
  <2>1. \A x \in Buffers \X (1..n) : q[x[2]] \in Nat /\ x[1] \in Buffers
    BY <1>0
  <2>2. \A x \in Buffers \X (1..n) : HexStep(len, x[1], q[x[2]]) \in Buffers
    BY <2>1, HexStepType
  <2> QED
    BY <2>2
<1>3. \A x \in Buffers, i \in 1..n : G[<<x, i>>] = HexStep(len, x, q[i])
  OBVIOUS
<1> HIDE DEF n, G
<1>4. PICK f \in [SUBSET (1..n) -> Buffers] :
        \A s \in SUBSET (1..n) : f[s] = IF s = {} THEN b ELSE G[<<f[s \ {Max(s)}], Max(s)>>]
  <2>1. Folding(Buffers, n, b, G)
    BY <1>0, <1>2, FoldExists
  <2> QED
    BY <2>1 DEF Folding
<1>5. \A s \in SUBSET (1..n) : s # {} => Max(s) \in 1..n
  BY <1>0, MaxIn
<1>6. Eq(f)
  <2>1. f = [s \in SUBSET (1..n) |-> f[s]]
    OBVIOUS
  <2>2. ASSUME NEW s \in SUBSET (1..n) PROVE f[s] = IF s = {} THEN b ELSE HexStep(len, f[s \ {Max(s)}], q[Max(s)])
    <3>1. f[s \ {Max(s)}] \in Buffers
      OBVIOUS
    <3> QED
      BY <1>3, <1>4, <1>5, <3>1
  <2> QED
    BY <1>0, <2>1, <2>2, Zenon
<1>7. Eq(iter)
  <2> HIDE DEF Eq
  <2> QED
    BY <1>6
<1> HIDE DEF iter
<1>8. \A s \in SUBSET (1..n) : iter[s] = IF s = {} THEN b ELSE HexStep(len, iter[s \ {Max(s)}], q[Max(s)])
  <2>1. iter = [s \in SUBSET (1..n) |-> IF s = {} THEN b ELSE HexStep(len, iter[s \ {Max(s)}], q[Max(s)])]
    BY <1>0, <1>7, Zenon
  <2> QED
    BY <2>1, Zenon
<1>9. iter[{}] = b /\ \A s \in SUBSET (1..n) :
        s # {} /\ iter[s \ {Max(s)}] \in Buffers => iter[s] = G[<<iter[s \ {Max(s)}], Max(s)>>]
  BY <1>3, <1>5, <1>8
<1>10. Traced(Buffers, n, b, G, iter[1..n])
  BY <1>0, <1>2, <1>9, FoldTrace
<1> QED
  BY <1>1, <1>10, Zenon DEF n, G

(* A full row is 78 bytes with its line break, and 2048 is not close enough
   to a multiple of 78 for the characters of a row to pass the end. *)
LEMMA RowStep ==
  ASSUME NEW len \in Nat, NEW j \in Nat \ {0}, NEW b \in Buffers, ~b.stop, b.size = RAW_LEN,
         b.out < RAW_LEN, b.out = IF j = 1 THEN 0 ELSE 78 * (j - 1) - 1
  PROVE  LET e == HexStep(len, b, j)
         IN  /\ e.size = RAW_LEN /\ e.out < RAW_LEN
             /\ ~e.stop /\ 16 * j <= len => e.out = 78 * j - 1
<1> DEFINE m == IF 16 * j <= len THEN 16 ELSE len % 16
           x == (j = 1)
           a == Break(b, x)
           r == FoldLeft(Piece, a, RowPieces)
           e == HexStep(len, b, j)
<1>1. m \in Nat /\ m <= 16 /\ (16 * j <= len => m = 16) /\ x \in BOOLEAN /\ (x <=> j = 1)
  OBVIOUS
<1>2. e = Row(b, m, x)
  BY Zenon DEF HexStep
<1> HIDE DEF m, x
<1>3. RAW_LEN = 2048
  BY DEF RAW_LEN, LINE_LEN
<1>4. /\ a \in Buffers /\ a.size = b.size /\ a.stop = b.stop
      /\ a.out = IF ~x /\ ~b.stop /\ b.out < b.size THEN b.out + 1 ELSE b.out
  BY <1>1, BreakFacts
<1>5. /\ r \in Buffers /\ Row(b, m, x).size = r.size
      /\ IF r.stop THEN Row(b, m, x).stop /\ Row(b, m, x).out = r.out
                   ELSE ~Row(b, m, x).stop /\ Row(b, m, x).out = r.out + m
  BY <1>1, RowFacts
<1> HIDE DEF a, e
<1>6. b.out \in Nat /\ j \in Nat /\ j >= 1
  BY DEF Buffers
<1>7. ~a.stop /\ a.size = 2048 /\ a.out = 78 * (j - 1) /\ a.out < 2048
  <2>1. a.out = IF j = 1 THEN 0 ELSE b.out + 1
    BY <1>1, <1>3, <1>4
  <2>2. a.out = 78 * (j - 1)
    BY <1>6, <2>1
  <2> QED
    BY <1>3, <1>4, <1>6, <2>1, <2>2
<1>8. r.size = 2048 /\ r.out < 2048 /\ (~r.stop => r.out = a.out + 61)
  BY <1>4, <1>7, RowFits
<1> HIDE DEF r
<1>9. r.out \in Nat
  BY <1>5 DEF Buffers
<1>10. e.size = r.size /\ (IF r.stop THEN e.stop /\ e.out = r.out ELSE ~e.stop /\ e.out = r.out + m)
  BY <1>2, <1>5
<1>11. CASE r.stop
  <2>1. e.size = 2048 /\ e.out < 2048 /\ e.stop
    BY <1>8, <1>10, <1>11
  <2> QED
    BY <1>3, <2>1 DEF e
<1>12. CASE ~r.stop
  <2>1. e.out = 78 * (j - 1) + 61 + m /\ 78 * (j - 1) + 61 < 2048
    BY <1>7, <1>8, <1>10, <1>12
  <2>2. e.out < 2048 /\ (m = 16 => e.out = 78 * j - 1)
    BY <1>1, <1>6, <2>1
  <2> QED
    BY <1>1, <1>3, <1>8, <1>10, <2>2 DEF e
<1> QED
  BY <1>11, <1>12

(* A hex dump of any length leaves room for its terminator. *)
LEMMA HexFits ==
  ASSUME NEW len \in Nat
  PROVE  res_hexdump(len) \in Nat /\ res_hexdump(len) < RAW_LEN
<1> DEFINE n == (len + 15) \div 16
           q == [j \in 1..n |-> j]
           b == Buffer(RAW_LEN)
           G == [x \in Buffers \X (1..n) |-> HexStep(len, x[1], q[x[2]])]
           e == HexFold(len, b, q)
<1>1. n \in Nat /\ \A i \in 1..(n - 1) : 16 * i <= len
  OBVIOUS
<1>2. res_hexdump(len) = e.out
  BY Zenon DEF res_hexdump, HexFold
<1> HIDE DEF n
<1>3. q \in Seq(Nat) /\ Len(q) = n /\ \A i \in 1..n : q[i] = i
  BY <1>1
<1>4. RAW_LEN \in Nat /\ RAW_LEN > 0
  BY DEF RAW_LEN, LINE_LEN
<1>5. b \in Buffers /\ b.size = RAW_LEN /\ b.out = 0 /\ b.stop = FALSE
  BY <1>4 DEF Buffer, Buffers
<1> HIDE DEF b, q
<1>6. Traced(Buffers, n, b, G, e)
  <2>1. Traced(Buffers, Len(q), b, [x \in Buffers \X (1..Len(q)) |-> HexStep(len, x[1], q[x[2]])], e)
    BY <1>3, <1>5, HexTrace
  <2> QED
    BY <1>3, <2>1
<1>7. \A x \in Buffers, i \in 1..n : G[<<x, i>>] = HexStep(len, x, i)
  BY <1>3
<1> HIDE DEF G, e
<1>8. PICK g \in [0..n -> Buffers] : g[0] = b /\ e = g[n] /\ \A i \in 1..n : g[i] = G[<<g[i - 1], i>>]
  BY <1>6 DEF Traced
<1> DEFINE Fine(i) == /\ g[i].size = RAW_LEN /\ g[i].out < RAW_LEN
                      /\ ~g[i].stop /\ i < n => g[i].out = IF i = 0 THEN 0 ELSE 78 * i - 1
           T == {i \in 0..n : Fine(i)}
<1>9. 0 \in T
  <2>1. 0 \in 0..n
    BY <1>1
  <2> HIDE DEF b
  <2> QED
    BY <1>4, <1>5, <1>8, <2>1
<1>10. ASSUME NEW i \in 1..n, i - 1 \in T PROVE i \in T
  <2> DEFINE x == g[i - 1]
             y == g[i]
  <2>1. i \in 0..n /\ i - 1 \in 0..n /\ i \in Nat \ {0} /\ i - 1 < n /\ (i - 1 = 0 <=> i = 1) /\ i # 0
    BY <1>1
  <2>2. x \in Buffers
    BY <2>1
  <2>3. y = HexStep(len, x, i)
    BY <1>7, <1>8, <2>2
  <2>4. x.size = RAW_LEN /\ x.out < RAW_LEN /\ (~x.stop => x.out = IF i = 1 THEN 0 ELSE 78 * (i - 1) - 1)
    BY <1>10, <2>1
  <2> HIDE DEF x, y
  <2>5. y.size = RAW_LEN /\ y.out < RAW_LEN /\ (~y.stop /\ i < n => y.out = 78 * i - 1)
    <3>1. CASE x.stop
      <4>1. y = x
        BY <2>3, <3>1 DEF HexStep
      <4> QED
        BY <2>4, <3>1, <4>1
    <3>2. CASE ~x.stop
      <4>1. i < n => 16 * i <= len
        BY <1>1, <2>1
      <4>2. x.out = IF i = 1 THEN 0 ELSE 78 * (i - 1) - 1
        BY <2>4, <3>2
      <4>3. /\ HexStep(len, x, i).size = RAW_LEN /\ HexStep(len, x, i).out < RAW_LEN
            /\ ~HexStep(len, x, i).stop /\ 16 * i <= len => HexStep(len, x, i).out = 78 * i - 1
        BY <2>1, <2>2, <2>4, <3>2, <4>2, RowStep
      <4> QED
        BY <2>3, <4>1, <4>3
    <3> QED
      BY <3>1, <3>2
  <2> QED
    BY <2>1, <2>5 DEF y
<1>11. n \in T
  <2> HIDE DEF T
  <2>1. \A i \in 0..n : i \in T
    BY <1>1, <1>9, <1>10, IntervalInduction
  <2>2. n \in 0..n
    BY <1>1
  <2> QED
    BY <2>1, <2>2
<1>12. g[n].out \in Nat
  <2>1. g[n] \in Buffers
    BY <1>1
  <2> QED
    BY <2>1 DEF Buffers
<1> QED
  BY <1>2, <1>8, <1>11, <1>12

(* One call's line of text *)
LEMMA TextFits ==
  ASSUME NEW lv \in Nat, NEW k \in Int, NEW v \in Int
  PROVE  /\ res_put_text(lv, k, v) <= LINE_LEN
         /\ Total(TextPieces(lv, k, v)) < LINE_LEN => res_put_text(lv, k, v) = Total(TextPieces(lv, k, v))
<1>1. LINE_LEN \in Nat
  BY DEF LINE_LEN
<1>2. TextPieces(lv, k, v) \in Seq(Pieces)
  BY TextPiecesType
<1> QED
  BY <1>1, <1>2, LineFits DEF res_put_text

(* Pieces of up to three characters: what is in the buffer grows by no more
   than that each, and stays within it. *)
LEMMA ShortPieces ==
  ASSUME NEW b \in Buffers, NEW q \in Seq(0..3), b.out < b.size
  PROVE  LET e == FoldLeft(Piece, b, q)
         IN /\ e \in Buffers /\ e.size = b.size /\ e.out \in Nat
            /\ e.out <= b.out + 3 * Len(q) /\ e.out < b.size
<1> DEFINE n == Len(q)
           e == FoldLeft(Piece, b, q)
           G == [x \in Buffers \X (1..n) |-> Piece(x[1], q[x[2]])]
<1>1. n \in Nat /\ (\A i \in 1..n : i - 1 \in 0..n) /\ (\A i \in 1..n : q[i] \in Nat /\ q[i] <= 3)
  OBVIOUS
<1>2. \A x \in Buffers, i \in 1..n : G[<<x, i>>] = Piece(x, q[i])
  OBVIOUS
<1>3. Traced(Buffers, n, b, G, e)
  <2>1. q \in Seq(Nat)
    OBVIOUS
  <2> QED
    BY <2>1, PieceTrace
<1> HIDE DEF n, G, e
<1>4. PICK g \in [0..n -> Buffers] :
        g[0] = b /\ e = g[n] /\ \A i \in 1..n : g[i] = G[<<g[i - 1], i>>]
  BY <1>3 DEF Traced
<1>5. b.out \in Nat /\ b.size \in Nat
  BY DEF Buffers
<1> DEFINE Fine(i) == g[i].size = b.size /\ g[i].out <= b.out + 3 * i /\ g[i].out < b.size
           T == {i \in 0..n : Fine(i)}
<1>6. 0 \in T
  <2>1. 0 \in 0..n
    BY <1>1
  <2> QED
    BY <1>4, <1>5, <2>1
<1>7. ASSUME NEW i \in 1..n, i - 1 \in T PROVE i \in T
  <2> DEFINE x == g[i - 1]
             y == g[i]
             c == q[i]
  <2>1. i \in 0..n /\ i \in Nat /\ x \in Buffers /\ c \in Nat /\ c <= 3 /\ y = Piece(x, c)
    <3>1. i \in 0..n /\ i \in Nat /\ i - 1 \in 0..n /\ c \in Nat /\ c <= 3
      BY <1>1
    <3>2. x \in Buffers
      BY <3>1
    <3>3. y = G[<<x, i>>]
      BY <1>4
    <3>4. G[<<x, i>>] = Piece(x, c)
      BY <1>2, <3>2
    <3> QED
      BY <3>1, <3>2, <3>3, <3>4
  <2>2. x.size = b.size /\ x.out <= b.out + 3 * (i - 1) /\ x.out < b.size
    BY <1>7
  <2>3. x.out \in Nat
    BY <2>1 DEF Buffers
  <2> HIDE DEF x, y, c
  <2>4. /\ y.size = x.size
        /\ IF x.stop \/ c >= x.size - x.out THEN y.out = x.out ELSE y.out = x.out + c
    BY <2>1, PieceFacts
  <2>5. y.size = b.size /\ y.out <= b.out + 3 * i /\ y.out < b.size
    BY <1>5, <2>1, <2>2, <2>3, <2>4
  <2> QED
    BY <2>1, <2>5 DEF y
<1>8. n \in T
  <2> HIDE DEF T
  <2>1. \A i \in 0..n : i \in T
    BY <1>1, <1>6, <1>7, IntervalInduction
  <2> QED
    BY <1>1, <2>1
<1>9. e \in Buffers /\ e.out \in Nat
  <2>1. n \in 0..n
    BY <1>1
  <2>2. e \in Buffers
    BY <1>4, <2>1
  <2> QED
    BY <2>2 DEF Buffers
<1>10. e.size = b.size /\ e.out <= b.out + 3 * n /\ e.out < b.size
  BY <1>4, <1>8
<1> QED
  BY <1>9, <1>10 DEF e, n

(* A piece adds its length or nothing. *)
LEMMA PieceGrows ==
  ASSUME NEW b \in Buffers, NEW n \in Nat
  PROVE  /\ Piece(b, n) \in Buffers /\ Piece(b, n).size = b.size
         /\ Piece(b, n).out = b.out \/ Piece(b, n).out = b.out + n
<1>1. /\ Piece(b, n) \in Buffers /\ Piece(b, n).size = b.size
      /\ IF b.stop \/ n >= b.size - b.out
         THEN Piece(b, n).stop /\ Piece(b, n).out = b.out
         ELSE ~Piece(b, n).stop /\ Piece(b, n).out = b.out + n
  BY PieceFacts
<1> QED
  BY <1>1

(* The line of a hex dump: the title of a name and the first row fit. *)
LEMMA HexLineFits ==
  ASSUME NEW lv \in 0..MaxLevel, NEW t \in 0..MaxTitle, NEW len \in Nat
  PROVE  hexdump_line(lv, t, len) < LINE_LEN
<1> DEFINE b == Buffer(LINE_LEN)
           i == Indent(b, lv)
           title == Piece(i, t)
           j == Indent(title, lv)
           o == Unchecked(j, 9)
           m == IF len < 16 THEN len ELSE 16
           rest == [x \in 1..17 |-> 3] \o [x \in 1..(m + 1) |-> 1]
           e == FoldLeft(Piece, o, rest)
<1>1. b \in Buffers /\ b.size = 512 /\ b.out = 0
  BY DEF Buffer, Buffers, LINE_LEN
<1>2. lv \in Nat /\ lv <= 13 /\ t \in Nat /\ t <= 81
  BY DEF MaxLevel, MaxTitle
<1>3. [x \in 1..lv |-> 2] \in Seq(0..3) /\ Len([x \in 1..lv |-> 2]) = lv
  BY <1>2
<1>4. i \in Buffers /\ i.size = 512 /\ i.out \in Nat /\ i.out <= 39
  <2> HIDE DEF b
  <2>1. b.out < b.size
    BY <1>1
  <2>2. /\ i \in Buffers /\ i.size = b.size /\ i.out \in Nat
        /\ i.out <= b.out + 3 * Len([x \in 1..lv |-> 2])
    BY <1>1, <1>3, <2>1, ShortPieces DEF Indent
  <2> HIDE DEF i
  <2> QED
    BY <1>1, <1>2, <1>3, <2>2
<1>5. title \in Buffers /\ title.size = 512 /\ title.out \in Nat /\ title.out <= 120
  <2> HIDE DEF b, i, j, o, rest, e
  <2>0. i \in Buffers /\ t \in Nat
    BY <1>2, <1>4
  <2>1. /\ title \in Buffers /\ title.size = i.size
        /\ title.out = i.out \/ title.out = i.out + t
    BY ONLY <2>0, PieceGrows
  <2> HIDE DEF title
  <2> QED
    BY <1>2, <1>4, <2>1
<1>6. j \in Buffers /\ j.size = 512 /\ j.out \in Nat /\ j.out <= 159
  <2> HIDE DEF title
  <2>1. title.out < title.size
    BY <1>5
  <2>2. /\ j \in Buffers /\ j.size = title.size /\ j.out \in Nat
        /\ j.out <= title.out + 3 * Len([x \in 1..lv |-> 2])
    BY <1>3, <1>5, <2>1, ShortPieces DEF Indent
  <2> HIDE DEF j
  <2> QED
    BY <1>2, <1>3, <1>5, <2>2
<1>7. o \in Buffers /\ o.size = 512 /\ o.out \in Nat /\ o.out <= 168
  <2> HIDE DEF j
  <2> DEFINE u == [j EXCEPT !.out = @ + 9]
  <2>1. j.out + 9 \in Nat
    BY <1>6
  <2>2. u \in Buffers /\ u.size = j.size /\ u.out = j.out + 9
    BY <1>6, <2>1, Zenon DEF Buffers
  <2>3. o = j \/ o = u
    BY DEF Unchecked
  <2> HIDE DEF u, o
  <2> QED
    BY <1>6, <2>1, <2>2, <2>3
<1>8. rest \in Seq(0..3)
  <2>1. m \in Nat
    OBVIOUS
  <2> HIDE DEF m
  <2>2. [x \in 1..17 |-> 3] \in Seq(0..3) /\ [x \in 1..(m + 1) |-> 1] \in Seq(0..3)
    BY <2>1
  <2> QED
    BY <2>2
<1>9. e.out < 512
  <2> HIDE DEF o, rest
  <2>1. o.out < o.size
    BY <1>7
  <2> QED
    BY <1>7, <1>8, <2>1, ShortPieces
<1>10. hexdump_line(lv, t, len) = IF title.stop \/ len = 0 THEN title.out ELSE e.out
  BY Zenon DEF hexdump_line
<1>11. LINE_LEN = 512
  BY DEF LINE_LEN
<1> HIDE DEF title, e
<1> QED
  BY <1>5, <1>9, <1>10, <1>11

(* A hex dump is written by j_emit and y_emit, or in a line by res_put. *)
LEMMA FitsStep == EmitterInv /\ BuffersFit /\ [Next]_vars => BuffersFit'
<1> SUFFICES ASSUME EmitterInv, BuffersFit, [Next]_vars PROVE BuffersFit'
  OBVIOUS
<1>0. RAW_LEN > 0
  BY DEF RAW_LEN, LINE_LEN
<1>1. ASSUME NEW c, Value(c), outtype' # "txt" PROVE BuffersFit'
  <2>1. HexLens \subseteq Nat
    BY LensAssumption
  <2>2. raw' < RAW_LEN
    BY <1>0, <1>1, <2>1, HexFits DEF Value
  <2>3. ret' = ret /\ asked' = asked
    BY <1>1 DEF Value
  <2> QED
    BY <1>1, <2>2, <2>3 DEF BuffersFit
<1>2. CASE j_emit
  BY <1>1, <1>2 DEF j_emit, Consume
<1>3. CASE y_emit
  BY <1>1, <1>3 DEF y_emit, Consume
<1>4. CASE res_put
  <2> DEFINE c == Head(calls)
  <2>1. c.lv \in Nat /\ c.lv \in 0..MaxLevel
    <3>1. calls # <<>> /\ calls \in Seq(CallSet)
      BY <1>4 DEF res_put, Emitting, EmitterInv
    <3>2. c \in CallSet
      BY <3>1
    <3> HIDE DEF c
    <3> QED
      BY <3>2 DEF CallSet, MaxLevel
  <2>2. outtype' = "txt" /\ outtype = "txt" /\ IF c.key = "unknown" THEN HexLine(c) ELSE Line(c)
    BY <1>4 DEF res_put, Consume
  <2> HIDE DEF c
  <2>3. CASE Line(c)
    <3>1. PICK k \in Int, v \in Int : ret' = res_put_text(c.lv, k, v) /\ asked' = Total(TextPieces(c.lv, k, v))
      <4>1. TextLens \subseteq Int /\ {-1} \subseteq Int
        BY LensAssumption
      <4> QED
        BY <2>3, <4>1 DEF Line
    <3>2. raw' = raw
      BY <2>3 DEF Line
    <3>3. ret' <= LINE_LEN /\ (asked' < LINE_LEN => ret' = asked')
      BY <2>1, <3>1, TextFits
    <3> QED
      BY <2>2, <3>2, <3>3 DEF BuffersFit
  <2>4. CASE HexLine(c)
    <3>1. ret' = ret /\ asked' = asked
      BY <2>4 DEF HexLine
    <3>2. PICK t \in TitleLens, len \in HexLens : raw' = hexdump_line(c.lv, t, len)
      BY <2>4 DEF HexLine
    <3>3. t \in 0..MaxTitle /\ len \in Nat
      BY TitlesAssumption, LensAssumption
    <3>4. raw' < LINE_LEN
      BY <2>1, <3>2, <3>3, HexLineFits
    <3> QED
      BY <2>2, <3>1, <3>4 DEF BuffersFit
  <2> QED
    BY <2>2, <2>3, <2>4
<1>5. CASE UNCHANGED <<text, outtype>>
  BY <1>5 DEF text, BuffersFit
<1> QED
  BY <1>2, <1>3, <1>4, <1>5 DEF Next, vars, stackvars, res_open, res_open_fails, NextTable, res_close

(* For keys and values of any length a text line that fits is written whole
   and a longer one is cut at the end of buf, and the hex dump of a descriptor
   of any length, whose characters res_hexdump stores without a test
   (result.c:435), leaves room for the terminator in raw, and in the text
   format, where the offset of a row is added untested (result.c:474), in
   line. *)
THEOREM BuffersNeverOverflow == Spec => []BuffersFit
<1>1. Init => BuffersFit
  BY DEF Init, BuffersFit, RAW_LEN, LINE_LEN
<1>2. Spec => []EmitterInv
  BY InvHoldsInit, InvIsInductive, PTL DEF Spec
<1>3. EmitterInv /\ BuffersFit /\ [Next]_vars => BuffersFit'
  BY FitsStep
<1> QED
  BY <1>1, <1>2, <1>3, PTL DEF Spec
=============================================================================
