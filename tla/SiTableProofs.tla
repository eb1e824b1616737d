--------------------------- MODULE SiTableProofs ---------------------------
(***************************************************************************)
(* Proofs about the section parsers, for sections with any number of       *)
(* entries and any lengths in their fields: section_len keeps step with    *)
(* pdata in every loop it steers, a signed one stops the walk at the end   *)
(* of the section, the contents of the section before are replaced, a      *)
(* section that keeps to its syntax is read where its fields are, and the  *)
(* loops end.                                                              *)
(***************************************************************************)
EXTENDS SiTable, WellFoundedInduction, TLAPS

(* Induction over the positions of a sequence, with the set T of positions
   for which the claim holds *)
LEMMA IntervalInduction ==
  ASSUME NEW n \in Nat, NEW T, 0 \in T, \A i \in 1..n : i - 1 \in T => i \in T
  PROVE  \A i \in 0..n : i \in T
<1> DEFINE Bad == {i \in 0..n : i \notin T}
<1> SUFFICES ASSUME Bad # {} PROVE FALSE
  OBVIOUS
<1>1. Bad \subseteq Nat
  OBVIOUS
<1> HIDE DEF Bad
<1>2. PICK m \in Bad : \A j \in Bad : ~(<<j, m>> \in OpToRel(<, Nat))
  BY <1>1, WFMin, NatLessThanWellFounded, Zenon
<1>3. m \in 0..n /\ m \notin T
  BY DEF Bad
<1>4. m \in 1..n /\ m - 1 \in 0..n /\ m - 1 \in Nat /\ m - 1 < m /\ m \in Nat
  <2>1. m # 0
    BY <1>3
  <2> QED
    BY <1>3, <2>1
<1>5. <<m - 1, m>> \in OpToRel(<, Nat)
  BY <1>4 DEF OpToRel
<1>6. m - 1 \in T
  BY <1>2, <1>4, <1>5 DEF Bad
<1> QED
  BY <1>3, <1>4, <1>6

(* A function defined by recursion over 0..n exists. *)
Recursion(S, n, base, G) ==
  \E g \in [0..n -> S] : g[0] = base /\ \A i \in 1..n : g[i] = G[<<g[i - 1], i>>]

LEMMA RecursionExists ==
  ASSUME NEW S, NEW n \in Nat, NEW base \in S, NEW G \in [S \X (1..n) -> S]
  PROVE  Recursion(S, n, base, G)
<1> DEFINE Good(m, g) == g[0] = base /\ \A i \in 1..m : g[i] = G[<<g[i - 1], i>>]
           T == {m \in 0..n : \E g \in [0..m -> S] : Good(m, g)}
<1>1. 0 \in T
  <2> DEFINE g == [i \in 0..0 |-> base]
  <2>1. g \in [0..0 -> S]
    OBVIOUS
  <2>2. g[0] = base
    BY 0 \in 0..0
  <2>3. Good(0, g)
    BY <2>2
  <2> HIDE DEF g
  <2> QED
    BY <2>1, <2>3
<1>2. ASSUME NEW m \in 1..n, m - 1 \in T PROVE m \in T
  <2>1. PICK g \in [0..(m - 1) -> S] : Good(m - 1, g)
    BY <1>2
  <2>2. G[<<g[m - 1], m>>] \in S
    <3>1. m - 1 \in 0..(m - 1)
      OBVIOUS
    <3>2. g[m - 1] \in S
      BY <3>1
    <3> QED
      BY <3>2
  <2> DEFINE h == [i \in 0..m |-> IF i = m THEN G[<<g[m - 1], m>>] ELSE g[i]]
  <2>3. h \in [0..m -> S]
    <3> SUFFICES ASSUME NEW i \in 0..m, i # m PROVE g[i] \in S
      BY <2>2
    <3>1. i \in 0..(m - 1)
      OBVIOUS
    <3> QED
      BY <3>1
  <2>4. h[0] = base
    BY <2>1
  <2>5. ASSUME NEW i \in 1..m PROVE h[i] = G[<<h[i - 1], i>>]
    <3>0. i - 1 \in 0..m /\ i - 1 # m
      OBVIOUS
    <3>1. h[i - 1] = g[i - 1]
      BY <3>0
    <3>2. CASE i = m
      <4>1. h[m] = G[<<g[m - 1], m>>]
        BY m \in 0..m
      <4> HIDE DEF h
      <4> QED
        BY <3>1, <3>2, <4>1
    <3>3. CASE i # m
      <4>1. i \in 1..(m - 1) /\ h[i] = g[i]
        BY <3>3
      <4> QED
        BY <2>1, <3>1, <4>1
    <3> QED
      BY <3>2, <3>3
  <2>6. Good(m, h)
    BY <2>4, <2>5
  <2> HIDE DEF h, Good
  <2> QED
    BY <2>3, <2>6
<1>3. n \in T
  <2> HIDE DEF T
  <2>1. \A i \in 0..n : i \in T
    BY <1>1, <1>2, IntervalInduction
  <2> QED
    BY <2>1
<1> QED
  BY <1>3 DEF Recursion

-----------------------------------------------------------------------------
(* Folds and sums over sequences *)

(* A set of numbers up to n has a greatest one. *)
LEMMA GreatestElement ==
  ASSUME NEW n \in Nat, NEW S \in SUBSET (1..n), S # {}
  PROVE  \E i \in S : \A j \in (i+1)..n : j \notin S
<1> DEFINE T == {n - i : i \in S}
<1>1. T \subseteq Nat /\ T # {}
  <2>1. \A i \in S : n - i \in Nat
    OBVIOUS
  <2> QED
    BY <2>1
<1>2. \E x \in T : \A y \in T : ~(<<y, x>> \in OpToRel(<, Nat))
  BY <1>1, WFMin, NatLessThanWellFounded, Zenon
<1>3. ASSUME NEW x \in Nat, NEW y \in Nat, y < x
      PROVE  <<y, x>> \in OpToRel(<, Nat)
  BY <1>3 DEF OpToRel
<1>4. PICK x \in T : \A y \in T : ~(y < x)
  BY <1>1, <1>2, <1>3, Zenon
<1>5. PICK i \in S : x = n - i
  BY <1>4
<1>6. ASSUME NEW j \in (i+1)..n, j \in S PROVE FALSE
  <2>1. n - j \in T /\ n - j < n - i
    BY <1>6
  <2> QED
    BY <2>1, <1>4, <1>5
<1> QED
  BY <1>6

(* The greatest number of a set bounded by one of its members *)
LEMMA MaxOf ==
  ASSUME NEW m \in Nat, NEW s \in SUBSET (1..m), m \in s
  PROVE  Max(s) = m
<1>1. \A x \in s : (\A y \in s : x >= y) => x = m
  OBVIOUS
<1>2. \A y \in s : m >= y
  OBVIOUS
<1> QED
  BY <1>1, <1>2 DEF Max

(* A set of numbers that is bounded holds its greatest one. *)
LEMMA MaxIn ==
  ASSUME NEW n \in Nat, NEW s \in SUBSET (1..n), s # {}
  PROVE  Max(s) \in s
<1>1. PICK i \in s : \A j \in (i+1)..n : j \notin s
  BY GreatestElement
<1>2. \A y \in s : i >= y
  BY <1>1
<1> QED
  BY <1>2 DEF Max

(* A fold over a sequence of n elements, as FoldLeft goes through it: the
   function f of the sets of positions still to be folded exists. *)
Folding(S, n, base, G) ==
  \E f \in [SUBSET (1..n) -> S] :
    \A s \in SUBSET (1..n) : f[s] = IF s = {} THEN base ELSE G[<<f[s \ {Max(s)}], Max(s)>>]

(* A fold over 1..n is a function that satisfies its equations. *)
LEMMA FoldExists ==
  ASSUME NEW S, NEW n \in Nat, NEW base \in S, NEW G \in [S \X (1..n) -> S]
  PROVE  Folding(S, n, base, G)
<1> DEFINE Good(m, f) ==
             \A s \in SUBSET (1..m) : f[s] = IF s = {} THEN base ELSE G[<<f[s \ {Max(s)}], Max(s)>>]
           T == {m \in 0..n : \E f \in [SUBSET (1..m) -> S] : Good(m, f)}
<1>1. 0 \in T
  <2> DEFINE f == [s \in SUBSET (1..0) |-> base]
  <2>1. f \in [SUBSET (1..0) -> S] /\ Good(0, f)
    <3>1. \A s \in SUBSET (1..0) : s = {}
      OBVIOUS
    <3> QED
      BY <3>1
  <2>2. 0 \in 0..n
    OBVIOUS
  <2> HIDE DEF f, Good
  <2> QED
    BY <2>1, <2>2, Zenon
<1>2. ASSUME NEW m \in 1..n, m - 1 \in T PROVE m \in T
  <2>1. PICK f \in [SUBSET (1..(m - 1)) -> S] : Good(m - 1, f)
    BY <1>2
  <2> DEFINE h == [s \in SUBSET (1..m) |-> IF m \in s THEN G[<<f[s \ {m}], m>>] ELSE f[s]]
  <2>2. \A s \in SUBSET (1..m) : s \ {m} \in SUBSET (1..(m - 1)) /\ (m \notin s => s \in SUBSET (1..(m - 1)))
    OBVIOUS
  <2>3. h \in [SUBSET (1..m) -> S]
    <3> SUFFICES ASSUME NEW s \in SUBSET (1..m)
                 PROVE  (IF m \in s THEN G[<<f[s \ {m}], m>>] ELSE f[s]) \in S
      OBVIOUS
    <3>1. <<f[s \ {m}], m>> \in S \X (1..n)
      BY <2>2
    <3>2. G[<<f[s \ {m}], m>>] \in S
      BY <3>1
    <3> QED
      BY <2>2, <3>2
  <2>4. ASSUME NEW s \in SUBSET (1..m)
        PROVE  h[s] = IF s = {} THEN base ELSE G[<<h[s \ {Max(s)}], Max(s)>>]
    <3>1. CASE m \in s
      <4>1. Max(s) = m /\ s # {}
        BY <3>1, MaxOf
      <4>2. h[s] = G[<<f[s \ {m}], m>>]
        BY <3>1
      <4>3. s \ {m} \in SUBSET (1..m) /\ m \notin s \ {m}
        OBVIOUS
      <4>4. h[s \ {m}] = f[s \ {m}]
        BY <4>3
      <4> HIDE DEF h
      <4> QED
        BY <4>1, <4>2, <4>4
    <3>2. CASE m \notin s
      <4>1. s \in SUBSET (1..(m - 1))
        BY <2>2, <3>2
      <4>2. h[s] = f[s]
        BY <3>2
      <4>3. f[s] = IF s = {} THEN base ELSE G[<<f[s \ {Max(s)}], Max(s)>>]
        BY <2>1, <4>1
      <4>4. s \ {Max(s)} \in SUBSET (1..m) /\ m \notin s \ {Max(s)}
        BY <3>2
      <4>5. h[s \ {Max(s)}] = f[s \ {Max(s)}]
        BY <4>4
      <4> HIDE DEF h
      <4> QED
        BY <4>2, <4>3, <4>5
    <3> QED
      BY <3>1, <3>2
  <2>5. Good(m, h)
    BY <2>4
  <2> HIDE DEF h, Good
  <2> QED
    BY <2>3, <2>5
<1>3. n \in T
  <2> HIDE DEF T
  <2>1. \A i \in 0..n : i \in T
    BY <1>1, <1>2, IntervalInduction
  <2> QED
    BY <2>1
<1> QED
  BY <1>3 DEF Folding

(* What a fold of n steps leaves, by way of the states after each step *)
Traced(S, n, base, G, r) ==
  \E g \in [0..n -> S] :
    g[0] = base /\ r = g[n] /\ \A i \in 1..n : g[i] = G[<<g[i - 1], i>>]

(* The function FoldLeft chooses goes through the sequence step by step. *)
LEMMA FoldTrace ==
  ASSUME NEW S, NEW n \in Nat, NEW base \in S, NEW G \in [S \X (1..n) -> S], NEW iter,
         iter[{}] = base,
         \A s \in SUBSET (1..n) :
           s # {} /\ iter[s \ {Max(s)}] \in S => iter[s] = G[<<iter[s \ {Max(s)}], Max(s)>>]
  PROVE  Traced(S, n, base, G, iter[1..n])
<1> DEFINE g == [i \in 0..n |-> iter[1..i]]
           T == {i \in 0..n : g[i] \in S}
<1>1. g[0] = base /\ 0 \in T
  <2>1. 1..0 = {} /\ 0 \in 0..n
    OBVIOUS
  <2>2. g[0] = iter[1..0]
    BY <2>1
  <2> QED
    BY <2>1, <2>2
<1>2. ASSUME NEW i \in 1..n, i - 1 \in T PROVE g[i] = G[<<g[i - 1], i>>] /\ i \in T
  <2>1. /\ i \in 0..n /\ i - 1 \in 0..n /\ (1..i) \ {i} = 1..(i - 1)
        /\ i \in 1..i /\ 1..i \in SUBSET (1..n) /\ i \in Nat
    OBVIOUS
  <2>2. Max(1..i) = i /\ 1..i # {}
    BY <2>1, MaxOf
  <2>3. g[i] = iter[1..i] /\ g[i - 1] = iter[1..(i - 1)]
    BY <2>1
  <2>4. g[i - 1] \in S
    BY <1>2
  <2> HIDE DEF g
  <2>5. (1..i) \ {Max(1..i)} = 1..(i - 1)
    BY <2>1, <2>2
  <2>6. iter[1..i] = G[<<iter[1..(i - 1)], i>>]
    BY <2>1, <2>2, <2>3, <2>4, <2>5
  <2>7. G[<<g[i - 1], i>>] \in S
    BY <2>4
  <2> QED
    BY <2>1, <2>3, <2>6, <2>7
<1>3. \A i \in 0..n : i \in T
  <2> HIDE DEF T, g
  <2> QED
    BY <1>1, <1>2, IntervalInduction
<1>4. g \in [0..n -> S]
  BY <1>3
<1>5. \A i \in 1..n : g[i] = G[<<g[i - 1], i>>]
  <2>1. \A i \in 1..n : i - 1 \in 0..n
    OBVIOUS
  <2> HIDE DEF T, g
  <2> QED
    BY <1>2, <1>3, <2>1
<1>6. g[n] = iter[1..n]
  OBVIOUS
<1> HIDE DEF g
<1> QED
  BY <1>1, <1>4, <1>5, <1>6 DEF Traced

(* Listed adds up the descriptors one by one. *)
LEMMA ListedTrace ==
  ASSUME NEW ds \in Seq(Nat)
  PROVE  Traced(Nat, Len(ds), 0,
                [x \in Nat \X (1..Len(ds)) |-> x[1] + ds[x[2]] + 2],
                Listed(ds))
<1> DEFINE n == Len(ds)
           b == 0
           G == [x \in Nat \X (1..n) |-> x[1] + ds[x[2]] + 2]
           Eq(f) == f = [s \in SUBSET (DOMAIN ds) |->
                           IF s = {} THEN b ELSE f[s \ {Max(s)}] + ds[Max(s)] + 2]
           iter == CHOOSE f : Eq(f)
<1>0. n \in Nat /\ DOMAIN ds = 1..n
  OBVIOUS
<1>1. Listed(ds) = iter[1..n]
  <2>1. Listed(ds) = iter[DOMAIN ds]
    BY Zenon DEF FoldLeft, MapThenFoldSet, Listed
  <2> QED
    BY <1>0, <2>1, Zenon
<1>a. \A x \in Nat, i \in 1..n : x + ds[i] + 2 \in Nat
  <2>1. \A i \in 1..n : ds[i] \in Nat
    OBVIOUS
  <2>2. \A x \in Nat, d \in Nat : x + d + 2 \in Nat
    OBVIOUS
  <2> QED
    BY <2>1, <2>2
<1>2. G \in [Nat \X (1..n) -> Nat]
  BY <1>a
<1>3. \A x \in Nat, i \in 1..n : G[<<x, i>>] = x + ds[i] + 2
  BY Zenon
<1>b. b \in Nat
  OBVIOUS
<1> HIDE DEF n, G, b
<1>4. PICK f \in [SUBSET (1..n) -> Nat] :
        \A s \in SUBSET (1..n) : f[s] = IF s = {} THEN b ELSE G[<<f[s \ {Max(s)}], Max(s)>>]
  <2>1. Folding(Nat, n, b, G)
    BY <1>0, <1>2, <1>b, FoldExists
  <2> QED
    BY <2>1 DEF Folding
<1>5. \A s \in SUBSET (1..n) : s # {} => Max(s) \in 1..n
  BY <1>0, MaxIn
<1>6. Eq(f)
  <2>1. f = [s \in SUBSET (1..n) |-> f[s]]
    OBVIOUS
  <2>2. ASSUME NEW s \in SUBSET (1..n)
        PROVE  f[s] = IF s = {} THEN b ELSE f[s \ {Max(s)}] + ds[Max(s)] + 2
    <3>1. f[s \ {Max(s)}] \in Nat
      OBVIOUS
    <3> QED
      BY <1>3, <1>4, <1>5, <3>1, Zenon
  <2> QED
    BY <1>0, <2>1, <2>2, Zenon
<1>7. Eq(iter)
  <2> HIDE DEF Eq
  <2> QED
    BY <1>6
<1> HIDE DEF iter
<1>8. \A s \in SUBSET (1..n) :
        iter[s] = IF s = {} THEN b ELSE iter[s \ {Max(s)}] + ds[Max(s)] + 2
  <2>1. iter = [s \in SUBSET (1..n) |->
                  IF s = {} THEN b ELSE iter[s \ {Max(s)}] + ds[Max(s)] + 2]
    BY <1>0, <1>7, Zenon
  <2> QED
    BY <2>1, Zenon
<1>9. iter[{}] = b /\ \A s \in SUBSET (1..n) :
        s # {} /\ iter[s \ {Max(s)}] \in Nat => iter[s] = G[<<iter[s \ {Max(s)}], Max(s)>>]
  <2>1. {} \in SUBSET (1..n)
    OBVIOUS
  <2> QED
    BY <1>3, <1>5, <1>8, <2>1, Zenon
<1>10. Traced(Nat, n, b, G, iter[1..n])
  BY <1>0, <1>2, <1>9, <1>b, FoldTrace
<1> QED
  BY <1>1, <1>10, Zenon DEF n, G, b

(* walked passes one descriptor after the other. *)
LEMMA WalkedTrace ==
  ASSUME NEW len \in Nat, NEW ds \in Seq(Nat)
  PROVE  Traced(Nat, Len(ds), 0,
                [x \in Nat \X (1..Len(ds)) |-> walk(len, x[1], ds[x[2]])],
                walked(len, ds))
<1> DEFINE n == Len(ds)
           b == 0
           G == [x \in Nat \X (1..n) |-> walk(len, x[1], ds[x[2]])]
           Eq(f) == f = [s \in SUBSET (DOMAIN ds) |->
                           IF s = {} THEN b ELSE walk(len, f[s \ {Max(s)}], ds[Max(s)])]
           iter == CHOOSE f : Eq(f)
<1>0. n \in Nat /\ DOMAIN ds = 1..n
  OBVIOUS
<1>1. walked(len, ds) = iter[1..n]
  <2>1. walked(len, ds) = iter[DOMAIN ds]
    BY Zenon DEF FoldLeft, MapThenFoldSet, walked
  <2> QED
    BY <1>0, <2>1, Zenon
<1>a. \A x \in Nat, i \in 1..n : walk(len, x, ds[i]) \in Nat
  <2>1. \A i \in 1..n : ds[i] \in Nat
    OBVIOUS
  <2>2. \A x \in Nat, d \in Nat : x + d + 2 \in Nat
    OBVIOUS
  <2> QED
    BY <2>1, <2>2 DEF walk
<1>2. G \in [Nat \X (1..n) -> Nat]
  BY <1>a
<1>3. \A x \in Nat, i \in 1..n : G[<<x, i>>] = walk(len, x, ds[i])
  BY Zenon
<1>b. b \in Nat
  OBVIOUS
<1> HIDE DEF n, G, b
<1>4. PICK f \in [SUBSET (1..n) -> Nat] :
        \A s \in SUBSET (1..n) : f[s] = IF s = {} THEN b ELSE G[<<f[s \ {Max(s)}], Max(s)>>]
  <2>1. Folding(Nat, n, b, G)
    BY <1>0, <1>2, <1>b, FoldExists
  <2> QED
    BY <2>1 DEF Folding
<1>5. \A s \in SUBSET (1..n) : s # {} => Max(s) \in 1..n
  BY <1>0, MaxIn
<1>6. Eq(f)
  <2>1. f = [s \in SUBSET (1..n) |-> f[s]]
    OBVIOUS
  <2>2. ASSUME NEW s \in SUBSET (1..n)
        PROVE  f[s] = IF s = {} THEN b ELSE walk(len, f[s \ {Max(s)}], ds[Max(s)])
    <3>1. f[s \ {Max(s)}] \in Nat
      OBVIOUS
    <3> QED
      BY <1>3, <1>4, <1>5, <3>1, Zenon
  <2> QED
    BY <1>0, <2>1, <2>2, Zenon
<1>7. Eq(iter)
  <2> HIDE DEF Eq
  <2> QED
    BY <1>6
<1> HIDE DEF iter
<1>8. \A s \in SUBSET (1..n) :
        iter[s] = IF s = {} THEN b ELSE walk(len, iter[s \ {Max(s)}], ds[Max(s)])
  <2>1. iter = [s \in SUBSET (1..n) |->
                  IF s = {} THEN b ELSE walk(len, iter[s \ {Max(s)}], ds[Max(s)])]
    BY <1>0, <1>7, Zenon
  <2> QED
    BY <2>1, Zenon
<1>9. iter[{}] = b /\ \A s \in SUBSET (1..n) :
        s # {} /\ iter[s \ {Max(s)}] \in Nat => iter[s] = G[<<iter[s \ {Max(s)}], Max(s)>>]
  <2>1. {} \in SUBSET (1..n)
    OBVIOUS
  <2> QED
    BY <1>3, <1>5, <1>8, <2>1, Zenon
<1>10. Traced(Nat, n, b, G, iter[1..n])
  BY <1>0, <1>2, <1>9, <1>b, FoldTrace
<1> QED
  BY <1>1, <1>10, Zenon DEF n, G, b

(* A sequence of members of a set is one of members of a larger set. *)
LEMMA SeqWider ==
  ASSUME NEW A, NEW B, A \subseteq B, NEW q \in Seq(A)
  PROVE  q \in Seq(B)
  OBVIOUS

(* Numbers that rise from step to step *)
LEMMA Rising ==
  ASSUME NEW n \in Nat, NEW e, \A i \in 0..n : e[i] \in Nat, \A i \in 1..n : e[i - 1] <= e[i]
  PROVE  \A j \in 0..n : \A i \in 0..j : e[i] <= e[j]
<1> DEFINE T == {j \in 0..n : \A i \in 0..j : e[i] <= e[j]}
<1>1. 0 \in T
  OBVIOUS
<1>2. ASSUME NEW j \in 1..n, j - 1 \in T PROVE j \in T
  <2>1. \A i \in 0..(j - 1) : e[i] <= e[j - 1]
    BY <1>2
  <2>2. j \in 0..n /\ j - 1 \in 0..n /\ e[j] \in Nat /\ e[j - 1] \in Nat /\ e[j - 1] <= e[j]
    OBVIOUS
  <2>3. ASSUME NEW i \in 0..j PROVE e[i] <= e[j]
    <3>1. CASE i = j
      BY <2>2, <3>1
    <3>2. CASE i # j
      <4>1. i \in 0..(j - 1) /\ i \in 0..n
        BY <3>2
      <4>2. e[i] <= e[j - 1] /\ e[i] \in Nat
        BY <2>1, <4>1
      <4> QED
        BY <2>2, <4>2
    <3> QED
      BY <3>1, <3>2
  <2> QED
    BY <2>2, <2>3
<1> HIDE DEF T
<1>3. \A j \in 0..n : j \in T
  BY <1>1, <1>2, IntervalInduction
<1> QED
  BY <1>3 DEF T

-----------------------------------------------------------------------------
(* The sections are well formed. *)

Part == [code : Nat, sub : Nat, spec : Nat, var : BOOLEAN, bits : Nat, skip : BOOLEAN, desc : BOOLEAN]
Loop == [len : Nat, ds : Seq(0..255)]
Item == {x \in [part : Part, v : Loop] : ~x.part.var => x.v.len = 0}

(* An item's sizes are numbers. *)
LEMMA ItemFacts ==
  ASSUME NEW x \in Item
  PROVE  x.part.spec \in Nat /\ x.v.len \in Nat /\ x.part.spec + x.v.len \in Int
<1>1. PICK p \in Part, v \in Loop : x.part = p /\ x.v = v
  BY DEF Item
<1>2. p.spec \in Nat
  BY DEF Part
<1>3. v.len \in Nat
  BY DEF Loop
<1> QED
  BY <1>1, <1>2, <1>3

(* Where the syntax ends the parts: each part takes its fixed bytes and what
   its length says, and none ends behind the section. *)
EndsSound(ps) ==
  /\ SpecEnds(ps)[0] = 0
  /\ \A i \in 1..Len(ps) : SpecEnds(ps)[i] = SpecEnds(ps)[i - 1] + (ps[i].part.spec + ps[i].v.len)
  /\ \A i \in 0..Len(ps) : SpecEnds(ps)[i] \in Nat /\ SpecEnds(ps)[i] <= SpecSize(ps)

LEMMA SpecEndsFacts ==
  ASSUME NEW ps \in Seq(Item)
  PROVE  EndsSound(ps)
<1> DEFINE n == Len(ps)
           w == [i \in 1..n |-> ps[i].part.spec + ps[i].v.len]
           G == [x \in Nat \X (1..n) |-> x[1] + w[x[2]]]
           ends == SpecEnds(ps)
<1>1. n \in Nat /\ \A i \in 1..n : ps[i] \in Item
  OBVIOUS
<1>2. w \in [1..n -> Nat]
  <2> SUFFICES ASSUME NEW i \in 1..n PROVE ps[i].part.spec + ps[i].v.len \in Nat
    OBVIOUS
  <2>1. ps[i].part.spec \in Nat /\ ps[i].v.len \in Nat
    BY <1>1, ItemFacts
  <2> QED
    BY <2>1
<1>3. G \in [Nat \X (1..n) -> Nat]
  BY <1>2
<1>4. PICK g \in [0..n -> Nat] : g[0] = 0 /\ \A i \in 1..n : g[i] = G[<<g[i - 1], i>>]
  <2> HIDE DEF G, n
  <2>1. 0 \in Nat
    OBVIOUS
  <2>2. Recursion(Nat, n, 0, G)
    BY <1>1, <1>3, <2>1, RecursionExists
  <2> QED
    BY <2>2 DEF Recursion
<1>5. \A i \in 1..n : g[i] = g[i - 1] + (ps[i].part.spec + ps[i].v.len)
  <2> TAKE i \in 1..n
  <2>1. g[i - 1] \in Nat /\ <<g[i - 1], i>> \in Nat \X (1..n)
    BY <1>1, <1>4
  <2>2. G[<<g[i - 1], i>>] = g[i - 1] + w[i]
    BY <2>1
  <2> QED
    BY <1>4, <2>2
<1>6. g = [i \in 0..n |-> IF i = 0 THEN 0 ELSE g[i - 1] + (ps[i].part.spec + ps[i].v.len)]
  BY <1>1, <1>4, <1>5
<1>7. ends = [i \in 0..n |-> IF i = 0 THEN 0 ELSE ends[i - 1] + (ps[i].part.spec + ps[i].v.len)]
  BY <1>6 DEF SpecEnds
<1>a. \A i \in 1..n : w[i] = ps[i].part.spec + ps[i].v.len
  OBVIOUS
<1>8. /\ ends[0] = 0
      /\ \A i \in 1..n : ends[i] = ends[i - 1] + (ps[i].part.spec + ps[i].v.len)
  <2> HIDE DEF ends, w
  <2> QED
    BY <1>1, <1>7
<1> HIDE DEF ends, w, n
<1> DEFINE T == {j \in 0..n : ends[j] \in Nat}
<1>9. 0 \in T
  BY <1>1, <1>8
<1>10. ASSUME NEW i \in 1..n, i - 1 \in T PROVE i \in T
  <2>1. i \in 0..n /\ ends[i - 1] \in Nat /\ w[i] \in Nat
    BY <1>1, <1>2, <1>10
  <2>2. ends[i] = ends[i - 1] + w[i]
    BY <1>8, <1>a
  <2> QED
    BY <2>1, <2>2
<1>11. \A i \in 0..n : ends[i] \in Nat
  <2> HIDE DEF T
  <2>1. \A i \in 0..n : i \in T
    BY <1>1, <1>9, <1>10, IntervalInduction
  <2> QED
    BY <2>1 DEF T
<1>12. \A i \in 1..n : ends[i - 1] <= ends[i]
  <2> TAKE i \in 1..n
  <2>1. ends[i - 1] \in Nat /\ w[i] \in Nat
    BY <1>1, <1>2, <1>11
  <2>2. ends[i] = ends[i - 1] + w[i]
    BY <1>8, <1>a
  <2> QED
    BY <2>1, <2>2
<1>13. \A i \in 0..n : ends[i] <= ends[n]
  <2>1. \A j \in 0..n : \A i \in 0..j : ends[i] <= ends[j]
    BY <1>1, <1>11, <1>12, Rising
  <2> QED
    BY <1>1, <2>1, n \in 0..n
<1> QED
  BY <1>8, <1>11, <1>13 DEF EndsSound, SpecSize, ends, n

(* The syntax gives a sequence of parts an integral size. *)
LEMMA SpecSizeType ==
  ASSUME NEW ps \in Seq(Item)
  PROVE  SpecSize(ps) \in Int
<1>1. EndsSound(ps)
  BY SpecEndsFacts
<1>2. Len(ps) \in 0..Len(ps)
  OBVIOUS
<1>3. SpecEnds(ps)[Len(ps)] \in Nat
  BY <1>1, <1>2 DEF EndsSound
<1> QED
  BY <1>3 DEF SpecSize

(* FlattenSeq appends one sequence after the other. *)
Flattening(S, n, es) ==
  \E flat \in [1..n -> Seq(S)] :
    /\ flat[1] = es[1] /\ FlattenSeq(es) = flat[n]
    /\ \A i \in 2..n : flat[i] = flat[i - 1] \o es[i]

LEMMA FlattenSteps ==
  ASSUME NEW S, NEW n \in Nat, NEW es \in [1..n -> Seq(S)], n # 0
  PROVE  Flattening(S, n, es)
<1>1. Len(es) = n /\ es \in Seq(Seq(S))
  OBVIOUS
<1> DEFINE m == n - 1
           G == [x \in Seq(S) \X (1..m) |-> x[1] \o es[x[2] + 1]]
           Eq(f) == f = [i \in 1..n |-> IF i = 1 THEN es[i] ELSE f[i - 1] \o es[i]]
           flat == CHOOSE f : Eq(f)
<1>2. m \in Nat /\ es[1] \in Seq(S) /\ \A i \in 1..m : i + 1 \in 1..n /\ es[i + 1] \in Seq(S)
  OBVIOUS
<1>3. G \in [Seq(S) \X (1..m) -> Seq(S)]
  BY <1>2
<1>4. PICK g \in [0..m -> Seq(S)] : g[0] = es[1] /\ \A i \in 1..m : g[i] = G[<<g[i - 1], i>>]
  <2> HIDE DEF G, m
  <2>1. Recursion(Seq(S), m, es[1], G)
    BY <1>2, <1>3, RecursionExists
  <2> QED
    BY <2>1 DEF Recursion
<1> DEFINE f == [i \in 1..n |-> g[i - 1]]
<1>5. ASSUME NEW i \in 1..n, i # 1 PROVE f[i] = f[i - 1] \o es[i]
  <2>1. i - 1 \in 1..m /\ i - 1 \in 1..n /\ (i - 1) - 1 \in 0..m /\ (i - 1) + 1 = i
    BY <1>5
  <2>2. g[(i - 1) - 1] \in Seq(S)
    BY <2>1
  <2>3. g[i - 1] = G[<<g[(i - 1) - 1], i - 1>>]
    BY <1>4, <2>1
  <2>4. G[<<g[(i - 1) - 1], i - 1>>] = g[(i - 1) - 1] \o es[i]
    BY <2>1, <2>2
  <2>5. f[i] = g[i - 1] /\ f[i - 1] = g[(i - 1) - 1]
    BY <2>1
  <2> QED
    BY <2>3, <2>4, <2>5, Zenon
<1>6. f[1] = es[1]
  BY <1>2, <1>4
<1>7. Eq(f)
  <2> HIDE DEF f
  <2>1. f = [i \in 1..n |-> f[i]]
    BY DEF f
  <2> QED
    BY <1>5, <1>6, <2>1
<1>8. Eq(flat)
  <2> HIDE DEF f, Eq
  <2> QED
    BY <1>7
<1>9. FlattenSeq(es) = flat[n]
  BY <1>1 DEF FlattenSeq
<1> HIDE DEF flat, f, G
<1>10. flat[1] = es[1] /\ \A i \in 2..n : flat[i] = flat[i - 1] \o es[i]
  <2>1. 1 \in 1..n /\ \A i \in 2..n : i \in 1..n /\ i # 1
    OBVIOUS
  <2> QED
    BY <1>8, <2>1
<1>11. DOMAIN flat = 1..n /\ flat = [i \in 1..n |-> flat[i]]
  BY <1>8
<1> HIDE DEF Eq
<1> DEFINE T == {j \in 0..m : flat[j + 1] \in Seq(S)}
<1>12. 0 \in T
  BY <1>2, <1>10
<1>13. ASSUME NEW i \in 1..m, i - 1 \in T PROVE i \in T
  <2>1. flat[i] \in Seq(S) /\ i \in 0..m /\ i + 1 \in 2..n /\ (i + 1) - 1 = i
    <3>1. (i - 1) + 1 = i
      OBVIOUS
    <3> QED
      BY <1>13, <3>1
  <2>2. es[i + 1] \in Seq(S) /\ flat[i + 1] = flat[i] \o es[i + 1]
    BY <1>2, <1>10, <2>1
  <2>3. flat[i + 1] \in Seq(S)
    BY <2>1, <2>2
  <2> QED
    BY <2>1, <2>3
<1>14. \A i \in 1..n : flat[i] \in Seq(S)
  <2> HIDE DEF T
  <2>1. \A i \in 0..m : i \in T
    <3> HIDE DEF m
    <3> QED
      BY <1>2, <1>12, <1>13, IntervalInduction
  <2> TAKE i \in 1..n
  <2>2. i - 1 \in T /\ (i - 1) + 1 = i
    BY <2>1
  <2> QED
    BY <2>2 DEF T
<1>15. flat \in [1..n -> Seq(S)]
  BY <1>11, <1>14
<1> QED
  BY <1>9, <1>10, <1>15 DEF Flattening

(* Where the sequences stand in the flattened one: mark[i] elements come
   before and with the i-th. *)
Marked(S, n, es, mark) ==
  /\ mark \in [0..n -> Nat] /\ mark[0] = 0
  /\ FlattenSeq(es) \in Seq(S) /\ Len(FlattenSeq(es)) = mark[n]
  /\ \A i \in 1..n : /\ mark[i] = mark[i - 1] + Len(es[i]) /\ mark[i] <= mark[n]
                     /\ \A j \in 1..Len(es[i]) : FlattenSeq(es)[mark[i - 1] + j] = es[i][j]

LEMMA FlattenMarks ==
  ASSUME NEW S, NEW n \in Nat, NEW es \in [1..n -> Seq(S)]
  PROVE  \E mark : Marked(S, n, es, mark)
<1>1. Len(es) = n
  OBVIOUS
<1>2. CASE n = 0
  <2> DEFINE z == [i \in 0..n |-> 0]
  <2>1. FlattenSeq(es) = <<>>
    BY <1>1, <1>2 DEF FlattenSeq
  <2>2. <<>> \in Seq(S) /\ Len(<<>>) = 0 /\ z \in [0..n -> Nat] /\ z[0] = 0 /\ z[n] = 0 /\ 1..n = {}
    BY <1>2
  <2> HIDE DEF z
  <2> QED
    BY <2>1, <2>2 DEF Marked
<1>3. CASE n # 0
  <2>1. Flattening(S, n, es)
    BY <1>3, FlattenSteps
  <2>2. PICK flat \in [1..n -> Seq(S)] :
          /\ flat[1] = es[1] /\ FlattenSeq(es) = flat[n]
          /\ \A i \in 2..n : flat[i] = flat[i - 1] \o es[i]
    BY <2>1 DEF Flattening
  <2> DEFINE mark == [i \in 0..n |-> IF i = 0 THEN 0 ELSE Len(flat[i])]
  <2>3. \A i \in 1..n : flat[i] \in Seq(S) /\ Len(flat[i]) \in Nat /\ es[i] \in Seq(S) /\ Len(es[i]) \in Nat
    OBVIOUS
  <2>4. mark[0] = 0 /\ \A i \in 1..n : mark[i] = Len(flat[i])
    OBVIOUS
  <2>5. mark \in [0..n -> Nat]
    BY <2>3
  <2>6. n \in 1..n /\ 1 \in 1..n /\ n \in 0..n
    BY <1>3
  <2> HIDE DEF mark
  <2>7. ASSUME NEW i \in 1..n
        PROVE  /\ mark[i] = mark[i - 1] + Len(es[i])
               /\ \A j \in 1..Len(es[i]) : flat[i][mark[i - 1] + j] = es[i][j]
               /\ i # 1 => \A x \in 1..mark[i - 1] : flat[i][x] = flat[i - 1][x]
    <3>1. CASE i = 1
      <4>1. mark[i] = Len(es[1]) /\ mark[i - 1] = 0 /\ flat[i] = es[i]
        BY <2>2, <2>4, <3>1
      <4>2. \A j \in 1..Len(es[i]) : 0 + j = j
        OBVIOUS
      <4> QED
        BY <2>3, <3>1, <4>1, <4>2
    <3>2. CASE i # 1
      <4>1. i \in 2..n /\ i - 1 \in 1..n
        BY <3>2
      <4>2. flat[i] = flat[i - 1] \o es[i]
        BY <2>2, <4>1
      <4>3. mark[i] = Len(flat[i]) /\ mark[i - 1] = Len(flat[i - 1])
        BY <2>4, <4>1
      <4>4. flat[i - 1] \in Seq(S) /\ es[i] \in Seq(S)
        BY <2>3, <4>1
      <4> DEFINE a == flat[i - 1]
                 b == es[i]
      <4>5. /\ Len(a \o b) = Len(a) + Len(b)
            /\ \A j \in 1..Len(b) : (a \o b)[Len(a) + j] = b[j]
            /\ \A x \in 1..Len(a) : (a \o b)[x] = a[x]
        <5> HIDE DEF a, b
        <5>1. a \in Seq(S) /\ b \in Seq(S)
          BY <4>4 DEF a, b
        <5> QED
          BY <5>1
      <4> QED
        BY <4>2, <4>3, <4>5
    <3> QED
      BY <3>1, <3>2
  <2>8. \A i \in 1..n : mark[i - 1] <= mark[i]
    <3> TAKE i \in 1..n
    <3>1. mark[i - 1] \in Nat /\ Len(es[i]) \in Nat
      BY <2>3, <2>5
    <3> QED
      BY <2>7, <3>1
  <2>9. \A j \in 0..n : \A i \in 0..j : mark[i] <= mark[j]
    <3>1. \A i \in 0..n : mark[i] \in Nat
      BY <2>5
    <3> QED
      BY <2>8, <3>1, Rising
  <2> DEFINE Good(m) == \A i \in 1..m : \A j \in 1..Len(es[i]) : flat[m][mark[i - 1] + j] = es[i][j]
             T == {m \in 0..n : m = 0 \/ Good(m)}
  <2>10. 0 \in T
    BY <2>6
  <2>11. ASSUME NEW m \in 1..n, m - 1 \in T PROVE m \in T
    <3>1. ASSUME NEW i \in 1..m, NEW j \in 1..Len(es[i]) PROVE flat[m][mark[i - 1] + j] = es[i][j]
      <4>1. CASE i = m
        BY <2>7, <4>1
      <4>2. CASE i # m
        <5>1. m - 1 # 0 /\ i \in 1..(m - 1) /\ m # 1 /\ i \in 1..n /\ i \in 0..(m - 1) /\ m - 1 \in 0..n /\ i - 1 \in 0..n
          BY <4>2
        <5>2. flat[m - 1][mark[i - 1] + j] = es[i][j]
          BY <2>11, <5>1
        <5>3. mark[i] <= mark[m - 1] /\ mark[i] = mark[i - 1] + Len(es[i])
          BY <2>7, <2>9, <5>1
        <5>4. mark[i - 1] \in Nat /\ mark[m - 1] \in Nat /\ Len(es[i]) \in Nat
          BY <2>3, <2>5, <5>1
        <5>5. mark[i - 1] + j \in 1..mark[m - 1]
          <6>1. \A a, b, c \in Nat : \A x \in 1..b : a + b <= c => a + x \in 1..c
            OBVIOUS
          <6>2. mark[i - 1] + Len(es[i]) <= mark[m - 1]
            BY <5>3
          <6> QED
            BY <5>4, <6>1, <6>2, Zenon
        <5> QED
          BY <2>7, <5>1, <5>2, <5>5
      <4> QED
        BY <4>1, <4>2
    <3> QED
      BY <3>1
  <2>12. Good(n)
    <3> HIDE DEF T
    <3>1. \A m \in 0..n : m \in T
      BY <2>10, <2>11, IntervalInduction
    <3>2. n \in T
      BY <2>6, <3>1
    <3> QED
      BY <1>3, <3>2 DEF T
  <2>13. Len(FlattenSeq(es)) = mark[n] /\ FlattenSeq(es) \in Seq(S)
    BY <2>2, <2>3, <2>4, <2>6
  <2>14. \A i \in 1..n : mark[i] <= mark[n]
    BY <2>6, <2>9
  <2>15. Marked(S, n, es, mark)
    BY ONLY <2>2, <2>4, <2>5, <2>7, <2>12, <2>13, <2>14 DEF Marked
  <2> QED
    BY <2>15
<1> QED
  BY <1>2, <1>3

(* The parts a layout is made of *)
SoundLayout(lay) ==
  /\ lay.head \in Seq(Part) /\ lay.tail \in Seq(Part)
  /\ \A f \in lay.forms : f \in Seq(Part)

LEMMA PartTypes ==
  /\ \A n \in Nat : P(n) \in Part /\ X(n) \in Part /\ D(n) \in Part
  /\ \A p \in Part, w \in Nat : Bits(w, p) \in Part /\ Stays(p) \in Part
<1>1. \A n \in Nat : P(n) \in Part /\ X(n) \in Part /\ D(n) \in Part
  BY DEF P, X, D, Part
<1>2. \A p \in Part, w \in Nat : Bits(w, p) \in Part /\ Stays(p) \in Part
  BY DEF Bits, Stays, Part
<1> QED
  BY <1>1, <1>2

(* What a length field says is a loop, and within the bits that are kept. *)
LEMMA ValuesType ==
  ASSUME NEW p, NEW v \in Values(p)
  PROVE  /\ v \in Loop /\ v.len \in Nat
         /\ p.bits = 12 => v.len <= 4095
         /\ ~p.var => v.len = 0
<1>1. CASE p.var
  <2>1. PICK u \in Loops : v = [len |-> u.len % Kept(p.bits), ds |-> u.ds]
    BY <1>1 DEF Values
  <2>2. u \in [len : Nat, ds : Seq(0..255)]
    BY LoopsAssumption
  <2>3. u.len \in Nat /\ u.ds \in Seq(0..255)
    BY <2>2
  <2>4. Kept(p.bits) \in Nat \ {0} /\ (p.bits = 12 => Kept(p.bits) = 4096)
    BY DEF Kept
  <2>5. u.len % Kept(p.bits) \in Nat /\ u.len % Kept(p.bits) < Kept(p.bits)
    BY <2>3, <2>4
  <2> QED
    BY <1>1, <2>1, <2>3, <2>4, <2>5 DEF Loop
<1>2. CASE ~p.var
  <2>1. v = Nothing
    BY <1>2 DEF Values
  <2> QED
    BY <2>1 DEF Nothing, Loop
<1> QED
  BY <1>1, <1>2

(* Parts filled with loops are items. *)
LEMMA FilledType ==
  ASSUME NEW parts \in Seq(Part), NEW h \in Filled(parts)
  PROVE  h \in Seq(Item)
<1>1. PICK vs \in [DOMAIN parts -> UNION {Values(parts[i]) : i \in DOMAIN parts}] :
        /\ \A i \in DOMAIN parts : vs[i] \in Values(parts[i])
        /\ h = [i \in DOMAIN parts |-> [part |-> parts[i], v |-> vs[i]]]
  BY DEF Filled
<1>2. DOMAIN parts = 1..Len(parts) /\ Len(parts) \in Nat
  OBVIOUS
<1>3. \A i \in 1..Len(parts) : vs[i] \in Loop /\ (~parts[i].var => vs[i].len = 0)
  BY <1>1, <1>2, ValuesType
<1>4. \A i \in 1..Len(parts) : [part |-> parts[i], v |-> vs[i]] \in Item
  BY <1>3 DEF Item
<1> QED
  BY <1>1, <1>2, <1>4

(* The entries of a section: n of them, and how many where that is fixed *)
LEMMA EntryCount ==
  ASSUME NEW lay, NEW es \in EntrySeqs(lay)
  PROVE  \E n \in Nat : /\ es \in [1..n -> Entries(lay)]
                        /\ lay.loop = "none" => n = 0
                        /\ lay.loop \in {"all", "stt"} => n = 1
<1>1. CASE lay.loop = "none"
  <2>1. es = <<>>
    BY <1>1 DEF EntrySeqs
  <2>2. es \in [1..0 -> Entries(lay)]
    BY <2>1
  <2>3. 0 \in Nat
    OBVIOUS
  <2> QED
    BY <1>1, <2>2, <2>3
<1>2. CASE lay.loop \in {"all", "stt"}
  <2>1. PICK x \in Entries(lay) : es = <<x>>
    BY <1>2 DEF EntrySeqs
  <2>2. es \in [1..1 -> Entries(lay)]
    BY <2>1
  <2>3. 1 \in Nat
    OBVIOUS
  <2> QED
    BY <1>2, <2>2, <2>3
<1>3. CASE lay.loop # "none" /\ lay.loop \notin {"all", "stt"}
  <2>1. PICK m \in 0..MaxEntries : es \in [1..m -> Entries(lay)]
    BY <1>3 DEF EntrySeqs
  <2>2. m \in Nat
    BY BoundsAssumption
  <2> QED
    BY <1>3, <2>1, <2>2
<1> QED
  BY <1>1, <1>2, <1>3

(* Every section has an integral claimed length. *)
LEMMA SectionType ==
  ASSUME NEW lay, SoundLayout(lay), NEW s \in Sections(lay)
  PROVE  s.claimed \in Int
<1>1. PICK h \in Filled(lay.head), es \in EntrySeqs(lay), t \in Filled(lay.tail), e \in Errors :
        s = Section(h, es, t, e)
  BY DEF Sections
<1>2. h \in Seq(Item) /\ t \in Seq(Item)
  BY FilledType DEF SoundLayout
<1>3. FlattenSeq(es) \in Seq(Item)
  <2>1. PICK n \in Nat : es \in [1..n -> Entries(lay)]
    BY EntryCount
  <2>2. Entries(lay) \subseteq Seq(Item)
    BY FilledType DEF Entries, SoundLayout
  <2>3. es \in [1..n -> Seq(Item)]
    BY <2>1, <2>2
  <2>4. PICK mark : Marked(Item, n, es, mark)
    BY <2>3, FlattenMarks
  <2> QED
    BY <2>4 DEF Marked
<1>4. h \o FlattenSeq(es) \o t \in Seq(Item)
  BY <1>2, <1>3
<1>5. SpecSize(h \o FlattenSeq(es) \o t) \in Int
  BY <1>4, SpecSizeType
<1>6. s.claimed = SpecSize(h \o FlattenSeq(es) \o t) + e
  BY <1>1 DEF Section
<1> QED
  BY <1>5, <1>6, ErrorsAssumption

-----------------------------------------------------------------------------
(* What the layouts have in common *)

(* The tables whose loop section_len steers, EIT apart, and among them those
   whose counter is signed and whose lengths cannot overflow it *)
Steered == {"PAT", "PMT", "NIT", "BAT", "SDT"}
Signed == {"PMT", "BAT", "SDT"}

TightPart == {p \in Part : p.sub = p.code /\ (p.skip \/ ~p.var)}
ShortPart == {p \in TightPart : p.code <= 6 /\ (p.var => p.bits = 12)}

LEMMA ConstantParts ==
  /\ \A n \in Nat : P(n) \in TightPart /\ D(n) \in TightPart /\ Bits(16, D(n)) \in TightPart
  /\ \A n \in 0..6 : P(n) \in ShortPart /\ D(n) \in ShortPart
<1>1. \A n \in Nat : P(n) \in Part /\ D(n) \in Part /\ Bits(16, D(n)) \in Part
  BY PartTypes
<1>2. /\ \A n : ~P(n).var /\ D(n).skip /\ Bits(16, D(n)).skip
      /\ \A n : P(n).sub = P(n).code /\ D(n).sub = D(n).code /\ Bits(16, D(n)).sub = Bits(16, D(n)).code
  BY DEF P, D, Bits
<1>3. \A n : P(n).code = n /\ D(n).code = n /\ D(n).bits = 12
  BY DEF P, D
<1>4. \A n \in 0..6 : n \in Nat /\ n <= 6
  OBVIOUS
<1> QED
  BY <1>1, <1>2, <1>3, <1>4 DEF TightPart, ShortPart

(* Sequences of one and of two elements *)
LEMMA OneTwo ==
  ASSUME NEW S
  PROVE  /\ \A x \in S : <<x>> \in Seq(S) /\ Len(<<x>>) = 1
         /\ \A x, y \in S : <<x, y>> \in Seq(S) /\ Len(<<x, y>>) = 2
  OBVIOUS

(* What a layout says of the list: which loop fills it, whether the entries of
   the section before are dropped, and whether their descriptors are freed *)
Says(t, loop, clears, frees) ==
  LayoutOf(t).loop = loop /\ LayoutOf(t).clears = clears /\ LayoutOf(t).frees = frees

LEMMA LayoutsSay ==
  /\ Says("PAT", "u16", FALSE, TRUE)
  /\ Says("CAT", "all", TRUE, TRUE) /\ Says("TSDT", "all", TRUE, TRUE)
  /\ Says("PMT", "s16", TRUE, TRUE)
  /\ Says("NIT", "s16", TRUE, FALSE) /\ Says("BAT", "s16", TRUE, FALSE)
  /\ Says("SDT", "s16", TRUE, TRUE) /\ Says("EIT", "u16", FALSE, TRUE)
  /\ Says("TDT", "none", TRUE, TRUE) /\ Says("TOT", "none", TRUE, TRUE)
  /\ Says("MGT", "count", TRUE, TRUE)
  /\ Says("TVCT", "count", TRUE, TRUE) /\ Says("CVCT", "count", TRUE, TRUE)
  /\ Says("RRT", "count", TRUE, TRUE) /\ Says("ETT", "none", TRUE, TRUE)
  /\ Says("ATSC EIT", "count", TRUE, TRUE) /\ Says("STT", "stt", TRUE, TRUE)
  /\ Says("DCCT", "count", FALSE, FALSE) /\ Says("DCCSCT", "count", FALSE, FALSE)
  /\ Says("SCTE", "none", TRUE, TRUE)
<1>1. /\ LayoutOf("PAT") = parse_pat /\ LayoutOf("CAT") = parse_cat
      /\ LayoutOf("TSDT") = parse_tsdt /\ LayoutOf("PMT") = parse_pmt
      /\ LayoutOf("NIT") = parse_nit /\ LayoutOf("BAT") = parse_bat
      /\ LayoutOf("SDT") = parse_sdt /\ LayoutOf("EIT") = parse_eit
      /\ LayoutOf("TDT") = parse_tdt /\ LayoutOf("TOT") = parse_tot
      /\ LayoutOf("MGT") = parse_mgt
      /\ LayoutOf("TVCT") = parse_vct(FALSE) /\ LayoutOf("CVCT") = parse_vct(TRUE)
  BY DEF LayoutOf
<1>2. /\ LayoutOf("RRT") = parse_rrt /\ LayoutOf("ETT") = parse_ett /\ LayoutOf("STT") = parse_stt
      /\ LayoutOf("DCCT") = parse_dcct /\ LayoutOf("DCCSCT") = parse_dccsct
      /\ LayoutOf("SCTE") = parse_splice_info
  BY DEF LayoutOf
<1>3. /\ Says("PAT", "u16", FALSE, TRUE) /\ Says("CAT", "all", TRUE, TRUE)
      /\ Says("TSDT", "all", TRUE, TRUE) /\ Says("PMT", "s16", TRUE, TRUE)
  BY <1>1 DEF Says, Layout, parse_pat, parse_cat, parse_tsdt, parse_pmt
<1>4. /\ Says("NIT", "s16", TRUE, FALSE) /\ Says("BAT", "s16", TRUE, FALSE)
      /\ Says("SDT", "s16", TRUE, TRUE) /\ Says("EIT", "u16", FALSE, TRUE)
      /\ Says("TDT", "none", TRUE, TRUE) /\ Says("TOT", "none", TRUE, TRUE)
  BY <1>1 DEF Says, Layout, parse_nit, parse_bat, parse_sdt, parse_eit, parse_tdt, parse_tot
<1>5. Says("MGT", "count", TRUE, TRUE)
  BY <1>1 DEF Says, Layout, parse_mgt
<1>6. Says("TVCT", "count", TRUE, TRUE) /\ Says("CVCT", "count", TRUE, TRUE)
  <2>1. \A c : parse_vct(c).loop = "count" /\ parse_vct(c).clears = TRUE /\ parse_vct(c).frees = TRUE
    BY DEF Layout, parse_vct
  <2> QED
    BY <1>1, <2>1, Zenon DEF Says
<1>7. Says("RRT", "count", TRUE, TRUE) /\ Says("ETT", "none", TRUE, TRUE)
  BY <1>2 DEF Says, Layout, parse_rrt, parse_ett
<1>8. Says("STT", "stt", TRUE, TRUE) /\ Says("SCTE", "none", TRUE, TRUE)
  BY <1>2 DEF Says, Layout, parse_stt, parse_splice_info
<1>9. Says("DCCT", "count", FALSE, FALSE)
  BY <1>2 DEF Says, Layout, parse_dcct
<1>10. Says("DCCSCT", "count", FALSE, FALSE)
  BY <1>2 DEF Says, Layout, parse_dccsct
<1>11. Says("ATSC EIT", "count", TRUE, TRUE)
  <2>1. LayoutOf("ATSC EIT") = parse_atsc_eit
    BY Zenon DEF LayoutOf
  <2>2. /\ parse_atsc_eit.loop = "count" /\ parse_atsc_eit.clears = TRUE
        /\ parse_atsc_eit.frees = TRUE
    BY DEF Layout, parse_atsc_eit
  <2> QED
    BY <2>1, <2>2, Zenon DEF Says
<1> QED
  BY <1>3, <1>4, <1>5, <1>6, <1>7, <1>8, <1>9, <1>10, <1>11, Zenon

(* The layouts of the steered tables: every variable part is skipped, and
   there is nothing behind the loop. *)
SteeredLayout(lay) ==
  /\ lay.head \in Seq(TightPart) /\ lay.tail = <<>>
  /\ \A f \in lay.forms : f \in Seq(TightPart)
ShortLayout(lay) ==
  /\ lay.head \in Seq(ShortPart) /\ Len(lay.head) <= 2
  /\ \A f \in lay.forms : f \in Seq(ShortPart) /\ Len(f) = 1

LEMMA SteeredLayouts ==
  ASSUME NEW t \in Steered
  PROVE  SteeredLayout(LayoutOf(t)) /\ (t \in Signed => ShortLayout(LayoutOf(t)))
<1>1. /\ \A n \in Nat : P(n) \in TightPart /\ D(n) \in TightPart /\ Bits(16, D(n)) \in TightPart
      /\ \A n \in 0..6 : P(n) \in ShortPart /\ D(n) \in ShortPart
  BY ConstantParts
<1>2. /\ {P(3), P(4), P(2), D(4), D(5), D(2), D(6), Bits(16, D(6))} \subseteq TightPart
      /\ {P(3), P(2), D(4), D(5), D(2), D(6)} \subseteq ShortPart
  BY <1>1
<1> DEFINE One(p) == <<p>>
           Two(p, q) == <<p, q>>
<1>3. /\ \A p \in TightPart : One(p) \in Seq(TightPart)
      /\ \A p, q \in TightPart : Two(p, q) \in Seq(TightPart)
      /\ \A p \in ShortPart : One(p) \in Seq(ShortPart) /\ Len(One(p)) = 1
      /\ \A p, q \in ShortPart : Two(p, q) \in Seq(ShortPart) /\ Len(Two(p, q)) = 2
      /\ <<>> \in Seq(TightPart)
  BY OneTwo
<1>4. /\ LayoutOf("PAT") = parse_pat /\ LayoutOf("PMT") = parse_pmt /\ LayoutOf("NIT") = parse_nit
      /\ LayoutOf("BAT") = parse_bat /\ LayoutOf("SDT") = parse_sdt
  BY DEF LayoutOf
<1>5. /\ parse_pat.head = <<>> /\ parse_pat.forms = {One(P(4))} /\ parse_pat.tail = <<>>
      /\ parse_pmt.head = One(D(4)) /\ parse_pmt.forms = {One(D(5))} /\ parse_pmt.tail = <<>>
      /\ parse_nit.head = Two(D(2), P(2)) /\ parse_nit.forms = {One(Bits(16, D(6)))}
      /\ parse_nit.tail = <<>>
      /\ parse_bat.head = Two(D(2), P(2)) /\ parse_bat.forms = {One(D(6))} /\ parse_bat.tail = <<>>
      /\ parse_sdt.head = One(P(3)) /\ parse_sdt.forms = {One(D(5))} /\ parse_sdt.tail = <<>>
  BY DEF Layout, parse_pat, parse_pmt, parse_nit, parse_bat, parse_sdt
<1> HIDE DEF One, Two
<1>6. /\ One(P(4)) \in Seq(TightPart) /\ One(D(4)) \in Seq(TightPart) /\ One(D(5)) \in Seq(TightPart)
      /\ One(D(6)) \in Seq(TightPart) /\ One(P(3)) \in Seq(TightPart)
      /\ One(Bits(16, D(6))) \in Seq(TightPart) /\ Two(D(2), P(2)) \in Seq(TightPart)
  BY <1>2, <1>3, Zenon
<1>7. /\ One(D(4)) \in Seq(ShortPart) /\ Len(One(D(4))) = 1
      /\ One(D(5)) \in Seq(ShortPart) /\ Len(One(D(5))) = 1
      /\ One(D(6)) \in Seq(ShortPart) /\ Len(One(D(6))) = 1
      /\ One(P(3)) \in Seq(ShortPart) /\ Len(One(P(3))) = 1
      /\ Two(D(2), P(2)) \in Seq(ShortPart) /\ Len(Two(D(2), P(2))) = 2
  BY <1>2, <1>3, Zenon
<1>8. /\ SteeredLayout(parse_pat) /\ SteeredLayout(parse_pmt) /\ SteeredLayout(parse_nit)
      /\ SteeredLayout(parse_bat) /\ SteeredLayout(parse_sdt)
  BY <1>3, <1>5, <1>6 DEF SteeredLayout
<1>9. ShortLayout(parse_pmt) /\ ShortLayout(parse_bat) /\ ShortLayout(parse_sdt)
  <2>1. 1 <= 2 /\ 2 <= 2
    OBVIOUS
  <2> QED
    BY <1>5, <1>7, <2>1, Zenon DEF ShortLayout
<1> QED
  BY <1>4, <1>8, <1>9 DEF Steered, Signed

(* What the code does to the list, and the tables it does not do it to *)
LEMMA TableFacts ==
  ASSUME NEW t \in AllTables
  PROVE  LET lay == LayoutOf(t) IN
         /\ lay.loop \in {"s16", "u16"} /\ t \notin Misread => t \in Steered
         /\ t \in Steered => lay.loop \in {"s16", "u16"} /\ (t \in Signed => lay.loop = "s16")
         /\ lay.loop = "stt" => t = "STT"
         /\ lay.clears \/ lay.loop = "count" \/ t \in {"PAT", "EIT"}
         /\ lay.frees \/ t \in {"NIT", "BAT", "DCCT", "DCCSCT"}
  BY LayoutsSay DEF Says, AllTables, Misread, Steered, Signed

(* A steered layout is made of parts. *)
LEMMA SteeredSound ==
  ASSUME NEW lay, SteeredLayout(lay)
  PROVE  SoundLayout(lay)
<1>1. TightPart \subseteq Part
  BY DEF TightPart
<1>2. \A x \in Seq(TightPart) : x \in Seq(Part)
  BY <1>1
<1>3. <<>> \in Seq(Part)
  OBVIOUS
<1> QED
  BY <1>2, <1>3 DEF SteeredLayout, SoundLayout

(* Deducting in the width of the counter is deducting, in that width. *)
LEMMA Len16Minus ==
  ASSUME NEW lay, NEW a \in Int, NEW b \in Int
  PROVE  Len16(lay, Len16(lay, a) - b) = Len16(lay, a - b)
  BY DEF Len16, Int16, UInt16

(* A number in the range of an int16_t is kept. *)
LEMMA Int16Small ==
  ASSUME NEW a \in Int, -32768 <= a, a <= 32767
  PROVE  Int16(a) = a
  BY DEF Int16

-----------------------------------------------------------------------------
(* section_len and pdata *)

KnownTables == Tables \subseteq AllTables

(* Behind the fields of its header a section has at most what a section_length
   of 12 bits leaves, and at least nothing less the largest header; the bounds
   are wider than that. *)
FitsCounter(x) == -16384 <= x /\ x <= 16383
LengthField ==
  \A t \in Tables \cap Signed : \A s \in Sections(LayoutOf(t)) : FitsCounter(s.claimed)

(* The inductive invariant: between the parts of a steered table, too, the
   counter is the distance to the end; and the parts still to be read cannot
   take a signed one out of its range. *)
Apart == sec.claimed - pdata
Walking == pc = "parts" \/ pc = "loop"
Fixed == table \in Tables /\ sec \in Sections(LayoutOf(table))
InStepInv ==
  table \in Steered =>
    /\ pdata \in Int /\ (after = "loop" \/ after = "done")
    /\ pc = "parts" => todo \in Seq(TightPart)
    /\ Walking => section_len = Len16(L, Apart)
StopsInv ==
  table \in Signed =>
    /\ pc # "lost"
    /\ pc = "parts" => todo \in Seq(ShortPart) /\ Apart >= -24586 + 4101 * Len(todo)
    /\ Walking => pdata >= 0 /\ Apart >= -24586

(* The length a section of a steered table claims is a number. *)
LEMMA SteeredFacts ==
  ASSUME KnownTables, Fixed, table \in Steered
  PROVE  /\ sec.claimed \in Int /\ SteeredLayout(L)
         /\ L.loop = "s16" \/ L.loop = "u16"
         /\ table \in Signed => L.loop = "s16" /\ ShortLayout(L)
         /\ LengthField /\ table \in Signed => FitsCounter(sec.claimed)
<1>1. table \in AllTables
  BY DEF KnownTables, Fixed
<1>2. SteeredLayout(L) /\ (table \in Signed => ShortLayout(L))
  BY SteeredLayouts DEF L
<1>3. (L.loop = "s16" \/ L.loop = "u16") /\ (table \in Signed => L.loop = "s16")
  BY <1>1, TableFacts DEF L
<1>4. sec.claimed \in Int
  <2>1. SoundLayout(L)
    BY <1>2, SteeredSound
  <2>2. sec \in Sections(L)
    BY DEF Fixed, L
  <2> QED
    BY <2>1, <2>2, SectionType
<1>5. LengthField /\ table \in Signed => FitsCounter(sec.claimed)
  BY Zenon DEF LengthField, Fixed
<1> QED
  BY <1>2, <1>3, <1>4, <1>5, Zenon

(* A part of a steered table: as many bytes are skipped as are deducted, and
   they are few. *)
LEMMA PartBytes ==
  ASSUME NEW p \in TightPart, NEW v \in Values(p)
  PROVE  /\ p.code \in Nat /\ v.len \in Nat
         /\ p.code + (IF p.skip THEN v.len ELSE 0) = Deducted(p, v)
         /\ Deducted(p, v) \in Nat
         /\ p \in ShortPart => Deducted(p, v) <= 4101
<1>1. p \in Part /\ (p.skip \/ ~p.var) /\ p.sub = p.code
  BY DEF TightPart
<1>2. p.code \in Nat
  BY <1>1 DEF Part
<1>3. v.len \in Nat /\ (p.bits = 12 => v.len <= 4095) /\ (~p.var => v.len = 0)
  BY ValuesType
<1>4. p \in ShortPart => p.code <= 6 /\ (p.var => p.bits = 12)
  BY DEF ShortPart
<1>5. Deducted(p, v) = p.code + v.len
  BY <1>1 DEF Deducted
<1>6. p.code + (IF p.skip THEN v.len ELSE 0) = p.code + v.len
  BY <1>1, <1>3
<1>7. p \in ShortPart => p.code + v.len <= 4101
  BY <1>2, <1>3, <1>4
<1> QED
  BY <1>2, <1>3, <1>5, <1>6, <1>7

(* The table and the section stay. *)
LEMMA FixedInductive ==
  ASSUME Fixed, [Next]_vars
  PROVE  Fixed' /\ table' = table /\ sec' = sec /\ L' = L
<1>1. table' = table /\ sec' = sec
  BY DEF Next, vars, Begin, Refuse, ReadPart, PartsDone, NextEntry, Alloc_fails, Lost, Cut, Stuffing,
         AllDescriptors, SttLoop, LoopDone, NextSection
<1> QED
  BY <1>1 DEF Fixed, L

LEMMA InStepInductive ==
  ASSUME KnownTables, Fixed, InStepInv, [Next]_vars
  PROVE  InStepInv'
<1> SUFFICES ASSUME table \in Steered
             PROVE  /\ pdata' \in Int /\ (after' = "loop" \/ after' = "done")
                    /\ pc' = "parts" => todo' \in Seq(TightPart)
                    /\ Walking' => section_len' = Len16(L, sec.claimed - pdata')
  BY FixedInductive DEF InStepInv, Apart
<1>1. /\ sec.claimed \in Int /\ SteeredLayout(L)
      /\ L.loop = "s16" \/ L.loop = "u16"
  BY SteeredFacts
<1>2. /\ pdata \in Int /\ (after = "loop" \/ after = "done")
      /\ pc = "parts" => todo \in Seq(TightPart)
      /\ Walking => section_len = Len16(L, sec.claimed - pdata)
  BY DEF InStepInv, Apart
<1>3. CASE Begin
  <2>1. /\ pdata' = 0 /\ after' = "loop" /\ todo' = L.head /\ section_len' = Len16(L, sec.claimed)
    BY <1>3 DEF Begin
  <2>2. L.head \in Seq(TightPart) /\ sec.claimed - 0 = sec.claimed
    BY <1>1 DEF SteeredLayout
  <2> QED
    BY <2>1, <2>2
<1>4. CASE ReadPart
  <2>1. /\ pc = "parts" /\ todo # <<>> /\ todo' = Tail(todo)
        /\ after' = after
        /\ \E v \in Values(Head(todo)) :
             /\ pdata' = pdata + Head(todo).code + (IF Head(todo).skip THEN v.len ELSE 0)
             /\ section_len' = Len16(L, section_len - Deducted(Head(todo), v))
    BY <1>4 DEF ReadPart
  <2>2. Head(todo) \in TightPart /\ Tail(todo) \in Seq(TightPart)
    BY <1>2, <2>1
  <2>3. PICK v \in Values(Head(todo)) :
             /\ pdata' = pdata + Head(todo).code + (IF Head(todo).skip THEN v.len ELSE 0)
             /\ section_len' = Len16(L, section_len - Deducted(Head(todo), v))
    BY <2>1
  <2> DEFINE d == Deducted(Head(todo), v)
             x == IF Head(todo).skip THEN v.len ELSE 0
  <2>4. d \in Nat /\ Head(todo).code \in Nat /\ v.len \in Nat /\ Head(todo).code + x = d
    BY <2>2, PartBytes
  <2>5. x \in Nat
    BY <2>4
  <2>6. pdata' = pdata + d
    <3> HIDE DEF d, x
    <3>1. pdata' = pdata + Head(todo).code + x
      BY <2>3 DEF x
    <3> QED
      BY <1>2, <2>4, <2>5, <3>1
  <2>7. section_len = Len16(L, sec.claimed - pdata)
    BY <1>2, <2>1 DEF Walking
  <2>8. section_len' = Len16(L, (sec.claimed - pdata) - d)
    <3> HIDE DEF d
    <3>1. sec.claimed - pdata \in Int /\ d \in Int
      BY <1>1, <1>2, <2>4
    <3>2. section_len' = Len16(L, Len16(L, sec.claimed - pdata) - d)
      BY <2>3, <2>7 DEF d
    <3> QED
      BY <3>1, <3>2, Len16Minus
  <2>9. (sec.claimed - pdata) - d = sec.claimed - pdata' /\ pdata' \in Int
    <3> HIDE DEF d
    <3> QED
      BY <1>1, <1>2, <2>4, <2>6
  <2> QED
    BY <1>2, <2>1, <2>2, <2>8, <2>9
<1>5. CASE NextEntry
  <2>1. /\ pc = "loop" /\ todo' \in L.forms
        /\ pdata' = pdata /\ section_len' = section_len /\ after' = after
    BY <1>5 DEF NextEntry
  <2>2. todo' \in Seq(TightPart)
    BY <1>1, <2>1 DEF SteeredLayout
  <2> QED
    BY <1>2, <2>1, <2>2 DEF Walking
<1>6. CASE LoopDone
  <2>1. pc' = "done" /\ after' = after /\ pdata' = pdata
    BY <1>1, <1>6 DEF LoopDone, SteeredLayout
  <2> QED
    BY <1>2, <2>1 DEF Walking
<1>7. CASE AllDescriptors
  BY <1>1, <1>7 DEF AllDescriptors
<1>8. CASE SttLoop
  BY <1>1, <1>8 DEF SttLoop
<1>9. CASE NextSection
  BY <1>9 DEF NextSection, Walking
<1>10. CASE PartsDone
  <2>1. pc = "parts" /\ pc' = after /\ UNCHANGED <<after, pdata, todo, section_len>>
    BY <1>10 DEF PartsDone, walkvars
  <2> QED
    BY <1>2, <2>1 DEF Walking
<1>11. CASE Refuse \/ Alloc_fails \/ Lost \/ Cut \/ Stuffing
  <2>1. /\ pc' \in {"refused", "nomem", "lost", "cut", "stuffed"}
        /\ UNCHANGED <<after, pdata, todo, section_len>>
    BY <1>11 DEF Refuse, Alloc_fails, Lost, Cut, Stuffing, walkvars
  <2> QED
    BY <1>2, <2>1 DEF Walking
<1>12. CASE UNCHANGED vars
  BY <1>2, <1>12 DEF vars, walkvars, Walking
<1> QED
  BY <1>3, <1>4, <1>5, <1>6, <1>7, <1>8, <1>9, <1>10, <1>11, <1>12 DEF Next

(* At each test of a loop that section_len steers, section_len is the distance
   of pdata to the end of the section, for sections of any number of entries
   and with any lengths in their fields. *)
THEOREM CounterInStep ==
  ASSUME KnownTables
  PROVE  Spec => []InStep
<1>1. Init => Fixed /\ InStepInv
  <2> SUFFICES ASSUME Init PROVE Fixed /\ InStepInv
    OBVIOUS
  <2> QED
    BY DEF Init, Fixed, InStepInv, Walking
<1>2. Fixed /\ InStepInv /\ [Next]_vars => (Fixed /\ InStepInv)'
  BY FixedInductive, InStepInductive
<1>3. Fixed /\ InStepInv => InStep
  <2> SUFFICES ASSUME Fixed, InStepInv, pc = "loop", L.loop \in {"s16", "u16"}, table \notin Misread
               PROVE  section_len = Len16(L, sec.claimed - pdata)
    BY Zenon DEF InStep
  <2>1. table \in AllTables
    BY DEF Fixed, KnownTables
  <2>2. table \in Steered
    BY <2>1, TableFacts, Zenon DEF L
  <2> QED
    BY <2>2 DEF InStepInv, Apart, Walking
<1> QED
  BY <1>1, <1>2, <1>3, PTL DEF Spec

-----------------------------------------------------------------------------
(* A signed counter *)

(* In the range the invariant allows, the counter is the distance itself. *)
LEMMA SignedCounter ==
  ASSUME NEW c \in Int, NEW d \in Int, FitsCounter(c), d >= 0, c - d >= -24586,
         NEW lay, lay.loop = "s16"
  PROVE  Len16(lay, c - d) = c - d
<1>1. c - d \in Int /\ -32768 <= c - d /\ c - d <= 32767
  BY DEF FitsCounter
<1>2. Int16(c - d) = c - d
  BY <1>1, Int16Small
<1> QED
  BY <1>2 DEF Len16

LEMMA StopsInductive ==
  ASSUME KnownTables, LengthField, Fixed, InStepInv, StopsInv, [Next]_vars
  PROVE  StopsInv'
<1> SUFFICES ASSUME table \in Signed
             PROVE  /\ pc' # "lost"
                    /\ pc' = "parts" => /\ todo' \in Seq(ShortPart)
                                        /\ sec.claimed - pdata' >= -24586 + 4101 * Len(todo')
                    /\ Walking' => pdata' >= 0 /\ sec.claimed - pdata' >= -24586
  BY FixedInductive DEF StopsInv, Apart
<1>0. table \in Steered
  BY DEF Signed, Steered
<1>1. /\ sec.claimed \in Int /\ FitsCounter(sec.claimed) /\ SteeredLayout(L) /\ ShortLayout(L)
      /\ L.loop = "s16"
  BY <1>0, SteeredFacts
<1>2. /\ pdata \in Int /\ (after = "loop" \/ after = "done")
      /\ Walking => section_len = Len16(L, sec.claimed - pdata)
  BY <1>0 DEF InStepInv, Apart
<1>3. /\ pc # "lost"
      /\ pc = "parts" => todo \in Seq(ShortPart) /\ sec.claimed - pdata >= -24586 + 4101 * Len(todo)
      /\ Walking => pdata >= 0 /\ sec.claimed - pdata >= -24586
  BY DEF StopsInv, Apart
<1>4. ASSUME pc = "loop" PROVE section_len = sec.claimed - pdata /\ pdata >= 0
  <2>1. Walking
    BY <1>4 DEF Walking
  <2> QED
    BY <1>1, <1>2, <1>3, <2>1, SignedCounter
<1>5. LoopTest => section_len > 0
  BY <1>1 DEF LoopTest
<1>6. CASE Begin
  <2>1. pdata' = 0 /\ todo' = L.head /\ pc' = "parts"
    BY <1>6 DEF Begin
  <2>2. L.head \in Seq(ShortPart) /\ Len(L.head) \in Nat /\ Len(L.head) <= 2
    BY <1>1 DEF ShortLayout
  <2>3. sec.claimed - 0 >= -24586 + 4101 * Len(L.head) /\ sec.claimed - 0 >= -24586
    BY <1>1, <2>2 DEF FitsCounter
  <2> QED
    BY <2>1, <2>2, <2>3
<1>7. CASE ReadPart
  <2>1. /\ pc = "parts" /\ pc' = "parts" /\ todo # <<>> /\ todo' = Tail(todo)
        /\ \E v \in Values(Head(todo)) :
             pdata' = pdata + Head(todo).code + (IF Head(todo).skip THEN v.len ELSE 0)
    BY <1>7 DEF ReadPart
  <2>2. /\ Head(todo) \in ShortPart /\ Tail(todo) \in Seq(ShortPart)
        /\ Len(todo) \in Nat /\ Len(Tail(todo)) = Len(todo) - 1
        /\ Len(todo) >= 1
    BY <1>3, <2>1
  <2>3. PICK v \in Values(Head(todo)) :
             pdata' = pdata + Head(todo).code + (IF Head(todo).skip THEN v.len ELSE 0)
    BY <2>1
  <2> DEFINE d == Deducted(Head(todo), v)
             x == IF Head(todo).skip THEN v.len ELSE 0
  <2>4. /\ d \in Nat /\ Head(todo).code \in Nat /\ v.len \in Nat /\ Head(todo).code + x = d
        /\ d <= 4101
    <3>1. Head(todo) \in TightPart
      BY <2>2 DEF ShortPart
    <3> QED
      BY <2>2, <3>1, PartBytes
  <2>5. x \in Nat
    BY <2>4
  <2>6. pdata' = pdata + d
    <3> HIDE DEF d, x
    <3>1. pdata' = pdata + Head(todo).code + x
      BY <2>3 DEF x
    <3> QED
      BY <1>2, <2>4, <2>5, <3>1
  <2>7. pdata >= 0 /\ sec.claimed - pdata >= -24586 + 4101 * Len(todo)
    BY <1>3, <2>1 DEF Walking
  <2>8. /\ sec.claimed - pdata' >= -24586 + 4101 * Len(Tail(todo)) /\ pdata' >= 0
        /\ sec.claimed - pdata' >= -24586
    <3> HIDE DEF d
    <3> QED
      BY <1>1, <1>2, <2>2, <2>4, <2>6, <2>7
  <2> QED
    BY <2>1, <2>2, <2>8
<1>8. CASE NextEntry
  <2>1. /\ pc = "loop" /\ todo' \in L.forms /\ LoopTest
        /\ pdata' = pdata /\ pc' # "lost"
    BY <1>8 DEF NextEntry
  <2>2. todo' \in Seq(ShortPart) /\ Len(todo') = 1
    BY <1>1, <2>1 DEF ShortLayout
  <2>3. sec.claimed - pdata > 0 /\ pdata >= 0
    BY <1>4, <1>5, <2>1
  <2>4. sec.claimed - pdata >= -24586 + 4101 * 1 /\ sec.claimed - pdata >= -24586
    BY <1>1, <1>2, <2>3
  <2> QED
    BY <2>1, <2>2, <2>3, <2>4
<1>9. CASE Lost
  <2>1. pc = "loop" /\ LoopTest /\ Far
    BY <1>9 DEF Lost
  <2>2. sec.claimed - pdata > 0
    BY <1>4, <1>5, <2>1
  <2>3. MaxPast \in Nat
    BY BoundsAssumption
  <2> QED
    BY <1>1, <1>2, <2>1, <2>2, <2>3 DEF Far
<1>10. CASE LoopDone
  <2>1. pc' = "done"
    BY <1>1, <1>10 DEF LoopDone, SteeredLayout
  <2> QED
    BY <2>1 DEF Walking
<1>11. CASE AllDescriptors
  BY <1>1, <1>11 DEF AllDescriptors
<1>12. CASE SttLoop
  BY <1>1, <1>12 DEF SttLoop
<1>13. CASE PartsDone
  <2>1. pc = "parts" /\ pc' = after /\ UNCHANGED <<pdata>>
    BY <1>13 DEF PartsDone, walkvars
  <2> QED
    BY <1>2, <1>3, <2>1 DEF Walking
<1>14. CASE Refuse \/ Alloc_fails \/ Cut \/ Stuffing \/ NextSection
  <2>1. pc' \in {"refused", "nomem", "cut", "stuffed", "idle"}
    BY <1>14 DEF Refuse, Alloc_fails, Cut, Stuffing, NextSection
  <2> QED
    BY <2>1 DEF Walking
<1>15. CASE UNCHANGED vars
  BY <1>3, <1>15 DEF vars, walkvars, Walking
<1> QED
  BY <1>6, <1>7, <1>8, <1>9, <1>10, <1>11, <1>12, <1>13, <1>14, <1>15 DEF Next

(* parse_pmt, parse_bat and parse_sdt, whose section_len is signed and whose
   length fields have 12 bits, never run on behind the section, whatever its
   lengths say and however many entries it has. *)
THEOREM SignedCounterStops ==
  ASSUME KnownTables, LengthField
  PROVE  Spec => []StopsPastEnd
<1>1. Init => Fixed /\ InStepInv /\ StopsInv
  <2> SUFFICES ASSUME Init PROVE Fixed /\ InStepInv /\ StopsInv
    OBVIOUS
  <2> QED
    BY DEF Init, Fixed, InStepInv, StopsInv, Walking
<1>2. Fixed /\ InStepInv /\ StopsInv /\ [Next]_vars => (Fixed /\ InStepInv /\ StopsInv)'
  BY FixedInductive, InStepInductive, StopsInductive
<1>3. StopsInv => StopsPastEnd
  BY DEF StopsInv, StopsPastEnd, Signed
<1> QED
  BY <1>1, <1>2, <1>3, PTL DEF Spec

-----------------------------------------------------------------------------
(* The contents of the section before *)

ReplacedInv ==
  /\ old = 0 \/ table \in {"PAT", "EIT"}
  /\ leaked => table \in {"NIT", "BAT", "DCCT", "DCCSCT", "STT"}

(* A section replaces the one before it, and frees its descriptors, in every
   table but the ones the property names, for any number of sections. *)
THEOREM SectionsReplaced ==
  ASSUME KnownTables
  PROVE  Spec => []Replaced
<1>1. Init => Fixed /\ ReplacedInv
  BY DEF Init, Fixed, ReplacedInv
<1>2. ASSUME Fixed, ReplacedInv, [Next]_vars PROVE Fixed' /\ ReplacedInv'
  <2>1. Fixed' /\ table' = table /\ table \in AllTables
    BY <1>2, FixedInductive DEF Fixed, KnownTables
  <2>2. /\ L.loop = "stt" => table = "STT"
        /\ L.clears \/ L.loop = "count" \/ table \in {"PAT", "EIT"}
        /\ L.frees \/ table \in {"NIT", "BAT", "DCCT", "DCCSCT"}
    BY <2>1, TableFacts, Zenon DEF L
  <2>3. CASE Begin
    <3>1. old' = 0 \/ table \in {"PAT", "EIT"}
      BY <2>2, <2>3, Zenon DEF Begin
    <3>2. leaked' = (leaked \/ (held /\ ~L.frees))
      BY <2>3, Zenon DEF Begin
    <3> QED
      BY <1>2, <2>1, <2>2, <3>1, <3>2, Zenon DEF ReplacedInv
  <2>4. CASE SttLoop
    BY <1>2, <2>1, <2>2, <2>4, Zenon DEF SttLoop, ReplacedInv
  <2>5. CASE ~Begin /\ ~SttLoop
    <3>1. UNCHANGED <<old, leaked>>
      BY <1>2, <2>5 DEF Next, vars, listvars, Refuse, ReadPart, PartsDone, NextEntry, Alloc_fails,
                        Lost, Cut, Stuffing, AllDescriptors, LoopDone, NextSection
    <3> QED
      BY <1>2, <2>1, <3>1, Zenon DEF ReplacedInv
  <2> QED
    BY <2>1, <2>3, <2>4, <2>5
<1>3. ReplacedInv => Replaced
  <2>1. ~(0 > 0)
    OBVIOUS
  <2> QED
    BY <2>1 DEF ReplacedInv, Replaced
<1> QED
  BY <1>1, <1>2, <1>3, PTL DEF Spec

-----------------------------------------------------------------------------
(* Sections that keep to their syntax *)

(* parse_descriptors consumes a loop whose length is that of its descriptors
   to the byte. *)
LEMMA WalkExact ==
  ASSUME NEW v \in Loop, Exact(v)
  PROVE  parse_descriptors(v.len, v.ds) = v.len
<1> DEFINE len == v.len
           ds == v.ds
           n == Len(ds)
           q == ds \o <<0>>
<1>1. /\ len \in Nat /\ ds \in Seq(Nat) /\ n \in Nat /\ len = Listed(ds)
      /\ \A i \in 1..n : ds[i] \in Nat
  <2>1. len \in Nat /\ ds \in Seq(0..255) /\ len = Listed(ds)
    BY DEF Loop, Exact
  <2>2. ds \in Seq(Nat)
    <3>1. 0..255 \subseteq Nat
      OBVIOUS
    <3> QED
      BY <2>1, <3>1, SeqWider
  <2> HIDE DEF len, ds
  <2> QED
    BY <2>1, <2>2
<1> HIDE DEF len, ds
<1>2. q \in Seq(Nat) /\ Len(q) = n + 1 /\ q[n + 1] = 0 /\ \A i \in 1..n : q[i] = ds[i]
  <2>1. <<0>> \in Seq(Nat) /\ Len(<<0>>) = 1
    OBVIOUS
  <2> QED
    BY <1>1, <2>1
<1>3. PICK h \in [0..n -> Nat] : h[0] = 0 /\ len = h[n] /\ \A i \in 1..n : h[i] = h[i - 1] + ds[i] + 2
  <2> DEFINE G == [x \in Nat \X (1..n) |-> x[1] + ds[x[2]] + 2]
  <2>1. Traced(Nat, n, 0, G, Listed(ds))
    BY <1>1, ListedTrace
  <2>2. PICK h \in [0..n -> Nat] : h[0] = 0 /\ Listed(ds) = h[n] /\ \A i \in 1..n : h[i] = G[<<h[i - 1], i>>]
    BY <2>1, Zenon DEF Traced
  <2>3. \A i \in 1..n : h[i] = h[i - 1] + ds[i] + 2
    <3> TAKE i \in 1..n
    <3>1. i - 1 \in 0..n
      OBVIOUS
    <3>2. <<h[i - 1], i>> \in Nat \X (1..n)
      BY <3>1
    <3>3. G[<<h[i - 1], i>>] = h[i - 1] + ds[i] + 2
      BY <3>2
    <3> HIDE DEF G
    <3> QED
      BY <2>2, <3>3
  <2> QED
    BY <1>1, <2>2, <2>3
<1> DEFINE m == n + 1
<1>4. PICK g \in [0..m -> Nat] : g[0] = 0 /\ walked(len, q) = g[m] /\ \A i \in 1..m : g[i] = walk(len, g[i - 1], q[i])
  <2> DEFINE G == [x \in Nat \X (1..m) |-> walk(len, x[1], q[x[2]])]
  <2>1. Traced(Nat, Len(q), 0, [x \in Nat \X (1..Len(q)) |-> walk(len, x[1], q[x[2]])], walked(len, q))
    <3> HIDE DEF q
    <3> QED
      BY <1>1, <1>2, WalkedTrace
  <2> HIDE DEF q
  <2>2. Traced(Nat, m, 0, G, walked(len, q))
    BY <1>2, <2>1
  <2>3. PICK g \in [0..m -> Nat] : g[0] = 0 /\ walked(len, q) = g[m] /\ \A i \in 1..m : g[i] = G[<<g[i - 1], i>>]
    BY <2>2, Zenon DEF Traced
  <2>4. \A i \in 1..m : g[i] = walk(len, g[i - 1], q[i])
    <3> TAKE i \in 1..m
    <3>1. i - 1 \in 0..m
      BY <1>1
    <3>2. <<g[i - 1], i>> \in Nat \X (1..m)
      BY <3>1
    <3>3. G[<<g[i - 1], i>>] = walk(len, g[i - 1], q[i])
      BY <3>2
    <3> HIDE DEF G
    <3> QED
      BY <2>3, <3>3
  <2> QED
    BY <2>3, <2>4
<1> HIDE DEF q
<1>5. \A i \in 0..n : h[i] <= len
  <2>1. \A i \in 0..n : h[i] \in Nat
    BY <1>3
  <2>2. \A i \in 1..n : h[i - 1] <= h[i]
    <3> TAKE i \in 1..n
    <3>1. h[i - 1] \in Nat /\ h[i] = h[i - 1] + ds[i] + 2 /\ ds[i] \in Nat
      BY <1>1, <1>3
    <3> QED
      BY <3>1
  <2>3. \A j \in 0..n : \A i \in 0..j : h[i] <= h[j]
    BY <1>1, <2>1, <2>2, Rising
  <2> QED
    BY <1>1, <1>3, <2>3, n \in 0..n
<1> DEFINE T == {i \in 0..n : g[i] = h[i]}
<1>6. 0 \in T
  BY <1>1, <1>3, <1>4
<1>7. ASSUME NEW i \in 1..n, i - 1 \in T PROVE i \in T
  <2>0. i \in 0..n /\ i \in 1..m /\ i - 1 \in 0..n /\ g[i - 1] = h[i - 1]
    BY <1>1, <1>7
  <2>1. /\ i \in 0..n /\ i \in 1..m /\ g[i - 1] = h[i - 1] /\ h[i - 1] \in Nat /\ h[i] \in Nat
        /\ q[i] = ds[i] /\ ds[i] \in Nat
    BY <1>1, <1>2, <1>3, <2>0
  <2>2. h[i] = h[i - 1] + ds[i] + 2 /\ h[i] <= len
    BY <1>3, <1>5, <2>1
  <2>3. ~(h[i - 1] >= len)
    BY <1>1, <2>1, <2>2
  <2>4. g[i] = walk(len, g[i - 1], ds[i])
    BY <1>4, <2>1
  <2>5. g[i] = h[i - 1] + ds[i] + 2
    BY <2>1, <2>3, <2>4 DEF walk
  <2> QED
    BY <2>1, <2>2, <2>5
<1>8. g[n] = len
  <2> HIDE DEF T
  <2>1. \A i \in 0..n : i \in T
    BY <1>1, <1>6, <1>7, IntervalInduction
  <2>2. n \in T
    BY <1>1, <2>1
  <2> QED
    BY <1>3, <2>2 DEF T
<1>9. g[m] = len
  <2>1. m \in 1..m /\ m - 1 = n
    BY <1>1
  <2>2. g[m] = walk(len, g[m - 1], q[m])
    BY <1>4, <2>1
  <2> QED
    BY <1>1, <1>8, <2>1, <2>2 DEF walk
<1>10. parse_descriptors(len, ds) = len
  <2>1. walked(len, ds \o <<0>>) = len
    BY <1>4, <1>9 DEF q
  <2> QED
    BY <1>1, <2>1 DEF parse_descriptors
<1> QED
  BY <1>10 DEF len, ds

(* q is a followed by b, or by b and c. *)
Joins(S, a, b, q) ==
  /\ q \in Seq(S) /\ Len(q) = Len(a) + Len(b)
  /\ \A j \in 1..Len(a) : q[j] = a[j]
  /\ \A j \in 1..Len(b) : q[Len(a) + j] = b[j]
JoinsThree(S, a, b, c, q) ==
  /\ q \in Seq(S) /\ Len(q) = Len(a) + Len(b) + Len(c)
  /\ \A j \in 1..Len(a) : q[j] = a[j]
  /\ \A j \in 1..Len(b) : q[Len(a) + j] = b[j]
  /\ \A j \in 1..Len(c) : q[Len(a) + Len(b) + j] = c[j]

LEMMA ConcatTwo ==
  ASSUME NEW S, NEW a \in Seq(S), NEW b \in Seq(S)
  PROVE  Joins(S, a, b, a \o b)
  BY DEF Joins

LEMMA ConcatThree ==
  ASSUME NEW S, NEW a \in Seq(S), NEW b \in Seq(S), NEW c \in Seq(S)
  PROVE  JoinsThree(S, a, b, c, a \o b \o c)
<1> DEFINE x == a \o b
           q == x \o c
<1>1. Joins(S, a, b, x)
  BY ConcatTwo
<1>2. Len(a) \in Nat /\ Len(b) \in Nat /\ Len(c) \in Nat
  OBVIOUS
<1> HIDE DEF x
<1>3. Joins(S, x, c, q)
  <2>1. x \in Seq(S)
    BY <1>1 DEF Joins
  <2> QED
    BY <2>1, ConcatTwo
<1> HIDE DEF q
<1>4. /\ \A j \in 1..Len(a) : j \in 1..Len(x)
      /\ \A j \in 1..Len(b) : Len(a) + j \in 1..Len(x)
  BY <1>1, <1>2 DEF Joins
<1>5. JoinsThree(S, a, b, c, q)
  BY <1>1, <1>3, <1>4 DEF Joins, JoinsThree
<1> QED
  BY <1>5 DEF x, q

(* Parts filled with loops are the parts. *)
LEMMA FilledParts ==
  ASSUME NEW f \in Seq(Part), NEW h \in Filled(f)
  PROVE  /\ h \in Seq(Item) /\ Len(h) = Len(f) /\ DOMAIN h = 1..Len(f)
         /\ \A i \in 1..Len(f) : h[i].part = f[i]
<1>1. PICK vs \in [DOMAIN f -> UNION {Values(f[i]) : i \in DOMAIN f}] :
        /\ \A i \in DOMAIN f : vs[i] \in Values(f[i])
        /\ h = [i \in DOMAIN f |-> [part |-> f[i], v |-> vs[i]]]
  BY DEF Filled
<1>2. DOMAIN f = 1..Len(f) /\ Len(f) \in Nat
  OBVIOUS
<1>3. h \in Seq(Item)
  BY FilledType
<1>4. DOMAIN h = 1..Len(f) /\ \A i \in 1..Len(f) : h[i].part = f[i]
  BY <1>1, <1>2
<1>5. Len(h) = Len(f)
  BY <1>2, <1>3, <1>4
<1> QED
  BY <1>3, <1>4, <1>5

(* The parts from position m + 1 on are those of f. *)
Follows(s, m, f) == \A j \in 1..Len(f) : m + j \in 1..Len(s.parts) /\ s.parts[m + j].part = f[j]

(* A section is the head, its entries, each in one of the forms, and the
   tail; mark[i] parts come before and with the i-th entry. *)
Shape(s, lay, mark) ==
  /\ s.n \in Nat /\ mark \in [0..s.n -> Nat] /\ s.parts \in Seq(Item)
  /\ mark[0] = Len(lay.head) /\ mark[s.n] + Len(lay.tail) = Len(s.parts)
  /\ Follows(s, 0, lay.head) /\ Follows(s, mark[s.n], lay.tail)
  /\ \A i \in 1..s.n : /\ s.forms[i] \in lay.forms /\ mark[i] = mark[i - 1] + Len(s.forms[i])
                       /\ Follows(s, mark[i - 1], s.forms[i])
  /\ s.size = SpecSize(s.parts)
  /\ lay.loop = "none" => s.n = 0
  /\ lay.loop \in {"all", "stt"} => s.n = 1

(* Every section of a layout has its shape. *)
LEMMA SectionShape ==
  ASSUME NEW lay, SoundLayout(lay), NEW s \in Sections(lay)
  PROVE  \E mark : Shape(s, lay, mark)
<1>1. PICK h \in Filled(lay.head), es \in EntrySeqs(lay), t \in Filled(lay.tail), e \in Errors :
        s = Section(h, es, t, e)
  BY DEF Sections
<1>2. /\ h \in Seq(Item) /\ Len(h) = Len(lay.head) /\ \A i \in 1..Len(lay.head) : h[i].part = lay.head[i]
      /\ t \in Seq(Item) /\ Len(t) = Len(lay.tail) /\ \A i \in 1..Len(lay.tail) : t[i].part = lay.tail[i]
  <2>1. lay.head \in Seq(Part) /\ lay.tail \in Seq(Part)
    BY DEF SoundLayout
  <2> QED
    BY <2>1, FilledParts
<1>3. PICK n \in Nat : /\ es \in [1..n -> Entries(lay)]
                       /\ lay.loop = "none" => n = 0
                       /\ lay.loop \in {"all", "stt"} => n = 1
  BY EntryCount
<1> DEFINE form(i) == [j \in DOMAIN es[i] |-> es[i][j].part]
<1>4. ASSUME NEW i \in 1..n
      PROVE  /\ es[i] \in Seq(Item) /\ form(i) \in lay.forms /\ Len(form(i)) = Len(es[i])
             /\ \A j \in 1..Len(es[i]) : form(i)[j] = es[i][j].part
  <2>1. PICK f \in lay.forms : es[i] \in Filled(f)
    BY <1>3 DEF Entries
  <2>2. f \in Seq(Part)
    BY DEF SoundLayout
  <2>3. /\ es[i] \in Seq(Item) /\ Len(es[i]) = Len(f) /\ DOMAIN es[i] = 1..Len(f)
        /\ \A j \in 1..Len(f) : es[i][j].part = f[j]
    BY <2>1, <2>2, FilledParts
  <2>4. f = [j \in 1..Len(f) |-> f[j]]
    BY <2>2
  <2>5. form(i) = f
    BY <2>3, <2>4
  <2> HIDE DEF form
  <2> QED
    BY <2>3, <2>5
<1>5. es \in [1..n -> Seq(Item)]
  BY <1>3, <1>4
<1> DEFINE mid == FlattenSeq(es)
           ps == h \o mid \o t
<1>6. PICK m : Marked(Item, n, es, m)
  BY <1>5, FlattenMarks
<1>7. /\ m \in [0..n -> Nat] /\ m[0] = 0 /\ mid \in Seq(Item) /\ Len(mid) = m[n]
      /\ \A i \in 1..n : /\ m[i] = m[i - 1] + Len(es[i]) /\ m[i] <= m[n]
                         /\ \A j \in 1..Len(es[i]) : mid[m[i - 1] + j] = es[i][j]
  BY <1>6 DEF Marked
<1>8. Len(es) = n /\ DOMAIN es = 1..n
  BY <1>3
<1>9. /\ s.parts = ps /\ s.n = n /\ s.size = SpecSize(ps)
      /\ \A i \in 1..n : s.forms[i] = form(i)
  BY <1>1, <1>8 DEF Section
<1> HIDE DEF form, mid
<1>10. /\ ps \in Seq(Item) /\ Len(ps) = Len(h) + Len(mid) + Len(t)
       /\ \A j \in 1..Len(h) : ps[j] = h[j]
       /\ \A j \in 1..Len(mid) : ps[Len(h) + j] = mid[j]
       /\ \A j \in 1..Len(t) : ps[Len(h) + Len(mid) + j] = t[j]
  <2>1. JoinsThree(Item, h, mid, t, ps)
    BY <1>2, <1>7, ConcatThree
  <2> HIDE DEF ps
  <2> QED
    BY <2>1 DEF JoinsThree
<1> HIDE DEF ps
<1> DEFINE c == Len(h)
           mark == [i \in 0..n |-> c + m[i]]
<1>11. /\ c \in Nat /\ \A i \in 0..n : m[i] \in Nat
       /\ Len(t) \in Nat
  BY <1>2, <1>7
<1>12. /\ mark \in [0..n -> Nat] /\ mark[0] = c /\ mark[n] = c + m[n]
       /\ \A i \in 0..n : mark[i] = c + m[i]
  BY <1>7, <1>11
<1> HIDE DEF mark
<1>13. Follows(s, 0, lay.head)
  <2> SUFFICES ASSUME NEW j \in 1..Len(lay.head)
               PROVE  0 + j \in 1..Len(ps) /\ ps[0 + j].part = lay.head[j]
    BY <1>9 DEF Follows
  <2>1. j \in 1..c /\ 0 + j = j
    BY <1>2
  <2>2. j \in 1..Len(ps)
    BY <1>7, <1>10, <1>11, <2>1
  <2> QED
    BY <1>2, <1>10, <2>1, <2>2
<1>14. Follows(s, mark[n], lay.tail)
  <2> SUFFICES ASSUME NEW j \in 1..Len(lay.tail)
               PROVE  mark[n] + j \in 1..Len(ps) /\ ps[mark[n] + j].part = lay.tail[j]
    BY <1>9 DEF Follows
  <2>1. j \in 1..Len(t) /\ mark[n] = c + Len(mid) /\ Len(mid) \in Nat
    BY <1>2, <1>7, <1>11, <1>12
  <2>2. c + Len(mid) + j \in 1..Len(ps)
    BY <1>10, <1>11, <2>1
  <2>3. ps[c + Len(mid) + j] = t[j]
    BY <1>10, <2>1
  <2> HIDE DEF c
  <2> QED
    BY <1>2, <2>1, <2>2, <2>3
<1>15. ASSUME NEW i \in 1..n
       PROVE  /\ s.forms[i] \in lay.forms /\ mark[i] = mark[i - 1] + Len(s.forms[i])
              /\ Follows(s, mark[i - 1], s.forms[i])
  <2>1. s.forms[i] = form(i) /\ Len(form(i)) = Len(es[i]) /\ form(i) \in lay.forms /\ Len(es[i]) \in Nat
    BY <1>4, <1>9
  <2>2. /\ m[i] = m[i - 1] + Len(es[i]) /\ m[i] <= m[n] /\ i - 1 \in 0..n /\ i \in 0..n
        /\ m[i - 1] \in Nat /\ m[n] \in Nat /\ n \in 0..n
    BY <1>7, <1>11
  <2>3. mark[i] = c + m[i] /\ mark[i - 1] = c + m[i - 1]
    BY <1>12, <2>2
  <2>4. mark[i] = mark[i - 1] + Len(es[i])
    BY <1>11, <2>1, <2>2, <2>3
  <2>5. ASSUME NEW j \in 1..Len(es[i])
        PROVE  mark[i - 1] + j \in 1..Len(ps) /\ ps[mark[i - 1] + j].part = form(i)[j]
    <3>1. m[i - 1] + j \in 1..m[n] /\ mark[i - 1] + j = c + (m[i - 1] + j)
      <4>1. \A a, b, d \in Nat : \A x \in 1..b : a + b <= d => a + x \in 1..d
        OBVIOUS
      <4>2. m[i - 1] + Len(es[i]) <= m[n]
        BY <2>2
      <4>3. m[i - 1] + j \in 1..m[n]
        BY <2>1, <2>2, <4>1, <4>2, Zenon
      <4>4. j \in Nat
        OBVIOUS
      <4> HIDE DEF c
      <4> QED
        BY <1>11, <2>2, <2>3, <4>3, <4>4
    <3>2. mid[m[i - 1] + j] = es[i][j]
      BY <1>7
    <3>3. ps[c + (m[i - 1] + j)] = mid[m[i - 1] + j]
      BY <1>7, <1>10, <3>1
    <3>4. c + (m[i - 1] + j) \in 1..Len(ps)
      <4> HIDE DEF c
      <4>1. Len(ps) = c + m[n] + Len(t)
        BY <1>7, <1>10 DEF c
      <4>2. c \in Nat /\ Len(t) \in Nat /\ m[n] \in Nat /\ m[i - 1] + j \in 1..m[n]
        BY <1>11, <2>2, <3>1
      <4> QED
        BY ONLY <4>1, <4>2
    <3>5. form(i)[j] = es[i][j].part
      BY <1>4
    <3> QED
      BY <3>1, <3>2, <3>3, <3>4, <3>5, Zenon
  <2>6. Follows(s, mark[i - 1], s.forms[i])
    BY <1>9, <2>1, <2>5 DEF Follows
  <2> QED
    BY <2>1, <2>4, <2>6
<1>16. mark[n] + Len(lay.tail) = Len(ps)
  BY <1>2, <1>7, <1>10, <1>11, <1>12
<1>17. Shape(s, lay, mark)
  <2>1. mark[0] = Len(lay.head)
    BY <1>2, <1>12
  <2> HIDE DEF c
  <2> QED
    BY <1>3, <1>9, <1>10, <1>12, <1>13, <1>14, <1>15, <1>16, <2>1 DEF Shape
<1> QED
  BY <1>17

(* The parts the code reads where they are: it moves by the bytes of the
   syntax and passes what the length says; the descriptors that the parsers of
   Misread stay in front of are not there. *)
PlainPart(t) ==
  {p \in Part : /\ p.code = p.spec /\ p.sub = p.code
                /\ p.skip \/ ~p.var \/ (p.desc /\ t \in Misread)}

PlainLayout(t, lay) ==
  /\ lay.head \in Seq(PlainPart(t)) /\ lay.tail \in Seq(PlainPart(t))
  /\ \A f \in lay.forms : f \in Seq(PlainPart(t))
  /\ lay.loop \in {"none", "all", "stt", "count", "s16", "u16"}
  /\ lay.loop \in {"all", "stt", "s16", "u16"} => lay.tail = <<>>
  /\ lay.loop = "all" => lay.head = <<>> /\ lay.forms = {<<D(0)>>}

LEMMA PlainParts ==
  ASSUME NEW t
  PROVE  /\ \A n \in Nat : P(n) \in PlainPart(t) /\ X(n) \in PlainPart(t) /\ D(n) \in PlainPart(t)
         /\ \A n, w \in Nat : Bits(w, X(n)) \in PlainPart(t) /\ Bits(w, D(n)) \in PlainPart(t)
         /\ t \in Misread => \A n \in Nat : Stays(D(n)) \in PlainPart(t)
<1>1. \A n \in Nat : P(n) \in Part /\ X(n) \in Part /\ D(n) \in Part
  BY PartTypes
<1>2. \A n, w \in Nat : Bits(w, X(n)) \in Part /\ Bits(w, D(n)) \in Part /\ Stays(D(n)) \in Part
  BY <1>1, PartTypes
<1>3. \A n : /\ P(n).code = P(n).spec /\ ~P(n).var
             /\ X(n).code = X(n).spec /\ X(n).skip
             /\ D(n).code = D(n).spec /\ D(n).skip
  BY DEF P, X, D
<1>4. \A n, w : /\ Bits(w, X(n)).code = Bits(w, X(n)).spec /\ Bits(w, X(n)).skip
                /\ Bits(w, D(n)).code = Bits(w, D(n)).spec /\ Bits(w, D(n)).skip
  BY DEF X, D, Bits
<1>5. \A n : Stays(D(n)).code = Stays(D(n)).spec /\ Stays(D(n)).desc
  BY DEF D, Stays
<1>6. \A n : /\ P(n).sub = P(n).code /\ X(n).sub = X(n).code /\ D(n).sub = D(n).code
             /\ Stays(D(n)).sub = Stays(D(n)).code
  BY DEF P, X, D, Stays
<1>7. \A n, w : Bits(w, X(n)).sub = Bits(w, X(n)).code /\ Bits(w, D(n)).sub = Bits(w, D(n)).code
  BY DEF X, D, Bits
<1> QED
  BY <1>1, <1>2, <1>3, <1>4, <1>5, <1>6, <1>7 DEF PlainPart

(* An entry of the terrestrial channel table: seven 16-bit characters of the
   short name and 18 bytes. *)
LEMMA ChannelPart ==
  ASSUME NEW t
  PROVE  [Bits(10, D(32)) EXCEPT !.code = 14 + 18] \in PlainPart(t)
<1> DEFINE p == Bits(10, D(32))
           q == [p EXCEPT !.code = 14 + 18]
<1>1. p \in Part /\ p.spec = 32 /\ p.sub = 32 /\ p.skip
  BY PartTypes DEF D, Bits
<1> HIDE DEF p
<1>2. 14 + 18 = 32 /\ 32 \in Nat
  OBVIOUS
<1>3. q \in Part /\ q.code = 32 /\ q.sub = 32 /\ q.spec = 32 /\ q.skip
  BY <1>1, <1>2 DEF Part
<1> HIDE DEF q
<1>4. q \in PlainPart(t)
  BY <1>3 DEF PlainPart
<1> QED
  BY <1>4 DEF p, q

(* Sequences of up to three parts *)
One(p) == <<p>>
Two(p, q) == <<p, q>>
Three(p, q, r) == <<p, q, r>>

LEMMA FewParts ==
  ASSUME NEW S
  PROVE  /\ <<>> \in Seq(S)
         /\ \A p \in S : One(p) \in Seq(S)
         /\ \A p, q \in S : Two(p, q) \in Seq(S)
         /\ \A p, q, r \in S : Three(p, q, r) \in Seq(S)
  BY DEF One, Two, Three

LEMMA PlainPsi ==
  ASSUME NEW t
  PROVE  /\ PlainLayout(t, parse_pat) /\ PlainLayout(t, parse_cat) /\ PlainLayout(t, parse_tsdt)
         /\ PlainLayout(t, parse_pmt)
<1> DEFINE S == PlainPart(t)
<1>1. P(4) \in S /\ D(0) \in S /\ D(4) \in S /\ D(5) \in S
  BY PlainParts
<1> HIDE DEF S
<1>2. /\ <<>> \in Seq(S) /\ One(P(4)) \in Seq(S) /\ One(D(0)) \in Seq(S)
      /\ One(D(4)) \in Seq(S) /\ One(D(5)) \in Seq(S)
  BY <1>1, FewParts
<1>3. /\ parse_pat.head = <<>> /\ parse_pat.forms = {One(P(4))} /\ parse_pat.tail = <<>>
      /\ parse_cat.head = <<>> /\ parse_cat.forms = {One(D(0))} /\ parse_cat.tail = <<>>
      /\ parse_tsdt.head = <<>> /\ parse_tsdt.forms = {One(D(0))} /\ parse_tsdt.tail = <<>>
      /\ parse_pmt.head = One(D(4)) /\ parse_pmt.forms = {One(D(5))} /\ parse_pmt.tail = <<>>
  BY DEF Layout, parse_pat, parse_cat, parse_tsdt, parse_pmt, One
<1>4. parse_pat.loop = "u16" /\ parse_cat.loop = "all" /\ parse_tsdt.loop = "all" /\ parse_pmt.loop = "s16"
  BY DEF Layout, parse_pat, parse_cat, parse_tsdt, parse_pmt
<1>5. One(D(0)) = <<D(0)>>
  BY DEF One
<1> QED
  BY <1>2, <1>3, <1>4, <1>5 DEF PlainLayout, S

LEMMA PlainDvb ==
  ASSUME NEW t
  PROVE  /\ PlainLayout(t, parse_nit) /\ PlainLayout(t, parse_bat) /\ PlainLayout(t, parse_sdt)
         /\ PlainLayout(t, parse_tdt) /\ PlainLayout(t, parse_tot)
         /\ t \in Misread => PlainLayout(t, parse_eit)
<1> DEFINE S == PlainPart(t)
<1>1. /\ D(2) \in S /\ P(2) \in S /\ Bits(16, D(6)) \in S /\ D(6) \in S /\ P(3) \in S /\ D(5) \in S
      /\ P(5) \in S /\ P(6) \in S
      /\ t \in Misread => Stays(D(12)) \in S
  BY PlainParts
<1> HIDE DEF S
<1>2. /\ <<>> \in Seq(S) /\ Two(D(2), P(2)) \in Seq(S) /\ One(Bits(16, D(6))) \in Seq(S)
      /\ One(D(6)) \in Seq(S) /\ One(P(3)) \in Seq(S) /\ One(D(5)) \in Seq(S) /\ One(P(5)) \in Seq(S)
      /\ One(P(6)) \in Seq(S) /\ Two(P(5), D(2)) \in Seq(S)
      /\ t \in Misread => One(Stays(D(12))) \in Seq(S)
  BY <1>1, FewParts
<1>3. /\ parse_nit.head = Two(D(2), P(2)) /\ parse_nit.forms = {One(Bits(16, D(6)))}
      /\ parse_nit.tail = <<>> /\ parse_nit.loop = "s16"
      /\ parse_bat.head = Two(D(2), P(2)) /\ parse_bat.forms = {One(D(6))}
      /\ parse_bat.tail = <<>> /\ parse_bat.loop = "s16"
  BY DEF Layout, parse_nit, parse_bat, One, Two
<1>4. /\ parse_sdt.head = One(P(3)) /\ parse_sdt.forms = {One(D(5))}
      /\ parse_sdt.tail = <<>> /\ parse_sdt.loop = "s16"
      /\ parse_eit.head = One(P(6)) /\ parse_eit.forms = {One(Stays(D(12)))}
      /\ parse_eit.tail = <<>> /\ parse_eit.loop = "u16"
  BY DEF Layout, parse_sdt, parse_eit, One
<1>5. /\ parse_tdt.head = One(P(5)) /\ parse_tdt.forms = {}
      /\ parse_tdt.tail = <<>> /\ parse_tdt.loop = "none"
      /\ parse_tot.head = Two(P(5), D(2)) /\ parse_tot.forms = {}
      /\ parse_tot.tail = <<>> /\ parse_tot.loop = "none"
  BY DEF Layout, parse_tdt, parse_tot, One, Two
<1>6. PlainLayout(t, parse_nit) /\ PlainLayout(t, parse_bat)
  BY <1>2, <1>3 DEF PlainLayout, S
<1>7. PlainLayout(t, parse_sdt) /\ (t \in Misread => PlainLayout(t, parse_eit))
  BY <1>2, <1>4 DEF PlainLayout, S
<1>8. PlainLayout(t, parse_tdt) /\ PlainLayout(t, parse_tot)
  BY <1>2, <1>5 DEF PlainLayout, S
<1> QED
  BY <1>6, <1>7, <1>8

LEMMA PlainPsip ==
  ASSUME NEW t
  PROVE  /\ PlainLayout(t, parse_mgt) /\ PlainLayout(t, parse_vct(FALSE)) /\ PlainLayout(t, parse_rrt)
         /\ PlainLayout(t, parse_ett) /\ PlainLayout(t, parse_stt)
         /\ t \in Misread => PlainLayout(t, parse_atsc_eit)
<1> DEFINE S == PlainPart(t)
           channel == [Bits(10, D(32)) EXCEPT !.code = 14 + 18]
<1>1. /\ P(3) \in S /\ D(11) \in S /\ D(2) \in S /\ P(2) \in S /\ Bits(10, D(2)) \in S
      /\ X(2) \in S /\ P(1) \in S /\ X(1) \in S /\ P(5) \in S /\ X(0) \in S /\ P(8) \in S /\ D(0) \in S
      /\ X(10) \in S /\ (t \in Misread => Stays(D(2)) \in S)
  BY PlainParts
<1>2. channel \in S
  BY ChannelPart
<1> HIDE DEF S, channel
<1>3. /\ <<>> \in Seq(S) /\ One(P(3)) \in Seq(S) /\ One(D(11)) \in Seq(S) /\ One(D(2)) \in Seq(S)
      /\ One(P(2)) \in Seq(S) /\ One(channel) \in Seq(S) /\ One(Bits(10, D(2))) \in Seq(S)
      /\ Two(X(2), P(1)) \in Seq(S) /\ Two(X(1), P(1)) \in Seq(S) /\ Two(P(5), X(0)) \in Seq(S)
      /\ One(P(8)) \in Seq(S) /\ One(D(0)) \in Seq(S)
      /\ t \in Misread => Two(X(10), Stays(D(2))) \in Seq(S)
  BY <1>1, <1>2, FewParts
<1>4. /\ parse_mgt.head = One(P(3)) /\ parse_mgt.forms = {One(D(11))}
      /\ parse_mgt.tail = One(D(2)) /\ parse_mgt.loop = "count"
  BY DEF Layout, parse_mgt, One
<1>5. /\ parse_vct(FALSE).head = One(P(2)) /\ parse_vct(FALSE).forms = {One(channel)}
      /\ parse_vct(FALSE).tail = One(Bits(10, D(2))) /\ parse_vct(FALSE).loop = "count"
  BY DEF Layout, parse_vct, One, channel
<1>6. /\ parse_rrt.head = Two(X(2), P(1)) /\ parse_rrt.forms = {Two(X(1), P(1))}
      /\ parse_rrt.tail = One(Bits(10, D(2))) /\ parse_rrt.loop = "count"
  BY DEF Layout, parse_rrt, One, Two
<1>7. /\ parse_ett.head = Two(P(5), X(0)) /\ parse_ett.forms = {}
      /\ parse_ett.tail = <<>> /\ parse_ett.loop = "none"
      /\ parse_stt.head = One(P(8)) /\ parse_stt.forms = {One(D(0))}
      /\ parse_stt.tail = <<>> /\ parse_stt.loop = "stt"
  BY DEF Layout, parse_ett, parse_stt, One, Two
<1>8. /\ parse_atsc_eit.head = One(P(2)) /\ parse_atsc_eit.forms = {Two(X(10), Stays(D(2)))}
      /\ parse_atsc_eit.tail = <<>> /\ parse_atsc_eit.loop = "count"
  BY DEF Layout, parse_atsc_eit, One, Two
<1>9. PlainLayout(t, parse_mgt) /\ PlainLayout(t, parse_rrt)
  BY <1>3, <1>4, <1>6 DEF PlainLayout, S
<1>10. PlainLayout(t, parse_vct(FALSE))
  BY <1>3, <1>5 DEF PlainLayout, S
<1>11. PlainLayout(t, parse_ett) /\ PlainLayout(t, parse_stt)
  BY <1>3, <1>7 DEF PlainLayout, S
<1>12. t \in Misread => PlainLayout(t, parse_atsc_eit)
  BY <1>3, <1>8 DEF PlainLayout, S
<1> QED
  BY <1>9, <1>10, <1>11, <1>12

LEMMA PlainRest ==
  ASSUME NEW t
  PROVE  /\ PlainLayout(t, parse_dcct) /\ PlainLayout(t, parse_dccsct)
         /\ PlainLayout(t, parse_splice_info)
<1> DEFINE S == PlainPart(t)
<1>1. /\ P(2) \in S /\ P(15) \in S /\ D10(2) \in S /\ D10(11) \in S /\ X(3) \in S /\ X(5) \in S
      /\ Bits(12, X(11)) \in S /\ Bits(16, D(2)) \in S
  BY PlainParts DEF D10
<1> HIDE DEF S
<1>2. /\ One(P(2)) \in Seq(S) /\ Two(P(15), D10(2)) \in Seq(S) /\ Three(P(15), D10(11), D10(2)) \in Seq(S)
      /\ One(D10(2)) \in Seq(S) /\ Two(P(2), D10(2)) \in Seq(S) /\ Two(X(3), D10(2)) \in Seq(S)
      /\ Two(X(5), D10(2)) \in Seq(S) /\ One(Bits(12, X(11))) \in Seq(S) /\ One(Bits(16, D(2))) \in Seq(S)
  BY <1>1, FewParts
<1>3. /\ parse_dcct.head = One(P(2))
      /\ parse_dcct.forms = {Two(P(15), D10(2)), Three(P(15), D10(11), D10(2))}
      /\ parse_dcct.tail = One(D10(2)) /\ parse_dcct.loop = "count"
  BY DEF Layout, parse_dcct, One, Two, Three
<1>4. /\ parse_dccsct.head = One(P(2))
      /\ parse_dccsct.forms = {Two(P(2), D10(2)), Two(X(3), D10(2)), Two(X(5), D10(2))}
      /\ parse_dccsct.tail = One(D10(2)) /\ parse_dccsct.loop = "count"
  BY DEF Layout, parse_dccsct, One, Two
<1>5. /\ parse_splice_info.head = One(Bits(12, X(11))) /\ parse_splice_info.forms = {}
      /\ parse_splice_info.tail = One(Bits(16, D(2))) /\ parse_splice_info.loop = "none"
  BY DEF Layout, parse_splice_info, One
<1>6. PlainLayout(t, parse_dcct)
  BY <1>2, <1>3 DEF PlainLayout, S
<1>7. PlainLayout(t, parse_dccsct)
  BY <1>2, <1>4 DEF PlainLayout, S
<1>8. PlainLayout(t, parse_splice_info)
  BY <1>2, <1>5 DEF PlainLayout, S
<1> QED
  BY <1>6, <1>7, <1>8

(* Every parser but that of the cable channel table moves by the bytes of the
   syntax. *)
LEMMA PlainLayouts ==
  ASSUME NEW t \in AllTables, t # "CVCT"
  PROVE  PlainLayout(t, LayoutOf(t))
<1>1. /\ LayoutOf("PAT") = parse_pat /\ LayoutOf("CAT") = parse_cat
      /\ LayoutOf("TSDT") = parse_tsdt /\ LayoutOf("PMT") = parse_pmt
      /\ LayoutOf("NIT") = parse_nit /\ LayoutOf("BAT") = parse_bat
      /\ LayoutOf("SDT") = parse_sdt /\ LayoutOf("EIT") = parse_eit
      /\ LayoutOf("TDT") = parse_tdt /\ LayoutOf("TOT") = parse_tot
      /\ LayoutOf("MGT") = parse_mgt /\ LayoutOf("TVCT") = parse_vct(FALSE)
  BY DEF LayoutOf
<1>2. /\ LayoutOf("RRT") = parse_rrt /\ LayoutOf("ETT") = parse_ett /\ LayoutOf("STT") = parse_stt
      /\ LayoutOf("DCCT") = parse_dcct /\ LayoutOf("DCCSCT") = parse_dccsct
      /\ LayoutOf("SCTE") = parse_splice_info
  BY DEF LayoutOf
<1>3. LayoutOf("ATSC EIT") = parse_atsc_eit
  BY Zenon DEF LayoutOf
<1>4. "EIT" \in Misread /\ "ATSC EIT" \in Misread
  BY DEF Misread
<1>5. t \in {"PAT", "CAT", "TSDT", "PMT"} => PlainLayout(t, LayoutOf(t))
  BY <1>1, PlainPsi
<1>6. t \in {"NIT", "BAT", "SDT", "EIT", "TDT", "TOT"} => PlainLayout(t, LayoutOf(t))
  BY <1>1, <1>4, PlainDvb
<1>7. t \in {"MGT", "TVCT", "RRT", "ETT", "ATSC EIT", "STT"} => PlainLayout(t, LayoutOf(t))
  BY <1>1, <1>2, <1>3, <1>4, PlainPsip
<1>8. t \in {"DCCT", "DCCSCT", "SCTE"} => PlainLayout(t, LayoutOf(t))
  BY <1>2, PlainRest
<1> QED
  BY <1>5, <1>6, <1>7, <1>8 DEF AllTables

(* A plain layout is made of parts. *)
LEMMA PlainSound ==
  ASSUME NEW t, NEW lay, PlainLayout(t, lay)
  PROVE  SoundLayout(lay)
<1>1. PlainPart(t) \subseteq Part
  BY DEF PlainPart
<1>2. \A x \in Seq(PlainPart(t)) : x \in Seq(Part)
  BY <1>1
<1> QED
  BY <1>2 DEF PlainLayout, SoundLayout

(* A section_length has 12 bits: no section that keeps to its syntax is
   longer than that. *)
ShortSections ==
  \A t \in Tables : \A s \in Sections(LayoutOf(t)) : Conforms(s) => s.size <= 4095

(* The entries that the walk has begun. *)
Seen == IF L.loop \in {"s16", "u16", "count"} THEN fresh ELSE 0

(* The inductive invariant: the parts still to be read are those that follow
   in the section, up to the end of the entry or of the section; pdata is
   where the syntax puts the first of them, and section_len what is left. *)
OnTrack ==
  /\ k \in 1..(Len(sec.parts) + 1) /\ pdata = SpecEnds(sec.parts)[k - 1]
  /\ section_len = sec.size - pdata
  /\ Seen \in 0..sec.n /\ (L.loop = "count" => left = sec.n - fresh)
AtEntry(mark) == after = "loop" /\ k - 1 = mark[Seen]
InParts(mark) ==
  /\ Follows(sec, k - 1, todo) /\ todo \in Seq(PlainPart(table))
  /\ \/ after = "loop" /\ k - 1 + Len(todo) = mark[Seen]
     \/ after = "done" /\ k - 1 + Len(todo) = Len(sec.parts)
InLine(mark) ==
  /\ aligned /\ pc # "lost" /\ pc # "cut"
  /\ pc = "done" => pdata = sec.size
  /\ table # "SCTE" => reach <= sec.size
  /\ Walking => OnTrack
  /\ pc = "loop" => AtEntry(mark)
  /\ pc = "parts" => InParts(mark)
AlignedInv == Found => \E mark : Shape(sec, L, mark) /\ InLine(mark)

(* A section found in its place, with a shape *)
Placed(mark) ==
  /\ PlainLayout(table, L) /\ Shape(sec, L, mark) /\ EndsSound(sec.parts)
  /\ sec.size \in Nat /\ sec.size <= 4095 /\ sec.claimed = sec.size
  /\ \A i \in 1..Len(sec.parts) : sec.parts[i] \in Item /\ Exact(sec.parts[i].v)
  /\ table \in Misread =>
       \A i \in 1..Len(sec.parts) : sec.parts[i].part.desc => sec.parts[i].v.len = 0

(* A section that keeps to its syntax has the place of each part. *)
LEMMA PlacedIn ==
  ASSUME KnownTables, ShortSections, Fixed, Found
  PROVE  /\ \E mark : Shape(sec, L, mark)
         /\ \A mark : Shape(sec, L, mark) => Placed(mark)
<1>1. table \in AllTables /\ table # "CVCT" /\ Conforms(sec) /\ (table \in Misread => NoDescriptors)
  BY DEF KnownTables, Fixed, Found, Conforming
<1>2. PlainLayout(table, L) /\ sec \in Sections(L)
  BY <1>1, PlainLayouts DEF Fixed, L
<1>3. SoundLayout(L)
  BY <1>2, PlainSound
<1>4. \E mark : Shape(sec, L, mark)
  BY <1>2, <1>3, SectionShape
<1>5. ASSUME NEW mark, Shape(sec, L, mark) PROVE Placed(mark)
  <2>1. sec.parts \in Seq(Item) /\ sec.size = SpecSize(sec.parts)
    BY <1>5 DEF Shape
  <2>2. EndsSound(sec.parts)
    BY <2>1, SpecEndsFacts
  <2>3. sec.size \in Nat
    <3>1. Len(sec.parts) \in 0..Len(sec.parts)
      BY <2>1
    <3>2. SpecEnds(sec.parts)[Len(sec.parts)] \in Nat
      BY <2>2, <3>1 DEF EndsSound
    <3> QED
      BY <2>1, <3>2 DEF SpecSize
  <2>4. sec.size <= 4095 /\ sec.claimed = sec.size
    BY <1>1 DEF ShortSections, Conforms, Fixed
  <2>5. DOMAIN sec.parts = 1..Len(sec.parts)
    BY <2>1
  <2>6. \A i \in 1..Len(sec.parts) : sec.parts[i] \in Item
    BY <2>1
  <2>7. \A i \in 1..Len(sec.parts) : Exact(sec.parts[i].v)
    BY <1>1, <2>5, Zenon DEF Conforms
  <2>8. table \in Misread =>
          \A i \in 1..Len(sec.parts) : sec.parts[i].part.desc => sec.parts[i].v.len = 0
    BY <1>1, <2>5, Zenon DEF NoDescriptors
  <2> QED
    BY ONLY <1>2, <1>5, <2>2, <2>3, <2>4, <2>6, <2>7, <2>8 DEF Placed
<1> QED
  BY <1>4, <1>5

(* A number of 12 bits is kept, signed or not. *)
LEMMA Len16Small ==
  ASSUME NEW lay, NEW a \in Nat, a <= 4095
  PROVE  Len16(lay, a) = a
<1>1. Int16(a) = a
  BY Int16Small
<1>2. UInt16(a) = a
  BY DEF UInt16
<1> QED
  BY <1>1, <1>2 DEF Len16

(* The part p that is next, which is x in the section: what it takes, and
   where it ends *)
Ready(p, x) ==
  /\ k \in 1..Len(sec.parts) /\ x.part = p /\ p \in PlainPart(table)
  /\ x.v \in Loop /\ x.v.len \in Nat /\ p.code \in Nat /\ p.sub = p.code /\ Exact(x.v)
  /\ (IF p.skip THEN x.v.len ELSE 0) = x.v.len
  /\ SpecEnds(sec.parts)[k] = pdata + p.code + x.v.len
  /\ SpecEnds(sec.parts)[k] \in Nat /\ SpecEnds(sec.parts)[k] <= sec.size
  /\ pdata \in Nat

LEMMA NextPart ==
  ASSUME NEW mark, Placed(mark), OnTrack, InParts(mark), todo # <<>>
  PROVE  Ready(Head(todo), sec.parts[k])
<1> DEFINE p == Head(todo)
           x == sec.parts[k]
           ps == sec.parts
<1>1. /\ k \in 1..(Len(ps) + 1) /\ pdata = SpecEnds(ps)[k - 1] /\ ps \in Seq(Item) /\ Len(ps) \in Nat
      /\ sec.size = SpecSize(ps)
  BY DEF OnTrack, Placed, Shape
<1>2. /\ todo \in Seq(PlainPart(table)) /\ p \in PlainPart(table) /\ p = todo[1] /\ 1 \in 1..Len(todo)
  BY DEF InParts
<1>3. (k - 1) + 1 \in 1..Len(ps) /\ ps[(k - 1) + 1].part = p
  BY <1>2 DEF InParts, Follows
<1>4. (k - 1) + 1 = k /\ k - 1 \in 0..Len(ps)
  BY <1>1
<1>5. k \in 1..Len(ps) /\ k \in 0..Len(ps) /\ x.part = p
  BY <1>3, <1>4
<1>6. x \in Item /\ Exact(x.v)
  BY <1>5 DEF Placed
<1>7. x.v \in Loop /\ x.v.len \in Nat
  <2>1. x.v \in Loop
    BY <1>6 DEF Item
  <2> QED
    BY <2>1 DEF Loop
<1>8. p \in Part /\ p.code = p.spec /\ p.sub = p.code /\ (p.skip \/ ~p.var \/ (p.desc /\ table \in Misread))
  BY <1>2 DEF PlainPart
<1>9. p.code \in Nat
  BY <1>8 DEF Part
<1>10. p.skip \/ x.v.len = 0
  <2>1. CASE p.desc /\ table \in Misread
    BY <1>5, <2>1 DEF Placed
  <2>2. CASE ~p.var
    BY <1>5, <1>6, <2>2 DEF Item
  <2> QED
    BY <1>8, <2>1, <2>2
<1>11. (IF p.skip THEN x.v.len ELSE 0) = x.v.len
  BY <1>10
<1>12. SpecEnds(ps)[k] = SpecEnds(ps)[k - 1] + (x.part.spec + x.v.len)
  BY <1>5 DEF Placed, EndsSound
<1>13. /\ SpecEnds(ps)[k - 1] \in Nat /\ SpecEnds(ps)[k] \in Nat /\ SpecEnds(ps)[k] <= sec.size
  BY <1>1, <1>4, <1>5 DEF Placed, EndsSound
<1>14. SpecEnds(ps)[k] = pdata + p.code + x.v.len
  <2> HIDE DEF p, x, ps
  <2>1. SpecEnds(ps)[k] = SpecEnds(ps)[k - 1] + (p.code + x.v.len)
    BY <1>5, <1>8, <1>12
  <2> QED
    BY <1>1, <1>7, <1>9, <1>13, <2>1
<1> HIDE DEF p, x, ps
<1>15. Ready(p, x)
  BY <1>1, <1>2, <1>5, <1>6, <1>7, <1>8, <1>9, <1>11, <1>13, <1>14 DEF Ready, ps
<1> QED
  BY <1>15 DEF p, x, ps

Stay == table' = table /\ sec' = sec /\ L' = L

(* Begin puts the walk in front of the first part. *)
LEMMA BeginInLine ==
  ASSUME NEW mark, Placed(mark), InLine(mark), Stay, Begin
  PROVE  InLine(mark)'
<1>1. /\ pc' = "parts" /\ aligned' = TRUE /\ todo' = L.head /\ after' = "loop" /\ pdata' = 0 /\ k' = 1
      /\ reach' = 0 /\ fresh' = 0 /\ section_len' = Len16(L, sec.claimed)
      /\ left' = IF L.loop = "count" THEN sec.n ELSE 0
  BY DEF Begin
<1>2. /\ sec.size \in Nat /\ sec.size <= 4095 /\ sec.claimed = sec.size
      /\ sec.n \in Nat /\ sec.parts \in Seq(Item) /\ Len(sec.parts) \in Nat
      /\ SpecEnds(sec.parts)[0] = 0 /\ mark[0] = Len(L.head) /\ Follows(sec, 0, L.head)
      /\ L.head \in Seq(PlainPart(table)) /\ Len(L.head) \in Nat
  BY DEF Placed, Shape, EndsSound, PlainLayout
<1>3. section_len' = sec.size
  BY <1>1, <1>2, Len16Small
<1>4. Seen' = 0
  BY <1>1 DEF Seen
<1>5. OnTrack'
  <2>1. k' - 1 = 0 /\ k' \in 1..(Len(sec.parts) + 1) /\ sec.size - 0 = sec.size /\ sec.n - 0 = sec.n
        /\ 0 \in 0..sec.n
    BY <1>1, <1>2
  <2> QED
    BY <1>1, <1>2, <1>3, <1>4, <2>1 DEF OnTrack, Stay
<1>6. InParts(mark)'
  <2>1. k' - 1 = 0 /\ 0 + Len(L.head) = Len(L.head)
    BY <1>1, <1>2
  <2> QED
    BY <1>1, <1>2, <1>4, <2>1 DEF InParts, Stay, Follows
<1> QED
  BY <1>1, <1>2, <1>5, <1>6 DEF InLine, Stay

(* What is behind the next part follows it. *)
LEMMA FollowsTail ==
  ASSUME NEW S, NEW s, NEW m \in Nat, NEW f \in Seq(S), f # <<>>, Follows(s, m, f)
  PROVE  Follows(s, m + 1, Tail(f)) /\ Tail(f) \in Seq(S) /\ Len(Tail(f)) = Len(f) - 1 /\ Len(f) \in Nat
<1>1. /\ Tail(f) \in Seq(S) /\ Len(Tail(f)) = Len(f) - 1 /\ Len(f) \in Nat
      /\ \A j \in 1..(Len(f) - 1) : Tail(f)[j] = f[j + 1]
  OBVIOUS
<1>2. ASSUME NEW j \in 1..Len(Tail(f))
      PROVE  (m + 1) + j \in 1..Len(s.parts) /\ s.parts[(m + 1) + j].part = Tail(f)[j]
  <2>1. j + 1 \in 1..Len(f) /\ Tail(f)[j] = f[j + 1] /\ (m + 1) + j = m + (j + 1)
    BY <1>1
  <2>2. m + (j + 1) \in 1..Len(s.parts) /\ s.parts[m + (j + 1)].part = f[j + 1]
    BY <2>1 DEF Follows
  <2> QED
    BY <2>1, <2>2
<1> QED
  BY <1>1, <1>2 DEF Follows

(* ReadPart passes the part that is next. *)
LEMMA ReadInLine ==
  ASSUME NEW mark, Placed(mark), InLine(mark), Stay, ReadPart
  PROVE  InLine(mark)'
<1> DEFINE p == Head(todo)
           x == sec.parts[k]
<1>1. /\ pc = "parts" /\ todo # <<>> /\ pc' = "parts" /\ aligned' = InPlace /\ k' = k + 1
      /\ todo' = Tail(todo) /\ after' = after /\ left' = left /\ fresh' = fresh
      /\ \E v \in Values(p) :
          /\ InPlace => v = x.v
          /\ pdata' = pdata + p.code + (IF p.skip THEN v.len ELSE 0)
          /\ section_len' = Len16(L, section_len - Deducted(p, v))
          /\ reach' = IF p.desc /\ v.len > 0 THEN pdata + p.code + DescReach(p, v) ELSE reach
  BY DEF ReadPart
<1>2. aligned /\ OnTrack /\ InParts(mark) /\ (table # "SCTE" => reach <= sec.size)
  BY <1>1, Zenon DEF InLine, Walking
<1>3. Ready(p, x)
  BY <1>1, <1>2, NextPart
<1>4. /\ k \in 1..Len(sec.parts) /\ x.part = p /\ x.v \in Loop /\ x.v.len \in Nat /\ p.code \in Nat
      /\ Exact(x.v) /\ (IF p.skip THEN x.v.len ELSE 0) = x.v.len /\ p.sub = p.code
      /\ SpecEnds(sec.parts)[k] = pdata + p.code + x.v.len
      /\ SpecEnds(sec.parts)[k] \in Nat /\ SpecEnds(sec.parts)[k] <= sec.size
      /\ pdata \in Nat
  BY <1>3, Zenon DEF Ready
<1>5. /\ k \in 1..(Len(sec.parts) + 1) /\ pdata = SpecEnds(sec.parts)[k - 1] /\ section_len = sec.size - pdata
      /\ Seen \in 0..sec.n /\ (L.loop = "count" => left = sec.n - fresh)
      /\ sec.size \in Nat /\ sec.size <= 4095 /\ Len(sec.parts) \in Nat
  BY <1>2 DEF OnTrack, Placed, Shape
<1>6. InPlace
  <2>1. k <= Len(sec.parts)
    BY <1>4, <1>5
  <2>2. pdata = SpecPos(k)
    BY <1>5 DEF SpecPos
  <2>3. sec.parts[k].part = Head(todo)
    BY <1>4
  <2> QED
    BY <1>2, <2>1, <2>2, <2>3, Zenon DEF InPlace
<1>7. aligned'
  BY <1>1, <1>6, Zenon
<1>8. /\ pdata' = pdata + p.code + x.v.len
      /\ section_len' = Len16(L, section_len - (p.code + x.v.len))
      /\ reach' = IF p.desc /\ x.v.len > 0 THEN pdata + p.code + DescReach(p, x.v) ELSE reach
  <2> HIDE DEF p, x
  <2> QED
    BY <1>1, <1>4, <1>6, Zenon DEF Deducted
<1> DEFINE e == SpecEnds(sec.parts)[k]
           len == x.v.len
           code == p.code
<1>9. pdata' = e
  BY <1>4, <1>8
<1>10. section_len' = sec.size - e
  <2> HIDE DEF p, x, e, len, code
  <2>1. e = pdata + code + len /\ code \in Nat /\ len \in Nat /\ e \in Nat /\ e <= sec.size
    BY <1>4 DEF e, len, code
  <2>2. section_len - (code + len) = sec.size - e /\ sec.size - e \in Nat /\ sec.size - e <= 4095
    <3> DEFINE size == sec.size
    <3>1. section_len = size - pdata /\ pdata \in Nat /\ size \in Nat /\ size <= 4095 /\ e <= size
      BY <1>4, <1>5, <2>1
    <3> HIDE DEF size
    <3>2. section_len - (code + len) = size - e /\ size - e \in Nat /\ size - e <= 4095
      BY ONLY <2>1, <3>1
    <3> QED
      BY <3>2 DEF size
  <2>3. section_len' = Len16(L, section_len - (code + len))
    BY <1>8 DEF len, code
  <2> QED
    BY <2>2, <2>3, Len16Small
<1>11. table # "SCTE" => reach' <= sec.size
  <2> SUFFICES ASSUME table # "SCTE" PROVE reach' <= sec.size
    OBVIOUS
  <2>1. DescReach(p, x.v) = x.v.len
    BY <1>4, WalkExact DEF DescReach
  <2>2. reach' = e \/ reach' = reach
    BY <1>4, <1>8, <2>1
  <2> QED
    BY <1>2, <1>4, <2>2
<1> HIDE DEF e, p, x, len, code
<1>12. Seen' = Seen
  BY <1>1 DEF Seen, Stay
<1>13. (k + 1) - 1 = k /\ k + 1 \in 1..(Len(sec.parts) + 1) /\ k - 1 \in Nat /\ (k - 1) + 1 = k
  BY <1>4, <1>5
<1>14. OnTrack'
  BY <1>1, <1>5, <1>9, <1>10, <1>12, <1>13 DEF OnTrack, Stay, e
<1>15. InParts(mark)'
  <2>1. Follows(sec, k - 1, todo) /\ todo \in Seq(PlainPart(table))
    BY <1>2 DEF InParts
  <2>2. /\ Follows(sec, (k - 1) + 1, Tail(todo)) /\ Tail(todo) \in Seq(PlainPart(table))
        /\ Len(Tail(todo)) = Len(todo) - 1 /\ Len(todo) \in Nat
    BY <1>1, <1>13, <2>1, FollowsTail
  <2>3. k + Len(Tail(todo)) = k - 1 + Len(todo)
    BY <1>4, <2>2
  <2>4. \/ after = "loop" /\ k + Len(Tail(todo)) = mark[Seen]
        \/ after = "done" /\ k + Len(Tail(todo)) = Len(sec.parts)
    BY <1>2, <2>3 DEF InParts
  <2>5. Follows(sec, k, Tail(todo))
    BY <1>13, <2>2
  <2> QED
    BY <1>1, <1>12, <1>13, <2>2, <2>4, <2>5 DEF InParts, Stay, Follows
<1>16. pc' = "parts" /\ pc' # "lost" /\ pc' # "cut" /\ pc' # "done" /\ pc' # "loop"
  BY <1>1
<1> QED
  BY <1>7, <1>11, <1>14, <1>15, <1>16, Zenon DEF InLine, Stay

(* The head, an entry or the tail ends where the next part begins, or at the
   end of the section. *)
LEMMA PartsDoneInLine ==
  ASSUME NEW mark, Placed(mark), InLine(mark), Stay, PartsDone
  PROVE  InLine(mark)'
<1>1. /\ pc = "parts" /\ todo = <<>> /\ pc' = after
      /\ UNCHANGED <<todo, after, pdata, section_len, left, k, aligned, reach, fresh>>
  BY DEF PartsDone, walkvars, listvars
<1>2. aligned /\ OnTrack /\ InParts(mark) /\ (table # "SCTE" => reach <= sec.size)
  BY <1>1, Zenon DEF InLine, Walking
<1>3. Len(todo) = 0 /\ k \in Int /\ (k - 1) + 0 = k - 1
  BY <1>1, <1>2 DEF OnTrack
<1>4. aligned'
  BY <1>1, <1>2, Zenon
<1>5. OnTrack'
  BY <1>1, <1>2 DEF OnTrack, Stay, Seen
<1>6. Seen' = Seen
  BY <1>1 DEF Seen, Stay
<1>7. CASE after = "loop"
  <2>1. k - 1 = mark[Seen]
    BY <1>2, <1>3, <1>7 DEF InParts
  <2>2. AtEntry(mark)'
    BY <1>1, <1>6, <1>7, <2>1 DEF AtEntry
  <2>3. pc' = "loop" /\ pc' # "lost" /\ pc' # "cut" /\ pc' # "done" /\ pc' # "parts"
    BY <1>1, <1>7
  <2> QED
    BY <1>1, <1>2, <1>4, <1>5, <2>2, <2>3, Zenon DEF InLine, Stay
<1>8. CASE after = "done"
  <2>1. k - 1 = Len(sec.parts)
    BY <1>2, <1>3, <1>8 DEF InParts
  <2>2. pdata' = sec.size
    BY <1>1, <1>2, <2>1 DEF OnTrack, Placed, Shape, SpecSize
  <2>3. pc' = "done" /\ pc' # "lost" /\ pc' # "cut" /\ pc' # "loop" /\ pc' # "parts"
    BY <1>1, <1>8
  <2> QED
    BY <1>1, <1>2, <1>4, <2>2, <2>3, Zenon DEF InLine, Stay, Walking
<1> QED
  BY <1>2, <1>7, <1>8 DEF InParts

(* At a loop test: the walk is in front of an entry of the section, or at the
   end of it. *)
LEMMA AtLoop ==
  ASSUME NEW mark, Placed(mark), InLine(mark), pc = "loop"
  PROVE  /\ aligned /\ OnTrack /\ AtEntry(mark) /\ (table # "SCTE" => reach <= sec.size)
         /\ pdata \in Nat /\ pdata <= sec.size /\ section_len = sec.size - pdata /\ sec.n \in Nat
         /\ Seen \in 0..sec.n
         /\ L.loop \in {"s16", "u16", "count"} /\ LoopTest => fresh \in 0..sec.n /\ fresh < sec.n
         /\ L.loop # "all" /\ (L.loop = "none" \/ ~LoopTest) =>
              IF L.tail = <<>> THEN pdata = sec.size ELSE k - 1 = mark[sec.n]
<1>1. aligned /\ OnTrack /\ AtEntry(mark) /\ (table # "SCTE" => reach <= sec.size)
  BY Zenon DEF InLine, Walking
<1>2. /\ k \in 1..(Len(sec.parts) + 1) /\ pdata = SpecEnds(sec.parts)[k - 1] /\ section_len = sec.size - pdata
      /\ Seen \in 0..sec.n /\ (L.loop = "count" => left = sec.n - fresh) /\ k - 1 = mark[Seen]
  BY <1>1 DEF OnTrack, AtEntry
<1>3. /\ sec.n \in Nat /\ Len(sec.parts) \in Nat /\ mark[sec.n] + Len(L.tail) = Len(sec.parts)
      /\ sec.size = SpecEnds(sec.parts)[Len(sec.parts)] /\ mark \in [0..sec.n -> Nat]
      /\ sec.size \in Nat
      /\ L.loop = "none" => sec.n = 0
      /\ L.loop \in {"none", "all", "stt", "count", "s16", "u16"}
      /\ L.loop \in {"all", "stt", "s16", "u16"} => L.tail = <<>>
  BY DEF Placed, Shape, SpecSize, PlainLayout
<1>4. pdata \in Nat /\ pdata <= sec.size
  <2>1. k - 1 \in 0..Len(sec.parts)
    BY <1>2, <1>3
  <2> QED
    BY <1>2, <1>3, <2>1 DEF Placed, EndsSound, SpecSize
<1>5. L.tail = <<>> /\ Seen = sec.n => pdata = sec.size
  <2> SUFFICES ASSUME L.tail = <<>>, Seen = sec.n PROVE pdata = sec.size
    OBVIOUS
  <2>1. Len(L.tail) = 0 /\ mark[sec.n] \in Nat
    BY <1>3
  <2>2. k - 1 = Len(sec.parts)
    BY <1>2, <1>3, <2>1
  <2> QED
    BY <1>2, <1>3, <2>2
<1>6. L.loop \in {"s16", "u16", "count"} /\ LoopTest => fresh \in 0..sec.n /\ fresh < sec.n
  <2> SUFFICES ASSUME L.loop \in {"s16", "u16", "count"}, LoopTest PROVE fresh \in 0..sec.n /\ fresh < sec.n
    OBVIOUS
  <2>1. Seen = fresh /\ fresh \in 0..sec.n
    BY <1>2 DEF Seen
  <2>2. CASE L.loop = "count"
    <3>1. left > 0 /\ left = sec.n - fresh
      BY <1>2, <2>2 DEF LoopTest
    <3> QED
      BY <1>3, <2>1, <3>1
  <2>3. CASE L.loop # "count"
    <3>1. section_len > 0 /\ L.tail = <<>>
      BY <1>3, <2>3 DEF LoopTest
    <3>2. pdata # sec.size
      BY <1>2, <1>3, <1>4, <3>1
    <3>3. fresh # sec.n
      BY <1>5, <2>1, <3>1, <3>2
    <3> QED
      BY <1>3, <2>1, <3>3
  <2> QED
    BY <2>2, <2>3
<1>7. ASSUME L.loop # "all", L.loop = "none" \/ ~LoopTest
      PROVE  IF L.tail = <<>> THEN pdata = sec.size ELSE k - 1 = mark[sec.n]
  <2>1. CASE L.loop = "none"
    <3>1. Seen = 0 /\ sec.n = 0
      BY <1>3, <2>1 DEF Seen
    <3> QED
      BY <1>2, <1>5, <3>1
  <2>2. CASE L.loop = "count"
    <3>1. ~(left > 0) /\ left = sec.n - fresh /\ Seen = fresh /\ fresh \in 0..sec.n
      BY <1>2, <1>7, <2>2 DEF LoopTest, Seen
    <3>2. Seen = sec.n
      BY <1>3, <3>1
    <3> QED
      BY <1>2, <1>5, <3>2
  <2>3. CASE L.loop # "none" /\ L.loop # "count"
    <3>1. ~(section_len > 0) /\ L.tail = <<>>
      BY <1>3, <1>7, <2>3 DEF LoopTest
    <3>2. pdata = sec.size
      BY <1>2, <1>3, <1>4, <3>1
    <3> QED
      BY <3>1, <3>2
  <2> QED
    BY <2>1, <2>2, <2>3
<1> QED
  BY <1>1, <1>2, <1>3, <1>4, <1>6, <1>7, Zenon

(* The next entry of the section is read in the form it has. *)
LEMMA NextEntryInLine ==
  ASSUME NEW mark, Placed(mark), InLine(mark), Stay, NextEntry
  PROVE  InLine(mark)'
<1>1. /\ pc = "loop" /\ L.loop \in {"s16", "u16", "count"} /\ LoopTest
      /\ \E f \in L.forms : (aligned /\ sec.n > fresh => f = sec.forms[fresh + 1]) /\ todo' = f
      /\ (pc' = "fault" \/ pc' = "parts") /\ fresh' = fresh + 1
      /\ left' = IF left > 0 THEN left - 1 ELSE 0
      /\ UNCHANGED <<after, pdata, section_len, k, aligned, reach>>
  BY DEF NextEntry
<1>2. /\ aligned /\ OnTrack /\ AtEntry(mark) /\ (table # "SCTE" => reach <= sec.size)
      /\ fresh \in 0..sec.n /\ fresh < sec.n /\ sec.n \in Nat
  BY <1>1, AtLoop, Zenon
<1>3. sec.n > fresh /\ fresh + 1 \in 1..sec.n /\ fresh + 1 \in 0..sec.n /\ (fresh + 1) - 1 = fresh
  BY <1>2
<1>4. todo' = sec.forms[fresh + 1]
  BY <1>1, <1>2, <1>3, Zenon
<1> DEFINE f == sec.forms[fresh + 1]
<1>5. f \in L.forms /\ mark[fresh + 1] = mark[fresh] + Len(f) /\ Follows(sec, mark[fresh], f)
  BY <1>3 DEF Placed, Shape
<1>6. f \in Seq(PlainPart(table))
  BY <1>5 DEF Placed, PlainLayout
<1> HIDE DEF f
<1>7. Seen = fresh /\ Seen' = fresh + 1
  BY <1>1 DEF Seen, Stay
<1>8. after = "loop" /\ k - 1 = mark[fresh]
  BY <1>2, <1>7 DEF AtEntry
<1>9. L.loop = "count" => left' = sec.n - (fresh + 1)
  <2> SUFFICES ASSUME L.loop = "count" PROVE left' = sec.n - (fresh + 1)
    OBVIOUS
  <2>1. left = sec.n - fresh
    BY <1>2 DEF OnTrack
  <2> QED
    BY <1>1, <1>2, <2>1
<1>10. OnTrack'
  BY <1>1, <1>2, <1>3, <1>7, <1>9 DEF OnTrack, Stay
<1>11. InParts(mark)'
  BY <1>1, <1>4, <1>5, <1>6, <1>7, <1>8 DEF InParts, Stay, Follows, f
<1>12. aligned'
  BY <1>1, <1>2, Zenon
<1>13. pc' # "lost" /\ pc' # "cut" /\ pc' # "loop" /\ pc' # "done"
  BY <1>1
<1> QED
  BY <1>1, <1>2, <1>10, <1>11, <1>12, <1>13, Zenon DEF InLine, Stay

(* The walk of a section in its place is neither lost nor cut. *)
LEMMA NeverLost ==
  ASSUME NEW mark, Placed(mark), InLine(mark)
  PROVE  ~Lost /\ ~Cut
<1>1. ASSUME Lost PROVE FALSE
  <2>1. pc = "loop" /\ pdata > sec.claimed + MaxPast
    BY <1>1 DEF Lost, Far
  <2>2. pdata \in Nat /\ pdata <= sec.size /\ sec.size \in Nat /\ sec.claimed = sec.size
    BY <2>1, AtLoop DEF Placed
  <2>3. MaxPast \in Nat
    BY BoundsAssumption
  <2> QED
    BY <2>1, <2>2, <2>3
<1>2. ASSUME Cut PROVE FALSE
  <2>1. pc = "loop" /\ fresh > sec.n + MaxExtra /\ L.loop \in {"s16", "u16", "count"} /\ LoopTest
    BY <1>2 DEF Cut, Crowded
  <2>2. fresh \in 0..sec.n /\ sec.n \in Nat
    BY <2>1, AtLoop, Zenon
  <2>3. MaxExtra \in Nat
    BY BoundsAssumption
  <2> QED
    BY <2>1, <2>2, <2>3
<1> QED
  BY <1>1, <1>2

(* The descriptors of a CAT or a TSDT are walked to the end of the section. *)
LEMMA AllInLine ==
  ASSUME NEW mark, Placed(mark), InLine(mark), Stay, AllDescriptors
  PROVE  InLine(mark)'
<1>1. /\ pc = "loop" /\ L.loop = "all"
      /\ pc' = IF section_len > sec.size THEN "lost" ELSE "done"
      /\ reach' = IF section_len > sec.size THEN section_len
                                            ELSE parse_descriptors(section_len, sec.parts[1].v.ds)
      /\ pdata' = section_len /\ aligned' = aligned
  BY DEF AllDescriptors
<1>2. aligned /\ OnTrack /\ AtEntry(mark) /\ section_len = sec.size - pdata
  BY <1>1, AtLoop, Zenon
<1>3. /\ L.head = <<>> /\ L.tail = <<>> /\ L.forms = {<<D(0)>>} /\ sec.n = 1 /\ sec.size \in Nat
      /\ mark[0] = Len(L.head) /\ mark[1] + Len(L.tail) = Len(sec.parts) /\ 1 \in 1..sec.n
  BY <1>1 DEF Placed, PlainLayout, Shape
<1>4. mark[0] = 0 /\ pdata = 0
  <2>1. Seen = 0 /\ mark[0] = 0
    BY <1>1, <1>3 DEF Seen
  <2>2. k - 1 = 0 /\ pdata = SpecEnds(sec.parts)[k - 1]
    BY <1>2, <2>1 DEF AtEntry, OnTrack
  <2> QED
    BY <2>1, <2>2 DEF Placed, EndsSound
<1>5. sec.forms[1] = <<D(0)>> /\ mark[1] = mark[0] + Len(sec.forms[1]) /\ Follows(sec, mark[0], sec.forms[1])
  <2>1. /\ sec.forms[1] \in L.forms /\ mark[1] = mark[1 - 1] + Len(sec.forms[1])
        /\ Follows(sec, mark[1 - 1], sec.forms[1])
    BY <1>3 DEF Placed, Shape
  <2>2. 1 - 1 = 0
    OBVIOUS
  <2> QED
    BY <1>3, <2>1, <2>2
<1>6. Len(<<D(0)>>) = 1 /\ <<D(0)>>[1] = D(0) /\ 1 \in 1..1 /\ 0 + 1 = 1
  OBVIOUS
<1>7. Len(sec.parts) = 1 /\ sec.parts[1].part = D(0)
  <2>1. mark[1] = 1 /\ Len(L.tail) = 0
    BY <1>3, <1>4, <1>5, <1>6
  <2>2. sec.parts[0 + 1].part = <<D(0)>>[1]
    BY <1>4, <1>5, <1>6 DEF Follows
  <2> QED
    BY <1>3, <1>6, <2>1, <2>2
<1>8. sec.parts[1].v \in Loop /\ Exact(sec.parts[1].v) /\ sec.parts[1].v.len \in Nat
  <2>1. sec.parts[1] \in Item /\ Exact(sec.parts[1].v)
    BY <1>6, <1>7 DEF Placed
  <2>2. sec.parts[1].v \in Loop
    BY <2>1 DEF Item
  <2> QED
    BY <2>1, <2>2 DEF Loop
<1>9. sec.size = sec.parts[1].v.len
  <2>1. sec.size = SpecEnds(sec.parts)[1] /\ SpecEnds(sec.parts)[0] = 0
    BY <1>7 DEF Placed, Shape, SpecSize, EndsSound
  <2>2. SpecEnds(sec.parts)[1] = SpecEnds(sec.parts)[1 - 1] + (sec.parts[1].part.spec + sec.parts[1].v.len)
    BY <1>6, <1>7 DEF Placed, EndsSound
  <2>3. sec.parts[1].part.spec = 0 /\ 1 - 1 = 0
    BY <1>7 DEF D
  <2> QED
    BY <1>8, <2>1, <2>2, <2>3
<1>10. section_len = sec.size /\ ~(section_len > sec.size)
  BY <1>2, <1>3, <1>4
<1>11. reach' = sec.size
  BY <1>1, <1>8, <1>9, <1>10, WalkExact
<1>12. pc' = "done" /\ pdata' = sec.size /\ reach' <= sec.size
  BY <1>1, <1>3, <1>10, <1>11
<1>13. aligned'
  BY <1>1, <1>2, Zenon
<1>14. pc' # "lost" /\ pc' # "cut" /\ pc' # "loop" /\ pc' # "parts"
  BY <1>12
<1> QED
  BY <1>12, <1>13, <1>14, Zenon DEF InLine, Stay, Walking

(* Behind the last entry the tail is read in its place, or the walk is at the
   end of the section. *)
LEMMA LoopDoneInLine ==
  ASSUME NEW mark, Placed(mark), InLine(mark), Stay, LoopDone
  PROVE  InLine(mark)'
<1>1. /\ pc = "loop" /\ L.loop # "all" /\ (L.loop = "none" \/ ~LoopTest)
      /\ UNCHANGED <<pdata, section_len, left, k, aligned, reach, fresh>>
      /\ IF L.tail = <<>> THEN pc' = "done" /\ UNCHANGED <<todo, after>>
         ELSE pc' = "parts" /\ todo' = L.tail /\ after' = "done"
  BY DEF LoopDone, listvars
<1>2. /\ aligned /\ OnTrack /\ (table # "SCTE" => reach <= sec.size)
      /\ IF L.tail = <<>> THEN pdata = sec.size ELSE k - 1 = mark[sec.n]
  BY <1>1, AtLoop, Zenon
<1>3. aligned' /\ (table # "SCTE" => reach' <= sec.size)
  BY <1>1, <1>2, Zenon
<1>4. CASE L.tail = <<>>
  <2>1. pc' = "done" /\ pdata' = sec.size
    BY <1>1, <1>2, <1>4
  <2>2. pc' # "lost" /\ pc' # "cut" /\ pc' # "loop" /\ pc' # "parts"
    BY <2>1
  <2> QED
    BY <1>3, <2>1, <2>2, Zenon DEF InLine, Stay, Walking
<1>5. CASE L.tail # <<>>
  <2>1. pc' = "parts" /\ todo' = L.tail /\ after' = "done" /\ k - 1 = mark[sec.n]
    BY <1>1, <1>2, <1>5
  <2>2. /\ Follows(sec, mark[sec.n], L.tail) /\ mark[sec.n] + Len(L.tail) = Len(sec.parts)
        /\ L.tail \in Seq(PlainPart(table))
    BY DEF Placed, Shape, PlainLayout
  <2>3. OnTrack'
    BY <1>1, <1>2 DEF OnTrack, Seen, Stay
  <2>4. InParts(mark)'
    BY <1>1, <2>1, <2>2 DEF InParts, Stay, Follows
  <2>5. pc' # "lost" /\ pc' # "cut" /\ pc' # "loop" /\ pc' # "done"
    BY <2>1
  <2> QED
    BY <1>3, <2>3, <2>4, <2>5, Zenon DEF InLine, Stay
<1> QED
  BY <1>4, <1>5

(* A new walk starts in its place. *)
LEMMA NextSectionInLine ==
  ASSUME NEW mark, Placed(mark), Stay, NextSection
  PROVE  InLine(mark)'
<1>1. pc' = "idle" /\ aligned' = TRUE /\ reach' = 0
  BY DEF NextSection
<1>2. 0 <= sec.size
  BY DEF Placed
<1>3. pc' # "lost" /\ pc' # "cut" /\ pc' # "loop" /\ pc' # "parts" /\ pc' # "done"
  BY <1>1
<1>4. aligned' /\ reach' <= sec.size
  BY <1>1, <1>2
<1> QED
  BY <1>3, <1>4, Zenon DEF InLine, Stay, Walking

(* The other steps leave the walk alone. *)
LEMMA OthersInLine ==
  ASSUME NEW mark, Placed(mark), InLine(mark), Stay,
         Refuse \/ Alloc_fails \/ Stuffing \/ SttLoop \/ UNCHANGED vars
  PROVE  InLine(mark)'
<1>1. UNCHANGED <<todo, after, pdata, section_len, left, k, aligned, reach>>
  BY DEF Refuse, Alloc_fails, Stuffing, SttLoop, vars, walkvars
<1>2. aligned' /\ (table # "SCTE" => reach' <= sec.size)
  BY <1>1, Zenon DEF InLine
<1>3. CASE pc' \in {"refused", "nomem", "stuffed"}
  <2>1. pc' # "lost" /\ pc' # "cut" /\ pc' # "loop" /\ pc' # "parts" /\ pc' # "done"
    BY <1>3
  <2> QED
    BY <1>2, <2>1, Zenon DEF InLine, Stay, Walking
<1>4. CASE pc' = pc /\ Seen' = Seen /\ (L.loop = "count" => fresh' = fresh)
  <2>1. OnTrack => OnTrack'
    BY <1>1, <1>4 DEF OnTrack, Stay
  <2>2. AtEntry(mark) => AtEntry(mark)'
    BY <1>1, <1>4 DEF AtEntry
  <2>3. InParts(mark) => InParts(mark)'
    BY <1>1, <1>4 DEF InParts, Stay, Follows
  <2>4. /\ pc # "lost" /\ pc # "cut" /\ (pc = "done" => pdata = sec.size) /\ (Walking => OnTrack)
        /\ (pc = "loop" => AtEntry(mark)) /\ (pc = "parts" => InParts(mark))
    BY Zenon DEF InLine
  <2> QED
    BY <1>1, <1>2, <1>4, <2>1, <2>2, <2>3, <2>4, Zenon DEF InLine, Stay, Walking
<1>5. CASE SttLoop
  <2>1. pc' = pc /\ L.loop = "stt" /\ Seen' = Seen
    BY <1>5 DEF SttLoop, Seen, Stay
  <2> QED
    BY <1>4, <2>1
<1>6. CASE UNCHANGED vars
  <2>1. pc' = pc /\ fresh' = fresh
    BY <1>6 DEF vars, listvars
  <2>2. Seen' = Seen
    BY <2>1 DEF Seen, Stay
  <2> QED
    BY <1>4, <2>1, <2>2
<1>7. CASE Refuse \/ Alloc_fails \/ Stuffing
  <2>1. pc' \in {"refused", "nomem", "stuffed"}
    BY <1>7 DEF Refuse, Alloc_fails, Stuffing
  <2> QED
    BY <1>3, <2>1
<1> QED
  BY <1>5, <1>6, <1>7

LEMMA AlignedInductive ==
  ASSUME KnownTables, ShortSections, Fixed, AlignedInv, [Next]_vars
  PROVE  AlignedInv'
<1>1. Stay
  BY FixedInductive DEF Stay
<1>2. Found' => Found
  BY <1>1 DEF Found, Conforming, Conforms, NoDescriptors, Stay
<1> SUFFICES ASSUME Found PROVE \E mark : (Shape(sec, L, mark) /\ InLine(mark))'
  BY <1>2, Zenon DEF AlignedInv
<1>3. PICK mark : Shape(sec, L, mark) /\ InLine(mark)
  BY Zenon DEF AlignedInv
<1>4. Placed(mark)
  BY <1>3, PlacedIn
<1>5. Shape(sec, L, mark)'
  BY <1>1, <1>3 DEF Shape, Stay, Follows
<1>6. InLine(mark)'
  <2>1. CASE Begin
    BY <1>1, <1>3, <1>4, <2>1, BeginInLine
  <2>2. CASE ReadPart
    BY <1>1, <1>3, <1>4, <2>2, ReadInLine
  <2>3. CASE PartsDone
    BY <1>1, <1>3, <1>4, <2>3, PartsDoneInLine
  <2>4. CASE NextEntry
    BY <1>1, <1>3, <1>4, <2>4, NextEntryInLine
  <2>5. CASE Lost \/ Cut
    BY <1>3, <1>4, <2>5, NeverLost
  <2>6. CASE AllDescriptors
    BY <1>1, <1>3, <1>4, <2>6, AllInLine
  <2>7. CASE LoopDone
    BY <1>1, <1>3, <1>4, <2>7, LoopDoneInLine
  <2>8. CASE NextSection
    BY <1>1, <1>3, <1>4, <2>8, NextSectionInLine
  <2>9. CASE Refuse \/ Alloc_fails \/ Stuffing \/ SttLoop \/ UNCHANGED vars
    BY <1>1, <1>3, <1>4, <2>9, OthersInLine
  <2> QED
    BY <2>1, <2>2, <2>3, <2>4, <2>5, <2>6, <2>7, <2>8, <2>9 DEF Next
<1> QED
  BY <1>5, <1>6

(* A section is in line before it is walked. *)
LEMMA AlignedInit ==
  ASSUME KnownTables, ShortSections, Init
  PROVE  AlignedInv
<1> SUFFICES ASSUME Found PROVE \E mark : Shape(sec, L, mark) /\ InLine(mark)
  BY Zenon DEF AlignedInv
<1>1. Fixed
  BY DEF Init, Fixed
<1>2. PICK mark : Shape(sec, L, mark) /\ Placed(mark)
  BY <1>1, PlacedIn
<1>3. pc = "idle" /\ aligned /\ reach = 0
  BY DEF Init
<1>4. 0 <= sec.size
  BY <1>2 DEF Placed
<1>5. InLine(mark)
  BY <1>3, <1>4 DEF InLine, Walking
<1> QED
  BY <1>2, <1>5

(* In a section that keeps to its syntax every parser, but for the tables the
   property names, reads every field where it is: the walk stays aligned, is
   never lost, ends at the CRC, and parse_descriptors reads no byte behind the
   section; for sections with any entries that a section_length of 12 bits
   allows, any number of sections one after the other. *)
THEOREM SectionsReadInPlace ==
  ASSUME KnownTables, ShortSections
  PROVE  Spec => []Aligned
<1>1. Init => Fixed /\ AlignedInv
  BY AlignedInit DEF Init, Fixed
<1>2. Fixed /\ AlignedInv /\ [Next]_vars => (Fixed /\ AlignedInv)'
  BY FixedInductive, AlignedInductive
<1>3. AlignedInv => Aligned
  <2> SUFFICES ASSUME AlignedInv, Found
               PROVE  /\ aligned /\ pc \notin {"lost", "cut"}
                      /\ pc = "done" => pdata = sec.size
                      /\ table # "SCTE" => reach <= sec.size
    BY Zenon DEF Aligned
  <2>1. PICK mark : InLine(mark)
    BY Zenon DEF AlignedInv
  <2> QED
    BY <2>1, Zenon DEF InLine
<1> QED
  BY <1>1, <1>2, <1>3, PTL DEF Spec

-----------------------------------------------------------------------------
(* The loops end *)

(* The tables whose loop section_len steers: the one part of an entry, and
   what it takes off at least and at most *)
Counted == Steered \cup {"EIT"}
EntryPart(t) ==
  {p \in Part : /\ p.sub = p.code /\ p.code >= 4
                /\ t = "PAT" => p.code = 4 /\ ~p.var
                /\ t \in Signed => p.code <= 6 /\ p.bits = 12
                /\ t = "NIT" => p.skip}
EntryLayout(t, lay) ==
  /\ lay.tail = <<>> /\ \A f \in lay.forms : f \in Seq(EntryPart(t)) /\ Len(f) = 1
  /\ t = "PAT" => lay.head = <<>>

LEMMA EntryLayouts ==
  ASSUME NEW t \in Counted
  PROVE  EntryLayout(t, LayoutOf(t)) /\ LayoutOf(t).loop = IF t \in {"PAT", "EIT"} THEN "u16" ELSE "s16"
<1>1. /\ LayoutOf("PAT") = parse_pat /\ LayoutOf("PMT") = parse_pmt /\ LayoutOf("NIT") = parse_nit
      /\ LayoutOf("BAT") = parse_bat /\ LayoutOf("SDT") = parse_sdt /\ LayoutOf("EIT") = parse_eit
  BY DEF LayoutOf
<1>2. /\ parse_pat.head = <<>> /\ parse_pat.forms = {One(P(4))} /\ parse_pat.tail = <<>>
      /\ parse_pmt.forms = {One(D(5))} /\ parse_pmt.tail = <<>>
      /\ parse_nit.forms = {One(Bits(16, D(6)))} /\ parse_nit.tail = <<>>
      /\ parse_bat.forms = {One(D(6))} /\ parse_bat.tail = <<>>
      /\ parse_sdt.forms = {One(D(5))} /\ parse_sdt.tail = <<>>
      /\ parse_eit.forms = {One(Stays(D(12)))} /\ parse_eit.tail = <<>>
  BY DEF Layout, parse_pat, parse_pmt, parse_nit, parse_bat, parse_sdt, parse_eit, One
<1>3. {P(4), D(5), D(6), Bits(16, D(6)), Stays(D(12))} \subseteq Part
  <2>1. P(4) \in Part /\ D(5) \in Part /\ D(6) \in Part /\ D(12) \in Part
    BY PartTypes
  <2> QED
    BY <2>1, PartTypes
<1>4. /\ P(4).sub = 4 /\ P(4).code = 4 /\ ~P(4).var
      /\ D(5).sub = 5 /\ D(5).code = 5 /\ D(5).bits = 12
      /\ D(6).sub = 6 /\ D(6).code = 6 /\ D(6).bits = 12
  BY DEF P, D
<1>5. /\ Bits(16, D(6)).sub = 6 /\ Bits(16, D(6)).code = 6 /\ Bits(16, D(6)).skip
      /\ Stays(D(12)).sub = 12 /\ Stays(D(12)).code = 12
  BY DEF D, Bits, Stays
<1>6. /\ P(4) \in EntryPart("PAT") /\ D(5) \in EntryPart("PMT") /\ D(5) \in EntryPart("SDT")
      /\ D(6) \in EntryPart("BAT")
  BY <1>3, <1>4 DEF EntryPart, Signed
<1>7. Bits(16, D(6)) \in EntryPart("NIT") /\ Stays(D(12)) \in EntryPart("EIT")
  BY <1>3, <1>5 DEF EntryPart, Signed
<1>8. \A S : \A p \in S : One(p) \in Seq(S) /\ Len(One(p)) = 1
  BY DEF One
<1>9. /\ EntryLayout("PAT", parse_pat) /\ EntryLayout("PMT", parse_pmt)
      /\ EntryLayout("NIT", parse_nit) /\ EntryLayout("BAT", parse_bat)
      /\ EntryLayout("SDT", parse_sdt) /\ EntryLayout("EIT", parse_eit)
  <2>1. /\ One(P(4)) \in Seq(EntryPart("PAT")) /\ Len(One(P(4))) = 1
        /\ One(D(5)) \in Seq(EntryPart("PMT")) /\ One(D(5)) \in Seq(EntryPart("SDT"))
        /\ Len(One(D(5))) = 1
        /\ One(Bits(16, D(6))) \in Seq(EntryPart("NIT")) /\ Len(One(Bits(16, D(6)))) = 1
        /\ One(D(6)) \in Seq(EntryPart("BAT")) /\ Len(One(D(6))) = 1
        /\ One(Stays(D(12))) \in Seq(EntryPart("EIT")) /\ Len(One(Stays(D(12)))) = 1
    BY <1>6, <1>7, <1>8, Zenon
  <2> QED
    BY <1>2, <2>1, Zenon DEF EntryLayout
<1>10. LayoutOf(t).loop = IF t \in {"PAT", "EIT"} THEN "u16" ELSE "s16"
  BY LayoutsSay DEF Says, Counted, Steered
<1> QED
  BY <1>1, <1>9, <1>10 DEF Counted, Steered

(* The inductive invariant: an entry is begun only with something left in the
   counter, which is in its range; that of a PAT stays a multiple of four when
   it was one. *)
ShrinkInv ==
  /\ left \in Nat
  /\ table \in Counted =>
       /\ section_len \in Int /\ (pc = "parts" => todo \in Seq(Part))
       /\ L.loop = "s16" => section_len <= 32767
       /\ L.loop = "u16" => section_len >= 0 /\ section_len <= 65535
       /\ pc = "parts" /\ todo # <<>> /\ (table = "PAT" \/ (after = "loop" /\ fresh > 0)) =>
            todo \in L.forms /\ section_len > 0
       /\ table = "PAT" /\ sec.claimed % 4 = 0 => section_len % 4 = 0

(* What is kept in 16 bits is in their range, and a multiple of four stays
   one. *)
LEMMA Len16Range ==
  ASSUME NEW lay, NEW a \in Int
  PROVE  /\ Len16(lay, a) \in Int
         /\ lay.loop = "s16" => Len16(lay, a) <= 32767
         /\ lay.loop # "s16" => Len16(lay, a) >= 0 /\ Len16(lay, a) <= 65535
         /\ lay.loop # "s16" /\ a % 4 = 0 => Len16(lay, a) % 4 = 0
<1>1. a % 65536 \in Int /\ a % 65536 >= 0 /\ a % 65536 <= 65535
  OBVIOUS
<1>2. (a + 32768) % 65536 \in Int /\ (a + 32768) % 65536 <= 65535
  OBVIOUS
<1>3. a % 4 = 0 => (a % 65536) % 4 = 0
  OBVIOUS
<1> QED
  BY <1>1, <1>2, <1>3 DEF Len16, Int16, UInt16

(* The entry that is next takes something off. *)
LEMMA EntryBytes ==
  ASSUME NEW t \in Counted, NEW p \in EntryPart(t), NEW v \in Values(p)
  PROVE  /\ v.len \in Nat /\ p.code \in Nat /\ Deducted(p, v) = p.code + v.len
         /\ Deducted(p, v) \in Nat /\ Deducted(p, v) >= 4
         /\ t = "PAT" => Deducted(p, v) = 4
         /\ t \in Signed => Deducted(p, v) <= 4101
<1>1. p \in Part /\ p.sub = p.code /\ p.code >= 4
  BY DEF EntryPart
<1>2. p.code \in Nat
  BY <1>1 DEF Part
<1>3. v.len \in Nat /\ (p.bits = 12 => v.len <= 4095) /\ (~p.var => v.len = 0)
  BY ValuesType
<1>4. Deducted(p, v) = p.code + v.len
  BY <1>1 DEF Deducted
<1>5. t = "PAT" => p.code = 4 /\ v.len = 0
  BY <1>3 DEF EntryPart
<1>6. t \in Signed => p.code <= 6 /\ v.len <= 4095
  BY <1>3 DEF EntryPart
<1> QED
  BY <1>1, <1>2, <1>3, <1>4, <1>5, <1>6

(* The one part of an entry *)
LEMMA OnePart ==
  ASSUME NEW S, NEW q \in Seq(S), Len(q) = 1
  PROVE  Head(q) \in S /\ Tail(q) = <<>>
<1>1. q # <<>> /\ Head(q) \in S
  OBVIOUS
<1>2. Tail(q) \in Seq(S) /\ Len(Tail(q)) = 0
  BY <1>1
<1>3. \A r \in Seq(S) : Len(r) = 0 => r = <<>>
  OBVIOUS
<1> QED
  BY <1>1, <1>2, <1>3

LEMMA ShrinkInductive ==
  ASSUME KnownTables, Fixed, ShrinkInv, [Next]_vars
  PROVE  ShrinkInv'
<1>1. Fixed' /\ table' = table /\ sec' = sec /\ L' = L
  BY FixedInductive
<1>2. left' \in Nat
  <2>1. sec.n \in Nat
    BY DEF Fixed, Sections, Section
  <2> QED
    BY <2>1 DEF ShrinkInv, Next, vars, walkvars, Begin, Refuse, ReadPart, PartsDone, NextEntry, Alloc_fails,
       Lost, Cut, Stuffing, AllDescriptors, SttLoop, LoopDone, NextSection
<1> SUFFICES ASSUME table \in Counted
    PROVE  /\ section_len' \in Int /\ (pc' = "parts" => todo' \in Seq(Part))
           /\ L.loop = "s16" => section_len' <= 32767
           /\ L.loop = "u16" => section_len' >= 0 /\ section_len' <= 65535
           /\ pc' = "parts" /\ todo' # <<>> /\ (table = "PAT" \/ (after' = "loop" /\ fresh' > 0)) =>
                todo' \in L.forms /\ section_len' > 0
           /\ table = "PAT" /\ sec.claimed % 4 = 0 => section_len' % 4 = 0
  BY <1>1, <1>2 DEF ShrinkInv
<1>3. EntryLayout(table, L) /\ L.loop = IF table \in {"PAT", "EIT"} THEN "u16" ELSE "s16"
  BY EntryLayouts DEF L
<1>4. /\ section_len \in Int /\ (pc = "parts" => todo \in Seq(Part))
      /\ L.loop = "s16" => section_len <= 32767
      /\ L.loop = "u16" => section_len >= 0 /\ section_len <= 65535
      /\ pc = "parts" /\ todo # <<>> /\ (table = "PAT" \/ (after = "loop" /\ fresh > 0)) =>
           todo \in L.forms /\ section_len > 0
      /\ table = "PAT" /\ sec.claimed % 4 = 0 => section_len % 4 = 0
  BY DEF ShrinkInv
<1>5. CASE Begin
  <2>1. fresh' = 0 /\ todo' = L.head /\ section_len' = Len16(L, sec.claimed)
    BY <1>5 DEF Begin
  <2>2. sec.claimed \in Int /\ L.head \in Seq(Part)
    <3>1. SoundLayout(L) /\ sec \in Sections(L)
      <4>1. table \in AllTables /\ table # "CVCT"
        BY DEF Counted, Steered, AllTables
      <4>2. PlainLayout(table, L)
        BY <4>1, PlainLayouts DEF L
      <4> QED
        BY <4>2, PlainSound DEF Fixed, L
    <3> QED
      BY <3>1, SectionType DEF SoundLayout
  <2>3. /\ section_len' \in Int
        /\ L.loop = "s16" => section_len' <= 32767
        /\ L.loop # "s16" => section_len' >= 0 /\ section_len' <= 65535
        /\ L.loop # "s16" /\ sec.claimed % 4 = 0 => section_len' % 4 = 0
    BY <2>1, <2>2, Len16Range
  <2>4. table = "PAT" => todo' = <<>>
    BY <1>3, <2>1 DEF EntryLayout
  <2> QED
    BY <1>3, <2>1, <2>2, <2>3, <2>4
<1>6. CASE ReadPart
  <2> DEFINE p == Head(todo)
  <2>1. /\ pc = "parts" /\ todo # <<>> /\ todo' = Tail(todo) /\ after' = after /\ fresh' = fresh
        /\ \E v \in Values(p) : section_len' = Len16(L, section_len - Deducted(p, v))
    BY <1>6 DEF ReadPart
  <2>2. PICK v \in Values(p) : section_len' = Len16(L, section_len - Deducted(p, v))
    BY <2>1
  <2>3. ASSUME table = "PAT" \/ (after = "loop" /\ fresh > 0)
        PROVE  p \in EntryPart(table) /\ Tail(todo) = <<>>
    <3>1. todo \in L.forms
      BY <1>4, <2>1, <2>3
    <3>2. todo \in Seq(EntryPart(table)) /\ Len(todo) = 1
      BY <1>3, <3>1 DEF EntryLayout
    <3> QED
      BY <3>2, OnePart
  <2>4. todo \in Seq(Part) /\ p \in Part /\ Tail(todo) \in Seq(Part)
    BY <1>4, <2>1
  <2>5. Deducted(p, v) \in Int
    <3>1. v.len \in Nat
      BY ValuesType
    <3>2. p.sub \in Nat
      BY <2>4 DEF Part
    <3> QED
      BY <3>1, <3>2 DEF Deducted
  <2> DEFINE d == Deducted(p, v)
             a == section_len - d
  <2>6. a \in Int
    BY <1>4, <2>5
  <2>7. section_len' = Len16(L, a)
    BY <2>2
  <2>8. table = "PAT" /\ sec.claimed % 4 = 0 => a % 4 = 0
    <3> SUFFICES ASSUME table = "PAT", sec.claimed % 4 = 0 PROVE a % 4 = 0
      OBVIOUS
    <3>1. d = 4
      BY <2>3, EntryBytes
    <3>2. section_len % 4 = 0
      BY <1>4
    <3> HIDE DEF d
    <3> QED
      BY <1>4, <3>1, <3>2
  <2> HIDE DEF a, d, p
  <2>9. /\ section_len' \in Int
        /\ L.loop = "s16" => section_len' <= 32767
        /\ L.loop # "s16" => section_len' >= 0 /\ section_len' <= 65535
        /\ L.loop # "s16" /\ a % 4 = 0 => section_len' % 4 = 0
    BY <2>6, <2>7, Len16Range
  <2> QED
    BY <1>3, <2>1, <2>3, <2>4, <2>8, <2>9
<1>7. CASE NextEntry
  <2>1. /\ pc = "loop" /\ todo' \in L.forms /\ LoopTest /\ section_len' = section_len
    BY <1>7 DEF NextEntry
  <2>2. section_len > 0
    BY <1>3, <2>1 DEF LoopTest
  <2>3. todo' \in Seq(Part)
    <3>1. todo' \in Seq(EntryPart(table))
      BY <1>3, <2>1 DEF EntryLayout
    <3>2. EntryPart(table) \subseteq Part
      BY DEF EntryPart
    <3> QED
      BY <3>1, <3>2, SeqWider
  <2> QED
    BY <1>4, <2>1, <2>2, <2>3
<1>8. CASE LoopDone
  <2>1. pc' = "done" /\ section_len' = section_len
    BY <1>3, <1>8 DEF LoopDone, EntryLayout
  <2> QED
    BY <1>4, <2>1
<1>9. CASE AllDescriptors \/ SttLoop
  BY <1>3, <1>9 DEF AllDescriptors, SttLoop
<1>10. CASE NextSection
  <2>1. pc' = "idle" /\ section_len' = 0
    BY <1>10 DEF NextSection
  <2> QED
    BY <2>1
<1>11. CASE PartsDone \/ Refuse \/ Alloc_fails \/ Lost \/ Cut \/ Stuffing \/ UNCHANGED vars
  <2>1. section_len' = section_len /\ todo' = todo /\ after' = after /\ fresh' = fresh
    BY <1>11 DEF PartsDone, Refuse, Alloc_fails, Lost, Cut, Stuffing, vars, walkvars, listvars
  <2>2. pc' = "parts" => pc = "parts"
    BY <1>11 DEF PartsDone, Refuse, Alloc_fails, Lost, Cut, Stuffing, vars
  <2> QED
    BY <1>4, <2>1, <2>2
<1> QED
  BY <1>5, <1>6, <1>7, <1>8, <1>9, <1>10, <1>11 DEF Next

(* The entry of an EIT whose events are where the syntax puts them *)
LEMMA FoundEntryShrinks ==
  ASSUME KnownTables, ShortSections, Fixed, AlignedInv, Found, ReadPart, ShrinkInv,
         table \in Counted, after = "loop", fresh > 0
  PROVE  section_len' < section_len
<1>1. PICK mark : Shape(sec, L, mark) /\ InLine(mark)
  BY Zenon DEF AlignedInv
<1>2. Placed(mark)
  BY <1>1, PlacedIn
<1>3. Stay
  BY FixedInductive DEF Stay, Next
<1>4. InLine(mark)'
  BY <1>1, <1>2, <1>3, ReadInLine
<1>5. pc = "parts" /\ pc' = "parts" /\ todo # <<>> /\ k' = k + 1
  BY DEF ReadPart
<1>6. OnTrack /\ InParts(mark)
  BY <1>1, <1>5, Zenon DEF InLine, Walking
<1>7. OnTrack'
  BY <1>4, <1>5, Zenon DEF InLine, Walking
<1>8. /\ section_len = sec.size - pdata /\ section_len' = sec.size - pdata'
      /\ pdata' = SpecEnds(sec.parts)[(k + 1) - 1] /\ k \in Int
  BY <1>3, <1>5, <1>6, <1>7 DEF OnTrack, Stay
<1>9. Ready(Head(todo), sec.parts[k])
  BY <1>2, <1>5, <1>6, NextPart
<1> DEFINE c == Head(todo).code
           n == sec.parts[k].v.len
<1>10. SpecEnds(sec.parts)[k] = pdata + c + n /\ c \in Nat /\ n \in Nat /\ pdata \in Nat
  BY <1>9 DEF Ready
<1>11. c >= 4
  <2>1. todo \in L.forms
    BY <1>5 DEF ShrinkInv
  <2>2. todo \in Seq(EntryPart(table)) /\ Len(todo) = 1
    BY <2>1, EntryLayouts DEF EntryLayout, L
  <2>3. Head(todo) \in EntryPart(table)
    BY <2>2, OnePart
  <2> QED
    BY <2>3 DEF EntryPart
<1> HIDE DEF c, n
<1>12. pdata' = pdata + c + n
  <2>1. (k + 1) - 1 = k
    BY <1>8
  <2> QED
    BY <1>8, <1>10, <2>1
<1>13. sec.size \in Nat
  BY <1>2 DEF Placed
<1> QED
  BY <1>8, <1>10, <1>11, <1>12, <1>13

(* An entry lowers section_len, but where RunsOn says. *)
LEMMA EntryShrinks ==
  ASSUME KnownTables, ShortSections, Fixed, AlignedInv, ShrinkInv, InStepInv, ReadPart,
         after = "loop", fresh > 0, L.loop \in {"s16", "u16"}
  PROVE  section_len' < section_len \/ RunsOn \/ (table = "NIT" /\ pdata' - pdata > 32768)
<1> DEFINE p == Head(todo)
<1>1. table \in Counted
  <2>1. table \in AllTables
    BY DEF Fixed, KnownTables
  <2> QED
    BY <2>1, LayoutsSay DEF Says, L, AllTables, Counted, Steered
<1>2. EntryLayout(table, L) /\ L.loop = IF table \in {"PAT", "EIT"} THEN "u16" ELSE "s16"
  BY <1>1, EntryLayouts DEF L
<1>3. /\ pc = "parts" /\ todo # <<>>
      /\ \E v \in Values(p) : /\ section_len' = Len16(L, section_len - Deducted(p, v))
                              /\ pdata' = pdata + p.code + (IF p.skip THEN v.len ELSE 0)
  BY DEF ReadPart
<1>4. PICK v \in Values(p) : /\ section_len' = Len16(L, section_len - Deducted(p, v))
                             /\ pdata' = pdata + p.code + (IF p.skip THEN v.len ELSE 0)
  BY <1>3
<1>5. /\ section_len \in Int /\ todo \in L.forms /\ section_len > 0
      /\ L.loop = "s16" => section_len <= 32767
      /\ L.loop = "u16" => section_len <= 65535
      /\ table = "PAT" /\ sec.claimed % 4 = 0 => section_len % 4 = 0
  BY <1>1, <1>3 DEF ShrinkInv
<1>6. p \in EntryPart(table)
  <2>1. todo \in Seq(EntryPart(table)) /\ Len(todo) = 1
    BY <1>2, <1>5 DEF EntryLayout
  <2> QED
    BY <2>1, OnePart
<1> DEFINE d == Deducted(p, v)
<1>7. /\ v.len \in Nat /\ p.code \in Nat /\ d = p.code + v.len /\ d \in Nat /\ d >= 4
      /\ table = "PAT" => d = 4
      /\ table \in Signed => d <= 4101
  BY <1>1, <1>6, EntryBytes
<1>8. section_len' = Len16(L, section_len - d)
  BY <1>4
<1>9. ASSUME L.loop = "s16", d <= 32768 PROVE section_len' < section_len
  <2> HIDE DEF d
  <2>1. section_len - d \in Int /\ -32768 <= section_len - d /\ section_len - d <= 32767
    BY <1>5, <1>7, <1>9
  <2>2. Int16(section_len - d) = section_len - d
    BY <2>1, Int16Small
  <2>3. section_len' = section_len - d
    BY <1>8, <1>9, <2>2 DEF Len16
  <2> QED
    BY <1>5, <1>7, <2>3
<1>10. CASE table \in Signed
  <2>1. L.loop = "s16"
    BY <1>2, <1>10 DEF Signed
  <2>2. d <= 32768
    <3> HIDE DEF d
    <3> QED
      BY <1>7, <1>10
  <2> QED
    BY <1>9, <2>1, <2>2
<1>11. CASE table = "NIT"
  <2>1. L.loop = "s16"
    BY <1>2, <1>11
  <2>2. p.skip
    BY <1>6, <1>11 DEF EntryPart
  <2>3. pdata \in Int
    BY <1>11 DEF InStepInv, Steered
  <2>4. pdata' - pdata = d
    <3>1. pdata' = pdata + p.code + v.len
      BY <1>4, <2>2
    <3> HIDE DEF d, p
    <3> QED
      BY <1>7, <2>3, <3>1
  <2>5. d <= 32768 \/ d > 32768
    <3> HIDE DEF d
    <3> QED
      BY <1>7
  <2> HIDE DEF d
  <2> QED
    BY <1>9, <1>11, <2>1, <2>4, <2>5
<1>12. CASE table = "PAT"
  <2> SUFFICES ASSUME sec.claimed % 4 = 0 PROVE section_len' < section_len
    BY <1>12 DEF RunsOn
  <2>1. L.loop = "u16" /\ d = 4
    BY <1>2, <1>7, <1>12
  <2>2. section_len % 4 = 0 /\ section_len <= 65535
    BY <1>5, <1>12, <2>1
  <2> HIDE DEF d
  <2>3. section_len >= 4
    BY <1>5, <2>2
  <2>4. (section_len - 4) % 65536 = section_len - 4
    BY <1>5, <2>2, <2>3
  <2>5. section_len' = section_len - 4
    BY <1>8, <2>1, <2>4 DEF Len16, UInt16
  <2> QED
    BY <1>5, <2>5
<1>13. CASE table = "EIT"
  BY <1>1, <1>13, FoundEntryShrinks DEF RunsOn
<1> QED
  BY <1>1, <1>10, <1>11, <1>12, <1>13 DEF Counted, Steered, Signed

(* Every turn of a loop of a section parser lowers the count or section_len
   that steers it, whatever the lengths of the section say and however many
   entries it has, but in the four parsers the property names. *)
THEOREM LoopsEnd ==
  ASSUME KnownTables, ShortSections
  PROVE  Spec => LoopsShrink
<1> DEFINE Inv == Fixed /\ InStepInv /\ AlignedInv /\ ShrinkInv
<1>1. Init => Inv
  <2> SUFFICES ASSUME Init PROVE Inv
    OBVIOUS
  <2>1. Fixed /\ InStepInv
    BY DEF Init, Fixed, InStepInv, Walking
  <2>2. ShrinkInv
    BY DEF Init, ShrinkInv
  <2>3. AlignedInv
    BY <2>1, AlignedInit
  <2> QED
    BY <2>1, <2>2, <2>3
<1>2. Inv /\ [Next]_vars => Inv'
  BY FixedInductive, InStepInductive, AlignedInductive, ShrinkInductive
<1>3. Inv /\ [Next]_vars => [Shrinks]_vars
  <2> SUFFICES ASSUME Inv, Next PROVE Shrinks
    OBVIOUS
  <2>1. ASSUME Reading, L.loop \in {"s16", "u16"}
        PROVE  section_len' < section_len \/ RunsOn \/ (table = "NIT" /\ pdata' - pdata > 32768)
    <3>1. pc = "parts" /\ pc' = "parts" /\ after = "loop" /\ fresh > 0
      BY <2>1 DEF Reading
    <3>2. ReadPart
      BY <3>1 DEF Next, Begin, Refuse, PartsDone, NextEntry, Alloc_fails, Lost, Cut, Stuffing,
                  AllDescriptors, SttLoop, LoopDone, NextSection
    <3> QED
      BY <2>1, <3>1, <3>2, EntryShrinks
  <2>2. ASSUME Turning, L.loop = "count" PROVE left' < left
    <3>1. pc = "loop" /\ fresh' # fresh
      BY <2>2 DEF Turning
    <3>2. NextEntry
      BY <2>2, <3>1 DEF Next, Begin, Refuse, ReadPart, PartsDone, Alloc_fails, Lost, Cut, Stuffing,
                  AllDescriptors, SttLoop, LoopDone, NextSection, listvars
    <3>3. left \in Nat /\ left > 0 /\ left' = IF left > 0 THEN left - 1 ELSE 0
      BY <2>2, <3>2 DEF NextEntry, LoopTest, ShrinkInv
    <3> QED
      BY <3>3
  <2>3. ASSUME pc = "loop", pc' = "loop" PROVE table = "STT"
    <3>1. SttLoop
      BY <2>3 DEF Next, Begin, Refuse, ReadPart, PartsDone, NextEntry, Alloc_fails, Lost, Cut, Stuffing,
                  AllDescriptors, LoopDone, NextSection
    <3>2. table \in AllTables
      BY DEF Fixed, KnownTables
    <3> QED
      BY <3>1, <3>2, TableFacts DEF SttLoop, L
  <2> QED
    BY <2>1, <2>2, <2>3 DEF Shrinks
<1> HIDE DEF Inv
<1> QED
  BY <1>1, <1>2, <1>3, PTL DEF Spec, LoopsShrink

=============================================================================
