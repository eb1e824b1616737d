---------------------------- MODULE FilterProofs ----------------------------
(***************************************************************************)
(* Proofs about Filter (src/src/filter.c), for every set of PIDs and       *)
(* filters and every bound: the registry is well-typed, its map never goes *)
(* stale, a dispatch calls exactly the filters that match, and the slot    *)
(* array with its map implements the abstract FilterRegistry.              *)
(***************************************************************************)
EXTENDS Filter, SequenceTheorems, WellFoundedInduction, TLAPS

(* A nonempty set of naturals has a least element, so that the loops of
   filter_rebuild and filter_lookup, which keep the first slot they find,
   name a slot. *)
LEMMA LeastElement ==
  ASSUME NEW S \in SUBSET Nat, S # {}
  PROVE  LET m == CHOOSE i \in S : \A j \in S : i <= j
         IN  m \in S /\ \A j \in S : m <= j
<1>1. \E i \in S : \A j \in S : i <= j
  <2>1. \E i \in S : \A j \in S : ~(<<j, i>> \in OpToRel(<, Nat))
    BY WFMin, NatLessThanWellFounded, Zenon
  <2>2. ASSUME NEW i \in Nat, NEW j \in Nat, j < i
        PROVE  <<j, i>> \in OpToRel(<, Nat)
    BY <2>2 DEF OpToRel
  <2>3. \A i, j \in Nat : i <= j \/ j < i
    OBVIOUS
  <2> QED
    BY <2>1, <2>2, <2>3, Zenon
<1> QED
  BY <1>1

(* What filter_free's swap-pop leaves: every slot but the freed one. *)
LEMMA SwapPopProperties ==
  ASSUME NEW sl \in Seq(Slot), NEW k \in 1 .. Len(sl)
  PROVE  /\ swap_pop(sl, k) \in Seq(Slot)
         /\ Len(swap_pop(sl, k)) = Len(sl) - 1
         /\ \A i \in 1 .. (Len(sl) - 1) :
              swap_pop(sl, k)[i] = IF i = k THEN sl[Len(sl)] ELSE sl[i]
<1>1. Len(sl) \in Nat /\ Len(sl) - 1 \in Nat
  OBVIOUS
<1>2. \A i \in 1 .. (Len(sl) - 1) :
        (IF i = k THEN sl[Len(sl)] ELSE sl[i]) \in Slot
  BY <1>1
<1> QED
  BY <1>1, <1>2 DEF swap_pop

(* The map filter_rebuild computes names slots of the array it was given. *)
LEMMA RebuildMapType ==
  ASSUME NEW sl \in Seq(Slot)
  PROVE  /\ rebuild_map(sl) \in [Tids -> Nat]
         /\ rebuild_multi(sl) \in BOOLEAN
         /\ \A t \in Tids : ExactSlots(sl, t) # {} =>
              rebuild_map(sl)[t] \in ExactSlots(sl, t)
<1>1. ASSUME NEW t \in Tids, ExactSlots(sl, t) # {}
      PROVE  (CHOOSE i \in ExactSlots(sl, t) :
                \A j \in ExactSlots(sl, t) : i <= j) \in ExactSlots(sl, t)
  <2>1. ExactSlots(sl, t) \in SUBSET Nat
    BY DEF ExactSlots
  <2> QED
    BY <1>1, <2>1, LeastElement
<1>2. \A t \in Tids : ExactSlots(sl, t) \subseteq Nat
  BY DEF ExactSlots
<1>3. rebuild_multi(sl) \in BOOLEAN
  BY DEF rebuild_multi
<1> QED
  BY <1>1, <1>2, <1>3 DEF rebuild_map, NoSlot

(* Without duplicates and special masks, the map and the scan agree: the
   filters that match a table_id are those the map names. *)
LEMMA MapIsScan ==
  ASSUME NEW sl \in Seq(Slot), NEW t \in Tids, ~rebuild_multi(sl),
         NEW i \in 1 .. Len(sl)
  PROVE  filter_match(sl[i].para, t) <=> rebuild_map(sl)[t] = i
<1>1. sl[i].para \in Params /\ Exact(sl[i].para)
  <2>1. sl[i] \in Slot
    OBVIOUS
  <2> QED
    BY <2>1 DEF rebuild_multi, Slot
<1>2. filter_match(sl[i].para, t) <=> i \in ExactSlots(sl, t)
  BY <1>1, FilterConstants DEF filter_match, MaskedEq, Exact, ExactSlots, Masks
<1>3. \A j \in ExactSlots(sl, t) : i \in ExactSlots(sl, t) => j = i
  BY DEF rebuild_multi, ExactSlots
<1>4. rebuild_map(sl)[t] \in Nat
  BY RebuildMapType
<1>5. CASE ExactSlots(sl, t) = {}
  BY <1>2, <1>5 DEF rebuild_map, NoSlot
<1>6. CASE ExactSlots(sl, t) # {}
  BY <1>2, <1>3, <1>6, RebuildMapType
<1> QED
  BY <1>5, <1>6

-----------------------------------------------------------------------------
(* The inductive invariant: DispatchExact needs to know how far a dispatch
   has got, that the map it follows is not stale, and that slots stay put
   while callbacks register more. *)
IInv == TypeOK /\ WithinCapacity /\ UniqueIds /\ MapCoherent /\ DispatchInv

(* What filter_alloc and filter_set do to the registry. *)
LEMMA RegisterEffect ==
  ASSUME TypeOK, NEW p \in Pids, NEW para \in Params, NEW id \in Ids,
         Register(p, para, id)
  PROVE  LET e == [id |-> id, para |-> para] IN
         /\ e \in Slot
         /\ slots' = [slots EXCEPT ![p] = Append(slots[p], e)]
         /\ slots' \in [Pids -> Seq(Slot)]
         /\ \A q \in Pids : q # p => slots'[q] = slots[q]
         /\ Len(slots'[p]) = Len(slots[p]) + 1
         /\ \A i \in 1 .. Len(slots[p]) : slots'[p][i] = slots[p][i]
         /\ slots'[p][Len(slots[p]) + 1] = e
         /\ \A q \in Pids : \A i \in 1 .. Len(slots[q]) : slots[q][i].id # id
         /\ map' = [map EXCEPT ![p] = rebuild_map(slots'[p])]
         /\ multi' = [multi EXCEPT ![p] = rebuild_multi(slots'[p])]
<1> DEFINE e == [id |-> id, para |-> para]
<1>1. e \in Slot
  BY DEF Slot
<1>2. /\ slots[p] \in Seq(Slot)
      /\ slots' = [slots EXCEPT ![p] = Append(slots[p], e)]
      /\ map' = [map EXCEPT ![p] = rebuild_map(Append(slots[p], e))]
      /\ multi' = [multi EXCEPT ![p] = rebuild_multi(Append(slots[p], e))]
  BY DEF Register, filter_rebuild, TypeOK
<1>3. slots'[p] = Append(slots[p], e) /\ slots \in [Pids -> Seq(Slot)]
  BY <1>2 DEF TypeOK
<1>4. \A q \in Pids : \A i \in 1 .. Len(slots[q]) : slots[q][i].id # id
  BY DEF Register, UsedIds
<1> HIDE DEF e
<1>5. /\ Append(slots[p], e) \in Seq(Slot)
      /\ Len(slots'[p]) = Len(slots[p]) + 1
      /\ \A i \in 1 .. Len(slots[p]) : slots'[p][i] = slots[p][i]
      /\ slots'[p][Len(slots[p]) + 1] = e
  BY <1>1, <1>2, <1>3, AppendProperties
<1> USE DEF e
<1> QED
  BY <1>1, <1>2, <1>3, <1>4, <1>5

(* What filter_lookup and filter_free do to the registry. *)
LEMMA UnregisterEffect ==
  ASSUME TypeOK, NEW p \in Pids, NEW para \in Params, Unregister(p, para)
  PROVE  \E k \in 1 .. Len(slots[p]) :
         /\ slots[p][k].para = para
         /\ slots' = [slots EXCEPT ![p] = swap_pop(slots[p], k)]
         /\ slots' \in [Pids -> Seq(Slot)]
         /\ \A q \in Pids : q # p => slots'[q] = slots[q]
         /\ Len(slots'[p]) = Len(slots[p]) - 1
         /\ \A i \in 1 .. (Len(slots[p]) - 1) :
              slots'[p][i] = IF i = k THEN slots[p][Len(slots[p])] ELSE slots[p][i]
         /\ map' = [map EXCEPT ![p] = rebuild_map(slots'[p])]
         /\ multi' = [multi EXCEPT ![p] = rebuild_multi(slots'[p])]
<1> DEFINE L == lookup_slots(p, para)
           k == CHOOSE i \in L : \A j \in L : i <= j
<1>1. L \in SUBSET Nat /\ L # {}
  BY DEF lookup_slots, Unregister
<1>2. k \in L
  <2> HIDE DEF L
  <2> QED BY <1>1, LeastElement
<1>3. k \in 1 .. Len(slots[p]) /\ slots[p][k].para = para
  BY <1>2 DEF lookup_slots
<1>4. filter_rebuild(p, swap_pop(slots[p], k))
  BY DEF Unregister
<1> HIDE DEF k
<1>5. slots[p] \in Seq(Slot) /\ slots \in [Pids -> Seq(Slot)]
  BY DEF TypeOK
<1>6. /\ slots' = [slots EXCEPT ![p] = swap_pop(slots[p], k)]
      /\ slots'[p] = swap_pop(slots[p], k)
      /\ map' = [map EXCEPT ![p] = rebuild_map(swap_pop(slots[p], k))]
      /\ multi' = [multi EXCEPT ![p] = rebuild_multi(swap_pop(slots[p], k))]
  BY <1>4, <1>5 DEF filter_rebuild
<1>7. /\ swap_pop(slots[p], k) \in Seq(Slot)
      /\ Len(swap_pop(slots[p], k)) = Len(slots[p]) - 1
      /\ \A i \in 1 .. (Len(slots[p]) - 1) :
           swap_pop(slots[p], k)[i] = IF i = k THEN slots[p][Len(slots[p])] ELSE slots[p][i]
  BY <1>3, <1>5, SwapPopProperties
<1>8. slots' \in [Pids -> Seq(Slot)] /\ \A q \in Pids : q # p => slots'[q] = slots[q]
  BY <1>5, <1>6, <1>7
<1> k \in 1 .. Len(slots[p])
  BY <1>3
<1> WITNESS k \in 1 .. Len(slots[p])
<1> QED
  BY <1>3, <1>6, <1>7, <1>8

-----------------------------------------------------------------------------
(* A registration, possibly from inside a callback, preserves the invariant:
   the slots a dispatch has visited do not move. *)
LEMMA RegisterPreserves ==
  ASSUME IInv, NEW p \in Pids, NEW para \in Params, NEW id \in Ids,
         Register(p, para, id)
  PROVE  IInv'
<1> DEFINE e == [id |-> id, para |-> para]
<1>1. TypeOK
  BY DEF IInv
<1>e. e \in Slot /\ slots' \in [Pids -> Seq(Slot)]
  BY <1>1, RegisterEffect
<1>2. /\ \A q \in Pids : q # p => slots'[q] = slots[q]
      /\ Len(slots'[p]) = Len(slots[p]) + 1
      /\ \A i \in 1 .. Len(slots[p]) : slots'[p][i] = slots[p][i]
      /\ slots'[p][Len(slots[p]) + 1] = e
  BY <1>1, RegisterEffect
<1>i. \A q \in Pids : \A i \in 1 .. Len(slots[q]) : slots[q][i].id # id
  BY <1>1, RegisterEffect
<1>m. /\ map' = [map EXCEPT ![p] = rebuild_map(slots'[p])]
      /\ multi' = [multi EXCEPT ![p] = rebuild_multi(slots'[p])]
  BY <1>1, RegisterEffect
<1>3. /\ cap' = [cap EXCEPT ![p] = IF Len(slots[p]) >= @ THEN ncap(@) ELSE @]
      /\ phase' = phase /\ pid' = pid /\ tid' = tid /\ pos' = pos
      /\ due' = due /\ called' = called /\ res' = "ok"
      /\ phase \in {"idle", "scan_cb", "hit_cb"}
  BY DEF Register, dispatch, MayRegister
<1>4. e.id = id
  OBVIOUS
<1> HIDE DEF e
<1>5. cap \in [Pids -> Nat] /\ \A q \in Pids : Len(slots[q]) \in Nat /\ Len(slots'[q]) \in Nat
  BY <1>1, <1>e DEF TypeOK
<1>6. TypeOK'
  <2>1. cap' \in [Pids -> Nat]
    BY <1>3, <1>5, FilterConstants DEF ncap
  <2>2. map' \in [Pids -> [Tids -> Nat]] /\ multi' \in [Pids -> BOOLEAN]
    BY <1>1, <1>e, <1>m, RebuildMapType DEF TypeOK
  <2> QED
    BY <1>1, <1>e, <1>3, <2>1, <2>2 DEF TypeOK
<1>7. WithinCapacity'
  <2>1. ASSUME NEW q \in Pids PROVE Len(slots'[q]) <= cap'[q]
    <3>1. Len(slots[q]) <= cap[q] /\ cap[q] \in Nat
      BY <1>5 DEF IInv, WithinCapacity
    <3>2. CASE q = p
      BY <1>2, <1>3, <1>5, <3>1, <3>2, FilterConstants DEF ncap
    <3>3. CASE q # p
      BY <1>2, <1>3, <1>5, <3>1, <3>3
    <3> QED
      BY <3>2, <3>3
  <2> QED
    BY <2>1 DEF WithinCapacity
<1>8. UniqueIds'
  <2> SUFFICES ASSUME NEW q \in Pids, NEW r \in Pids,
                      NEW i \in 1 .. Len(slots'[q]), NEW j \in 1 .. Len(slots'[r]),
                      slots'[q][i].id = slots'[r][j].id
               PROVE  q = r /\ i = j
    BY DEF UniqueIds
  <2>1. \/ i \in 1 .. Len(slots[q]) /\ slots'[q][i] = slots[q][i]
        \/ q = p /\ i = Len(slots[p]) + 1 /\ slots'[q][i] = e
    BY <1>2, <1>5
  <2>2. \/ j \in 1 .. Len(slots[r]) /\ slots'[r][j] = slots[r][j]
        \/ r = p /\ j = Len(slots[p]) + 1 /\ slots'[r][j] = e
    BY <1>2, <1>5
  <2>3. CASE i \in 1 .. Len(slots[q]) /\ slots'[q][i] = slots[q][i]
    <3>1. CASE j \in 1 .. Len(slots[r]) /\ slots'[r][j] = slots[r][j]
      BY <2>3, <3>1 DEF IInv, UniqueIds
    <3>2. CASE r = p /\ j = Len(slots[p]) + 1 /\ slots'[r][j] = e
      BY <1>4, <1>i, <2>3, <3>2
    <3> QED BY <2>2, <3>1, <3>2
  <2>4. CASE q = p /\ i = Len(slots[p]) + 1 /\ slots'[q][i] = e
    <3>1. CASE j \in 1 .. Len(slots[r]) /\ slots'[r][j] = slots[r][j]
      BY <1>4, <1>i, <2>4, <3>1
    <3>2. CASE r = p /\ j = Len(slots[p]) + 1 /\ slots'[r][j] = e
      BY <2>4, <3>2
    <3> QED BY <2>2, <3>1, <3>2
  <2> QED
    BY <2>1, <2>3, <2>4
<1>9. MapCoherent'
  BY <1>1, <1>2, <1>m DEF IInv, MapCoherent, TypeOK
<1>10. DispatchInv'
  <2>1. pid \in Pids /\ pos \in Nat
    BY <1>1 DEF TypeOK
  <2>2. /\ Len(slots[pid]) <= Len(slots'[pid])
        /\ \A i \in 1 .. Len(slots[pid]) : slots'[pid][i] = slots[pid][i]
    BY <1>2, <1>5, <2>1
  <2>3. Wanted \subseteq Wanted'
    BY <1>3, <1>5, <2>1, <2>2 DEF Wanted, Registered
  <2>4. pos <= Len(slots[pid]) => WantedUpTo(pos)' = WantedUpTo(pos)
    <3> SUFFICES ASSUME pos <= Len(slots[pid])
                 PROVE  WantedUpTo(pos)' = WantedUpTo(pos)
      OBVIOUS
    <3>1. \A j : j \in 1 .. Len(slots'[pid]) /\ j <= pos
                 <=> j \in 1 .. Len(slots[pid]) /\ j <= pos
      BY <1>5, <2>1, <2>2
    <3>2. WantedUpTo(pos)' \subseteq WantedUpTo(pos)
      BY <1>3, <2>2, <3>1 DEF WantedUpTo
    <3>3. WantedUpTo(pos) \subseteq WantedUpTo(pos)'
      BY <1>3, <2>2, <3>1 DEF WantedUpTo
    <3> QED
      BY <3>2, <3>3
  <2> QED
    BY <1>3, <1>5, <2>1, <2>2, <2>3, <2>4 DEF IInv, DispatchInv
<1> QED
  BY <1>6, <1>7, <1>8, <1>9, <1>10 DEF IInv

(* Freeing a filter preserves the invariant: the swapped slot keeps its
   identity and the map is rebuilt. *)
LEMMA UnregisterPreserves ==
  ASSUME IInv, NEW p \in Pids, NEW para \in Params, Unregister(p, para)
  PROVE  IInv'
<1> USE FilterConstants
<1>1. TypeOK
  BY DEF IInv
<1>2. PICK k \in 1 .. Len(slots[p]) :
         /\ slots' \in [Pids -> Seq(Slot)]
         /\ \A q \in Pids : q # p => slots'[q] = slots[q]
         /\ Len(slots'[p]) = Len(slots[p]) - 1
         /\ \A i \in 1 .. (Len(slots[p]) - 1) :
              slots'[p][i] = IF i = k THEN slots[p][Len(slots[p])] ELSE slots[p][i]
         /\ map' = [map EXCEPT ![p] = rebuild_map(slots'[p])]
         /\ multi' = [multi EXCEPT ![p] = rebuild_multi(slots'[p])]
  BY <1>1, UnregisterEffect
<1>s. /\ \A q \in Pids : q # p => slots'[q] = slots[q]
      /\ Len(slots'[p]) = Len(slots[p]) - 1
      /\ \A i \in 1 .. (Len(slots[p]) - 1) :
           slots'[p][i] = IF i = k THEN slots[p][Len(slots[p])] ELSE slots[p][i]
  BY <1>2
<1>3. /\ cap' = cap /\ res' = res /\ phase = "idle" /\ phase' = phase
      /\ pid' = pid /\ tid' = tid /\ pos' = pos /\ due' = due /\ called' = called
  BY DEF Unregister, dispatch
<1>4. \A q \in Pids : Len(slots[q]) \in Nat /\ Len(slots'[q]) \in Nat
  BY <1>1, <1>2 DEF TypeOK
<1>5. TypeOK'
  BY <1>1, <1>2, <1>3, RebuildMapType DEF TypeOK
<1>6. WithinCapacity'
  <2>1. ASSUME NEW q \in Pids PROVE Len(slots'[q]) <= cap[q]
    <3>1. Len(slots'[q]) <= Len(slots[q])
      BY <1>s, <1>4
    <3> QED
      BY <1>1, <1>4, <3>1 DEF IInv, WithinCapacity, TypeOK
  <2> QED
    BY <1>3, <2>1 DEF WithinCapacity
<1>7. UniqueIds'
  <2> DEFINE Old(q, i) == IF q = p /\ i = k THEN Len(slots[p]) ELSE i
  <2>1. ASSUME NEW q \in Pids, NEW i \in 1 .. Len(slots'[q])
        PROVE  Old(q, i) \in 1 .. Len(slots[q]) /\ slots'[q][i] = slots[q][Old(q, i)]
    <3>1. CASE q = p
      BY <1>s, <1>4, <3>1
    <3>2. CASE q # p
      BY <1>s, <3>2
    <3> QED BY <3>1, <3>2
  <2> SUFFICES ASSUME NEW q \in Pids, NEW r \in Pids,
                      NEW i \in 1 .. Len(slots'[q]), NEW j \in 1 .. Len(slots'[r]),
                      slots'[q][i].id = slots'[r][j].id
               PROVE  q = r /\ i = j
    BY DEF UniqueIds
  <2>2. q = r /\ Old(q, i) = Old(r, j)
    <3>1. /\ Old(q, i) \in 1 .. Len(slots[q]) /\ Old(r, j) \in 1 .. Len(slots[r])
          /\ slots[q][Old(q, i)].id = slots[r][Old(r, j)].id
      BY <2>1
    <3> HIDE DEF Old
    <3> QED BY <3>1 DEF IInv, UniqueIds
  <2>3. ~(q = p /\ i = Len(slots[p])) /\ ~(r = p /\ j = Len(slots[p]))
    BY <1>s, <1>4
  <2> QED
    BY <2>2, <2>3
<1>8. MapCoherent'
  BY <1>1, <1>2 DEF IInv, MapCoherent, TypeOK
<1>9. DispatchInv'
  BY <1>3 DEF IInv, DispatchInv
<1> QED
  BY <1>5, <1>6, <1>7, <1>8, <1>9 DEF IInv

(* Entering filter_proc: an empty PID, the scan and the map each start in a
   state from which the filters that are due can still all be called. *)
LEMMA ProcBeginPreserves ==
  ASSUME IInv, NEW p \in Pids, NEW t \in Tids, ProcBegin(p, t)
  PROVE  IInv'
<1>1. TypeOK /\ slots[p] \in Seq(Slot) /\ Len(slots[p]) \in Nat /\ map[p] \in [Tids -> Nat]
  BY DEF IInv, TypeOK
<1>2. /\ slots' = slots /\ cap' = cap /\ map' = map /\ multi' = multi /\ res' = res
      /\ pid' = p /\ tid' = t /\ called' = {}
      /\ due' = {x \in Registered(p) : filter_match(x.para, t)}
  BY DEF ProcBegin, registry
<1>3. WithinCapacity' /\ UniqueIds' /\ MapCoherent'
  BY <1>2 DEF IInv, WithinCapacity, UniqueIds, MapCoherent
<1>4. due' = Wanted'
  BY <1>2 DEF Wanted, Registered
<1>5. TypeOK'
  <2>1. due' \subseteq Slot
    BY <1>1, <1>2 DEF Registered
  <2>2. pos' \in Nat /\ phase' \in Phases
    BY <1>1 DEF ProcBegin, Phases
  <2> QED
    BY <1>1, <1>2, <2>1, <2>2 DEF TypeOK
<1>6. DispatchInv'
  <2>1. CASE Len(slots[p]) = 0
    <3>1. Wanted' = {}
      BY <1>2, <2>1 DEF Wanted, Registered
    <3> QED
      BY <1>2, <1>4, <2>1, <3>1 DEF ProcBegin, DispatchInv
  <2>2. CASE Len(slots[p]) # 0 /\ multi[p]
    <3>1. phase' = "scan" /\ pos' = 1
      BY <2>2 DEF ProcBegin
    <3>2. WantedUpTo(0)' = {}
      BY <1>2 DEF WantedUpTo
    <3> QED
      BY <1>2, <1>4, <3>1, <3>2 DEF DispatchInv
  <2>3. CASE Len(slots[p]) # 0 /\ ~multi[p]
    <3> DEFINE m == map[p][t]
    <3>1. m = rebuild_map(slots[p])[t] /\ ~rebuild_multi(slots[p]) /\ m \in Nat
      BY <1>1, <2>3 DEF IInv, MapCoherent
    <3>2. /\ pos' = m
          /\ phase' = IF m # NoSlot /\ m <= Len(slots[p]) THEN "hit" ELSE "ret"
      BY <2>3 DEF ProcBegin
    <3>3. \A i \in 1 .. Len(slots[p]) : filter_match(slots[p][i].para, t) <=> m = i
      BY <1>1, <3>1, MapIsScan
    <3> HIDE DEF m
    <3>4. CASE m # NoSlot /\ m <= Len(slots[p])
      <4>1. m \in 1 .. Len(slots[p])
        BY <1>1, <3>1, <3>4 DEF NoSlot
      <4>2. Wanted' \subseteq {slots[p][m]} /\ filter_match(slots[p][m].para, t)
        BY <1>2, <3>3, <4>1 DEF Wanted, Registered
      <4> QED
        BY <1>1, <1>2, <1>4, <3>2, <3>4, <4>1, <4>2 DEF DispatchInv
    <3>5. CASE ~(m # NoSlot /\ m <= Len(slots[p]))
      <4>1. Wanted' = {}
        BY <1>1, <1>2, <3>3, <3>5 DEF Wanted, Registered, NoSlot
      <4> QED
        BY <1>2, <1>4, <3>2, <3>5, <4>1 DEF DispatchInv
    <3> QED
      BY <3>4, <3>5
  <2> QED
    BY <2>1, <2>2, <2>3
<1> QED
  BY <1>3, <1>5, <1>6 DEF IInv

(* The steps inside filter_proc leave the registry alone and move the scan
   on by one slot. *)
LEMMA DispatchPreserves ==
  ASSUME IInv,
         ScanMatch \/ ScanSkip \/ ScanEnd \/ DirectCall \/ CallbackReturn \/ ProcReturn
  PROVE  IInv'
<1> DEFINE sl == slots[pid]
<1>1. /\ TypeOK /\ sl \in Seq(Slot) /\ Len(sl) \in Nat /\ pos \in Nat
      /\ due \subseteq Slot /\ called \subseteq Slot /\ DispatchInv
  BY DEF IInv, TypeOK
<1>2. /\ slots' = slots /\ cap' = cap /\ map' = map /\ multi' = multi /\ res' = res
      /\ pid' = pid /\ tid' = tid
  BY DEF ScanMatch, ScanSkip, ScanEnd, DirectCall, CallbackReturn, ProcReturn, registry
<1>3. WithinCapacity' /\ UniqueIds' /\ MapCoherent'
  BY <1>2 DEF IInv, WithinCapacity, UniqueIds, MapCoherent
<1>4. Wanted' = Wanted /\ \A k : WantedUpTo(k)' = WantedUpTo(k)
  BY <1>2 DEF Wanted, Registered, WantedUpTo
<1>5. \A k \in Nat : k \in 1 .. Len(sl) => sl[k] \in Slot
  BY <1>1
<1>6. ASSUME pos >= 1, pos <= Len(sl)
      PROVE  WantedUpTo(pos) = WantedUpTo(pos - 1)
               \cup (IF filter_match(sl[pos].para, tid) THEN {sl[pos]} ELSE {})
  <2>1. \A j \in 1 .. Len(sl) : j <= pos <=> j <= pos - 1 \/ j = pos
    BY <1>1, <1>6
  <2>2. pos \in 1 .. Len(sl)
    BY <1>1, <1>6
  <2> QED
    BY <2>1, <2>2 DEF WantedUpTo
<1>7. \A k : WantedUpTo(k) \subseteq Wanted
  BY DEF WantedUpTo, Wanted, Registered
<1>8. CASE ScanMatch
  BY <1>1, <1>2, <1>3, <1>4, <1>5, <1>6, <1>8
     DEF ScanMatch, IInv, DispatchInv, TypeOK, Phases
<1>9. CASE ScanSkip
  <2>1. pos >= 1 /\ called = WantedUpTo(pos)
    BY <1>1, <1>6, <1>9 DEF ScanSkip, DispatchInv
  <2>2. pos' = pos + 1 /\ pos' >= 1 /\ pos' - 1 = pos /\ pos' \in Nat
    BY <1>1, <1>9 DEF ScanSkip
  <2>3. phase' = "scan" /\ due' = due /\ called' = called /\ due \subseteq Wanted
    BY <1>1, <1>9 DEF ScanSkip, DispatchInv
  <2>4. DispatchInv'
    BY <1>4, <2>1, <2>2, <2>3 DEF DispatchInv
  <2> QED
    BY <1>1, <1>2, <1>3, <2>2, <2>3, <2>4 DEF IInv, TypeOK, Phases
<1>10. CASE ScanEnd
  <2>1. Wanted \subseteq WantedUpTo(pos - 1)
    BY <1>1, <1>10 DEF ScanEnd, Wanted, Registered, WantedUpTo
  <2> QED
    BY <1>1, <1>2, <1>3, <1>4, <1>7, <1>10, <2>1
       DEF ScanEnd, IInv, DispatchInv, TypeOK, Phases
<1>11. CASE DirectCall
  <2>1. sl[pos] \in Slot /\ sl[pos] \in Wanted
    BY <1>1, <1>5, <1>11 DEF DirectCall, DispatchInv, Wanted, Registered
  <2> QED
    BY <1>1, <1>2, <1>3, <1>4, <1>11, <2>1
       DEF DirectCall, IInv, DispatchInv, TypeOK, Phases
<1>12. CASE CallbackReturn
  BY <1>1, <1>2, <1>3, <1>4, <1>12
     DEF CallbackReturn, IInv, DispatchInv, TypeOK, Phases
<1>13. CASE ProcReturn
  BY <1>1, <1>2, <1>3, <1>13 DEF ProcReturn, IInv, DispatchInv, TypeOK, Phases
<1> QED
  BY <1>8, <1>9, <1>10, <1>11, <1>12, <1>13

-----------------------------------------------------------------------------
(* The invariant holds in every state of every behaviour of the registry:
   registrations, removals, re-initialisation and dispatches with callbacks
   that register, in any order. *)
THEOREM Invariance == Spec => []IInv
<1>1. Init => IInv
  <2> SUFFICES ASSUME Init PROVE IInv
    OBVIOUS
  <2>1. TypeOK
    BY FilterConstants DEF Init, TypeOK, Phases, NoSlot
  <2>2. WithinCapacity /\ UniqueIds /\ MapCoherent
    BY DEF Init, WithinCapacity, UniqueIds, MapCoherent
  <2>3. DispatchInv
    BY DEF Init, DispatchInv
  <2> QED
    BY <2>1, <2>2, <2>3 DEF IInv
<1>2. IInv /\ [Next]_vars => IInv'
  <2> SUFFICES ASSUME IInv, [Next]_vars PROVE IInv'
    OBVIOUS
  <2>1. ASSUME NEW p \in Pids, RegisterRefused(p) PROVE IInv'
    <3>1. UNCHANGED <<slots, cap, map, multi, phase, pid, tid, pos, due, called>>
      BY <2>1 DEF RegisterRefused, registry, dispatch
    <3>2. TypeOK'
      BY <2>1, <3>1 DEF RegisterRefused, IInv, TypeOK
    <3> QED
      BY <3>1, <3>2 DEF IInv, WithinCapacity, UniqueIds, MapCoherent,
                        DispatchInv, Wanted, WantedUpTo, Registered
  <2>2. CASE FilterInit
    BY <2>2 DEF FilterInit, dispatch, IInv, TypeOK, WithinCapacity, UniqueIds,
                MapCoherent, DispatchInv
  <2>3. CASE UNCHANGED vars
    BY <2>3 DEF vars, IInv, TypeOK, WithinCapacity, UniqueIds, MapCoherent,
                DispatchInv, Wanted, WantedUpTo, Registered
  <2> QED
    BY <2>1, <2>2, <2>3, RegisterPreserves, UnregisterPreserves,
       ProcBeginPreserves, DispatchPreserves DEF Next
<1> QED
  BY <1>1, <1>2, PTL DEF Spec

(* The registry and the dispatch state stay in their domains, and no slot is
   written past the array filter_alloc allocated. *)
THEOREM TypeCorrect == Spec => [](TypeOK /\ WithinCapacity)
<1>1. IInv => TypeOK /\ WithinCapacity
  BY DEF IInv
<1> QED
  BY <1>1, Invariance, PTL

(* After any registrations and swap-pop removals the table_id map is the one
   a fresh rebuild would give. *)
THEOREM MapNeverStale == Spec => []MapCoherent
<1>1. IInv => MapCoherent
  BY DEF IInv
<1> QED
  BY <1>1, Invariance, PTL

(* filter_proc calls every filter that matched when it was entered, and only
   filters that match, on both its paths. *)
THEOREM DispatchIsExact == Spec => []DispatchExact
<1>1. IInv => DispatchExact
  BY DEF IInv, DispatchInv, DispatchExact
<1> QED
  BY <1>1, Invariance, PTL

-----------------------------------------------------------------------------
(* Every behaviour of the slot arrays with their map and scan is a behaviour
   of the abstract registry: a registration adds one filter, a removal takes
   away exactly one, and a dispatch calls each filter it owes once. *)
THEOREM Refinement == Spec => ImplementsRegistry
<1> DEFINE reg == [q \in Pids |-> Registered(q)]
<1>1. Init => Abstract!Init
  BY DEF Init, Abstract!Init, Registered
<1>2. IInv /\ [Next]_vars => [Abstract!Next]_Abstract!vars
  <2> SUFFICES ASSUME IInv, [Next]_vars
               PROVE  Abstract!Next \/ UNCHANGED Abstract!vars
    OBVIOUS
  <2>t. TypeOK /\ UniqueIds /\ DispatchInv
    BY DEF IInv
  <2>l. \A q \in Pids : slots[q] \in Seq(Slot) /\ Len(slots[q]) \in Nat
    BY <2>t DEF TypeOK
  <2>1. ASSUME NEW p \in Pids, NEW para \in Params, NEW id \in Ids,
               Register(p, para, id)
        PROVE  Abstract!Next
    <3> DEFINE e == [id |-> id, para |-> para]
    <3>1. e \in Slot /\ e.id = id
      BY DEF Slot
    <3>2. /\ \A q \in Pids : q # p => slots'[q] = slots[q]
          /\ Len(slots'[p]) = Len(slots[p]) + 1
          /\ \A i \in 1 .. Len(slots[p]) : slots'[p][i] = slots[p][i]
          /\ slots'[p][Len(slots[p]) + 1] = e
      BY <2>1, <2>t, RegisterEffect
    <3>3. \A q \in Pids : \A i \in 1 .. Len(slots[q]) : slots[q][i].id # id
      BY <2>1, <2>t, RegisterEffect
    <3> HIDE DEF e
    <3>4. \A q \in Pids : q # p => Registered(q)' = Registered(q)
      BY <3>2 DEF Registered
    <3>5. Registered(p)' = Registered(p) \cup {e}
      <4>1. \A i : i \in 1 .. Len(slots'[p])
                 <=> i \in 1 .. Len(slots[p]) \/ i = Len(slots[p]) + 1
        BY <2>l, <3>2
      <4>2. Registered(p)' \subseteq Registered(p) \cup {e}
        BY <3>2, <4>1 DEF Registered
      <4>3. Registered(p) \cup {e} \subseteq Registered(p)'
        BY <3>2, <4>1 DEF Registered
      <4> QED
        BY <4>2, <4>3
    <3>6. reg' = [reg EXCEPT ![p] = @ \cup {e}]
      BY <3>4, <3>5
    <3>7. \A q \in Pids : \A x \in reg[q] : x.id # e.id
      BY <3>1, <3>3 DEF Registered
    <3>8. phase' = phase /\ pid' = pid /\ tid' = tid /\ due' = due /\ called' = called
      BY <2>1 DEF Register, dispatch
    <3>9. Abstract!Add(p, e)
      BY <3>6, <3>7, <3>8 DEF Abstract!Add, Abstract!dispatchVars
    <3> QED
      BY <3>1, <3>9 DEF Abstract!Next, Abstract!Entry, Slot
  <2>2. ASSUME NEW p \in Pids, RegisterRefused(p) PROVE UNCHANGED Abstract!vars
    BY <2>2 DEF RegisterRefused, registry, dispatch, Abstract!vars, Registered
  <2>3. ASSUME NEW p \in Pids, NEW para \in Params, Unregister(p, para)
        PROVE  Abstract!Next
    <3>1. PICK k \in 1 .. Len(slots[p]) :
            /\ slots[p][k].para = para
            /\ \A q \in Pids : q # p => slots'[q] = slots[q]
            /\ Len(slots'[p]) = Len(slots[p]) - 1
            /\ \A i \in 1 .. (Len(slots[p]) - 1) :
                 slots'[p][i] = IF i = k THEN slots[p][Len(slots[p])] ELSE slots[p][i]
      BY <2>3, <2>t, UnregisterEffect
    <3> DEFINE e == slots[p][k]
    <3>2. e \in Registered(p) /\ e.para = para
      BY <3>1 DEF Registered
    <3>3. \A i \in 1 .. Len(slots[p]) : slots[p][i] = e => i = k
      BY <2>t DEF UniqueIds
    <3> HIDE DEF e
    <3>4. \A q \in Pids : q # p => Registered(q)' = Registered(q)
      BY <3>1 DEF Registered
    <3>5. Registered(p)' \subseteq Registered(p) \ {e}
      BY <2>l, <3>1, <3>3 DEF Registered
    <3>6. ASSUME NEW i \in 1 .. Len(slots[p]), slots[p][i] # e
          PROVE  slots[p][i] \in Registered(p)'
      <4>1. i # k
        BY <3>6 DEF e
      <4>2. CASE i = Len(slots[p])
        <5>1. k \in 1 .. (Len(slots[p]) - 1) /\ slots'[p][k] = slots[p][i]
          BY <2>l, <3>1, <4>1, <4>2
        <5> QED BY <3>1, <5>1 DEF Registered
      <4>3. CASE i # Len(slots[p])
        <5>1. i \in 1 .. (Len(slots[p]) - 1) /\ slots'[p][i] = slots[p][i]
          BY <2>l, <3>1, <4>1, <4>3
        <5> QED BY <3>1, <5>1 DEF Registered
      <4> QED BY <4>2, <4>3
    <3>7. Registered(p)' = Registered(p) \ {e}
      BY <3>5, <3>6 DEF Registered
    <3>8. reg' = [reg EXCEPT ![p] = @ \ {e}]
      BY <3>4, <3>7
    <3>9. /\ phase = "idle" /\ phase' = phase /\ pid' = pid /\ tid' = tid
          /\ due' = due /\ called' = called
      BY <2>3 DEF Unregister, dispatch
    <3>10. Abstract!Remove(p, para)
      BY <3>2, <3>8, <3>9 DEF Abstract!Remove, Abstract!dispatchVars
    <3> QED
      BY <3>10 DEF Abstract!Next
  <2>4. CASE FilterInit
    <3>1. reg' = [q \in Pids |-> {}]
      BY <2>4 DEF FilterInit, Registered
    <3>2. Abstract!Clear
      BY <2>4, <3>1 DEF FilterInit, dispatch, Abstract!Clear, Abstract!dispatchVars
    <3> QED BY <3>2 DEF Abstract!Next
  <2>5. ASSUME NEW p \in Pids, NEW t \in Tids, ProcBegin(p, t) PROVE Abstract!Next
    <3>1. /\ slots' = slots /\ pid' = p /\ tid' = t /\ called' = {}
          /\ due' = {x \in Registered(p) : filter_match(x.para, t)}
          /\ phase = "idle" /\ phase' # "idle"
      BY <2>5 DEF ProcBegin, registry
    <3>2. Abstract!Begin(p, t)
      BY <3>1 DEF Abstract!Begin, Registered
    <3> QED BY <3>2 DEF Abstract!Next
  <2>6. CASE ScanMatch
    <3> DEFINE e == slots[pid][pos]
    <3>1. /\ phase = "scan" /\ phase' = "scan_cb" /\ slots' = slots /\ pid' = pid
          /\ tid' = tid /\ due' = due /\ called' = called \cup {e}
          /\ filter_match(e.para, tid) /\ called = WantedUpTo(pos - 1)
          /\ pos \in 1 .. Len(slots[pid]) /\ pid \in Pids
      BY <2>6, <2>t DEF ScanMatch, registry, DispatchInv, TypeOK
    <3>2. e \in Registered(pid) /\ e \in Slot
      BY <2>l, <3>1 DEF Registered
    <3>3. e \notin called
      BY <2>t, <3>1 DEF WantedUpTo, UniqueIds
    <3> HIDE DEF e
    <3>4. Abstract!Invoke(e)
      BY <3>1, <3>2, <3>3 DEF Abstract!Invoke, Registered
    <3> QED BY <3>2, <3>4 DEF Abstract!Next, Abstract!Entry, Slot
  <2>7. CASE DirectCall
    <3> DEFINE e == slots[pid][pos]
    <3>1. /\ phase = "hit" /\ phase' = "hit_cb" /\ slots' = slots /\ pid' = pid
          /\ tid' = tid /\ due' = due /\ called' = called \cup {e}
          /\ filter_match(e.para, tid) /\ called = {}
          /\ pos \in 1 .. Len(slots[pid]) /\ pid \in Pids
      BY <2>7, <2>t DEF DirectCall, registry, DispatchInv, TypeOK
    <3>2. e \in Registered(pid) /\ e \in Slot
      BY <2>l, <3>1 DEF Registered
    <3> HIDE DEF e
    <3>3. Abstract!Invoke(e)
      BY <3>1, <3>2 DEF Abstract!Invoke, Registered
    <3> QED BY <3>2, <3>3 DEF Abstract!Next, Abstract!Entry, Slot
  <2>8. CASE ScanSkip \/ ScanEnd \/ CallbackReturn
    BY <2>8 DEF ScanSkip, ScanEnd, CallbackReturn, registry, Abstract!vars, Registered
  <2>9. CASE ProcReturn
    <3>1. Abstract!End
      BY <2>9, <2>t DEF ProcReturn, registry, DispatchInv, Abstract!End, Registered
    <3> QED BY <3>1 DEF Abstract!Next
  <2>10. CASE UNCHANGED vars
    BY <2>10 DEF vars, Abstract!vars, Registered
  <2> QED
    BY <2>1, <2>2, <2>3, <2>4, <2>5, <2>6, <2>7, <2>8, <2>9, <2>10 DEF Next
<1> QED
  BY <1>1, <1>2, Invariance, PTL DEF Spec, ImplementsRegistry, Abstract!Spec
=============================================================================
