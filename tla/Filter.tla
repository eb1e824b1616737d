------------------------------- MODULE Filter -------------------------------
(***************************************************************************)
(* Per-PID filter registry and section dispatch: src/src/filter.c, with    *)
(* the alloc/set and lookup/free pairs its callers always use (table.c     *)
(* init_table_filter and uninit_table_filter, pes.c, scte.c).              *)
(*                                                                         *)
(* A slot array per PID holds the filters.  filter_set and filter_free     *)
(* rebuild a table_id -> slot map and a flag `multi` that says the map is  *)
(* not enough; filter_proc dispatches through the map or by a linear scan. *)
(* Callbacks run inside filter_proc and register filters (parse_pat and    *)
(* parse_pmt do), so a dispatch is several steps: its loop, and the time   *)
(* it spends inside a callback.  Callbacks never unregister.               *)
(*                                                                         *)
(* Slots count from 1 here, from 0 in the code.  Every caller registers    *)
(* depth 1 with mask 0xFF, 0xFE or 0x00; the callback pointer is           *)
(* abstracted to the identity of the registration, a ghost.                *)
(***************************************************************************)
EXTENDS Naturals, Sequences

CONSTANTS
  Pids,          \* PIDs
  Tids,          \* values of the first byte of a section (table_id)
  Params,        \* filter_param_t values callers pass
  Ids,           \* identities of registrations
  InitCap,       \* first capacity of a slot array (4)
  NUM_FILTER_MAX \* most filters on one PID (4096)

Masks == {255, 254, 0}

ASSUME FilterConstants ==
  /\ Tids \subseteq Nat
  /\ Params \subseteq [depth : {0, 1}, coff : Tids, mask : Masks]
  /\ InitCap \in Nat \ {0}
  /\ NUM_FILTER_MAX \in Nat \ {0}

VARIABLES
  slots,  \* slots[p]: sequence of registrations, hd->slots[0 .. num-1]
  cap,    \* cap[p]: allocated capacity
  map,    \* map[p][t]: slot of the exact filter for table_id t
  multi,  \* multi[p]: linear dispatch is required
  phase,  \* where filter_proc is
  pid,    \* its pid argument
  tid,    \* data[0], its section's first byte
  pos,    \* loop index, or the slot found in the map
  due,    \* ghost: filters that matched when the dispatch began
  called, \* ghost: filters the dispatch has called
  res     \* result of the last registration: "ok", "full" or "nomem"

registry == <<slots, cap, map, multi>>
dispatch == <<phase, pid, tid, pos, due, called>>
vars == <<slots, cap, map, multi, phase, pid, tid, pos, due, called, res>>

NoSlot == 0     \* 0xFFFF in the map

Slot == [id : Ids, para : Params]

Phases == {"idle", "scan", "scan_cb", "hit", "hit_cb", "ret"}

Registered(p) == {slots[p][i] : i \in 1 .. Len(slots[p])}

-----------------------------------------------------------------------------
(* The helpers of filter.c *)

\* (data[0] & mask) == (mask & coff), for the three masks in use
MaskedEq(mask, a, b) ==
  \/ mask = 255 /\ a = b
  \/ mask = 254 /\ a \div 2 = b \div 2
  \/ mask = 0

filter_match(para, t) == para.depth = 0 \/ MaskedEq(para.mask, t, para.coff)

Exact(para) == para.depth = 1 /\ para.mask = 255

\* Slots that the rebuild loop would enter into the map for table_id t
ExactSlots(sl, t) ==
  {i \in 1 .. Len(sl) : Exact(sl[i].para) /\ sl[i].para.coff = t}

\* The loop keeps the first exact filter of a table_id ...
rebuild_map(sl) ==
  [t \in Tids |->
     IF ExactSlots(sl, t) = {} THEN NoSlot
     ELSE CHOOSE i \in ExactSlots(sl, t) : \A j \in ExactSlots(sl, t) : i <= j]

\* Mutant: pair masks are taken for exact ones
rebuild_multi_pairs(sl) ==
  \E i \in 1 .. Len(sl) :
    \/ sl[i].para.mask = 0
    \/ \E j \in 1 .. Len(sl) :
         i < j /\ Exact(sl[j].para) /\ sl[i].para.coff = sl[j].para.coff

\* ... and falls back to the scan for a duplicate or for any other mask.
rebuild_multi(sl) ==
  \E i \in 1 .. Len(sl) :
    \/ ~Exact(sl[i].para)
    \/ \E j \in 1 .. Len(sl) :
         i < j /\ Exact(sl[j].para) /\ sl[i].para.coff = sl[j].para.coff

\* Mutant: the map is only rebuilt when a filter is added
filter_rebuild_stale(p, sl) ==
  /\ slots' = [slots EXCEPT ![p] = sl]
  /\ map' = [map EXCEPT ![p] = IF Len(sl) < Len(slots[p]) THEN @ ELSE rebuild_map(sl)]
  /\ multi' = [multi EXCEPT ![p] = rebuild_multi(sl)]

\* Store a new slot array for p and rebuild its map and flag
filter_rebuild(p, sl) ==
  /\ slots' = [slots EXCEPT ![p] = sl]
  /\ map' = [map EXCEPT ![p] = rebuild_map(sl)]
  /\ multi' = [multi EXCEPT ![p] = rebuild_multi(sl)]

\* Mutant: capacity is doubled from 0
ncap_doubled(c) == c * 2

ncap(c) == IF c = 0 THEN InitCap ELSE c * 2

\* swap-pop: the last slot takes the place of slot k
swap_pop(sl, k) ==
  [i \in 1 .. (Len(sl) - 1) |-> IF i = k THEN sl[Len(sl)] ELSE sl[i]]

\* Slots filter_lookup accepts; it returns the first
lookup_slots(p, para) == {i \in 1 .. Len(slots[p]) : slots[p][i].para = para}

UsedIds == UNION {{slots[p][i].id : i \in 1 .. Len(slots[p])} : p \in Pids}

-----------------------------------------------------------------------------
Init ==
  /\ slots = [p \in Pids |-> <<>>]
  /\ cap = [p \in Pids |-> 0]
  /\ map = [p \in Pids |-> [t \in Tids |-> NoSlot]]
  /\ multi = [p \in Pids |-> FALSE]
  /\ phase = "idle"
  /\ pid \in Pids
  /\ tid \in Tids
  /\ pos = 0
  /\ due = {}
  /\ called = {}
  /\ res = "ok"

\* Registration happens at start-up or from inside a callback.
MayRegister == phase \in {"idle", "scan_cb", "hit_cb"}

\* Mutant: a grown array does not keep what the old one held
RegisterMalloc(p, para, id) ==
  /\ MayRegister
  /\ id \notin UsedIds
  /\ Len(slots[p]) < NUM_FILTER_MAX
  /\ cap' = [cap EXCEPT ![p] = IF Len(slots[p]) >= @ THEN ncap(@) ELSE @]
  /\ filter_rebuild(p, IF Len(slots[p]) >= cap[p] THEN <<[id |-> id, para |-> para]>>
                       ELSE Append(slots[p], [id |-> id, para |-> para]))
  /\ res' = "ok"
  /\ UNCHANGED dispatch

\* filter_alloc followed by filter_set, as every caller does
Register(p, para, id) ==
  /\ MayRegister
  /\ id \notin UsedIds
  /\ Len(slots[p]) < NUM_FILTER_MAX
  /\ cap' = [cap EXCEPT ![p] = IF Len(slots[p]) >= @ THEN ncap(@) ELSE @]
  /\ filter_rebuild(p, Append(slots[p], [id |-> id, para |-> para]))
  /\ res' = "ok"
  /\ UNCHANGED dispatch

\* filter_alloc returns NULL: the PID is full or realloc fails.  filter_set
\* then returns -1 and nothing is registered; no caller looks at the result.
RegisterRefused(p) ==
  /\ MayRegister
  /\ \/ Len(slots[p]) >= NUM_FILTER_MAX /\ res' = "full"
     \/ /\ Len(slots[p]) < NUM_FILTER_MAX
        /\ Len(slots[p]) >= cap[p]
        /\ res' = "nomem"
  /\ UNCHANGED <<registry, dispatch>>

\* filter_lookup followed by filter_free
Unregister(p, para) ==
  /\ phase = "idle"
  /\ lookup_slots(p, para) # {}
  /\ LET k == CHOOSE i \in lookup_slots(p, para) :
                \A j \in lookup_slots(p, para) : i <= j
     IN  filter_rebuild(p, swap_pop(slots[p], k))
  /\ UNCHANGED <<cap, dispatch, res>>

\* filter_init: forgets the slots; map and multi keep what they held
FilterInit ==
  /\ phase = "idle"
  /\ slots' = [p \in Pids |-> <<>>]
  /\ cap' = [p \in Pids |-> 0]
  /\ UNCHANGED <<map, multi, dispatch, res>>

\* filter_proc is entered: early return, linear scan or map lookup
ProcBegin(p, t) ==
  /\ phase = "idle"
  /\ pid' = p
  /\ tid' = t
  /\ due' = {e \in Registered(p) : filter_match(e.para, t)}
  /\ called' = {}
  /\ \/ Len(slots[p]) = 0 /\ phase' = "ret" /\ pos' = 0
     \/ Len(slots[p]) # 0 /\ multi[p] /\ phase' = "scan" /\ pos' = 1
     \/ /\ Len(slots[p]) # 0 /\ ~multi[p]
        /\ pos' = map[p][t]
        /\ phase' = IF map[p][t] # NoSlot /\ map[p][t] <= Len(slots[p])
                      THEN "hit" ELSE "ret"
  /\ UNCHANGED <<registry, res>>

\* One iteration of the scan; the loop reads hd->num again each time
ScanMatch ==
  /\ phase = "scan"
  /\ pos <= Len(slots[pid])
  /\ filter_match(slots[pid][pos].para, tid)
  /\ called' = called \cup {slots[pid][pos]}
  /\ phase' = "scan_cb"
  /\ UNCHANGED <<registry, pid, tid, pos, due, res>>

ScanSkip ==
  /\ phase = "scan"
  /\ pos <= Len(slots[pid])
  /\ ~filter_match(slots[pid][pos].para, tid)
  /\ pos' = pos + 1
  /\ UNCHANGED <<registry, phase, pid, tid, due, called, res>>

ScanEnd ==
  /\ phase = "scan"
  /\ pos > Len(slots[pid])
  /\ phase' = "ret"
  /\ UNCHANGED <<registry, pid, tid, pos, due, called, res>>

\* The O(1) path calls the one filter the map names
DirectCall ==
  /\ phase = "hit"
  /\ called' = called \cup {slots[pid][pos]}
  /\ phase' = "hit_cb"
  /\ UNCHANGED <<registry, pid, tid, pos, due, res>>

\* Mutant: the scan stops at its first match
CallbackReturnFirst ==
  /\ \/ phase = "scan_cb" /\ phase' = "ret" /\ pos' = pos
     \/ phase = "hit_cb" /\ phase' = "ret" /\ pos' = pos
  /\ UNCHANGED <<registry, pid, tid, due, called, res>>

CallbackReturn ==
  /\ \/ phase = "scan_cb" /\ phase' = "scan" /\ pos' = pos + 1
     \/ phase = "hit_cb" /\ phase' = "ret" /\ pos' = pos
  /\ UNCHANGED <<registry, pid, tid, due, called, res>>

ProcReturn ==
  /\ phase = "ret"
  /\ phase' = "idle"
  /\ pos' = 0
  /\ due' = {}
  /\ called' = {}
  /\ UNCHANGED <<registry, pid, tid, res>>

Next ==
  \/ \E p \in Pids, para \in Params, id \in Ids : Register(p, para, id)
  \/ \E p \in Pids : RegisterRefused(p)
  \/ \E p \in Pids, para \in Params : Unregister(p, para)
  \/ FilterInit
  \/ \E p \in Pids, t \in Tids : ProcBegin(p, t)
  \/ ScanMatch
  \/ ScanSkip
  \/ ScanEnd
  \/ DirectCall
  \/ CallbackReturn
  \/ ProcReturn

Spec == Init /\ [][Next]_vars

-----------------------------------------------------------------------------
(* Properties *)

\* Every variable of the registry and of a dispatch stays in its domain.
TypeOK ==
  /\ slots \in [Pids -> Seq(Slot)]
  /\ cap \in [Pids -> Nat]
  /\ map \in [Pids -> [Tids -> Nat]]
  /\ multi \in [Pids -> BOOLEAN]
  /\ phase \in Phases
  /\ pid \in Pids
  /\ tid \in Tids
  /\ pos \in Nat
  /\ due \subseteq Slot
  /\ called \subseteq Slot
  /\ res \in {"ok", "full", "nomem"}

\* The slot array of filter_alloc is never written past its allocation.
WithinCapacity == \A p \in Pids : Len(slots[p]) <= cap[p]

\* Filters on the PID being dispatched that want the section
Wanted == {e \in Registered(pid) : filter_match(e.para, tid)}

\* Whenever filter_proc leaves, every filter that matched the section when it
\* came in has been called, whichever path (map or scan) was taken and
\* whatever the callbacks registered in between; and only filters that match
\* were called.
DispatchExact ==
  phase = "ret" => due \subseteq called /\ called \subseteq Wanted

\* The map is never out of step with the slots on a PID that has filters:
\* the first exact filter of each table_id, after any mix of registrations
\* and swap-pop removals (filter_rebuild).
MapCoherent ==
  \A p \in Pids :
    Len(slots[p]) # 0 =>
      /\ map[p] = rebuild_map(slots[p])
      /\ multi[p] = rebuild_multi(slots[p])

\* A registration occupies one slot of one PID: the ghost identities that
\* tell slots apart are never shared (what makes swap-pop lose nothing).
UniqueIds ==
  \A p, q \in Pids : \A i \in 1 .. Len(slots[p]), j \in 1 .. Len(slots[q]) :
    slots[p][i].id = slots[q][j].id => p = q /\ i = j

\* Wanted filters among the first k slots: what a scan that far has called
WantedUpTo(k) ==
  {slots[pid][i] : i \in {j \in 1 .. Len(slots[pid]) :
                            j <= k /\ filter_match(slots[pid][j].para, tid)}}

\* How far a dispatch has got, phase by phase: the strengthening that makes
\* DispatchExact inductive.
DispatchInv ==
  /\ phase # "idle" => due \subseteq Wanted
  /\ phase = "scan" => pos >= 1 /\ called = WantedUpTo(pos - 1)
  /\ phase = "scan_cb" =>
       pos >= 1 /\ pos <= Len(slots[pid]) /\ called = WantedUpTo(pos)
  /\ phase = "hit" =>
       /\ pos >= 1 /\ pos <= Len(slots[pid])
       /\ filter_match(slots[pid][pos].para, tid)
       /\ due \subseteq {slots[pid][pos]}
       /\ called = {}
  /\ phase \in {"hit_cb", "ret"} => due \subseteq called /\ called \subseteq Wanted

\* The registry promises what FilterRegistry says: slots, map and scan are
\* an implementation of a set of filters per PID.
Abstract == INSTANCE FilterRegistry WITH
  Matches <- filter_match,
  reg <- [p \in Pids |-> Registered(p)],
  active <- phase # "idle"

\* Every step of the slot/map implementation is a step of the abstract
\* registry: no filter is skipped by a dispatch or lost by a growing array or
\* a swap-pop.
ImplementsRegistry == Abstract!Spec
=============================================================================
