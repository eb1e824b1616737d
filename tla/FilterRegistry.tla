--------------------------- MODULE FilterRegistry ---------------------------
(***************************************************************************)
(* What the per-PID filter registry promises its users (abstract).         *)
(*                                                                         *)
(* A PID has a set of registered filters.  Dispatching a section on a PID  *)
(* calls every filter that was registered when the dispatch began and that *)
(* matches the section, each exactly once; a filter that a callback        *)
(* registers on the same PID meanwhile may be called for the same section, *)
(* at most once.  There are no slots, no table_id map and no scan here:    *)
(* those are how src/src/filter.c keeps the promise (module Filter).       *)
(***************************************************************************)
CONSTANTS
  Pids,           \* the PIDs
  Tids,           \* values of the first byte of a section, the table_id
  Params,         \* filter parameters a caller can register
  Ids,            \* identities of registrations
  Matches(_, _)   \* Matches(para, tid): the section is one the filter wants

VARIABLES
  reg,      \* reg[p]: the filters registered on p
  active,   \* a dispatch is in progress
  pid,      \* the PID of the dispatch
  tid,      \* the first byte of the section being dispatched
  due,      \* filters the dispatch owes a call
  called    \* filters the dispatch has called

vars == <<reg, active, pid, tid, due, called>>
dispatchVars == <<active, pid, tid, due, called>>

Entry == [id : Ids, para : Params]

Init ==
  /\ reg = [p \in Pids |-> {}]
  /\ active = FALSE
  /\ pid \in Pids
  /\ tid \in Tids
  /\ due = {}
  /\ called = {}

\* A filter is registered, also from within a callback.
Add(p, e) ==
  /\ \A q \in Pids : \A x \in reg[q] : x.id # e.id
  /\ reg' = [reg EXCEPT ![p] = @ \cup {e}]
  /\ UNCHANGED dispatchVars

\* One filter with these parameters is removed.
Remove(p, para) ==
  /\ ~active
  /\ \E e \in reg[p] : e.para = para /\ reg' = [reg EXCEPT ![p] = @ \ {e}]
  /\ UNCHANGED dispatchVars

Clear ==
  /\ ~active
  /\ reg' = [p \in Pids |-> {}]
  /\ UNCHANGED dispatchVars

Begin(p, t) ==
  /\ ~active
  /\ active' = TRUE
  /\ pid' = p
  /\ tid' = t
  /\ due' = {e \in reg[p] : Matches(e.para, t)}
  /\ called' = {}
  /\ UNCHANGED reg

Invoke(e) ==
  /\ active
  /\ e \in reg[pid] \ called
  /\ Matches(e.para, tid)
  /\ called' = called \cup {e}
  /\ UNCHANGED <<reg, active, pid, tid, due>>

End ==
  /\ active
  /\ due \subseteq called
  /\ active' = FALSE
  /\ due' = {}
  /\ called' = {}
  /\ UNCHANGED <<reg, pid, tid>>

Next ==
  \/ \E p \in Pids, e \in Entry : Add(p, e)
  \/ \E p \in Pids, para \in Params : Remove(p, para)
  \/ Clear
  \/ \E p \in Pids, t \in Tids : Begin(p, t)
  \/ \E e \in Entry : Invoke(e)
  \/ End

Spec == Init /\ [][Next]_vars
=============================================================================
