------------------------------ MODULE MC_Filter ------------------------------
(* Model-checking instance of Filter. *)
EXTENDS Filter

\* An exact filter for two table_ids, a pair mask and the wildcard
MCParams ==
  {[depth |-> 1, coff |-> 0, mask |-> 255], [depth |-> 1, coff |-> 1, mask |-> 255],
   [depth |-> 1, coff |-> 1, mask |-> 254], [depth |-> 1, coff |-> 0, mask |-> 0]}
=============================================================================
