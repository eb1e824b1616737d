------------------------------ MODULE Teletext ------------------------------
(***************************************************************************)
(* The Hamming 8/4 code of teletext.c.  A byte is the set of its bits that *)
(* are 1; bits 7, 5, 3 and 1 are the protection bits P1 to P4, bits 6, 4,  *)
(* 2 and 0 the data D1 to D4.                                              *)
(***************************************************************************)
EXTENDS Integers, FiniteSets

Byte == SUBSET (0..7)
odd_parity8_test(bits) == Cardinality(bits) % 2 = 1

(* The bit the failing tests point at: A, B and C hold or not. *)
Suspect(A, B, C) ==
  CASE A /\ B /\ ~C -> 3   [] A /\ C /\ ~B -> 5   [] ~A /\ B /\ C -> 7
    [] ~A /\ ~B /\ C -> 0  [] ~A /\ ~C /\ B -> 2  [] A /\ ~B /\ ~C -> 4
    [] OTHER -> 6

(* REVERSE_BIT clears the bit. *)
REVERSE_BIT(x, v) == x \ {v}

Rejected == {8}
decode_hamming8_unchecked(code) == code
decode_hamming8_code(code) ==
  LET A == odd_parity8_test(code \cap {7, 6, 2, 0})
      B == odd_parity8_test(code \cap {6, 5, 4, 0})
      C == odd_parity8_test(code \cap {6, 4, 3, 2})
      D == odd_parity8_test(code)
  IN IF A /\ B /\ C THEN IF D THEN code ELSE REVERSE_BIT(code, 1)
     ELSE IF D THEN Rejected ELSE REVERSE_BIT(code, Suspect(A, B, C))

(* The data bits, D1 first; a rejected byte (-1) has them all. *)
HAMMING8_DATA(x) ==
  IF x = Rejected THEN 15
  ELSE (IF 6 \in x THEN 1 ELSE 0) + (IF 4 \in x THEN 2 ELSE 0) +
       (IF 2 \in x THEN 4 ELSE 0) + (IF 0 \in x THEN 8 ELSE 0)

(* Magazine X and packet Y; a rejected magazine leaves X unset and Y = -1. *)
decode_hamming_address(mag, pkt) ==
  LET d == HAMMING8_DATA(decode_hamming8_code(mag))
      p == HAMMING8_DATA(decode_hamming8_code(pkt))
  IN IF decode_hamming8_code(mag) = Rejected THEN [X |-> -1, Y |-> -1]
     ELSE [X |-> d % 8, Y |-> (d \div 8) + 2 * p]

page_number(units, tens) == tens * 10 + units

(* The code words by their definition: each group has odd parity, and so has
   the byte. *)
CodeWords == {w \in Byte : /\ Cardinality(w \cap {7, 6, 2, 0}) % 2 = 1
                           /\ Cardinality(w \cap {6, 5, 4, 0}) % 2 = 1
                           /\ Cardinality(w \cap {6, 4, 3, 2}) % 2 = 1
                           /\ Cardinality(w) % 2 = 1}
Errors(c, w) == (c \ w) \cup (w \ c)
=============================================================================
