---------------------------- MODULE MC_Lifecycle ----------------------------
(***************************************************************************)
(* Command lines of up to two options and streams of up to three packets.  *)
(***************************************************************************)
EXTENDS Lifecycle

Token(o, a) == [opt |-> o, long |-> FALSE, arg |-> a]
MCTokens ==
  {Token("d", {}), Token("S", {}), Token("h", {}), Token("?", {}),
   Token("s", {"PAT"}), [opt |-> "s", long |-> TRUE, arg |-> {"PAT"}],
   Token("p", {1, 300}), Token("p", {17, -1}),
   Token("f", "udp"), Token("f", "bad"), Token("o", "json"), Token("o", "bad")}
=============================================================================
