----------------------------- MODULE MCFraming ------------------------------
(* Framing for TLC: two messages, of which the second may have a size that  *)
(* is too small for a header or for itself.                                 *)
EXTENDS Framing

TwoMessages == {<<17, 16>>, <<16, 12>>, <<16, 4>>, <<16, 3>>}
=============================================================================
