--------------------------- MODULE MCProxyAnswers ---------------------------
(* Instance of ProxyAnswers for TLC. *)
EXTENDS ProxyAnswers
=============================================================================
