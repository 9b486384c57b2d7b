------------------------------ MODULE MCProxy ------------------------------
(* Instances of Proxy for TLC. *)
EXTENDS ProxyInvariants, TLC

SymmetricConns == Permutations(Conns)
=============================================================================
