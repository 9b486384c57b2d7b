------------------------------- MODULE MCWire -------------------------------
(* Wire for TLC.  Documents of size 0 come in every message but OP_REPLY,   *)
(* whose Serialize does not move on by their Size.                          *)
EXTENDS Wire

AllOps == DOMAIN parser

AllButReply == AllOps \ {"OP_REPLY"}
=============================================================================
