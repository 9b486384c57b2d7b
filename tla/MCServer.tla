------------------------------ MODULE MCServer ------------------------------
(* Instances of Server for TLC. *)
EXTENDS Server

Made(contextual, manager, useSSL, acceptFails) ==
  [contextual |-> contextual, manager |-> manager, useSSL |-> useSSL,
   acceptFails |-> acceptFails]

(* NewServer with and without a contextual factory, with and without TLS and *)
(* failing Accepts, and the server of a Proxy.                               *)
MCConfigs ==
  {Made(TRUE, TRUE, TRUE, TRUE), Made(TRUE, TRUE, FALSE, FALSE),
   Made(FALSE, TRUE, FALSE, FALSE), Made(FALSE, FALSE, TRUE, FALSE)}

MCContextual == {Made(TRUE, TRUE, FALSE, TRUE)}

MCProxyServer == {Made(FALSE, FALSE, FALSE, TRUE)}
=============================================================================
