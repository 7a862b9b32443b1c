---------------------------- MODULE MCProxySession ----------------------------
(* Instances of a proxy session for TLC. *)
EXTENDS ProxySession
=============================================================================
