---------------------------- MODULE MCProxyHealth ----------------------------
(* Small instances of ProxyHealth for TLC. *)
EXTENDS ProxyHealth
==============================================================================
