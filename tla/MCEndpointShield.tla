-------------------------- MODULE MCEndpointShield --------------------------
(* EndpointShield for TLC: the servers in their round robin order. *)
EXTENDS EndpointShield

CONSTANTS x, y

OneProxy == <<x>>
TwoProxys == <<x, y>>
=============================================================================
