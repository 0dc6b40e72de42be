------------------------------ MODULE MCProxy ------------------------------
(***************************************************************************)
(* One server, for TLC, and two proxies between which it chooses.          *)
(***************************************************************************)
EXTENDS Proxy
=============================================================================
