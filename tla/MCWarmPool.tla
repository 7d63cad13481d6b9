----------------------------- MODULE MCWarmPool -----------------------------
(***************************************************************************)
(* WarmPool with its keepalive clock on small instances.                   *)
(***************************************************************************)
EXTENDS KeepAlive, TLC

=============================================================================
