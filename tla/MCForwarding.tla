---------------------------- MODULE MCForwarding -----------------------------
(***************************************************************************)
(* A small instance of Forwarding for TLC, without dnat.                   *)
(***************************************************************************)
EXTENDS Forwarding
==============================================================================
