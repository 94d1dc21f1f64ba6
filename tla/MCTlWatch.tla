----------------------------- MODULE MCTlWatch -----------------------------
(* The watchdog over a port three deep for TLC. *)
EXTENDS TlWatch
=============================================================================
