-------------------------- MODULE MCDdrBlockCache --------------------------
(* The block cache with two sets and two tags for TLC. *)
EXTENDS DdrBlockCache
=============================================================================
