--------------------------- MODULE MCDdrPrefetch ---------------------------
(* The prefetcher on a small table for TLC. *)
EXTENDS DdrPrefetch
=============================================================================
