----------------------------- MODULE MCGemmBus -----------------------------
(* The bus engine with a small reorder buffer and a short timer for TLC. *)
EXTENDS GemmBus
=============================================================================
