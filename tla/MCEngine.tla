----------------------------- MODULE MCEngine ------------------------------
(* Engine for TLC: the paths through attention, and arenas that are too    *)
(* small for a frame, for the second frame, and for none.                  *)
EXTENDS Engine

MCAttCaps == {AttFeatures, AttFeatures \ {"smx"}, AttFeatures \ {"smx", "onchip", "wsh"}, {}}
MCArenas  == {4, FrameUnits + 4, 3 * FrameUnits}
=============================================================================
