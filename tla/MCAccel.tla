----------------------------- MODULE MCAccel -----------------------------
(* Accel for TLC.  The calls are one of each way through the driver: done *)
(* at once or left running, with and without a producer's rows, whole or  *)
(* partial sums, the range unit begun before or after the checks, wrappers*)
(* within wrappers, and the LayerNorm pair.                               *)
EXTENDS Accel
One(S)   == CHOOSE c \in S : c.tiles = 1
Two(S)   == CHOOSE c \in S : c.tiles = 2
Stats(S) == {c \in S : "stats" \in c.flags}
Split(S) == {c \in S : "split" \in c.flags}

MCCapSets == {CapBits}
MCMayFail == {"onchip"}
MCCalls   == {One(RequantStride), Two(Stats(QgemmAsync)), Two(Split(ConvAsync)),
              One(ConvOnchip), One(Exp \ {c \in Exp : "onchip" \notin c.needs}),
              Two(Gemm16Cr), One(Norm16), One(LnA), One(LnB)}
=============================================================================
