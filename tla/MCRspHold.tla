----------------------------- MODULE MCRspHold -----------------------------
(* The skid buffer with three places, so that the pointers wrap at a number *)
(* that is not a power of two.                                              *)
EXTENDS RspHold
=============================================================================
