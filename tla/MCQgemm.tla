----------------------------- MODULE MCQgemm -----------------------------
(* Qgemm for TLC: the feature sets and shapes that lead to different ways *)
(* through it; and, beside it, the arithmetic it leaves out (Fixed).      *)
EXTENDS Qgemm, Fixed

MCCaps == {{}, Caps, Caps \ {"rng"}, Caps \ {"rng", "onchip"}, Caps \ {"grelu", "lut", "ostats"}}

Shapes == {Fits, Fits \ {"conv"}, Fits \ {"single"}, Fits \ {"even"}, Fits \ {"requant"},
           Fits \ {"onchip", "dpar"}, {}}

MCOps == UNION {{dav2_qgemm_colext(f), dav2_qgemm_gelu(f), dav2_qgemm_ex(f, "out"),
                 dav2_conv2d_into(f, 3, TRUE, "other"), dav2_conv2d_into(f, 1, FALSE, "no"),
                 dav2_conv2d(f, 3), dav2_conv_transpose(f), dav2_layernorm(f)} : f \in Shapes}

(* What the values of Qgemm rest on: the multiplications, scales, tables   *)
(* and resampling of dav2_ops.c and dav2_xf.h compute the numbers their    *)
(* comments promise, for every operand.  It depends on no variable and is  *)
(* looked at once, before the first operation.                             *)
ArithmeticRight == pc = "idle" /\ op = Plain => ArithmeticExact
=============================================================================
