---------------------------- MODULE MCGemmRetry ----------------------------
(***************************************************************************)
(* The bus engine with a clock that runs while the oldest read is          *)
(* unanswered and no read at all is on its way.                            *)
(***************************************************************************)
EXTENDS GemmBus

VARIABLE silence

SilenceInit == Init /\ silence = 0
SilenceNext ==
    \/ \E in \in Inputs :
         /\ Clock(in)
         /\ silence' = IF ~HeadEmpty \/ Live \/ Live' THEN 0
                       ELSE IF silence = CNT_MOD THEN silence ELSE silence + 1
    \/ (StartStream \/ Lose) /\ UNCHANGED silence
SilenceSpec == SilenceInit /\ [][SilenceNext]_<<vars, silence>>

\* "when the head slot stays empty for RETRY_CYCLES after the bus has gone
\* silent, that one request is issued again" (student_gemm.sv:373-375): after
\* RETRY_CYCLES silent cycles, and one to set the flag, the retry is pending.
SilentHeadRetried == silence > RETRY_CYCLES + 1 => retry_pending_q
=============================================================================
