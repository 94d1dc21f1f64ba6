---------------------------- MODULE AccelJob ----------------------------
(* What dav2_accel.c promises about the jobs it leaves running            *)
(* (dav2_accel.c 269-276, "async jobs"): at most one job is outstanding,  *)
(* it is collected before the block is disabled, and a block that failed  *)
(* is never used again.                                                   *)
VARIABLES
  usable,   \* accel_ok: the block may be given work
  slot      \* a job was left running and has not been collected

jobVars == <<usable, slot>>

Init == usable \in BOOLEAN /\ slot = FALSE

(* an *_async operation returns with its last job running *)
Leave == usable /\ ~slot /\ slot' = TRUE /\ UNCHANGED usable

(* the next operation, or dav2_accel_finish, takes the job up *)
Collect == slot /\ slot' = FALSE /\ UNCHANGED usable

(* a time-out, a bus error or a failed self-test *)
Disable == usable /\ ~slot /\ usable' = FALSE /\ UNCHANGED slot

Next == Leave \/ Collect \/ Disable

Spec == Init /\ [][Next]_jobVars
=============================================================================
