----------------------------- MODULE Attention -----------------------------
(* dav2_engine.c: the attention heads, whose matrices two heads share by   *)
(* parity while the CPU and the accelerator work on different heads.  A    *)
(* buffer holds the number of the head its contents belong to, 0 when they *)
(* are no head's or are being written.  The driver is seen from outside,   *)
(* as in Qgemm: a job may be declined, or fail and disable the block.  The *)
(* module has no Init and no Next: Engine calls it in every block.         *)
EXTENDS Integers, Sequences, FiniteSets

CONSTANTS
  Heads,      \* DAV2_N_HEADS
  AttCaps     \* the feature sets the driver may have found

ASSUME HeadsAssumption == Heads \in Nat \ {0}

(* dav2_accel_w16_ok, wsh_ok, onchip_ok, lut_ok, smx_ok, and what the      *)
(* transposition and the row-strided jobs need                             *)
AttFeatures == {"w16", "wsh", "onchip", "lut", "smx", "tp"}
ASSUME AttCapsAssumption == AttCaps \subseteq SUBSET AttFeatures

VARIABLES
  usable, caps,   \* the driver: accel_ok, the features found
  pend, blk,      \* the job left running, and what became of it: run, ok, bad
  apc, h,         \* program counter, the head of the loop
  m,              \* the matrices
  f,              \* the flags of the call
  otherScale      \* a softmax took the q shift of another head

drv   == <<usable, pend, blk>>
avars == <<usable, caps, pend, blk, apc, h, m, f, otherScale>>

NoJob  == [kind |-> "none", h |-> 0, i |-> 0]
Job(k, hd, i) == [kind |-> k, h |-> hd, i |-> i]
\* Variant: one set of matrices for all heads.
OneSet(hd) == 0
Par(hd) == hd % 2
Can(needs) == usable /\ needs \subseteq caps
Go(l)      == apc' = l
Same(a, b) == IF a = b THEN a ELSE 0
Two        == [i \in 0..1 |-> 0]

(* q, its shift, S and its statistics, S on chip, v^T, P^T, column sums, P *)
(* in two halves, C in DDR3 (0) and on chip (1), the context.  The split   *)
(* path keeps the products of the high and the low bytes in the two slots  *)
attn_bufs == [q |-> 0, q_sh |-> 0, s |-> Two, st |-> Two, sChip |-> 0, vt |-> Two, pt |-> Two,
              psum |-> 0, p |-> Two, c |-> Two, ctx |-> [d \in 1..Heads |-> 0]]
NoFlags == [path |-> "none", direct |-> FALSE, prime |-> TRUE, s_cr |-> FALSE, c_cr |-> FALSE,
            exp_ok |-> FALSE, exp_next |-> FALSE]

More  == h < Heads                                    \* nx
Prep  == IF f.path = "pipe" /\ ~f.prime THEN h + 1 ELSE h   \* the head being prepared
Slot  == IF f.path = "smx" THEN 0 ELSE Par(Prep)      \* its v^T and P^T

---------------------------------------------------------------------------
(* What a step computes, on the block or on the CPU, from what is there.   *)
attn_prep_q16(hd, mm) == [mm EXCEPT !.q_sh = hd, !.q = IF f.direct THEN @ ELSE hd]
attn_prep_qk(hd, mm)  == [mm EXCEPT !.q_sh = hd, !.q = hd]
attn_prep_vt16(hd, i, mm) == [mm EXCEPT !.vt[i] = hd]
attn_prep_v(hd, mm)   == [mm EXCEPT !.vt = [i \in 0..1 |-> hd]]
Q(hd, mm)           == IF f.direct THEN hd ELSE mm.q  \* the block reads q where it is
Scores(hd, mm)      == [mm EXCEPT !.s[Par(hd)] = Q(hd, mm), !.st[Par(hd)] = Q(hd, mm)]
ScoresChip(hd, mm)  == [mm EXCEPT !.sChip = Q(hd, mm), !.st[Par(hd)] = Q(hd, mm)]
ExpOf(hd, i, mm)    == [mm EXCEPT !.pt[i] = Same(IF f.s_cr THEN mm.sChip ELSE mm.s[Par(hd)],
                                                 mm.st[Par(hd)])]
attn_softmax_accel_sums(i, mm)    == [mm EXCEPT !.psum = mm.pt[i]]
attn_softmax_accel_norm(k, i, mm) == [mm EXCEPT !.p[k] = Same(mm.pt[i], mm.psum)]
Norm(i, mm)         == attn_softmax_accel_norm(1, i, attn_softmax_accel_norm(0, i, mm))
attn_softmax(mm)    == [mm EXCEPT !.p = [k \in 0..1 |->
                          IF f.path = "split" THEN Same(mm.s[0], mm.s[1])
                          ELSE Same(mm.s[Par(h)], mm.st[Par(h)])]]
Product(i, mm)      == Same(Same(mm.p[0], mm.p[1]), mm.vt[i])
C_DDR(i, mm)        == [mm EXCEPT !.c[0] = Product(i, mm)]
attn_context16_cpu(hd, mm) == [mm EXCEPT !.ctx[hd] = Same(mm.c[0], hd)]
attn_normalise(mm)  == [mm EXCEPT !.ctx[h] = Same(Same(mm.c[0], mm.c[1]), h)]

(* what a job writes when it ends, and what its failure leaves unusable    *)
Ending(j, mm) ==
  CASE j.kind = "s"      -> Scores(j.h, mm)
    [] j.kind = "s_chip" -> ScoresChip(j.h, mm)
    [] j.kind = "exp"    -> ExpOf(j.h, j.i, mm)
    [] j.kind = "c"      -> C_DDR(j.i, mm)
    [] j.kind = "c_chip" -> [mm EXCEPT !.c[1] = Product(j.i, mm)]
    [] j.kind = "ctx"    -> [mm EXCEPT !.ctx[j.h] = Same(mm.c[j.i], j.h)]
    [] j.kind = "s8"     -> [mm EXCEPT !.s[j.i] = mm.q]
    [] j.kind = "c8"     -> [mm EXCEPT !.c[j.i] = Product(j.i, mm)]
Spoiled(j, mm) ==
  CASE j.kind = "s"      -> [mm EXCEPT !.s[Par(j.h)] = 0, !.st[Par(j.h)] = 0]
    [] j.kind = "s_chip" -> [mm EXCEPT !.sChip = 0, !.st[Par(j.h)] = 0]
    [] j.kind = "exp"    -> [mm EXCEPT !.pt[j.i] = 0]
    [] j.kind = "c"      -> [mm EXCEPT !.c[0] = 0]
    [] j.kind = "c_chip" -> [mm EXCEPT !.c[1] = 0]
    [] j.kind = "ctx"    -> [mm EXCEPT !.ctx[j.h] = 0]
    [] j.kind = "s8"     -> [mm EXCEPT !.s[j.i] = 0]
    [] j.kind = "c8"     -> [mm EXCEPT !.c[j.i] = 0]

(* a job left running; and the block's answer                              *)
Issue(j, mm) == pend' = j /\ blk' = "run" /\ m' = Spoiled(j, mm) /\ UNCHANGED usable
JobEnd   == blk = "run" /\ pend # NoJob /\ blk' = "ok" /\ m' = Ending(pend, m)
            /\ UNCHANGED <<usable, caps, pend, apc, h, f, otherScale>>
JobFails == blk = "run" /\ pend # NoJob /\ blk' = "bad"
            /\ UNCHANGED <<usable, caps, pend, apc, h, m, f, otherScale>>

(* dav2_accel_finish: 1, or 0 after disabling the block; 1 without a job   *)
Good    == pend = NoJob \/ blk = "ok"
Collect == (pend = NoJob \/ blk # "run") /\ usable' = (usable /\ Good)
           /\ pend' = NoJob /\ blk' = "ok"

(* a job collected by the function that starts it, which computes the same *)
(* on the CPU when it is declined or fails                                 *)
Sync(needs) == /\ usable' \in {usable} \cup (IF Can(needs) THEN {FALSE} ELSE {})
               /\ UNCHANGED <<pend, blk>>

Local == UNCHANGED <<caps, otherScale>>

---------------------------------------------------------------------------
(* The call.  With int16 weights, or on the CPU alone, attention_all16,    *)
(* one head after the other when the block can normalise too; else the     *)
(* split path.  Without its memory it returns, and ctx stays as it is.     *)
attention_all(granted) ==
  /\ apc = "idle"
  /\ LET path == IF usable /\ "w16" \notin caps THEN "split"
                 ELSE IF Can({"smx"}) THEN "smx" ELSE "pipe"
     IN IF granted
          THEN /\ Go(IF path = "split" THEN "prep_q" ELSE "vt")
               /\ f' = [NoFlags EXCEPT !.path = path, !.direct = path # "split" /\ Can({"wsh"})]
          ELSE Go("ret") /\ f' = NoFlags
  /\ h' = 1 /\ m' = attn_bufs /\ otherScale' = FALSE
  /\ UNCHANGED <<drv, caps>>

(* v^T of the head to come, collected at once                              *)
attn_vt16 ==
  /\ apc = "vt" /\ Sync({"tp"}) /\ m' = attn_prep_vt16(Prep, Slot, m) /\ Go("s_start")
  /\ UNCHANGED <<h, f>> /\ Local

(* its scores: in the result RAM, in DDR3, or on the CPU (S_START)         *)
gemm16_start ==
  /\ apc = "s_start"
  /\ LET q == attn_prep_q16(Prep, m)
         cr == Can({"onchip", "w16"})
     IN /\ f' = [f EXCEPT !.s_cr = cr]
        /\ IF cr THEN Issue(Job("s_chip", Prep, 0), q)
           ELSE IF Can({"w16"}) THEN Issue(Job("s", Prep, 0), q)
           ELSE m' = Scores(Prep, q) /\ UNCHANGED drv
  /\ Go(IF Prep = h THEN "s_fin" ELSE "norm_lo")
  /\ UNCHANGED h /\ Local

(* the first half of this head's P while the next head's scores are made   *)
NormLow ==
  /\ apc = "norm_lo" /\ Go(IF More THEN "s_fin" ELSE "norm_hi")
  /\ m' = IF f.exp_ok THEN attn_softmax_accel_norm(0, Par(h), m) ELSE m
  /\ UNCHANGED <<drv, h, f>> /\ Local

gemm16_finish ==       \* S_FINISH: a failed job is computed again on the CPU
  /\ apc = "s_fin" /\ Collect /\ Go("e_start")
  /\ m' = IF Good THEN m ELSE Scores(Prep, m)
  /\ f' = IF Good THEN f ELSE [f EXCEPT !.s_cr = FALSE]
  /\ UNCHANGED h /\ Local

(* the exponential job; declined for a scale it cannot take                *)
ExpNeeds == {"lut"} \cup (IF f.path = "smx" THEN {"smx"} ELSE {})
            \cup (IF f.s_cr THEN {"onchip"} ELSE {})
attn_softmax_accel_start ==
  /\ apc = "e_start"
  /\ \/ Can(ExpNeeds) /\ Issue(Job("exp", Prep, Slot), m)
        /\ f' = [f EXCEPT !.exp_next = TRUE]
     \/ f' = [f EXCEPT !.exp_next = FALSE] /\ m' = m /\ UNCHANGED drv
  /\ Go(IF Prep = h THEN "e_fin" ELSE "norm_hi")
  /\ UNCHANGED h /\ Local

(* the rest of this head's P meanwhile; without an exponential job, the    *)
(* whole softmax on the CPU, with the q shift of the moment                *)
NormHigh ==
  /\ apc = "norm_hi" /\ Go(IF More THEN "e_fin" ELSE "c_start")
  /\ IF f.exp_ok THEN m' = attn_softmax_accel_norm(1, Par(h), m) /\ UNCHANGED otherScale
     ELSE m' = attn_softmax(m) /\ otherScale' = (otherScale \/ m.q_sh # h)
  /\ UNCHANGED <<drv, caps, h, f>>

(* collected; head 0's sums are made at once, the others' during the       *)
(* context product; S_DDR when the CPU will have to read S                 *)
AfterExp == IF f.path = "smx" THEN "p" ELSE IF f.prime THEN "loop" ELSE "c_start"
ExpFinish ==
  /\ apc = "e_fin" /\ Collect
  /\ LET yes == f.exp_next /\ Good
     IN /\ f' = [f EXCEPT !.exp_next = yes, !.exp_ok = IF Prep = h THEN yes ELSE @]
        /\ Go(IF ~yes /\ f.s_cr THEN "s_ddr" ELSE AfterExp)
        /\ m' = IF yes /\ f.path = "pipe" /\ f.prime THEN attn_softmax_accel_sums(Slot, m) ELSE m
  /\ UNCHANGED h /\ Local

S_DDR ==               \* the scores again, in DDR3
  /\ apc = "s_ddr" /\ Sync({"w16"}) /\ m' = Scores(Prep, m) /\ Go(AfterExp)
  /\ UNCHANGED <<h, f>> /\ Local

---------------------------------------------------------------------------
(* P one head at a time: sums from the exponential job (CTRL.msums), the   *)
(* divisions by a second job or the CPU; or the softmax on the CPU         *)
HeadAlone ==
  /\ apc = "p" /\ Go("c_start")
  /\ IF f.exp_ok THEN Sync({"smx"}) /\ m' = Norm(0, attn_softmax_accel_sums(0, m))
     ELSE m' = attn_softmax(m) /\ UNCHANGED drv
  /\ UNCHANGED <<h, f>> /\ Local

(* the context product, on chip, in DDR3 or on the CPU, the next head's    *)
(* sums meanwhile                                                          *)
CSlot == IF f.path = "smx" THEN 0 ELSE Par(h)
ContextProduct ==
  /\ apc = "c_start" /\ Go("c_fin")
  /\ LET cr == Can({"onchip", "w16"})
     IN /\ f' = [f EXCEPT !.c_cr = cr]
        /\ IF cr THEN Issue(Job("c_chip", h, CSlot), m)
           ELSE IF Can({"w16"}) THEN Issue(Job("c", h, CSlot), m)
           ELSE m' = C_DDR(CSlot, m) /\ UNCHANGED drv
  /\ UNCHANGED h /\ Local

ContextProductFinish ==
  /\ apc = "c_fin" /\ Collect /\ Go("ctx")
  /\ LET sums == IF f.path = "pipe" /\ More /\ f.exp_next
                   THEN attn_softmax_accel_sums(Par(h + 1), m) ELSE m
     IN m' = IF Good THEN sums ELSE C_DDR(CSlot, sums)
  /\ f' = [f EXCEPT !.c_cr = @ /\ Good]
  /\ UNCHANGED h /\ Local

(* the context's requantisation is left running; declined, C is made in    *)
(* DDR3 and rounded by the CPU                                             *)
attn_context16_start ==
  /\ apc = "ctx"
  /\ \/ /\ usable /\ Issue(Job("ctx", h, IF f.c_cr THEN 1 ELSE 0), m)
        /\ UNCHANGED f
     \/ /\ ~usable
        /\ m' = attn_context16_cpu(h, IF f.c_cr THEN C_DDR(CSlot, m) ELSE m)
        /\ f' = [f EXCEPT !.c_cr = FALSE] /\ UNCHANGED drv
  /\ Go(IF f.path = "smx" THEN "ctx_fin" ELSE "next") /\ UNCHANGED h /\ Local

(* collected at the top of the next round, before anything it read is      *)
(* overwritten: after a failure the CPU makes C again and rounds it        *)
ContextFinish(hd, i) ==
  /\ Collect
  /\ m' = IF Good THEN m ELSE attn_context16_cpu(hd, IF f.c_cr THEN C_DDR(i, m) ELSE m)

attention_all16 ==     \* the top of the loop, and its end
  /\ apc = "loop" /\ ContextFinish(h - 1, Par(h - 1))
  /\ Go(IF h > Heads THEN "ret" ELSE IF More THEN "vt" ELSE "norm_lo")
  /\ f' = [f EXCEPT !.prime = FALSE]
  /\ UNCHANGED h /\ Local

NextHead ==
  /\ apc = "next" /\ h' = h + 1 /\ Go("loop") /\ f' = [f EXCEPT !.exp_ok = f.exp_next]
  /\ UNCHANGED <<drv, m>> /\ Local

AloneFinish ==         \* one head after the other: collected at once
  /\ apc = "ctx_fin" /\ ContextFinish(h, 0) /\ h' = h + 1 /\ Go(IF More THEN "vt" ELSE "ret")
  /\ UNCHANGED f /\ Local

---------------------------------------------------------------------------
(* The split path: bytes instead of int16.  Starting a job settles the one *)
(* before it, computed again on the CPU if the block failed                *)
Settled == IF Good THEN m ELSE Ending(pend, m)
gemm_i32_start(j) ==
  /\ pend = NoJob \/ blk # "run"
  /\ IF usable /\ Good THEN Issue(j, Settled)
     ELSE m' = Ending(j, Settled) /\ usable' = FALSE /\ pend' = NoJob /\ blk' = "ok"
gemm_i32_finish(Then(_)) == Collect /\ m' = Then(Settled)

SplitQ ==
  /\ apc = "prep_q" /\ m' = attn_prep_qk(1, m) /\ Go("s_hi")
  /\ UNCHANGED <<drv, h, f>> /\ Local
SplitJob(at, kind, i, to) ==
  /\ apc = at /\ gemm_i32_start(Job(kind, h, i)) /\ Go(to)
  /\ UNCHANGED <<h, f>> /\ Local
SplitV ==
  /\ apc = "v" /\ m' = attn_prep_v(h, m) /\ Go("s_lo")
  /\ UNCHANGED <<drv, h, f>> /\ Local
SplitSoftmax ==
  /\ apc = "s_end" /\ gemm_i32_finish(attn_softmax) /\ Go("c_hi")
  /\ otherScale' = (otherScale \/ m.q_sh # h)
  /\ UNCHANGED <<caps, h, f>>
SplitNextQ ==          \* the next head's q during the last product
  /\ apc = "qk" /\ m' = (IF More THEN attn_prep_qk(h + 1, m) ELSE m) /\ Go("c_end")
  /\ UNCHANGED <<drv, h, f>> /\ Local
SplitNormalise ==
  /\ apc = "c_end" /\ gemm_i32_finish(attn_normalise) /\ h' = h + 1
  /\ Go(IF More THEN "s_hi" ELSE "ret")
  /\ UNCHANGED f /\ Local

(* every step inside the call                                              *)
AttentionStep ==
  \/ attn_vt16 \/ gemm16_start \/ NormLow \/ gemm16_finish \/ attn_softmax_accel_start
  \/ NormHigh \/ ExpFinish \/ S_DDR \/ HeadAlone
  \/ ContextProduct \/ ContextProductFinish \/ attn_context16_start
  \/ attention_all16 \/ NextHead \/ AloneFinish
  \/ SplitQ \/ SplitV \/ SplitSoftmax \/ SplitNextQ \/ SplitNormalise
  \/ SplitJob("s_hi", "s8", 1, "v") \/ SplitJob("s_lo", "s8", 0, "s_end")
  \/ SplitJob("c_hi", "c8", 1, "c_lo") \/ SplitJob("c_lo", "c8", 0, "qk")

(* Every head's context is made of that head's own matrices: none was      *)
(* overwritten while a job, or the CPU redoing a failed one, had still to  *)
(* read it.  Its scale is right as well, except that the pipelined path    *)
(* may fall back to the CPU's softmax with the next head's q shift.        *)
ContextOf(mm) == \A d \in 1..Heads : mm.ctx[d] = d
ContextRight == apc = "ret" /\ f.path # "none" =>
                  ContextOf(m) /\ (otherScale => f.path = "pipe")
=============================================================================
