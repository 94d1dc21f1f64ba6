---------------------------- MODULE EngineProofs ----------------------------
(* Proofs about Engine, for every number of heads, blocks, taps and rows,  *)
(* every feature set and every failure of the accelerator: the context of  *)
(* an attention call is that of each of its heads, each row of a tap is    *)
(* made of the x of that tap's block, and each file the script saves holds *)
(* the depth of the image it sent. Three invariants, each on top of the    *)
(* one before: AInv, of the attention call; EInv, of a frame; FInv, of a   *)
(* session.                                                                *)
EXTENDS Engine, TLAPS

---------------------------------------------------------------------------
(* The attention call. A matrix holds the number of the head it was made   *)
(* for, and 0 when it is none's or a mixture. AttInv says, at each step of *)
(* each of the three paths, whose each matrix still to be read is, which   *)
(* job may run, and what has been written when that job has ended well.    *)
Heads0 == 0..Heads
HeadNo == 1..Heads

Matrices == [q : Heads0, q_sh : Heads0, s : [0..1 -> Heads0], st : [0..1 -> Heads0],
             sChip : Heads0, vt : [0..1 -> Heads0], pt : [0..1 -> Heads0], psum : Heads0,
             p : [0..1 -> Heads0], c : [0..1 -> Heads0], ctx : [HeadNo -> Heads0]]
Flags == [path : {"none", "pipe", "smx", "split"}, direct : BOOLEAN, prime : BOOLEAN,
          s_cr : BOOLEAN, c_cr : BOOLEAN, exp_ok : BOOLEAN, exp_next : BOOLEAN]

SmxPCs   == {"vt", "s_start", "s_fin", "e_start", "e_fin", "s_ddr"}
AlonePCs == {"p", "c_start", "c_fin", "ctx", "ctx_fin"}
PipePCs  == {"vt", "s_start", "norm_lo", "s_fin", "e_start", "norm_hi", "e_fin", "s_ddr",
             "c_start", "c_fin", "ctx", "next"}
SplitPCs == {"prep_q", "s_hi", "v", "s_lo", "s_end", "c_hi", "c_lo", "qk", "c_end"}

ADrv == usable \in BOOLEAN /\ blk \in {"run", "ok", "bad"}
AFlags == f \in Flags
AMats == m \in Matrices

(* where each path is, and with which head                                 *)
PathInv ==
  /\ h \in 1..(Heads + 1)
  /\ apc \in {"idle", "ret"} \cup SmxPCs \cup AlonePCs \cup PipePCs \cup SplitPCs \cup {"loop"}
  /\ apc \notin {"idle", "ret"} => f.path # "none"
  /\ apc \notin {"idle", "ret", "loop"} => h <= Heads
  /\ apc \in {"vt", "s_start", "norm_lo", "s_fin", "e_start", "norm_hi", "e_fin"}
     /\ f.path = "pipe" /\ ~f.prime => (h < Heads \/ apc \in {"norm_lo", "norm_hi"})
  /\ f.path = "smx" /\ apc # "ret" => f.prime /\ apc \in SmxPCs \cup AlonePCs
  /\ f.path = "split" /\ apc # "ret" => apc \in SplitPCs
  /\ f.path = "pipe" /\ apc # "ret" =>
       IF f.prime THEN h = 1 /\ apc \in SmxPCs \cup {"loop"} ELSE apc \in PipePCs \cup {"loop"}
  /\ apc = "loop" /\ ~f.prime => h >= 2
  /\ apc = "prep_q" => h = 1
  /\ apc = "s_ddr" => ~f.exp_next /\ f.s_cr
  /\ apc = "s_ddr" /\ f.path = "pipe" /\ ~f.prime => h < Heads
  /\ (f.prime /\ apc \in {"s_ddr", "p", "loop"}) => f.exp_ok = f.exp_next
  /\ otherScale /\ apc # "idle" => f.path = "pipe"

(* the head being prepared exists                                          *)
Next1 == f.prime \/ More

ThisJob(j) == pend \in {NoJob, j}
Ended == pend = NoJob \/ blk = "ok"
JobInv ==
  /\ apc \in {"norm_lo", "s_fin"} =>
       IF Next1 THEN ThisJob(Job(IF f.s_cr THEN "s_chip" ELSE "s", Prep, 0)) ELSE pend = NoJob
  /\ apc \in {"norm_hi", "e_fin"} =>
       IF Next1 /\ f.exp_next THEN pend = Job("exp", Prep, Slot) ELSE pend = NoJob
  /\ apc = "c_fin" => ThisJob(Job(IF f.c_cr THEN "c_chip" ELSE "c", h, CSlot))
  /\ apc \in {"next", "ctx_fin"} => ThisJob(Job("ctx", h, IF f.c_cr THEN 1 ELSE 0))
  /\ apc = "loop" => IF f.prime THEN pend = NoJob
                     ELSE ThisJob(Job("ctx", h - 1, IF f.c_cr THEN 1 ELSE 0))
  /\ apc \in {"v", "s_lo"} => ThisJob(Job("s8", h, 1))
  /\ apc = "s_end" => ThisJob(Job("s8", h, 0))
  /\ apc = "c_lo" => ThisJob(Job("c8", h, 1))
  /\ apc \in {"qk", "c_end"} => ThisJob(Job("c8", h, 0))
  /\ apc \in {"idle", "ret", "vt", "s_start", "e_start", "s_ddr", "p", "c_start", "ctx",
              "prep_q", "s_hi", "c_hi"} => pend = NoJob

(* v^T, of the head being prepared and of the head of the loop             *)
VtInv ==
  /\ apc \in {"s_start", "norm_lo", "s_fin", "e_start", "norm_hi", "e_fin", "s_ddr", "p",
              "c_start", "c_fin", "ctx", "next", "ctx_fin"} /\ Next1 => m.vt[Slot] = Prep
  /\ f.path = "pipe" /\ ~f.prime /\ apc \in PipePCs => m.vt[Par(h)] = h
  /\ apc = "loop" => /\ h <= Heads => m.vt[Par(h)] = h
                     /\ ~f.prime => m.vt[Par(h - 1)] = h - 1

(* q and the scores of the head being prepared                             *)
ScoresInv ==
  apc \in {"norm_lo", "s_fin", "e_start", "norm_hi", "e_fin", "s_ddr"} /\ Next1 =>
    /\ f.direct \/ m.q = Prep
    /\ apc \in {"norm_lo", "s_fin"} /\ Ended =>
         m.st[Par(Prep)] = Prep /\ (IF f.s_cr THEN m.sChip ELSE m.s[Par(Prep)]) = Prep
    /\ apc \in {"e_start", "norm_hi", "e_fin"} =>
         m.st[Par(Prep)] = Prep /\ (IF f.s_cr THEN m.sChip ELSE m.s[Par(Prep)]) = Prep
    /\ apc \in {"norm_hi", "e_fin"} /\ f.exp_next /\ blk = "ok" => m.pt[Slot] = Prep

(* what the softmax of a head needs: its exponentials and their sums, or   *)
(* its scores                                                              *)
Softmaxable(hd, i, exp, sums) ==
  IF exp THEN m.pt[i] = hd /\ (sums => m.psum = hd)
  ELSE m.s[Par(hd)] = hd /\ m.st[Par(hd)] = hd
ExpInv ==
  /\ apc \in {"p", "c_start", "c_fin", "ctx", "next"} /\ f.path = "pipe" /\ More =>
       Softmaxable(h + 1, Par(h + 1), f.exp_next, apc \in {"ctx", "next"})
  /\ f.path = "pipe" /\ ~f.prime
     /\ apc \in {"vt", "s_start", "norm_lo", "s_fin", "e_start", "norm_hi"} =>
       Softmaxable(h, Par(h), f.exp_ok, TRUE)
  /\ f.path = "pipe" /\ ~f.prime /\ apc \in {"e_fin", "s_ddr", "c_start", "c_fin"} /\ f.exp_ok =>
       m.psum = h
  /\ apc = "loop" /\ h <= Heads => Softmaxable(h, Par(h), f.exp_ok, TRUE)
  /\ apc = "p" => Softmaxable(h, 0, f.exp_ok, FALSE)

(* P, C and the context of the head of the loop                            *)
POf(hd) == m.p[0] = hd /\ m.p[1] = hd
ProductInv ==
  /\ f.path = "pipe" /\ ~f.prime /\ apc \in {"s_fin", "e_start", "norm_hi"} /\ f.exp_ok =>
       m.p[0] = h
  /\ f.path = "pipe" /\ ~f.prime /\ apc \in {"e_fin", "s_ddr"} => POf(h)
  /\ apc \in {"c_start", "c_fin", "ctx", "next", "ctx_fin"} => POf(h)
  /\ apc = "loop" /\ ~f.prime => POf(h - 1)
  /\ apc = "c_fin" /\ Ended => m.c[IF f.c_cr THEN 1 ELSE 0] = h
  /\ apc = "ctx" => m.c[IF f.c_cr THEN 1 ELSE 0] = h
  /\ apc \in {"next", "ctx_fin"} /\ pend # NoJob => m.c[IF f.c_cr THEN 1 ELSE 0] = h
  /\ apc = "loop" /\ pend # NoJob => m.c[IF f.c_cr THEN 1 ELSE 0] = h - 1

CtxInv ==
  /\ apc \notin {"idle", "ret", "loop"} => \A d \in HeadNo : d < h => m.ctx[d] = d
  /\ apc \in {"next", "ctx_fin"} /\ Ended => m.ctx[h] = h
  /\ apc = "loop" => \A d \in HeadNo : d < h - 1 \/ (d = h - 1 /\ Ended) => m.ctx[d] = d
  /\ apc = "ret" /\ f.path # "none" => \A d \in HeadNo : m.ctx[d] = d

(* the split path                                                          *)
SplitInv ==
  f.path = "split" /\ apc \in SplitPCs =>
    /\ apc \in {"s_hi", "v", "s_lo", "s_end", "c_hi", "c_lo", "qk"} => m.q = h /\ m.q_sh = h
    /\ apc = "c_end" /\ More => m.q = h + 1 /\ m.q_sh = h + 1
    /\ apc \in {"s_lo", "s_end", "c_hi", "c_lo", "qk", "c_end"} => m.vt[0] = h /\ m.vt[1] = h
    /\ apc \in {"v", "s_lo"} /\ Ended => m.s[1] = h
    /\ apc = "s_end" => m.s[1] = h /\ (Ended => m.s[0] = h)
    /\ apc \in {"c_hi", "c_lo", "qk", "c_end"} => POf(h)
    /\ apc = "c_lo" /\ Ended => m.c[1] = h
    /\ apc \in {"qk", "c_end"} => m.c[1] = h /\ (Ended => m.c[0] = h)

AttInv == /\ ADrv /\ AFlags /\ AMats /\ PathInv /\ JobInv /\ VtInv /\ ScoresInv /\ ExpInv
          /\ ProductInv /\ CtxInv /\ SplitInv

(* Outside dav2_attention_begin .. attention_end the call is idle.         *)
IdleInv == dpc # "heads" => apc = "idle"
AInv == AttInv /\ IdleInv

---------------------------------------------------------------------------

(* The operators of Attention: a buffer is used by every other head; each  *)
(* operator keeps the type of the matrices ...                             *)
LEMMA ParAlternates == \A n \in Nat : Par(n) \in 0..1 /\ Par(n + 1) = 1 - Par(n)
BY DEF Par

LEMMA EndingIs ==
  ASSUME NEW mm \in Matrices, NEW hd \in HeadNo, NEW i \in 0..1
  PROVE  /\ Ending(Job("s", hd, i), mm) = Scores(hd, mm)
         /\ Ending(Job("s_chip", hd, i), mm) = ScoresChip(hd, mm)
         /\ Ending(Job("exp", hd, i), mm) = ExpOf(hd, i, mm)
         /\ Ending(Job("c", hd, i), mm) = C_DDR(i, mm)
         /\ Ending(Job("c_chip", hd, i), mm) = [mm EXCEPT !.c[1] = Product(i, mm)]
         /\ Ending(Job("ctx", hd, i), mm) = [mm EXCEPT !.ctx[hd] = Same(mm.c[i], hd)]
         /\ Ending(Job("s8", hd, i), mm) = [mm EXCEPT !.s[i] = mm.q]
         /\ Ending(Job("c8", hd, i), mm) = [mm EXCEPT !.c[i] = Product(i, mm)]
BY DEF Ending, Job

LEMMA SameTyped == ASSUME NEW a \in Heads0, NEW b \in Heads0 PROVE Same(a, b) \in Heads0
BY HeadsAssumption DEF Same, Heads0

LEMMA ValuesTyped ==
  ASSUME NEW mm \in Matrices, NEW hd \in HeadNo, NEW i \in 0..1
  PROVE  Q(hd, mm) \in Heads0 /\ Product(i, mm) \in Heads0 /\ hd \in Heads0
<1>1. mm.q \in Heads0 /\ mm.p[0] \in Heads0 /\ mm.p[1] \in Heads0 /\ mm.vt[i] \in Heads0
      /\ hd \in Heads0
  BY SMTT(60), HeadsAssumption DEF Matrices, Heads0, HeadNo
<1>2. Same(mm.p[0], mm.p[1]) \in Heads0
  BY <1>1, SameTyped
<1>3. Product(i, mm) \in Heads0
  BY <1>1, <1>2, SameTyped DEF Product
<1> QED
  BY <1>1, <1>3 DEF Q

LEMMA FieldSet ==
  ASSUME NEW mm \in Matrices, NEW v \in Heads0, NEW w \in Heads0, NEW i \in 0..1,
      NEW hd \in HeadNo
  PROVE  /\ [mm EXCEPT !.q_sh = v, !.q = w] \in Matrices
         /\ [mm EXCEPT !.vt[i] = v] \in Matrices
         /\ [mm EXCEPT !.s[i] = v, !.st[i] = w] \in Matrices
         /\ [mm EXCEPT !.s[i] = v] \in Matrices
         /\ [mm EXCEPT !.sChip = v, !.st[i] = w] \in Matrices
         /\ [mm EXCEPT !.pt[i] = v] \in Matrices
         /\ [mm EXCEPT !.psum = v] \in Matrices
         /\ [mm EXCEPT !.p[i] = v] \in Matrices
         /\ [mm EXCEPT !.c[i] = v] \in Matrices
         /\ [mm EXCEPT !.ctx[hd] = v] \in Matrices
<1> DEFINE Set(g) == [g EXCEPT ![i] = v]
<1>1. ASSUME NEW g \in [0..1 -> Heads0],
    NEW x \in Heads0 PROVE [g EXCEPT ![i] = x] \in [0..1 -> Heads0]
  OBVIOUS
<1>2. ASSUME NEW g \in [HeadNo -> Heads0] PROVE [g EXCEPT ![hd] = v] \in [HeadNo -> Heads0]
  OBVIOUS
<1>3. [mm EXCEPT !.q_sh = v, !.q = w] \in Matrices
  BY DEF Matrices
<1>4. [mm EXCEPT !.vt[i] = v] \in Matrices
  BY <1>1 DEF Matrices
<1>5. [mm EXCEPT !.s[i] = v, !.st[i] = w] \in Matrices
  BY <1>1 DEF Matrices
<1>6. [mm EXCEPT !.s[i] = v] \in Matrices
  BY <1>1 DEF Matrices
<1>7. [mm EXCEPT !.sChip = v, !.st[i] = w] \in Matrices
  BY <1>1 DEF Matrices
<1>8. [mm EXCEPT !.pt[i] = v] \in Matrices
  BY <1>1 DEF Matrices
<1>9. [mm EXCEPT !.psum = v] \in Matrices
  BY DEF Matrices
<1>10. [mm EXCEPT !.p[i] = v] \in Matrices
  BY <1>1 DEF Matrices
<1>11. [mm EXCEPT !.c[i] = v] \in Matrices
  BY <1>1 DEF Matrices
<1>12. [mm EXCEPT !.ctx[hd] = v] \in Matrices
  <2>1. mm.ctx \in [HeadNo -> Heads0]
    BY DEF Matrices
  <2> DEFINE g == [mm.ctx EXCEPT ![hd] = v]
  <2>2. g \in [HeadNo -> Heads0]
    BY <1>2, <2>1
  <2> HIDE DEF g
  <2>3. [mm EXCEPT !.ctx = g] \in Matrices
    BY <2>2 DEF Matrices
  <2> QED
    BY <2>3 DEF g
<1> QED
  BY <1>3, <1>4, <1>5, <1>6, <1>7, <1>8, <1>9, <1>10, <1>11, <1>12

LEMMA OperatorsTyped ==
  ASSUME NEW mm \in Matrices, NEW hd \in HeadNo, NEW i \in 0..1, NEW k \in 0..1
  PROVE  /\ attn_prep_q16(hd, mm) \in Matrices /\ attn_prep_qk(hd, mm) \in Matrices
         /\ attn_prep_vt16(hd, i, mm) \in Matrices /\ attn_prep_v(hd, mm) \in Matrices
         /\ Scores(hd, mm) \in Matrices /\ ScoresChip(hd, mm) \in Matrices
         /\ ExpOf(hd, i, mm) \in Matrices /\ attn_softmax_accel_sums(i, mm) \in Matrices
         /\ attn_softmax_accel_norm(k, i, mm) \in Matrices /\ C_DDR(i, mm) \in Matrices
         /\ attn_context16_cpu(hd, mm) \in Matrices
<1>1. /\ Q(hd, mm) \in Heads0 /\ Product(i, mm) \in Heads0 /\ hd \in Heads0 /\ Par(hd) \in 0..1
      /\ mm.q \in Heads0 /\ mm.psum \in Heads0 /\ mm.pt[i] \in Heads0 /\ mm.c[0] \in Heads0
      /\ mm.sChip \in Heads0 /\ mm.s[Par(hd)] \in Heads0 /\ mm.st[Par(hd)] \in Heads0
  BY ValuesTyped, ParAlternates DEF Matrices, HeadNo
<1>2. attn_prep_q16(hd, mm) \in Matrices /\ attn_prep_qk(hd, mm) \in Matrices
  BY <1>1, FieldSet DEF attn_prep_q16, attn_prep_qk
<1>3. attn_prep_vt16(hd, i, mm) \in Matrices
  BY <1>1, FieldSet DEF attn_prep_vt16
<1>4. attn_prep_v(hd, mm) \in Matrices
  <2>1. [j \in 0..1 |-> hd] \in [0..1 -> Heads0]
    BY <1>1
  <2> QED
    BY <2>1 DEF attn_prep_v, Matrices
<1>5. Scores(hd, mm) \in Matrices /\ ScoresChip(hd, mm) \in Matrices
  BY <1>1, FieldSet DEF Scores, ScoresChip
<1>6. ExpOf(hd, i, mm) \in Matrices
  BY <1>1, SameTyped, FieldSet DEF ExpOf
<1>7. attn_softmax_accel_sums(i, mm) \in Matrices
  BY <1>1, FieldSet DEF attn_softmax_accel_sums
<1>8. attn_softmax_accel_norm(k, i, mm) \in Matrices
  BY <1>1, SameTyped, FieldSet DEF attn_softmax_accel_norm
<1>9. C_DDR(i, mm) \in Matrices
  <2>1. ASSUME NEW j \in 0..1 PROVE [mm EXCEPT !.c[j] = Product(i, mm)] \in Matrices
    BY <1>1, FieldSet
  <2> QED
    BY <2>1 DEF C_DDR
<1>10. attn_context16_cpu(hd, mm) \in Matrices
  BY <1>1, SameTyped, FieldSet DEF attn_context16_cpu
<1> QED
  BY <1>2, <1>3, <1>4, <1>5, <1>6, <1>7, <1>8, <1>9, <1>10

LEMMA SoftmaxTyped ==
  ASSUME NEW mm \in Matrices, h \in HeadNo
  PROVE  attn_softmax(mm) \in Matrices /\ attn_normalise(mm) \in Matrices
<1>1. /\ mm.s[0] \in Heads0 /\ mm.s[1] \in Heads0 /\ mm.c[0] \in Heads0 /\ mm.c[1] \in Heads0
      /\ h \in Heads0 /\ mm.s[Par(h)] \in Heads0 /\ mm.st[Par(h)] \in Heads0
  <2>1. h \in Heads0 /\ Par(h) \in 0..1
    BY HeadsAssumption, ParAlternates DEF HeadNo, Heads0
  <2> QED
    BY <2>1 DEF Matrices
<1> DEFINE v == IF f.path = "split" THEN Same(mm.s[0], mm.s[1]) ELSE Same(mm.s[Par(h)],
    mm.st[Par(h)])
<1>2. v \in Heads0
  BY <1>1, SameTyped
<1> HIDE DEF v
<1>3. [k \in 0..1 |-> v] \in [0..1 -> Heads0]
  BY <1>2
<1>4. [mm EXCEPT !.p = [k \in 0..1 |-> v]] \in Matrices
  BY <1>3 DEF Matrices
<1>5. attn_normalise(mm) \in Matrices
  <2>1. Same(Same(mm.c[0], mm.c[1]), h) \in Heads0
    BY <1>1, SameTyped
  <2>2. 1 \in 0..1
    OBVIOUS
  <2> QED
    BY <2>1, <2>2, FieldSet DEF attn_normalise
<1> QED
  BY <1>4, <1>5 DEF attn_softmax, v

LEMMA JobsTyped ==
  ASSUME NEW mm \in Matrices, NEW hd \in HeadNo, NEW i \in 0..1,
         NEW kind \in {"s", "s_chip", "exp", "c", "c_chip", "ctx", "s8", "c8"}
  PROVE  Ending(Job(kind, hd, i), mm) \in Matrices /\ Spoiled(Job(kind, hd, i), mm) \in Matrices
<1>1. /\ Q(hd, mm) \in Heads0 /\ Product(i, mm) \in Heads0 /\ hd \in Heads0 /\ Par(hd) \in 0..1
      /\ mm.q \in Heads0 /\ mm.c[i] \in Heads0 /\ 0 \in Heads0
  <2>1. Q(hd, mm) \in Heads0 /\ Product(i, mm) \in Heads0 /\ hd \in Heads0
    BY ValuesTyped
  <2>2. mm.q \in Heads0 /\ mm.c[i] \in Heads0
    BY DEF Matrices
  <2>3. Par(hd) \in 0..1 /\ 0 \in Heads0
    BY ParAlternates, HeadsAssumption DEF HeadNo, Heads0
  <2> QED
    BY <2>1, <2>2, <2>3
<1>2. Same(mm.c[i], hd) \in Heads0
  BY <1>1, SameTyped
<1>3. /\ \A j \in 0..1 : [mm EXCEPT !.c[j] = Product(i, mm)] \in Matrices
      /\ [mm EXCEPT !.s[i] = mm.q] \in Matrices
      /\ [mm EXCEPT !.ctx[hd] = Same(mm.c[i], hd)] \in Matrices
  BY <1>1, <1>2, FieldSet
<1>4. Ending(Job(kind, hd, i), mm) \in Matrices
  <2>1. /\ Scores(hd, mm) \in Matrices /\ ScoresChip(hd, mm) \in Matrices
        /\ ExpOf(hd, i, mm) \in Matrices /\ C_DDR(i, mm) \in Matrices
    BY OperatorsTyped
  <2>2. 1 \in 0..1
    OBVIOUS
  <2> QED
    BY <1>3, <2>1, <2>2 DEF Ending, Job
<1>5. /\ [mm EXCEPT !.s[Par(hd)] = 0, !.st[Par(hd)] = 0] \in Matrices
      /\ [mm EXCEPT !.sChip = 0, !.st[Par(hd)] = 0] \in Matrices
      /\ [mm EXCEPT !.pt[i] = 0] \in Matrices
      /\ \A j \in 0..1 : [mm EXCEPT !.c[j] = 0] \in Matrices
      /\ [mm EXCEPT !.ctx[hd] = 0] \in Matrices /\ [mm EXCEPT !.s[i] = 0] \in Matrices
  BY <1>1, FieldSet
<1>6. Spoiled(Job(kind, hd, i), mm) \in Matrices
  BY <1>5 DEF Spoiled, Job
<1> QED
  BY <1>4, <1>6

(* ... and writes the named matrices alone, with the head it is called     *)
(* for.                                                                    *)
LEMMA QPrepared ==
  ASSUME NEW mm \in Matrices, NEW hd \in HeadNo
  PROVE  LET n == attn_prep_q16(hd, mm)
         IN /\ n \in Matrices
            /\ n.q_sh = hd
            /\ f.direct \/ n.q = hd
            /\ n.s = mm.s /\ n.st = mm.st /\ n.sChip = mm.sChip /\ n.vt = mm.vt /\ n.pt = mm.pt
            /\ n.psum = mm.psum /\ n.p = mm.p /\ n.c = mm.c /\ n.ctx = mm.ctx
<1>0. 1 \in 0..1
  BY HeadsAssumption DEF HeadNo
<1>1. attn_prep_q16(hd, mm) \in Matrices
  BY <1>0, OperatorsTyped
<1> DEFINE n == attn_prep_q16(hd, mm)
<1>2. /\ n.q_sh = hd
      /\ f.direct \/ n.q = hd
      /\ n.s = mm.s /\ n.st = mm.st /\ n.sChip = mm.sChip /\ n.vt = mm.vt /\ n.pt = mm.pt
      /\ n.psum = mm.psum /\ n.p = mm.p /\ n.c = mm.c /\ n.ctx = mm.ctx
  BY HeadsAssumption DEF attn_prep_q16, Matrices, HeadNo
<1> QED
  BY <1>1, <1>2

LEMMA QkPrepared ==
  ASSUME NEW mm \in Matrices, NEW hd \in HeadNo
  PROVE  LET n == attn_prep_qk(hd, mm)
         IN /\ n \in Matrices
            /\ n.q_sh = hd
            /\ n.q = hd
            /\ n.s = mm.s /\ n.st = mm.st /\ n.sChip = mm.sChip /\ n.vt = mm.vt /\ n.pt = mm.pt
            /\ n.psum = mm.psum /\ n.p = mm.p /\ n.c = mm.c /\ n.ctx = mm.ctx
<1>0. 1 \in 0..1
  BY HeadsAssumption DEF HeadNo
<1>1. attn_prep_qk(hd, mm) \in Matrices
  BY <1>0, OperatorsTyped
<1> DEFINE n == attn_prep_qk(hd, mm)
<1>2. /\ n.q_sh = hd
      /\ n.q = hd
      /\ n.s = mm.s /\ n.st = mm.st /\ n.sChip = mm.sChip /\ n.vt = mm.vt /\ n.pt = mm.pt
      /\ n.psum = mm.psum /\ n.p = mm.p /\ n.c = mm.c /\ n.ctx = mm.ctx
  BY HeadsAssumption DEF attn_prep_qk, Matrices, HeadNo
<1> QED
  BY <1>1, <1>2

LEMMA VtPrepared ==
  ASSUME NEW mm \in Matrices, NEW hd \in HeadNo, NEW i \in 0..1
  PROVE  LET n == attn_prep_vt16(hd, i, mm)
         IN /\ n \in Matrices
            /\ n.vt[i] = hd
            /\ \A k \in 0..1 : k # i => n.vt[k] = mm.vt[k]
            /\ n.q = mm.q /\ n.q_sh = mm.q_sh /\ n.s = mm.s /\ n.st = mm.st /\ n.sChip = mm.sChip
            /\ n.pt = mm.pt /\ n.psum = mm.psum /\ n.p = mm.p /\ n.c = mm.c /\ n.ctx = mm.ctx
<1>1. attn_prep_vt16(hd, i, mm) \in Matrices
  BY OperatorsTyped
<1> DEFINE n == attn_prep_vt16(hd, i, mm)
<1>2. /\ n.vt[i] = hd
      /\ \A k \in 0..1 : k # i => n.vt[k] = mm.vt[k]
      /\ n.q = mm.q /\ n.q_sh = mm.q_sh /\ n.s = mm.s /\ n.st = mm.st /\ n.sChip = mm.sChip
      /\ n.pt = mm.pt /\ n.psum = mm.psum /\ n.p = mm.p /\ n.c = mm.c /\ n.ctx = mm.ctx
  BY HeadsAssumption DEF attn_prep_vt16, Matrices, HeadNo
<1> QED
  BY <1>1, <1>2

LEMMA VPrepared ==
  ASSUME NEW mm \in Matrices, NEW hd \in HeadNo
  PROVE  LET n == attn_prep_v(hd, mm)
         IN /\ n \in Matrices
            /\ n.vt[0] = hd
            /\ n.vt[1] = hd
            /\ n.q = mm.q /\ n.q_sh = mm.q_sh /\ n.s = mm.s /\ n.st = mm.st /\ n.sChip = mm.sChip
            /\ n.pt = mm.pt /\ n.psum = mm.psum /\ n.p = mm.p /\ n.c = mm.c /\ n.ctx = mm.ctx
<1>0. 1 \in 0..1
  BY HeadsAssumption DEF HeadNo
<1>1. attn_prep_v(hd, mm) \in Matrices
  BY <1>0, OperatorsTyped
<1> DEFINE n == attn_prep_v(hd, mm)
<1>2. /\ n.vt[0] = hd
      /\ n.vt[1] = hd
      /\ n.q = mm.q /\ n.q_sh = mm.q_sh /\ n.s = mm.s /\ n.st = mm.st /\ n.sChip = mm.sChip
      /\ n.pt = mm.pt /\ n.psum = mm.psum /\ n.p = mm.p /\ n.c = mm.c /\ n.ctx = mm.ctx
  BY HeadsAssumption DEF attn_prep_v, Matrices, HeadNo
<1> QED
  BY <1>1, <1>2

LEMMA ScoresMade ==
  ASSUME NEW mm \in Matrices, NEW hd \in HeadNo
  PROVE  LET n == Scores(hd, mm)
         IN /\ n \in Matrices
            /\ n.s[Par(hd)] = Q(hd, mm)
            /\ n.st[Par(hd)] = Q(hd, mm)
            /\ \A k \in 0..1 : k # Par(hd) => n.s[k] = mm.s[k] /\ n.st[k] = mm.st[k]
            /\ n.q = mm.q /\ n.q_sh = mm.q_sh /\ n.sChip = mm.sChip /\ n.vt = mm.vt
               /\ n.pt = mm.pt
            /\ n.psum = mm.psum /\ n.p = mm.p /\ n.c = mm.c /\ n.ctx = mm.ctx
<1>0. 1 \in 0..1
  BY HeadsAssumption DEF HeadNo
<1>1. Scores(hd, mm) \in Matrices
  BY <1>0, OperatorsTyped
<1> DEFINE n == Scores(hd, mm)
<1>2. /\ n.s[Par(hd)] = Q(hd, mm)
      /\ n.st[Par(hd)] = Q(hd, mm)
      /\ \A k \in 0..1 : k # Par(hd) => n.s[k] = mm.s[k] /\ n.st[k] = mm.st[k]
      /\ n.q = mm.q /\ n.q_sh = mm.q_sh /\ n.sChip = mm.sChip /\ n.vt = mm.vt /\ n.pt = mm.pt
      /\ n.psum = mm.psum /\ n.p = mm.p /\ n.c = mm.c /\ n.ctx = mm.ctx
  BY HeadsAssumption, ParAlternates DEF Scores, Matrices, HeadNo
<1> QED
  BY <1>1, <1>2

LEMMA ScoresChipMade ==
  ASSUME NEW mm \in Matrices, NEW hd \in HeadNo
  PROVE  LET n == ScoresChip(hd, mm)
         IN /\ n \in Matrices
            /\ n.sChip = Q(hd, mm)
            /\ n.st[Par(hd)] = Q(hd, mm)
            /\ \A k \in 0..1 : k # Par(hd) => n.st[k] = mm.st[k]
            /\ n.q = mm.q /\ n.q_sh = mm.q_sh /\ n.s = mm.s /\ n.vt = mm.vt /\ n.pt = mm.pt
            /\ n.psum = mm.psum /\ n.p = mm.p /\ n.c = mm.c /\ n.ctx = mm.ctx
<1>0. 1 \in 0..1
  BY HeadsAssumption DEF HeadNo
<1>1. ScoresChip(hd, mm) \in Matrices
  BY <1>0, OperatorsTyped
<1> DEFINE n == ScoresChip(hd, mm)
<1>2. /\ n.sChip = Q(hd, mm)
      /\ n.st[Par(hd)] = Q(hd, mm)
      /\ \A k \in 0..1 : k # Par(hd) => n.st[k] = mm.st[k]
      /\ n.q = mm.q /\ n.q_sh = mm.q_sh /\ n.s = mm.s /\ n.vt = mm.vt /\ n.pt = mm.pt
      /\ n.psum = mm.psum /\ n.p = mm.p /\ n.c = mm.c /\ n.ctx = mm.ctx
  BY HeadsAssumption, ParAlternates DEF ScoresChip, Matrices, HeadNo
<1> QED
  BY <1>1, <1>2

LEMMA ExpMade ==
  ASSUME NEW mm \in Matrices, NEW hd \in HeadNo, NEW i \in 0..1
  PROVE  LET n == ExpOf(hd, i, mm)
         IN /\ n \in Matrices
            /\ n.pt[i] = Same(IF f.s_cr THEN mm.sChip ELSE mm.s[Par(hd)], mm.st[Par(hd)])
            /\ \A k \in 0..1 : k # i => n.pt[k] = mm.pt[k]
            /\ n.q = mm.q /\ n.q_sh = mm.q_sh /\ n.s = mm.s /\ n.st = mm.st /\ n.sChip = mm.sChip
            /\ n.vt = mm.vt /\ n.psum = mm.psum /\ n.p = mm.p /\ n.c = mm.c /\ n.ctx = mm.ctx
<1>1. ExpOf(hd, i, mm) \in Matrices
  BY OperatorsTyped
<1> DEFINE n == ExpOf(hd, i, mm)
<1>2. /\ n.pt[i] = Same(IF f.s_cr THEN mm.sChip ELSE mm.s[Par(hd)], mm.st[Par(hd)])
      /\ \A k \in 0..1 : k # i => n.pt[k] = mm.pt[k]
      /\ n.q = mm.q /\ n.q_sh = mm.q_sh /\ n.s = mm.s /\ n.st = mm.st /\ n.sChip = mm.sChip
      /\ n.vt = mm.vt /\ n.psum = mm.psum /\ n.p = mm.p /\ n.c = mm.c /\ n.ctx = mm.ctx
  BY HeadsAssumption DEF ExpOf, Matrices, HeadNo
<1> QED
  BY <1>1, <1>2

LEMMA SumsMade ==
  ASSUME NEW mm \in Matrices, NEW i \in 0..1
  PROVE  LET n == attn_softmax_accel_sums(i, mm)
         IN /\ n \in Matrices
            /\ n.psum = mm.pt[i]
            /\ n.q = mm.q /\ n.q_sh = mm.q_sh /\ n.s = mm.s /\ n.st = mm.st /\ n.sChip = mm.sChip
            /\ n.vt = mm.vt /\ n.pt = mm.pt /\ n.p = mm.p /\ n.c = mm.c /\ n.ctx = mm.ctx
<1>0. 1 \in HeadNo
  BY HeadsAssumption DEF HeadNo
<1>1. attn_softmax_accel_sums(i, mm) \in Matrices
  BY <1>0, OperatorsTyped
<1> DEFINE n == attn_softmax_accel_sums(i, mm)
<1>2. /\ n.psum = mm.pt[i]
      /\ n.q = mm.q /\ n.q_sh = mm.q_sh /\ n.s = mm.s /\ n.st = mm.st /\ n.sChip = mm.sChip
      /\ n.vt = mm.vt /\ n.pt = mm.pt /\ n.p = mm.p /\ n.c = mm.c /\ n.ctx = mm.ctx
  BY HeadsAssumption DEF attn_softmax_accel_sums, Matrices, HeadNo
<1> QED
  BY <1>1, <1>2

LEMMA NormMade ==
  ASSUME NEW mm \in Matrices, NEW i \in 0..1, NEW k \in 0..1
  PROVE  LET n == attn_softmax_accel_norm(k, i, mm)
         IN /\ n \in Matrices
            /\ n.p[k] = Same(mm.pt[i], mm.psum)
            /\ \A j \in 0..1 : j # k => n.p[j] = mm.p[j]
            /\ n.q = mm.q /\ n.q_sh = mm.q_sh /\ n.s = mm.s /\ n.st = mm.st /\ n.sChip = mm.sChip
            /\ n.vt = mm.vt /\ n.pt = mm.pt /\ n.psum = mm.psum /\ n.c = mm.c /\ n.ctx = mm.ctx
<1>0. 1 \in HeadNo
  BY HeadsAssumption DEF HeadNo
<1>1. attn_softmax_accel_norm(k, i, mm) \in Matrices
  BY <1>0, OperatorsTyped
<1> DEFINE n == attn_softmax_accel_norm(k, i, mm)
<1>2. /\ n.p[k] = Same(mm.pt[i], mm.psum)
      /\ \A j \in 0..1 : j # k => n.p[j] = mm.p[j]
      /\ n.q = mm.q /\ n.q_sh = mm.q_sh /\ n.s = mm.s /\ n.st = mm.st /\ n.sChip = mm.sChip
      /\ n.vt = mm.vt /\ n.pt = mm.pt /\ n.psum = mm.psum /\ n.c = mm.c /\ n.ctx = mm.ctx
  BY HeadsAssumption DEF attn_softmax_accel_norm, Matrices, HeadNo
<1> QED
  BY <1>1, <1>2

LEMMA SoftmaxMade ==
  ASSUME NEW mm \in Matrices, h \in HeadNo
  PROVE  LET n == attn_softmax(mm)
         IN /\ n \in Matrices
            /\ f.path = "split" => \A k \in 0..1 : n.p[k] = Same(mm.s[0], mm.s[1])
            /\ f.path # "split" => \A k \in 0..1 : n.p[k] = Same(mm.s[Par(h)], mm.st[Par(h)])
            /\ n.q = mm.q /\ n.q_sh = mm.q_sh /\ n.s = mm.s /\ n.st = mm.st /\ n.sChip = mm.sChip
            /\ n.vt = mm.vt /\ n.pt = mm.pt /\ n.psum = mm.psum /\ n.c = mm.c /\ n.ctx = mm.ctx
<1>1. attn_softmax(mm) \in Matrices
  BY SoftmaxTyped
<1> DEFINE n == attn_softmax(mm)
<1>2. /\ f.path = "split" => \A k \in 0..1 : n.p[k] = Same(mm.s[0], mm.s[1])
      /\ f.path # "split" => \A k \in 0..1 : n.p[k] = Same(mm.s[Par(h)], mm.st[Par(h)])
      /\ n.q = mm.q /\ n.q_sh = mm.q_sh /\ n.s = mm.s /\ n.st = mm.st /\ n.sChip = mm.sChip
      /\ n.vt = mm.vt /\ n.pt = mm.pt /\ n.psum = mm.psum /\ n.c = mm.c /\ n.ctx = mm.ctx
  BY HeadsAssumption DEF attn_softmax, Matrices, HeadNo
<1> QED
  BY <1>1, <1>2

LEMMA CMade ==
  ASSUME NEW mm \in Matrices, NEW i \in 0..1
  PROVE  LET n == C_DDR(i, mm)
         IN /\ n \in Matrices
            /\ n.c[0] = Product(i, mm)
            /\ n.c[1] = mm.c[1]
            /\ n.q = mm.q /\ n.q_sh = mm.q_sh /\ n.s = mm.s /\ n.st = mm.st /\ n.sChip = mm.sChip
            /\ n.vt = mm.vt /\ n.pt = mm.pt /\ n.psum = mm.psum /\ n.p = mm.p /\ n.ctx = mm.ctx
<1>0. 1 \in HeadNo
  BY HeadsAssumption DEF HeadNo
<1>1. C_DDR(i, mm) \in Matrices
  BY <1>0, OperatorsTyped
<1> DEFINE n == C_DDR(i, mm)
<1>2. /\ n.c[0] = Product(i, mm)
      /\ n.c[1] = mm.c[1]
      /\ n.q = mm.q /\ n.q_sh = mm.q_sh /\ n.s = mm.s /\ n.st = mm.st /\ n.sChip = mm.sChip
      /\ n.vt = mm.vt /\ n.pt = mm.pt /\ n.psum = mm.psum /\ n.p = mm.p /\ n.ctx = mm.ctx
  BY HeadsAssumption DEF C_DDR, Matrices, HeadNo
<1> QED
  BY <1>1, <1>2

LEMMA ContextRounded ==
  ASSUME NEW mm \in Matrices, NEW hd \in HeadNo
  PROVE  LET n == attn_context16_cpu(hd, mm)
         IN /\ n \in Matrices
            /\ n.ctx[hd] = Same(mm.c[0], hd)
            /\ \A d \in HeadNo : d # hd => n.ctx[d] = mm.ctx[d]
            /\ n.q = mm.q /\ n.q_sh = mm.q_sh /\ n.s = mm.s /\ n.st = mm.st /\ n.sChip = mm.sChip
            /\ n.vt = mm.vt /\ n.pt = mm.pt /\ n.psum = mm.psum /\ n.p = mm.p /\ n.c = mm.c
<1>0. 1 \in 0..1
  BY HeadsAssumption DEF HeadNo
<1>1. attn_context16_cpu(hd, mm) \in Matrices
  BY <1>0, OperatorsTyped
<1> DEFINE n == attn_context16_cpu(hd, mm)
<1>2. /\ n.ctx[hd] = Same(mm.c[0], hd)
      /\ \A d \in HeadNo : d # hd => n.ctx[d] = mm.ctx[d]
      /\ n.q = mm.q /\ n.q_sh = mm.q_sh /\ n.s = mm.s /\ n.st = mm.st /\ n.sChip = mm.sChip
      /\ n.vt = mm.vt /\ n.pt = mm.pt /\ n.psum = mm.psum /\ n.p = mm.p /\ n.c = mm.c
  BY HeadsAssumption DEF attn_context16_cpu, Matrices, HeadNo
<1> QED
  BY <1>1, <1>2

LEMMA Normalised ==
  ASSUME NEW mm \in Matrices, h \in HeadNo
  PROVE  LET n == attn_normalise(mm)
         IN /\ n \in Matrices
            /\ n.ctx[h] = Same(Same(mm.c[0], mm.c[1]), h)
            /\ \A d \in HeadNo : d # h => n.ctx[d] = mm.ctx[d]
            /\ n.q = mm.q /\ n.q_sh = mm.q_sh /\ n.s = mm.s /\ n.st = mm.st /\ n.sChip = mm.sChip
            /\ n.vt = mm.vt /\ n.pt = mm.pt /\ n.psum = mm.psum /\ n.p = mm.p /\ n.c = mm.c
<1>1. attn_normalise(mm) \in Matrices
  BY SoftmaxTyped
<1> DEFINE n == attn_normalise(mm)
<1>2. /\ n.ctx[h] = Same(Same(mm.c[0], mm.c[1]), h)
      /\ \A d \in HeadNo : d # h => n.ctx[d] = mm.ctx[d]
      /\ n.q = mm.q /\ n.q_sh = mm.q_sh /\ n.s = mm.s /\ n.st = mm.st /\ n.sChip = mm.sChip
      /\ n.vt = mm.vt /\ n.pt = mm.pt /\ n.psum = mm.psum /\ n.p = mm.p /\ n.c = mm.c
  BY HeadsAssumption DEF attn_normalise, Matrices, HeadNo
<1> QED
  BY <1>1, <1>2

(* A job that has been issued spoils what it writes until it ends          *)
(* (accel_run: the block writes DDR or the chip memories while the         *)
(* processor goes on), and nothing else.                                   *)
LEMMA Spoiled_s ==
  ASSUME NEW mm \in Matrices, NEW hd \in HeadNo, NEW i \in 0..1
  PROVE  LET n == Spoiled(Job("s", hd, i), mm)
         IN /\ n \in Matrices
            /\ \A k \in 0..1 : k # Par(hd) => n.s[k] = mm.s[k] /\ n.st[k] = mm.st[k]
            /\ n.q = mm.q /\ n.q_sh = mm.q_sh /\ n.sChip = mm.sChip /\ n.vt = mm.vt
               /\ n.pt = mm.pt
            /\ n.psum = mm.psum /\ n.p = mm.p /\ n.c = mm.c /\ n.ctx = mm.ctx
<1>1. Spoiled(Job("s", hd, i), mm) \in Matrices
  BY JobsTyped
<1> DEFINE n == Spoiled(Job("s", hd, i), mm)
<1>2. /\ \A k \in 0..1 : k # Par(hd) => n.s[k] = mm.s[k] /\ n.st[k] = mm.st[k]
      /\ n.q = mm.q /\ n.q_sh = mm.q_sh /\ n.sChip = mm.sChip /\ n.vt = mm.vt /\ n.pt = mm.pt
      /\ n.psum = mm.psum /\ n.p = mm.p /\ n.c = mm.c /\ n.ctx = mm.ctx
  BY HeadsAssumption, ParAlternates DEF Spoiled, Job, Matrices, HeadNo
<1> QED
  BY <1>1, <1>2

LEMMA Spoiled_s_chip ==
  ASSUME NEW mm \in Matrices, NEW hd \in HeadNo, NEW i \in 0..1
  PROVE  LET n == Spoiled(Job("s_chip", hd, i), mm)
         IN /\ n \in Matrices
            /\ \A k \in 0..1 : k # Par(hd) => n.st[k] = mm.st[k]
            /\ n.q = mm.q /\ n.q_sh = mm.q_sh /\ n.s = mm.s /\ n.vt = mm.vt /\ n.pt = mm.pt
            /\ n.psum = mm.psum /\ n.p = mm.p /\ n.c = mm.c /\ n.ctx = mm.ctx
<1>1. Spoiled(Job("s_chip", hd, i), mm) \in Matrices
  BY JobsTyped
<1> DEFINE n == Spoiled(Job("s_chip", hd, i), mm)
<1>2. /\ \A k \in 0..1 : k # Par(hd) => n.st[k] = mm.st[k]
      /\ n.q = mm.q /\ n.q_sh = mm.q_sh /\ n.s = mm.s /\ n.vt = mm.vt /\ n.pt = mm.pt
      /\ n.psum = mm.psum /\ n.p = mm.p /\ n.c = mm.c /\ n.ctx = mm.ctx
  BY HeadsAssumption, ParAlternates DEF Spoiled, Job, Matrices, HeadNo
<1> QED
  BY <1>1, <1>2

LEMMA Spoiled_exp ==
  ASSUME NEW mm \in Matrices, NEW hd \in HeadNo, NEW i \in 0..1
  PROVE  LET n == Spoiled(Job("exp", hd, i), mm)
         IN /\ n \in Matrices
            /\ \A k \in 0..1 : k # i => n.pt[k] = mm.pt[k]
            /\ n.q = mm.q /\ n.q_sh = mm.q_sh /\ n.s = mm.s /\ n.st = mm.st /\ n.sChip = mm.sChip
            /\ n.vt = mm.vt /\ n.psum = mm.psum /\ n.p = mm.p /\ n.c = mm.c /\ n.ctx = mm.ctx
<1>1. Spoiled(Job("exp", hd, i), mm) \in Matrices
  BY JobsTyped
<1> DEFINE n == Spoiled(Job("exp", hd, i), mm)
<1>2. /\ \A k \in 0..1 : k # i => n.pt[k] = mm.pt[k]
      /\ n.q = mm.q /\ n.q_sh = mm.q_sh /\ n.s = mm.s /\ n.st = mm.st /\ n.sChip = mm.sChip
      /\ n.vt = mm.vt /\ n.psum = mm.psum /\ n.p = mm.p /\ n.c = mm.c /\ n.ctx = mm.ctx
  BY HeadsAssumption, ParAlternates DEF Spoiled, Job, Matrices, HeadNo
<1> QED
  BY <1>1, <1>2

LEMMA Spoiled_c ==
  ASSUME NEW mm \in Matrices, NEW hd \in HeadNo, NEW i \in 0..1
  PROVE  LET n == Spoiled(Job("c", hd, i), mm)
         IN /\ n \in Matrices
            /\ n.q = mm.q /\ n.q_sh = mm.q_sh /\ n.s = mm.s /\ n.st = mm.st /\ n.sChip = mm.sChip
            /\ n.vt = mm.vt /\ n.pt = mm.pt /\ n.psum = mm.psum /\ n.p = mm.p /\ n.ctx = mm.ctx
<1>1. Spoiled(Job("c", hd, i), mm) \in Matrices
  BY JobsTyped
<1> DEFINE n == Spoiled(Job("c", hd, i), mm)
<1>2. /\ n.q = mm.q /\ n.q_sh = mm.q_sh /\ n.s = mm.s /\ n.st = mm.st /\ n.sChip = mm.sChip
      /\ n.vt = mm.vt /\ n.pt = mm.pt /\ n.psum = mm.psum /\ n.p = mm.p /\ n.ctx = mm.ctx
  BY HeadsAssumption, ParAlternates DEF Spoiled, Job, Matrices, HeadNo
<1> QED
  BY <1>1, <1>2

LEMMA Spoiled_c_chip ==
  ASSUME NEW mm \in Matrices, NEW hd \in HeadNo, NEW i \in 0..1
  PROVE  LET n == Spoiled(Job("c_chip", hd, i), mm)
         IN /\ n \in Matrices
            /\ n.q = mm.q /\ n.q_sh = mm.q_sh /\ n.s = mm.s /\ n.st = mm.st /\ n.sChip = mm.sChip
            /\ n.vt = mm.vt /\ n.pt = mm.pt /\ n.psum = mm.psum /\ n.p = mm.p /\ n.ctx = mm.ctx
<1>1. Spoiled(Job("c_chip", hd, i), mm) \in Matrices
  BY JobsTyped
<1> DEFINE n == Spoiled(Job("c_chip", hd, i), mm)
<1>2. /\ n.q = mm.q /\ n.q_sh = mm.q_sh /\ n.s = mm.s /\ n.st = mm.st /\ n.sChip = mm.sChip
      /\ n.vt = mm.vt /\ n.pt = mm.pt /\ n.psum = mm.psum /\ n.p = mm.p /\ n.ctx = mm.ctx
  BY HeadsAssumption, ParAlternates DEF Spoiled, Job, Matrices, HeadNo
<1> QED
  BY <1>1, <1>2

LEMMA Spoiled_ctx ==
  ASSUME NEW mm \in Matrices, NEW hd \in HeadNo, NEW i \in 0..1
  PROVE  LET n == Spoiled(Job("ctx", hd, i), mm)
         IN /\ n \in Matrices
            /\ \A d \in HeadNo : d # hd => n.ctx[d] = mm.ctx[d]
            /\ n.q = mm.q /\ n.q_sh = mm.q_sh /\ n.s = mm.s /\ n.st = mm.st /\ n.sChip = mm.sChip
            /\ n.vt = mm.vt /\ n.pt = mm.pt /\ n.psum = mm.psum /\ n.p = mm.p /\ n.c = mm.c
<1>1. Spoiled(Job("ctx", hd, i), mm) \in Matrices
  BY JobsTyped
<1> DEFINE n == Spoiled(Job("ctx", hd, i), mm)
<1>2. /\ \A d \in HeadNo : d # hd => n.ctx[d] = mm.ctx[d]
      /\ n.q = mm.q /\ n.q_sh = mm.q_sh /\ n.s = mm.s /\ n.st = mm.st /\ n.sChip = mm.sChip
      /\ n.vt = mm.vt /\ n.pt = mm.pt /\ n.psum = mm.psum /\ n.p = mm.p /\ n.c = mm.c
  BY HeadsAssumption, ParAlternates DEF Spoiled, Job, Matrices, HeadNo
<1> QED
  BY <1>1, <1>2

LEMMA Spoiled_s8 ==
  ASSUME NEW mm \in Matrices, NEW hd \in HeadNo, NEW i \in 0..1
  PROVE  LET n == Spoiled(Job("s8", hd, i), mm)
         IN /\ n \in Matrices
            /\ \A k \in 0..1 : k # i => n.s[k] = mm.s[k]
            /\ n.q = mm.q /\ n.q_sh = mm.q_sh /\ n.st = mm.st /\ n.sChip = mm.sChip
               /\ n.vt = mm.vt
            /\ n.pt = mm.pt /\ n.psum = mm.psum /\ n.p = mm.p /\ n.c = mm.c /\ n.ctx = mm.ctx
<1>1. Spoiled(Job("s8", hd, i), mm) \in Matrices
  BY JobsTyped
<1> DEFINE n == Spoiled(Job("s8", hd, i), mm)
<1>2. /\ \A k \in 0..1 : k # i => n.s[k] = mm.s[k]
      /\ n.q = mm.q /\ n.q_sh = mm.q_sh /\ n.st = mm.st /\ n.sChip = mm.sChip /\ n.vt = mm.vt
      /\ n.pt = mm.pt /\ n.psum = mm.psum /\ n.p = mm.p /\ n.c = mm.c /\ n.ctx = mm.ctx
  BY HeadsAssumption, ParAlternates DEF Spoiled, Job, Matrices, HeadNo
<1> QED
  BY <1>1, <1>2

LEMMA Spoiled_c8 ==
  ASSUME NEW mm \in Matrices, NEW hd \in HeadNo, NEW i \in 0..1
  PROVE  LET n == Spoiled(Job("c8", hd, i), mm)
         IN /\ n \in Matrices
            /\ \A k \in 0..1 : k # i => n.c[k] = mm.c[k]
            /\ n.q = mm.q /\ n.q_sh = mm.q_sh /\ n.s = mm.s /\ n.st = mm.st /\ n.sChip = mm.sChip
            /\ n.vt = mm.vt /\ n.pt = mm.pt /\ n.psum = mm.psum /\ n.p = mm.p /\ n.ctx = mm.ctx
<1>1. Spoiled(Job("c8", hd, i), mm) \in Matrices
  BY JobsTyped
<1> DEFINE n == Spoiled(Job("c8", hd, i), mm)
<1>2. /\ \A k \in 0..1 : k # i => n.c[k] = mm.c[k]
      /\ n.q = mm.q /\ n.q_sh = mm.q_sh /\ n.s = mm.s /\ n.st = mm.st /\ n.sChip = mm.sChip
      /\ n.vt = mm.vt /\ n.pt = mm.pt /\ n.psum = mm.psum /\ n.p = mm.p /\ n.ctx = mm.ctx
  BY HeadsAssumption, ParAlternates DEF Spoiled, Job, Matrices, HeadNo
<1> QED
  BY <1>1, <1>2

(* What one assignment to a matrix leaves alone, and so what the end of an *)
(* 8-bit job does and what Settled (dav2_accel_wait, or the product on the *)
(* processor when the job failed) returns.                                 *)
LEMMA SPut ==
  ASSUME NEW mm \in Matrices, NEW i \in 0..1, NEW v \in Heads0
  PROVE  LET n == [mm EXCEPT !.s[i] = v]
         IN /\ n \in Matrices /\ n.s[i] = v /\ \A k \in 0..1 : k # i => n.s[k] = mm.s[k]
            /\ n.q = mm.q /\ n.q_sh = mm.q_sh /\ n.st = mm.st /\ n.sChip = mm.sChip
               /\ n.vt = mm.vt /\ n.pt = mm.pt /\ n.psum = mm.psum /\ n.p = mm.p /\ n.c = mm.c
                  /\ n.ctx = mm.ctx
<1>0. 1 \in HeadNo /\ 1 \in 0..1
  BY HeadsAssumption DEF HeadNo
<1>1. [mm EXCEPT !.s[i] = v] \in Matrices
  BY <1>0, FieldSet
<1> DEFINE n == [mm EXCEPT !.s[i] = v]
<1>2. /\ n.s[i] = v /\ \A k \in 0..1 : k # i => n.s[k] = mm.s[k]
      /\ n.q = mm.q /\ n.q_sh = mm.q_sh /\ n.st = mm.st /\ n.sChip = mm.sChip /\ n.vt = mm.vt
         /\ n.pt = mm.pt /\ n.psum = mm.psum /\ n.p = mm.p /\ n.c = mm.c /\ n.ctx = mm.ctx
  BY DEF Matrices
<1> QED
  BY <1>1, <1>2

LEMMA CPut ==
  ASSUME NEW mm \in Matrices, NEW i \in 0..1, NEW v \in Heads0
  PROVE  LET n == [mm EXCEPT !.c[i] = v]
         IN /\ n \in Matrices /\ n.c[i] = v /\ \A k \in 0..1 : k # i => n.c[k] = mm.c[k]
            /\ n.q = mm.q /\ n.q_sh = mm.q_sh /\ n.s = mm.s /\ n.st = mm.st /\ n.sChip = mm.sChip
               /\ n.vt = mm.vt /\ n.pt = mm.pt /\ n.psum = mm.psum /\ n.p = mm.p /\ n.ctx = mm.ctx
<1>0. 1 \in HeadNo /\ 1 \in 0..1
  BY HeadsAssumption DEF HeadNo
<1>1. [mm EXCEPT !.c[i] = v] \in Matrices
  BY <1>0, FieldSet
<1> DEFINE n == [mm EXCEPT !.c[i] = v]
<1>2. /\ n.c[i] = v /\ \A k \in 0..1 : k # i => n.c[k] = mm.c[k]
      /\ n.q = mm.q /\ n.q_sh = mm.q_sh /\ n.s = mm.s /\ n.st = mm.st /\ n.sChip = mm.sChip
         /\ n.vt = mm.vt /\ n.pt = mm.pt /\ n.psum = mm.psum /\ n.p = mm.p /\ n.ctx = mm.ctx
  BY DEF Matrices
<1> QED
  BY <1>1, <1>2

LEMMA CtxPut ==
  ASSUME NEW mm \in Matrices, NEW hd \in HeadNo, NEW v \in Heads0
  PROVE  LET n == [mm EXCEPT !.ctx[hd] = v]
         IN /\ n \in Matrices /\ n.ctx[hd] = v /\ \A k \in HeadNo : k # hd => n.ctx[k] = mm.ctx[k]
            /\ n.q = mm.q /\ n.q_sh = mm.q_sh /\ n.s = mm.s /\ n.st = mm.st /\ n.sChip = mm.sChip
               /\ n.vt = mm.vt /\ n.pt = mm.pt /\ n.psum = mm.psum /\ n.p = mm.p /\ n.c = mm.c
<1>0. 1 \in HeadNo /\ 1 \in 0..1
  BY HeadsAssumption DEF HeadNo
<1>1. [mm EXCEPT !.ctx[hd] = v] \in Matrices
  BY <1>0, FieldSet
<1> DEFINE n == [mm EXCEPT !.ctx[hd] = v]
<1>2. /\ n.ctx[hd] = v /\ \A k \in HeadNo : k # hd => n.ctx[k] = mm.ctx[k]
      /\ n.q = mm.q /\ n.q_sh = mm.q_sh /\ n.s = mm.s /\ n.st = mm.st /\ n.sChip = mm.sChip
         /\ n.vt = mm.vt /\ n.pt = mm.pt /\ n.psum = mm.psum /\ n.p = mm.p /\ n.c = mm.c
  BY DEF Matrices
<1> QED
  BY <1>1, <1>2

LEMMA Ended_s8 ==
  ASSUME NEW mm \in Matrices, NEW hd \in HeadNo, NEW i \in 0..1
  PROVE  LET n == Ending(Job("s8", hd, i), mm)
         IN /\ n \in Matrices /\ n.s[i] = mm.q /\ \A k \in 0..1 : k # i => n.s[k] = mm.s[k]
            /\ n.q = mm.q /\ n.q_sh = mm.q_sh /\ n.st = mm.st /\ n.sChip = mm.sChip
               /\ n.vt = mm.vt /\ n.pt = mm.pt /\ n.psum = mm.psum /\ n.p = mm.p /\ n.c = mm.c
                  /\ n.ctx = mm.ctx
<1> DEFINE v == mm.q
           n == [mm EXCEPT !.s[i] = v]
<1>1. v \in Heads0
  BY ValuesTyped DEF Matrices
<1>2. Ending(Job("s8", hd, i), mm) = n
  BY EndingIs
<1> HIDE DEF v
<1>3. /\ n \in Matrices /\ n.s[i] = v /\ \A k \in 0..1 : k # i => n.s[k] = mm.s[k]
      /\ n.q = mm.q /\ n.q_sh = mm.q_sh /\ n.st = mm.st /\ n.sChip = mm.sChip /\ n.vt = mm.vt
         /\ n.pt = mm.pt /\ n.psum = mm.psum /\ n.p = mm.p /\ n.c = mm.c /\ n.ctx = mm.ctx
  BY <1>1, SPut
<1> HIDE DEF n
<1> QED
  BY <1>2, <1>3 DEF v

LEMMA Settled_s8 ==
  ASSUME m \in Matrices, NEW hd \in HeadNo, NEW i \in 0..1, ThisJob(Job("s8", hd, i))
  PROVE  /\ Settled \in Matrices
         /\ Settled.s[i] = IF Good THEN m.s[i] ELSE m.q
         /\ \A k \in 0..1 : k # i => Settled.s[k] = m.s[k]
         /\ Settled.q = m.q /\ Settled.q_sh = m.q_sh /\ Settled.st = m.st
            /\ Settled.sChip = m.sChip /\ Settled.vt = m.vt /\ Settled.pt = m.pt
               /\ Settled.psum = m.psum /\ Settled.p = m.p /\ Settled.c = m.c
                  /\ Settled.ctx = m.ctx
<1>1. CASE Good
  BY <1>1 DEF Settled
<1>2. CASE ~Good
  <2>1. Settled = Ending(Job("s8", hd, i), m)
    BY <1>2 DEF Settled, Good, ThisJob
  <2> QED
    BY <1>2, <2>1, Ended_s8
<1> QED
  BY <1>1, <1>2

LEMMA Ended_c8 ==
  ASSUME NEW mm \in Matrices, NEW hd \in HeadNo, NEW i \in 0..1
  PROVE  LET n == Ending(Job("c8", hd, i), mm)
         IN /\ n \in Matrices /\ n.c[i] = Product(i, mm)
               /\ \A k \in 0..1 : k # i => n.c[k] = mm.c[k]
            /\ n.q = mm.q /\ n.q_sh = mm.q_sh /\ n.s = mm.s /\ n.st = mm.st /\ n.sChip = mm.sChip
               /\ n.vt = mm.vt /\ n.pt = mm.pt /\ n.psum = mm.psum /\ n.p = mm.p /\ n.ctx = mm.ctx
<1> DEFINE v == Product(i, mm)
           n == [mm EXCEPT !.c[i] = v]
<1>1. v \in Heads0
  BY ValuesTyped DEF Matrices
<1>2. Ending(Job("c8", hd, i), mm) = n
  BY EndingIs
<1> HIDE DEF v
<1>3. /\ n \in Matrices /\ n.c[i] = v /\ \A k \in 0..1 : k # i => n.c[k] = mm.c[k]
      /\ n.q = mm.q /\ n.q_sh = mm.q_sh /\ n.s = mm.s /\ n.st = mm.st /\ n.sChip = mm.sChip
         /\ n.vt = mm.vt /\ n.pt = mm.pt /\ n.psum = mm.psum /\ n.p = mm.p /\ n.ctx = mm.ctx
  BY <1>1, CPut
<1> HIDE DEF n
<1> QED
  BY <1>2, <1>3 DEF v

LEMMA Settled_c8 ==
  ASSUME m \in Matrices, NEW hd \in HeadNo, NEW i \in 0..1, ThisJob(Job("c8", hd, i))
  PROVE  /\ Settled \in Matrices
         /\ Settled.c[i] = IF Good THEN m.c[i] ELSE Product(i, m)
         /\ \A k \in 0..1 : k # i => Settled.c[k] = m.c[k]
         /\ Settled.q = m.q /\ Settled.q_sh = m.q_sh /\ Settled.s = m.s /\ Settled.st = m.st
            /\ Settled.sChip = m.sChip /\ Settled.vt = m.vt /\ Settled.pt = m.pt
               /\ Settled.psum = m.psum /\ Settled.p = m.p /\ Settled.ctx = m.ctx
<1>1. CASE Good
  BY <1>1 DEF Settled
<1>2. CASE ~Good
  <2>1. Settled = Ending(Job("c8", hd, i), m)
    BY <1>2 DEF Settled, Good, ThisJob
  <2> QED
    BY <1>2, <2>1, Ended_c8
<1> QED
  BY <1>1, <1>2

(* The places of a call: the head prepared and the head of the loop exist, *)
(* and on the pipelined path they use different buffers.                   *)
LEMMA Places ==
  ASSUME AttInv, apc \notin {"idle", "ret", "loop"}
  PROVE  /\ h \in HeadNo /\ h \in Nat /\ Par(h) \in 0..1 /\ Par(h + 1) = 1 - Par(h)
         /\ CSlot \in 0..1 /\ Slot \in 0..1
         /\ Next1 => Prep \in HeadNo /\ Prep \in Nat /\ Par(Prep) \in 0..1
         /\ f.path = "pipe" => Slot = Par(Prep) /\ CSlot = Par(h)
         /\ Prep = IF f.path = "pipe" /\ ~f.prime THEN h + 1 ELSE h
         /\ m \in Matrices /\ f \in Flags
<1>1. h \in HeadNo /\ h \in Nat
  BY HeadsAssumption DEF AttInv, PathInv, HeadNo
<1>2. Par(h) \in 0..1 /\ Par(h + 1) = 1 - Par(h) /\ Par(h + 1) \in 0..1
  BY <1>1, ParAlternates
<1>3. Prep = h \/ Prep = h + 1
  BY DEF Prep
<1>4. Next1 => Prep \in HeadNo /\ Prep \in Nat
  BY <1>1, HeadsAssumption DEF Next1, More, Prep, HeadNo
<1>5. Par(Prep) \in 0..1 /\ CSlot \in 0..1 /\ Slot \in 0..1
  BY <1>2, <1>3 DEF CSlot, Slot
<1> QED
  BY <1>1, <1>2, <1>4, <1>5 DEF CSlot, Slot, Prep, AttInv, AMats, AFlags

(* Each step of the call keeps AttInv. In each proof <1>a says where the   *)
(* call is, <1>b what the step does to the matrices, <1>c what it does to  *)
(* the control, <1>d .. <1>f what follows for the places; then come the    *)
(* parts of AttInv.                                                        *)
LEMMA Kept_attn_vt16 ==
  ASSUME AttInv, attn_vt16
  PROVE  AttInv'
<1>a. /\ h \in HeadNo /\ h \in Nat /\ Par(h) \in 0..1 /\ Par(h + 1) = 1 - Par(h)
      /\ CSlot \in 0..1 /\ Slot \in 0..1 /\ m \in Matrices /\ f \in Flags
      /\ Prep \in HeadNo /\ Prep \in Nat /\ Par(Prep) \in 0..1
      /\ f.path = "pipe" => Slot = Par(Prep) /\ CSlot = Par(h)
      /\ Prep = IF f.path = "pipe" /\ ~f.prime THEN h + 1 ELSE h
      /\ AFlags /\ Next1
  <2>1. Next1
    BY DEF AttInv, PathInv, AFlags, Flags, Next1, More, SplitPCs, SmxPCs, AlonePCs, PipePCs,
       attn_vt16
  <2> QED
    BY <2>1, Places DEF attn_vt16, AttInv
<1>b. /\ m'.q = m.q /\ m'.q_sh = m.q_sh /\ m'.s = m.s /\ m'.st = m.st /\ m'.sChip = m.sChip
         /\ m'.pt = m.pt /\ m'.psum = m.psum /\ m'.p = m.p /\ m'.c = m.c /\ m'.ctx = m.ctx
      /\ m'.vt[Slot] = Prep /\ \A k \in 0..1 : k # Slot => m'.vt[k] = m.vt[k]
      /\ m' \in Matrices
  <2>1. m \in Matrices /\ Prep \in HeadNo /\ Slot \in 0..1
    BY <1>a
  <2>2. m' = attn_prep_vt16(Prep, Slot, m)
    BY DEF attn_vt16
  <2> QED
    BY <2>1, <2>2, VtPrepared
<1>c. /\ apc = "vt"
      /\ apc' = "s_start"
      /\ h' = h /\ f' = f
      /\ pend' = pend /\ blk' = blk
  BY <1>a DEF attn_vt16, Sync, Local, Go, Flags, Job, NoJob
<1>d. Prep' = Prep /\ Slot' = Slot /\ CSlot' = CSlot /\ (More' <=> More) /\ (Next1' <=> Next1)
  BY <1>c DEF Prep, Slot, CSlot, More, Next1
<1>e. f.path = "pipe" /\ ~f.prime => Prep = h + 1 /\ Par(Prep) = 1 - Par(h) /\ (Next1 <=> More)
  BY <1>a DEF Prep, Next1
<1>f. Par(h) # 1 - Par(h)
  BY <1>a
<1>1. ScoresInv' /\ ExpInv' /\ ProductInv' /\ CtxInv' /\ SplitInv'
  BY <1>b DEF AttInv, ScoresInv, ExpInv, ProductInv, CtxInv, SplitInv, attn_vt16, Softmaxable, Go
<1>2. ADrv' /\ AFlags'
  BY <1>a, <1>b, HeadsAssumption DEF AttInv, ADrv, AFlags, JobInv, PathInv, attn_vt16, Flags,
     Next1, ThisJob, Job, Prep, NoJob, Slot, CSlot, SmxPCs, AlonePCs, PipePCs, SplitPCs, Sync,
     Go, Local, More, Can
<1>3. AMats' /\ PathInv' /\ JobInv'
  BY <1>b DEF AttInv, AMats, PathInv, JobInv, attn_vt16, SmxPCs, PipePCs, SplitPCs, Sync, Go,
     Local
<1>4. VtInv'
  BY <1>a, <1>b, <1>c, <1>d, <1>e, <1>f DEF AttInv, VtInv, PipePCs
<1> QED
  BY <1>1, <1>2, <1>3, <1>4 DEF AttInv

LEMMA Kept_gemm16_start ==
  ASSUME AttInv, gemm16_start
  PROVE  AttInv'
<1>a. /\ h \in HeadNo /\ h \in Nat /\ Par(h) \in 0..1 /\ Par(h + 1) = 1 - Par(h)
      /\ CSlot \in 0..1 /\ Slot \in 0..1 /\ m \in Matrices /\ f \in Flags
      /\ Prep \in HeadNo /\ Prep \in Nat /\ Par(Prep) \in 0..1
      /\ f.path = "pipe" => Slot = Par(Prep) /\ CSlot = Par(h)
      /\ Prep = IF f.path = "pipe" /\ ~f.prime THEN h + 1 ELSE h
      /\ AFlags /\ Next1
  <2>1. Next1
    BY DEF AttInv, PathInv, AFlags, Flags, Next1, More, SplitPCs, SmxPCs, AlonePCs, PipePCs,
       gemm16_start
  <2> QED
    BY <2>1, Places DEF gemm16_start, AttInv
<1>b. /\ m'.vt = m.vt /\ m'.pt = m.pt /\ m'.psum = m.psum /\ m'.p = m.p /\ m'.c = m.c
         /\ m'.ctx = m.ctx
      /\ m'.q_sh = Prep /\ (f.direct \/ m'.q = Prep)
      /\ \A k \in 0..1 : k # Par(Prep) => m'.s[k] = m.s[k] /\ m'.st[k] = m.st[k]
      /\ pend' = NoJob => m'.s[Par(Prep)] = Prep /\ m'.st[Par(Prep)] = Prep
      /\ m' \in Matrices
  <2> DEFINE q == attn_prep_q16(Prep, m)
  <2>1. /\ q \in Matrices /\ q.q_sh = Prep /\ (f.direct \/ q.q = Prep)
        /\ q.s = m.s /\ q.st = m.st /\ q.sChip = m.sChip /\ q.vt = m.vt /\ q.pt = m.pt
           /\ q.psum = m.psum /\ q.p = m.p /\ q.c = m.c /\ q.ctx = m.ctx
    BY <1>a, QPrepared
  <2>2. Q(Prep, q) = Prep
    BY <2>1 DEF Q
  <2>3. \/ m' = Spoiled(Job("s_chip", Prep, 0), q) /\ pend' = Job("s_chip", Prep, 0)
        \/ m' = Spoiled(Job("s", Prep, 0), q) /\ pend' = Job("s", Prep, 0)
        \/ m' = Scores(Prep, q)
    BY DEF gemm16_start, Issue
  <2> HIDE DEF q
  <2>4. CASE m' = Spoiled(Job("s_chip", Prep, 0), q) /\ pend' = Job("s_chip", Prep, 0)
    <3>1. pend' # NoJob
      BY <2>4 DEF Job, NoJob
    <3>2. q \in Matrices /\ Prep \in HeadNo /\ 0 \in 0..1
      BY <1>a, <2>1
    <3>3. /\ m'.q = q.q /\ m'.q_sh = q.q_sh /\ m'.vt = q.vt /\ m'.pt = q.pt /\ m'.psum = q.psum
             /\ m'.p = q.p /\ m'.c = q.c /\ m'.ctx = q.ctx
          /\ m' \in Matrices /\ \A k \in 0..1 : k # Par(Prep) => m'.s[k] = q.s[k]
             /\ m'.st[k] = q.st[k]
      BY <2>4, <3>2, Spoiled_s_chip
    <3> QED
      BY <2>1, <3>1, <3>3
  <2>5. CASE m' = Spoiled(Job("s", Prep, 0), q) /\ pend' = Job("s", Prep, 0)
    <3>1. pend' # NoJob
      BY <2>5 DEF Job, NoJob
    <3>2. q \in Matrices /\ Prep \in HeadNo /\ 0 \in 0..1
      BY <1>a, <2>1
    <3>3. /\ m'.q = q.q /\ m'.q_sh = q.q_sh /\ m'.vt = q.vt /\ m'.pt = q.pt /\ m'.psum = q.psum
             /\ m'.p = q.p /\ m'.c = q.c /\ m'.ctx = q.ctx
          /\ m' \in Matrices /\ \A k \in 0..1 : k # Par(Prep) => m'.s[k] = q.s[k]
             /\ m'.st[k] = q.st[k]
      BY <2>5, <3>2, Spoiled_s
    <3> QED
      BY <2>1, <3>1, <3>3
  <2>6. CASE m' = Scores(Prep, q)
    BY SMTT(60), <1>a, <2>1, <2>2, <2>6, ScoresMade
  <2> QED
    BY <2>3, <2>4, <2>5, <2>6
<1>c. /\ apc = "s_start"
      /\ apc' = (IF Prep = h THEN "s_fin" ELSE "norm_lo")
      /\ h' = h
      /\ f'.path = f.path /\ f'.direct = f.direct /\ f'.prime = f.prime /\ f'.c_cr = f.c_cr
         /\ f'.exp_ok = f.exp_ok /\ f'.exp_next = f.exp_next
      /\ (pend' = Job(IF f'.s_cr THEN "s_chip" ELSE "s", Prep, 0) /\ blk' = "run")
         \/ (pend' = pend /\ blk' = blk /\ ~f'.s_cr)
  <2> DEFINE cr == Can({"onchip", "w16"})
  <2>1. cr \in BOOLEAN
    BY DEF AttInv, ADrv, Can
  <2>2. f' = [f EXCEPT !.s_cr = cr]
    BY DEF gemm16_start
  <2>3. \/ cr /\ Issue(Job("s_chip", Prep, 0), attn_prep_q16(Prep, m))
        \/ ~cr /\ Issue(Job("s", Prep, 0), attn_prep_q16(Prep, m))
        \/ ~cr /\ UNCHANGED drv
    BY DEF gemm16_start
  <2> HIDE DEF cr
  <2>4. f'.s_cr = cr /\ f'.path = f.path /\ f'.direct = f.direct /\ f'.prime = f.prime
        /\ f'.c_cr = f.c_cr /\ f'.exp_ok = f.exp_ok /\ f'.exp_next = f.exp_next
    BY <1>a, <2>1, <2>2 DEF Flags
  <2>5. (pend' = Job(IF cr THEN "s_chip" ELSE "s", Prep, 0) /\ blk' = "run")
        \/ (pend' = pend /\ blk' = blk /\ ~cr)
    BY <2>3 DEF Issue, drv
  <2>6. apc = "s_start" /\ apc' = (IF Prep = h THEN "s_fin" ELSE "norm_lo") /\ h' = h
    BY DEF gemm16_start, Local, Go
  <2> QED
    BY <2>1, <2>4, <2>5, <2>6
<1>d. Prep' = Prep /\ Slot' = Slot /\ CSlot' = CSlot /\ (More' <=> More) /\ (Next1' <=> Next1)
  BY <1>c DEF Prep, Slot, CSlot, More, Next1
<1>e. f.path = "pipe" /\ ~f.prime => Prep = h + 1 /\ Par(Prep) = 1 - Par(h) /\ (Next1 <=> More)
  BY <1>a DEF Prep, Next1
<1>f. Par(h) # 1 - Par(h)
  BY <1>a
<1>1. ADrv' /\ AFlags'
  BY <1>a, <1>b, HeadsAssumption DEF AttInv, ADrv, AFlags, JobInv, PathInv, gemm16_start, Flags,
     Next1, ThisJob, Job, Prep, NoJob, Slot, CSlot, SmxPCs, AlonePCs, PipePCs, SplitPCs, Can,
     Issue, drv, Go, Local, More
<1>2. JobInv' /\ VtInv'
  BY <1>a, <1>b, HeadsAssumption DEF AttInv, JobInv, VtInv, ADrv, PathInv, AFlags, AMats,
     gemm16_start, Next1, ThisJob, Job, Prep, NoJob, Slot, CSlot, PipePCs, SmxPCs, AlonePCs,
     SplitPCs, Flags, Can, Issue, drv, Go, Local, More
<1>3. ProductInv' /\ CtxInv' /\ SplitInv'
  BY <1>b DEF AttInv, ProductInv, CtxInv, SplitInv, PathInv, gemm16_start, Prep, Go
<1>4. PathInv'
  BY DEF AttInv, PathInv, gemm16_start, SmxPCs, PipePCs, SplitPCs, Prep, Go, Local
<1>5. ScoresInv'
  <2>1. m'.q_sh = Prep /\ (f'.direct \/ m'.q = Prep')
    BY <1>a, <1>b, <1>c, <1>d
  <2>2. pend = NoJob
    BY <1>c DEF AttInv, JobInv
  <2>3. Ended' => pend' = NoJob /\ ~f'.s_cr
    BY <1>a, <1>c, <2>2 DEF Ended, Job, NoJob
  <2>4. Ended' => m'.s[Par(Prep)] = Prep /\ m'.st[Par(Prep)] = Prep
    BY <1>b, <2>3
  <2> QED
    BY <1>a, <1>b, <1>c, <1>d, <2>1, <2>3, <2>4 DEF ScoresInv
<1>6. ExpInv'
  <2>1. apc' \in {"s_fin", "norm_lo"} /\ (f'.path = "pipe" /\ ~f'.prime => f.path = "pipe"
        /\ ~f.prime)
    BY <1>c
  <2>2. f.path = "pipe" /\ ~f.prime => Softmaxable(h, Par(h), f.exp_ok, TRUE)
    BY <1>c DEF AttInv, ExpInv
  <2>3. f.path = "pipe" /\ ~f.prime => m'.s[Par(h)] = m.s[Par(h)] /\ m'.st[Par(h)] = m.st[Par(h)]
    BY <1>a, <1>b, <1>e, <1>f
  <2>4. m'.pt = m.pt /\ m'.psum = m.psum
    BY <1>b
  <2>5. f.path = "pipe" /\ ~f.prime => Softmaxable(h, Par(h), f.exp_ok, TRUE)'
    BY <1>c, <2>2, <2>3, <2>4 DEF Softmaxable
  <2> QED
    BY <1>c, <2>1, <2>5 DEF ExpInv
<1>7. AMats'
  BY <1>b DEF AMats
<1> QED
  BY <1>1, <1>2, <1>3, <1>4, <1>5, <1>6, <1>7 DEF AttInv

LEMMA Kept_NormLow ==
  ASSUME AttInv, NormLow
  PROVE  AttInv'
<1>a. /\ h \in HeadNo /\ h \in Nat /\ Par(h) \in 0..1 /\ Par(h + 1) = 1 - Par(h)
      /\ CSlot \in 0..1 /\ m \in Matrices /\ f \in Flags /\ AFlags
      /\ f.path = "pipe" => CSlot = Par(h)
      /\ Prep = IF f.path = "pipe" /\ ~f.prime THEN h + 1 ELSE h
  BY Places DEF AttInv, NormLow
<1>b. /\ m'.q = m.q /\ m'.q_sh = m.q_sh /\ m'.s = m.s /\ m'.st = m.st /\ m'.sChip = m.sChip
         /\ m'.vt = m.vt /\ m'.pt = m.pt /\ m'.psum = m.psum /\ m'.c = m.c /\ m'.ctx = m.ctx
            /\ m'.p[1] = m.p[1]
      /\ m'.p[0] = IF f.exp_ok THEN Same(m.pt[Par(h)], m.psum) ELSE m.p[0]
      /\ m' \in Matrices
  BY <1>a, NormMade DEF NormLow
<1>1. ADrv' /\ AFlags'
  BY DEF AttInv, ADrv, AFlags, NormLow, drv
<1>2. VtInv' /\ ScoresInv' /\ ExpInv'
  BY <1>b DEF AttInv, VtInv, ScoresInv, ExpInv, AFlags, PathInv, NormLow, Next1, Slot, Prep,
     Ended, More, Softmaxable, Flags, SmxPCs, AlonePCs, SplitPCs, Go, drv
<1>3. PathInv' /\ JobInv'
  BY DEF AttInv, PathInv, JobInv, AFlags, NormLow, SmxPCs, AlonePCs, PipePCs, SplitPCs, Next1,
     ThisJob, Prep, Flags, Go, More, drv
<1>4. CtxInv' /\ SplitInv'
  BY <1>b DEF AttInv, CtxInv, SplitInv, NormLow, Go
<1>5. ProductInv'
  BY DEF AttInv, ProductInv, AMats, ExpInv, NormLow, Matrices, Softmaxable, Go,
     attn_softmax_accel_norm, Same
<1>6. AMats'
  BY <1>b DEF AMats
<1> QED
  BY <1>1, <1>2, <1>3, <1>4, <1>5, <1>6 DEF AttInv

LEMMA Kept_gemm16_finish ==
  ASSUME AttInv, gemm16_finish
  PROVE  AttInv'
<1>a. /\ h \in HeadNo /\ h \in Nat /\ Par(h) \in 0..1 /\ Par(h + 1) = 1 - Par(h)
      /\ CSlot \in 0..1 /\ Slot \in 0..1 /\ m \in Matrices /\ f \in Flags
      /\ Prep \in HeadNo /\ Prep \in Nat /\ Par(Prep) \in 0..1
      /\ f.path = "pipe" => Slot = Par(Prep) /\ CSlot = Par(h)
      /\ Prep = IF f.path = "pipe" /\ ~f.prime THEN h + 1 ELSE h
      /\ AFlags /\ Next1
  <2>1. Next1
    BY DEF AttInv, PathInv, AFlags, Flags, Next1, More, SplitPCs, SmxPCs, AlonePCs, PipePCs,
       gemm16_finish
  <2> QED
    BY <2>1, Places DEF gemm16_finish, AttInv
<1>b. /\ m'.q = m.q /\ m'.q_sh = m.q_sh /\ m'.sChip = m.sChip /\ m'.vt = m.vt /\ m'.pt = m.pt
         /\ m'.psum = m.psum /\ m'.p = m.p /\ m'.c = m.c /\ m'.ctx = m.ctx
      /\ \A k \in 0..1 : k # Par(Prep) => m'.s[k] = m.s[k] /\ m'.st[k] = m.st[k]
      /\ IF Good THEN m' = m ELSE m'.s[Par(Prep)] = Q(Prep, m) /\ m'.st[Par(Prep)] = Q(Prep, m)
      /\ m' \in Matrices
  BY <1>a, ScoresMade DEF gemm16_finish
<1>c. /\ apc = "s_fin"
      /\ apc' = "e_start"
      /\ h' = h
      /\ f'.path = f.path /\ f'.direct = f.direct /\ f'.prime = f.prime /\ f'.c_cr = f.c_cr
         /\ f'.exp_ok = f.exp_ok /\ f'.exp_next = f.exp_next
      /\ f'.s_cr = (f.s_cr /\ Good)
      /\ pend' = NoJob /\ blk' = "ok"
  BY <1>a DEF gemm16_finish, Collect, Local, Go, Flags, Job, NoJob
<1>d. Prep' = Prep /\ Slot' = Slot /\ CSlot' = CSlot /\ (More' <=> More) /\ (Next1' <=> Next1)
  BY <1>c DEF Prep, Slot, CSlot, More, Next1
<1>e. f.path = "pipe" /\ ~f.prime => Prep = h + 1 /\ Par(Prep) = 1 - Par(h) /\ (Next1 <=> More)
  BY <1>a DEF Prep, Next1
<1>f. Par(h) # 1 - Par(h)
  BY <1>a
<1>1. JobInv' /\ VtInv' /\ ProductInv' /\ CtxInv' /\ SplitInv'
  BY <1>b DEF AttInv, JobInv, VtInv, ProductInv, CtxInv, SplitInv, gemm16_finish, Next1, Prep,
     Slot, PipePCs, More, Collect, Go
<1>2. ADrv' /\ AFlags'
  BY <1>a, <1>b, HeadsAssumption DEF AttInv, ADrv, AFlags, JobInv, PathInv, gemm16_finish, Flags,
     Next1, ThisJob, Job, Prep, NoJob, Slot, CSlot, SmxPCs, AlonePCs, PipePCs, SplitPCs, Collect,
     Go, Good, Local, More
<1>3. AMats' /\ PathInv'
  BY <1>b DEF AttInv, AMats, PathInv, gemm16_finish, SmxPCs, PipePCs, SplitPCs, Go, Good, Local
<1>4. ScoresInv'
  <2>1. f.direct \/ m.q = Prep
    BY <1>a, <1>c DEF AttInv, ScoresInv
  <2>2. Q(Prep, m) = Prep
    BY <2>1 DEF Q
  <2>3. m'.st[Par(Prep)] = Prep /\ (IF f'.s_cr THEN m'.sChip ELSE m'.s[Par(Prep)]) = Prep
    <3>1. CASE Good
      <4>1. m.st[Par(Prep)] = Prep /\ (IF f.s_cr THEN m.sChip ELSE m.s[Par(Prep)]) = Prep
        BY <1>a, <1>c, <3>1 DEF AttInv, ScoresInv, Ended, Good
      <4>2. f'.s_cr = f.s_cr /\ m' = m
        BY <1>a, <1>b, <1>c, <3>1 DEF Flags
      <4> QED
        BY <4>1, <4>2
    <3>2. CASE ~Good
      BY <1>b, <1>c, <2>2, <3>2
    <3> QED
      BY <3>1, <3>2
  <2>4. f'.direct \/ m'.q = Prep'
    BY <1>b, <1>c, <1>d, <2>1
  <2> QED
    BY <1>c, <1>d, <2>3, <2>4 DEF ScoresInv
<1>5. ExpInv'
  <2>1. apc' = "e_start" /\ (f'.path = "pipe" /\ ~f'.prime => f.path = "pipe" /\ ~f.prime)
    BY <1>c
  <2>2. f.path = "pipe" /\ ~f.prime => Softmaxable(h, Par(h), f.exp_ok, TRUE)
    BY <1>c DEF AttInv, ExpInv
  <2>3. f.path = "pipe" /\ ~f.prime => m'.s[Par(h)] = m.s[Par(h)] /\ m'.st[Par(h)] = m.st[Par(h)]
    BY <1>a, <1>b, <1>e, <1>f
  <2>4. m'.pt = m.pt /\ m'.psum = m.psum
    BY <1>b
  <2>5. f.path = "pipe" /\ ~f.prime => Softmaxable(h, Par(h), f.exp_ok, TRUE)'
    BY <1>c, <2>2, <2>3, <2>4 DEF Softmaxable
  <2> QED
    BY <1>c, <2>1, <2>5 DEF ExpInv
<1> QED
  BY <1>1, <1>2, <1>3, <1>4, <1>5 DEF AttInv

LEMMA Kept_attn_softmax_accel_start ==
  ASSUME AttInv, attn_softmax_accel_start
  PROVE  AttInv'
<1>a. /\ h \in HeadNo /\ h \in Nat /\ Par(h) \in 0..1 /\ Par(h + 1) = 1 - Par(h)
      /\ CSlot \in 0..1 /\ Slot \in 0..1 /\ m \in Matrices /\ f \in Flags
      /\ Prep \in HeadNo /\ Prep \in Nat /\ Par(Prep) \in 0..1
      /\ f.path = "pipe" => Slot = Par(Prep) /\ CSlot = Par(h)
      /\ Prep = IF f.path = "pipe" /\ ~f.prime THEN h + 1 ELSE h
      /\ AFlags /\ Next1
  <2>1. Next1
    BY DEF AttInv, PathInv, AFlags, Flags, Next1, More, SplitPCs, SmxPCs, AlonePCs, PipePCs,
       attn_softmax_accel_start
  <2> QED
    BY <2>1, Places DEF attn_softmax_accel_start, AttInv
<1>b. /\ m'.q = m.q /\ m'.q_sh = m.q_sh /\ m'.s = m.s /\ m'.st = m.st /\ m'.sChip = m.sChip
         /\ m'.vt = m.vt /\ m'.psum = m.psum /\ m'.p = m.p /\ m'.c = m.c /\ m'.ctx = m.ctx
      /\ \A k \in 0..1 : k # Slot => m'.pt[k] = m.pt[k]
      /\ m' \in Matrices
  <2>1. m \in Matrices /\ Prep \in HeadNo /\ Slot \in 0..1
    BY <1>a
  <2>2. m' = m \/ m' = Spoiled(Job("exp", Prep, Slot), m)
    BY DEF attn_softmax_accel_start, Issue
  <2> QED
    BY <2>1, <2>2, Spoiled_exp
<1>c. /\ apc = "e_start"
      /\ apc' = (IF Prep = h THEN "e_fin" ELSE "norm_hi")
      /\ h' = h
      /\ f'.path = f.path /\ f'.direct = f.direct /\ f'.prime = f.prime /\ f'.s_cr = f.s_cr
         /\ f'.c_cr = f.c_cr /\ f'.exp_ok = f.exp_ok
      /\ (IF f'.exp_next THEN pend' = Job("exp", Prep, Slot) /\ blk' = "run" ELSE pend' = pend
         /\ blk' = blk)
  BY <1>a DEF attn_softmax_accel_start, Issue, drv, Local, Go, Flags, Job, NoJob
<1>e. f.path = "pipe" /\ ~f.prime => Prep = h + 1 /\ Par(Prep) = 1 - Par(h) /\ (Next1 <=> More)
  BY <1>a DEF Prep, Next1
<1>f. Par(h) # 1 - Par(h)
  BY <1>a
<1>1. VtInv' /\ ScoresInv' /\ ProductInv' /\ CtxInv' /\ SplitInv'
  BY <1>b DEF AttInv, VtInv, ScoresInv, ProductInv, CtxInv, SplitInv, AFlags, PathInv,
     attn_softmax_accel_start, Next1, Slot, Prep, More, Flags, Issue, Go
<1>2. ADrv' /\ AFlags'
  BY ZenonT(60), <1>a, <1>b, HeadsAssumption DEF AttInv, ADrv, AFlags, JobInv, PathInv,
     attn_softmax_accel_start, Flags, Next1, ThisJob, Job, Prep, NoJob, Slot, CSlot, SmxPCs,
     AlonePCs, PipePCs, SplitPCs, Can, ExpNeeds, Issue, drv, Go, Local, More
<1>3. AMats' /\ PathInv' /\ JobInv'
  BY <1>b DEF AttInv, AMats, PathInv, JobInv, AFlags, attn_softmax_accel_start, SmxPCs, PipePCs,
     SplitPCs, Next1, Prep, Slot, Flags, Issue, drv, Go, Local, More
<1>4. ExpInv'
  <2>1. CASE f.path = "pipe" /\ ~f.prime
    <3>1. apc' = "norm_hi" /\ h' = h /\ f'.exp_ok = f.exp_ok
      BY <1>a, <1>c, <1>e, <2>1
    <3>2. Softmaxable(h, Par(h), f.exp_ok, TRUE)
      BY <1>c, <2>1 DEF AttInv, ExpInv
    <3>3. m'.pt[Par(h)] = m.pt[Par(h)] /\ m'.psum = m.psum /\ m'.s = m.s /\ m'.st = m.st
      BY <1>a, <1>b, <1>e, <1>f, <2>1
    <3>4. Softmaxable(h, Par(h), f.exp_ok, TRUE)'
      BY <3>1, <3>2, <3>3 DEF Softmaxable
    <3> QED
      BY <3>1, <3>4 DEF ExpInv
  <2>2. CASE ~(f.path = "pipe" /\ ~f.prime)
    <3>1. ~(f'.path = "pipe" /\ ~f'.prime) /\ apc' \in {"e_fin", "norm_hi"}
      BY <1>c, <2>2
    <3> QED
      BY <3>1 DEF ExpInv
  <2> QED
    BY <2>1, <2>2
<1> QED
  BY <1>1, <1>2, <1>3, <1>4 DEF AttInv

LEMMA Kept_NormHigh ==
  ASSUME AttInv, NormHigh
  PROVE  AttInv'
<1>a. /\ h \in HeadNo /\ h \in Nat /\ Par(h) \in 0..1 /\ Par(h + 1) = 1 - Par(h)
      /\ CSlot \in 0..1 /\ m \in Matrices /\ f \in Flags /\ AFlags
      /\ f.path = "pipe" => CSlot = Par(h)
      /\ Prep = IF f.path = "pipe" /\ ~f.prime THEN h + 1 ELSE h
  BY Places DEF AttInv, NormHigh
<1>b. /\ m'.q = m.q /\ m'.q_sh = m.q_sh /\ m'.s = m.s /\ m'.st = m.st /\ m'.sChip = m.sChip
         /\ m'.vt = m.vt /\ m'.pt = m.pt /\ m'.psum = m.psum /\ m'.c = m.c /\ m'.ctx = m.ctx
      /\ IF f.exp_ok THEN m'.p[0] = m.p[0] /\ m'.p[1] = Same(m.pt[Par(h)], m.psum)
         ELSE m'.p[0] = Same(m.s[Par(h)], m.st[Par(h)]) /\ m'.p[1] = m'.p[0]
      /\ m' \in Matrices
  <2>1. f.path = "pipe"
    BY DEF AttInv, PathInv, AFlags, Flags, NormHigh, SmxPCs, AlonePCs, SplitPCs
  <2> QED
    BY <1>a, <2>1, NormMade, SoftmaxMade DEF NormHigh
<1>c. /\ apc = "norm_hi"
      /\ apc' = (IF More THEN "e_fin" ELSE "c_start")
      /\ h' = h /\ f' = f
      /\ pend' = pend /\ blk' = blk
  BY <1>a DEF NormHigh, drv, Local, Go, Flags, Job, NoJob
<1>1. ADrv' /\ AFlags'
  BY DEF AttInv, ADrv, AFlags, NormHigh, drv
<1>2. VtInv' /\ ScoresInv' /\ ExpInv'
  BY <1>b DEF AttInv, VtInv, ScoresInv, ExpInv, NormHigh, Next1, Slot, Prep, PipePCs, More,
     Softmaxable, Go, drv
<1>3. PathInv' /\ JobInv'
  BY DEF AttInv, PathInv, JobInv, AFlags, NormHigh, SmxPCs, AlonePCs, PipePCs, SplitPCs, Next1,
     Prep, Slot, Flags, Go, More, drv
<1>4. CtxInv' /\ SplitInv'
  BY <1>b DEF AttInv, CtxInv, SplitInv, NormHigh, Go
<1>5. ProductInv'
  BY <1>b, <1>c DEF AttInv, ProductInv, AFlags, PathInv, ExpInv, Flags, Same, POf, SmxPCs,
     AlonePCs, SplitPCs, Softmaxable
<1>6. AMats'
  BY <1>b DEF AMats
<1> QED
  BY <1>1, <1>2, <1>3, <1>4, <1>5, <1>6 DEF AttInv

LEMMA Kept_ExpFinish ==
  ASSUME AttInv, ExpFinish
  PROVE  AttInv'
<1>a. /\ h \in HeadNo /\ h \in Nat /\ Par(h) \in 0..1 /\ Par(h + 1) = 1 - Par(h)
      /\ CSlot \in 0..1 /\ Slot \in 0..1 /\ m \in Matrices /\ f \in Flags
      /\ Prep \in HeadNo /\ Prep \in Nat /\ Par(Prep) \in 0..1
      /\ f.path = "pipe" => Slot = Par(Prep) /\ CSlot = Par(h)
      /\ Prep = IF f.path = "pipe" /\ ~f.prime THEN h + 1 ELSE h
      /\ AFlags /\ Next1
  <2>1. Next1
    BY DEF AttInv, PathInv, AFlags, Flags, Next1, More, SplitPCs, SmxPCs, AlonePCs, PipePCs,
       ExpFinish
  <2> QED
    BY <2>1, Places DEF ExpFinish, AttInv
<1>b. /\ m'.q = m.q /\ m'.q_sh = m.q_sh /\ m'.s = m.s /\ m'.st = m.st /\ m'.sChip = m.sChip
         /\ m'.vt = m.vt /\ m'.pt = m.pt /\ m'.p = m.p /\ m'.c = m.c /\ m'.ctx = m.ctx
      /\ m'.psum = IF f.exp_next /\ Good /\ f.path = "pipe" /\ f.prime THEN m.pt[Slot] ELSE m.psum
      /\ m' \in Matrices
  BY <1>a, SumsMade DEF ExpFinish
<1>1. VtInv' /\ ScoresInv' /\ ExpInv' /\ ProductInv' /\ CtxInv' /\ SplitInv'
  <2>1. VtInv'
    BY SMTT(60), <1>b DEF AttInv, VtInv, ScoresInv, ExpInv, ProductInv, CtxInv, SplitInv, AFlags, PathInv,
       JobInv, ExpFinish, Next1, Slot, Prep, More, Softmaxable, POf, NoJob, HeadNo, SplitPCs,
       Flags, Job, Collect, Good, Go, AfterExp
  <2>2. ScoresInv'
    BY SMTT(60), <1>b DEF AttInv, VtInv, ScoresInv, ExpInv, ProductInv, CtxInv, SplitInv, AFlags, PathInv,
       JobInv, ExpFinish, Next1, Slot, Prep, More, Softmaxable, POf, NoJob, HeadNo, SplitPCs,
       Flags, Job, Collect, Good, Go, AfterExp
  <2>3. ExpInv'
    BY SMTT(60), <1>b DEF AttInv, VtInv, ScoresInv, ExpInv, ProductInv, CtxInv, SplitInv, AFlags, PathInv,
       JobInv, ExpFinish, Next1, Slot, Prep, More, Softmaxable, POf, NoJob, HeadNo, SplitPCs,
       Flags, Job, Collect, Good, Go, AfterExp
  <2>4. ProductInv'
    BY SMTT(60), <1>b DEF AttInv, VtInv, ScoresInv, ExpInv, ProductInv, CtxInv, SplitInv, AFlags, PathInv,
       JobInv, ExpFinish, Next1, Slot, Prep, More, Softmaxable, POf, NoJob, HeadNo, SplitPCs,
       Flags, Job, Collect, Good, Go, AfterExp
  <2>5. CtxInv'
    <3>1. h' = h /\ m'.ctx = m.ctx /\ apc' \in {"s_ddr", "p", "loop", "c_start"}
      BY <1>b DEF ExpFinish, Go, AfterExp
    <3>2. \A d \in HeadNo : d < h => m.ctx[d] = d
      BY DEF AttInv, CtxInv, ExpFinish
    <3>3. \A d \in HeadNo : d < h - 1 \/ d = h - 1 => d < h
      BY <1>a DEF HeadNo
    <3>4. \A d \in HeadNo : d < h' => m'.ctx[d] = d
      BY <3>1, <3>2
    <3>5. \A d \in HeadNo : d < h' - 1 \/ (d = h' - 1 /\ Ended') => m'.ctx[d] = d
      BY <3>1, <3>2, <3>3
    <3> QED
      BY <3>1, <3>4, <3>5 DEF CtxInv
  <2>6. SplitInv'
    BY SMTT(60), <1>b DEF AttInv, VtInv, ScoresInv, ExpInv, ProductInv, CtxInv, SplitInv, AFlags, PathInv,
       JobInv, ExpFinish, Next1, Slot, Prep, More, Softmaxable, POf, NoJob, HeadNo, SplitPCs,
       Flags, Job, Collect, Good, Go, AfterExp
  <2> QED
    BY <2>1, <2>2, <2>3, <2>4, <2>5, <2>6
<1>2. ADrv' /\ AFlags'
  BY ZenonT(60), <1>a, <1>b, HeadsAssumption DEF AttInv, ADrv, AFlags, JobInv, PathInv, ExpFinish, Flags,
     Next1, ThisJob, Job, Prep, NoJob, Slot, CSlot, SmxPCs, AlonePCs, PipePCs, SplitPCs, Collect,
     Good, Go, AfterExp, Local, More
<1>3. PathInv' /\ JobInv'
  BY <1>a, <1>b, HeadsAssumption DEF AttInv, PathInv, JobInv, ADrv, AFlags, ExpFinish, SmxPCs,
     AlonePCs, PipePCs, SplitPCs, Next1, ThisJob, Job, Prep, NoJob, Slot, CSlot, Flags, Collect,
     Good, Go, AfterExp, Local, More
<1>4. AMats'
  BY HeadsAssumption, ParAlternates DEF AttInv, AMats, AFlags, PathInv, JobInv, ExpFinish,
     Matrices, Flags, SmxPCs, AlonePCs, PipePCs, SplitPCs, Next1, ThisJob, Job, Prep, NoJob,
     Slot, CSlot, Collect, Good, Go, AfterExp, attn_softmax_accel_sums, Local, Heads0, HeadNo,
     More
<1> QED
  BY <1>1, <1>2, <1>3, <1>4 DEF AttInv

LEMMA Kept_S_DDR ==
  ASSUME AttInv, S_DDR
  PROVE  AttInv'
<1>a. /\ h \in HeadNo /\ h \in Nat /\ Par(h) \in 0..1 /\ Par(h + 1) = 1 - Par(h)
      /\ CSlot \in 0..1 /\ Slot \in 0..1 /\ m \in Matrices /\ f \in Flags
      /\ Prep \in HeadNo /\ Prep \in Nat /\ Par(Prep) \in 0..1
      /\ f.path = "pipe" => Slot = Par(Prep) /\ CSlot = Par(h)
      /\ Prep = IF f.path = "pipe" /\ ~f.prime THEN h + 1 ELSE h
      /\ AFlags /\ Next1
  <2>1. Next1
    BY DEF AttInv, PathInv, AFlags, Flags, Next1, More, SplitPCs, SmxPCs, AlonePCs, PipePCs, S_DDR
  <2> QED
    BY <2>1, Places DEF S_DDR, AttInv
<1>b. /\ m'.q = m.q /\ m'.q_sh = m.q_sh /\ m'.sChip = m.sChip /\ m'.vt = m.vt /\ m'.pt = m.pt
         /\ m'.psum = m.psum /\ m'.p = m.p /\ m'.c = m.c /\ m'.ctx = m.ctx
      /\ \A k \in 0..1 : k # Par(Prep) => m'.s[k] = m.s[k] /\ m'.st[k] = m.st[k]
      /\ m'.s[Par(Prep)] = Q(Prep, m) /\ m'.st[Par(Prep)] = Q(Prep, m)
      /\ m' \in Matrices
  BY <1>a, ScoresMade DEF S_DDR
<1>c. /\ apc = "s_ddr"
      /\ apc' = AfterExp
      /\ h' = h /\ f' = f
      /\ pend' = pend /\ blk' = blk
  BY <1>a DEF S_DDR, Sync, Local, Go, Flags, Job, NoJob
<1>1. ADrv' /\ AFlags'
  BY <1>a, <1>b, HeadsAssumption DEF AttInv, ADrv, AFlags, JobInv, PathInv, S_DDR, Flags, Next1,
     ThisJob, Job, Prep, NoJob, Slot, CSlot, SmxPCs, AlonePCs, PipePCs, SplitPCs, Sync, Go,
     AfterExp, Local, More, Can
<1>2. AMats' /\ PathInv' /\ JobInv'
  BY <1>b DEF AttInv, AMats, PathInv, JobInv, S_DDR, AlonePCs, PipePCs, SplitPCs, Sync, Go,
     AfterExp, Local
<1>3. ProductInv' /\ CtxInv' /\ SplitInv'
  BY <1>b DEF AttInv, ProductInv, CtxInv, SplitInv, AFlags, PathInv, JobInv, S_DDR, POf, HeadNo,
     SplitPCs, Flags, Sync, Go, AfterExp
<1>4. VtInv'
  BY <1>b DEF AttInv, VtInv, S_DDR, Next1, Slot, Prep, PipePCs, Go, AfterExp, More
<1>5. ScoresInv'
  BY DEF ScoresInv, S_DDR, Go, AfterExp
<1>6. ExpInv'
  BY <1>b, <1>c DEF AttInv, ExpInv, PathInv, ScoresInv, Q, Next1, Prep, AfterExp, More,
     Softmaxable
<1> QED
  BY <1>1, <1>2, <1>3, <1>4, <1>5, <1>6 DEF AttInv

LEMMA Kept_HeadAlone ==
  ASSUME AttInv, HeadAlone
  PROVE  AttInv'
<1>a. /\ h \in HeadNo /\ h \in Nat /\ Par(h) \in 0..1 /\ Par(h + 1) = 1 - Par(h)
      /\ CSlot \in 0..1 /\ m \in Matrices /\ f \in Flags /\ AFlags
      /\ f.path = "pipe" => CSlot = Par(h)
      /\ Prep = IF f.path = "pipe" /\ ~f.prime THEN h + 1 ELSE h
  BY Places DEF AttInv, HeadAlone
<1>b. /\ m'.q = m.q /\ m'.q_sh = m.q_sh /\ m'.s = m.s /\ m'.st = m.st /\ m'.sChip = m.sChip
         /\ m'.vt = m.vt /\ m'.pt = m.pt /\ m'.c = m.c /\ m'.ctx = m.ctx
      /\ IF f.exp_ok THEN m'.p[0] = m.pt[0] /\ m'.p[1] = m.pt[0]
         ELSE m'.p[0] = Same(m.s[Par(h)], m.st[Par(h)]) /\ m'.p[1] = m'.p[0]
      /\ m' \in Matrices
  <2>1. f.path = "smx"
    BY DEF AttInv, PathInv, AFlags, Flags, HeadAlone, PipePCs, SmxPCs, SplitPCs
  <2>2. CASE f.exp_ok
    <3> DEFINE u == attn_softmax_accel_sums(0, m)
               v == attn_softmax_accel_norm(0, 0, u)
    <3>1. /\ u \in Matrices /\ u.psum = m.pt[0]
          /\ u.q = m.q /\ u.q_sh = m.q_sh /\ u.s = m.s /\ u.st = m.st /\ u.sChip = m.sChip
             /\ u.vt = m.vt /\ u.pt = m.pt /\ u.p = m.p /\ u.c = m.c /\ u.ctx = m.ctx
      BY <1>a, SumsMade
    <3>2. m' = attn_softmax_accel_norm(1, 0, v)
      BY <2>2 DEF HeadAlone, Norm
    <3> HIDE DEF u
    <3>3. /\ v \in Matrices /\ v.p[0] = Same(u.pt[0], u.psum)
          /\ v.q = u.q /\ v.q_sh = u.q_sh /\ v.s = u.s /\ v.st = u.st /\ v.sChip = u.sChip
             /\ v.vt = u.vt /\ v.pt = u.pt /\ v.psum = u.psum /\ v.c = u.c /\ v.ctx = u.ctx
      BY <1>a, <3>1, NormMade
    <3> HIDE DEF v
    <3>4. /\ m' \in Matrices /\ m'.p[1] = Same(v.pt[0], v.psum) /\ m'.p[0] = v.p[0]
          /\ m'.q = v.q /\ m'.q_sh = v.q_sh /\ m'.s = v.s /\ m'.st = v.st /\ m'.sChip = v.sChip
             /\ m'.vt = v.vt /\ m'.pt = v.pt /\ m'.psum = v.psum /\ m'.c = v.c /\ m'.ctx = v.ctx
      BY <1>a, <3>2, <3>3, NormMade
    <3> QED
      BY <2>2, <3>1, <3>3, <3>4 DEF Same
  <2>3. CASE ~f.exp_ok
    BY <1>a, <2>1, <2>3, SoftmaxMade DEF HeadAlone
  <2> QED
    BY <2>2, <2>3
<1>c. /\ apc = "p"
      /\ apc' = "c_start"
      /\ h' = h /\ f' = f
      /\ pend' = pend /\ blk' = blk
  BY <1>a DEF HeadAlone, Sync, drv, Local, Go, Flags, Job, NoJob
<1>1. ADrv' /\ AFlags'
  BY <1>a, <1>b, HeadsAssumption DEF AttInv, ADrv, AFlags, JobInv, PathInv, HeadAlone, Flags,
     Next1, ThisJob, Job, Prep, NoJob, Slot, CSlot, SmxPCs, AlonePCs, PipePCs, SplitPCs, Go,
     Sync, drv, Local, More, Can
<1>2. VtInv' /\ ScoresInv' /\ ExpInv'
  BY <1>b DEF AttInv, VtInv, ScoresInv, ExpInv, PathInv, HeadAlone, Next1, Slot, Prep, PipePCs,
     More, Softmaxable, Go
<1>3. PathInv' /\ JobInv'
  BY <1>a, <1>b, HeadsAssumption DEF AttInv, PathInv, JobInv, ADrv, AFlags, HeadAlone, SmxPCs,
     AlonePCs, PipePCs, SplitPCs, Next1, ThisJob, Job, Prep, NoJob, Slot, CSlot, Flags, Go, Sync,
     drv, Local, More, Can
<1>4. CtxInv' /\ SplitInv'
  BY <1>b DEF AttInv, CtxInv, SplitInv, HeadAlone, Go
<1>5. ProductInv'
  BY <1>b, <1>c DEF AttInv, ProductInv, ExpInv, Same, POf, Softmaxable
<1>6. AMats'
  BY <1>b DEF AMats
<1> QED
  BY <1>1, <1>2, <1>3, <1>4, <1>5, <1>6 DEF AttInv

LEMMA Kept_ContextProduct ==
  ASSUME AttInv, ContextProduct
  PROVE  AttInv'
<1>a. /\ h \in HeadNo /\ h \in Nat /\ Par(h) \in 0..1 /\ Par(h + 1) = 1 - Par(h)
      /\ CSlot \in 0..1 /\ m \in Matrices /\ f \in Flags /\ AFlags
      /\ f.path = "pipe" => CSlot = Par(h)
      /\ Prep = IF f.path = "pipe" /\ ~f.prime THEN h + 1 ELSE h
  BY Places DEF AttInv, ContextProduct
<1>b. /\ m'.q = m.q /\ m'.q_sh = m.q_sh /\ m'.s = m.s /\ m'.st = m.st /\ m'.sChip = m.sChip
         /\ m'.vt = m.vt /\ m'.pt = m.pt /\ m'.psum = m.psum /\ m'.p = m.p /\ m'.ctx = m.ctx
      /\ pend' = NoJob => m'.c[0] = Product(CSlot, m)
      /\ m' \in Matrices
  <2>1. \/ m' = Spoiled(Job("c_chip", h, CSlot), m) /\ pend' = Job("c_chip", h, CSlot)
        \/ m' = Spoiled(Job("c", h, CSlot), m) /\ pend' = Job("c", h, CSlot)
        \/ m' = C_DDR(CSlot, m)
    BY DEF ContextProduct, Issue
  <2>2. CASE m' = Spoiled(Job("c_chip", h, CSlot), m) /\ pend' = Job("c_chip", h, CSlot)
    BY <1>a, <2>2, Spoiled_c_chip DEF Job, NoJob
  <2>3. CASE m' = Spoiled(Job("c", h, CSlot), m) /\ pend' = Job("c", h, CSlot)
    BY <1>a, <2>3, Spoiled_c DEF Job, NoJob
  <2>4. CASE m' = C_DDR(CSlot, m)
    BY <1>a, <2>4, CMade
  <2> QED
    BY <2>1, <2>2, <2>3, <2>4
<1>c. /\ apc = "c_start"
      /\ apc' = "c_fin"
      /\ h' = h
      /\ f'.path = f.path /\ f'.direct = f.direct /\ f'.prime = f.prime /\ f'.s_cr = f.s_cr
         /\ f'.exp_ok = f.exp_ok /\ f'.exp_next = f.exp_next
      /\ (pend' = Job(IF f'.c_cr THEN "c_chip" ELSE "c", h, CSlot) /\ blk' = "run")
         \/ (pend' = pend /\ blk' = blk /\ ~f'.c_cr)
  <2> DEFINE cr == Can({"onchip", "w16"})
  <2>1. cr \in BOOLEAN
    BY DEF AttInv, ADrv, Can
  <2>2. f' = [f EXCEPT !.c_cr = cr]
    BY DEF ContextProduct
  <2>3. \/ cr /\ Issue(Job("c_chip", h, CSlot), m)
        \/ ~cr /\ Issue(Job("c", h, CSlot), m)
        \/ ~cr /\ UNCHANGED drv
    BY DEF ContextProduct
  <2> HIDE DEF cr
  <2>4. f'.c_cr = cr /\ f'.path = f.path /\ f'.direct = f.direct /\ f'.prime = f.prime
        /\ f'.s_cr = f.s_cr /\ f'.exp_ok = f.exp_ok /\ f'.exp_next = f.exp_next
    BY <1>a, <2>1, <2>2 DEF Flags
  <2>5. (pend' = Job(IF cr THEN "c_chip" ELSE "c", h, CSlot) /\ blk' = "run")
        \/ (pend' = pend /\ blk' = blk /\ ~cr)
    BY <2>3 DEF Issue, drv
  <2>6. apc = "c_start" /\ apc' = "c_fin" /\ h' = h
    BY DEF ContextProduct, Local, Go
  <2> QED
    BY <2>1, <2>4, <2>5, <2>6
<1>d. POf(h) /\ Product(CSlot, m) = h
  <2>1. POf(h)
    BY <1>c DEF AttInv, ProductInv
  <2>2. f.path = "pipe" => m.vt[CSlot] = h
    BY <1>a, <1>c DEF AttInv, VtInv, PathInv, PipePCs, SmxPCs
  <2>3. f.path = "smx" => m.vt[CSlot] = h
    <3>1. f.path = "smx" => f.prime /\ Next1 /\ Prep = h /\ Slot = 0 /\ CSlot = 0
      BY <1>a, <1>c DEF AttInv, PathInv, Next1, Slot, CSlot
    <3> QED
      BY <1>c, <3>1 DEF AttInv, VtInv
  <2>4. f.path \in {"pipe", "smx"}
    BY <1>a, <1>c DEF AttInv, PathInv, Flags, SplitPCs
  <2> QED
    BY <2>1, <2>2, <2>3, <2>4 DEF Product, Same, POf
<1>1. ADrv' /\ AFlags'
  BY <1>a, <1>b, HeadsAssumption DEF AttInv, ADrv, AFlags, JobInv, PathInv, ContextProduct,
     Flags, Next1, ThisJob, Job, Prep, NoJob, Slot, CSlot, SmxPCs, AlonePCs, PipePCs, SplitPCs,
     Go, Can, Issue, drv, Local, More
<1>2. PathInv' /\ JobInv'
  BY <1>a, <1>b, HeadsAssumption DEF AttInv, PathInv, JobInv, ADrv, AFlags, ContextProduct,
     SmxPCs, AlonePCs, PipePCs, SplitPCs, Next1, ThisJob, Job, Prep, NoJob, Slot, CSlot, Flags,
     Go, Can, Issue, drv, Local, More
<1>3. ScoresInv'
  BY DEF ScoresInv, ContextProduct, Go
<1>4. SplitInv'
  BY DEF AttInv, SplitInv, PathInv, ContextProduct, SplitPCs
<1>5. VtInv'
  BY HeadsAssumption, ParAlternates DEF AttInv, VtInv, AMats, AFlags, PathInv, JobInv,
     ContextProduct, Next1, Slot, Prep, PipePCs, Matrices, Flags, SmxPCs, AlonePCs, SplitPCs,
     ThisJob, Job, NoJob, CSlot, Go, Can, Issue, C_DDR, drv, Local, More, Heads0, HeadNo,
     Spoiled, Product, Same
<1>6. ExpInv'
  BY ZenonT(60), HeadsAssumption, ParAlternates DEF AttInv, ExpInv, AMats, AFlags, PathInv, JobInv, VtInv,
     ScoresInv, ProductInv, ContextProduct, More, Softmaxable, Matrices, Flags, SmxPCs, AlonePCs,
     PipePCs, SplitPCs, Next1, ThisJob, Job, Prep, NoJob, Slot, CSlot, Ended, POf, Go, Can,
     Issue, C_DDR, drv, Local, Heads0, HeadNo, Spoiled, Product, Same
<1>7. ProductInv'
  <2>1. Ended' => pend' = NoJob /\ ~f'.c_cr
    <3>1. pend = NoJob
      BY <1>c DEF AttInv, JobInv
    <3> QED
      BY <1>c, <3>1 DEF Ended, Job, NoJob
  <2>2. Ended' => m'.c[IF f'.c_cr THEN 1 ELSE 0] = h
    BY <1>b, <1>d, <2>1
  <2>3. POf(h)'
    BY <1>b, <1>c, <1>d DEF POf
  <2> QED
    BY <1>c, <2>2, <2>3 DEF ProductInv
<1>8. CtxInv'
  <2>1. \A d \in HeadNo : d < h => m.ctx[d] = d
    BY <1>c DEF AttInv, CtxInv
  <2>2. m'.ctx = m.ctx
    BY <1>b
  <2> QED
    BY <1>c, <2>1, <2>2 DEF CtxInv
<1>9. AMats'
  BY <1>b DEF AMats
<1> QED
  BY <1>1, <1>2, <1>3, <1>4, <1>5, <1>6, <1>7, <1>8, <1>9 DEF AttInv

LEMMA Kept_ContextProductFinish ==
  ASSUME AttInv, ContextProductFinish
  PROVE  AttInv'
<1>a. /\ h \in HeadNo /\ h \in Nat /\ Par(h) \in 0..1 /\ Par(h + 1) = 1 - Par(h)
      /\ CSlot \in 0..1 /\ m \in Matrices /\ f \in Flags /\ AFlags
      /\ f.path = "pipe" => CSlot = Par(h)
      /\ Prep = IF f.path = "pipe" /\ ~f.prime THEN h + 1 ELSE h
  BY Places DEF AttInv, ContextProductFinish
<1>b. /\ m'.q = m.q /\ m'.q_sh = m.q_sh /\ m'.s = m.s /\ m'.st = m.st /\ m'.sChip = m.sChip
         /\ m'.vt = m.vt /\ m'.pt = m.pt /\ m'.p = m.p /\ m'.ctx = m.ctx
      /\ m'.psum = IF f.path = "pipe" /\ More /\ f.exp_next THEN m.pt[Par(h + 1)] ELSE m.psum
      /\ m'.c[1] = m.c[1] /\ m'.c[0] = IF Good THEN m.c[0] ELSE Product(CSlot, m)
      /\ m' \in Matrices
  <2> DEFINE u == IF f.path = "pipe" /\ More /\ f.exp_next
                    THEN attn_softmax_accel_sums(Par(h + 1), m) ELSE m
  <2>1. /\ u.q = m.q /\ u.q_sh = m.q_sh /\ u.s = m.s /\ u.st = m.st /\ u.sChip = m.sChip
           /\ u.vt = m.vt /\ u.pt = m.pt /\ u.p = m.p /\ u.c = m.c /\ u.ctx = m.ctx
        /\ u.psum = IF f.path = "pipe" /\ More /\ f.exp_next THEN m.pt[Par(h + 1)] ELSE m.psum
        /\ u \in Matrices
    <3>1. Par(h + 1) \in 0..1
      BY <1>a
    <3> QED
      BY <1>a, <3>1, SumsMade
  <2>2. m' = IF Good THEN u ELSE C_DDR(CSlot, u)
    BY DEF ContextProductFinish
  <2> HIDE DEF u
  <2>3. Product(CSlot, u) = Product(CSlot, m)
    BY <2>1 DEF Product
  <2> QED
    BY <1>a, <2>1, <2>2, <2>3, CMade
<1>c. /\ apc = "c_fin"
      /\ apc' = "ctx"
      /\ h' = h
      /\ f'.path = f.path /\ f'.direct = f.direct /\ f'.prime = f.prime /\ f'.s_cr = f.s_cr
         /\ f'.exp_ok = f.exp_ok /\ f'.exp_next = f.exp_next
      /\ f'.c_cr = (f.c_cr /\ Good)
      /\ pend' = NoJob /\ blk' = "ok"
  BY <1>a DEF ContextProductFinish, Collect, Local, Go, Flags, Job, NoJob
<1>d. POf(h) /\ Product(CSlot, m) = h
  <2>1. POf(h)
    BY <1>c DEF AttInv, ProductInv
  <2>2. f.path = "pipe" => m.vt[CSlot] = h
    BY <1>a, <1>c DEF AttInv, VtInv, PathInv, PipePCs, SmxPCs
  <2>3. f.path = "smx" => m.vt[CSlot] = h
    <3>1. f.path = "smx" => f.prime /\ Next1 /\ Prep = h /\ Slot = 0 /\ CSlot = 0
      BY <1>a, <1>c DEF AttInv, PathInv, Next1, Slot, CSlot
    <3> QED
      BY <1>c, <3>1 DEF AttInv, VtInv
  <2>4. f.path \in {"pipe", "smx"}
    BY <1>a, <1>c DEF AttInv, PathInv, Flags, SplitPCs
  <2> QED
    BY <2>1, <2>2, <2>3, <2>4 DEF Product, Same, POf
<1>1. VtInv' /\ ScoresInv' /\ ExpInv' /\ CtxInv' /\ SplitInv'
  BY <1>b DEF AttInv, VtInv, ScoresInv, ExpInv, CtxInv, SplitInv, ContextProductFinish, Next1,
     Slot, Prep, PipePCs, More, Softmaxable, Go
<1>2. ADrv' /\ AFlags'
  <2>1. ADrv'
    BY <1>a, <1>b, HeadsAssumption DEF AttInv, ADrv, AFlags, JobInv, PathInv, ContextProductFinish,
       Flags, Next1, ThisJob, Job, Prep, NoJob, Slot, CSlot, SmxPCs, AlonePCs, PipePCs, SplitPCs,
       Collect, Go, More, Good, Local
  <2>2. AFlags'
    BY <1>a, <1>b, HeadsAssumption DEF AttInv, ADrv, AFlags, JobInv, PathInv, ContextProductFinish,
       Flags, Next1, Prep, SmxPCs, AlonePCs, PipePCs, SplitPCs, Collect, Go, More, Good, Local
  <2> QED
    BY <2>1, <2>2
<1>3. PathInv' /\ JobInv'
  BY DEF AttInv, PathInv, JobInv, ContextProductFinish, SmxPCs, AlonePCs, PipePCs, SplitPCs,
     Collect, Go, Local
<1>4. ProductInv'
  <2>1. m'.c[IF f'.c_cr THEN 1 ELSE 0] = h
    <3>1. CASE Good
      <4>1. m.c[IF f.c_cr THEN 1 ELSE 0] = h
        BY <1>c, <3>1 DEF AttInv, ProductInv, Ended, Good
      <4>2. f'.c_cr = f.c_cr
        BY <1>a, <1>c, <3>1 DEF Flags
      <4> QED
        BY <1>b, <3>1, <4>1, <4>2
    <3>2. CASE ~Good
      BY <1>b, <1>c, <1>d, <3>2
    <3> QED
      BY <3>1, <3>2
  <2>2. POf(h)'
    BY <1>b, <1>c, <1>d DEF POf
  <2> QED
    BY <1>c, <2>1, <2>2 DEF ProductInv
<1>5. AMats'
  BY <1>b DEF AMats
<1> QED
  BY <1>1, <1>2, <1>3, <1>4, <1>5 DEF AttInv

LEMMA Kept_attn_context16_start ==
  ASSUME AttInv, attn_context16_start
  PROVE  AttInv'
<1>a. /\ h \in HeadNo /\ h \in Nat /\ Par(h) \in 0..1 /\ Par(h + 1) = 1 - Par(h)
      /\ CSlot \in 0..1 /\ m \in Matrices /\ f \in Flags /\ AFlags
      /\ f.path = "pipe" => CSlot = Par(h)
      /\ Prep = IF f.path = "pipe" /\ ~f.prime THEN h + 1 ELSE h
  BY Places DEF AttInv, attn_context16_start
<1>b. /\ m'.q = m.q /\ m'.q_sh = m.q_sh /\ m'.s = m.s /\ m'.st = m.st /\ m'.sChip = m.sChip
         /\ m'.vt = m.vt /\ m'.pt = m.pt /\ m'.psum = m.psum /\ m'.p = m.p
      /\ \A d \in HeadNo : d # h => m'.ctx[d] = m.ctx[d]
      /\ usable => m'.c = m.c /\ f' = f /\ pend' = Job("ctx", h, IF f.c_cr THEN 1 ELSE 0)
         /\ blk' = "run"
      /\ ~usable => /\ pend' = pend
                    /\ m'.ctx[h] = Same(IF f.c_cr THEN Product(CSlot, m) ELSE m.c[0], h)
      /\ m' \in Matrices
  <2>1. CASE usable
    <3>1. /\ m' = Spoiled(Job("ctx", h, IF f.c_cr THEN 1 ELSE 0), m) /\ f' = f
          /\ pend' = Job("ctx", h, IF f.c_cr THEN 1 ELSE 0) /\ blk' = "run"
      BY <2>1 DEF attn_context16_start, Issue
    <3>2. (IF f.c_cr THEN 1 ELSE 0) \in 0..1 /\ h \in HeadNo /\ m \in Matrices
      BY <1>a
    <3> DEFINE k == IF f.c_cr THEN 1 ELSE 0
    <3> HIDE DEF k
    <3>3. m' = Spoiled(Job("ctx", h, k), m) /\ k \in 0..1
      BY <3>1, <3>2 DEF k
    <3>4. /\ m' \in Matrices /\ \A d \in HeadNo : d # h => m'.ctx[d] = m.ctx[d]
          /\ m'.q = m.q /\ m'.q_sh = m.q_sh /\ m'.s = m.s /\ m'.st = m.st /\ m'.sChip = m.sChip
             /\ m'.vt = m.vt /\ m'.pt = m.pt /\ m'.psum = m.psum /\ m'.p = m.p /\ m'.c = m.c
      BY ZenonT(60), <3>2, <3>3, Spoiled_ctx
    <3> QED
      BY <2>1, <3>1, <3>4
  <2>2. CASE ~usable
    <3> DEFINE u == IF f.c_cr THEN C_DDR(CSlot, m) ELSE m
    <3>1. /\ u.q = m.q /\ u.q_sh = m.q_sh /\ u.s = m.s /\ u.st = m.st /\ u.sChip = m.sChip
             /\ u.vt = m.vt /\ u.pt = m.pt /\ u.psum = m.psum /\ u.p = m.p /\ u.ctx = m.ctx
          /\ u.c[0] = (IF f.c_cr THEN Product(CSlot, m) ELSE m.c[0]) /\ u \in Matrices
      BY <1>a, CMade
    <3>2. m' = attn_context16_cpu(h, u) /\ pend' = pend
      BY <2>2 DEF attn_context16_start, drv
    <3> HIDE DEF u
    <3> QED
      BY <1>a, <2>2, <3>1, <3>2, ContextRounded
  <2> QED
    BY <2>1, <2>2 DEF AttInv, ADrv
<1>c. /\ apc = "ctx"
      /\ apc' = (IF f.path = "smx" THEN "ctx_fin" ELSE "next")
      /\ h' = h
      /\ f'.path = f.path /\ f'.direct = f.direct /\ f'.prime = f.prime /\ f'.s_cr = f.s_cr
         /\ f'.exp_ok = f.exp_ok /\ f'.exp_next = f.exp_next
      /\ usable \in BOOLEAN
      /\ usable => f'.c_cr = f.c_cr
      /\ ~usable => blk' = blk
  <2>1. CASE usable
    <3>1. f' = f /\ usable \in BOOLEAN
      BY <1>b, <2>1 DEF AttInv, ADrv
    <3> QED
      BY <2>1, <3>1 DEF attn_context16_start, Local, Go
  <2>2. CASE ~usable
    <3>1. f' = [f EXCEPT !.c_cr = FALSE] /\ blk' = blk
      BY <2>2 DEF attn_context16_start, drv
    <3>2. f'.path = f.path /\ f'.direct = f.direct /\ f'.prime = f.prime /\ f'.s_cr = f.s_cr
          /\ f'.exp_ok = f.exp_ok /\ f'.exp_next = f.exp_next
      BY <1>a, <3>1 DEF Flags
    <3>3. usable \in BOOLEAN
      BY DEF AttInv, ADrv
    <3> QED
      BY <2>2, <3>1, <3>2, <3>3 DEF attn_context16_start, Local, Go
  <2> QED
    BY <2>1, <2>2 DEF AttInv, ADrv
<1>d. POf(h) /\ Product(CSlot, m) = h
  <2>1. POf(h)
    BY <1>c DEF AttInv, ProductInv
  <2>2. f.path = "pipe" => m.vt[CSlot] = h
    BY <1>a, <1>c DEF AttInv, VtInv, PathInv, PipePCs, SmxPCs
  <2>3. f.path = "smx" => m.vt[CSlot] = h
    <3>1. f.path = "smx" => f.prime /\ Next1 /\ Prep = h /\ Slot = 0 /\ CSlot = 0
      BY <1>a, <1>c DEF AttInv, PathInv, Next1, Slot, CSlot
    <3> QED
      BY <1>c, <3>1 DEF AttInv, VtInv
  <2>4. f.path \in {"pipe", "smx"}
    BY <1>a, <1>c DEF AttInv, PathInv, Flags, SplitPCs
  <2> QED
    BY <2>1, <2>2, <2>3, <2>4 DEF Product, Same, POf
<1>1. ADrv' /\ AFlags'
  BY <1>a, <1>b, HeadsAssumption DEF AttInv, ADrv, AFlags, JobInv, PathInv, attn_context16_start,
     Flags, Next1, ThisJob, Job, Prep, NoJob, Slot, CSlot, SmxPCs, AlonePCs, PipePCs, SplitPCs,
     Issue, drv, Go, Local, More
<1>2. VtInv' /\ ScoresInv'
  BY <1>b DEF AttInv, VtInv, ScoresInv, AFlags, attn_context16_start, Next1, Slot, Prep, PipePCs,
     Flags, Go, More
<1>3. PathInv' /\ JobInv'
  BY DEF AttInv, PathInv, JobInv, AFlags, attn_context16_start, SmxPCs, AlonePCs, PipePCs,
     SplitPCs, ThisJob, Flags, Issue, drv, Go, Local
<1>4. ExpInv'
  BY <1>b DEF AttInv, ExpInv, AFlags, attn_context16_start, More, Softmaxable, Flags, Go
<1>5. SplitInv'
  BY DEF SplitInv, attn_context16_start, Go
<1>6. CtxInv'
  <2>1. m.c[IF f.c_cr THEN 1 ELSE 0] = h /\ pend = NoJob
    BY <1>c DEF AttInv, ProductInv, JobInv
  <2>2. \A d \in HeadNo : d < h => m'.ctx[d] = d
    BY <1>a, <1>b, <1>c DEF AttInv, CtxInv, HeadNo
  <2>3. Ended' => m'.ctx[h] = h
    <3>1. CASE usable
      BY <1>b, <3>1 DEF Ended, Job, NoJob
    <3>2. CASE ~usable
      BY <1>b, <1>d, <2>1, <3>2 DEF Same
    <3> QED
      BY <3>1, <3>2
  <2> QED
    BY <1>c, <2>2, <2>3 DEF CtxInv
<1>7. ProductInv'
  <2>1. m.c[IF f.c_cr THEN 1 ELSE 0] = h /\ pend = NoJob
    BY <1>c DEF AttInv, ProductInv, JobInv
  <2>2. POf(h)'
    BY <1>b, <1>c, <1>d DEF POf
  <2>3. pend' # NoJob => m'.c[IF f'.c_cr THEN 1 ELSE 0] = h
    <3>1. CASE usable
      BY <1>b, <1>c, <2>1, <3>1
    <3>2. CASE ~usable
      BY <1>b, <2>1, <3>2
    <3> QED
      BY <3>1, <3>2
  <2> QED
    BY <1>c, <2>2, <2>3 DEF ProductInv
<1>8. AMats'
  BY <1>b DEF AMats
<1> QED
  BY <1>1, <1>2, <1>3, <1>4, <1>5, <1>6, <1>7, <1>8 DEF AttInv

LEMMA Kept_attention_all16 ==
  ASSUME AttInv, attention_all16
  PROVE  AttInv'
<1>a. /\ h \in Nat /\ 1 <= h /\ m \in Matrices /\ f \in Flags /\ AFlags
      /\ ~f.prime => h - 1 \in HeadNo /\ h - 1 \in Nat
      /\ h > 1 => h - 1 \in Nat /\ Par(h) = 1 - Par(h - 1) /\ Par(h - 1) \in 0..1
  <2>1. h \in Nat /\ 1 <= h /\ (~f.prime => h - 1 \in HeadNo)
    BY HeadsAssumption DEF AttInv, PathInv, attention_all16, HeadNo
  <2>2. h > 1 => h - 1 \in Nat
    BY <2>1
  <2>3. h > 1 => Par(h) = 1 - Par(h - 1) /\ Par(h - 1) \in 0..1
    <3>1. (h - 1) + 1 = h
      BY <2>1
    <3> QED
      BY <2>2, <3>1, ParAlternates
  <2>4. m \in Matrices /\ f \in Flags /\ AFlags
    BY DEF AttInv, AMats, AFlags
  <2> QED
    BY <2>1, <2>2, <2>3, <2>4 DEF HeadNo
<1>b. /\ f.prime => m' = m
      /\ m'.q = m.q /\ m'.q_sh = m.q_sh /\ m'.s = m.s /\ m'.st = m.st /\ m'.sChip = m.sChip
         /\ m'.vt = m.vt /\ m'.pt = m.pt /\ m'.psum = m.psum /\ m'.p = m.p
      /\ ~f.prime => /\ \A d \in HeadNo : d # h - 1 => m'.ctx[d] = m.ctx[d]
                     /\ m'.ctx[h - 1] = IF Good THEN m.ctx[h - 1]
                                        ELSE Same(IF f.c_cr THEN Product(Par(h - 1),
                                            m) ELSE m.c[0], h - 1)
      /\ m' \in Matrices
  <2>0. CASE f.prime
    BY <1>a, <2>0 DEF AttInv, JobInv, attention_all16, ContextFinish, Good
  <2>9. CASE ~f.prime
    <3>1. Par(h - 1) \in 0..1 /\ h - 1 \in HeadNo
      BY <1>a, <2>9 DEF AttInv, PathInv, attention_all16
    <3> DEFINE u == IF f.c_cr THEN C_DDR(Par(h - 1), m) ELSE m
    <3>2. /\ u.q = m.q /\ u.q_sh = m.q_sh /\ u.s = m.s /\ u.st = m.st /\ u.sChip = m.sChip
             /\ u.vt = m.vt /\ u.pt = m.pt /\ u.psum = m.psum /\ u.p = m.p /\ u.ctx = m.ctx
          /\ u.c[0] = (IF f.c_cr THEN Product(Par(h - 1), m) ELSE m.c[0]) /\ u \in Matrices
      BY <1>a, <3>1, CMade
    <3>3. m' = IF Good THEN m ELSE attn_context16_cpu(h - 1, u)
      BY DEF attention_all16, ContextFinish
    <3> HIDE DEF u
    <3> QED
      BY <1>a, <2>9, <3>1, <3>2, <3>3, ContextRounded
  <2> QED
    BY <1>a, <2>0, <2>9 DEF Flags
<1>c. /\ apc = "loop"
      /\ apc' = (IF h > Heads THEN "ret" ELSE IF More THEN "vt" ELSE "norm_lo")
      /\ h' = h
      /\ f'.path = f.path /\ f'.direct = f.direct /\ f'.s_cr = f.s_cr /\ f'.c_cr = f.c_cr
         /\ f'.exp_ok = f.exp_ok /\ f'.exp_next = f.exp_next
      /\ f'.prime = FALSE
      /\ pend' = NoJob /\ blk' = "ok"
  BY <1>a DEF attention_all16, ContextFinish, Collect, Local, Go, Flags, Job, NoJob
<1>d. f.path = "pipe"
  BY <1>a, <1>c DEF AttInv, PathInv, Flags, SmxPCs, AlonePCs, SplitPCs
<1>1. JobInv' /\ ScoresInv' /\ ProductInv' /\ SplitInv'
  BY DEF JobInv, ScoresInv, ProductInv, SplitInv, attention_all16, Next1, More, ContextFinish,
     Go, Collect
<1>2. ADrv' /\ AFlags'
  BY <1>a, <1>b, HeadsAssumption DEF AttInv, ADrv, AFlags, JobInv, PathInv, attention_all16,
     Flags, Next1, ThisJob, Job, Prep, NoJob, Slot, CSlot, SmxPCs, AlonePCs, PipePCs, SplitPCs,
     ContextFinish, Go, More, Local, Collect, Good
<1>3. PathInv'
  BY HeadsAssumption DEF AttInv, PathInv, attention_all16, SmxPCs, AlonePCs, PipePCs, SplitPCs,
     Go, More, Local
<1>4. VtInv'
  <2>1. apc' \in {"vt", "norm_lo"} => m'.vt[Par(h)] = h
    BY <1>a, <1>b, <1>c, HeadsAssumption DEF AttInv, VtInv, More
  <2>2. apc' = "norm_lo" => ~Next1'
    BY <1>c DEF Next1, More
  <2> QED
    BY <1>c, <2>1, <2>2 DEF VtInv, PipePCs
<1>5. ExpInv'
  <2>1. h <= Heads => Softmaxable(h, Par(h), f.exp_ok, TRUE)
    BY <1>c DEF AttInv, ExpInv
  <2>2. h <= Heads => Softmaxable(h, Par(h), f.exp_ok, TRUE)'
    BY <1>b, <1>c, <2>1 DEF Softmaxable
  <2>3. apc' \in {"vt", "norm_lo"} => h <= Heads
    BY <1>a, <1>c, HeadsAssumption
  <2> QED
    BY <1>c, <2>2, <2>3 DEF ExpInv
<1>6. CtxInv'
  <2>1. ~f.prime => m'.ctx[h - 1] = h - 1
    <3>1. CASE ~f.prime /\ Good
      BY <1>a, <1>b, <1>c, <3>1 DEF AttInv, CtxInv, Ended, Good
    <3>2. CASE ~f.prime /\ ~Good
      <4>1. m.c[IF f.c_cr THEN 1 ELSE 0] = h - 1 /\ POf(h - 1) /\ m.vt[Par(h - 1)] = h - 1
        BY <1>c, <3>2 DEF AttInv, ProductInv, VtInv, Good
      <4>2. Product(Par(h - 1), m) = h - 1
        BY <4>1 DEF Product, Same, POf
      <4> QED
        BY <1>b, <3>2, <4>1, <4>2 DEF Same
    <3> QED
      BY <3>1, <3>2
  <2>2. ASSUME NEW d \in HeadNo, d < h PROVE m'.ctx[d] = d
    <3>1. CASE f.prime
      <4>1. h = 1
        BY <1>c, <1>d, <3>1 DEF AttInv, PathInv
      <4> QED
        BY <2>2, <4>1 DEF HeadNo
    <3>2. CASE ~f.prime /\ d = h - 1
      BY <2>1, <3>2
    <3>3. CASE ~f.prime /\ d # h - 1
      <4>1. d < h - 1
        BY <1>a, <2>2, <3>3 DEF HeadNo
      <4>2. m.ctx[d] = d
        BY <1>c, <4>1 DEF AttInv, CtxInv
      <4> QED
        BY <1>b, <3>3, <4>2
    <3> QED
      BY <3>1, <3>2, <3>3
  <2>3. apc' = "ret" => \A d \in HeadNo : d < h
    BY <1>a, <1>c, HeadsAssumption DEF HeadNo, More
  <2> QED
    BY <1>c, <2>2, <2>3 DEF CtxInv
<1>7. AMats'
  BY <1>b DEF AMats
<1> QED
  BY <1>1, <1>2, <1>3, <1>4, <1>5, <1>6, <1>7 DEF AttInv

LEMMA Kept_NextHead ==
  ASSUME AttInv, NextHead
  PROVE  AttInv'
<1>a. /\ h \in HeadNo /\ h \in Nat /\ Par(h) \in 0..1 /\ Par(h + 1) = 1 - Par(h)
      /\ CSlot \in 0..1 /\ m \in Matrices /\ f \in Flags /\ AFlags
      /\ f.path = "pipe" => CSlot = Par(h)
      /\ Prep = IF f.path = "pipe" /\ ~f.prime THEN h + 1 ELSE h
  BY Places DEF AttInv, NextHead
<1>b. m' = m
  BY DEF NextHead
<1>1. ADrv' /\ AFlags' /\ AMats' /\ PathInv' /\ JobInv' /\ VtInv' /\ ScoresInv' /\ ExpInv'
      /\ ProductInv' /\ CtxInv' /\ SplitInv'
  BY HeadsAssumption DEF AttInv, ADrv, AFlags, AMats, PathInv, JobInv, VtInv, ScoresInv, ExpInv,
     ProductInv, CtxInv, SplitInv, NextHead, Flags, SmxPCs, AlonePCs, PipePCs, SplitPCs, Next1,
     ThisJob, Prep, Slot, Ended, More, Softmaxable, POf, Go, drv
<1> QED
  BY <1>1 DEF AttInv

LEMMA Kept_AloneFinish ==
  ASSUME AttInv, AloneFinish
  PROVE  AttInv'
<1>a. /\ h \in HeadNo /\ h \in Nat /\ Par(h) \in 0..1 /\ Par(h + 1) = 1 - Par(h)
      /\ CSlot \in 0..1 /\ m \in Matrices /\ f \in Flags /\ AFlags
      /\ f.path = "pipe" => CSlot = Par(h)
      /\ Prep = IF f.path = "pipe" /\ ~f.prime THEN h + 1 ELSE h
  BY Places DEF AttInv, AloneFinish
<1>b. /\ m'.q = m.q /\ m'.q_sh = m.q_sh /\ m'.s = m.s /\ m'.st = m.st /\ m'.sChip = m.sChip
         /\ m'.vt = m.vt /\ m'.pt = m.pt /\ m'.psum = m.psum /\ m'.p = m.p
      /\ \A d \in HeadNo : d # h => m'.ctx[d] = m.ctx[d]
      /\ m'.ctx[h] = IF Good THEN m.ctx[h] ELSE Same(IF f.c_cr THEN Product(0, m) ELSE m.c[0], h)
      /\ m' \in Matrices
  <2> DEFINE u == IF f.c_cr THEN C_DDR(0, m) ELSE m
  <2>1. /\ u.q = m.q /\ u.q_sh = m.q_sh /\ u.s = m.s /\ u.st = m.st /\ u.sChip = m.sChip
           /\ u.vt = m.vt /\ u.pt = m.pt /\ u.psum = m.psum /\ u.p = m.p /\ u.ctx = m.ctx
        /\ u.c[0] = (IF f.c_cr THEN Product(0, m) ELSE m.c[0]) /\ u \in Matrices
    BY <1>a, CMade
  <2>2. m' = IF Good THEN m ELSE attn_context16_cpu(h, u)
    BY DEF AloneFinish, ContextFinish
  <2> HIDE DEF u
  <2>3. CASE Good
    BY <1>a, <2>2, <2>3
  <2>4. CASE ~Good
    <3>1. m' = attn_context16_cpu(h, u)
      BY <2>2, <2>4
    <3> QED
      BY <1>a, <2>1, <2>4, <3>1, ContextRounded
  <2> QED
    BY <2>3, <2>4
<1>c. /\ apc = "ctx_fin"
      /\ apc' = (IF More THEN "vt" ELSE "ret")
      /\ h' = h + 1
      /\ f' = f
      /\ pend' = NoJob /\ blk' = "ok"
  BY <1>a DEF AloneFinish, ContextFinish, Collect, Local, Go, Flags, Job, NoJob
<1>d. Product(0, m) = h
  <2>1. POf(h)
    BY <1>c DEF AttInv, ProductInv
  <2>2. f.path = "pipe" => m.vt[CSlot] = h
    BY <1>a, <1>c DEF AttInv, VtInv, PathInv, PipePCs, SmxPCs
  <2>3. f.path = "smx" => m.vt[CSlot] = h
    <3>1. f.path = "smx" => f.prime /\ Next1 /\ Prep = h /\ Slot = 0 /\ CSlot = 0
      BY <1>a, <1>c DEF AttInv, PathInv, Next1, Slot, CSlot
    <3> QED
      BY <1>c, <3>1 DEF AttInv, VtInv
  <2>4. f.path \in {"pipe", "smx"}
    BY <1>a, <1>c DEF AttInv, PathInv, Flags, SplitPCs
  <2>5. Product(CSlot, m) = h /\ CSlot = 0
    <3>1. CSlot = 0
      BY <1>a, <1>c, <2>4 DEF AttInv, PathInv, PipePCs, SmxPCs, CSlot
    <3> QED
      BY <2>1, <2>2, <2>3, <2>4, <3>1 DEF Product, Same, POf
  <2> QED
    BY <2>5, <2>1 DEF Product, Same, POf
<1>1. VtInv' /\ ScoresInv' /\ ExpInv' /\ ProductInv' /\ SplitInv'
  BY DEF AttInv, VtInv, ScoresInv, ExpInv, ProductInv, SplitInv, PathInv, AloneFinish, PipePCs,
     Softmaxable, Go
<1>2. ADrv' /\ AFlags'
  BY DEF AttInv, ADrv, AFlags, AloneFinish, ContextFinish, Collect
<1>3. PathInv' /\ JobInv'
  BY HeadsAssumption DEF AttInv, PathInv, JobInv, AloneFinish, SmxPCs, PipePCs, SplitPCs,
     ContextFinish, Go, More, Local, Collect
<1>4. CtxInv'
  <2>1. m'.ctx[h] = h
    <3>1. CASE Good
      BY <1>b, <1>c, <3>1 DEF AttInv, CtxInv, Ended, Good
    <3>2. CASE ~Good
      <4>1. m.c[IF f.c_cr THEN 1 ELSE 0] = h
        BY <1>c, <3>2 DEF AttInv, ProductInv, Good
      <4> QED
        BY <1>b, <1>d, <3>2, <4>1 DEF Same
    <3> QED
      BY <3>1, <3>2
  <2>2. \A d \in HeadNo : d < h => m'.ctx[d] = d
    BY <1>a, <1>b, <1>c DEF AttInv, CtxInv, HeadNo
  <2>3. \A d \in HeadNo : d < h + 1 => m'.ctx[d] = d
    BY <1>a, <2>1, <2>2 DEF HeadNo
  <2>4. apc' = "ret" => \A d \in HeadNo : d < h + 1
    BY <1>a, <1>c, HeadsAssumption DEF HeadNo, More
  <2>5. apc' \in {"vt", "s_hi", "ret"}
    BY <1>c
  <2> QED
    BY <1>c, <2>3, <2>4, <2>5 DEF CtxInv
<1>5. AMats'
  BY <1>b DEF AMats
<1> QED
  BY <1>1, <1>2, <1>3, <1>4, <1>5 DEF AttInv

LEMMA Kept_SplitQ ==
  ASSUME AttInv, SplitQ
  PROVE  AttInv'
<1>a. 1 \in HeadNo /\ h = 1 /\ m \in Matrices
  BY HeadsAssumption, Places DEF AttInv, PathInv, AMats, SplitQ, HeadNo
<1>b. /\ m'.s = m.s /\ m'.st = m.st /\ m'.sChip = m.sChip /\ m'.vt = m.vt /\ m'.pt = m.pt
         /\ m'.psum = m.psum /\ m'.p = m.p /\ m'.c = m.c /\ m'.ctx = m.ctx /\ m'.q = 1
            /\ m'.q_sh = 1
      /\ m' \in Matrices
  BY <1>a, QkPrepared DEF SplitQ
<1>1. ADrv' /\ AFlags' /\ AMats' /\ PathInv' /\ JobInv' /\ VtInv' /\ ScoresInv' /\ ExpInv'
      /\ ProductInv' /\ CtxInv' /\ SplitInv'
  BY <1>b DEF AttInv, ADrv, AFlags, AMats, PathInv, JobInv, VtInv, ScoresInv, ExpInv, ProductInv,
     CtxInv, SplitInv, SplitQ, SmxPCs, AlonePCs, PipePCs, SplitPCs, Go, drv, Local
<1> QED
  BY <1>1 DEF AttInv

LEMMA Kept_SplitV ==
  ASSUME AttInv, SplitV
  PROVE  AttInv'
<1>a. /\ h \in HeadNo /\ h \in Nat /\ Par(h) \in 0..1 /\ Par(h + 1) = 1 - Par(h)
      /\ CSlot \in 0..1 /\ m \in Matrices /\ f \in Flags /\ AFlags
      /\ f.path = "pipe" => CSlot = Par(h)
      /\ Prep = IF f.path = "pipe" /\ ~f.prime THEN h + 1 ELSE h
  BY Places DEF AttInv, SplitV
<1>b. /\ m'.q = m.q /\ m'.q_sh = m.q_sh /\ m'.s = m.s /\ m'.st = m.st /\ m'.sChip = m.sChip
         /\ m'.pt = m.pt /\ m'.psum = m.psum /\ m'.p = m.p /\ m'.c = m.c /\ m'.ctx = m.ctx
            /\ m'.vt[0] = h /\ m'.vt[1] = h
      /\ m' \in Matrices
  BY <1>a, VPrepared DEF SplitV
<1>1. ADrv' /\ AFlags' /\ AMats' /\ PathInv' /\ JobInv' /\ VtInv' /\ ScoresInv' /\ ExpInv'
      /\ ProductInv' /\ CtxInv' /\ SplitInv'
  BY <1>b DEF AttInv, ADrv, AFlags, AMats, PathInv, JobInv, VtInv, ScoresInv, ExpInv, ProductInv,
     CtxInv, SplitInv, SplitV, SmxPCs, AlonePCs, PipePCs, SplitPCs, ThisJob, Ended, Go, drv, Local
<1> QED
  BY <1>1 DEF AttInv

LEMMA Kept_SplitSoftmax ==
  ASSUME AttInv, SplitSoftmax
  PROVE  AttInv'
<1>a. /\ h \in HeadNo /\ h \in Nat /\ m \in Matrices /\ f \in Flags /\ AFlags
      /\ 0 \in 0..1 /\ 1 \in 0..1 /\ f.path = "split"
  <2>1. apc \in SplitPCs /\ f.path = "split"
    BY DEF AttInv, PathInv, AFlags, Flags, SplitSoftmax, SmxPCs, AlonePCs, PipePCs, SplitPCs
  <2> QED
    BY <2>1, Places DEF AttInv, SplitPCs
<1>b. /\ m'.q = m.q /\ m'.q_sh = m.q_sh /\ m'.st = m.st /\ m'.sChip = m.sChip /\ m'.vt = m.vt
         /\ m'.pt = m.pt /\ m'.psum = m.psum /\ m'.c = m.c /\ m'.ctx = m.ctx
      /\ m'.s[1] = m.s[1] /\ m'.s[0] = IF Good THEN m.s[0] ELSE m.q
      /\ m'.p[0] = Same(m'.s[0], m'.s[1]) /\ m'.p[1] = Same(m'.s[0], m'.s[1])
      /\ m' \in Matrices
  <2>1. ThisJob(Job("s8", h, 0))
    BY DEF AttInv, JobInv, SplitSoftmax
  <2> DEFINE u == Settled
  <2>2. /\ u \in Matrices /\ u.q = m.q /\ u.q_sh = m.q_sh /\ u.st = m.st /\ u.sChip = m.sChip
           /\ u.vt = m.vt /\ u.pt = m.pt /\ u.psum = m.psum /\ u.p = m.p /\ u.c = m.c
              /\ u.ctx = m.ctx
        /\ u.s[1] = m.s[1] /\ u.s[0] = (IF Good THEN m.s[0] ELSE m.q)
    BY <1>a, <2>1, Settled_s8
  <2>3. m' = attn_softmax(u)
    BY DEF SplitSoftmax, gemm_i32_finish
  <2> HIDE DEF u
  <2>4. /\ m' \in Matrices /\ m'.q = u.q /\ m'.q_sh = u.q_sh /\ m'.s = u.s /\ m'.st = u.st
           /\ m'.sChip = u.sChip /\ m'.vt = u.vt /\ m'.pt = u.pt /\ m'.psum = u.psum
              /\ m'.c = u.c /\ m'.ctx = u.ctx
        /\ m'.p[0] = Same(u.s[0], u.s[1]) /\ m'.p[1] = Same(u.s[0], u.s[1])
    BY <1>a, <2>2, <2>3, SoftmaxMade
  <2> QED
    BY <2>2, <2>4
<1>c. /\ apc = "s_end"
      /\ apc' = "c_hi"
      /\ h' = h /\ f' = f
      /\ pend' = NoJob /\ blk' = "ok"
      /\ otherScale' = (otherScale \/ m.q_sh # h)
  BY <1>a DEF SplitSoftmax, gemm_i32_finish, Collect, Local, Go, Flags, Job, NoJob
<1>1. VtInv' /\ ScoresInv' /\ ExpInv' /\ ProductInv' /\ CtxInv'
  BY <1>a, <1>b, HeadsAssumption DEF AttInv, VtInv, ScoresInv, ExpInv, ProductInv, CtxInv,
     SplitSoftmax, Next1, Go
<1>2. ADrv' /\ AFlags'
  BY DEF AttInv, ADrv, AFlags, SplitSoftmax, gemm_i32_finish, Collect
<1>3. JobInv'
  BY DEF JobInv, SplitSoftmax, gemm_i32_finish, Go, Collect
<1>4. PathInv'
  <2>1. m.q_sh = h /\ ~otherScale /\ h <= Heads /\ h \in 1..(Heads + 1)
    BY <1>a, <1>c DEF AttInv, PathInv, SplitInv, SplitPCs
  <2> QED
    BY <1>a, <1>c, <2>1, HeadsAssumption DEF AttInv, PathInv, SmxPCs, AlonePCs, PipePCs, SplitPCs
<1>5. SplitInv'
  <2>1. SplitInv /\ apc \in SplitPCs /\ apc' \in SplitPCs
    BY <1>c DEF AttInv, SplitPCs
  <2>2. /\ m.q = h /\ m.q_sh = h /\ m.vt[0] = h /\ m.vt[1] = h /\ m.s[1] = h
        /\ Good => m.s[0] = h
    BY <1>a, <1>c, <2>1 DEF SplitInv, Ended, Good
  <2>3. POf(h)'
    BY <1>b, <1>c, <2>2 DEF Same, POf
  <2> QED
    BY <1>b, <1>c, <2>2, <2>3 DEF SplitInv
<1>6. AMats'
  BY <1>b DEF AMats
<1> QED
  BY <1>1, <1>2, <1>3, <1>4, <1>5, <1>6 DEF AttInv

LEMMA Kept_SplitNextQ ==
  ASSUME AttInv, SplitNextQ
  PROVE  AttInv'
<1>a. /\ h \in HeadNo /\ h \in Nat /\ Par(h) \in 0..1 /\ Par(h + 1) = 1 - Par(h)
      /\ CSlot \in 0..1 /\ m \in Matrices /\ f \in Flags /\ AFlags
      /\ f.path = "pipe" => CSlot = Par(h)
      /\ Prep = IF f.path = "pipe" /\ ~f.prime THEN h + 1 ELSE h
  BY Places DEF AttInv, SplitNextQ
<1>b. /\ m'.s = m.s /\ m'.st = m.st /\ m'.sChip = m.sChip /\ m'.vt = m.vt /\ m'.pt = m.pt
         /\ m'.psum = m.psum /\ m'.p = m.p /\ m'.c = m.c /\ m'.ctx = m.ctx
      /\ IF More THEN m'.q = h + 1 /\ m'.q_sh = h + 1 ELSE m' = m
      /\ m' \in Matrices
  <2>1. CASE More
    <3>1. h + 1 \in HeadNo
      BY <1>a, <2>1, HeadsAssumption DEF More, HeadNo
    <3> QED
      BY <1>a, <2>1, <3>1, QkPrepared DEF SplitNextQ
  <2>2. CASE ~More
    BY <1>a, <2>2 DEF SplitNextQ
  <2> QED
    BY <2>1, <2>2
<1>1. VtInv' /\ ScoresInv' /\ ExpInv' /\ ProductInv' /\ CtxInv' /\ SplitInv'
  BY <1>b DEF AttInv, VtInv, ScoresInv, ExpInv, ProductInv, CtxInv, SplitInv, PathInv,
     SplitNextQ, Ended, More, POf, Go, drv
<1>2. ADrv' /\ AFlags'
  BY DEF AttInv, ADrv, AFlags, SplitNextQ, drv
<1>3. PathInv' /\ JobInv'
  BY DEF AttInv, PathInv, JobInv, SplitNextQ, SmxPCs, AlonePCs, PipePCs, SplitPCs, ThisJob, Go,
     drv, Local
<1>4. AMats'
  BY <1>b DEF AMats
<1> QED
  BY <1>1, <1>2, <1>3, <1>4 DEF AttInv

LEMMA Kept_SplitNormalise ==
  ASSUME AttInv, SplitNormalise
  PROVE  AttInv'
<1>a. /\ h \in HeadNo /\ h \in Nat /\ m \in Matrices /\ f \in Flags /\ AFlags
      /\ 0 \in 0..1 /\ 1 \in 0..1 /\ f.path = "split"
  <2>1. apc \in SplitPCs /\ f.path = "split"
    BY DEF AttInv, PathInv, AFlags, Flags, SplitNormalise, SmxPCs, AlonePCs, PipePCs, SplitPCs
  <2> QED
    BY <2>1, Places DEF AttInv, SplitPCs
<1>b. /\ m'.q = m.q /\ m'.q_sh = m.q_sh /\ m'.s = m.s /\ m'.st = m.st /\ m'.sChip = m.sChip
         /\ m'.vt = m.vt /\ m'.pt = m.pt /\ m'.psum = m.psum /\ m'.p = m.p
      /\ m'.c[1] = m.c[1] /\ m'.c[0] = IF Good THEN m.c[0] ELSE Product(0, m)
      /\ m'.ctx[h] = Same(Same(m'.c[0], m'.c[1]), h)
      /\ \A d \in HeadNo : d # h => m'.ctx[d] = m.ctx[d]
      /\ m' \in Matrices
  <2>1. ThisJob(Job("c8", h, 0))
    BY DEF AttInv, JobInv, SplitNormalise
  <2> DEFINE u == Settled
  <2>2. /\ u \in Matrices /\ u.q = m.q /\ u.q_sh = m.q_sh /\ u.s = m.s /\ u.st = m.st
           /\ u.sChip = m.sChip /\ u.vt = m.vt /\ u.pt = m.pt /\ u.psum = m.psum /\ u.p = m.p
              /\ u.ctx = m.ctx
        /\ u.c[1] = m.c[1] /\ u.c[0] = (IF Good THEN m.c[0] ELSE Product(0, m))
    BY <1>a, <2>1, Settled_c8
  <2>3. m' = attn_normalise(u)
    BY DEF SplitNormalise, gemm_i32_finish
  <2> HIDE DEF u
  <2>4. /\ m' \in Matrices /\ m'.q = u.q /\ m'.q_sh = u.q_sh /\ m'.s = u.s /\ m'.st = u.st
           /\ m'.sChip = u.sChip /\ m'.vt = u.vt /\ m'.pt = u.pt /\ m'.psum = u.psum
              /\ m'.p = u.p /\ m'.c = u.c
        /\ m'.ctx[h] = Same(Same(u.c[0], u.c[1]), h)
        /\ \A d \in HeadNo : d # h => m'.ctx[d] = u.ctx[d]
    BY <1>a, <2>2, <2>3, Normalised
  <2> QED
    BY <2>2, <2>4
<1>c. /\ apc = "c_end"
      /\ apc' = (IF More THEN "s_hi" ELSE "ret")
      /\ h' = h + 1
      /\ f' = f
      /\ pend' = NoJob /\ blk' = "ok"
  BY <1>a DEF SplitNormalise, gemm_i32_finish, Collect, Local, Go, Flags, Job, NoJob
<1>1. VtInv' /\ ScoresInv' /\ ExpInv' /\ ProductInv' /\ SplitInv'
  BY <1>a, <1>b DEF AttInv, VtInv, ScoresInv, ExpInv, ProductInv, SplitInv, PathInv,
     SplitNormalise, Go
<1>2. ADrv' /\ AFlags'
  BY DEF AttInv, ADrv, AFlags, SplitNormalise, gemm_i32_finish, Collect
<1>3. PathInv' /\ JobInv'
  BY <1>a, HeadsAssumption DEF AttInv, PathInv, JobInv, SplitNormalise, SplitPCs,
     gemm_i32_finish, Go, More, Local, Collect
<1>4. CtxInv'
  <2>1. m'.ctx[h] = h
    <3>1. SplitInv /\ apc \in SplitPCs
      BY <1>c DEF AttInv, SplitPCs
    <3>2. m.c[1] = h /\ POf(h) /\ m.vt[0] = h /\ (Good => m.c[0] = h)
      BY <1>a, <1>c, <3>1 DEF SplitInv, Ended, Good
    <3>3. Product(0, m) = h
      BY <3>2 DEF Product, Same, POf
    <3> QED
      BY <1>b, <3>2, <3>3 DEF Same
  <2>2. \A d \in HeadNo : d < h => m'.ctx[d] = d
    BY <1>a, <1>b, <1>c DEF AttInv, CtxInv, HeadNo
  <2>3. \A d \in HeadNo : d < h + 1 => m'.ctx[d] = d
    BY <1>a, <2>1, <2>2 DEF HeadNo
  <2>4. apc' = "ret" => \A d \in HeadNo : d < h + 1
    BY <1>a, <1>c, HeadsAssumption DEF HeadNo, More
  <2>5. apc' \in {"vt", "s_hi", "ret"}
    BY <1>c
  <2> QED
    BY <1>c, <2>3, <2>4, <2>5 DEF CtxInv
<1>5. AMats'
  BY <1>b DEF AMats
<1> QED
  BY <1>1, <1>2, <1>3, <1>4, <1>5 DEF AttInv

LEMMA Kept_SplitJob_s_hi ==
  ASSUME AttInv, SplitJob("s_hi", "s8", 1, "v")
  PROVE  AttInv'
<1>a. /\ h \in HeadNo /\ h \in Nat /\ m \in Matrices /\ f \in Flags /\ AFlags
      /\ 0 \in 0..1 /\ 1 \in 0..1 /\ f.path = "split"
  <2>1. apc \in SplitPCs /\ f.path = "split"
    BY DEF AttInv, PathInv, AFlags, Flags, SplitJob, SmxPCs, AlonePCs, PipePCs, SplitPCs
  <2> QED
    BY <2>1, Places DEF AttInv, SplitPCs
<1>b. /\ m'.q = m.q /\ m'.q_sh = m.q_sh /\ m'.st = m.st /\ m'.sChip = m.sChip /\ m'.vt = m.vt
         /\ m'.pt = m.pt /\ m'.psum = m.psum /\ m'.p = m.p /\ m'.c = m.c /\ m'.ctx = m.ctx
      /\ m'.s[0] = m.s[0]
      /\ pend' = NoJob => m'.s[1] = m.q
      /\ m' \in Matrices
  <2>1. pend = NoJob
    BY DEF AttInv, JobInv, SplitJob
  <2>2. /\ Settled \in Matrices /\ Settled.q = m.q /\ Settled.q_sh = m.q_sh /\ Settled.st = m.st
           /\ Settled.sChip = m.sChip /\ Settled.vt = m.vt /\ Settled.pt = m.pt
              /\ Settled.psum = m.psum /\ Settled.p = m.p /\ Settled.c = m.c
                 /\ Settled.ctx = m.ctx
        /\ Settled.s[0] = m.s[0]
    BY <1>a, <2>1 DEF Settled, Good
  <2> DEFINE u == Settled
  <2>3. \/ m' = Spoiled(Job("s8", h, 1), u) /\ pend' = Job("s8", h, 1)
        \/ m' = Ending(Job("s8", h, 1), u)
    BY DEF SplitJob, gemm_i32_start, Issue
  <2>4. /\ u \in Matrices /\ u.q = m.q /\ u.q_sh = m.q_sh /\ u.st = m.st /\ u.sChip = m.sChip
           /\ u.vt = m.vt /\ u.pt = m.pt /\ u.psum = m.psum /\ u.p = m.p /\ u.c = m.c
              /\ u.ctx = m.ctx
        /\ u.s[0] = Settled.s[0]
    BY <2>2
  <2> HIDE DEF u
  <2>5. CASE m' = Spoiled(Job("s8", h, 1), u) /\ pend' = Job("s8", h, 1)
    <3>1. pend' # NoJob
      BY <2>5 DEF Job, NoJob
    <3>2. /\ m' \in Matrices /\ m'.s[0] = u.s[0] /\ m'.q = u.q /\ m'.q_sh = u.q_sh
             /\ m'.st = u.st /\ m'.sChip = u.sChip /\ m'.vt = u.vt /\ m'.pt = u.pt
                /\ m'.psum = u.psum /\ m'.p = u.p /\ m'.c = u.c /\ m'.ctx = u.ctx
      BY <1>a, <2>4, <2>5, Spoiled_s8
    <3> QED
      BY <2>2, <2>4, <3>1, <3>2
  <2>6. CASE m' = Ending(Job("s8", h, 1), u)
    <3>1. m.q = u.q
      BY <2>4 DEF Product
    <3>2. /\ m' \in Matrices /\ m'.s[0] = u.s[0] /\ m'.q = u.q /\ m'.q_sh = u.q_sh
             /\ m'.st = u.st /\ m'.sChip = u.sChip /\ m'.vt = u.vt /\ m'.pt = u.pt
                /\ m'.psum = u.psum /\ m'.p = u.p /\ m'.c = u.c /\ m'.ctx = u.ctx
          /\ m'.s[1] = u.q
      BY <1>a, <2>4, <2>6, Ended_s8
    <3> QED
      BY <2>2, <2>4, <3>1, <3>2
  <2> QED
    BY <2>3, <2>5, <2>6
<1>c. /\ apc = "s_hi" /\ apc' = "v" /\ h' = h /\ f' = f
      /\ ((pend' = Job("s8", h, 1) /\ blk' = "run") \/ (pend' = NoJob /\ blk' = "ok"))
  BY DEF SplitJob, gemm_i32_start, Issue, Local, Go
<1>1. ADrv' /\ AFlags'
  BY <1>a, <1>b, HeadsAssumption DEF AttInv, ADrv, AFlags, JobInv, PathInv, SplitJob, Flags,
     Next1, ThisJob, Job, Prep, NoJob, Slot, CSlot, SmxPCs, AlonePCs, PipePCs, SplitPCs,
     gemm_i32_start, Go, Local, More, Good, Issue
<1>2. VtInv' /\ ScoresInv'
  BY <1>a DEF VtInv, ScoresInv, SplitJob, Go
<1>3. PathInv' /\ JobInv'
  BY DEF AttInv, PathInv, JobInv, SplitJob, SmxPCs, AlonePCs, PipePCs, SplitPCs, ThisJob,
     gemm_i32_start, Go, Local, Issue
<1>4. ExpInv'
  BY DEF ExpInv, SplitJob, Go
<1>5. ProductInv'
  BY DEF ProductInv, SplitJob, Go
<1>6. SplitInv'
  <2>1. SplitInv /\ apc \in SplitPCs /\ apc' \in SplitPCs
    BY <1>c DEF AttInv, SplitPCs
  <2>2. m.q = h /\ m.q_sh = h
    BY <1>a, <1>c, <2>1 DEF SplitInv
  <2>3. m.q = h
    BY <2>2 DEF Product, Same, POf
  <2>4. Ended' => m'.s[1] = h
    BY <1>b, <1>c, <2>3 DEF Ended, Job, NoJob
  <2> QED
    BY <1>b, <1>c, <2>2, <2>3, <2>4 DEF SplitInv, POf
<1>7. CtxInv'
  <2>1. \A d \in HeadNo : d < h => m.ctx[d] = d
    BY <1>c DEF AttInv, CtxInv
  <2>2. m'.ctx = m.ctx
    BY <1>b
  <2> QED
    BY <1>c, <2>1, <2>2 DEF CtxInv
<1>8. AMats'
  BY <1>b DEF AMats
<1> QED
  BY <1>1, <1>2, <1>3, <1>4, <1>5, <1>6, <1>7, <1>8 DEF AttInv

LEMMA Kept_SplitJob_s_lo ==
  ASSUME AttInv, SplitJob("s_lo", "s8", 0, "s_end")
  PROVE  AttInv'
<1>a. /\ h \in HeadNo /\ h \in Nat /\ m \in Matrices /\ f \in Flags /\ AFlags
      /\ 0 \in 0..1 /\ 1 \in 0..1 /\ f.path = "split"
  <2>1. apc \in SplitPCs /\ f.path = "split"
    BY DEF AttInv, PathInv, AFlags, Flags, SplitJob, SmxPCs, AlonePCs, PipePCs, SplitPCs
  <2> QED
    BY <2>1, Places DEF AttInv, SplitPCs
<1>b. /\ m'.q = m.q /\ m'.q_sh = m.q_sh /\ m'.st = m.st /\ m'.sChip = m.sChip /\ m'.vt = m.vt
         /\ m'.pt = m.pt /\ m'.psum = m.psum /\ m'.p = m.p /\ m'.c = m.c /\ m'.ctx = m.ctx
      /\ m'.s[1] = IF Good THEN m.s[1] ELSE m.q
      /\ pend' = NoJob => m'.s[0] = m.q
      /\ m' \in Matrices
  <2>1. ThisJob(Job("s8", h, 1))
    BY DEF AttInv, JobInv, SplitJob
  <2>2. /\ Settled \in Matrices /\ Settled.q = m.q /\ Settled.q_sh = m.q_sh /\ Settled.st = m.st
           /\ Settled.sChip = m.sChip /\ Settled.vt = m.vt /\ Settled.pt = m.pt
              /\ Settled.psum = m.psum /\ Settled.p = m.p /\ Settled.c = m.c
                 /\ Settled.ctx = m.ctx
        /\ Settled.s[1] = (IF Good THEN m.s[1] ELSE m.q)
    BY <1>a, <2>1, Settled_s8
  <2> DEFINE u == Settled
  <2>3. \/ m' = Spoiled(Job("s8", h, 0), u) /\ pend' = Job("s8", h, 0)
        \/ m' = Ending(Job("s8", h, 0), u)
    BY DEF SplitJob, gemm_i32_start, Issue
  <2>4. /\ u \in Matrices /\ u.q = m.q /\ u.q_sh = m.q_sh /\ u.st = m.st /\ u.sChip = m.sChip
           /\ u.vt = m.vt /\ u.pt = m.pt /\ u.psum = m.psum /\ u.p = m.p /\ u.c = m.c
              /\ u.ctx = m.ctx
        /\ u.s[1] = Settled.s[1]
    BY <2>2
  <2> HIDE DEF u
  <2>5. CASE m' = Spoiled(Job("s8", h, 0), u) /\ pend' = Job("s8", h, 0)
    <3>1. pend' # NoJob
      BY <2>5 DEF Job, NoJob
    <3>2. /\ m' \in Matrices /\ m'.s[1] = u.s[1] /\ m'.q = u.q /\ m'.q_sh = u.q_sh
             /\ m'.st = u.st /\ m'.sChip = u.sChip /\ m'.vt = u.vt /\ m'.pt = u.pt
                /\ m'.psum = u.psum /\ m'.p = u.p /\ m'.c = u.c /\ m'.ctx = u.ctx
      BY <1>a, <2>4, <2>5, Spoiled_s8
    <3> QED
      BY <2>2, <2>4, <3>1, <3>2
  <2>6. CASE m' = Ending(Job("s8", h, 0), u)
    <3>1. m.q = u.q
      BY <2>4 DEF Product
    <3>2. /\ m' \in Matrices /\ m'.s[1] = u.s[1] /\ m'.q = u.q /\ m'.q_sh = u.q_sh
             /\ m'.st = u.st /\ m'.sChip = u.sChip /\ m'.vt = u.vt /\ m'.pt = u.pt
                /\ m'.psum = u.psum /\ m'.p = u.p /\ m'.c = u.c /\ m'.ctx = u.ctx
          /\ m'.s[0] = u.q
      BY <1>a, <2>4, <2>6, Ended_s8
    <3> QED
      BY <2>2, <2>4, <3>1, <3>2
  <2> QED
    BY <2>3, <2>5, <2>6
<1>c. /\ apc = "s_lo" /\ apc' = "s_end" /\ h' = h /\ f' = f
      /\ ((pend' = Job("s8", h, 0) /\ blk' = "run") \/ (pend' = NoJob /\ blk' = "ok"))
  BY DEF SplitJob, gemm_i32_start, Issue, Local, Go
<1>1. VtInv' /\ ScoresInv' /\ ExpInv' /\ ProductInv' /\ CtxInv'
  BY <1>a, <1>b DEF AttInv, VtInv, ScoresInv, ExpInv, ProductInv, CtxInv, SplitJob, Go
<1>2. ADrv' /\ AFlags'
  BY <1>a, <1>b, HeadsAssumption DEF AttInv, ADrv, AFlags, JobInv, PathInv, SplitJob, Flags,
     Next1, ThisJob, Job, Prep, NoJob, Slot, CSlot, SmxPCs, AlonePCs, PipePCs, SplitPCs,
     gemm_i32_start, Go, Local, More, Good, Issue
<1>3. PathInv' /\ JobInv'
  BY DEF AttInv, PathInv, JobInv, SplitJob, SmxPCs, AlonePCs, PipePCs, SplitPCs, ThisJob,
     gemm_i32_start, Go, Local, Issue
<1>4. SplitInv'
  <2>1. SplitInv /\ apc \in SplitPCs /\ apc' \in SplitPCs
    BY <1>c DEF AttInv, SplitPCs
  <2>2. m.q = h /\ m.q_sh = h /\ m.vt[0] = h /\ m.vt[1] = h
    BY <1>a, <1>c, <2>1 DEF SplitInv
  <2>3. m.q = h
    BY <2>2 DEF Product, Same, POf
  <2>4. Ended' => m'.s[0] = h
    BY <1>b, <1>c, <2>3 DEF Ended, Job, NoJob
  <2>5. m'.s[1] = h
    BY <1>a, <1>b, <1>c, <2>1, <2>3 DEF SplitInv, Ended, Good
  <2> QED
    BY <1>b, <1>c, <2>2, <2>3, <2>4, <2>5 DEF SplitInv, POf
<1>5. AMats'
  BY <1>b DEF AMats
<1> QED
  BY <1>1, <1>2, <1>3, <1>4, <1>5 DEF AttInv

LEMMA Kept_SplitJob_c_hi ==
  ASSUME AttInv, SplitJob("c_hi", "c8", 1, "c_lo")
  PROVE  AttInv'
<1>a. /\ h \in HeadNo /\ h \in Nat /\ m \in Matrices /\ f \in Flags /\ AFlags
      /\ 0 \in 0..1 /\ 1 \in 0..1 /\ f.path = "split"
  <2>1. apc \in SplitPCs /\ f.path = "split"
    BY DEF AttInv, PathInv, AFlags, Flags, SplitJob, SmxPCs, AlonePCs, PipePCs, SplitPCs
  <2> QED
    BY <2>1, Places DEF AttInv, SplitPCs
<1>b. /\ m'.q = m.q /\ m'.q_sh = m.q_sh /\ m'.s = m.s /\ m'.st = m.st /\ m'.sChip = m.sChip
         /\ m'.vt = m.vt /\ m'.pt = m.pt /\ m'.psum = m.psum /\ m'.p = m.p /\ m'.ctx = m.ctx
      /\ m'.c[0] = m.c[0]
      /\ pend' = NoJob => m'.c[1] = Product(1, m)
      /\ m' \in Matrices
  <2>1. pend = NoJob
    BY DEF AttInv, JobInv, SplitJob
  <2>2. /\ Settled \in Matrices /\ Settled.q = m.q /\ Settled.q_sh = m.q_sh /\ Settled.s = m.s
           /\ Settled.st = m.st /\ Settled.sChip = m.sChip /\ Settled.vt = m.vt
              /\ Settled.pt = m.pt /\ Settled.psum = m.psum /\ Settled.p = m.p
                 /\ Settled.ctx = m.ctx
        /\ Settled.c[0] = m.c[0]
    BY <1>a, <2>1 DEF Settled, Good
  <2> DEFINE u == Settled
  <2>3. \/ m' = Spoiled(Job("c8", h, 1), u) /\ pend' = Job("c8", h, 1)
        \/ m' = Ending(Job("c8", h, 1), u)
    BY DEF SplitJob, gemm_i32_start, Issue
  <2>4. /\ u \in Matrices /\ u.q = m.q /\ u.q_sh = m.q_sh /\ u.s = m.s /\ u.st = m.st
           /\ u.sChip = m.sChip /\ u.vt = m.vt /\ u.pt = m.pt /\ u.psum = m.psum /\ u.p = m.p
              /\ u.ctx = m.ctx
        /\ u.c[0] = Settled.c[0]
    BY <2>2
  <2> HIDE DEF u
  <2>5. CASE m' = Spoiled(Job("c8", h, 1), u) /\ pend' = Job("c8", h, 1)
    <3>1. pend' # NoJob
      BY <2>5 DEF Job, NoJob
    <3>2. /\ m' \in Matrices /\ m'.c[0] = u.c[0] /\ m'.q = u.q /\ m'.q_sh = u.q_sh /\ m'.s = u.s
             /\ m'.st = u.st /\ m'.sChip = u.sChip /\ m'.vt = u.vt /\ m'.pt = u.pt
                /\ m'.psum = u.psum /\ m'.p = u.p /\ m'.ctx = u.ctx
      BY <1>a, <2>4, <2>5, Spoiled_c8
    <3> QED
      BY <2>2, <2>4, <3>1, <3>2
  <2>6. CASE m' = Ending(Job("c8", h, 1), u)
    <3>1. Product(1, m) = Product(1, u)
      BY <2>4 DEF Product
    <3>2. /\ m' \in Matrices /\ m'.c[0] = u.c[0] /\ m'.q = u.q /\ m'.q_sh = u.q_sh /\ m'.s = u.s
             /\ m'.st = u.st /\ m'.sChip = u.sChip /\ m'.vt = u.vt /\ m'.pt = u.pt
                /\ m'.psum = u.psum /\ m'.p = u.p /\ m'.ctx = u.ctx
          /\ m'.c[1] = Product(1, u)
      BY <1>a, <2>4, <2>6, Ended_c8
    <3> QED
      BY <2>2, <2>4, <3>1, <3>2
  <2> QED
    BY <2>3, <2>5, <2>6
<1>c. /\ apc = "c_hi" /\ apc' = "c_lo" /\ h' = h /\ f' = f
      /\ ((pend' = Job("c8", h, 1) /\ blk' = "run") \/ (pend' = NoJob /\ blk' = "ok"))
  BY DEF SplitJob, gemm_i32_start, Issue, Local, Go
<1>1. ADrv' /\ AFlags'
  BY <1>a, <1>b, HeadsAssumption DEF AttInv, ADrv, AFlags, JobInv, PathInv, SplitJob, Flags,
     Next1, ThisJob, Job, Prep, NoJob, Slot, CSlot, SmxPCs, AlonePCs, PipePCs, SplitPCs,
     gemm_i32_start, Go, Local, More, Good, Issue
<1>2. VtInv' /\ ScoresInv'
  BY <1>a DEF VtInv, ScoresInv, SplitJob, Go
<1>3. PathInv' /\ JobInv'
  BY DEF AttInv, PathInv, JobInv, SplitJob, SmxPCs, AlonePCs, PipePCs, SplitPCs, ThisJob,
     gemm_i32_start, Go, Local, Issue
<1>4. ExpInv'
  BY DEF ExpInv, SplitJob, Go
<1>5. ProductInv'
  BY DEF ProductInv, SplitJob, Go
<1>6. SplitInv'
  <2>1. SplitInv /\ apc \in SplitPCs /\ apc' \in SplitPCs
    BY <1>c DEF AttInv, SplitPCs
  <2>2. m.q = h /\ m.q_sh = h /\ m.vt[0] = h /\ m.vt[1] = h /\ POf(h)
    BY <1>a, <1>c, <2>1 DEF SplitInv
  <2>3. Product(0, m) = h /\ Product(1, m) = h
    BY <2>2 DEF Product, Same, POf
  <2>4. Ended' => m'.c[1] = h
    BY <1>b, <1>c, <2>3 DEF Ended, Job, NoJob
  <2> QED
    BY <1>b, <1>c, <2>2, <2>3, <2>4 DEF SplitInv, POf
<1>7. CtxInv'
  <2>1. \A d \in HeadNo : d < h => m.ctx[d] = d
    BY <1>c DEF AttInv, CtxInv
  <2>2. m'.ctx = m.ctx
    BY <1>b
  <2> QED
    BY <1>c, <2>1, <2>2 DEF CtxInv
<1>8. AMats'
  BY <1>b DEF AMats
<1> QED
  BY <1>1, <1>2, <1>3, <1>4, <1>5, <1>6, <1>7, <1>8 DEF AttInv

LEMMA Kept_SplitJob_c_lo ==
  ASSUME AttInv, SplitJob("c_lo", "c8", 0, "qk")
  PROVE  AttInv'
<1>a. /\ h \in HeadNo /\ h \in Nat /\ m \in Matrices /\ f \in Flags /\ AFlags
      /\ 0 \in 0..1 /\ 1 \in 0..1 /\ f.path = "split"
  <2>1. apc \in SplitPCs /\ f.path = "split"
    BY DEF AttInv, PathInv, AFlags, Flags, SplitJob, SmxPCs, AlonePCs, PipePCs, SplitPCs
  <2> QED
    BY <2>1, Places DEF AttInv, SplitPCs
<1>b. /\ m'.q = m.q /\ m'.q_sh = m.q_sh /\ m'.s = m.s /\ m'.st = m.st /\ m'.sChip = m.sChip
         /\ m'.vt = m.vt /\ m'.pt = m.pt /\ m'.psum = m.psum /\ m'.p = m.p /\ m'.ctx = m.ctx
      /\ m'.c[1] = IF Good THEN m.c[1] ELSE Product(1, m)
      /\ pend' = NoJob => m'.c[0] = Product(0, m)
      /\ m' \in Matrices
  <2>1. ThisJob(Job("c8", h, 1))
    BY DEF AttInv, JobInv, SplitJob
  <2>2. /\ Settled \in Matrices /\ Settled.q = m.q /\ Settled.q_sh = m.q_sh /\ Settled.s = m.s
           /\ Settled.st = m.st /\ Settled.sChip = m.sChip /\ Settled.vt = m.vt
              /\ Settled.pt = m.pt /\ Settled.psum = m.psum /\ Settled.p = m.p
                 /\ Settled.ctx = m.ctx
        /\ Settled.c[1] = (IF Good THEN m.c[1] ELSE Product(1, m))
    BY <1>a, <2>1, Settled_c8
  <2> DEFINE u == Settled
  <2>3. \/ m' = Spoiled(Job("c8", h, 0), u) /\ pend' = Job("c8", h, 0)
        \/ m' = Ending(Job("c8", h, 0), u)
    BY DEF SplitJob, gemm_i32_start, Issue
  <2>4. /\ u \in Matrices /\ u.q = m.q /\ u.q_sh = m.q_sh /\ u.s = m.s /\ u.st = m.st
           /\ u.sChip = m.sChip /\ u.vt = m.vt /\ u.pt = m.pt /\ u.psum = m.psum /\ u.p = m.p
              /\ u.ctx = m.ctx
        /\ u.c[1] = Settled.c[1]
    BY <2>2
  <2> HIDE DEF u
  <2>5. CASE m' = Spoiled(Job("c8", h, 0), u) /\ pend' = Job("c8", h, 0)
    <3>1. pend' # NoJob
      BY <2>5 DEF Job, NoJob
    <3>2. /\ m' \in Matrices /\ m'.c[1] = u.c[1] /\ m'.q = u.q /\ m'.q_sh = u.q_sh /\ m'.s = u.s
             /\ m'.st = u.st /\ m'.sChip = u.sChip /\ m'.vt = u.vt /\ m'.pt = u.pt
                /\ m'.psum = u.psum /\ m'.p = u.p /\ m'.ctx = u.ctx
      BY <1>a, <2>4, <2>5, Spoiled_c8
    <3> QED
      BY <2>2, <2>4, <3>1, <3>2
  <2>6. CASE m' = Ending(Job("c8", h, 0), u)
    <3>1. Product(0, m) = Product(0, u)
      BY <2>4 DEF Product
    <3>2. /\ m' \in Matrices /\ m'.c[1] = u.c[1] /\ m'.q = u.q /\ m'.q_sh = u.q_sh /\ m'.s = u.s
             /\ m'.st = u.st /\ m'.sChip = u.sChip /\ m'.vt = u.vt /\ m'.pt = u.pt
                /\ m'.psum = u.psum /\ m'.p = u.p /\ m'.ctx = u.ctx
          /\ m'.c[0] = Product(0, u)
      BY <1>a, <2>4, <2>6, Ended_c8
    <3> QED
      BY <2>2, <2>4, <3>1, <3>2
  <2> QED
    BY <2>3, <2>5, <2>6
<1>c. /\ apc = "c_lo" /\ apc' = "qk" /\ h' = h /\ f' = f
      /\ ((pend' = Job("c8", h, 0) /\ blk' = "run") \/ (pend' = NoJob /\ blk' = "ok"))
  BY DEF SplitJob, gemm_i32_start, Issue, Local, Go
<1>1. VtInv' /\ ScoresInv' /\ ExpInv' /\ ProductInv' /\ CtxInv'
  BY <1>a, <1>b DEF AttInv, VtInv, ScoresInv, ExpInv, ProductInv, CtxInv, SplitJob, Go
<1>2. ADrv' /\ AFlags'
  BY <1>a, <1>b, HeadsAssumption DEF AttInv, ADrv, AFlags, JobInv, PathInv, SplitJob, Flags,
     Next1, ThisJob, Job, Prep, NoJob, Slot, CSlot, SmxPCs, AlonePCs, PipePCs, SplitPCs,
     gemm_i32_start, Go, Local, More, Good, Issue
<1>3. PathInv' /\ JobInv'
  BY DEF AttInv, PathInv, JobInv, SplitJob, SmxPCs, AlonePCs, PipePCs, SplitPCs, ThisJob,
     gemm_i32_start, Go, Local, Issue
<1>4. SplitInv'
  <2>1. SplitInv /\ apc \in SplitPCs /\ apc' \in SplitPCs
    BY <1>c DEF AttInv, SplitPCs
  <2>2. m.q = h /\ m.q_sh = h /\ m.vt[0] = h /\ m.vt[1] = h /\ POf(h)
    BY <1>a, <1>c, <2>1 DEF SplitInv
  <2>3. Product(0, m) = h /\ Product(1, m) = h
    BY <2>2 DEF Product, Same, POf
  <2>4. Ended' => m'.c[0] = h
    BY <1>b, <1>c, <2>3 DEF Ended, Job, NoJob
  <2>5. m'.c[1] = h
    BY <1>a, <1>b, <1>c, <2>1, <2>3 DEF SplitInv, Ended, Good
  <2> QED
    BY <1>b, <1>c, <2>2, <2>3, <2>4, <2>5 DEF SplitInv, POf
<1>5. AMats'
  BY <1>b DEF AMats
<1> QED
  BY <1>1, <1>2, <1>3, <1>4, <1>5 DEF AttInv

LEMMA Kept_JobFails ==
  ASSUME AttInv, JobFails
  PROVE  AttInv'
<1>a. m \in Matrices /\ f \in Flags
  BY DEF AttInv, AMats, AFlags
<1>b. m' = m
  BY DEF JobFails
<1>1. ADrv' /\ AFlags' /\ AMats' /\ PathInv' /\ JobInv'
  BY DEF AttInv, ADrv, AFlags, AMats, PathInv, JobInv, JobFails, Next1, ThisJob, Prep, Slot,
     CSlot, Ended, More, Softmaxable, POf
<1>2. VtInv' /\ ScoresInv' /\ ExpInv'
  BY DEF AttInv, ADrv, PathInv, JobInv, VtInv, ScoresInv, ExpInv, JobFails, Next1, ThisJob, Prep,
     Slot, CSlot, Ended, More, Softmaxable, POf
<1>3. ProductInv' /\ CtxInv' /\ SplitInv'
  BY DEF AttInv, ADrv, PathInv, JobInv, ProductInv, CtxInv, SplitInv, JobFails, Next1, ThisJob,
     Prep, Slot, CSlot, Ended, More, Softmaxable, POf
<1> QED
  BY <1>1, <1>2, <1>3 DEF AttInv

LEMMA Kept_JobEnd_Scores ==
  ASSUME AttInv, JobEnd, apc \in {"norm_lo", "s_fin"}
  PROVE  AttInv'
<1>a. /\ h \in HeadNo /\ h \in Nat /\ Par(h) \in 0..1 /\ Par(h + 1) = 1 - Par(h)
      /\ CSlot \in 0..1 /\ Slot \in 0..1 /\ m \in Matrices /\ f \in Flags /\ AFlags
      /\ f.path = "pipe" => Slot = Par(Prep) /\ CSlot = Par(h)
      /\ Prep = IF f.path = "pipe" /\ ~f.prime THEN h + 1 ELSE h
      /\ (IF f.c_cr THEN 1 ELSE 0) \in 0..1 /\ 0 \in 0..1 /\ 1 \in 0..1
      /\ Prep \in HeadNo /\ Prep \in Nat /\ Par(Prep) \in 0..1
      /\ Next1 /\ pend = Job(IF f.s_cr THEN "s_chip" ELSE "s", Prep, 0)
  <2>1. /\ Next1 /\ pend = Job(IF f.s_cr THEN "s_chip" ELSE "s", Prep, 0)
    BY DEF AttInv, JobInv, JobEnd, ThisJob
  <2> QED
    BY <2>1, Places DEF AttInv, JobEnd
<1>b. /\ m'.q = m.q /\ m'.q_sh = m.q_sh /\ m'.vt = m.vt /\ m'.pt = m.pt /\ m'.psum = m.psum
         /\ m'.p = m.p /\ m'.c = m.c /\ m'.ctx = m.ctx
      /\ \A k \in 0..1 : k # Par(Prep) => m'.s[k] = m.s[k] /\ m'.st[k] = m.st[k]
      /\ (IF f.s_cr THEN m'.sChip ELSE m'.s[Par(Prep)]) = Q(Prep, m)
         /\ m'.st[Par(Prep)] = Q(Prep, m)
      /\ m' \in Matrices
  <2>1. CASE f.s_cr
    <3>1. m' = ScoresChip(Prep, m)
      <4>1. m' = Ending(Job("s_chip", Prep, 0), m)
        BY <1>a, <2>1 DEF JobEnd
      <4> QED
        BY <1>a, <4>1, EndingIs
    <3> QED
      BY <1>a, <2>1, <3>1, ScoresChipMade
  <2>2. CASE ~f.s_cr
    <3>1. m' = Scores(Prep, m)
      <4>1. m' = Ending(Job("s", Prep, 0), m)
        BY <1>a, <2>2 DEF JobEnd
      <4> QED
        BY <1>a, <4>1, EndingIs
    <3> QED
      BY <1>a, <2>2, <3>1, ScoresMade
  <2> QED
    BY <2>1, <2>2
<1>c. /\ apc \in {"norm_lo", "s_fin"}
      /\ apc' = apc /\ h' = h /\ f' = f /\ pend' = pend
      /\ blk = "run" /\ blk' = "ok" /\ pend # NoJob
  BY <1>a DEF JobEnd, Local, Go, Flags, Job, NoJob
<1>e. f.path = "pipe" /\ ~f.prime => Prep = h + 1 /\ Par(Prep) = 1 - Par(h) /\ (Next1 <=> More)
  BY <1>a DEF Prep, Next1
<1>f. Par(h) # 1 - Par(h)
  BY <1>a
<1>1. ADrv' /\ AFlags' /\ AMats' /\ PathInv' /\ JobInv'
  BY <1>b DEF AttInv, ADrv, AFlags, AMats, PathInv, JobInv, JobEnd, Next1, ThisJob, Prep, More
<1>2. ProductInv' /\ CtxInv' /\ SplitInv'
  BY <1>b DEF AttInv, ProductInv, CtxInv, SplitInv, JobEnd
<1>3. VtInv'
  BY <1>b DEF AttInv, VtInv, JobInv, JobEnd, Slot, Prep
<1>4. ScoresInv'
  BY <1>b, <1>c DEF AttInv, ScoresInv, JobInv, Q, Prep
<1>5. ExpInv'
  <2>1. f.path = "pipe" /\ ~f.prime =>
          m'.s[Par(h)] = m.s[Par(h)] /\ m'.st[Par(h)] = m.st[Par(h)]
    BY <1>a, <1>b, <1>e, <1>f
  <2>2. f.path = "pipe" /\ ~f.prime => Softmaxable(h, Par(h), f.exp_ok, TRUE)
    BY <1>c DEF AttInv, ExpInv
  <2>3. f.path = "pipe" /\ ~f.prime => Softmaxable(h, Par(h), f.exp_ok, TRUE)'
    BY <1>b, <1>c, <2>1, <2>2 DEF Softmaxable
  <2> QED
    BY <1>c, <2>3 DEF ExpInv
<1> QED
  BY <1>1, <1>2, <1>3, <1>4, <1>5 DEF AttInv

LEMMA Kept_JobEnd_Exp ==
  ASSUME AttInv, JobEnd, apc \in {"norm_hi", "e_fin"}
  PROVE  AttInv'
<1>a. /\ h \in HeadNo /\ h \in Nat /\ Par(h) \in 0..1 /\ Par(h + 1) = 1 - Par(h)
      /\ CSlot \in 0..1 /\ Slot \in 0..1 /\ m \in Matrices /\ f \in Flags /\ AFlags
      /\ f.path = "pipe" => Slot = Par(Prep) /\ CSlot = Par(h)
      /\ Prep = IF f.path = "pipe" /\ ~f.prime THEN h + 1 ELSE h
      /\ (IF f.c_cr THEN 1 ELSE 0) \in 0..1 /\ 0 \in 0..1 /\ 1 \in 0..1
      /\ Prep \in HeadNo /\ Prep \in Nat /\ Par(Prep) \in 0..1
      /\ Next1 /\ f.exp_next /\ pend = Job("exp", Prep, Slot)
  <2>1. /\ Next1 /\ f.exp_next /\ pend = Job("exp", Prep, Slot)
    BY DEF AttInv, JobInv, JobEnd, ThisJob
  <2> QED
    BY <2>1, Places DEF AttInv, JobEnd
<1>b. /\ m'.q = m.q /\ m'.q_sh = m.q_sh /\ m'.s = m.s /\ m'.st = m.st /\ m'.sChip = m.sChip
         /\ m'.vt = m.vt /\ m'.psum = m.psum /\ m'.p = m.p /\ m'.c = m.c /\ m'.ctx = m.ctx
      /\ m'.pt[Slot] = Same(IF f.s_cr THEN m.sChip ELSE m.s[Par(Prep)], m.st[Par(Prep)])
      /\ \A k \in 0..1 : k # Slot => m'.pt[k] = m.pt[k]
      /\ m' \in Matrices
  <2>1. m \in Matrices /\ Prep \in HeadNo /\ Slot \in 0..1
    BY <1>a
  <2>2. m' = Ending(Job("exp", Prep, Slot), m)
    BY <1>a DEF JobEnd
  <2>3. m' = ExpOf(Prep, Slot, m)
    BY <2>1, <2>2, EndingIs
  <2> QED
    BY <2>1, <2>3, ExpMade
<1>c. /\ apc \in {"norm_hi", "e_fin"}
      /\ apc' = apc /\ h' = h /\ f' = f /\ pend' = pend
      /\ blk = "run" /\ blk' = "ok" /\ pend # NoJob
  BY <1>a DEF JobEnd, Local, Go, Flags, Job, NoJob
<1>e. f.path = "pipe" /\ ~f.prime => Prep = h + 1 /\ Par(Prep) = 1 - Par(h) /\ (Next1 <=> More)
  BY <1>a DEF Prep, Next1
<1>f. Par(h) # 1 - Par(h)
  BY <1>a
<1>1. ADrv' /\ AFlags' /\ AMats' /\ PathInv' /\ JobInv'
  BY <1>b DEF AttInv, ADrv, AFlags, AMats, PathInv, JobInv, JobEnd, Next1, Prep, Slot, More
<1>2. ProductInv' /\ CtxInv' /\ SplitInv'
  BY <1>b DEF AttInv, ProductInv, CtxInv, SplitInv, JobEnd, POf
<1>3. VtInv'
  BY <1>b DEF AttInv, VtInv, JobInv, JobEnd, Slot, Prep
<1>4. ScoresInv'
  BY <1>b, <1>c DEF AttInv, ScoresInv, JobInv, Slot, Prep, Same
<1>5. ExpInv'
  <2>1. f.path = "pipe" /\ ~f.prime => m'.pt[Par(h)] = m.pt[Par(h)]
    BY <1>a, <1>b, <1>e, <1>f
  <2>2. f.path = "pipe" /\ ~f.prime /\ apc = "norm_hi" => Softmaxable(h, Par(h), f.exp_ok, TRUE)
    BY <1>c DEF AttInv, ExpInv
  <2>3. f.path = "pipe" /\ ~f.prime /\ apc = "norm_hi" => Softmaxable(h, Par(h), f.exp_ok, TRUE)'
    BY <1>b, <1>c, <2>1, <2>2 DEF Softmaxable
  <2>4. f.path = "pipe" /\ ~f.prime /\ apc = "e_fin" /\ f.exp_ok => m'.psum = h
    BY <1>b, <1>c DEF AttInv, ExpInv
  <2> QED
    BY <1>c, <2>3, <2>4 DEF ExpInv
<1> QED
  BY <1>1, <1>2, <1>3, <1>4, <1>5 DEF AttInv

LEMMA Kept_JobEnd_Product ==
  ASSUME AttInv, JobEnd, apc \in {"c_fin"}
  PROVE  AttInv'
<1>a. /\ h \in HeadNo /\ h \in Nat /\ Par(h) \in 0..1 /\ Par(h + 1) = 1 - Par(h)
      /\ CSlot \in 0..1 /\ Slot \in 0..1 /\ m \in Matrices /\ f \in Flags /\ AFlags
      /\ f.path = "pipe" => Slot = Par(Prep) /\ CSlot = Par(h)
      /\ Prep = IF f.path = "pipe" /\ ~f.prime THEN h + 1 ELSE h
      /\ (IF f.c_cr THEN 1 ELSE 0) \in 0..1 /\ 0 \in 0..1 /\ 1 \in 0..1
      /\ pend = Job(IF f.c_cr THEN "c_chip" ELSE "c", h, CSlot)
  <2>1. /\ pend = Job(IF f.c_cr THEN "c_chip" ELSE "c", h, CSlot)
    BY DEF AttInv, JobInv, JobEnd, ThisJob
  <2> QED
    BY <2>1, Places DEF AttInv, JobEnd
<1>b. /\ m'.q = m.q /\ m'.q_sh = m.q_sh /\ m'.s = m.s /\ m'.st = m.st /\ m'.sChip = m.sChip
         /\ m'.vt = m.vt /\ m'.pt = m.pt /\ m'.psum = m.psum /\ m'.p = m.p /\ m'.ctx = m.ctx
      /\ m'.c[IF f.c_cr THEN 1 ELSE 0] = Product(CSlot, m)
      /\ m' \in Matrices
  <2>1. m \in Matrices /\ h \in HeadNo /\ CSlot \in 0..1 /\ 1 \in 0..1
    BY <1>a
  <2>2. Product(CSlot, m) \in Heads0
    BY <2>1, ValuesTyped
  <2>3. CASE f.c_cr
    <3>1. m' = Ending(Job("c_chip", h, CSlot), m)
      BY <1>a, <2>3 DEF JobEnd
    <3>2. m' = [m EXCEPT !.c[1] = Product(CSlot, m)]
      BY <2>1, <3>1, EndingIs
    <3> DEFINE v == Product(CSlot, m)
               n == [m EXCEPT !.c[1] = v]
    <3>3. v \in Heads0 /\ m' = n
      BY <2>2, <3>2
    <3> HIDE DEF v
    <3>4. /\ n \in Matrices /\ n.c[1] = v
          /\ n.q = m.q /\ n.q_sh = m.q_sh /\ n.s = m.s /\ n.st = m.st /\ n.sChip = m.sChip
             /\ n.vt = m.vt /\ n.pt = m.pt /\ n.psum = m.psum /\ n.p = m.p /\ n.ctx = m.ctx
      BY <2>1, <3>3, CPut
    <3> HIDE DEF n
    <3> QED
      BY <2>3, <3>3, <3>4 DEF v
  <2>4. CASE ~f.c_cr
    <3>1. m' = Ending(Job("c", h, CSlot), m)
      BY <1>a, <2>4 DEF JobEnd
    <3>2. m' = C_DDR(CSlot, m)
      BY <2>1, <3>1, EndingIs
    <3> QED
      BY <2>1, <2>4, <3>2, CMade
  <2> QED
    BY <2>3, <2>4
<1>c. /\ apc \in {"c_fin"}
      /\ apc' = apc /\ h' = h /\ f' = f /\ pend' = pend
      /\ blk = "run" /\ blk' = "ok" /\ pend # NoJob
  BY <1>a DEF JobEnd, Local, Go, Flags, Job, NoJob
<1>1. ADrv' /\ AFlags' /\ AMats' /\ PathInv' /\ JobInv'
  BY <1>b DEF AttInv, ADrv, AFlags, AMats, PathInv, JobInv, JobEnd, ThisJob, CSlot
<1>2. VtInv' /\ ScoresInv' /\ ExpInv'
  BY <1>b DEF AttInv, VtInv, ScoresInv, ExpInv, JobEnd, Next1, Slot, Prep, More, Softmaxable
<1>3. CtxInv' /\ SplitInv'
  BY <1>b DEF AttInv, CtxInv, SplitInv, JobEnd
<1>4. ProductInv'
  BY <1>b, <1>c DEF AttInv, ProductInv, AFlags, PathInv, VtInv, Product, Flags, CSlot, Slot,
     Prep, POf, SplitPCs, Next1, Same
<1> QED
  BY <1>1, <1>2, <1>3, <1>4 DEF AttInv

LEMMA Kept_JobEnd_Context ==
  ASSUME AttInv, JobEnd, apc \in {"next", "ctx_fin"}
  PROVE  AttInv'
<1>a. /\ h \in HeadNo /\ h \in Nat /\ Par(h) \in 0..1 /\ Par(h + 1) = 1 - Par(h)
      /\ CSlot \in 0..1 /\ Slot \in 0..1 /\ m \in Matrices /\ f \in Flags /\ AFlags
      /\ f.path = "pipe" => Slot = Par(Prep) /\ CSlot = Par(h)
      /\ Prep = IF f.path = "pipe" /\ ~f.prime THEN h + 1 ELSE h
      /\ (IF f.c_cr THEN 1 ELSE 0) \in 0..1 /\ 0 \in 0..1 /\ 1 \in 0..1
      /\ pend = Job("ctx", h, IF f.c_cr THEN 1 ELSE 0)
  <2>1. /\ pend = Job("ctx", h, IF f.c_cr THEN 1 ELSE 0)
    BY DEF AttInv, JobInv, JobEnd, ThisJob
  <2> QED
    BY <2>1, Places DEF AttInv, JobEnd
<1>b. /\ m'.q = m.q /\ m'.q_sh = m.q_sh /\ m'.s = m.s /\ m'.st = m.st /\ m'.sChip = m.sChip
         /\ m'.vt = m.vt /\ m'.pt = m.pt /\ m'.psum = m.psum /\ m'.p = m.p /\ m'.c = m.c
      /\ m'.ctx[h] = Same(m.c[IF f.c_cr THEN 1 ELSE 0], h)
      /\ \A d \in HeadNo : d # h => m'.ctx[d] = m.ctx[d]
      /\ m' \in Matrices
  <2> DEFINE k == IF f.c_cr THEN 1 ELSE 0
             d == h
             v == Same(m.c[k], d)
  <2>1. m \in Matrices /\ d \in HeadNo /\ k \in 0..1 /\ m' = Ending(Job("ctx", d, k), m)
    BY <1>a DEF JobEnd
  <2>2. v \in Heads0
    <3> HIDE DEF d, k
    <3>0. m \in Matrices /\ d \in HeadNo /\ k \in 0..1
      BY <2>1
    <3>1. m.c[k] \in Heads0
      BY <3>0 DEF Matrices
    <3>2. d \in Heads0
      BY <3>0, ValuesTyped
    <3> QED
      BY <3>1, <3>2, SameTyped
  <2> HIDE DEF k, d
  <2>3. m' = [m EXCEPT !.ctx[d] = v]
    BY <2>1, EndingIs
  <2> DEFINE n == [m EXCEPT !.ctx[d] = v]
  <2> HIDE DEF v
  <2>5. m \in Matrices /\ d \in HeadNo
    BY <2>1
  <2>6. /\ n \in Matrices /\ n.ctx[d] = v /\ \A x \in HeadNo : x # d => n.ctx[x] = m.ctx[x]
        /\ n.q = m.q /\ n.q_sh = m.q_sh /\ n.s = m.s /\ n.st = m.st /\ n.sChip = m.sChip
           /\ n.vt = m.vt /\ n.pt = m.pt /\ n.psum = m.psum /\ n.p = m.p /\ n.c = m.c
    BY <2>2, <2>5, CtxPut
  <2> HIDE DEF n
  <2>4. /\ m' \in Matrices /\ m'.ctx[d] = v /\ \A x \in HeadNo : x # d => m'.ctx[x] = m.ctx[x]
        /\ m'.q = m.q /\ m'.q_sh = m.q_sh /\ m'.s = m.s /\ m'.st = m.st /\ m'.sChip = m.sChip
           /\ m'.vt = m.vt /\ m'.pt = m.pt /\ m'.psum = m.psum /\ m'.p = m.p /\ m'.c = m.c
    BY <2>3, <2>6 DEF n
  <2> QED
    BY <2>4 DEF v, d, k
<1>c. /\ apc \in {"next", "ctx_fin"}
      /\ apc' = apc /\ h' = h /\ f' = f /\ pend' = pend
      /\ blk = "run" /\ blk' = "ok" /\ pend # NoJob
  BY <1>a DEF JobEnd, Local, Go, Flags, Job, NoJob
<1>1. ADrv' /\ AFlags'
  BY DEF AttInv, ADrv, AFlags, JobEnd
<1>2. VtInv' /\ ScoresInv' /\ ExpInv'
  BY <1>b DEF AttInv, VtInv, ScoresInv, ExpInv, JobEnd, Next1, Slot, Prep, More, Softmaxable
<1>3. PathInv' /\ JobInv'
  BY DEF AttInv, PathInv, JobInv, JobEnd, ThisJob
<1>4. ProductInv'
  BY <1>b DEF AttInv, ProductInv, JobEnd, POf
<1>5. SplitInv'
  BY DEF SplitInv, JobEnd
<1>6. CtxInv'
  BY <1>b, <1>c DEF AttInv, CtxInv, ProductInv, Same
<1>7. AMats'
  BY <1>b DEF AMats
<1> QED
  BY <1>1, <1>2, <1>3, <1>4, <1>5, <1>6, <1>7 DEF AttInv

LEMMA Kept_JobEnd_LoopContext ==
  ASSUME AttInv, JobEnd, apc \in {"loop"}
  PROVE  AttInv'
<1>a. /\ h \in Nat /\ m \in Matrices /\ f \in Flags /\ AFlags /\ ~f.prime
      /\ h - 1 \in HeadNo /\ h - 1 \in Nat /\ (IF f.c_cr THEN 1 ELSE 0) \in 0..1
      /\ pend = Job("ctx", h - 1, IF f.c_cr THEN 1 ELSE 0)
  <2>1. ~f.prime /\ pend = Job("ctx", h - 1, IF f.c_cr THEN 1 ELSE 0)
    BY DEF AttInv, JobInv, JobEnd, ThisJob
  <2>2. h \in Nat /\ h - 1 \in HeadNo /\ h - 1 \in Nat
    BY <2>1, HeadsAssumption DEF AttInv, PathInv, HeadNo
  <2> QED
    BY <2>1, <2>2 DEF AttInv, AMats, AFlags
<1>b. /\ m'.q = m.q /\ m'.q_sh = m.q_sh /\ m'.s = m.s /\ m'.st = m.st /\ m'.sChip = m.sChip
         /\ m'.vt = m.vt /\ m'.pt = m.pt /\ m'.psum = m.psum /\ m'.p = m.p /\ m'.c = m.c
      /\ m'.ctx[h - 1] = Same(m.c[IF f.c_cr THEN 1 ELSE 0], h - 1)
      /\ \A d \in HeadNo : d # h - 1 => m'.ctx[d] = m.ctx[d]
      /\ m' \in Matrices
  <2> DEFINE k == IF f.c_cr THEN 1 ELSE 0
             d == h - 1
             v == Same(m.c[k], d)
  <2>1. m \in Matrices /\ d \in HeadNo /\ k \in 0..1 /\ m' = Ending(Job("ctx", d, k), m)
    BY <1>a DEF JobEnd
  <2>2. v \in Heads0
    <3> HIDE DEF d, k
    <3>0. m \in Matrices /\ d \in HeadNo /\ k \in 0..1
      BY <2>1
    <3>1. m.c[k] \in Heads0
      BY <3>0 DEF Matrices
    <3>2. d \in Heads0
      BY <3>0, ValuesTyped
    <3> QED
      BY <3>1, <3>2, SameTyped
  <2> HIDE DEF k, d
  <2>3. m' = [m EXCEPT !.ctx[d] = v]
    BY <2>1, EndingIs
  <2> DEFINE n == [m EXCEPT !.ctx[d] = v]
  <2> HIDE DEF v
  <2>5. m \in Matrices /\ d \in HeadNo
    BY <2>1
  <2>6. /\ n \in Matrices /\ n.ctx[d] = v /\ \A x \in HeadNo : x # d => n.ctx[x] = m.ctx[x]
        /\ n.q = m.q /\ n.q_sh = m.q_sh /\ n.s = m.s /\ n.st = m.st /\ n.sChip = m.sChip
           /\ n.vt = m.vt /\ n.pt = m.pt /\ n.psum = m.psum /\ n.p = m.p /\ n.c = m.c
    BY <2>2, <2>5, CtxPut
  <2> HIDE DEF n
  <2>4. /\ m' \in Matrices /\ m'.ctx[d] = v /\ \A x \in HeadNo : x # d => m'.ctx[x] = m.ctx[x]
        /\ m'.q = m.q /\ m'.q_sh = m.q_sh /\ m'.s = m.s /\ m'.st = m.st /\ m'.sChip = m.sChip
           /\ m'.vt = m.vt /\ m'.pt = m.pt /\ m'.psum = m.psum /\ m'.p = m.p /\ m'.c = m.c
    BY <2>3, <2>6 DEF n
  <2> QED
    BY <2>4 DEF v, d, k
<1>c. /\ apc \in {"loop"}
      /\ apc' = apc /\ h' = h /\ f' = f /\ pend' = pend
      /\ blk = "run" /\ blk' = "ok" /\ pend # NoJob
  BY <1>a DEF JobEnd, Local, Go, Flags, Job, NoJob
<1>1. ADrv' /\ AFlags'
  BY DEF AttInv, ADrv, AFlags, JobEnd
<1>2. VtInv' /\ ScoresInv' /\ ExpInv'
  BY <1>b DEF AttInv, VtInv, ScoresInv, ExpInv, JobEnd, Softmaxable
<1>3. PathInv' /\ JobInv'
  BY DEF AttInv, PathInv, JobInv, JobEnd, ThisJob
<1>4. ProductInv'
  BY <1>b DEF AttInv, ProductInv, JobEnd, POf
<1>5. SplitInv'
  BY DEF SplitInv, JobEnd
<1>6. CtxInv'
  BY <1>b, <1>c DEF AttInv, CtxInv, ProductInv, Same
<1>7. AMats'
  BY <1>b DEF AMats
<1> QED
  BY <1>1, <1>2, <1>3, <1>4, <1>5, <1>6, <1>7 DEF AttInv

LEMMA Kept_JobEnd_ScoresHi ==
  ASSUME AttInv, JobEnd, apc \in {"v", "s_lo"}
  PROVE  AttInv'
<1>a. /\ h \in HeadNo /\ h \in Nat /\ Par(h) \in 0..1 /\ Par(h + 1) = 1 - Par(h)
      /\ CSlot \in 0..1 /\ Slot \in 0..1 /\ m \in Matrices /\ f \in Flags /\ AFlags
      /\ f.path = "pipe" => Slot = Par(Prep) /\ CSlot = Par(h)
      /\ Prep = IF f.path = "pipe" /\ ~f.prime THEN h + 1 ELSE h
      /\ (IF f.c_cr THEN 1 ELSE 0) \in 0..1 /\ 0 \in 0..1 /\ 1 \in 0..1
      /\ pend = Job("s8", h, 1) /\ f.path = "split" /\ apc \in SplitPCs
  <2>1. /\ pend = Job("s8", h, 1) /\ f.path = "split" /\ apc \in SplitPCs
    BY DEF AttInv, JobInv, JobEnd, ThisJob, PathInv, AFlags, Flags, SmxPCs, AlonePCs, PipePCs,
       SplitPCs
  <2> QED
    BY <2>1, Places DEF AttInv, JobEnd
<1>b. /\ m'.q = m.q /\ m'.q_sh = m.q_sh /\ m'.st = m.st /\ m'.sChip = m.sChip /\ m'.vt = m.vt
         /\ m'.pt = m.pt /\ m'.psum = m.psum /\ m'.p = m.p /\ m'.c = m.c /\ m'.ctx = m.ctx
      /\ m'.s[1] = m.q /\ m'.s[0] = m.s[0]
      /\ m' \in Matrices
  <2>1. m' = Ending(Job("s8", h, 1), m)
    BY <1>a DEF JobEnd
  <2> QED
    BY <1>a, <2>1, Ended_s8
<1>1. ADrv' /\ AFlags' /\ AMats' /\ PathInv' /\ JobInv'
  BY <1>b DEF AttInv, ADrv, AFlags, AMats, PathInv, JobInv, JobEnd, ThisJob, Softmaxable
<1>2. VtInv' /\ ScoresInv' /\ ExpInv'
  BY <1>b DEF AttInv, ADrv, PathInv, JobInv, VtInv, ScoresInv, ExpInv, SplitInv, JobEnd, ThisJob,
     Softmaxable
<1>3. ProductInv' /\ CtxInv' /\ SplitInv'
  BY <1>b DEF AttInv, ADrv, PathInv, JobInv, ProductInv, CtxInv, SplitInv, JobEnd, ThisJob,
     Softmaxable
<1> QED
  BY <1>1, <1>2, <1>3 DEF AttInv

LEMMA Kept_JobEnd_ScoresLo ==
  ASSUME AttInv, JobEnd, apc \in {"s_end"}
  PROVE  AttInv'
<1>a. /\ h \in HeadNo /\ h \in Nat /\ Par(h) \in 0..1 /\ Par(h + 1) = 1 - Par(h)
      /\ CSlot \in 0..1 /\ Slot \in 0..1 /\ m \in Matrices /\ f \in Flags /\ AFlags
      /\ f.path = "pipe" => Slot = Par(Prep) /\ CSlot = Par(h)
      /\ Prep = IF f.path = "pipe" /\ ~f.prime THEN h + 1 ELSE h
      /\ (IF f.c_cr THEN 1 ELSE 0) \in 0..1 /\ 0 \in 0..1 /\ 1 \in 0..1
      /\ pend = Job("s8", h, 0) /\ f.path = "split" /\ apc \in SplitPCs
  <2>1. /\ pend = Job("s8", h, 0) /\ f.path = "split" /\ apc \in SplitPCs
    BY DEF AttInv, JobInv, JobEnd, ThisJob, PathInv, AFlags, Flags, SmxPCs, AlonePCs, PipePCs,
       SplitPCs
  <2> QED
    BY <2>1, Places DEF AttInv, JobEnd
<1>b. /\ m'.q = m.q /\ m'.q_sh = m.q_sh /\ m'.st = m.st /\ m'.sChip = m.sChip /\ m'.vt = m.vt
         /\ m'.pt = m.pt /\ m'.psum = m.psum /\ m'.p = m.p /\ m'.c = m.c /\ m'.ctx = m.ctx
      /\ m'.s[0] = m.q /\ m'.s[1] = m.s[1]
      /\ m' \in Matrices
  <2>1. m' = Ending(Job("s8", h, 0), m)
    BY <1>a DEF JobEnd
  <2> QED
    BY <1>a, <2>1, Ended_s8
<1>1. ADrv' /\ AFlags' /\ AMats' /\ PathInv' /\ JobInv' /\ VtInv' /\ ScoresInv' /\ ExpInv'
      /\ ProductInv' /\ CtxInv' /\ SplitInv'
  BY <1>b DEF AttInv, ADrv, AFlags, AMats, PathInv, JobInv, VtInv, ScoresInv, ExpInv, ProductInv,
     CtxInv, SplitInv, JobEnd, ThisJob
<1> QED
  BY <1>1 DEF AttInv

LEMMA Kept_JobEnd_ProductHi ==
  ASSUME AttInv, JobEnd, apc \in {"c_lo"}
  PROVE  AttInv'
<1>a. /\ h \in HeadNo /\ h \in Nat /\ Par(h) \in 0..1 /\ Par(h + 1) = 1 - Par(h)
      /\ CSlot \in 0..1 /\ Slot \in 0..1 /\ m \in Matrices /\ f \in Flags /\ AFlags
      /\ f.path = "pipe" => Slot = Par(Prep) /\ CSlot = Par(h)
      /\ Prep = IF f.path = "pipe" /\ ~f.prime THEN h + 1 ELSE h
      /\ (IF f.c_cr THEN 1 ELSE 0) \in 0..1 /\ 0 \in 0..1 /\ 1 \in 0..1
      /\ pend = Job("c8", h, 1) /\ f.path = "split" /\ apc \in SplitPCs
  <2>1. /\ pend = Job("c8", h, 1) /\ f.path = "split" /\ apc \in SplitPCs
    BY DEF AttInv, JobInv, JobEnd, ThisJob, PathInv, AFlags, Flags, SmxPCs, AlonePCs, PipePCs,
       SplitPCs
  <2> QED
    BY <2>1, Places DEF AttInv, JobEnd
<1>b. /\ m'.q = m.q /\ m'.q_sh = m.q_sh /\ m'.s = m.s /\ m'.st = m.st /\ m'.sChip = m.sChip
         /\ m'.vt = m.vt /\ m'.pt = m.pt /\ m'.psum = m.psum /\ m'.p = m.p /\ m'.ctx = m.ctx
      /\ m'.c[1] = Product(1, m) /\ m'.c[0] = m.c[0]
      /\ m' \in Matrices
  <2>1. m' = Ending(Job("c8", h, 1), m)
    BY <1>a DEF JobEnd
  <2> QED
    BY <1>a, <2>1, Ended_c8
<1>c. /\ apc \in {"c_lo"}
      /\ apc' = apc /\ h' = h /\ f' = f /\ pend' = pend
      /\ blk = "run" /\ blk' = "ok" /\ pend # NoJob
  BY <1>a DEF JobEnd, Local, Go, Flags, Job, NoJob
<1>1. ADrv' /\ AFlags' /\ AMats' /\ PathInv' /\ JobInv'
  BY <1>b DEF AttInv, ADrv, AFlags, AMats, PathInv, JobInv, JobEnd, ThisJob
<1>2. VtInv' /\ ScoresInv' /\ ExpInv'
  BY <1>b DEF AttInv, VtInv, ScoresInv, ExpInv, JobEnd
<1>3. ProductInv'
  BY DEF ProductInv, JobEnd
<1>4. CtxInv'
  BY <1>b DEF AttInv, CtxInv, JobEnd
<1>5. SplitInv'
  BY <1>b, <1>c DEF AttInv, SplitInv, Product, POf, Same
<1> QED
  BY <1>1, <1>2, <1>3, <1>4, <1>5 DEF AttInv

LEMMA Kept_JobEnd_ProductLo ==
  ASSUME AttInv, JobEnd, apc \in {"qk", "c_end"}
  PROVE  AttInv'
<1>a. /\ h \in HeadNo /\ h \in Nat /\ Par(h) \in 0..1 /\ Par(h + 1) = 1 - Par(h)
      /\ CSlot \in 0..1 /\ Slot \in 0..1 /\ m \in Matrices /\ f \in Flags /\ AFlags
      /\ f.path = "pipe" => Slot = Par(Prep) /\ CSlot = Par(h)
      /\ Prep = IF f.path = "pipe" /\ ~f.prime THEN h + 1 ELSE h
      /\ (IF f.c_cr THEN 1 ELSE 0) \in 0..1 /\ 0 \in 0..1 /\ 1 \in 0..1
      /\ pend = Job("c8", h, 0) /\ f.path = "split" /\ apc \in SplitPCs
  <2>1. /\ pend = Job("c8", h, 0) /\ f.path = "split" /\ apc \in SplitPCs
    BY DEF AttInv, JobInv, JobEnd, ThisJob, PathInv, AFlags, Flags, SmxPCs, AlonePCs, PipePCs,
       SplitPCs
  <2> QED
    BY <2>1, Places DEF AttInv, JobEnd
<1>b. /\ m'.q = m.q /\ m'.q_sh = m.q_sh /\ m'.s = m.s /\ m'.st = m.st /\ m'.sChip = m.sChip
         /\ m'.vt = m.vt /\ m'.pt = m.pt /\ m'.psum = m.psum /\ m'.p = m.p /\ m'.ctx = m.ctx
      /\ m'.c[0] = Product(0, m) /\ m'.c[1] = m.c[1]
      /\ m' \in Matrices
  <2>1. m' = Ending(Job("c8", h, 0), m)
    BY <1>a DEF JobEnd
  <2> QED
    BY <1>a, <2>1, Ended_c8
<1>c. /\ apc \in {"qk", "c_end"}
      /\ apc' = apc /\ h' = h /\ f' = f /\ pend' = pend
      /\ blk = "run" /\ blk' = "ok" /\ pend # NoJob
  BY <1>a DEF JobEnd, Local, Go, Flags, Job, NoJob
<1>1. ADrv' /\ AFlags' /\ AMats' /\ PathInv' /\ JobInv'
  BY <1>b DEF AttInv, ADrv, AFlags, AMats, PathInv, JobInv, JobEnd, ThisJob
<1>2. VtInv' /\ ScoresInv' /\ ExpInv'
  BY DEF VtInv, ScoresInv, ExpInv, JobEnd, PipePCs, Softmaxable
<1>3. ProductInv'
  BY DEF ProductInv, JobEnd
<1>4. CtxInv'
  BY <1>b DEF AttInv, CtxInv, JobEnd
<1>5. SplitInv'
  BY <1>b, <1>c DEF AttInv, SplitInv, Product, More, POf, Same
<1> QED
  BY <1>1, <1>2, <1>3, <1>4, <1>5 DEF AttInv

(* Any step of the call keeps AttInv.                                      *)
LEMMA CallKept ==
  ASSUME AttInv, AttentionStep \/ JobEnd \/ JobFails
  PROVE  AttInv'
<1>1. CASE attn_vt16
  BY <1>1, Kept_attn_vt16
<1>2. CASE gemm16_start
  BY <1>2, Kept_gemm16_start
<1>3. CASE NormLow
  BY <1>3, Kept_NormLow
<1>4. CASE gemm16_finish
  BY <1>4, Kept_gemm16_finish
<1>5. CASE attn_softmax_accel_start
  BY <1>5, Kept_attn_softmax_accel_start
<1>6. CASE NormHigh
  BY <1>6, Kept_NormHigh
<1>7. CASE ExpFinish
  BY <1>7, Kept_ExpFinish
<1>8. CASE S_DDR
  BY <1>8, Kept_S_DDR
<1>9. CASE HeadAlone
  BY <1>9, Kept_HeadAlone
<1>10. CASE ContextProduct
  BY <1>10, Kept_ContextProduct
<1>11. CASE ContextProductFinish
  BY <1>11, Kept_ContextProductFinish
<1>12. CASE attn_context16_start
  BY <1>12, Kept_attn_context16_start
<1>13. CASE attention_all16
  BY <1>13, Kept_attention_all16
<1>14. CASE NextHead
  BY <1>14, Kept_NextHead
<1>15. CASE AloneFinish
  BY <1>15, Kept_AloneFinish
<1>16. CASE SplitQ
  BY <1>16, Kept_SplitQ
<1>17. CASE SplitV
  BY <1>17, Kept_SplitV
<1>18. CASE SplitSoftmax
  BY <1>18, Kept_SplitSoftmax
<1>19. CASE SplitNextQ
  BY <1>19, Kept_SplitNextQ
<1>20. CASE SplitNormalise
  BY <1>20, Kept_SplitNormalise
<1>21. CASE JobFails
  BY <1>21, Kept_JobFails
<1>22. CASE SplitJob("s_hi", "s8", 1, "v")
  BY <1>22, Kept_SplitJob_s_hi
<1>23. CASE SplitJob("s_lo", "s8", 0, "s_end")
  BY <1>23, Kept_SplitJob_s_lo
<1>24. CASE SplitJob("c_hi", "c8", 1, "c_lo")
  BY <1>24, Kept_SplitJob_c_hi
<1>25. CASE SplitJob("c_lo", "c8", 0, "qk")
  BY <1>25, Kept_SplitJob_c_lo
<1>26. CASE JobEnd
  <2>1. \/ apc \in {"norm_lo", "s_fin"}
        \/ apc \in {"norm_hi", "e_fin"}
        \/ apc \in {"c_fin"}
        \/ apc \in {"next", "ctx_fin"}
        \/ apc \in {"loop"}
        \/ apc \in {"v", "s_lo"}
        \/ apc \in {"s_end"}
        \/ apc \in {"c_lo"}
        \/ apc \in {"qk", "c_end"}
    BY <1>26 DEF JobEnd, AttInv, PathInv, JobInv, SmxPCs, AlonePCs, PipePCs, SplitPCs
  <2>2. CASE apc \in {"norm_lo", "s_fin"}
    BY <1>26, <2>2, Kept_JobEnd_Scores
  <2>3. CASE apc \in {"norm_hi", "e_fin"}
    BY <1>26, <2>3, Kept_JobEnd_Exp
  <2>4. CASE apc \in {"c_fin"}
    BY <1>26, <2>4, Kept_JobEnd_Product
  <2>5. CASE apc \in {"next", "ctx_fin"}
    BY <1>26, <2>5, Kept_JobEnd_Context
  <2>6. CASE apc \in {"loop"}
    BY <1>26, <2>6, Kept_JobEnd_LoopContext
  <2>7. CASE apc \in {"v", "s_lo"}
    BY <1>26, <2>7, Kept_JobEnd_ScoresHi
  <2>8. CASE apc \in {"s_end"}
    BY <1>26, <2>8, Kept_JobEnd_ScoresLo
  <2>9. CASE apc \in {"c_lo"}
    BY <1>26, <2>9, Kept_JobEnd_ProductHi
  <2>10. CASE apc \in {"qk", "c_end"}
    BY <1>26, <2>10, Kept_JobEnd_ProductLo
  <2> QED
    BY <2>1, <2>2, <2>3, <2>4, <2>5, <2>6, <2>7, <2>8, <2>9, <2>10
<1> QED
  BY <1>1, <1>2, <1>3, <1>4, <1>5, <1>6, <1>7, <1>8, <1>9, <1>10, <1>11, <1>12, <1>13, <1>14,
     <1>15, <1>16, <1>17, <1>18, <1>19, <1>20, <1>21, <1>22, <1>23, <1>24, <1>25,
         <1>26 DEF AttentionStep

---------------------------------------------------------------------------
(* The call in the engine.                                                 *)

(* A call that has just begun, or the state between calls.                 *)
Fresh ==
  /\ usable \in BOOLEAN /\ blk \in {"run", "ok", "bad"} /\ pend = NoJob
  /\ h = 1 /\ m = attn_bufs
  /\ f \in Flags /\ f.prime /\ ~f.exp_ok /\ ~f.exp_next
  /\ \/ apc = "idle" /\ f.path = "none"
     \/ apc = "ret" /\ f.path = "none" /\ ~otherScale
     \/ apc = "vt" /\ f.path \in {"smx", "pipe"} /\ ~otherScale
     \/ apc = "prep_q" /\ f.path = "split" /\ ~otherScale

LEMMA FreshIsRight == Fresh => AttInv
<1> SUFFICES ASSUME Fresh PROVE AttInv
  OBVIOUS
<1>1. ADrv /\ AFlags
  BY DEF Fresh, ADrv, AFlags
<1>2. AMats
  <2>1. 0 \in Heads0 /\ Two \in [0..1 -> Heads0] /\ [d \in 1..Heads |-> 0] \in [HeadNo -> Heads0]
    BY HeadsAssumption DEF Heads0, Two, HeadNo
  <2> QED
    BY <2>1 DEF Fresh, AMats, Matrices, attn_bufs
<1>3. apc \in {"idle", "ret", "vt", "prep_q"} /\ h = 1 /\ pend = NoJob /\ Heads >= 1
      /\ Heads \in Nat
  BY HeadsAssumption DEF Fresh
<1>4. PathInv
  <2>1. CASE apc = "idle" /\ f.path = "none"
    BY <1>3, <2>1 DEF Fresh, PathInv, SmxPCs, AlonePCs, PipePCs, SplitPCs
  <2>2. CASE apc = "ret" /\ f.path = "none" /\ ~otherScale
    BY <1>3, <2>2 DEF PathInv, SmxPCs, AlonePCs, PipePCs, SplitPCs
  <2>3. CASE apc = "vt" /\ f.path \in {"smx", "pipe"} /\ ~otherScale
    BY <1>3, <2>3 DEF Fresh, PathInv, SmxPCs, AlonePCs, PipePCs, SplitPCs
  <2>4. CASE apc = "prep_q" /\ f.path = "split" /\ ~otherScale
    BY <1>3, <2>4 DEF Fresh, PathInv, SmxPCs, AlonePCs, PipePCs, SplitPCs
  <2> QED
    BY <2>1, <2>2, <2>3, <2>4 DEF Fresh
<1>5. JobInv
  BY <1>3 DEF JobInv
<1>6. VtInv
  BY <1>3 DEF Fresh, VtInv
<1>7. ScoresInv /\ ProductInv
  BY <1>3 DEF ScoresInv, ProductInv
<1>8. ExpInv
  BY <1>3 DEF Fresh, ExpInv
<1>9. CtxInv
  BY <1>3 DEF Fresh, CtxInv, HeadNo
<1>10. SplitInv
  BY <1>3 DEF SplitInv
<1> QED
  BY <1>1, <1>2, <1>4, <1>5, <1>6, <1>7, <1>8, <1>9, <1>10 DEF AttInv

(* Outside the call no step but the accelerator's loss concerns it.        *)
Elsewhere == usable' \in {usable, FALSE} /\ UNCHANGED <<pend, blk, apc, h, m, f, otherScale>>

LEMMA ElsewhereKept == ASSUME AttInv, Elsewhere PROVE AttInv'
<1>1. ADrv' /\ AFlags' /\ AMats'
  BY DEF AttInv, Elsewhere, ADrv, AFlags, AMats
<1>2. /\ Next1' = Next1 /\ More' = More /\ Prep' = Prep /\ Slot' = Slot /\ CSlot' = CSlot
      /\ Ended' = Ended /\ POf(h)' = POf(h) /\ POf(h - 1)' = POf(h - 1)
      /\ (\A j : ThisJob(j)' = ThisJob(j))
      /\ (\A hd, i, e, s : Softmaxable(hd, i, e, s)' = Softmaxable(hd, i, e, s))
  BY DEF Elsewhere, Next1, More, Prep, Slot, CSlot, Ended, POf, ThisJob, Softmaxable
<1>3. PathInv'
  BY DEF AttInv, Elsewhere, PathInv
<1>4. JobInv'
  BY DEF AttInv, Elsewhere, JobInv, ThisJob, Next1, More, Prep, Slot, CSlot
<1>5. VtInv'
  BY DEF AttInv, Elsewhere, VtInv, Next1, More, Prep, Slot
<1>6. ScoresInv'
  BY DEF AttInv, Elsewhere, ScoresInv, Next1, More, Prep, Slot, Ended
<1>7. ExpInv'
  BY DEF AttInv, Elsewhere, ExpInv, Softmaxable, More
<1>8. ProductInv'
  BY DEF AttInv, Elsewhere, ProductInv, POf, Ended
<1>9. CtxInv'
  BY DEF AttInv, Elsewhere, CtxInv, Ended
<1>10. SplitInv'
  BY DEF AttInv, Elsewhere, SplitInv, POf, Ended, More
<1> QED
  BY <1>1, <1>3, <1>4, <1>5, <1>6, <1>7, <1>8, <1>9, <1>10 DEF AttInv

LEMMA CallBegins == ASSUME AttInv, NEW granted \in BOOLEAN, attention_all(granted) PROVE AttInv'
<1>1. pend = NoJob
  BY DEF AttInv, JobInv, attention_all
<1>2. /\ usable' = usable /\ blk' = blk /\ pend' = NoJob /\ h' = 1 /\ m' = attn_bufs
      /\ otherScale' = FALSE
  BY <1>1 DEF attention_all, drv
<1> DEFINE path == IF usable /\ "w16" \notin caps THEN "split"
                   ELSE IF Can({"smx"}) THEN "smx" ELSE "pipe"
           direct == path # "split" /\ Can({"wsh"})
<1>3. path \in {"split", "smx", "pipe"} /\ direct \in BOOLEAN
  BY DEF AttInv, ADrv, Can
<1>4. IF granted THEN /\ apc' = IF path = "split" THEN "prep_q" ELSE "vt"
                      /\ f' = [NoFlags EXCEPT !.path = path, !.direct = direct]
      ELSE apc' = "ret" /\ f' = NoFlags
  BY DEF attention_all, Go
<1> HIDE DEF path, direct
<1>5. f' \in Flags /\ f'.prime /\ ~f'.exp_ok /\ ~f'.exp_next
      /\ f'.path = IF granted THEN path ELSE "none"
  <2>1. CASE granted
    <3>1. f' = [path |-> path, direct |-> direct, prime |-> TRUE, s_cr |-> FALSE,
                c_cr |-> FALSE, exp_ok |-> FALSE, exp_next |-> FALSE]
      BY <1>4, <2>1 DEF NoFlags
    <3>2. f' \in Flags
      BY <1>3, <3>1 DEF Flags
    <3>3. f'.prime = TRUE /\ f'.exp_ok = FALSE /\ f'.exp_next = FALSE /\ f'.path = path
      BY <3>1
    <3> QED
      BY <2>1, <3>2, <3>3
  <2>2. CASE ~granted
    <3>1. f' = NoFlags
      BY <1>4, <2>2
    <3> QED
      BY <2>2, <3>1 DEF NoFlags, Flags
  <2> QED
    BY <2>1, <2>2
<1>6. Fresh'
  BY <1>2, <1>3, <1>4, <1>5 DEF Fresh, AttInv, ADrv
<1> QED
  BY <1>6, FreshIsRight, PTL

(* The steps of the engine, as the call sees them.                         *)
LEMMA StepsOfCall ==
  ASSUME Next
  PROVE  \/ Heading \/ CallAttention \/ EndAttention \/ start_program
         \/ Elsewhere /\ (dpc' = dpc \/ (dpc # "heads" /\ dpc' # "heads"))
<1> DEFINE Away == Elsewhere /\ (dpc' = dpc \/ (dpc # "heads" /\ dpc' # "heads"))
<1>1. NoDriver /\ (dpc' = dpc \/ (dpc # "heads" /\ dpc' # "heads")) => Away
  BY DEF NoDriver, avars, Elsewhere
<1>2. Risk /\ Still /\ dpc # "heads" /\ dpc' # "heads" => Away
  BY DEF Risk, Sync, Still, Elsewhere
<1>3. Board => Away
  BY DEF Board, avars, Elsewhere
<1> HIDE DEF Away
<1>4. ddr_init \/ Waiting \/ Weights \/ Ready \/ ServerLoop \/ dav2_set_image \/ Infer => Away
  BY <1>1 DEF ddr_init, Waiting, Weights, Ready, ServerLoop, dav2_set_image, Infer, At
<1>5. PatchEmbedding \/ Projections \/ Fusion \/ OutputConvolutions => Away
  BY <1>2 DEF PatchEmbedding, Projections, Fusion, OutputConvolutions, AfterAlloc
<1>6. LayerNorm("ln1", "qkv") \/ LayerNorm("ln2", "fc1") => Away
  BY <1>2 DEF LayerNorm, AfterAlloc
<1>7. QkvOrFc1("qkv", "att") \/ QkvOrFc1("fc1", "fc2") => Away
  BY <1>2 DEF QkvOrFc1, AfterAlloc
<1>8. residual_update("proj", "proj_end") \/ residual_update("fc2", "fc2_end") => Away
  BY <1>1 DEF residual_update
<1>9. Updated("proj_end", "ln2") \/ Updated("fc2_end", "tap") => Away
  BY <1>2 DEF Updated
<1>10. dav2_lnplain_begin \/ Exhausted \/ Report \/ AnnounceResult => Away
  BY <1>1 DEF dav2_lnplain_begin, Exhausted, Report, AnnounceResult, At
<1>11. dav2_producer_idle => Away
  BY <1>1 DEF dav2_producer_idle
<1>12. TimeOut => Away
  BY <1>3 DEF TimeOut
<1>13. Script => start_program \/ Board
  BY DEF Script, wait_for_marker, load_blob, verify_blob, WriteMagic, AwaitIdle,
         send_image, run_frame, fetch_result, NextSession
<1>14. Over => Away
  BY DEF Over, vars, avars, Elsewhere, Away
<1>15. Heading \/ CallAttention \/ EndAttention \/ start_program \/ Away
  BY <1>3, <1>4, <1>5, <1>6, <1>7, <1>8, <1>9, <1>10, <1>11, <1>12, <1>13, <1>14 DEF Next, Program
<1> QED
  BY <1>15 DEF Away

LEMMA InitRight == Init => AInv
<1> SUFFICES ASSUME Init PROVE AInv
  OBVIOUS
<1>1. f = NoFlags /\ apc = "idle" /\ pend = NoJob /\ h = 1 /\ m = attn_bufs /\ usable = TRUE
      /\ blk = "ok"
  BY DEF Init
<1>2. Fresh
  BY <1>1 DEF Fresh, NoFlags, Flags
<1> QED
  BY <1>1, <1>2, FreshIsRight DEF AInv, IdleInv

LEMMA NextRight == AInv /\ [Next]_vars => AInv'
<1> SUFFICES ASSUME AInv, [Next]_vars PROVE AInv'
  OBVIOUS
<1>0. AttInv /\ IdleInv /\ usable \in BOOLEAN
  BY DEF AInv, AttInv, ADrv
<1>1. CASE Elsewhere /\ (dpc' = dpc \/ (dpc # "heads" /\ dpc' # "heads"))
  <2>1. AttInv'
    BY <1>0, <1>1, ElsewhereKept
  <2>2. IdleInv'
    BY <1>0, <1>1 DEF Elsewhere, IdleInv
  <2> QED
    BY <2>1, <2>2 DEF AInv
<1>2. CASE Heading
  <2>1. AttInv'
    BY <1>0, <1>2, CallKept DEF Heading
  <2>2. IdleInv'
    BY <1>2 DEF Heading, IdleInv
  <2> QED
    BY <2>1, <2>2 DEF AInv
<1>3. CASE CallAttention
  <2>1. Room(3) \in BOOLEAN
    BY DEF Room
  <2>2. AttInv'
    BY <1>0, <1>3, <2>1, CallBegins DEF CallAttention
  <2>3. IdleInv'
    BY <1>3 DEF CallAttention, At, IdleInv
  <2> QED
    BY <2>2, <2>3 DEF AInv
<1>4. CASE EndAttention
  <2>1. pend = NoJob /\ blk \in {"run", "ok", "bad"}
    BY <1>0, <1>4 DEF EndAttention, AttInv, JobInv, ADrv
  <2>2. /\ usable' = usable /\ pend' = NoJob /\ blk' = blk /\ apc' = "idle" /\ h' = 1
        /\ m' = attn_bufs /\ f' = NoFlags
    BY <1>4, <2>1 DEF EndAttention, drv, Go
  <2>3. Fresh'
    BY <1>0, <2>1, <2>2 DEF Fresh, NoFlags, Flags
  <2> QED
    <3>1. AttInv'
      BY <2>3, FreshIsRight, PTL
    <3> QED
      BY <2>2, <3>1 DEF AInv, IdleInv
<1>5. CASE start_program
  <2>1. /\ usable' = TRUE /\ pend' = NoJob /\ blk' = "ok" /\ apc' = "idle" /\ h' = 1
        /\ m' = attn_bufs /\ f' = NoFlags
    BY <1>5 DEF start_program
  <2>2. Fresh'
    BY <2>1 DEF Fresh, NoFlags, Flags
  <2> QED
    <3>1. AttInv'
      BY <2>2, FreshIsRight, PTL
    <3> QED
      BY <2>1, <3>1 DEF AInv, IdleInv
<1>6. CASE UNCHANGED vars
  <2>1. Elsewhere /\ dpc' = dpc
    BY <1>6 DEF vars, avars, Elsewhere
  <2> QED
    BY <1>1, <2>1
<1> QED
  BY <1>0, <1>1, <1>2, <1>3, <1>4, <1>5, <1>6, StepsOfCall

(* Once the call has returned, each head is done.                          *)
LEMMA CallRight == AInv => ContextRight
BY DEF AInv, AttInv, CtxInv, PathInv, ContextRight, ContextOf, HeadNo

(* At each step of an attention call (attention_all and its three paths,   *)
(* dav2_engine.c) each matrix that is still to be read is that of the head *)
(* it is read for, whichever jobs the accelerator declined, failed or left *)
(* running; between calls none is under way.                               *)
THEOREM CallInvariant == Spec => []AInv
<1> QED
  BY InitRight, NextRight, PTL DEF Spec

(* When attention_all returns true, each head's columns of the context     *)
(* were made of that head's own q, k and v, through its own scores and     *)
(* exponentials, on each path and whatever the accelerator failed; a       *)
(* softmax with the scale of another head happens on the pipelined path    *)
(* alone (attention_all, dav2_engine.c).                                   *)
THEOREM ContextCorrect == Spec => []ContextRight
BY CallRight, CallInvariant, PTL

---------------------------------------------------------------------------
(* The tensors of a frame, while its arena has not run out: x and what is  *)
(* made of it.                                                             *)
Half1 == {"ln1", "qkv", "att", "heads", "proj", "proj_end"}
Half2 == {"ln2", "fc1", "fc2", "fc2_end"}
XType ==
  /\ ver \in Nat /\ buf \in [1..2 -> Nat] /\ cur \in 1..2 /\ stats \in Nat /\ hasStats \in BOOLEAN
  /\ act \in Nat /\ blockNo \in Nat
  /\ bg \in [tap : Taps \cup {0}, rows : 0..TapRows, from : 1..2, stat : Nat]
  /\ feats \in [Taps -> [1..TapRows -> Nat]]
  /\ arena \in Nat /\ used \in Nat /\ arenaFailed \in BOOLEAN
XInv ==
  ~arenaFailed =>
    /\ dpc \in Half1 => ver = 2 * blockNo - 1
    /\ dpc \in Half2 => ver = 2 * blockNo
    /\ dpc = "tap" => ver = 2 * blockNo + 1
    /\ dpc \in Half1 \cup Half2 \cup {"tap"} =>
         buf[cur] = ver /\ blockNo \in 1..Blocks
    /\ dpc \in (Half1 \cup Half2 \cup {"tap"}) \ {"proj_end", "fc2_end"}
       /\ hasStats => stats = ver
    /\ dpc \in (Half1 \cup Half2) \ {"ln1", "ln2"} => act = ver
    /\ dpc = "heads" => f.path # "none"

(* The rows of the taps: those of the blocks gone by are made, but for the *)
(* one in the background, whose x is still in its buffer.                  *)
Before == {"off", "boot", "waiting", "weights"}
BgInv ==
  /\ dpc \in Before => bg.tap = 0 /\ \A t \in Taps, r \in 1..TapRows : feats[t][r] = 0
  /\ ~arenaFailed =>
       /\ bg.tap # 0 => /\ dpc \in (Half1 \ {"proj_end"}) \cup {"head", "hung"}
                        /\ buf[bg.from] = 1 + 2 * bg.tap /\ bg.stat = 1 + 2 * bg.tap
RowsInv ==
  ~arenaFailed =>
    /\ \A t \in Taps, r \in 1..TapRows : feats[t][r] \in {0, 1 + 2 * t}
    /\ dpc \in Half1 \cup Half2 \cup {"tap"} =>
         \A t \in Taps, r \in 1..TapRows :
           t < blockNo /\ (t = bg.tap => r <= bg.rows) => feats[t][r] = 1 + 2 * t
    /\ dpc = "head" => \A t \in Taps, r \in 1..TapRows :
           (t = bg.tap => r <= bg.rows) => feats[t][r] = 1 + 2 * t
    /\ dpc = "fusion" => \A t \in Taps, r \in 1..TapRows : feats[t][r] = 1 + 2 * t

EInv == AInv /\ XType /\ XInv /\ BgInv /\ RowsInv

(* The rows made of a tap (dav2_producer_step, dav2_producer_idle): those  *)
(* made are of the tap's x, the others are left.                           *)
LEMMA MadeRight ==
  ASSUME XType, NEW n \in bg.rows..TapRows
  PROVE  /\ Made(n) \in [Taps -> [1..TapRows -> Nat]]
         /\ \A t \in Taps, r \in 1..TapRows : Made(n)[t][r] =
              IF t = bg.tap /\ r > bg.rows
                /\ r <= n THEN Same(buf[bg.from], bg.stat) ELSE feats[t][r]
<1>1. bg.tap \in Taps \cup {0} /\ bg.rows \in 0..TapRows /\ bg.from \in 1..2 /\ bg.stat \in Nat
  BY DEF XType
<1>2. Same(buf[bg.from], bg.stat) \in Nat
  BY <1>1 DEF XType, Same
<1>3. TapRows \in Nat /\ 0 \notin Taps
  BY EngineAssumption
<1>4. CASE bg.tap = 0
  BY <1>3, <1>4 DEF Made, XType
<1>5. CASE bg.tap # 0
  <2> DEFINE v == Same(buf[bg.from], bg.stat)
             g == [r \in 1..TapRows |-> IF r \in bg.rows + 1 .. n THEN v ELSE feats[bg.tap][r]]
  <2>1. bg.tap \in Taps
    BY <1>1, <1>5
  <2>2. Made(n) = [feats EXCEPT ![bg.tap] = g]
    BY <1>5, <2>1 DEF Made, XType
  <2>3. v \in Nat
    BY <1>2
  <2> HIDE DEF v
  <2>4. feats \in [Taps -> [1..TapRows -> Nat]]
    BY DEF XType
  <2>5. g \in [1..TapRows -> Nat]
    BY <2>1, <2>3, <2>4
  <2>6. \A r \in 1..TapRows : g[r] = IF r > bg.rows /\ r <= n THEN v ELSE feats[bg.tap][r]
    BY <1>1, <1>3
  <2> HIDE DEF g
  <2>7. /\ Made(n) \in [Taps -> [1..TapRows -> Nat]]
        /\ \A t \in Taps : Made(n)[t] = IF t = bg.tap THEN g ELSE feats[t]
    BY <2>1, <2>2, <2>4, <2>5
  <2> QED
    BY <2>1, <2>6, <2>7 DEF v
<1> QED
  BY <1>4, <1>5

(* While x is in its buffer and its statistics are its own, what LayerNorm *)
(* makes of them is of x.                                                  *)
LEMMA XRight ==
  ASSUME XType, hasStats => stats = buf[cur]
  PROVE  X = buf[cur]
BY DEF X, Same

(* An allocation that does not fit fails for the rest of the frame.        *)
LEMMA AllocIs ==
  ASSUME XType, NEW k \in 1..3, dav2_arena_alloc(k)
  PROVE  /\ arena' = arena /\ used' \in Nat /\ arenaFailed' \in BOOLEAN
         /\ ~Room(k) => arenaFailed'
         /\ Room(k) => arenaFailed' = arenaFailed
<1>1. arena \in Nat /\ used \in Nat /\ arenaFailed \in BOOLEAN
  BY DEF XType
<1>2. Room(k) <=> ~(used + k > arena)
  BY <1>1 DEF Room
<1>3. arena' = arena /\ used' \in Nat
  BY <1>1 DEF dav2_arena_alloc
<1>4. arenaFailed' = (arenaFailed \/ used + k > arena)
  BY DEF dav2_arena_alloc
<1>5. CASE Room(k)
  <2>1. (used + k > arena) = FALSE
    BY <1>2, <1>5
  <2>2. arenaFailed' = arenaFailed
    BY <1>1, <1>4, <2>1, Zenon
  <2> QED
    BY <1>1, <1>3, <1>5, <2>2
<1>6. CASE ~Room(k)
  <2>1. (used + k > arena) = TRUE
    BY <1>2, <1>6
  <2>2. arenaFailed' = TRUE
    BY <1>4, <2>1, Zenon
  <2> QED
    BY <1>3, <1>6, <2>2
<1> QED
  BY <1>5, <1>6

(* The path of a call is chosen when it begins.                            *)
LEMMA PathKept ==
  ASSUME AttInv, AttentionStep \/ JobEnd \/ JobFails
  PROVE  f'.path = f.path
<1>1. \/ f' = f
      \/ \E v : f' = [f EXCEPT !.s_cr = v] \/ f' = [f EXCEPT !.exp_next = v]
         \/ f' = [f EXCEPT !.c_cr = v]
              \/ f' = [f EXCEPT !.prime = v] \/ f' = [f EXCEPT !.exp_ok = v]
              \/ \E w : f' = [f EXCEPT !.exp_next = v, !.exp_ok = w]
  BY DEF AttentionStep, attn_vt16, gemm16_start, NormLow, gemm16_finish, attn_softmax_accel_start,
         NormHigh, ExpFinish, S_DDR, HeadAlone, ContextProduct, ContextProductFinish,
         attn_context16_start, attention_all16, NextHead, AloneFinish, SplitQ, SplitV,
         SplitSoftmax,
         SplitNextQ, SplitNormalise, SplitJob, JobEnd, JobFails
<1>2. f \in Flags
  BY DEF AttInv, AFlags
<1> QED
  BY <1>1, <1>2 DEF Flags

(* EInv holds at power on ...                                              *)
LEMMA FramePrepared ==
  ASSUME Init
  PROVE  XType /\ XInv /\ BgInv /\ RowsInv
<1>1. /\ NoTap \in [tap : Taps \cup {0}, rows : 0..TapRows, from : 1..2, stat : Nat]
         /\ NoTap.tap = 0
      /\ NoRows \in [1..TapRows -> Nat] /\ \A r \in 1..TapRows : NoRows[r] = 0
  BY EngineAssumption DEF NoTap, NoRows
<1>2. /\ feats = [t \in Taps |-> NoRows] /\ bg = NoTap /\ dpc = "off" /\ arenaFailed = FALSE
      /\ arena \in Nat /\ used = 0 /\ hasStats = FALSE
  BY EngineAssumption DEF Init
<1>3. XType
  <2>1. feats \in [Taps -> [1..TapRows -> Nat]]
    BY <1>1, <1>2
  <2>2. ver \in Nat /\ buf \in [1..2 -> Nat] /\ cur \in 1..2 /\ stats \in Nat /\ act \in Nat
        /\ blockNo \in Nat
    BY DEF Init
  <2>3. hasStats \in BOOLEAN /\ arenaFailed \in BOOLEAN /\ arena \in Nat /\ used \in Nat
    BY <1>2
  <2> QED
    BY <1>1, <1>2, <2>1, <2>2, <2>3 DEF XType
<1>4. XInv
  BY <1>2 DEF XInv, Half1, Half2
<1>5. BgInv /\ RowsInv
  BY <1>1, <1>2 DEF BgInv, RowsInv, Before, Half1, Half2
<1> QED
  BY <1>3, <1>4, <1>5

(* ... is kept by what touches none of its tensors ...                     *)
LEMMA Unmoved ==
  ASSUME EInv, UNCHANGED <<dpc, heap, xs, bgs, f>>
  PROVE  XType' /\ XInv' /\ BgInv' /\ RowsInv'
<1>1. XType'
  BY DEF EInv, XType, heap, xs, bgs
<1>2. XInv'
  BY DEF EInv, XInv, heap, xs
<1>3. BgInv'
  BY DEF EInv, BgInv, heap, xs, bgs
<1>4. RowsInv'
  BY DEF EInv, RowsInv, heap, xs, bgs
<1> QED
  BY <1>1, <1>2, <1>3, <1>4

(* ... and by each step of dav2_infer, dav2_encoder_forward and            *)
(* dav2_dpt_head.                                                          *)
LEMMA Frame_ddr_init ==
  ASSUME EInv, ddr_init
  PROVE  XType' /\ XInv' /\ BgInv' /\ RowsInv'
<1>1. XType'
  BY DEF EInv, XType, ddr_init, Half1, Half2, Before, heap, xs, bgs, NoDriver
<1>2. XInv'
  BY DEF XInv, RowsInv, ddr_init, Half1, Half2
<1>3. BgInv'
  BY DEF EInv, XType, XInv, BgInv, RowsInv, ddr_init, Half1, Half2, Before, heap, xs, bgs,
     NoDriver
<1>4. RowsInv'
  BY DEF EInv, XType, XInv, BgInv, RowsInv, ddr_init, Half1, Half2, Before, heap, xs, bgs,
     NoDriver
<1> QED
  BY <1>1, <1>2, <1>3, <1>4

LEMMA Frame_Weights ==
  ASSUME EInv, Weights
  PROVE  XType' /\ XInv' /\ BgInv' /\ RowsInv'
<1>1. XInv'
  BY DEF XInv, BgInv, RowsInv, Weights, Half1, Half2, Before, At
<1>2. BgInv'
  BY EngineAssumption DEF EInv, XType, XInv, BgInv, RowsInv, Weights, Half1, Half2, Before, At,
     xs, bgs
<1>3. RowsInv'
  BY EngineAssumption DEF EInv, XType, XInv, BgInv, RowsInv, Weights, Half1, Half2, Before, At,
     xs, bgs
<1>4. XType'
  <2>1. arena' = arena /\ used' = 0 /\ arenaFailed' = FALSE /\ UNCHANGED <<xs, bgs>>
    BY DEF Weights
  <2>2. arenaFailed' \in BOOLEAN
    BY <2>1
  <2>3. used' \in Nat /\ arena' \in Nat
    BY <2>1 DEF EInv, XType
  <2> QED
    BY <2>1, <2>2, <2>3 DEF EInv, XType, xs, bgs
<1> QED
  BY <1>1, <1>2, <1>3, <1>4

LEMMA Frame_PatchEmbedding ==
  ASSUME EInv, PatchEmbedding
  PROVE  XType' /\ XInv' /\ BgInv' /\ RowsInv'
<1>1. BgInv' /\ RowsInv'
  BY EngineAssumption DEF EInv, XType, XInv, BgInv, RowsInv, PatchEmbedding, Half1, Half2,
     Before, dav2_arena_alloc, AfterAlloc, Value, NoRows
<1>2. XType'
  <2>1. Value(3, 1) \in Nat
    BY DEF Value
  <2>2. buf' \in [1..2 -> Nat]
    BY <2>1 DEF PatchEmbedding
  <2>3. feats' = [t \in Taps |-> NoRows] /\ NoRows \in [1..TapRows -> Nat]
    BY DEF PatchEmbedding, NoRows
  <2>4. feats' \in [Taps -> [1..TapRows -> Nat]]
    BY <2>3
  <2>5. dav2_arena_alloc(3) /\ 3 \in 1..3 /\ XType
    BY DEF PatchEmbedding, EInv
  <2>6. used' \in Nat /\ arena' = arena /\ arenaFailed' \in BOOLEAN
    BY <2>5, AllocIs
  <2>7. ver' = 1 /\ cur' = 1 /\ stats' = 0 /\ hasStats' = FALSE /\ act' = 0 /\ blockNo' = 1
        /\ bg' = bg
    BY DEF PatchEmbedding
  <2>8. ver' \in Nat /\ cur' \in 1..2 /\ stats' \in Nat /\ act' \in Nat /\ blockNo' \in Nat
    BY <2>7
  <2>10. hasStats' \in BOOLEAN
    BY <2>7
  <2>9. /\ bg' \in [tap : Taps \cup {0}, rows : 0..TapRows, from : 1..2, stat : Nat]
        /\ arena' \in Nat
    BY <2>5, <2>6, <2>7 DEF XType
  <2> QED
    BY <2>2, <2>4, <2>6, <2>8, <2>9, <2>10 DEF XType
<1>3. XInv'
  <2>1. ver' = 1 /\ blockNo' = 1 /\ cur' = 1 /\ hasStats' = FALSE /\ dpc' \in {"ln1", "hung"}
    BY DEF PatchEmbedding, AfterAlloc
  <2>2. ~arenaFailed' => Value(3, 1) = 1
    <3>1. dav2_arena_alloc(3) /\ 3 \in 1..3 /\ XType
      BY DEF PatchEmbedding, EInv
    <3>2. ~arenaFailed' => Room(3) /\ ~arenaFailed
      BY <3>1, AllocIs
    <3> QED
      BY <3>2 DEF Value
  <2>3. ~arenaFailed' => buf'[1] = 1
    BY <2>2 DEF PatchEmbedding
  <2>4. 1 \in 1..Blocks
    BY EngineAssumption
  <2> QED
    BY <2>1, <2>3, <2>4 DEF XInv, Half1, Half2
<1> QED
  BY <1>1, <1>2, <1>3

LEMMA Frame_LayerNorm_ln1 ==
  ASSUME EInv, LayerNorm("ln1", "qkv")
  PROVE  XType' /\ XInv' /\ BgInv' /\ RowsInv'
<1>1. XType'
  BY EngineAssumption DEF EInv, XType, XInv, BgInv, RowsInv, LayerNorm, Half1, Half2, Before,
     Borrow, AfterAlloc, Value, Same, X, bgs
<1>2. RowsInv'
  BY EngineAssumption DEF EInv, XType, XInv, BgInv, RowsInv, LayerNorm, Half1, Half2, Before,
     Borrow, AfterAlloc, Value, Same, X, bgs
<1>3. XInv'
  <2>1. /\ dpc = "ln1" /\ dpc' \in {"qkv", "hung"}
        /\ arenaFailed' = (arenaFailed \/ ~Room(1))
        /\ UNCHANGED <<blockNo, ver, buf, cur, stats, hasStats, bg, feats, f>>
    BY DEF LayerNorm, AfterAlloc, Borrow, bgs, Still
  <2>2. ~arenaFailed' => ~arenaFailed /\ Room(1)
    BY <2>1
  <2>3. ASSUME ~arenaFailed' PROVE act' = ver
    <3>1. act' = Value(1, Same(X, ver))
      BY DEF LayerNorm
    <3>2. Same(X, ver) = ver
      <4>1. buf[cur] = ver /\ (hasStats => stats = ver)
        BY <2>1, <2>2, <2>3 DEF EInv, XInv, Half1, Half2
      <4> QED
        BY <4>1, XRight DEF EInv, Same
    <3> QED
      BY <2>2, <2>3, <3>1, <3>2 DEF Value
  <2> QED
    BY <2>1, <2>2, <2>3 DEF EInv, XInv, Half1, Half2
<1>4. BgInv'
  <2>1. /\ dpc = "ln1" /\ dpc' \in {"qkv", "hung"}
        /\ arenaFailed' = (arenaFailed \/ ~Room(1))
        /\ UNCHANGED <<blockNo, ver, buf, cur, stats, hasStats, bg, feats, f>>
    BY DEF LayerNorm, AfterAlloc, Borrow, bgs, Still
  <2>2. ~arenaFailed' => ~arenaFailed /\ Room(1)
    BY <2>1
  <2> QED
    BY <2>1, <2>2 DEF EInv, BgInv, Before, Half1
<1> QED
  BY <1>1, <1>2, <1>3, <1>4

LEMMA Frame_LayerNorm_ln2 ==
  ASSUME EInv, LayerNorm("ln2", "fc1")
  PROVE  XType' /\ XInv' /\ BgInv' /\ RowsInv'
<1>1. XType'
  BY EngineAssumption DEF EInv, XType, XInv, BgInv, RowsInv, LayerNorm, Half1, Half2, Before,
     Borrow, AfterAlloc, Value, Same, X, bgs
<1>2. RowsInv'
  BY EngineAssumption DEF EInv, XType, XInv, BgInv, RowsInv, LayerNorm, Half1, Half2, Before,
     Borrow, AfterAlloc, Value, Same, X, bgs
<1>3. XInv'
  <2>1. /\ dpc = "ln2" /\ dpc' \in {"fc1", "hung"}
        /\ arenaFailed' = (arenaFailed \/ ~Room(1))
        /\ UNCHANGED <<blockNo, ver, buf, cur, stats, hasStats, bg, feats, f>>
    BY DEF LayerNorm, AfterAlloc, Borrow, bgs, Still
  <2>2. ~arenaFailed' => ~arenaFailed /\ Room(1)
    BY <2>1
  <2>3. ASSUME ~arenaFailed' PROVE act' = ver
    <3>1. act' = Value(1, Same(X, ver))
      BY DEF LayerNorm
    <3>2. Same(X, ver) = ver
      <4>1. buf[cur] = ver /\ (hasStats => stats = ver)
        BY <2>1, <2>2, <2>3 DEF EInv, XInv, Half1, Half2
      <4> QED
        BY <4>1, XRight DEF EInv, Same
    <3> QED
      BY <2>2, <2>3, <3>1, <3>2 DEF Value
  <2> QED
    BY <2>1, <2>2, <2>3 DEF EInv, XInv, Half1, Half2
<1>4. BgInv'
  <2>1. /\ dpc = "ln2" /\ dpc' \in {"fc1", "hung"}
        /\ arenaFailed' = (arenaFailed \/ ~Room(1))
        /\ UNCHANGED <<blockNo, ver, buf, cur, stats, hasStats, bg, feats, f>>
    BY DEF LayerNorm, AfterAlloc, Borrow, bgs, Still
  <2>2. ~arenaFailed' => ~arenaFailed /\ Room(1)
    BY <2>1
  <2> QED
    BY <2>1, <2>2 DEF EInv, BgInv, Before, Half1
<1> QED
  BY <1>1, <1>2, <1>3, <1>4

LEMMA Frame_QkvOrFc1_qkv ==
  ASSUME EInv, QkvOrFc1("qkv", "att")
  PROVE  XType' /\ XInv' /\ BgInv' /\ RowsInv'
<1>1. XType'
  BY EngineAssumption DEF EInv, XType, QkvOrFc1, Half1, Half2, Before, Borrow, AfterAlloc, Value,
     bgs
<1>2. RowsInv'
  BY EngineAssumption DEF EInv, XType, XInv, BgInv, RowsInv, QkvOrFc1, Half1, Half2, Before,
     Borrow, AfterAlloc, Value, bgs
<1>3. XInv'
  <2>1. /\ dpc = "qkv" /\ dpc' \in {"att", "hung"}
        /\ arenaFailed' = (arenaFailed \/ ~Room(2))
        /\ UNCHANGED <<blockNo, ver, buf, cur, stats, hasStats, bg, feats, f>>
    BY DEF QkvOrFc1, AfterAlloc, Borrow, bgs, Still
  <2>2. ~arenaFailed' => ~arenaFailed /\ Room(2)
    BY <2>1
  <2>3. ASSUME ~arenaFailed' PROVE act' = ver
    <3>1. act' = Value(2, act)
      BY DEF QkvOrFc1
    <3>2. act = ver
      BY <2>1, <2>2, <2>3 DEF EInv, XInv, Half1, Half2
    <3> QED
      BY <2>2, <2>3, <3>1, <3>2 DEF Value
  <2> QED
    BY <2>1, <2>2, <2>3 DEF EInv, XInv, Half1, Half2
<1>4. BgInv'
  <2>1. /\ dpc = "qkv" /\ dpc' \in {"att", "hung"}
        /\ arenaFailed' = (arenaFailed \/ ~Room(2))
        /\ UNCHANGED <<blockNo, ver, buf, cur, stats, hasStats, bg, feats, f>>
    BY DEF QkvOrFc1, AfterAlloc, Borrow, bgs, Still
  <2>2. ~arenaFailed' => ~arenaFailed /\ Room(2)
    BY <2>1
  <2> QED
    BY <2>1, <2>2 DEF EInv, BgInv, Before, Half1
<1> QED
  BY <1>1, <1>2, <1>3, <1>4

LEMMA Frame_QkvOrFc1_fc1 ==
  ASSUME EInv, QkvOrFc1("fc1", "fc2")
  PROVE  XType' /\ XInv' /\ BgInv' /\ RowsInv'
<1>1. XType'
  BY EngineAssumption DEF EInv, XType, QkvOrFc1, Half1, Half2, Before, Borrow, AfterAlloc, Value,
     bgs
<1>2. RowsInv'
  BY EngineAssumption DEF EInv, XType, XInv, BgInv, RowsInv, QkvOrFc1, Half1, Half2, Before,
     Borrow, AfterAlloc, Value, bgs
<1>3. XInv'
  <2>1. /\ dpc = "fc1" /\ dpc' \in {"fc2", "hung"}
        /\ arenaFailed' = (arenaFailed \/ ~Room(2))
        /\ UNCHANGED <<blockNo, ver, buf, cur, stats, hasStats, bg, feats, f>>
    BY DEF QkvOrFc1, AfterAlloc, Borrow, bgs, Still
  <2>2. ~arenaFailed' => ~arenaFailed /\ Room(2)
    BY <2>1
  <2>3. ASSUME ~arenaFailed' PROVE act' = ver
    <3>1. act' = Value(2, act)
      BY DEF QkvOrFc1
    <3>2. act = ver
      BY <2>1, <2>2, <2>3 DEF EInv, XInv, Half1, Half2
    <3> QED
      BY <2>2, <2>3, <3>1, <3>2 DEF Value
  <2> QED
    BY <2>1, <2>2, <2>3 DEF EInv, XInv, Half1, Half2
<1>4. BgInv'
  <2>1. /\ dpc = "fc1" /\ dpc' \in {"fc2", "hung"}
        /\ arenaFailed' = (arenaFailed \/ ~Room(2))
        /\ UNCHANGED <<blockNo, ver, buf, cur, stats, hasStats, bg, feats, f>>
    BY DEF QkvOrFc1, AfterAlloc, Borrow, bgs, Still
  <2>2. ~arenaFailed' => ~arenaFailed /\ Room(2)
    BY <2>1
  <2> QED
    BY <2>1, <2>2 DEF EInv, BgInv, Before, Half1
<1> QED
  BY <1>1, <1>2, <1>3, <1>4

LEMMA Frame_CallAttention ==
  ASSUME EInv, CallAttention
  PROVE  XType' /\ XInv' /\ BgInv' /\ RowsInv'
<1>1. XType' /\ BgInv' /\ RowsInv'
  BY EngineAssumption DEF EInv, XType, XInv, BgInv, RowsInv, CallAttention, Half1, Half2, Before,
     At, Room, Borrow, xs, bgs
<1>2. XInv'
  <2>1. /\ dpc = "att" /\ dpc' = "heads" /\ UNCHANGED xs
        /\ arenaFailed' = (arenaFailed \/ ~Room(3)) /\ attention_all(Room(3))
    BY DEF CallAttention, At, Borrow
  <2>2. Room(3) => f'.path # "none"
    <3> DEFINE path == IF usable /\ "w16" \notin caps THEN "split"
                       ELSE IF Can({"smx"}) THEN "smx" ELSE "pipe"
    <3>1. Room(3) => f' = [NoFlags EXCEPT !.path = path, !.direct = path # "split"
          /\ Can({"wsh"})]
      BY <2>1 DEF attention_all
    <3>2. path # "none"
      OBVIOUS
    <3> HIDE DEF path
    <3> QED
      BY <3>1, <3>2 DEF NoFlags
  <2> QED
    BY <2>1, <2>2 DEF EInv, XInv, xs, Half1, Half2
<1> QED
  BY <1>1, <1>2

LEMMA Frame_EndAttention ==
  ASSUME EInv, EndAttention
  PROVE  XType' /\ XInv' /\ BgInv' /\ RowsInv'
<1>1. XType' /\ BgInv' /\ RowsInv'
  BY DEF EInv, XType, XInv, BgInv, RowsInv, EndAttention, Half1, Half2, Before, At, heap, bgs
<1>2. XInv'
  <2>1. /\ dpc = "heads" /\ dpc' = "proj" /\ apc = "ret"
        /\ act' = (IF ContextOf(m) THEN act ELSE 0)
        /\ UNCHANGED <<heap, blockNo, ver, buf, cur, stats, hasStats>>
    BY DEF EndAttention, At
  <2>2. ~arenaFailed => ContextOf(m)
    BY <2>1, CallRight DEF EInv, XInv, ContextRight
  <2> QED
    BY <2>1, <2>2 DEF EInv, XInv, heap, Half1, Half2
<1> QED
  BY <1>1, <1>2

LEMMA Frame_residual_update_proj ==
  ASSUME EInv, residual_update("proj", "proj_end")
  PROVE  XType' /\ XInv' /\ BgInv' /\ RowsInv'
<1>1. XInv' /\ BgInv'
  BY EngineAssumption DEF EInv, XType, XInv, BgInv, RowsInv, residual_update, Half1, Half2,
     Before, dav2_background_complete, Other, heap, NoDriver, NoTap
<1>2. XType'
  <2>1. /\ dpc = "proj" /\ dpc' = "proj_end" /\ bg' = NoTap /\ feats' = Made(TapRows)
        /\ UNCHANGED <<arenaFailed, blockNo>>
    BY DEF residual_update, dav2_background_complete, heap
  <2>2. TapRows \in bg.rows..TapRows
    BY EngineAssumption DEF EInv, XType
  <2>3. /\ Made(TapRows) \in [Taps -> [1..TapRows -> Nat]]
        /\ \A t \in Taps, r \in 1..TapRows : Made(TapRows)[t][r] =
             IF t = bg.tap /\ r > bg.rows
               /\ r <= TapRows THEN Same(buf[bg.from], bg.stat) ELSE feats[t][r]
    BY <2>2, MadeRight DEF EInv
  <2>4. buf' \in [1..2 -> Nat] /\ stats' = 0 /\ UNCHANGED <<ver, cur, hasStats, act>>
    BY DEF residual_update, Other, EInv, XType
  <2>5. NoTap \in [tap : Taps \cup {0}, rows : 0..TapRows, from : 1..2, stat : Nat]
    BY EngineAssumption DEF NoTap
  <2> QED
    BY <2>1, <2>3, <2>4, <2>5 DEF EInv, XType, residual_update, heap
<1>3. RowsInv'
  <2>1. /\ dpc = "proj" /\ dpc' = "proj_end" /\ bg' = NoTap /\ feats' = Made(TapRows)
        /\ UNCHANGED <<arenaFailed, blockNo>>
    BY DEF residual_update, dav2_background_complete, heap
  <2>2. TapRows \in bg.rows..TapRows
    BY EngineAssumption DEF EInv, XType
  <2>3. /\ Made(TapRows) \in [Taps -> [1..TapRows -> Nat]]
        /\ \A t \in Taps, r \in 1..TapRows : Made(TapRows)[t][r] =
             IF t = bg.tap /\ r > bg.rows
               /\ r <= TapRows THEN Same(buf[bg.from], bg.stat) ELSE feats[t][r]
    BY <2>2, MadeRight DEF EInv
  <2>4. ~arenaFailed /\ bg.tap # 0 => Same(buf[bg.from], bg.stat) = 1 + 2 * bg.tap
    BY DEF EInv, BgInv, Same
  <2>5. 0 \notin Taps /\ bg.rows \in 0..TapRows
    BY EngineAssumption DEF EInv, XType
  <2>6. ASSUME ~arenaFailed, NEW t \in Taps, NEW r \in 1..TapRows
        PROVE  /\ feats'[t][r] \in {0, 1 + 2 * t}
               /\ t < blockNo => feats'[t][r] = 1 + 2 * t
    BY <2>1, <2>3, <2>4, <2>5, <2>6 DEF EInv, RowsInv, Half1, Half2
  <2> QED
    BY <2>1, <2>6 DEF RowsInv
<1> QED
  BY <1>1, <1>2, <1>3

LEMMA Frame_residual_update_fc2 ==
  ASSUME EInv, residual_update("fc2", "fc2_end")
  PROVE  XType' /\ XInv' /\ BgInv' /\ RowsInv'
<1>1. XInv' /\ BgInv'
  BY EngineAssumption DEF EInv, XType, XInv, BgInv, RowsInv, residual_update, Half1, Half2,
     Before, dav2_background_complete, Other, heap, NoDriver, NoTap
<1>2. XType'
  <2>1. /\ dpc = "fc2" /\ dpc' = "fc2_end" /\ bg' = NoTap /\ feats' = Made(TapRows)
        /\ UNCHANGED <<arenaFailed, blockNo>>
    BY DEF residual_update, dav2_background_complete, heap
  <2>2. TapRows \in bg.rows..TapRows
    BY EngineAssumption DEF EInv, XType
  <2>3. /\ Made(TapRows) \in [Taps -> [1..TapRows -> Nat]]
        /\ \A t \in Taps, r \in 1..TapRows : Made(TapRows)[t][r] =
             IF t = bg.tap /\ r > bg.rows
               /\ r <= TapRows THEN Same(buf[bg.from], bg.stat) ELSE feats[t][r]
    BY <2>2, MadeRight DEF EInv
  <2>4. buf' \in [1..2 -> Nat] /\ stats' = 0 /\ UNCHANGED <<ver, cur, hasStats, act>>
    BY DEF residual_update, Other, EInv, XType
  <2>5. NoTap \in [tap : Taps \cup {0}, rows : 0..TapRows, from : 1..2, stat : Nat]
    BY EngineAssumption DEF NoTap
  <2> QED
    BY <2>1, <2>3, <2>4, <2>5 DEF EInv, XType, residual_update, heap
<1>3. RowsInv'
  <2>1. /\ dpc = "fc2" /\ dpc' = "fc2_end" /\ bg' = NoTap /\ feats' = Made(TapRows)
        /\ UNCHANGED <<arenaFailed, blockNo>>
    BY DEF residual_update, dav2_background_complete, heap
  <2>2. TapRows \in bg.rows..TapRows
    BY EngineAssumption DEF EInv, XType
  <2>3. /\ Made(TapRows) \in [Taps -> [1..TapRows -> Nat]]
        /\ \A t \in Taps, r \in 1..TapRows : Made(TapRows)[t][r] =
             IF t = bg.tap /\ r > bg.rows
               /\ r <= TapRows THEN Same(buf[bg.from], bg.stat) ELSE feats[t][r]
    BY <2>2, MadeRight DEF EInv
  <2>4. ~arenaFailed /\ bg.tap # 0 => Same(buf[bg.from], bg.stat) = 1 + 2 * bg.tap
    BY DEF EInv, BgInv, Same
  <2>5. 0 \notin Taps /\ bg.rows \in 0..TapRows
    BY EngineAssumption DEF EInv, XType
  <2>6. ASSUME ~arenaFailed, NEW t \in Taps, NEW r \in 1..TapRows
        PROVE  /\ feats'[t][r] \in {0, 1 + 2 * t}
               /\ t < blockNo => feats'[t][r] = 1 + 2 * t
    BY <2>1, <2>3, <2>4, <2>5, <2>6 DEF EInv, RowsInv, Half1, Half2
  <2> QED
    BY <2>1, <2>6 DEF RowsInv
<1> QED
  BY <1>1, <1>2, <1>3

LEMMA Frame_Updated_proj_end ==
  ASSUME EInv, Updated("proj_end", "ln2")
  PROVE  XType' /\ XInv' /\ BgInv' /\ RowsInv'
<1>1. XType' /\ BgInv' /\ RowsInv'
  BY EngineAssumption DEF EInv, XType, XInv, BgInv, RowsInv, Updated, Half1, Half2, Before,
     Borrow, Value, Same, Other, bgs, Room
<1>2. XInv'
  <2>1. /\ dpc = "proj_end" /\ dpc' = "ln2" /\ arenaFailed' = (arenaFailed \/ ~Room(1))
           /\ blockNo' = blockNo
        /\ cur' = Other(cur) /\ ver' = ver + 1
    BY DEF Updated, Borrow
  <2> DEFINE v == Value(1, Same(act, buf[cur]))
  <2>2. ~arenaFailed' => v = ver /\ ver > 0 /\ ver \in Nat
    <3>1. ~arenaFailed' => ~arenaFailed /\ Room(1)
      BY <2>1
    <3>2. ~arenaFailed => act = ver /\ buf[cur] = ver /\ blockNo \in 1..Blocks
                         /\ (ver = 2 * blockNo - 1 \/ ver = 2 * blockNo)
      BY <2>1 DEF EInv, XInv, Half1, Half2
    <3>3. Blocks \in Nat
      BY EngineAssumption
    <3> QED
      BY <3>1, <3>2, <3>3 DEF Value, Same
  <2>3. /\ buf' = [buf EXCEPT ![Other(cur)] = IF v = 0 THEN 0 ELSE v + 1]
        /\ stats' = IF hasStats' THEN buf'[Other(cur)] ELSE 0
    BY DEF Updated
  <2> HIDE DEF v
  <2>4. Other(cur) \in 1..2 /\ buf \in [1..2 -> Nat]
    BY DEF Other, EInv, XType
  <2>5. ~arenaFailed' => buf'[cur'] = ver' /\ (hasStats' => stats' = ver')
    BY <2>1, <2>2, <2>3, <2>4
  <2>6. ~arenaFailed' => ~arenaFailed
    BY <2>1
  <2> QED
    BY <2>1, <2>5, <2>6 DEF EInv, XInv, Half1, Half2
<1> QED
  BY <1>1, <1>2

LEMMA Frame_Updated_fc2_end ==
  ASSUME EInv, Updated("fc2_end", "tap")
  PROVE  XType' /\ XInv' /\ BgInv' /\ RowsInv'
<1>1. XType' /\ BgInv' /\ RowsInv'
  BY EngineAssumption DEF EInv, XType, XInv, BgInv, RowsInv, Updated, Half1, Half2, Before,
     Borrow, Value, Same, Other, bgs, Room
<1>2. XInv'
  <2>1. /\ dpc = "fc2_end" /\ dpc' = "tap" /\ arenaFailed' = (arenaFailed \/ ~Room(1))
           /\ blockNo' = blockNo
        /\ cur' = Other(cur) /\ ver' = ver + 1
    BY DEF Updated, Borrow
  <2> DEFINE v == Value(1, Same(act, buf[cur]))
  <2>2. ~arenaFailed' => v = ver /\ ver > 0 /\ ver \in Nat
    <3>1. ~arenaFailed' => ~arenaFailed /\ Room(1)
      BY <2>1
    <3>2. ~arenaFailed => act = ver /\ buf[cur] = ver /\ blockNo \in 1..Blocks
                         /\ (ver = 2 * blockNo - 1 \/ ver = 2 * blockNo)
      BY <2>1 DEF EInv, XInv, Half1, Half2
    <3>3. Blocks \in Nat
      BY EngineAssumption
    <3> QED
      BY <3>1, <3>2, <3>3 DEF Value, Same
  <2>3. /\ buf' = [buf EXCEPT ![Other(cur)] = IF v = 0 THEN 0 ELSE v + 1]
        /\ stats' = IF hasStats' THEN buf'[Other(cur)] ELSE 0
    BY DEF Updated
  <2> HIDE DEF v
  <2>4. Other(cur) \in 1..2 /\ buf \in [1..2 -> Nat]
    BY DEF Other, EInv, XType
  <2>5. ~arenaFailed' => buf'[cur'] = ver' /\ (hasStats' => stats' = ver')
    BY <2>1, <2>2, <2>3, <2>4
  <2>6. ~arenaFailed' => ~arenaFailed
    BY <2>1
  <2> QED
    BY <2>1, <2>5, <2>6 DEF EInv, XInv, Half1, Half2
<1> QED
  BY <1>1, <1>2

LEMMA Frame_dav2_producer_idle ==
  ASSUME EInv, dav2_producer_idle
  PROVE  XType' /\ XInv' /\ BgInv' /\ RowsInv'
<1>1. BgInv'
  BY DEF EInv, XType, XInv, BgInv, RowsInv, dav2_producer_idle, Half1, Half2, Before, heap, xs
<1>2. XType'
  <2>1. /\ bg.tap # 0 /\ bg.rows < TapRows /\ dpc \in {"qkv", "heads", "fc1"}
        /\ bg' = [bg EXCEPT !.rows = @ + 1] /\ feats' = Made(bg.rows + 1)
        /\ UNCHANGED <<dpc, heap, xs, avars>>
    BY DEF dav2_producer_idle, NoDriver
  <2>2. bg.rows + 1 \in bg.rows..TapRows /\ bg.rows \in 0..TapRows /\ TapRows \in Nat
    <3>1. bg.rows \in 0..TapRows
      BY DEF EInv, XType
    <3> QED
      BY <2>1, <3>1, EngineAssumption
  <2>3. /\ Made(bg.rows + 1) \in [Taps -> [1..TapRows -> Nat]]
        /\ \A t \in Taps, r \in 1..TapRows : Made(bg.rows + 1)[t][r] =
             IF t = bg.tap /\ r > bg.rows
               /\ r <= bg.rows + 1 THEN Same(buf[bg.from], bg.stat) ELSE feats[t][r]
    BY <2>2, MadeRight DEF EInv
  <2>4. bg' \in [tap : Taps \cup {0}, rows : 0..TapRows, from : 1..2, stat : Nat]
    <3>1. bg.rows + 1 \in 0..TapRows
      BY <2>1, <2>2
    <3> QED
      BY <2>1, <3>1 DEF EInv, XType
  <2> QED
    BY <2>1, <2>3, <2>4 DEF EInv, XType, xs, heap
<1>3. XInv'
  <2>1. UNCHANGED <<dpc, heap, xs, avars>>
    BY DEF dav2_producer_idle, NoDriver
  <2> QED
    BY <2>1 DEF EInv, XInv, xs, heap, avars
<1>4. RowsInv'
  <2>1. /\ bg.tap # 0 /\ bg.rows < TapRows /\ dpc \in {"qkv", "heads", "fc1"}
        /\ bg' = [bg EXCEPT !.rows = @ + 1] /\ feats' = Made(bg.rows + 1)
        /\ UNCHANGED <<dpc, heap, xs, avars>>
    BY DEF dav2_producer_idle, NoDriver
  <2>2. bg.rows + 1 \in bg.rows..TapRows /\ bg.rows \in 0..TapRows /\ TapRows \in Nat
    <3>1. bg.rows \in 0..TapRows
      BY DEF EInv, XType
    <3> QED
      BY <2>1, <3>1, EngineAssumption
  <2>3. /\ Made(bg.rows + 1) \in [Taps -> [1..TapRows -> Nat]]
        /\ \A t \in Taps, r \in 1..TapRows : Made(bg.rows + 1)[t][r] =
             IF t = bg.tap /\ r > bg.rows
               /\ r <= bg.rows + 1 THEN Same(buf[bg.from], bg.stat) ELSE feats[t][r]
    BY <2>2, MadeRight DEF EInv
  <2>4. ~arenaFailed => Same(buf[bg.from], bg.stat) = 1 + 2 * bg.tap
    BY <2>1 DEF EInv, BgInv, Same
  <2>5. bg'.tap = bg.tap /\ bg'.rows = bg.rows + 1
    BY <2>1 DEF EInv, XType
  <2>6. ASSUME ~arenaFailed, NEW t \in Taps, NEW r \in 1..TapRows
        PROVE  /\ feats'[t][r] \in {0, 1 + 2 * t}
               /\ t < blockNo /\ (t = bg'.tap => r <= bg'.rows) => feats'[t][r] = 1 + 2 * t
    BY <2>1, <2>2, <2>3, <2>4, <2>5, <2>6 DEF EInv, RowsInv, Half1, Half2
  <2> QED
    BY <2>1, <2>6 DEF RowsInv, heap, xs
<1> QED
  BY <1>1, <1>2, <1>3, <1>4

LEMMA Frame_dav2_lnplain_begin ==
  ASSUME EInv, dav2_lnplain_begin
  PROVE  XType' /\ XInv' /\ BgInv' /\ RowsInv'
<1>1. XInv'
  BY EngineAssumption DEF EInv, XType, XInv, BgInv, RowsInv, dav2_lnplain_begin, Half1, Half2,
     Before, dav2_arena_alloc, Room, X, bgs, heap, NoDriver
<1>2. XType'
  <2>1. /\ dpc = "tap" /\ dpc' = (IF blockNo = Blocks THEN "head" ELSE "ln1")
        /\ blockNo' = blockNo + 1 /\ UNCHANGED <<ver, buf, cur, stats, hasStats, act>>
    BY DEF dav2_lnplain_begin
  <2>2. \/ /\ blockNo \in Taps /\ Room(1) /\ feats' = Made(TapRows)
           /\ bg' = [tap |-> blockNo, rows |-> 0, from |-> cur, stat |-> X]
           /\ arenaFailed' = arenaFailed
        \/ blockNo \in Taps /\ arenaFailed' /\ UNCHANGED bgs
        \/ blockNo \notin Taps /\ arenaFailed' = arenaFailed /\ UNCHANGED bgs
    <3>1. CASE blockNo \in Taps
      <4>1. dav2_arena_alloc(1) /\ 1 \in 1..3 /\ XType
        BY <3>1 DEF dav2_lnplain_begin, EInv
      <4>2. (~Room(1) => arenaFailed') /\ (Room(1) => arenaFailed' = arenaFailed)
        BY <4>1, AllocIs
      <4> QED
        BY <3>1, <4>2 DEF dav2_lnplain_begin, bgs
    <3>2. CASE blockNo \notin Taps
      BY <3>2 DEF dav2_lnplain_begin, heap, bgs
    <3> QED
      BY <3>1, <3>2
  <2>3. TapRows \in bg.rows..TapRows /\ TapRows \in Nat
    BY EngineAssumption DEF EInv, XType
  <2>4. /\ Made(TapRows) \in [Taps -> [1..TapRows -> Nat]]
        /\ \A t \in Taps, r \in 1..TapRows : Made(TapRows)[t][r] =
             IF t = bg.tap /\ r > bg.rows
               /\ r <= TapRows THEN Same(buf[bg.from], bg.stat) ELSE feats[t][r]
    BY <2>3, MadeRight DEF EInv
  <2>5. X \in Nat /\ cur \in 1..2 /\ blockNo' \in Nat
    BY <2>1 DEF X, Same, EInv, XType
  <2>6. feats' \in [Taps -> [1..TapRows -> Nat]]
    BY <2>2, <2>4 DEF EInv, XType, bgs
  <2>7. bg' \in [tap : Taps \cup {0}, rows : 0..TapRows, from : 1..2, stat : Nat]
    BY <2>2, <2>3, <2>5 DEF EInv, XType, bgs
  <2>8. arenaFailed' \in BOOLEAN /\ used' \in Nat /\ arena' \in Nat
    <3>1. CASE blockNo \in Taps
      <4>1. dav2_arena_alloc(1) /\ 1 \in 1..3 /\ XType
        BY <3>1 DEF dav2_lnplain_begin, EInv
      <4> QED
        BY <4>1, AllocIs DEF XType
    <3>2. CASE blockNo \notin Taps
      BY <3>2 DEF dav2_lnplain_begin, heap, EInv, XType
    <3> QED
      BY <3>1, <3>2
  <2> QED
    BY <2>1, <2>5, <2>6, <2>7, <2>8 DEF EInv, XType
<1>3. BgInv'
  <2>1. /\ dpc = "tap" /\ dpc' = (IF blockNo = Blocks THEN "head" ELSE "ln1")
        /\ blockNo' = blockNo + 1 /\ UNCHANGED <<ver, buf, cur, stats, hasStats, act>>
    BY DEF dav2_lnplain_begin
  <2>2. \/ /\ blockNo \in Taps /\ Room(1) /\ feats' = Made(TapRows)
           /\ bg' = [tap |-> blockNo, rows |-> 0, from |-> cur, stat |-> X]
           /\ arenaFailed' = arenaFailed
        \/ blockNo \in Taps /\ arenaFailed' /\ UNCHANGED bgs
        \/ blockNo \notin Taps /\ arenaFailed' = arenaFailed /\ UNCHANGED bgs
    <3>1. CASE blockNo \in Taps
      <4>1. dav2_arena_alloc(1) /\ 1 \in 1..3 /\ XType
        BY <3>1 DEF dav2_lnplain_begin, EInv
      <4>2. (~Room(1) => arenaFailed') /\ (Room(1) => arenaFailed' = arenaFailed)
        BY <4>1, AllocIs
      <4> QED
        BY <3>1, <4>2 DEF dav2_lnplain_begin, bgs
    <3>2. CASE blockNo \notin Taps
      BY <3>2 DEF dav2_lnplain_begin, heap, bgs
    <3> QED
      BY <3>1, <3>2
  <2>3. TapRows \in bg.rows..TapRows /\ TapRows \in Nat
    BY EngineAssumption DEF EInv, XType
  <2>4. /\ Made(TapRows) \in [Taps -> [1..TapRows -> Nat]]
        /\ \A t \in Taps, r \in 1..TapRows : Made(TapRows)[t][r] =
             IF t = bg.tap /\ r > bg.rows
               /\ r <= TapRows THEN Same(buf[bg.from], bg.stat) ELSE feats[t][r]
    BY <2>3, MadeRight DEF EInv
  <2>5. ~arenaFailed => X = 1 + 2 * blockNo /\ buf[cur] = 1 + 2 * blockNo
    <3>1. ~arenaFailed => buf[cur] = ver /\ ver = 2 * blockNo + 1 /\ (hasStats => stats = ver)
      BY <2>1 DEF EInv, XInv, Half1, Half2
    <3> QED
      BY <3>1, XRight DEF EInv, XType
  <2>6. ~arenaFailed => bg.tap = 0
    BY <2>1 DEF EInv, BgInv, Half1
  <2> QED
    BY <2>1, <2>2, <2>5, <2>6 DEF BgInv, Before, Half1, bgs
<1>4. RowsInv'
  <2>1. /\ dpc = "tap" /\ dpc' = (IF blockNo = Blocks THEN "head" ELSE "ln1")
        /\ blockNo' = blockNo + 1 /\ UNCHANGED <<ver, buf, cur, stats, hasStats, act>>
    BY DEF dav2_lnplain_begin
  <2>2. \/ /\ blockNo \in Taps /\ Room(1) /\ feats' = Made(TapRows)
           /\ bg' = [tap |-> blockNo, rows |-> 0, from |-> cur, stat |-> X]
           /\ arenaFailed' = arenaFailed
        \/ blockNo \in Taps /\ arenaFailed' /\ UNCHANGED bgs
        \/ blockNo \notin Taps /\ arenaFailed' = arenaFailed /\ UNCHANGED bgs
    <3>1. CASE blockNo \in Taps
      <4>1. dav2_arena_alloc(1) /\ 1 \in 1..3 /\ XType
        BY <3>1 DEF dav2_lnplain_begin, EInv
      <4>2. (~Room(1) => arenaFailed') /\ (Room(1) => arenaFailed' = arenaFailed)
        BY <4>1, AllocIs
      <4> QED
        BY <3>1, <4>2 DEF dav2_lnplain_begin, bgs
    <3>2. CASE blockNo \notin Taps
      BY <3>2 DEF dav2_lnplain_begin, heap, bgs
    <3> QED
      BY <3>1, <3>2
  <2>3. TapRows \in bg.rows..TapRows /\ TapRows \in Nat
    BY EngineAssumption DEF EInv, XType
  <2>4. /\ Made(TapRows) \in [Taps -> [1..TapRows -> Nat]]
        /\ \A t \in Taps, r \in 1..TapRows : Made(TapRows)[t][r] =
             IF t = bg.tap /\ r > bg.rows
               /\ r <= TapRows THEN Same(buf[bg.from], bg.stat) ELSE feats[t][r]
    BY <2>3, MadeRight DEF EInv
  <2>5. ~arenaFailed => bg.tap = 0
    BY <2>1 DEF EInv, BgInv, Half1
  <2>6. 0 \notin Taps /\ blockNo \in Nat /\ Taps \subseteq Nat
    BY EngineAssumption DEF EInv, XType
  <2>7. ASSUME ~arenaFailed, NEW t \in Taps, NEW r \in 1..TapRows
        PROVE  /\ feats[t][r] \in {0, 1 + 2 * t}
               /\ t < blockNo => feats[t][r] = 1 + 2 * t
    BY <2>1, <2>5, <2>6, <2>7 DEF EInv, RowsInv, Half1, Half2
  <2>8. ~arenaFailed' => ~arenaFailed /\ \A t \in Taps,
      r \in 1..TapRows : feats'[t][r] = feats[t][r]
    BY <2>2, <2>4, <2>5, <2>6 DEF bgs
  <2>9. ~arenaFailed' /\ blockNo \in Taps => bg'.tap = blockNo /\ bg'.rows = 0
    BY <2>2
  <2>10. ASSUME ~arenaFailed', NEW t \in Taps, NEW r \in 1..TapRows
         PROVE  /\ feats'[t][r] \in {0, 1 + 2 * t}
                /\ t < blockNo' /\ (t = bg'.tap => r <= bg'.rows) => feats'[t][r] = 1 + 2 * t
    <3>1. feats'[t][r] = feats[t][r] /\ ~arenaFailed
      BY <2>8, <2>10
    <3>2. CASE t = blockNo
      <4>1. bg'.tap = t /\ bg'.rows = 0 /\ ~(r <= 0)
        BY <2>9, <2>10, <3>2
      <4> QED
        BY <2>7, <3>1, <4>1
    <3>3. CASE t # blockNo
      <4>1. t < blockNo' => t < blockNo
        BY <2>1, <2>6, <3>3
      <4> QED
        BY <2>7, <3>1, <4>1
    <3> QED
      BY <3>2, <3>3
  <2>11. ~arenaFailed' => blockNo \in 1..Blocks
    BY <2>1, <2>8 DEF EInv, XInv
  <2>12. dpc' = "head" => \A t \in Taps : t < blockNo'
    BY <2>1, EngineAssumption
  <2> QED
    BY <2>1, <2>10, <2>12 DEF RowsInv
<1> QED
  BY <1>1, <1>2, <1>3, <1>4

LEMMA Frame_Projections ==
  ASSUME EInv, Projections
  PROVE  XType' /\ XInv' /\ BgInv' /\ RowsInv'
<1>1. XInv' /\ BgInv'
  BY DEF XType, XInv, BgInv, RowsInv, Projections, Half1, Half2, Before,
     dav2_background_complete, dav2_arena_alloc, AfterAlloc, Value, NoTap, Room
<1>2. XType'
  <2>1. /\ dpc = "head" /\ bg' = NoTap /\ feats' = Made(TapRows) /\ dpc' \in {"fusion", "hung"}
        /\ UNCHANGED <<blockNo, ver, buf, cur, stats, hasStats>>
        /\ arenaFailed' = (arenaFailed \/ used + 1 > arena)
    BY DEF Projections, dav2_background_complete, dav2_arena_alloc, AfterAlloc
  <2>2. TapRows \in bg.rows..TapRows
    BY EngineAssumption DEF EInv, XType
  <2>3. /\ Made(TapRows) \in [Taps -> [1..TapRows -> Nat]]
        /\ \A t \in Taps, r \in 1..TapRows : Made(TapRows)[t][r] =
             IF t = bg.tap /\ r > bg.rows
               /\ r <= TapRows THEN Same(buf[bg.from], bg.stat) ELSE feats[t][r]
    BY <2>2, MadeRight DEF EInv
  <2>4. NoTap \in [tap : Taps \cup {0}, rows : 0..TapRows, from : 1..2, stat : Nat]
    BY EngineAssumption DEF NoTap
  <2>5. act' \in Nat
    BY DEF Projections, Value
  <2>6. arenaFailed' \in BOOLEAN /\ used' \in Nat /\ arena' \in Nat
    BY DEF Projections, dav2_arena_alloc, EInv, XType
  <2> QED
    BY <2>1, <2>3, <2>4, <2>5, <2>6 DEF EInv, XType
<1>3. RowsInv'
  <2>1. /\ dpc = "head" /\ bg' = NoTap /\ feats' = Made(TapRows) /\ dpc' \in {"fusion", "hung"}
        /\ UNCHANGED <<blockNo, ver, buf, cur, stats, hasStats>>
        /\ arenaFailed' = (arenaFailed \/ used + 1 > arena)
    BY DEF Projections, dav2_background_complete, dav2_arena_alloc, AfterAlloc
  <2>2. TapRows \in bg.rows..TapRows
    BY EngineAssumption DEF EInv, XType
  <2>3. /\ Made(TapRows) \in [Taps -> [1..TapRows -> Nat]]
        /\ \A t \in Taps, r \in 1..TapRows : Made(TapRows)[t][r] =
             IF t = bg.tap /\ r > bg.rows
               /\ r <= TapRows THEN Same(buf[bg.from], bg.stat) ELSE feats[t][r]
    BY <2>2, MadeRight DEF EInv
  <2>4. ~arenaFailed /\ bg.tap # 0 => Same(buf[bg.from], bg.stat) = 1 + 2 * bg.tap
    BY DEF EInv, BgInv, Same
  <2>5. 0 \notin Taps /\ bg.rows \in 0..TapRows
    BY EngineAssumption DEF EInv, XType
  <2>6. ASSUME ~arenaFailed, NEW t \in Taps, NEW r \in 1..TapRows PROVE feats'[t][r] = 1 + 2 * t
    BY <2>1, <2>3, <2>4, <2>5, <2>6 DEF EInv, RowsInv
  <2>7. ~arenaFailed' => ~arenaFailed
    BY <2>1
  <2> QED
    BY <2>1, <2>6, <2>7 DEF RowsInv, Half1, Half2
<1> QED
  BY <1>1, <1>2, <1>3

LEMMA Frame_Heading ==
  ASSUME EInv, Heading
  PROVE  XType' /\ XInv' /\ BgInv' /\ RowsInv'
<1>1. XType' /\ BgInv' /\ RowsInv'
  BY EngineAssumption DEF EInv, XType, XInv, BgInv, RowsInv, Heading, Half1, Half2, Before, heap,
     xs, bgs
<1>2. XInv'
  <2>1. dpc' = dpc /\ UNCHANGED <<heap, xs>> /\ dpc = "heads"
        /\ (AttentionStep \/ JobEnd \/ JobFails)
    BY DEF Heading
  <2>2. f'.path = f.path
    BY <2>1, PathKept DEF EInv, AInv
  <2> QED
    BY <2>1, <2>2 DEF EInv, XInv, heap, xs
<1> QED
  BY <1>1, <1>2

LEMMA FrameKept ==
  ASSUME EInv, [Next]_vars
  PROVE  XType' /\ XInv' /\ BgInv' /\ RowsInv'
<1>1. CASE ddr_init
  BY <1>1, Frame_ddr_init
<1>2. CASE Waiting
  BY <1>2, EngineAssumption DEF EInv, XType, XInv, BgInv, RowsInv, Waiting, Half1, Half2, Before,
     At, heap, xs, bgs
<1>3. CASE Weights
  BY <1>3, Frame_Weights
<1>4. CASE Ready
  BY <1>4, EngineAssumption DEF EInv, XType, XInv, BgInv, RowsInv, Ready, Half1, Half2, Before,
     At, heap, xs, bgs
<1>5. CASE ServerLoop
  BY <1>5, EngineAssumption DEF EInv, XType, XInv, BgInv, RowsInv, ServerLoop, Half1, Half2,
     Before, At, heap, xs, bgs, NoDriver
<1>6. CASE dav2_set_image
  BY <1>6, EngineAssumption DEF EInv, XType, XInv, BgInv, RowsInv, dav2_set_image, Half1, Half2,
     Before, At, heap, xs, bgs, NoDriver
<1>7. CASE Infer
  BY <1>7 DEF EInv, XType, XInv, BgInv, RowsInv, Infer, Half1, Half2, Before, heap, xs, bgs,
     NoDriver
<1>8. CASE PatchEmbedding
  BY <1>8, Frame_PatchEmbedding
<1>9. CASE LayerNorm("ln1", "qkv")
  BY <1>9, Frame_LayerNorm_ln1
<1>10. CASE LayerNorm("ln2", "fc1")
  BY <1>10, Frame_LayerNorm_ln2
<1>11. CASE QkvOrFc1("qkv", "att")
  BY <1>11, Frame_QkvOrFc1_qkv
<1>12. CASE QkvOrFc1("fc1", "fc2")
  BY <1>12, Frame_QkvOrFc1_fc1
<1>13. CASE CallAttention
  BY <1>13, Frame_CallAttention
<1>14. CASE EndAttention
  BY <1>14, Frame_EndAttention
<1>15. CASE residual_update("proj", "proj_end")
  BY <1>15, Frame_residual_update_proj
<1>16. CASE residual_update("fc2", "fc2_end")
  BY <1>16, Frame_residual_update_fc2
<1>17. CASE Updated("proj_end", "ln2")
  BY <1>17, Frame_Updated_proj_end
<1>18. CASE Updated("fc2_end", "tap")
  BY <1>18, Frame_Updated_fc2_end
<1>19. CASE dav2_producer_idle
  BY <1>19, Frame_dav2_producer_idle
<1>20. CASE dav2_lnplain_begin
  BY <1>20, Frame_dav2_lnplain_begin
<1>21. CASE Projections
  BY <1>21, Frame_Projections
<1>22. CASE Fusion
  BY <1>22, EngineAssumption DEF EInv, XType, XInv, BgInv, RowsInv, Fusion, Half1, Half2, Before,
     dav2_arena_alloc, AfterAlloc, Value, bgs
<1>23. CASE OutputConvolutions
  BY <1>23, EngineAssumption DEF EInv, XType, XInv, BgInv, RowsInv, OutputConvolutions, Half1,
     Half2, Before, dav2_arena_alloc, AfterAlloc, Value, xs, bgs, Room
<1>24. CASE Exhausted
  BY <1>24, EngineAssumption DEF EInv, XType, XInv, BgInv, RowsInv, Exhausted, Half1, Half2,
     Before, At, heap, xs, bgs
<1>25. CASE Report
  BY <1>25, EngineAssumption DEF EInv, XType, XInv, BgInv, RowsInv, Report, Half1, Half2, Before,
     At, heap, xs, bgs
<1>26. CASE AnnounceResult
  BY <1>26, EngineAssumption DEF EInv, XType, XInv, BgInv, RowsInv, AnnounceResult, Half1, Half2,
     Before, At, heap, xs, bgs
<1>27. CASE start_program
  <2>1. /\ dpc' = "boot" /\ ver' = 0 /\ buf' = [b \in 1..2 |-> 0] /\ cur' = 1 /\ stats' = 0
        /\ hasStats' = FALSE /\ act' = 0 /\ blockNo' = 1 /\ used' = 0 /\ arenaFailed' = FALSE
        /\ bg' = NoTap /\ feats' = [t \in Taps |-> NoRows] /\ arena' = arena
    BY <1>27 DEF start_program
  <2>2. \A t \in Taps, r \in 1..TapRows : feats'[t][r] = 0
    BY <2>1 DEF NoRows
  <2>3. XType'
    <3>1. TapRows \in Nat /\ arena \in Nat
      BY EngineAssumption DEF EInv, XType
    <3>2. /\ bg' \in [tap : Taps \cup {0}, rows : 0..TapRows, from : 1..2, stat : Nat]
          /\ feats' \in [Taps -> [1..TapRows -> Nat]] /\ buf' \in [1..2 -> Nat]
      BY <2>1, <3>1 DEF NoTap, NoRows
    <3>3. /\ ver' \in Nat /\ cur' \in 1..2 /\ stats' \in Nat /\ act' \in Nat
          /\ blockNo' \in Nat /\ arena' \in Nat /\ used' \in Nat
      BY <2>1, <3>1
    <3>4. hasStats' \in BOOLEAN /\ arenaFailed' \in BOOLEAN
      BY <2>1, Zenon
    <3> QED
      BY <3>2, <3>3, <3>4, Zenon DEF XType
  <2>4. XInv'
    BY <2>1 DEF XInv, Half1, Half2
  <2>5. BgInv'
    BY <2>1, <2>2 DEF BgInv, Before, NoTap
  <2>6. RowsInv'
    BY <2>1, <2>2 DEF RowsInv, Half1, Half2
  <2> QED
    BY <2>3, <2>4, <2>5, <2>6
<1>28. CASE Heading
  BY <1>28, Frame_Heading
<1>29. CASE UNCHANGED vars \/ Over \/ TimeOut \/ (Script /\ ~start_program)
  <2>1. UNCHANGED <<dpc, heap, xs, bgs, f>>
    BY <1>29 DEF vars, avars, Over, TimeOut, Script, Board, wait_for_marker, load_blob,
       verify_blob,
       WriteMagic, AwaitIdle, send_image, run_frame, fetch_result, NextSession
  <2> QED
    BY <2>1, Unmoved
<1> QED
  BY <1>1, <1>2, <1>3, <1>4, <1>5, <1>6, <1>7, <1>8, <1>9, <1>10, <1>11, <1>12, <1>13, <1>14,
     <1>15, <1>16, <1>17, <1>18, <1>19, <1>20, <1>21, <1>22, <1>23, <1>24, <1>25, <1>26, <1>27,
         <1>28, <1>29 DEF Next, Program, Script

(* Through a frame (dav2_infer, dav2_encoder_forward, dav2_dpt_head in     *)
(* dav2_engine.c), while the arena lasts: x is the version its block is    *)
(* at, in the buffer named by cur; the statistics kept for a LayerNorm are *)
(* those of x; and the tap whose rows the background makes is read from a  *)
(* buffer that still holds its x.                                          *)
THEOREM FrameInvariant == Spec => []EInv
<1>1. Init => EInv
  BY InitRight, FramePrepared DEF EInv
<1>2. EInv /\ [Next]_vars => EInv'
  <2> SUFFICES ASSUME EInv, [Next]_vars PROVE EInv'
    OBVIOUS
  <2>1. AInv'
    BY NextRight DEF EInv
  <2>2. XType' /\ XInv' /\ BgInv' /\ RowsInv'
    BY FrameKept
  <2> QED
    BY <2>1, <2>2 DEF EInv
<1> QED
  BY <1>1, <1>2, PTL DEF Spec

(* Each row of a tap's features is made of the x its block left, with the  *)
(* statistics of that x, even when the rows are made in the background     *)
(* while the next block goes on and writes x again; and the fusion begins  *)
(* with every row made (dav2_producer_idle and dav2_lnplain_begin,         *)
(* dav2_engine.c).                                                         *)
THEOREM TapsCorrect == Spec => []TapsRight
<1>1. EInv => TapsRight
  <2> SUFFICES ASSUME EInv, ~arenaFailed, NEW t \in Taps, NEW r \in 1..TapRows
               PROVE  feats[t][r] \in {0, 1 + 2 * t} /\ (dpc = "fusion" => feats[t][r] # 0)
    BY DEF TapsRight
  <2>1. t \in Nat
    BY EngineAssumption
  <2> QED
    BY <2>1 DEF EInv, RowsInv
<1> QED
  BY <1>1, FrameInvariant, PTL

---------------------------------------------------------------------------
(* The script and the program.  The program prints END once per image, and *)
(* until the script writes dav2_go again it stays where the result is the  *)
(* one announced.                                                          *)
Words   == {"WAITING", "READY", "line", "END"}
Opening == {"await_WAITING", "load", "verify", "magic", "await_READY"}
Loaded  == {"verify", "magic", "await_READY", "await_idle", "send", "go", "await_END", "fetch"}
Quietly == {"boot", "waiting", "weights", "ready", "loop", "idle", "fatal"}
Taken   == {"ln1", "qkv", "att", "heads", "proj", "proj_end", "ln2", "fc1", "fc2", "fc2_end",
            "tap", "head", "fusion", "output"}
Unread  == "END" \notin Range(ring)
Unseen  == Unread /\ "END" \notin seen
Whole   == intact /\ file = "engine"
Depth(r, k) == r.image = Image(session, k) /\ (r.right \/ r.skewed)
Answer  == Whole => Depth(result, frame)
SavedInv ==
  /\ frame \in Nat \ {0} /\ session \in Nat
  /\ Whole => \A k \in DOMAIN saved : Depth(saved[k], k)
  /\ hpc \in Opening \cup {"start"} => frame = 1
  /\ hpc = "start" => seen = {}
BlobInv ==
  intact /\ hpc \in Loaded => blob.head = file /\ blob.whole
IdleLoop ==
  /\ ring \in Seq(Words)
  /\ go = GO_DONE => dpc = "idle"
  /\ hpc \in Opening => go # GO_FRAME /\ dpc \in Quietly /\ Unseen
  /\ hpc \in {"fetch", "await_idle"} => dpc \in Quietly /\ (dpc = "idle" => go # GO_FRAME)
     /\ Unread
  /\ hpc = "await_idle" => Unseen
  /\ hpc \in {"send", "go"} => go = GO_DONE /\ Unseen
AnswerInv ==
  /\ dpc \in {"fusion", "output"} /\ ~arenaFailed => act = 1
  /\ hpc \in {"go", "await_END"} /\ intact => image = Image(session, frame)
  /\ hpc = "await_END" =>
       /\ dpc \in Taken => used_by = image
       /\ (dpc = "report" /\ ~arenaFailed) \/ dpc = "result" => Answer
       /\ ~Unseen => dpc \in {"loop", "idle"} /\ (dpc = "idle" => go # GO_FRAME) /\ Answer
  /\ hpc = "fetch" => Answer
FInv == EInv /\ SavedInv /\ BlobInv /\ IdleLoop /\ AnswerInv

(* What the console gains: a line that is not END keeps the ring without   *)
(* END.                                                                    *)
LEMMA RingGrows ==
  ASSUME ring \in Seq(Words), NEW w \in Words, obuf_putc(w)
  PROVE  ring' \in Seq(Words) /\ Range(ring') = Range(ring) \cup {w}
<1>1. ring' = Append(ring, w)
  BY DEF obuf_putc
<1>2. ring' \in Seq(Words) /\ DOMAIN ring' = 1..(Len(ring) + 1) /\ DOMAIN ring = 1..Len(ring)
      /\ Len(ring) \in Nat
  BY <1>1
<1>3. \A i \in DOMAIN ring : ring'[i] = ring[i]
  BY <1>1
<1>4. ring'[Len(ring) + 1] = w
  BY <1>1
<1> QED
  BY <1>2, <1>3, <1>4 DEF Range

LEMMA RingEmpty == Range(<<>>) = {} /\ <<>> \in Seq(Words)
BY DEF Range

(* AnswerInv and its companions are kept by each step of the program and   *)
(* of the script that touches what they name.                              *)
LEMMA Answer_Infer ==
  ASSUME FInv, Infer
  PROVE  SavedInv' /\ BlobInv' /\ IdleLoop' /\ AnswerInv'
<1>1. SavedInv' /\ BlobInv' /\ IdleLoop'
  BY DEF FInv, SavedInv, BlobInv, IdleLoop, AnswerInv, Infer, Quietly, Unseen, Unread, Taken,
     Answer, Whole, Depth, Loaded, con, heap, Dev, out, mem, host
<1>2. AnswerInv'
  <2>1. /\ dpc = "infer" /\ dpc' \in {"embed", "report"}
        /\ dpc' = "report" => blob.head # "engine"
        /\ UNCHANGED <<go, con, heap, xs, bgs, out, mem, host>>
    BY DEF Infer, dav2_blob_check, Dev
  <2>2. dpc' = "report" /\ hpc = "await_END" => ~Whole
    BY <2>1 DEF FInv, BlobInv, Loaded, Whole
  <2> QED
    BY <2>1, <2>2 DEF FInv, AnswerInv, Answer, Whole, Depth, Loaded, Unread, Unseen, Taken, con,
       heap, xs, out, mem, host
<1> QED
  BY <1>1, <1>2

LEMMA Answer_Projections ==
  ASSUME FInv, Projections
  PROVE  SavedInv' /\ BlobInv' /\ IdleLoop' /\ AnswerInv'
<1>1. SavedInv' /\ BlobInv' /\ IdleLoop'
  BY DEF FInv, SavedInv, BlobInv, IdleLoop, AnswerInv, Projections, Quietly, Unseen, Unread, Taken,
     Answer, Whole, Depth, Loaded, con, Dev, out, mem, host
<1>2. AnswerInv'
  <2>1. /\ dpc = "head" /\ dpc' \in {"fusion", "hung"}
        /\ UNCHANGED <<go, ring, exited, used_by, skewed, result, mem, hpc, session, frame, seen>>
        /\ act' = Value(1, IF \A t \in Taps, r \in 1..TapRows : feats'[t][r] = 1 + 2 * t
                           THEN 1 ELSE 0)
        /\ dav2_arena_alloc(1) /\ 1 \in 1..3 /\ XType
    BY DEF Projections, AfterAlloc, Dev, con, out, mem, host, FInv, EInv
  <2>2. ~arenaFailed' => Room(1) /\ ~arenaFailed
    BY <2>1, AllocIs
  <2>3. ASSUME dpc' = "fusion", ~arenaFailed' PROVE act' = 1
    <3>1. \A t \in Taps, r \in 1..TapRows : feats'[t][r] = 1 + 2 * t
      BY <2>3, Frame_Projections DEF RowsInv, FInv
    <3>2. act' = Value(1, 1)
      BY <2>1, <3>1
    <3> QED
      BY <2>2, <2>3, <3>2 DEF Value
  <2> QED
    BY <2>1, <2>3 DEF FInv, AnswerInv, Answer, Whole, Depth, Unread, Unseen, Taken, mem
<1> QED
  BY <1>1, <1>2

LEMMA Answer_Fusion ==
  ASSUME FInv, Fusion
  PROVE  SavedInv' /\ BlobInv' /\ IdleLoop' /\ AnswerInv'
<1>1. SavedInv' /\ BlobInv' /\ IdleLoop'
  BY DEF FInv, SavedInv, BlobInv, IdleLoop, AnswerInv, Fusion, Quietly, Unseen, Unread, Taken,
     Answer, Whole, Depth, Loaded, con, Dev, out, mem, host
<1>2. AnswerInv'
  <2>1. /\ dpc = "fusion" /\ dpc' \in {"output", "hung"} /\ act' = Value(1, act)
        /\ UNCHANGED <<go, ring, exited, used_by, skewed, result, mem, hpc, session, frame, seen>>
        /\ dav2_arena_alloc(1) /\ 1 \in 1..3 /\ XType
    BY DEF Fusion, AfterAlloc, Dev, con, out, mem, host, FInv, EInv
  <2>2. ~arenaFailed' => Room(1) /\ ~arenaFailed
    BY <2>1, AllocIs
  <2>3. ~arenaFailed' => act' = 1
    BY <2>1, <2>2 DEF Value, FInv, AnswerInv
  <2> QED
    BY <2>1, <2>3 DEF FInv, AnswerInv, Answer, Whole, Depth, Unread, Unseen, Taken, mem
<1> QED
  BY <1>1, <1>2

LEMMA Answer_OutputConvolutions ==
  ASSUME FInv, OutputConvolutions
  PROVE  SavedInv' /\ BlobInv' /\ IdleLoop' /\ AnswerInv'
<1>1. SavedInv' /\ BlobInv' /\ IdleLoop'
  BY DEF FInv, SavedInv, BlobInv, IdleLoop, AnswerInv, OutputConvolutions, Image, Opening, Words,
     GO_DONE, GO_FRAME, Quietly, Unseen, Unread, Taken, Answer, Whole, Depth, Loaded, con, Dev,
     out, mem, host
<1>2. AnswerInv'
  <2>1. /\ dpc = "output" /\ dpc' \in {"report", "hung"}
        /\ result'.image = used_by /\ result'.skewed = skewed
        /\ result'.right = (Value(1, act) = 1 /\ blob.whole /\ ~skewed)
        /\ UNCHANGED <<go, ring, exited, used_by, mem, hpc, session, frame, seen>>
        /\ dav2_arena_alloc(1) /\ 1 \in 1..3 /\ XType
    BY DEF OutputConvolutions, AfterAlloc, Dev, con, out, mem, host, FInv, EInv
  <2>2. ~arenaFailed' => Room(1) /\ ~arenaFailed
    BY <2>1, AllocIs
  <2>3. ~arenaFailed' => Value(1, act) = 1
    BY <2>1, <2>2 DEF Value, FInv, AnswerInv
  <2>4. hpc = "await_END" => /\ used_by = image /\ Unseen
                             /\ intact => image = Image(session, frame) /\ blob.whole
    BY <2>1 DEF FInv, AnswerInv, BlobInv, Taken, Loaded
  <2>5. ~arenaFailed' /\ hpc = "await_END" => Answer'
    <3> SUFFICES ASSUME ~arenaFailed', hpc = "await_END", Whole' PROVE Depth(result, frame)'
      BY DEF Answer
    <3>1. intact /\ frame' = frame /\ session' = session
      BY <2>1 DEF Whole, mem
    <3>2. result'.image = Image(session', frame')
      BY <2>1, <2>4, <3>1 DEF Image
    <3>3. result'.right \/ result'.skewed
      <4>1. CASE skewed
        BY <2>1, <4>1, Zenon
      <4>2. CASE ~skewed
        BY <2>1, <2>3, <2>4, <3>1, <4>2, Zenon
      <4> QED
        BY <4>1, <4>2
    <3> QED
      BY <3>2, <3>3 DEF Depth
  <2>6. hpc # "fetch"
    BY <2>1 DEF FInv, IdleLoop, Quietly
  <2> QED
    BY <2>1, <2>4, <2>5, <2>6 DEF FInv, AnswerInv, Unread, Unseen, Taken, mem
<1> QED
  BY <1>1, <1>2

LEMMA Answer_Report ==
  ASSUME FInv, Report
  PROVE  SavedInv' /\ BlobInv' /\ IdleLoop' /\ AnswerInv'
<1>1. /\ dpc = "report" /\ dpc' = "result" /\ ~arenaFailed /\ obuf_putc("line")
      /\ blob.head = "engine" => result' = result
      /\ UNCHANGED <<go, exited, heap, xs, used_by, mem, host>>
  BY DEF Report, dav2_blob_check, Dev, At
<1>2. ring' \in Seq(Words) /\ Range(ring') = Range(ring) \cup {"line"}
  BY <1>1, RingGrows DEF FInv, IdleLoop, Words
<1>3. Unseen' <=> Unseen
  BY <1>1, <1>2 DEF Unseen, Unread, host
<1>4. SavedInv' /\ BlobInv'
  BY <1>1 DEF FInv, SavedInv, BlobInv, Whole, Depth, mem, host
<1>5. hpc \notin Opening \cup {"fetch", "await_idle", "send", "go"} /\ go # GO_DONE
  BY <1>1 DEF FInv, IdleLoop, Quietly
<1>6. IdleLoop'
  BY <1>1, <1>2, <1>5 DEF IdleLoop, host
<1>7. hpc = "await_END" => Answer' /\ Unseen
  <2>1. hpc = "await_END" => Answer /\ Unseen
    BY <1>1 DEF FInv, AnswerInv
  <2>2. hpc = "await_END" /\ Whole => result' = result
    BY <1>1 DEF FInv, BlobInv, Loaded, Whole
  <2> QED
    BY <1>1, <2>1, <2>2 DEF Answer, Whole, Depth, mem, host
<1>8. AnswerInv'
  BY <1>1, <1>3, <1>5, <1>7 DEF FInv, AnswerInv, Taken, mem, host, heap, xs
<1> QED
  BY <1>4, <1>6, <1>8

LEMMA Answer_wait_for_marker_await_END ==
  ASSUME FInv, wait_for_marker("await_END", "END", "fetch")
  PROVE  SavedInv' /\ BlobInv' /\ IdleLoop' /\ AnswerInv'
<1>1. SavedInv'
  BY DEF FInv, SavedInv, wait_for_marker, Opening, Whole, Depth, mem
<1>4. BlobInv'
  BY DEF FInv, BlobInv, wait_for_marker, Loaded, mem
<1>2. AnswerInv'
  BY RingEmpty DEF FInv, SavedInv, BlobInv, IdleLoop, AnswerInv, wait_for_marker, GO_FRAME,
     Quietly, Unseen, Unread, Taken, Answer, Whole, Depth, Loaded, mem, Board, out, Same, heap, xs,
     bgs
<1>3. IdleLoop'
  <2>1. /\ hpc = "await_END" /\ hpc' \in {"await_END", "fetch", "raised"}
        /\ hpc' = "fetch" => ring' = <<>> /\ "END" \in seen'
        /\ \/ ring' = <<>> /\ seen' = seen \cup Range(ring)
           \/ ring' = ring /\ seen' = seen
        /\ UNCHANGED <<dpc, go, image, used_by, result>>
    BY DEF wait_for_marker, Board, out, mem
  <2>2. ring' \in Seq(Words)
    BY <2>1, RingEmpty DEF FInv, IdleLoop
  <2>3. ASSUME hpc' = "fetch"
        PROVE  dpc \in Quietly /\ (dpc = "idle" => go # GO_FRAME) /\ Unread'
    <3>1. ring' = <<>> /\ ~Unseen
      BY <2>1, <2>3 DEF wait_for_marker, Unseen, Unread
    <3>2. Unread'
      BY <3>1, RingEmpty DEF Unread
    <3> QED
      BY <2>1, <3>1, <3>2 DEF FInv, AnswerInv, Quietly
  <2> QED
    BY <2>1, <2>2, <2>3 DEF FInv, IdleLoop, Opening
<1> QED
  BY <1>1, <1>2, <1>3, <1>4

LEMMA AnswerKept ==
  ASSUME FInv, [Next]_vars
  PROVE  SavedInv' /\ BlobInv' /\ IdleLoop' /\ AnswerInv'
<1>1. CASE ddr_init
  BY <1>1 DEF FInv, SavedInv, BlobInv, IdleLoop, AnswerInv, ddr_init, Image, Opening, Words,
     GO_DONE, GO_FRAME, Quietly, Unseen, Unread, Taken, Answer, Whole, Depth, Loaded, heap, Dev,
     out, mem, host
<1>2. CASE Waiting
  BY <1>2, RingGrows DEF FInv, SavedInv, BlobInv, IdleLoop, AnswerInv, Waiting, Image, Opening,
     Words, GO_DONE, GO_FRAME, Quietly, Unseen, Unread, Taken, Answer, Whole, Depth, Loaded, At,
     heap, Dev, out, mem, host
<1>3. CASE Weights
  BY <1>3 DEF FInv, SavedInv, BlobInv, IdleLoop, AnswerInv, Weights, Quietly, Unseen, Unread,
     Taken, Answer, Whole, Depth, Loaded, At, GO_MAGIC, con, Dev, out, mem, host
<1>4. CASE Ready
  BY <1>4, RingGrows DEF FInv, SavedInv, BlobInv, IdleLoop, AnswerInv, Ready, Image, Opening,
     Words, GO_DONE, GO_FRAME, Quietly, Unseen, Unread, Taken, Answer, Whole, Depth, Loaded, At,
     heap, Dev, out, mem, host
<1>5. CASE ServerLoop
  BY <1>5 DEF FInv, SavedInv, BlobInv, IdleLoop, AnswerInv, ServerLoop, Image, Opening, Words,
     GO_DONE, GO_FRAME, Quietly, Unseen, Unread, Taken, Answer, Whole, Depth, Loaded, At, con,
     heap, Dev, out, mem, host
<1>6. CASE dav2_set_image
  BY <1>6, RingGrows DEF FInv, SavedInv, BlobInv, IdleLoop, AnswerInv, dav2_set_image, Image,
     Opening, Words, GO_DONE, GO_FRAME, Quietly, Unseen, Unread, Taken, Answer, Whole, Depth,
     Loaded, At, heap, Dev, out, mem, host
<1>7. CASE Infer
  BY <1>7, Answer_Infer
<1>8. CASE PatchEmbedding
  BY <1>8 DEF FInv, SavedInv, BlobInv, IdleLoop, AnswerInv, PatchEmbedding, NoImage, Quietly,
     Unseen, Unread, Taken, Answer, Whole, Depth, Loaded, dav2_arena_alloc, AfterAlloc, Value,
     NoRows, con, Dev, Same, Room, out, mem, host
<1>9. CASE LayerNorm("ln1", "qkv")
  BY <1>9 DEF FInv, SavedInv, BlobInv, IdleLoop, AnswerInv, LayerNorm, NoImage, Quietly, Unseen,
     Unread, Taken, Answer, Whole, Depth, Loaded, Borrow, AfterAlloc, Value, Same, con, bgs, Dev,
     Room, out, mem, host
<1>10. CASE LayerNorm("ln2", "fc1")
  BY <1>10 DEF FInv, SavedInv, BlobInv, IdleLoop, AnswerInv, LayerNorm, NoImage, Quietly, Unseen,
     Unread, Taken, Answer, Whole, Depth, Loaded, Borrow, AfterAlloc, Value, Same, con, bgs, Dev,
     Room, out, mem, host
<1>11. CASE QkvOrFc1("qkv", "att")
  BY <1>11 DEF FInv, SavedInv, BlobInv, IdleLoop, AnswerInv, QkvOrFc1, NoImage, Quietly, Unseen,
     Unread, Taken, Answer, Whole, Depth, Loaded, Borrow, AfterAlloc, Value, con, bgs, Dev, Same,
     Room, out, mem, host
<1>12. CASE QkvOrFc1("fc1", "fc2")
  BY <1>12 DEF FInv, SavedInv, BlobInv, IdleLoop, AnswerInv, QkvOrFc1, NoImage, Quietly, Unseen,
     Unread, Taken, Answer, Whole, Depth, Loaded, Borrow, AfterAlloc, Value, con, bgs, Dev, Same,
     Room, out, mem, host
<1>13. CASE CallAttention
  BY <1>13 DEF FInv, SavedInv, BlobInv, IdleLoop, AnswerInv, CallAttention, Quietly, Unseen,
     Unread, Taken, Answer, Whole, Depth, Loaded, At, con, Dev, out, mem, host
<1>14. CASE EndAttention
  BY <1>14 DEF FInv, SavedInv, BlobInv, IdleLoop, AnswerInv, EndAttention, Quietly, Unseen, Unread,
     Taken, Answer, Whole, Depth, Loaded, At, con, heap, Dev, out, mem, host
<1>15. CASE residual_update("proj", "proj_end")
  BY <1>15 DEF FInv, SavedInv, BlobInv, IdleLoop, AnswerInv, residual_update, Quietly, Unseen,
     Unread, Taken, Answer, Whole, Depth, Loaded, con, heap, Dev, out, mem, host
<1>16. CASE residual_update("fc2", "fc2_end")
  BY <1>16 DEF FInv, SavedInv, BlobInv, IdleLoop, AnswerInv, residual_update, Quietly, Unseen,
     Unread, Taken, Answer, Whole, Depth, Loaded, con, heap, Dev, out, mem, host
<1>17. CASE Updated("proj_end", "ln2")
  BY <1>17 DEF FInv, SavedInv, BlobInv, IdleLoop, AnswerInv, Updated, Quietly, Unseen, Unread,
     Taken, Answer, Whole, Depth, Loaded, con, Dev, out, mem, host
<1>18. CASE Updated("fc2_end", "tap")
  BY <1>18 DEF FInv, SavedInv, BlobInv, IdleLoop, AnswerInv, Updated, Quietly, Unseen, Unread,
     Taken, Answer, Whole, Depth, Loaded, con, Dev, out, mem, host
<1>19. CASE dav2_producer_idle
  BY <1>19 DEF FInv, SavedInv, BlobInv, IdleLoop, AnswerInv, dav2_producer_idle, Quietly, Unseen,
     Unread, Taken, Answer, Whole, Depth, Loaded, con, heap, Dev, out, mem, host
<1>20. CASE dav2_lnplain_begin
  BY <1>20 DEF FInv, SavedInv, BlobInv, IdleLoop, AnswerInv, dav2_lnplain_begin, Quietly, Unseen,
     Unread, Taken, Answer, Whole, Depth, Loaded, heap, con, Dev, out, mem, host
<1>21. CASE Projections
  BY <1>21, Answer_Projections
<1>22. CASE Fusion
  BY <1>22, Answer_Fusion
<1>23. CASE OutputConvolutions
  BY <1>23, Answer_OutputConvolutions
<1>24. CASE Exhausted
  BY <1>24, RingGrows DEF FInv, SavedInv, BlobInv, IdleLoop, AnswerInv, Exhausted, Image, Opening,
     Words, GO_DONE, GO_FRAME, Quietly, Unseen, Unread, Taken, Answer, Whole, Depth, Loaded, At,
     heap, Dev, out, mem, host
<1>25. CASE Report
  BY <1>25, Answer_Report
<1>26. CASE AnnounceResult
  BY <1>26, RingGrows DEF FInv, SavedInv, BlobInv, IdleLoop, AnswerInv, AnnounceResult, Image,
     Opening, Words, GO_DONE, GO_FRAME, Quietly, Unseen, Unread, Taken, Answer, Whole, Depth,
     Loaded, At, heap, Dev, out, mem, host
<1>27. CASE start_program
  BY <1>27, RingEmpty DEF FInv, SavedInv, BlobInv, IdleLoop, AnswerInv, start_program, Image,
     Opening, Words, GO_DONE, GO_FRAME, Quietly, Unseen, Unread, Taken, Answer, Whole, Depth,
     Loaded, HostAt, mem, heap
<1>28. CASE Heading
  BY <1>28 DEF FInv, SavedInv, BlobInv, IdleLoop, AnswerInv, Heading, Quietly, Unseen, Unread,
     Taken, Answer, Whole, Depth, Loaded, con, heap, Dev, out, mem, host
<1>29. CASE wait_for_marker("await_WAITING", "WAITING", "load")
  BY <1>29, RingEmpty DEF FInv, SavedInv, BlobInv, IdleLoop, AnswerInv, wait_for_marker, Image,
     Opening, Words, GO_DONE, GO_FRAME, Quietly, Unseen, Unread, Taken, Answer, Whole, Depth,
     Loaded, mem, Board, out, heap
<1>30. CASE load_blob
  <2>a. \/ blob' = [head |-> file, whole |-> TRUE] /\ UNCHANGED intact
        \/ intact' = FALSE
    BY <1>30 DEF load_blob
  <2>b. intact' => blob' = [head |-> file, whole |-> TRUE] /\ intact
    BY <2>a
  <2>1. /\ hpc = "load" /\ hpc' = "verify" /\ (intact' => intact)
        /\ intact' => blob' = [head |-> file, whole |-> TRUE]
        /\ UNCHANGED <<dpc, go, con, heap, image, file, out, session, frame, seen, saved, act>>
    BY <1>30, <2>b DEF load_blob, HostAt, Quiet, Board, xs
  <2>2. SavedInv' /\ BlobInv'
    BY <2>1 DEF FInv, SavedInv, BlobInv, Opening, Whole, Depth, out
  <2>3. ring' = ring /\ arenaFailed' = arenaFailed /\ (Unseen' <=> Unseen)
    BY <2>1 DEF con, heap, Unseen, Unread
  <2>4. IdleLoop'
    BY <2>1, <2>3 DEF FInv, IdleLoop, Opening
  <2>5. AnswerInv'
    BY <2>1, <2>3 DEF FInv, AnswerInv
  <2> QED
    BY <2>2, <2>4, <2>5
<1>31. CASE verify_blob
  BY <1>31 DEF FInv, SavedInv, BlobInv, IdleLoop, AnswerInv, verify_blob, Image, Opening, Words,
     GO_DONE, GO_FRAME, Quietly, Unseen, Unread, Taken, Answer, Whole, Depth, Loaded, con, mem,
     Quiet, Board, out, heap
<1>32. CASE WriteMagic
  BY <1>32 DEF FInv, SavedInv, BlobInv, IdleLoop, AnswerInv, WriteMagic, Image, Opening, Words,
     GO_DONE, GO_FRAME, Quietly, Unseen, Unread, Taken, Answer, Whole, Depth, Loaded, HostAt,
     GO_MAGIC, con, mem, Quiet, Board, out
<1>33. CASE wait_for_marker("await_READY", "READY", "await_idle")
  BY <1>33, RingEmpty DEF FInv, SavedInv, BlobInv, IdleLoop, AnswerInv, wait_for_marker, Image,
     Opening, Words, GO_DONE, GO_FRAME, Quietly, Unseen, Unread, Taken, Answer, Whole, Depth,
     Loaded, mem, Board, out, heap
<1>34. CASE AwaitIdle
  BY <1>34 DEF FInv, SavedInv, BlobInv, IdleLoop, AnswerInv, AwaitIdle, Image, Opening, Words,
     GO_DONE, GO_FRAME, Quietly, Unseen, Unread, Taken, Answer, Whole, Depth, Loaded, HostAt, con,
     mem, Quiet, Board, out, heap
<1>35. CASE send_image
  BY <1>35 DEF FInv, SavedInv, BlobInv, IdleLoop, AnswerInv, send_image, Image, Opening, Words,
     GO_DONE, GO_FRAME, Quietly, Unseen, Unread, Taken, Answer, Whole, Depth, Loaded, HostAt, con,
     Quiet, Board, out, heap
<1>36. CASE run_frame
  BY <1>36 DEF FInv, SavedInv, BlobInv, IdleLoop, AnswerInv, run_frame, Image, Opening, Words,
     GO_DONE, GO_FRAME, Quietly, Unseen, Unread, Taken, Answer, Whole, Depth, Loaded, HostAt, con,
     mem, Quiet, Board, out, heap
<1>37. CASE wait_for_marker("await_END", "END", "fetch")
  BY <1>37, Answer_wait_for_marker_await_END
<1>38. CASE fetch_result
  BY <1>38 DEF FInv, SavedInv, BlobInv, IdleLoop, AnswerInv, fetch_result, Image, Opening, Words,
     GO_DONE, GO_FRAME, Quietly, Unseen, Unread, Taken, Answer, Whole, Depth, Loaded, con, mem,
     Board, out, heap
<1>39. CASE TimeOut
  <2>1. /\ hpc' = "raised"
        /\ UNCHANGED <<dpc, go, con, mem, heap, out, session, frame, seen, saved, act>>
    BY <1>39 DEF TimeOut, Quiet, Board, xs
  <2> QED
    BY <2>1 DEF FInv, SavedInv, BlobInv, IdleLoop, AnswerInv, Opening, Loaded, Unseen, Unread,
       Whole, Depth, con, mem, heap, out
<1>40. CASE NextSession
  BY <1>40 DEF FInv, SavedInv, BlobInv, IdleLoop, AnswerInv, NextSession, NoImage, X, Image,
     Opening, Words, GO_DONE, GO_FRAME, Quietly, Unseen, Unread, Taken, Answer, Whole, Depth,
     Loaded, con, mem, Board, out, Same, heap, xs, bgs
<1>41. CASE UNCHANGED vars \/ Over
  <2>1. UNCHANGED vars
    BY <1>41 DEF Over
  <2>2. UNCHANGED <<dpc, go, con, mem, heap, xs, out, host>>
    BY <2>1 DEF vars
  <2>3. SavedInv' /\ BlobInv'
    BY <2>2 DEF FInv, SavedInv, BlobInv, Whole, Depth, mem, host
  <2>4. IdleLoop' /\ AnswerInv'
    BY <2>2 DEF FInv, IdleLoop, AnswerInv, Answer, Whole, Depth, Unread, Unseen, con, mem, heap,
       xs, out, host
  <2> QED
    BY <2>3, <2>4
<1> QED
  BY <1>1, <1>2, <1>3, <1>4, <1>5, <1>6, <1>7, <1>8, <1>9, <1>10, <1>11, <1>12, <1>13, <1>14,
     <1>15, <1>16, <1>17, <1>18, <1>19, <1>20, <1>21, <1>22, <1>23, <1>24, <1>25, <1>26, <1>27,
         <1>28, <1>29, <1>30, <1>31, <1>32, <1>33, <1>34, <1>35, <1>36, <1>37, <1>38, <1>39,
             <1>40, <1>41 DEF Next, Program, Script

(* Through a session of the board script (tools/dav2_run_fpga.py) and the  *)
(* frame server (main.c): END is printed once per image, and until the     *)
(* script writes dav2_go again the server stays in its loop or idle, with  *)
(* the result it announced.                                                *)
THEOREM SessionInvariant == Spec => []FInv
<1>1. Init => FInv
  <2> SUFFICES ASSUME Init PROVE FInv
    OBVIOUS
  <2>1. EInv
    BY InitRight, FramePrepared DEF EInv
  <2>2. /\ hpc = "start" /\ dpc = "off" /\ go = "0" /\ frame = 1 /\ session = 1 /\ seen = {}
        /\ saved = <<>> /\ ring = <<>>
    BY DEF Init
  <2>3. SavedInv /\ BlobInv
    <3>1. DOMAIN saved = {}
      BY <2>2
    <3> QED
      BY <2>2, <3>1 DEF SavedInv, BlobInv, Loaded
  <2>4. IdleLoop
    BY <2>2, RingEmpty DEF IdleLoop, Opening, GO_DONE
  <2>5. AnswerInv
    BY <2>2 DEF AnswerInv
  <2> QED
    BY <2>1, <2>3, <2>4, <2>5 DEF FInv
<1>2. FInv /\ [Next]_vars => FInv'
  <2> SUFFICES ASSUME FInv, [Next]_vars PROVE FInv'
    OBVIOUS
  <2>1. EInv
    BY DEF FInv
  <2>2. AInv'
    BY <2>1, NextRight DEF EInv
  <2>3. XType' /\ XInv' /\ BgInv' /\ RowsInv'
    BY <2>1, FrameKept
  <2>4. SavedInv' /\ BlobInv' /\ IdleLoop' /\ AnswerInv'
    BY AnswerKept
  <2> QED
    BY <2>2, <2>3, <2>4 DEF EInv, FInv
<1> QED
  BY <1>1, <1>2, PTL DEF Spec

(* While image and weights arrive whole, and the weights are of the        *)
(* engine's version, each depth file the script has saved is that of the   *)
(* image sent in that turn of that session, and right but for a softmax    *)
(* that took another head's q shift (main.c, dav2_engine.c,                *)
(* tools/dav2_run_fpga.py): also after sessions in which they were not.    *)
THEOREM FramesAreAnswered == Spec => []FrameAnswered
<1>1. FInv => FrameAnswered
  BY DEF FInv, SavedInv, FrameAnswered, Whole, Depth
<1> QED
  BY <1>1, SessionInvariant, PTL

=============================================================================
