---------------------------- MODULE QgemmProofs ----------------------------
(* Proofs about Qgemm: however the accelerator declines or fails the jobs  *)
(* of a quantised operation or of a LayerNorm, and however often it is     *)
(* done again, the caller gets the right result and the arena is given     *)
(* back; and about Fixed: what its multiplications, scales, tables and     *)
(* resampling compute, for every operand.                                  *)
EXTENDS MCQgemm, FiniteSetTheorems, WellFoundedInduction, SequenceTheorems, TLAPS

(* The parts of TypeOK, one per component of the state.                    *)
TDrv == usable \in BOOLEAN /\ caps \subseteq Caps /\ pend \in Jobs /\ blk \in {"run", "ok", "bad"}
TCtl == pc \in PCs /\ op \in OpType
TMem == marks \in Seq(Nat) /\ used \in Nat /\ arenaFailed \in BOOLEAN /\ noOnchip \in Nat
TProd == /\ made \in BOOLEAN /\ rect \in BOOLEAN /\ useOnchip \in BOOLEAN
         /\ run \in 0..2 /\ tiles \in BOOLEAN /\ acc \in Value /\ chip \in Value
TRng == /\ slot \in [1..StatRows -> {"empty", "max", "both"}] /\ r \in Nat \ {0}
        /\ ext \subseteq {"empty", "max", "both", "wrong"}
        /\ rngUsed \in BOOLEAN /\ torn \in BOOLEAN
TRq == /\ dpar \in BOOLEAN /\ par \in [1..Chunks -> Value] /\ x2 \in Value
       /\ chunk \in [1..Chunks -> Value] /\ lut \in BOOLEAN
       /\ rstBuf \in {"no", "asked", "sums_only"}
TRes == /\ z \in Value /\ zst \in Value \cup {"none"} /\ half \in 1..2
        /\ out \in Value /\ rstOut \in Value \cup {"no"} /\ cext \in Value

---------------------------------------------------------------------------
(* The stages of a call: before the product is there, while its row ranges *)
(* are taken, while the output is made, after it, and the stages of        *)
(* LayerNorm.                                                              *)
Before  == {"relu", "alloc", "conv", "im2col", "gemm", "cpu_gemm"}
Ranging == {"range", "pass"}
After   == {"ext2", "ext2fin", "prepare", "rows", "success", "declined", "convert"}
Final   == {"leave", "unwind", "returned"}
Norming == {"ln", "ln_a", "ln_b", "ln_z", "ln_cpu", "rq", "rq_plain", "rq_cpu"}
Active  == pc \notin {"idle", "unwind", "returned"}

(* Every mark is that of an empty arena, there is one per call in progress *)
(* and qgemm_no_onchip counts those that were redone.                      *)
ArenaInv ==
  /\ \A i \in 1..Len(marks) : marks[i] = 0
  /\ pc \in {"idle", "unwind", "returned"} => used = 0
  /\ pc \in {"idle", "returned"} => noOnchip = 0 /\ marks = <<>>
  /\ pc = "unwind" => noOnchip = Len(marks) /\ marks # <<>>
  /\ Active => Len(marks) = noOnchip + 1

(* A job is left running only where it will be collected, and only while   *)
(* the block is usable; so the second redo is without the block.           *)
RedoInv ==
  /\ pend # NoJob => usable /\ pc \in {"range", "pass", "ext2fin", "rows"}
  /\ noOnchip <= 2
  /\ noOnchip = 2 => ~usable
  /\ pc = "redo" => noOnchip = 0 \/ (~usable /\ noOnchip = 1)
  /\ Active /\ useOnchip => noOnchip = 0

AllBoth == \A k \in 1..StatRows : slot[k] = "both"

(* Which product may still be tried, and that nothing of the output is     *)
(* there before it: the ReLU is applied at most once.                      *)
StartInv ==
  /\ rect => op.cv /\ op.in_relu
  /\ pc \in {"gemm", "cpu_gemm"} => (rect <=> op.cv /\ op.in_relu)
  /\ pc \in {"conv", "im2col"} => op.cv
  /\ pc \in {"im2col", "cpu_gemm"} => ~useOnchip
  /\ pc \in Before => run = 0 /\ ~tiles
  /\ pc \in Before \cup {"range"} => r = 1 /\ ext = {}
  /\ pc \in Before \cup Ranging => par = [c \in 1..Chunks |-> "junk"]

(* While the row ranges are taken, what the job of the product left is     *)
(* right as soon as the job ended well, and a half-written row was seen    *)
(* only by a pass that will be done again.                                 *)
RangeInv ==
  pc \in Ranging =>
    /\ useOnchip => tiles
    /\ tiles => run # 0
    /\ run = 2 <=> pend # NoJob
    /\ pend # NoJob => pend = Job(IF useOnchip THEN "chip" ELSE "acc", 0)
    /\ run # 2 \/ blk = "ok" => Result = "right" /\ (tiles => AllBoth)
    /\ pc = "pass" => /\ run = 2 => tiles
                      /\ torn \/ ext \subseteq {"both"} \/ (run = 2 /\ blk = "bad")

(* The output is made from a right product, with parameters that come from *)
(* right extremes unless the pass was torn.                                *)
AfterInv ==
  pc \in After =>
    /\ Result = "right"
    /\ ~torn => ext \subseteq {"both"} /\ \A c \in 1..Chunks : par[c] \in {"junk", "right"}
    /\ pc = "ext2fin" => /\ pend = Job("ext2", 0)
                         /\ blk = "ok" /\ ~torn => x2 = "right"
    /\ pc \in {"prepare", "rows", "success"} => (dpar /\ WantExt /\ ~torn => x2 = "right")
    /\ pc = "success" => (torn \/ out = "right")

(* The chunks already handed over are right, but for the one whose job is  *)
(* still running or failed.                                                *)
RowsInv ==
  pc = "rows" =>
    /\ r \in 1..(Chunks + 1)
    /\ pend = IF r = 1 THEN NoJob ELSE Job("chunk", r - 1)
    /\ r > 1 => EpiNeeds \subseteq caps /\ Is("requant") /\ rstBuf # "sums_only"
    /\ ~torn => \A c \in 1..(r - 1) :
         /\ dpar \/ par[c] = "right"
         /\ chunk[c] = "right" \/ (c = r - 1 /\ blk # "ok")

(* The output is junk until it is whole; a call that ends with junk has    *)
(* run out of arena.                                                       *)
OutInv ==
  /\ pc \in Before \cup Ranging \cup (After \ {"success"}) \cup {"redo"} => out = "junk"
  /\ pc \in Before \cup Ranging \cup After => rstOut = "no"
  /\ pc \in Final => \/ arenaFailed \/ torn
                     \/ out = "right" /\ rstOut \in {"no", "right"} /\ (WantExt => cext = "right")

(* LayerNorm: z and its statistics are right before they are requantised.  *)
NormInv ==
  /\ op.ln => ~op.ext
  /\ pc \in Norming => op.ln /\ rstOut = "no"
  /\ pc \in {"ln", "ln_a", "ln_b", "ln_cpu"} => zst = "none"
  /\ pc \in {"rq", "rq_plain", "rq_cpu"} /\ half = 2 => z = "right" /\ zst \in {"none", "right"}

(* The inductive invariant.                                                *)
IInv == /\ TDrv /\ TCtl /\ TMem /\ TProd /\ TRng /\ TRq /\ TRes
        /\ ArenaInv /\ RedoInv /\ StartInv /\ RangeInv /\ AfterInv /\ RowsInv /\ OutInv /\ NormInv

---------------------------------------------------------------------------
(* What the helpers of the actions leave behind.                           *)
LEMMA ClearTyped ==
  ASSUME Clear
  PROVE  /\ rect' = FALSE /\ useOnchip' = FALSE /\ run' \in 0..2 /\ tiles' = FALSE
         /\ acc' \in Value /\ chip' \in Value
         /\ (torn' \in BOOLEAN => TRng')
         /\ TRq'
<1>1. /\ rect' = FALSE /\ useOnchip' = FALSE /\ run' \in 0..2 /\ tiles' = FALSE
      /\ acc' \in Value /\ chip' \in Value
  BY DEF Clear, Value
<1>2. torn' \in BOOLEAN => TRng'
  <2>1. slot' \in [1..StatRows -> {"empty", "max", "both"}]
    BY DEF Clear
  <2>2. r' = 1 /\ ext' = {} /\ rngUsed' = FALSE
    BY DEF Clear
  <2>3. r' \in Nat \ {0} /\ ext' \subseteq {"empty", "max", "both", "wrong"}
    BY <2>2
  <2>4. rngUsed' \in BOOLEAN
    BY <2>2
  <2> QED
    BY <2>1, <2>3, <2>4 DEF TRng
<1>3. TRq'
  <2>1. par' \in [1..Chunks -> Value] /\ chunk' \in [1..Chunks -> Value]
    BY DEF Clear, Value
  <2>2. dpar' = FALSE /\ x2' \in Value /\ lut' = FALSE /\ rstBuf' = "no"
    BY DEF Clear, Value
  <2> QED
    BY <2>1, <2>2 DEF TRq
<1> QED
  BY <1>1, <1>2, <1>3

LEMMA MarkPopped ==
  ASSUME NEW s \in Seq(Nat), s # <<>>
  PROVE  /\ Len(s) \in Nat \ {0}
         /\ SubSeq(s, 1, Len(s) - 1) \in Seq(Nat) /\ Len(SubSeq(s, 1, Len(s) - 1)) = Len(s) - 1
         /\ \A i \in 1..(Len(s) - 1) : SubSeq(s, 1, Len(s) - 1)[i] = s[i]
         /\ SubSeq(s, 1, Len(s) - 1) = <<>> <=> Len(s) = 1
<1> DEFINE t == SubSeq(s, 1, Len(s) - 1)
<1>1. Len(s) \in Nat \ {0} /\ \A i \in 1..(Len(s) - 1) : s[i] \in Nat
  BY EmptySeq, ElementOfSeq
<1>2. /\ t \in Seq(Nat) /\ Len(t) = IF 1 <= Len(s) - 1 THEN (Len(s) - 1) - 1 + 1 ELSE 0
      /\ \A i \in 1..((Len(s) - 1) - 1 + 1) : t[i] = s[1 + i - 1]
  BY <1>1, SubSeqProperties
<1>3. Len(s) = 1 => t = <<>>
  BY SubSeqEmpty
<1> HIDE DEF t
<1>4. Len(t) = Len(s) - 1
  <2>1. Len(s) \in Nat \ {0}
    BY <1>1
  <2>2. Len(t) = IF 1 <= Len(s) - 1 THEN (Len(s) - 1) - 1 + 1 ELSE 0
    BY <1>2
  <2>3. \A n \in Nat \ {0} : (IF 1 <= n - 1 THEN (n - 1) - 1 + 1 ELSE 0) = n - 1
    OBVIOUS
  <2> QED
    BY <2>1, <2>2, <2>3
<1>5. \A i \in 1..(Len(s) - 1) : t[i] = s[i]
  BY <1>1, <1>2
<1>6. t = <<>> => Len(s) = 1
  BY <1>1, <1>4, EmptySeq
<1>7. /\ Len(s) \in Nat \ {0} /\ t \in Seq(Nat) /\ Len(t) = Len(s) - 1
      /\ (\A i \in 1..(Len(s) - 1) : t[i] = s[i]) /\ (t = <<>> <=> Len(s) = 1)
  BY <1>1, <1>2, <1>3, <1>4, <1>5, <1>6
<1> QED
  BY <1>7 DEF t
---------------------------------------------------------------------------
(* The product.                                                            *)
LEMMA AllocTyped ==
  ASSUME TMem, NEW fits \in BOOLEAN, NEW k \in Nat, Alloc(k, fits)
  PROVE  used' \in Nat /\ arenaFailed' \in BOOLEAN
BY DEF TMem, Alloc

(* The four entry points are tried alike: each applies the ReLU asked for  *)
(* exactly once, and the next to be tried can still do so.                 *)
LEMMA ProductTried ==
  ASSUME IInv, ConvOnchip \/ ConvDdr \/ GemmOnchip \/ GemmDdr
  PROVE  \E accepted \in BOOLEAN, byBlock \in BOOLEAN, where \in {"acc", "chip"},
            else \in {"conv", "im2col", "gemm", "cpu_gemm"} :
           /\ TryProduct(accepted, where, byBlock, else) /\ Product(byBlock) = "right"
           /\ pc \in {"conv", "gemm"} /\ (accepted => usable)
           /\ useOnchip' = (useOnchip /\ pc' = "range") /\ (where = "chip" <=> useOnchip)
           /\ (else \in {"conv", "im2col"} => op.cv) /\ (else = "conv" => useOnchip)
           /\ else \in {"gemm", "cpu_gemm"} => (rect <=> op.cv /\ op.in_relu)
           /\ else \in {"im2col", "cpu_gemm"} => ~useOnchip
           /\ ProductUnchanged
<1> USE DEF IInv, TCtl, TProd, StartInv, Product, ReluOk, ByBlock, OpType
<1>0. op.cv \in BOOLEAN /\ op.in_relu \in BOOLEAN /\ rect \in BOOLEAN /\ useOnchip \in BOOLEAN
  OBVIOUS
<1>1. CASE ConvOnchip
  <2>1. TryProduct(usable /\ Is("conv") /\ Is("single") /\ ReluFits, "chip", ByBlock, "conv")
    BY <1>1 DEF ConvOnchip
  <2>2. pc = "conv" /\ useOnchip /\ useOnchip' = (pc' = "range") /\ ProductUnchanged
    BY <1>1 DEF ConvOnchip
  <2>3. Product(ByBlock) = "right" /\ ByBlock \in BOOLEAN
    BY <1>0, <2>2
  <2>4. (usable /\ Is("conv") /\ Is("single") /\ ReluFits) \in BOOLEAN
    BY DEF TDrv, Is, ReluFits
  <2> QED
    BY <1>0, <2>1, <2>2, <2>3, <2>4
<1>2. CASE ConvDdr
  <2>1. TryProduct(usable /\ Is("conv") /\ ReluFits, "acc", ByBlock, "im2col")
    BY <1>2 DEF ConvDdr
  <2>2. pc = "conv" /\ ~useOnchip /\ useOnchip' = useOnchip /\ ProductUnchanged
    BY <1>2 DEF ConvDdr
  <2>3. Product(ByBlock) = "right" /\ ByBlock \in BOOLEAN
    BY <1>0, <2>2
  <2>4. (usable /\ Is("conv") /\ ReluFits) \in BOOLEAN
    BY DEF TDrv, Is, ReluFits
  <2> QED
    BY <1>0, <2>1, <2>2, <2>3, <2>4
<1>3. CASE GemmOnchip
  <2>1. TryProduct(usable /\ Is("gemm") /\ Is("single"), "chip", FALSE, "gemm")
    BY <1>3 DEF GemmOnchip
  <2>2. pc = "gemm" /\ useOnchip /\ useOnchip' = (pc' = "range") /\ ProductUnchanged
    BY <1>3 DEF GemmOnchip
  <2>3. Product(FALSE) = "right"
    BY <1>0, <2>2
  <2>4. (usable /\ Is("gemm") /\ Is("single")) \in BOOLEAN
    BY DEF TDrv, Is
  <2> QED
    BY <1>0, <2>1, <2>2, <2>3, <2>4
<1>4. CASE GemmDdr
  <2>1. TryProduct(usable /\ Is("gemm"), "acc", FALSE, "cpu_gemm")
    BY <1>4 DEF GemmDdr
  <2>2. pc = "gemm" /\ ~useOnchip /\ useOnchip' = useOnchip /\ ProductUnchanged
    BY <1>4 DEF GemmDdr
  <2>3. Product(FALSE) = "right"
    BY <1>0, <2>2
  <2>4. (usable /\ Is("gemm")) \in BOOLEAN
    BY DEF TDrv, Is
  <2> QED
    BY <1>0, <2>1, <2>2, <2>3, <2>4
<1> QED
  BY <1>1, <1>2, <1>3, <1>4

LEMMA ProductKept ==
  ASSUME IInv, ConvOnchip \/ ConvDdr \/ GemmOnchip \/ GemmDdr PROVE IInv'
<1>1. PICK accepted \in BOOLEAN, byBlock \in BOOLEAN, where \in {"acc", "chip"},
           else \in {"conv", "im2col", "gemm", "cpu_gemm"} :
           /\ TryProduct(accepted, where, byBlock, else) /\ Product(byBlock) = "right"
           /\ pc \in {"conv", "gemm"} /\ (accepted => usable)
           /\ useOnchip' = (useOnchip /\ pc' = "range") /\ (where = "chip" <=> useOnchip)
           /\ (else \in {"conv", "im2col"} => op.cv) /\ (else = "conv" => useOnchip)
           /\ else \in {"gemm", "cpu_gemm"} => (rect <=> op.cv /\ op.in_relu)
           /\ else \in {"im2col", "cpu_gemm"} => ~useOnchip
           /\ ProductUnchanged
  BY ProductTried
<1>2. /\ UNCHANGED <<caps, op, marks, noOnchip, rect, r, ext, rngUsed, torn>>
      /\ UNCHANGED <<dpar, par, x2, chunk, lut, rstBuf>>
      /\ UNCHANGED <<out, rstOut, cext, z, zst, half>>
  BY <1>1 DEF ProductUnchanged, rq, res, norm
<1>3. pend = NoJob /\ (noOnchip = 2 => ~usable) /\ (useOnchip => noOnchip = 0)
  BY <1>1 DEF IInv, RedoInv, Active
<1>4. CASE accepted /\ pc' = "range" /\ usable' = usable
  <2>0. PICK stats \in BOOLEAN :
          /\ made' = TRUE /\ Alloc(1, stats \/ ~Is("single")) /\ tiles' = stats
          /\ where = "chip" => stats
          /\ \/ /\ run' = 2 /\ Launch(Job(where, 0))
                /\ slot' = [i \in 1..StatRows |-> "empty"]
                /\ IF where = "acc" THEN acc' = "wrong" /\ UNCHANGED chip
                                    ELSE chip' = "wrong" /\ UNCHANGED acc
             \/ /\ run' = 1 /\ UNCHANGED drv
                /\ slot' = [i \in 1..StatRows |-> IF stats THEN "both" ELSE "empty"]
                /\ IF where = "acc" THEN acc' = Product(byBlock) /\ UNCHANGED chip
                                    ELSE chip' = Product(byBlock) /\ UNCHANGED acc
    BY <1>1, <1>4 DEF TryProduct, Goto
  <2>1. used' \in Nat /\ arenaFailed' \in BOOLEAN
    BY <2>0, AllocTyped DEF IInv, Is
  <2>2. \/ /\ run' = 2 /\ pend' = Job(where, 0) /\ blk' = "run"
           /\ slot' \in [1..StatRows -> {"empty", "max", "both"}] /\ acc' \in Value
              /\ chip' \in Value
        \/ /\ run' = 1 /\ pend' = pend /\ blk' = blk
           /\ slot' \in [1..StatRows -> {"empty", "max", "both"}] /\ (tiles' => AllBoth')
           /\ IF where = "acc" THEN acc' = "right" /\ chip' = chip
                               ELSE chip' = "right" /\ acc' = acc
    BY <1>1, <2>0 DEF Launch, drv, IInv, TProd, Value, AllBoth
  <2>3. TDrv' /\ TCtl'
    BY <1>1, <1>2, <1>4, <2>2 DEF IInv, TDrv, TCtl, Jobs, Job, NoJob, PCs
  <2>4. TMem' /\ TRq' /\ TRes'
    BY <1>2, <2>1 DEF IInv, TMem, TRq, TRes
  <2>5. TProd'
    BY <1>1, <1>2, <2>0, <2>2 DEF IInv, TProd, Value
  <2>6. TRng'
    BY <1>2, <2>1, <2>2 DEF IInv, TRng
  <2>7. ArenaInv' /\ RedoInv'
    BY <1>1, <1>2, <1>3, <1>4, <2>2 DEF IInv, ArenaInv, RedoInv, Active, NoJob
  <2>8. StartInv'
    BY <1>1, <1>2, <1>4 DEF IInv, StartInv, Before, Ranging
  <2>9. RangeInv'
    <3>1. useOnchip' <=> where = "chip"
      BY <1>1, <1>4 DEF IInv, TProd
    <3>2. (useOnchip' => tiles') /\ (tiles' => run' # 0)
      BY <2>0, <2>2, <3>1
    <3>3. (run' = 2 <=> pend' # NoJob) /\ (pend' # NoJob => pend' = Job(where, 0))
      BY <1>3, <2>2 DEF Job, NoJob
    <3>4. run' # 2 \/ blk' = "ok" => Result' = "right" /\ (tiles' => AllBoth')
      BY <2>2, <3>1 DEF Result
    <3> QED
      BY <1>1, <1>4, <3>1, <3>2, <3>3, <3>4 DEF RangeInv
  <2>10. AfterInv' /\ RowsInv' /\ NormInv'
    BY <1>2, <1>4 DEF IInv, AfterInv, RowsInv, NormInv, After, Norming
  <2>11. OutInv'
    BY <1>1, <1>2, <1>4 DEF IInv, OutInv, Before, Ranging, After, Final
  <2> QED
    BY <2>3, <2>4, <2>5, <2>6, <2>7, <2>8, <2>9, <2>10, <2>11 DEF IInv
<1>5. CASE pc' = else
  <2>1. /\ pend' = pend /\ blk' = blk /\ run' = run
        /\ usable' = usable \/ usable' = FALSE
        /\ tiles' = tiles \/ tiles' = FALSE
        /\ UNCHANGED <<made, slot, used, arenaFailed>>
        /\ acc' \in {acc, "wrong"} /\ chip' \in {chip, "wrong"}
    BY <1>1, <1>5 DEF TryProduct, Goto, drv
  <2>2. ~useOnchip'
    BY <1>1, <1>5
  <2>3. TDrv' /\ TMem'
    BY <1>2, <2>1 DEF IInv, TDrv, TMem
  <2>9. TCtl' /\ TRng' /\ TRq' /\ TRes'
    BY <1>2, <1>5, <2>1 DEF IInv, TCtl, TRng, TRq, TRes, PCs
  <2>4. TProd'
    BY <1>1, <1>2, <2>1 DEF IInv, TProd, Value
  <2>5. ArenaInv'
    BY <1>1, <1>2, <1>5 DEF IInv, ArenaInv, Active
  <2>10. RedoInv'
    <3>1. noOnchip' <= 2 /\ pend' = NoJob /\ ~useOnchip' /\ pc' # "redo"
      BY <1>2, <1>3, <1>5, <2>1, <2>2 DEF IInv, RedoInv
    <3>2. noOnchip' = 2 => ~usable'
      BY <1>2, <1>3, <2>1
    <3> QED
      BY <3>1, <3>2 DEF RedoInv
  <2>6. StartInv'
    <3>1. run = 0 /\ ~tiles /\ r = 1 /\ ext = {} /\ par = [c \in 1..Chunks |-> "junk"]
          /\ (rect => op.cv /\ op.in_relu)
      BY <1>1 DEF IInv, StartInv, Before
    <3>2. op.cv \in BOOLEAN /\ op.in_relu \in BOOLEAN /\ rect \in BOOLEAN
      BY DEF IInv, TCtl, TProd, OpType
    <3>3. rect' = rect /\ op' = op /\ ~useOnchip' /\ ~tiles' /\ pc' = else
      BY <1>2, <1>5, <2>1, <2>2, <3>1
    <3>4. else \in {"gemm", "cpu_gemm"} => (rect <=> op.cv /\ op.in_relu)
      BY <1>1
    <3>5. pc' \in {"conv", "im2col"} => op.cv
      BY <1>1, <1>5
    <3> QED
      BY <1>2, <2>1, <3>1, <3>3, <3>4, <3>5 DEF StartInv
  <2>7. RangeInv' /\ AfterInv' /\ RowsInv' /\ NormInv'
    BY <1>1, <1>2, <1>5 DEF IInv, RangeInv, AfterInv, RowsInv, NormInv, Ranging, After, Norming
  <2>8. OutInv'
    BY <1>1, <1>2, <1>5 DEF IInv, OutInv, Before, Ranging, After, Final
  <2> QED
    BY <2>3, <2>4, <2>5, <2>6, <2>7, <2>8, <2>9, <2>10 DEF IInv
<1> QED
  BY <1>1, <1>4, <1>5 DEF TryProduct, Launch, Goto, drv

---------------------------------------------------------------------------
(* Each action keeps the invariant: the parts whose reason is not plain    *)
(* first, then those that follow from the action and the part itself.      *)
LEMMA InputReluKept == ASSUME IInv, InputRelu PROVE IInv'
<1>1. TMem'
  <2>1. used' \in Nat /\ arenaFailed' \in BOOLEAN
    BY AllocTyped DEF IInv, InputRelu, TMem
  <2> QED
    BY <2>1 DEF IInv, TMem, InputRelu
<1>2. OutInv'
  <2>1. /\ pc = "relu" /\ pc' \in {"alloc", "leave"} /\ (pc' = "leave" => arenaFailed')
        /\ out' = out /\ rstOut' = rstOut
    BY DEF InputRelu, Alloc, Goto, res
  <2> QED
    BY <2>1 DEF IInv, OutInv, Before, Ranging, After, Final
<1>3. NormInv'
  <2>1. op' = op /\ zst' = zst /\ pc' \in {"alloc", "leave"}
    BY DEF InputRelu, Goto, res, norm
  <2> QED
    BY <2>1 DEF IInv, NormInv, Norming
<1> USE DEF IInv, InputRelu, Has, dav2_producer_complete, Alloc, Goto, Rectify, drv, rng, rq, res,
     norm
<1>4. ArenaInv' /\ RedoInv'
  BY DEF ArenaInv, RedoInv, Active, NoJob
<1>5. StartInv' /\ RangeInv'
  BY DEF StartInv, RangeInv, Before, Ranging, NoJob, Job, Result, AllBoth
<1>6. AfterInv' /\ RowsInv'
  BY DEF AfterInv, RowsInv, After, Result, Job, WantExt, NoJob, EpiNeeds, Is, HasRes
<1>7. TDrv'
  BY DEF TDrv, Jobs, Job, NoJob
<1>8. TCtl'
  BY DEF TCtl, PCs
<1>9. TProd'
  BY SizesAssumption DEF TProd, ArenaInv, TCtl, TRng, Active, Value
<1>10. TRng'
  BY DEF TRng
<1>11. TRq'
  BY DEF TRq, Value
<1>12. TRes'
  BY DEF TRes, Value
<1> QED
  BY <1>1, <1>2, <1>3, <1>4, <1>5, <1>6, <1>7, <1>8, <1>9, <1>10, <1>11, <1>12

LEMMA AllocAccKept == ASSUME IInv, AllocAcc PROVE IInv'
<1>1. OutInv'
  <2>1. /\ pc = "alloc" /\ pc' \in {"conv", "gemm", "leave"} /\ (pc' = "leave" => arenaFailed')
        /\ out' = out /\ rstOut' = rstOut
    BY DEF AllocAcc, Alloc, Goto, res
  <2> QED
    BY <2>1 DEF IInv, OutInv, Before, Ranging, After, Final
<1>2. NormInv'
  <2>1. op' = op /\ zst' = zst /\ pc' \in {"conv", "gemm", "leave"}
    BY DEF AllocAcc, Goto, res, norm
  <2> QED
    BY <2>1 DEF IInv, NormInv, Norming
<1> USE DEF IInv, AllocAcc, Alloc, Goto, OnchipFits, drv, rng, rq, res, Has, Is, norm
<1>3. TDrv' /\ TCtl' /\ TMem' /\ TProd' /\ TRng' /\ TRq' /\ TRes'
  BY DEF TDrv, TCtl, TMem, TProd, TRng, TRq, TRes, Jobs, Job, NoJob, PCs, Value
<1>4. ArenaInv' /\ RedoInv'
  BY DEF ArenaInv, RedoInv, TProd, Active
<1>5. StartInv' /\ RangeInv'
  BY DEF StartInv, RangeInv, Before, Ranging, NoJob, Job, Result, AllBoth
<1>6. AfterInv' /\ RowsInv'
  BY DEF AfterInv, RowsInv, After, Result, Job, WantExt, NoJob, EpiNeeds, HasRes
<1> QED
  BY <1>1, <1>2, <1>3, <1>4, <1>5, <1>6

LEMMA Im2colKept == ASSUME IInv, Im2col PROVE IInv'
<1>1. OutInv'
  <2>1. /\ pc = "im2col" /\ pc' \in {"gemm", "leave"} /\ (pc' = "leave" => arenaFailed')
        /\ out' = out /\ rstOut' = rstOut
    BY DEF Im2col, Alloc, Goto, res
  <2> QED
    BY <2>1 DEF IInv, OutInv, Before, Ranging, After, Final
<1>2. NormInv'
  <2>1. op' = op /\ zst' = zst /\ pc' \in {"gemm", "leave"}
    BY DEF Im2col, Goto, res, norm
  <2> QED
    BY <2>1 DEF IInv, NormInv, Norming
<1> USE DEF IInv, Im2col, dav2_producer_complete, Alloc, Goto, drv, rng, rq, res, norm
<1>3. ArenaInv' /\ RedoInv'
  BY DEF ArenaInv, RedoInv, Active, NoJob
<1>4. StartInv' /\ RangeInv'
  BY DEF StartInv, RangeInv, TProd, Before, Ranging
<1>5. AfterInv' /\ RowsInv'
  BY DEF AfterInv, RowsInv, After, Result, Job, WantExt, NoJob, EpiNeeds, Is, HasRes
<1>6. TDrv'
  BY DEF TDrv, Jobs, Job, NoJob
<1>7. TCtl'
  BY DEF TCtl, PCs
<1>8. TMem'
  BY DEF TMem
<1>9. TProd'
  BY SizesAssumption DEF TProd, ArenaInv, TCtl, TRng, Active, Value
<1>10. TRng'
  BY DEF TRng
<1>11. TRq'
  BY DEF TRq, Value
<1>12. TRes'
  BY DEF TRes, Value
<1> QED
  BY <1>1, <1>2, <1>3, <1>4, <1>5, <1>6, <1>7, <1>8, <1>9, <1>10, <1>11, <1>12

LEMMA CpuGemmKept == ASSUME IInv, CpuGemm PROVE IInv'
<1> USE DEF IInv, CpuGemm, dav2_producer_complete, Product, Goto, drv, mem, rng, rq, res, ReluOk,
     norm
<1>1. TDrv' /\ TCtl' /\ TMem' /\ TProd' /\ TRng' /\ TRq' /\ TRes'
  BY DEF TDrv, TCtl, TMem, TProd, TRng, TRq, TRes, Jobs, Job, NoJob, PCs, Value
<1>2. ArenaInv' /\ RedoInv'
  BY DEF ArenaInv, RedoInv, Active, NoJob
<1>3. StartInv' /\ RangeInv'
  BY DEF StartInv, RangeInv, RedoInv, Before, Result
<1>4. AfterInv' /\ RowsInv'
  BY DEF AfterInv, RowsInv, After, Result, Job, WantExt, NoJob, EpiNeeds, Is, HasRes
<1>5. OutInv' /\ NormInv'
  BY DEF OutInv, NormInv, Before, Ranging, After, Final, WantExt, Norming, HasRes
<1> QED
  BY <1>1, <1>2, <1>3, <1>4, <1>5

LEMMA AfterProductKept == ASSUME IInv, AfterProduct PROVE IInv'
<1>a. /\ pc = "range" /\ UNCHANGED <<caps, op, marks, used, arenaFailed, noOnchip, made, rect>>
      /\ UNCHANGED <<useOnchip, tiles, acc, chip, slot, r, ext, torn, par>>
  BY DEF AfterProduct, mem, rq
<1>b. \/ /\ run # 0 /\ pc' = "pass" /\ run' = 1 /\ pend' = NoJob /\ (usable' <=> usable)
         /\ pend # NoJob => blk = "ok"
      \/ /\ run # 0 /\ pc' = "redo" /\ pend # NoJob /\ pend' = NoJob /\ ~usable'
      \/ /\ run = 0 \/ tiles
         /\ pc' = "pass" /\ run' = run /\ usable' = usable /\ pend' = pend /\ blk' = blk
  BY DEF AfterProduct, Collect, Ended, FinishOk, Redo, Goto, drv, IInv, TDrv, TProd
<1>1. TProd'
  <2>1. run' = run \/ run' = 1
    BY DEF AfterProduct
  <2> QED
    BY <2>1 DEF IInv, TProd, AfterProduct
<1>2. RedoInv'
  <2>1. noOnchip \in Nat
    BY DEF IInv, TMem
  <2> QED
    BY <1>a, <1>b, <2>1 DEF IInv, RedoInv, Active
<1>3. StartInv'
  BY <1>a, <1>b DEF IInv, StartInv, Before, Ranging
<1>4. RangeInv'
  <2>1. ext = {} /\ Result' = Result /\ (AllBoth' <=> AllBoth)
    BY <1>a DEF IInv, StartInv, Result, AllBoth
  <2> QED
    BY <1>a, <1>b, <2>1 DEF IInv, RangeInv, Ranging
<1>5. AfterInv'
  <2>1. pc' \in {"pass", "redo"}
    BY <1>b
  <2> QED
    BY <2>1 DEF AfterInv, After
<1>6. RowsInv'
  BY <1>b DEF RowsInv
<1>7. OutInv'
  <2>1. pc' \in {"pass", "redo"} /\ out' = out /\ rstOut' = rstOut
    BY <1>b DEF AfterProduct, res
  <2> QED
    BY <1>a, <2>1 DEF IInv, OutInv, Before, Ranging, After, Final
<1>8. NormInv'
  <2>1. pc' \in {"pass", "redo"}
    BY <1>b
  <2> QED
    BY <1>a, <2>1 DEF IInv, NormInv, Norming
<1>9. ArenaInv'
  BY <1>a, <1>b DEF IInv, ArenaInv, Active
<1> USE DEF IInv, AfterProduct, RngTry, Collect, FinishOk, Goto, Redo, drv, mem, rq, res, Has,
     Ended, NoJob, norm
<1>10. TDrv'
  BY SizesAssumption DEF TDrv, ArenaInv, TCtl, TRng, Active, Jobs, Job
<1>11. TCtl'
  BY SizesAssumption DEF TCtl, ArenaInv, TRng, Active, PCs
<1>12. TMem'
  BY DEF TMem
<1>13. TRng'
  BY SizesAssumption DEF TRng, ArenaInv, TCtl, Active
<1>14. TRq'
  BY DEF TRq, Value
<1>15. TRes'
  BY DEF TRes, Value
<1> QED
  BY <1>1, <1>2, <1>3, <1>4, <1>5, <1>6, <1>7, <1>8, <1>9, <1>10, <1>11, <1>12, <1>13, <1>14,
     <1>15

LEMMA RangeRowKept == ASSUME IInv, RangeRow PROVE IInv'
<1>a. r \in 1..StatRows /\ slot[r] \in {"empty", "max", "both"}
  BY SizesAssumption DEF IInv, TRng, RangeRow
<1>1. TRng'
  <2>1. slot' = slot /\ rngUsed' = rngUsed /\ r' \in Nat \ {0}
    BY DEF IInv, TRng, RangeRow
  <2>2. ext' \subseteq {"empty", "max", "both", "wrong"}
    BY <1>a DEF IInv, TRng, RangeRow
  <2>3. torn' \in BOOLEAN
    BY DEF IInv, TRng, TProd, RangeRow
  <2> QED
    BY <2>1, <2>2, <2>3 DEF IInv, TRng
<1>2. RangeInv'
  <2>1. /\ pc = "pass" /\ pc' = pc /\ (tiles => Arrived) /\ Result' = Result
        /\ UNCHANGED <<pend, blk, useOnchip, run, tiles, slot>> /\ (AllBoth' <=> AllBoth)
    BY DEF RangeRow, drv, prod, Result, AllBoth
  <2>2. RangeInv
    BY DEF IInv
  <2>3. torn' \/ ext' \subseteq {"both"} \/ (run = 2 /\ blk = "bad")
    <3>1. CASE ~tiles
      <4>1. ext' = ext \cup {"both"} /\ (torn => torn')
        BY <2>1, <2>2, <3>1 DEF RangeInv, Ranging, Result, RangeRow
      <4> QED
        BY <2>1, <2>2, <4>1 DEF RangeInv, Ranging
    <3>2. CASE tiles
      <4>1. ext' = ext \cup {slot[r]} /\ (torn' <=> torn \/ slot[r] = "max")
        BY <3>2 DEF RangeRow, IInv, TRng
      <4>2. slot[r] \in {"max", "both"} \/ (run = 2 /\ blk = "bad")
        BY <1>a, <2>1, <2>2, <3>2 DEF RangeInv, Ranging, Arrived, AllBoth, IInv, TDrv
      <4> QED
        BY <2>1, <2>2, <4>1, <4>2 DEF RangeInv, Ranging
    <3> QED
      BY <3>1, <3>2 DEF IInv, TProd
  <2> QED
    BY <2>1, <2>2, <2>3 DEF RangeInv, Ranging
<1> USE DEF IInv, RangeRow, Arrived, drv, mem, prod, rq, res, NoJob, norm
<1>3. ArenaInv' /\ RedoInv'
  BY DEF ArenaInv, RedoInv, Active
<1>4. AfterInv' /\ RowsInv'
  BY DEF AfterInv, RowsInv, After, Result, Job, WantExt, EpiNeeds, Is, HasRes
<1>5. OutInv' /\ NormInv'
  BY DEF OutInv, NormInv, Before, Ranging, After, Final, WantExt, Norming, HasRes
<1>6. TDrv'
  BY DEF TDrv, Jobs, Job
<1>7. TCtl'
  BY DEF TCtl, PCs
<1>8. TMem'
  BY DEF TMem
<1>9. TProd'
  BY DEF TProd, Value
<1>10. TRq'
  BY DEF TRq, Value
<1>11. TRes'
  BY DEF TRes, Value
<1>12. StartInv'
  BY DEF StartInv, Before, Ranging
<1> QED
  BY <1>1, <1>2, <1>3, <1>4, <1>5, <1>6, <1>7, <1>8, <1>9, <1>10, <1>11, <1>12

LEMMA RangeDoneKept == ASSUME IInv, RangeDone PROVE IInv'
<1> USE DEF IInv, RangeDone, Collect, drv, FinishOk, Redo, Goto, Is, mem, prod, rng, res, Ended,
     NoJob, norm
<1>1. ArenaInv' /\ RedoInv'
  BY DEF ArenaInv, RedoInv, TMem, TProd, RangeInv, Active, Ranging
<1>2. StartInv' /\ RangeInv'
  BY DEF StartInv, RangeInv, Before, Ranging, Job, Result, AllBoth
<1>3. AfterInv' /\ RowsInv'
  BY DEF AfterInv, RowsInv, StartInv, RangeInv, After, Result, Ranging
<1>4. OutInv' /\ NormInv'
  BY DEF OutInv, NormInv, Before, Ranging, After, Final, WantExt, Norming, HasRes
<1>5. TDrv'
  BY SizesAssumption DEF TDrv, ArenaInv, TCtl, TRng, Active, Jobs, Job
<1>6. TCtl'
  BY DEF TCtl, PCs
<1>7. TMem'
  BY DEF TMem
<1>8. TProd'
  BY DEF TProd, Value
<1>9. TRng'
  BY DEF TRng
<1>10. TRq'
  BY DEF TRq, Value
<1>11. TRes'
  BY DEF TRes, Value
<1> QED
  BY <1>1, <1>2, <1>3, <1>4, <1>5, <1>6, <1>7, <1>8, <1>9, <1>10, <1>11

LEMMA ExtremesJobKept == ASSUME IInv, ExtremesJob PROVE IInv'
<1>1. TMem'
  <2>1. used' \in Nat /\ arenaFailed' \in BOOLEAN
    BY AllocTyped DEF IInv, ExtremesJob, TMem
  <2> QED
    BY <2>1 DEF IInv, TMem, ExtremesJob, RqUnchanged
<1> USE DEF IInv, ExtremesJob, HasRes, WantExt, Alloc, Accepted, Is, Launch, Job, Goto, drv, res,
     RqUnchanged, norm, prod, rng
<1>2. ArenaInv' /\ RedoInv'
  BY DEF ArenaInv, RedoInv, Active, NoJob
<1>3. StartInv' /\ RangeInv'
  BY DEF StartInv, RangeInv, Before, Ranging, NoJob, Result, AllBoth
<1>4. AfterInv' /\ RowsInv'
  BY DEF AfterInv, RowsInv, After, Result, NoJob, EpiNeeds
<1>5. OutInv' /\ NormInv'
  BY DEF OutInv, NormInv, Before, Ranging, After, Final, Norming
<1>6. TDrv'
  BY DEF TDrv, Jobs, NoJob
<1>7. TCtl'
  BY DEF TCtl, PCs
<1>8. TProd'
  BY DEF TProd, Value
<1>9. TRng'
  BY DEF TRng
<1>10. TRq'
  BY SizesAssumption DEF TRq, ArenaInv, TCtl, TRng, Active, Value
<1>11. TRes'
  BY DEF TRes, Value
<1> QED
  BY <1>1, <1>2, <1>3, <1>4, <1>5, <1>6, <1>7, <1>8, <1>9, <1>10, <1>11

LEMMA ExtremesDoneKept == ASSUME IInv, ExtremesDone PROVE IInv'
<1> USE DEF IInv, ExtremesDone, Collect, Goto, FinishOk, res, RqUnchanged, Ended, NoJob, norm, prod,
     rng
<1>1. TDrv' /\ TCtl' /\ TMem' /\ TProd' /\ TRng' /\ TRq' /\ TRes'
  BY DEF TDrv, TCtl, TMem, TProd, TRng, TRq, TRes, Jobs, Job, PCs, Value
<1>2. ArenaInv' /\ RedoInv'
  BY DEF ArenaInv, RedoInv, TProd, Active
<1>3. StartInv' /\ RangeInv'
  BY DEF StartInv, RangeInv, Before, Ranging, Job, Result, AllBoth
<1>4. AfterInv' /\ RowsInv'
  BY DEF AfterInv, RowsInv, TRng, After, Result, Job
<1>5. OutInv' /\ NormInv'
  BY DEF OutInv, NormInv, Before, Ranging, After, Final, WantExt, Norming, HasRes
<1> QED
  BY <1>1, <1>2, <1>3, <1>4, <1>5

LEMMA PrepareKept == ASSUME IInv, Prepare PROVE IInv'
<1> USE DEF IInv, Prepare, Has, res, Goto, ParamsFor, HasRes, drv, prod, norm, RangeRight
<1>1. TDrv' /\ TCtl' /\ TMem' /\ TProd' /\ TRng' /\ TRq' /\ TRes'
  BY DEF TDrv, TCtl, TMem, TProd, TRng, TRq, TRes, Jobs, Job, NoJob, PCs, Value
<1>2. ArenaInv' /\ RedoInv'
  BY DEF ArenaInv, RedoInv, Active, NoJob
<1>3. StartInv' /\ RangeInv'
  BY DEF StartInv, RangeInv, Before, Ranging, NoJob, Job, Result, AllBoth
<1>4. AfterInv' /\ RowsInv'
  BY SizesAssumption DEF AfterInv, RowsInv, RedoInv, After, Result, WantExt
<1>5. OutInv' /\ NormInv'
  BY DEF OutInv, NormInv, Before, Ranging, After, Final, WantExt, Norming
<1> QED
  BY <1>1, <1>2, <1>3, <1>4, <1>5

LEMMA ChunkJobKept == ASSUME IInv, ChunkJob PROVE IInv'
<1>1. TDrv'
  <2>1. r <= Chunks => Job("chunk", r) \in Jobs
    BY DEF IInv, TRng, Jobs
  <2>2. NoJob \in Jobs
    BY DEF Jobs
  <2> QED
    BY <2>1, <2>2 DEF IInv, TDrv, ChunkJob, Launch, Goto, drv
<1> USE DEF IInv, ChunkJob, ParamsFor, Accepted, EpiNeeds, Is, Ended, FinishOk, Launch, Job, NoJob,
     Goto, drv, mem, prod, res, RangeRight, norm
<1>2. ArenaInv' /\ RedoInv'
  BY DEF ArenaInv, RedoInv, RowsInv, Active
<1>3. StartInv' /\ RangeInv'
  BY DEF StartInv, RangeInv, Before, Ranging, Result, AllBoth
<1>4. AfterInv' /\ RowsInv'
  BY SizesAssumption DEF AfterInv, RowsInv, After, Result, WantExt, HasRes
<1>5. OutInv' /\ NormInv'
  BY DEF OutInv, NormInv, Before, Ranging, After, Final, WantExt, Norming, HasRes
<1>6. TCtl'
  BY DEF TCtl, PCs
<1>7. TMem'
  BY DEF TMem
<1>8. TProd'
  BY DEF TProd, Value
<1>9. TRng'
  BY DEF TRng
<1>10. TRq'
  BY DEF TRq, Value
<1>11. TRes'
  BY DEF TRes, Value
<1> QED
  BY <1>1, <1>2, <1>3, <1>4, <1>5, <1>6, <1>7, <1>8, <1>9, <1>10, <1>11

LEMMA ChunksDoneKept == ASSUME IInv, ChunksDone PROVE IInv'
<1> USE DEF IInv, ChunksDone, Collect, Goto, FinishOk, norm, RqUnchanged, Ended, NoJob, prod, rng
<1>1. TDrv' /\ TCtl' /\ TMem' /\ TProd' /\ TRng' /\ TRq' /\ TRes'
  BY DEF TDrv, TCtl, TMem, TProd, TRng, TRq, TRes, Jobs, Job, PCs, Value
<1>2. ArenaInv' /\ RedoInv'
  BY DEF ArenaInv, RedoInv, TProd, Active
<1>3. StartInv' /\ RangeInv'
  BY DEF StartInv, RangeInv, Before, Ranging, Job, Result, AllBoth
<1>4. AfterInv' /\ RowsInv'
  BY SizesAssumption DEF AfterInv, RowsInv, After, Result, Job, WantExt, HasRes
<1>5. OutInv' /\ NormInv'
  BY DEF OutInv, NormInv, Before, Ranging, After, Final, WantExt, Norming, HasRes, res
<1> QED
  BY <1>1, <1>2, <1>3, <1>4, <1>5

LEMMA SuccessKept == ASSUME IInv, Success PROVE IInv'
<1>1. TMem'
  <2>1. used' \in Nat /\ arenaFailed' \in BOOLEAN
    BY AllocTyped DEF IInv, Success, TMem
  <2> QED
    BY <2>1 DEF IInv, TMem, Success
<1>2. OutInv'
  <2>1. /\ pc = "success" /\ pc' = "leave" /\ op' = op /\ torn' = torn
        /\ rstOut' = (IF rstBuf = "asked" THEN out ELSE "no")
        /\ cext' = IF ~WantExt THEN cext ELSE IF dpar THEN x2
                   ELSE IF RangeRight /\ ext \subseteq {"both"} THEN "right" ELSE "wrong"
    BY DEF Success, Goto, rng
  <2>2. torn \/ (out = "right" /\ (WantExt => cext' = "right"))
    BY <2>1 DEF IInv, AfterInv, After, RangeRight
  <2>3. arenaFailed' \/ out' = out
    BY DEF Success, Gelu, Alloc
  <2> QED
    BY <2>1, <2>2, <2>3 DEF OutInv, Before, Ranging, After, Final, WantExt, HasRes
<1> USE DEF IInv, Success, Goto, WantExt, RangeRight, Alloc, Gelu, drv, prod, rng, rq, norm, HasRes,
     res
<1>3. ArenaInv' /\ RedoInv'
  BY DEF ArenaInv, RedoInv, Active, NoJob
<1>4. StartInv' /\ RangeInv'
  BY DEF StartInv, RangeInv, Before, Ranging, NoJob, Job, Result, AllBoth
<1>5. AfterInv' /\ RowsInv'
  BY DEF AfterInv, RowsInv, After, Result, Job, NoJob, EpiNeeds, Is
<1>6. TDrv'
  BY DEF TDrv, Jobs, Job, NoJob
<1>7. TCtl'
  BY DEF TCtl, PCs
<1>8. TProd'
  BY DEF TProd, Value
<1>9. TRng'
  BY DEF TRng
<1>10. TRq'
  BY DEF TRq, Value
<1>11. NormInv'
  BY DEF NormInv, Norming
<1>12. TRes'
  BY DEF TRes, TRq, Value
<1> QED
  BY <1>1, <1>2, <1>3, <1>4, <1>5, <1>6, <1>7, <1>8, <1>9, <1>10, <1>11, <1>12

LEMMA DeclinedKept == ASSUME IInv, Declined PROVE IInv'
<1> USE DEF IInv, Declined, Redo, Goto, drv, mem, prod, rng, rq, res, norm
<1>1. TDrv' /\ TCtl' /\ TMem' /\ TProd' /\ TRng' /\ TRq' /\ TRes'
  BY DEF TDrv, TCtl, TMem, TProd, TRng, TRq, TRes, Jobs, Job, NoJob, PCs, Value
<1>2. ArenaInv' /\ RedoInv'
  BY DEF ArenaInv, RedoInv, Active, NoJob
<1>3. StartInv' /\ RangeInv'
  BY DEF StartInv, RangeInv, Before, Ranging, NoJob, Job, Result, AllBoth
<1>4. AfterInv' /\ RowsInv'
  BY DEF AfterInv, RowsInv, After, Result, Job, WantExt, NoJob, EpiNeeds, Is, HasRes
<1>5. OutInv' /\ NormInv'
  BY DEF OutInv, NormInv, Before, Ranging, After, Final, WantExt, Norming, HasRes
<1> QED
  BY <1>1, <1>2, <1>3, <1>4, <1>5

LEMMA ConvertKept == ASSUME IInv, Convert PROVE IInv'
<1>1. OutInv'
  <2>1. pc = "convert" /\ op' = op /\ torn' = torn /\ rstOut' = rstOut
    BY DEF Convert, rng
  <2>2. CASE useOnchip
    <3>1. pc' = "redo" /\ out' = out
      BY <2>2 DEF Convert, Redo, Goto
    <3> QED
      BY <2>1, <3>1 DEF IInv, OutInv, Before, Ranging, After, Final
  <2>3. CASE ~useOnchip
    <3>1. pc' = "leave" /\ rstOut = "no" /\ out = "junk" /\ pend = NoJob /\ acc = "right"
      BY <2>1, <2>3 DEF IInv, OutInv, RedoInv, AfterInv, After, Result, Convert, Goto
    <3>2. ~torn => \A c \in 1..Chunks : par'[c] = "right"
      BY <2>1, <2>3 DEF IInv, AfterInv, After, Convert, ParamsFor, RangeRight
    <3>3. arenaFailed' \/ torn \/ out' = "right"
      BY <2>3, <3>1, <3>2 DEF Convert, dav2_add
    <3>4. ~torn /\ WantExt => cext' = "right"
      BY <2>1, <2>3 DEF IInv, AfterInv, After, Convert
    <3> QED
      BY <2>1, <3>1, <3>3, <3>4 DEF OutInv, Before, Ranging, After, Final, WantExt, HasRes
  <2> QED
    BY <2>2, <2>3 DEF IInv, TProd
<1> USE DEF IInv, Convert, Redo, ParamsFor, Goto, HasRes, NoJob, dav2_add, WantExt, drv, prod, rng,
     norm, RangeRight, res
<1>2. ArenaInv' /\ RedoInv'
  BY DEF ArenaInv, RedoInv, Active
<1>3. StartInv' /\ RangeInv'
  BY DEF StartInv, RangeInv, Before, Ranging, Job, Result, AllBoth
<1>4. AfterInv' /\ RowsInv'
  BY DEF AfterInv, RowsInv, After, Result, Job, EpiNeeds, Is
<1>5. TDrv'
  BY DEF TDrv, Jobs, Job
<1>6. TCtl'
  BY DEF TCtl, PCs
<1>7. TMem'
  BY SizesAssumption DEF TMem, ArenaInv, TCtl, TRng, Active
<1>8. TProd'
  BY DEF TProd, Value
<1>9. TRng'
  BY DEF TRng
<1>10. TRq'
  BY ZenonT(60), SizesAssumption DEF TRq, ArenaInv, TCtl, TRng, Active, Value
<1>11. TRes'
  BY DEF TRes, Value
<1>12. NormInv'
  BY DEF NormInv, Norming
<1> QED
  BY <1>1, <1>2, <1>3, <1>4, <1>5, <1>6, <1>7, <1>8, <1>9, <1>10, <1>11, <1>12

LEMMA RedoOnCpuKept == ASSUME IInv, RedoOnCpu PROVE IInv'
<1>1. TCtl'
  <2>1. [op EXCEPT !.rst = FALSE] \in OpType
    BY DEF IInv, TCtl, OpType
  <2> QED
    BY <2>1 DEF RedoOnCpu, Goto, TCtl, PCs
<1>2. TProd'
  BY ClearTyped DEF RedoOnCpu, IInv, TProd
<1>3. TRng'
  BY ClearTyped DEF RedoOnCpu
<1>4. TRq'
  BY ClearTyped DEF RedoOnCpu
<1> USE DEF IInv, RedoOnCpu, Mark, Clear, Goto, drv
<1>5. ArenaInv' /\ RedoInv'
  BY DEF ArenaInv, RedoInv, Active, NoJob
<1>6. StartInv' /\ RangeInv'
  BY DEF StartInv, RangeInv, Before, Ranging, NoJob, Job, Result, AllBoth
<1>7. AfterInv' /\ RowsInv'
  BY DEF AfterInv, RowsInv, After, Result, Job, WantExt, NoJob, EpiNeeds, Is, HasRes, res, norm
<1>8. OutInv' /\ NormInv'
  BY DEF OutInv, NormInv, Before, Ranging, After, Final, WantExt, Norming, HasRes, res, norm
<1>9. TDrv'
  BY DEF TDrv, Jobs, Job, NoJob
<1>10. TMem'
  BY DEF TMem, ArenaInv, Active
<1>11. TRes'
  BY DEF TRes, Value
<1> QED
  BY <1>1, <1>2, <1>3, <1>4, <1>5, <1>6, <1>7, <1>8, <1>9, <1>10, <1>11

LEMMA LeaveKept == ASSUME IInv, Leave PROVE IInv'
<1>1. ArenaInv'
  <2>1. marks \in Seq(Nat) /\ noOnchip \in Nat /\ Len(marks) = noOnchip + 1 /\ marks # <<>>
    BY EmptySeq DEF IInv, TMem, ArenaInv, Active, Leave
  <2>2. /\ marks' = SubSeq(marks, 1, Len(marks) - 1) /\ noOnchip' = noOnchip
        /\ used' = marks[Len(marks)] /\ pc' = IF Len(marks) = 1 THEN "returned" ELSE "unwind"
    BY DEF Leave, Goto, Mark
  <2>3. Len(marks') = noOnchip' /\ (Len(marks) = 1 <=> marks' = <<>>)
    <3>1. Len(marks') = Len(marks) - 1 /\ (Len(marks) = 1 <=> marks' = <<>>)
      BY <2>1, <2>2, MarkPopped
    <3>2. noOnchip' = Len(marks) - 1
      BY <2>1, <2>2
    <3> QED
      BY <3>1, <3>2
  <2>4. used' = 0
    BY <2>1, <2>2 DEF IInv, ArenaInv
  <2>5. \A i \in 1..Len(marks') : marks'[i] = 0
    <3>1. \A i \in 1..(Len(marks) - 1) : marks'[i] = marks[i]
      BY <2>1, <2>2, MarkPopped
    <3>2. Len(marks) \in Nat /\ Len(marks') = Len(marks) - 1
      BY <2>1, <2>2, MarkPopped
    <3> QED
      BY <3>1, <3>2 DEF IInv, ArenaInv
  <2> QED
    BY <2>1, <2>2, <2>3, <2>4, <2>5 DEF ArenaInv, Active
<1> USE DEF IInv, Leave, Mark, Goto, drv, prod, rng, rq, res, norm
<1>2. TDrv' /\ TCtl' /\ TMem' /\ TProd' /\ TRng' /\ TRq' /\ TRes'
  BY DEF TDrv, TCtl, TMem, TProd, TRng, TRq, TRes, ArenaInv, Active, PCs
<1>3. StartInv' /\ RangeInv'
  BY DEF StartInv, RangeInv, Before, Ranging, NoJob, Job, Result, AllBoth
<1>4. AfterInv' /\ RowsInv'
  BY DEF AfterInv, RowsInv, After, Result, Job, WantExt, NoJob, EpiNeeds, Is, HasRes
<1>5. OutInv' /\ NormInv'
  BY DEF OutInv, NormInv, Before, Ranging, After, Final, WantExt, Norming, HasRes
<1>6. RedoInv'
  BY DEF RedoInv, NoJob, Active
<1> QED
  BY <1>1, <1>2, <1>3, <1>4, <1>5, <1>6

LEMMA UnwindKept == ASSUME IInv, Unwind PROVE IInv'
<1>1. ArenaInv'
  <2>1. marks \in Seq(Nat) /\ marks # <<>> /\ noOnchip = Len(marks) /\ used = 0
    BY DEF IInv, TMem, ArenaInv, Unwind
  <2>2. /\ marks' = SubSeq(marks, 1, Len(marks) - 1) /\ noOnchip' = noOnchip - 1 /\ used' = used
        /\ pc' = IF Len(marks) = 1 THEN "returned" ELSE "unwind"
    BY DEF Unwind, Goto
  <2>3. Len(marks') = noOnchip' /\ (Len(marks) = 1 <=> marks' = <<>>)
    <3>1. Len(marks') = Len(marks) - 1 /\ (Len(marks) = 1 <=> marks' = <<>>)
      BY <2>1, <2>2, MarkPopped
    <3>2. noOnchip' = Len(marks) - 1
      BY <2>1, <2>2
    <3> QED
      BY <3>1, <3>2
  <2>4. \A i \in 1..Len(marks') : marks'[i] = 0
    <3>1. \A i \in 1..(Len(marks) - 1) : marks'[i] = marks[i]
      BY <2>1, <2>2, MarkPopped
    <3>2. Len(marks) \in Nat /\ Len(marks') = Len(marks) - 1
      BY <2>1, <2>2, MarkPopped
    <3> QED
      BY <3>1, <3>2 DEF IInv, ArenaInv
  <2>5. Len(marks) # 1 => marks' # <<>>
    BY <2>3
  <2> QED
    BY <2>1, <2>2, <2>3, <2>4, <2>5 DEF ArenaInv, Active
<1> USE DEF IInv, Unwind, Goto, drv, prod, rng, rq, res, norm
<1>2. TDrv' /\ TCtl' /\ TMem' /\ TProd' /\ TRng' /\ TRq' /\ TRes'
  BY DEF TDrv, TCtl, TMem, TProd, TRng, TRq, TRes, ArenaInv, PCs
<1>3. StartInv' /\ RangeInv'
  BY DEF StartInv, RangeInv, Before, Ranging, NoJob, Job, Result, AllBoth
<1>4. AfterInv' /\ RowsInv'
  BY DEF AfterInv, RowsInv, After, Result, Job, WantExt, NoJob, EpiNeeds, Is, HasRes
<1>5. OutInv' /\ NormInv'
  BY DEF OutInv, NormInv, Before, Ranging, After, Final, WantExt, Norming, HasRes
<1>6. RedoInv'
  BY DEF RedoInv, TMem, Active
<1> QED
  BY <1>1, <1>2, <1>3, <1>4, <1>5, <1>6

LEMMA ReturnKept == ASSUME IInv, Return PROVE IInv'
<1>1. TProd'
  BY ClearTyped DEF Return, TProd
<1>2. TRng'
  BY ClearTyped DEF Return
<1>3. TRq'
  BY ClearTyped DEF Return
<1> USE DEF IInv, Return, Goto, Clear, drv, mem
<1>4. ArenaInv' /\ RedoInv'
  BY DEF ArenaInv, RedoInv, Active, NoJob
<1>5. StartInv' /\ RangeInv'
  BY DEF StartInv, RangeInv, Before, Ranging, NoJob, Job, Result, AllBoth
<1>6. AfterInv' /\ RowsInv'
  BY DEF AfterInv, RowsInv, After, Result, Job, WantExt, NoJob, EpiNeeds, Is, HasRes, res, norm
<1>7. OutInv' /\ NormInv'
  BY DEF OutInv, NormInv, Before, Ranging, After, Final, WantExt, Norming, HasRes, res, norm
<1>8. TDrv'
  BY DEF TDrv, Jobs, Job, NoJob
<1>9. TCtl'
  BY DEF TCtl, PCs
<1>10. TMem'
  BY DEF TMem
<1>11. TRes'
  BY DEF TRes, Value
<1> QED
  BY <1>1, <1>2, <1>3, <1>4, <1>5, <1>6, <1>7, <1>8, <1>9, <1>10, <1>11

LEMMA layernorm_affineKept == ASSUME IInv, layernorm_affine PROVE IInv'
<1> USE DEF IInv, layernorm_affine, Is, Goto, Mark, drv, norm, LnUnchanged, prod, rng, rq
<1>1. TDrv' /\ TCtl' /\ TMem' /\ TProd' /\ TRng' /\ TRq' /\ TRes'
  BY DEF TDrv, TCtl, TMem, TProd, TRng, TRq, TRes, ArenaInv, Active, PCs
<1>2. ArenaInv' /\ RedoInv'
  BY DEF ArenaInv, RedoInv, Active, NoJob
<1>3. StartInv' /\ RangeInv'
  BY DEF StartInv, RangeInv, Before, Ranging, NoJob, Job, Result, AllBoth
<1>4. AfterInv' /\ RowsInv'
  BY DEF AfterInv, RowsInv, After, Result, Job, WantExt, NoJob, EpiNeeds, HasRes, res
<1>5. OutInv' /\ NormInv'
  BY DEF OutInv, NormInv, Before, Ranging, After, Final, WantExt, Norming, HasRes, res
<1> QED
  BY <1>1, <1>2, <1>3, <1>4, <1>5

LEMMA LnPhaseAKept == ASSUME IInv, LnPhaseA PROVE IInv'
<1> USE DEF IInv, LnPhaseA, Outcome, Lost, Goto, norm, LnUnchanged, prod, rng, rq
<1>1. TDrv' /\ TCtl' /\ TMem' /\ TProd' /\ TRng' /\ TRq' /\ TRes'
  BY DEF TDrv, TCtl, TMem, TProd, TRng, TRq, TRes, Jobs, Job, NoJob, PCs, Value
<1>2. ArenaInv' /\ RedoInv'
  BY DEF ArenaInv, RedoInv, TProd, Active
<1>3. StartInv' /\ RangeInv'
  BY DEF StartInv, RangeInv, Before, Ranging, NoJob, Job, Result, AllBoth
<1>4. AfterInv' /\ RowsInv'
  BY DEF AfterInv, RowsInv, After, Result, Job, WantExt, NoJob, EpiNeeds, Is, HasRes, res
<1>5. OutInv' /\ NormInv'
  BY DEF OutInv, NormInv, Before, Ranging, After, Final, WantExt, Norming, HasRes, res
<1> QED
  BY <1>1, <1>2, <1>3, <1>4, <1>5

LEMMA LnPhaseBKept == ASSUME IInv, LnPhaseB PROVE IInv'
<1> USE DEF IInv, LnPhaseB, Outcome, Lost, Goto, norm, LnUnchanged, prod, rng, rq
<1>1. TDrv' /\ TCtl' /\ TMem' /\ TProd' /\ TRng' /\ TRq' /\ TRes'
  BY DEF TDrv, TCtl, TMem, TProd, TRng, TRq, TRes, Jobs, Job, NoJob, PCs, Value
<1>2. ArenaInv' /\ RedoInv'
  BY DEF ArenaInv, RedoInv, TProd, Active
<1>3. StartInv' /\ RangeInv'
  BY DEF StartInv, RangeInv, Before, Ranging, NoJob, Job, Result, AllBoth
<1>4. AfterInv' /\ RowsInv'
  BY DEF AfterInv, RowsInv, After, Result, Job, WantExt, NoJob, EpiNeeds, Is, HasRes, res
<1>5. OutInv' /\ NormInv'
  BY DEF OutInv, NormInv, Before, Ranging, After, Final, WantExt, Norming, HasRes, res
<1> QED
  BY <1>1, <1>2, <1>3, <1>4, <1>5

LEMMA LnExtremesKept == ASSUME IInv, LnExtremes PROVE IInv'
<1> USE DEF IInv, LnExtremes, Goto, Alloc, drv, LnUnchanged, prod, rng, rq
<1>1. TDrv' /\ TCtl' /\ TMem' /\ TProd' /\ TRng' /\ TRq' /\ TRes'
  BY DEF TDrv, TCtl, TMem, TProd, TRng, TRq, TRes, Jobs, Job, NoJob, PCs, Value
<1>2. ArenaInv' /\ RedoInv'
  BY DEF ArenaInv, RedoInv, Active, NoJob
<1>3. StartInv' /\ RangeInv'
  BY DEF StartInv, RangeInv, Before, Ranging, NoJob, Job, Result, AllBoth
<1>4. AfterInv' /\ RowsInv'
  BY DEF AfterInv, RowsInv, After, Result, Job, WantExt, NoJob, EpiNeeds, Is, HasRes, res, norm
<1>5. OutInv' /\ NormInv'
  BY DEF OutInv, NormInv, Before, Ranging, After, Final, WantExt, Norming, HasRes, res, norm
<1> QED
  BY <1>1, <1>2, <1>3, <1>4, <1>5

LEMMA layernorm_affine_cpuKept == ASSUME IInv, layernorm_affine_cpu PROVE IInv'
<1>1. OutInv'
  <2>1. /\ pc' \in {"rq", "leave"} /\ (pc' = "leave" => arenaFailed')
    BY DEF layernorm_affine_cpu, Alloc, Goto
  <2> QED
    BY <2>1 DEF OutInv, Before, Ranging, After, Final
<1>2. NormInv'
  <2>1. /\ pc = "ln_cpu" /\ op' = op /\ zst' = zst /\ rstOut' = rstOut
        /\ \/ pc' = "rq" /\ z' = "right"
           \/ pc' = "leave"
    BY DEF layernorm_affine_cpu, Goto, LnUnchanged, rq
  <2> QED
    BY <2>1 DEF IInv, NormInv, Norming
<1> USE DEF IInv, layernorm_affine_cpu, Alloc, Goto, drv, LnUnchanged, prod, rng, rq
<1>3. TDrv' /\ TCtl' /\ TMem' /\ TProd' /\ TRng' /\ TRq' /\ TRes'
  BY DEF TDrv, TCtl, TMem, TProd, TRng, TRq, TRes, Jobs, Job, NoJob, PCs, Value
<1>4. ArenaInv' /\ RedoInv'
  BY DEF ArenaInv, RedoInv, Active, NoJob
<1>5. StartInv' /\ RangeInv'
  BY DEF StartInv, RangeInv, Before, Ranging, NoJob, Job, Result, AllBoth
<1>6. AfterInv' /\ RowsInv'
  BY DEF AfterInv, RowsInv, After, Result, Job, WantExt, NoJob, EpiNeeds, Is, HasRes, res, norm
<1> QED
  BY <1>1, <1>2, <1>3, <1>4, <1>5, <1>6

LEMMA Requant16StatsKept == ASSUME IInv, Requant16Stats PROVE IInv'
<1> USE DEF IInv, Requant16Stats, requant16, ZAsked, Outcome, Lost, Into, From, NextHalf, Goto,
     norm, LnUnchanged, prod, rng, rq
<1>1. TDrv' /\ TCtl' /\ TMem' /\ TProd' /\ TRng' /\ TRq' /\ TRes'
  BY DEF TDrv, TCtl, TMem, TProd, TRng, TRq, TRes, Jobs, Job, NoJob, PCs, Value
<1>2. ArenaInv' /\ RedoInv'
  BY DEF ArenaInv, RedoInv, TProd, Active
<1>3. StartInv' /\ RangeInv'
  BY DEF StartInv, RangeInv, Before, Ranging, NoJob, Job, Result, AllBoth
<1>4. AfterInv' /\ RowsInv'
  BY DEF AfterInv, RowsInv, After, Result, Job, WantExt, NoJob, EpiNeeds, Is, HasRes, res
<1>5. NormInv'
  BY DEF NormInv, Norming
<1>6. OutInv'
  BY DEF OutInv, TRes, NormInv, Before, Ranging, After, Final, WantExt, Norming
<1> QED
  BY <1>1, <1>2, <1>3, <1>4, <1>5, <1>6

LEMMA Requant16PlainKept == ASSUME IInv, Requant16Plain PROVE IInv'
<1> USE DEF IInv, Requant16Plain, requant16, Outcome, Lost, Into, From, NextHalf, Goto, norm,
     LnUnchanged, ZAsked, prod, rng, rq
<1>1. TDrv' /\ TCtl' /\ TMem' /\ TProd' /\ TRng' /\ TRq' /\ TRes'
  BY DEF TDrv, TCtl, TMem, TProd, TRng, TRq, TRes, Jobs, Job, NoJob, PCs, Value
<1>2. ArenaInv' /\ RedoInv'
  BY DEF ArenaInv, RedoInv, TProd, Active
<1>3. StartInv' /\ RangeInv'
  BY DEF StartInv, RangeInv, Before, Ranging, NoJob, Job, Result, AllBoth
<1>4. AfterInv' /\ RowsInv'
  BY DEF AfterInv, RowsInv, After, Result, Job, WantExt, NoJob, EpiNeeds, Is, HasRes, res
<1>5. NormInv'
  BY DEF NormInv, Norming
<1>6. OutInv'
  BY DEF OutInv, TRes, NormInv, Before, Ranging, After, Final, WantExt, Norming
<1> QED
  BY <1>1, <1>2, <1>3, <1>4, <1>5, <1>6

LEMMA Requant16CpuKept == ASSUME IInv, Requant16Cpu PROVE IInv'
<1> USE DEF IInv, Requant16Cpu, Into, From, NextHalf, drv, LnUnchanged, ZAsked, Goto, prod, rng, rq
<1>1. TDrv' /\ TCtl' /\ TMem' /\ TProd' /\ TRng' /\ TRq' /\ TRes'
  BY DEF TDrv, TCtl, TMem, TProd, TRng, TRq, TRes, Jobs, Job, NoJob, PCs, Value
<1>2. ArenaInv' /\ RedoInv'
  BY DEF ArenaInv, RedoInv, Active, NoJob
<1>3. StartInv' /\ RangeInv'
  BY DEF StartInv, RangeInv, Before, Ranging, NoJob, Job, Result, AllBoth
<1>4. AfterInv' /\ RowsInv'
  BY DEF AfterInv, RowsInv, After, Result, Job, WantExt, NoJob, EpiNeeds, Is, HasRes, res, norm
<1>5. NormInv'
  BY DEF NormInv, Norming
<1>6. OutInv'
  BY DEF OutInv, TRes, NormInv, Before, Ranging, After, Final, WantExt, Norming
<1> QED
  BY <1>1, <1>2, <1>3, <1>4, <1>5, <1>6

LEMMA StatWordKept == ASSUME IInv, StatWord PROVE IInv'
<1> USE DEF IInv, StatWord, mem, prod, rq, res, norm
<1>1. TDrv' /\ TCtl' /\ TMem' /\ TProd' /\ TRng' /\ TRq' /\ TRes'
  BY DEF TDrv, TCtl, TMem, TProd, TRng, TRq, TRes, Jobs, Job, NoJob, PCs, Value
<1>2. ArenaInv' /\ RedoInv'
  BY DEF ArenaInv, RedoInv, Active, NoJob
<1>3. StartInv' /\ RangeInv'
  BY DEF StartInv, RangeInv, Before, Ranging, NoJob, Job, Result, AllBoth
<1>4. AfterInv' /\ RowsInv'
  BY DEF AfterInv, RowsInv, After, Result, Job, WantExt, NoJob, EpiNeeds, Is, HasRes
<1>5. OutInv' /\ NormInv'
  BY DEF OutInv, NormInv, Before, Ranging, After, Final, WantExt, Norming, HasRes
<1> QED
  BY <1>1, <1>2, <1>3, <1>4, <1>5

LEMMA JobEndKept == ASSUME IInv, JobEnd PROVE IInv'
<1> USE DEF IInv, JobEnd, NoJob, Product, ByBlock, Result, dav2_add, mem, rng, res, ReluOk, norm
<1>1. TDrv' /\ TCtl' /\ TMem' /\ TProd' /\ TRng' /\ TRq' /\ TRes'
  BY DEF TDrv, TCtl, TMem, TProd, TRng, TRq, TRes, Jobs, Job, PCs, Value
<1>2. ArenaInv' /\ RedoInv'
  BY DEF ArenaInv, RedoInv, Active
<1>3. StartInv' /\ RangeInv'
  BY DEF StartInv, RangeInv, Before, Ranging, Job, AllBoth
<1>4. AfterInv' /\ RowsInv'
  BY SizesAssumption DEF AfterInv, RowsInv, TRq, StartInv, OutInv, After, Job, WantExt, EpiNeeds,
     Is, HasRes
<1>5. OutInv' /\ NormInv'
  BY DEF OutInv, NormInv, Before, Ranging, After, Final, WantExt, Norming, HasRes
<1> QED
  BY <1>1, <1>2, <1>3, <1>4, <1>5

LEMMA JobFailsKept == ASSUME IInv, JobFails PROVE IInv'
<1> USE DEF IInv, JobFails, NoJob, mem, prod, rng, rq, res, norm
<1>1. TDrv' /\ TCtl' /\ TMem' /\ TProd' /\ TRng' /\ TRq' /\ TRes'
  BY DEF TDrv, TCtl, TMem, TProd, TRng, TRq, TRes, Jobs, Job, PCs, Value
<1>2. ArenaInv' /\ RedoInv'
  BY DEF ArenaInv, RedoInv, Active
<1>3. StartInv' /\ RangeInv'
  BY DEF StartInv, RangeInv, Before, Ranging, Job, Result, AllBoth
<1>4. AfterInv' /\ RowsInv'
  BY DEF AfterInv, RowsInv, After, Result, Job, WantExt, EpiNeeds, Is, HasRes
<1>5. OutInv' /\ NormInv'
  BY DEF OutInv, NormInv, Before, Ranging, After, Final, WantExt, Norming, HasRes
<1> QED
  BY <1>1, <1>2, <1>3, <1>4, <1>5

---------------------------------------------------------------------------
(* The operations.  Only a plain GEMM is asked for its columns' extremes.  *)
LEMMA PlainTyped == Plain \in OpType
BY DEF Plain, OpType

LEMMA OperationTyped ==
  ASSUME NEW o \in Operations
  PROVE  o \in OpType /\ (o.ln => ~o.ext) /\ (o.in_relu => o.cv)
<1>1. PICK f \in SUBSET Fits :
        \/ o \in {dav2_qgemm(f), dav2_qgemm_colext(f), dav2_qgemm_gelu(f), dav2_layernorm(f)}
        \/ \E x \in {"no", "other", "out"} : o = dav2_qgemm_ex(f, x)
        \/ \E k \in {1, 3}, relu \in BOOLEAN, x \in {"no", "other", "out"} :
             o = dav2_conv2d_into(f, k, relu, x)
  BY DEF Operations
<1>2. CASE o \in {dav2_qgemm(f), dav2_qgemm_colext(f), dav2_qgemm_gelu(f), dav2_layernorm(f)}
  BY <1>2 DEF dav2_qgemm, dav2_qgemm_colext, dav2_qgemm_gelu, dav2_layernorm, Plain, OpType
<1>3. ASSUME NEW x \in {"no", "other", "out"}, o = dav2_qgemm_ex(f, x)
      PROVE  o \in OpType /\ (o.ln => ~o.ext) /\ (o.in_relu => o.cv)
  BY <1>3 DEF dav2_qgemm_ex, dav2_qgemm, Plain, OpType
<1>4. ASSUME NEW k \in {1, 3}, NEW relu \in BOOLEAN, NEW x \in {"no", "other", "out"},
             o = dav2_conv2d_into(f, k, relu, x)
      PROVE  o \in OpType /\ (o.ln => ~o.ext) /\ (o.in_relu => o.cv)
  BY <1>4 DEF dav2_conv2d_into, dav2_qgemm_ex, dav2_qgemm, Plain, OpType
<1> QED
  BY <1>1, <1>2, <1>3, <1>4

LEMMA BeginKept == ASSUME IInv, Begin PROVE IInv'
<1>1. PICK o \in OpSet : Enter(o)
  BY DEF Begin
<1>2. o \in OpType /\ (o.ln => ~o.ext)
  BY OpsAssumption, OperationTyped
<1>3. /\ pc = "idle" /\ made' \in BOOLEAN /\ out' = "junk" /\ cext' = "junk" /\ torn' = FALSE
      /\ op' = o /\ marks' = Append(marks, used) /\ rstOut' = "no" /\ Clear
      /\ pc' = IF o.ln THEN "ln" ELSE "relu"
      /\ UNCHANGED <<usable, pend, blk, caps, used, arenaFailed, noOnchip>>
  BY <1>1 DEF Begin, Enter, Goto, drv
<1>4. used = 0 /\ noOnchip = 0 /\ marks = <<>> /\ pend = NoJob
  BY <1>3 DEF IInv, ArenaInv, RedoInv
<1>5. /\ rect' = FALSE /\ useOnchip' = FALSE /\ run' = 0 /\ tiles' = FALSE
      /\ r' = 1 /\ ext' = {} /\ par' = [c \in 1..Chunks |-> "junk"]
      /\ z' = "junk" /\ zst' = "none" /\ half' = 1
  BY <1>3 DEF Clear
<1>6. marks' = <<0>>
  BY <1>3, <1>4
<1>7. TDrv' /\ TCtl'
  BY <1>2, <1>3 DEF IInv, TDrv, TCtl, PCs
<1>8. TMem'
  BY <1>3, <1>6 DEF IInv, TMem
<1>9. TProd' /\ TRng' /\ TRq'
  BY <1>3, ClearTyped DEF TProd
<1>10. TRes'
  BY <1>3, <1>5 DEF TRes, Value
<1>11. ArenaInv' /\ RedoInv'
  BY <1>3, <1>4, <1>5, <1>6 DEF ArenaInv, RedoInv, Active
<1>12. StartInv' /\ RangeInv' /\ AfterInv' /\ RowsInv'
  BY <1>3, <1>5 DEF StartInv, RangeInv, AfterInv, RowsInv, Before, Ranging, After
<1>13. OutInv' /\ NormInv'
  BY <1>2, <1>3, <1>5 DEF OutInv, NormInv, Before, Ranging, After, Final, Norming
<1> QED
  BY <1>7, <1>8, <1>9, <1>10, <1>11, <1>12, <1>13 DEF IInv

---------------------------------------------------------------------------
(* The invariant is inductive.                                             *)
LEMMA InitInv == Init => IInv
<1> SUFFICES ASSUME Init PROVE IInv
  OBVIOUS
<1>1. TDrv /\ TCtl
  BY CapsAssumption, PlainTyped DEF Init, TDrv, TCtl, PCs, Jobs
<1>2. TMem /\ TProd
  <2>1. TMem
    BY EmptySeq DEF Init, TMem
  <2>2. TProd
    <3>1. made \in BOOLEAN /\ rect \in BOOLEAN /\ useOnchip \in BOOLEAN /\ tiles \in BOOLEAN
      BY DEF Init
    <3>2. run \in 0..2 /\ acc \in Value /\ chip \in Value
      BY DEF Init, Value
    <3> QED
      BY <3>1, <3>2 DEF TProd
  <2> QED
    BY <2>1, <2>2
<1>3. TRng
  <2>1. slot \in [1..StatRows -> {"empty", "max", "both"}]
    BY DEF Init
  <2>2. r \in Nat \ {0} /\ ext \subseteq {"empty", "max", "both", "wrong"}
    BY DEF Init
  <2>3. rngUsed \in BOOLEAN /\ torn \in BOOLEAN
    BY DEF Init
  <2> QED
    BY <2>1, <2>2, <2>3 DEF TRng
<1>4. TRq
  BY DEF Init, TRq, Value
<1>5. TRes
  BY DEF Init, TRes, Value
<1>6. ArenaInv
  BY EmptySeq DEF Init, ArenaInv, Active
<1>7. RedoInv /\ StartInv
  BY DEF Init, RedoInv, StartInv, Before, Ranging, Active, Plain
<1>8. RangeInv /\ AfterInv /\ RowsInv
  BY DEF Init, RangeInv, AfterInv, RowsInv, Ranging, After
<1>9. OutInv /\ NormInv
  BY DEF Init, OutInv, NormInv, Before, Ranging, After, Final, Norming, Plain
<1> QED
  BY <1>1, <1>2, <1>3, <1>4, <1>5, <1>6, <1>7, <1>8, <1>9 DEF IInv

LEMMA StutterKept == ASSUME IInv, UNCHANGED vars PROVE IInv'
<1>1. /\ UNCHANGED <<usable, pend, blk, caps, pc, op, marks, used, arenaFailed, noOnchip>>
      /\ UNCHANGED <<made, rect, useOnchip, run, tiles, acc, chip, slot, r, ext, rngUsed, torn>>
      /\ UNCHANGED <<dpar, par, x2, chunk, lut, rstBuf, out, rstOut, cext, z, zst, half>>
  BY DEF vars, drv, mem, prod, rng, rq, res, norm
<1>2. TDrv' /\ TCtl' /\ TMem' /\ TProd' /\ TRng' /\ TRq' /\ TRes'
  BY <1>1 DEF IInv, TDrv, TCtl, TMem, TProd, TRng, TRq, TRes
<1>3. ArenaInv' /\ RedoInv' /\ StartInv'
  BY <1>1 DEF IInv, ArenaInv, RedoInv, StartInv, Active
<1>4. RangeInv' /\ AfterInv' /\ RowsInv'
  BY <1>1 DEF IInv, RangeInv, AfterInv, RowsInv, Result, AllBoth, WantExt, HasRes, EpiNeeds, Is
<1>5. OutInv' /\ NormInv'
  BY <1>1 DEF IInv, OutInv, NormInv, WantExt, HasRes
<1> QED
  BY <1>2, <1>3, <1>4, <1>5 DEF IInv

LEMMA Inductive == IInv /\ [Next]_vars => IInv'
<1> SUFFICES ASSUME IInv, [Next]_vars PROVE IInv'
  OBVIOUS
<1>1. CASE Begin
  BY <1>1, BeginKept
<1>2. CASE InputRelu
  BY <1>2, InputReluKept
<1>3. CASE AllocAcc
  BY <1>3, AllocAccKept
<1>4. CASE ConvOnchip
  BY <1>4, ProductKept
<1>5. CASE ConvDdr
  BY <1>5, ProductKept
<1>6. CASE Im2col
  BY <1>6, Im2colKept
<1>7. CASE GemmOnchip
  BY <1>7, ProductKept
<1>8. CASE GemmDdr
  BY <1>8, ProductKept
<1>9. CASE CpuGemm
  BY <1>9, CpuGemmKept
<1>10. CASE AfterProduct
  BY <1>10, AfterProductKept
<1>11. CASE RangeRow
  BY <1>11, RangeRowKept
<1>12. CASE RangeDone
  BY <1>12, RangeDoneKept
<1>13. CASE ExtremesJob
  BY <1>13, ExtremesJobKept
<1>14. CASE ExtremesDone
  BY <1>14, ExtremesDoneKept
<1>15. CASE Prepare
  BY <1>15, PrepareKept
<1>16. CASE ChunkJob
  BY <1>16, ChunkJobKept
<1>17. CASE ChunksDone
  BY <1>17, ChunksDoneKept
<1>18. CASE Success
  BY <1>18, SuccessKept
<1>19. CASE Declined
  BY <1>19, DeclinedKept
<1>20. CASE Convert
  BY <1>20, ConvertKept
<1>21. CASE RedoOnCpu
  BY <1>21, RedoOnCpuKept
<1>22. CASE Leave
  BY <1>22, LeaveKept
<1>23. CASE Unwind
  BY <1>23, UnwindKept
<1>24. CASE Return
  BY <1>24, ReturnKept
<1>25. CASE layernorm_affine
  BY <1>25, layernorm_affineKept
<1>26. CASE LnPhaseA
  BY <1>26, LnPhaseAKept
<1>27. CASE LnPhaseB
  BY <1>27, LnPhaseBKept
<1>28. CASE LnExtremes
  BY <1>28, LnExtremesKept
<1>29. CASE layernorm_affine_cpu
  BY <1>29, layernorm_affine_cpuKept
<1>30. CASE Requant16Stats
  BY <1>30, Requant16StatsKept
<1>31. CASE Requant16Plain
  BY <1>31, Requant16PlainKept
<1>32. CASE Requant16Cpu
  BY <1>32, Requant16CpuKept
<1>33. CASE StatWord
  BY <1>33, StatWordKept
<1>34. CASE JobEnd
  BY <1>34, JobEndKept
<1>35. CASE JobFails
  BY <1>35, JobFailsKept
<1>36. CASE UNCHANGED vars
  BY <1>36, StutterKept
<1> QED
  BY <1>1, <1>2, <1>3, <1>4, <1>5, <1>6, <1>7, <1>8, <1>9, <1>10, <1>11, <1>12, <1>13, <1>14,
     <1>15,
     <1>16, <1>17, <1>18, <1>19, <1>20, <1>21, <1>22, <1>23, <1>24, <1>25, <1>26, <1>27, <1>28,
     <1>29, <1>30, <1>31, <1>32, <1>33, <1>34, <1>35, <1>36 DEF Next, qgemm_impl, LayerNorm


(* In every reachable state the inductive invariant holds: no operand,     *)
(* feature set or failure of a job takes qgemm_impl out of it.             *)
THEOREM Invariant == Spec => []IInv
<1>1. Init => IInv
  BY InitInv
<1>2. IInv /\ [Next]_vars => IInv'
  BY Inductive
<1> QED
  BY <1>1, <1>2, PTL DEF Spec

(* The variables keep their types.                                         *)
THEOREM TypeCorrect == Spec => []TypeOK
<1>1. IInv => TypeOK
  BY DEF IInv, TypeOK, TDrv, TCtl, TMem, TProd, TRng, TRq, TRes
<1> QED
  BY <1>1, Invariant, PTL

(* An operation gives back the arena it took and leaves no job running,    *)
(* and it is redone at most twice, for any number of chunks and rows.      *)
THEOREM ArenaGivenBack == Spec => []ArenaKept
<1>1. IInv => ArenaKept
  <2> SUFFICES ASSUME IInv PROVE ArenaKept
    OBVIOUS
  <2>1. pc = "returned" => used = 0 /\ pend = NoJob /\ noOnchip = 0 /\ marks = <<>>
    BY DEF IInv, ArenaInv, RedoInv
  <2>2. Len(marks) <= 3
    <3>1. noOnchip \in Nat /\ noOnchip <= 2
      BY DEF IInv, TMem, RedoInv
    <3>2. marks = <<>> \/ Len(marks) = noOnchip \/ Len(marks) = noOnchip + 1
      BY DEF IInv, ArenaInv, Active
    <3> QED
      BY <3>1, <3>2, EmptySeq
  <2> QED
    BY <2>1, <2>2 DEF ArenaKept
<1> QED
  BY <1>1, Invariant, PTL

(* Whatever the block declined or failed, the caller gets the right result *)
(* with the row ranges and column extremes of that result, or none.        *)
THEOREM ResultCorrect == Spec => []ResultRight
<1>1. IInv => ResultRight
  BY DEF IInv, OutInv, Final, ResultRight
<1> QED
  BY <1>1, Invariant, PTL

---------------------------------------------------------------------------
(* Powers of two.  The provers know nothing of 2^n: its laws come from the *)
(* number of subsets of 1..n.                                              *)
LEMMA PowerIs ==
  ASSUME NEW n \in Nat
  PROVE  /\ IsFiniteSet(1..n) /\ IsFiniteSet(SUBSET (1..n))
         /\ Cardinality(1..n) = n /\ 2^n = Cardinality(SUBSET (1..n))
<1>1. IsFiniteSet(1..n) /\ Cardinality(1..n) = IF 1 > n THEN 0 ELSE n - 1 + 1
  BY FS_Interval
<1>2. Cardinality(1..n) = n
  BY <1>1
<1>3. IsFiniteSet(SUBSET (1..n)) /\ Cardinality(SUBSET (1..n)) = 2^Cardinality(1..n)
  BY <1>1, FS_SUBSET
<1> QED
  BY <1>1, <1>2, <1>3

(* A power of two is a positive number.                                    *)
LEMMA PowerType ==
  ASSUME NEW n \in Nat
  PROVE  2^n \in Nat /\ 2^n >= 1
<1>1. 2^n \in Nat
  BY PowerIs, FS_CardinalityType
<1>2. 2^n # 0
  <2>1. SUBSET (1..n) # {}
    OBVIOUS
  <2> QED
    BY <2>1, PowerIs, FS_EmptySet
<1> QED
  BY <1>1, <1>2

(* 2^(a+b): a subset of 1..(a+b) is a subset of 1..a and one of the rest.  *)
LEMMA PowerSum ==
  ASSUME NEW a \in Nat, NEW b \in Nat
  PROVE  2^(a + b) = 2^a * 2^b
<1> DEFINE A == SUBSET (1..a)
           B == SUBSET (1..b)
           C == SUBSET (1..(a + b))
           up(T) == {j + a : j \in T}
           g == [p \in A \X B |-> p[1] \cup up(p[2])]
<1>1. g \in [A \X B -> C]
  <2> SUFFICES ASSUME NEW p \in A \X B PROVE p[1] \cup up(p[2]) \subseteq 1..(a + b)
    BY Zenon
  <2>1. p[1] \in A /\ p[2] \in B
    OBVIOUS
  <2>2. p[1] \subseteq 1..(a + b)
    BY <2>1
  <2>3. up(p[2]) \subseteq 1..(a + b)
    BY <2>1
  <2> QED
    BY <2>2, <2>3
<1>2. ASSUME NEW p \in A \X B, NEW q \in A \X B, g[p] = g[q] PROVE p = q
  <2>1. p[1] \in A /\ p[2] \in B /\ q[1] \in A /\ q[2] \in B
        /\ p = <<p[1], p[2]>> /\ q = <<q[1], q[2]>>
    OBVIOUS
  <2>2. p[1] \cup up(p[2]) = q[1] \cup up(q[2])
    BY <1>2
  <2>3. ASSUME NEW i, NEW x \in A, NEW y \in B
        PROVE  /\ i \in x <=> i \in 1..a /\ i \in x \cup up(y)
               /\ i \in y <=> i \in 1..b /\ i + a \in x \cup up(y)
    <3>1. \A j \in up(y) : j \in Int /\ j > a
      OBVIOUS
    <3>2. i \in 1..b => (i + a \in up(y) <=> i \in y)
      <4> SUFFICES ASSUME i \in 1..b, i + a \in up(y) PROVE i \in y
        OBVIOUS
      <4>1. PICK j \in y : j + a = i + a
        OBVIOUS
      <4>2. j = i
        BY <4>1
      <4> QED
        BY <4>2
    <3>3. i \in 1..b => i + a \notin x
      OBVIOUS
    <3>4. \A j \in x : j \in Int /\ j <= a /\ j \in 1..a
      OBVIOUS
    <3>5. i \in x <=> i \in 1..a /\ i \in x \cup up(y)
      <4> HIDE DEF up
      <4>1. i \in 1..a => i \notin up(y)
        <5> SUFFICES ASSUME i \in 1..a, i \in up(y) PROVE FALSE
          OBVIOUS
        <5>1. i \in Int /\ i > a
          BY <3>1
        <5> QED
          BY <5>1
      <4> QED
        BY <3>4, <4>1, Zenon
    <3>6. \A j \in y : j \in 1..b
      OBVIOUS
    <3>7. i \in y <=> i \in 1..b /\ i + a \in x \cup up(y)
      <4> HIDE DEF up
      <4> QED
        BY <3>2, <3>3, <3>6
    <3> QED
      BY <3>5, <3>7
  <2> HIDE DEF up, A, B, g
  <2>6. ASSUME NEW i
        PROVE  /\ (i \in p[1]) <=> (i \in 1..a /\ i \in p[1] \cup up(p[2]))
               /\ (i \in p[2]) <=> (i \in 1..b /\ i + a \in p[1] \cup up(p[2]))
               /\ (i \in q[1]) <=> (i \in 1..a /\ i \in q[1] \cup up(q[2]))
               /\ (i \in q[2]) <=> (i \in 1..b /\ i + a \in q[1] \cup up(q[2]))
    <3>1. ASSUME NEW x \in A, NEW y \in B
          PROVE  /\ (i \in x) <=> (i \in 1..a /\ i \in x \cup up(y))
                 /\ (i \in y) <=> (i \in 1..b /\ i + a \in x \cup up(y))
      BY <2>3
    <3>2. p[1] \in A /\ p[2] \in B /\ q[1] \in A /\ q[2] \in B
      BY <2>1
    <3>3. /\ (i \in p[1]) <=> (i \in 1..a /\ i \in p[1] \cup up(p[2]))
          /\ (i \in p[2]) <=> (i \in 1..b /\ i + a \in p[1] \cup up(p[2]))
      BY <3>1, <3>2, Zenon
    <3>4. /\ (i \in q[1]) <=> (i \in 1..a /\ i \in q[1] \cup up(q[2]))
          /\ (i \in q[2]) <=> (i \in 1..b /\ i + a \in q[1] \cup up(q[2]))
      BY <3>1, <3>2, Zenon
    <3> QED
      BY <3>3, <3>4
  <2>4. p[1] = q[1]
    <3>1. \A i : i \in p[1] <=> i \in q[1]
      BY <2>2, <2>6
    <3> QED
      BY <3>1, SetExtensionality
  <2>5. p[2] = q[2]
    <3>1. \A i : i \in p[2] <=> i \in q[2]
      BY <2>2, <2>6
    <3> QED
      BY <3>1, SetExtensionality
  <2> QED
    BY <2>1, <2>4, <2>5
<1>3. ASSUME NEW S \in C PROVE \E p \in A \X B : g[p] = S
  <2> DEFINE x == S \cap (1..a)
             y == {j \in 1..b : j + a \in S}
  <2>1. x \in A /\ y \in B
    OBVIOUS
  <2>2. x \cup up(y) \subseteq S
    OBVIOUS
  <2>3. S \subseteq x \cup up(y)
    <3> SUFFICES ASSUME NEW k \in S, k \notin 1..a PROVE k \in up(y)
      OBVIOUS
    <3>1. k - a \in 1..b /\ (k - a) + a = k
      OBVIOUS
    <3>2. k - a \in y
      BY <3>1
    <3> HIDE DEF y
    <3> QED
      BY <3>1, <3>2
  <2> HIDE DEF x, y, up, A, B
  <2>4. <<x, y>> \in A \X B /\ g[<<x, y>>] = x \cup up(y)
    BY <2>1
  <2> QED
    BY <2>2, <2>3, <2>4
<1>4. ExistsBijection(A \X B, C)
  <2> HIDE DEF A, B, C, g
  <2>1. g \in Bijection(A \X B, C)
    BY <1>1, <1>2, <1>3 DEF Bijection, Injection, Surjection, IsInjective
  <2> QED
    BY <2>1 DEF ExistsBijection
<1>5. a + b \in Nat
  OBVIOUS
<1>6. IsFiniteSet(A) /\ IsFiniteSet(B) /\ Cardinality(A) = 2^a /\ Cardinality(B) = 2^b
      /\ Cardinality(C) = 2^(a + b)
  BY <1>5, PowerIs
<1> HIDE DEF A, B, C, g
<1>7. IsFiniteSet(A \X B) /\ Cardinality(A \X B) = Cardinality(A) * Cardinality(B)
  BY <1>6, FS_Product
<1> QED
  BY <1>4, <1>6, <1>7, FS_Bijection

(* Multiplication by a natural number is monotone.                         *)
LEMMA ProductOrder1 ==
  ASSUME NEW d \in Nat, NEW x \in Int, NEW y \in Int, x <= y
  PROVE  d * x <= d * y
<1>1. d * (y - x) = d * y - d * x
  OBVIOUS
<1>2. y - x \in Nat
  OBVIOUS
<1>3. d * (y - x) \in Nat
  BY <1>2
<1> QED
  BY <1>1, <1>3

(* A power is twice the one before it.                                     *)
LEMMA PowerHalf ==
  ASSUME NEW n \in Nat, n > 0
  PROVE  2^n = 2 * 2^(n-1) /\ 2^(n-1) \in Nat /\ 2^(n-1) >= 1
<1>1. n - 1 \in Nat /\ 1 \in Nat /\ 1 + (n - 1) = n
  OBVIOUS
<1>2. 2^(1 + (n - 1)) = 2^1 * 2^(n - 1)
  BY <1>1, PowerSum
<1>3. 2^1 = 2
  OBVIOUS
<1> QED
  BY <1>1, <1>2, <1>3, PowerType

(* Powers divide the larger ones.                                          *)
LEMMA PowerOrder ==
  ASSUME NEW a \in Nat, NEW b \in Nat, a <= b
  PROVE  /\ 2^(b - a) \in Nat /\ 2^(b - a) >= 1 /\ 2^b = 2^a * 2^(b - a) /\ 2^a <= 2^b
         /\ a < b => 2 * 2^a <= 2^b
<1>1. b - a \in Nat /\ a + (b - a) = b
  OBVIOUS
<1>2. 2^a \in Nat /\ 2^(b - a) \in Nat /\ 2^(b - a) >= 1
  BY <1>1, PowerType
<1>3. 2^b = 2^a * 2^(b - a)
  <2>1. 2^(a + (b - a)) = 2^a * 2^(b - a)
    BY <1>1, PowerSum
  <2> QED
    BY <1>1, <2>1
<1>4. a < b => 2^(b - a) >= 2
  <2> SUFFICES ASSUME a < b PROVE 2^(b - a) >= 2
    OBVIOUS
  <2>1. b - a > 0
    OBVIOUS
  <2> QED
    BY <1>1, <2>1, PowerHalf
<1> DEFINE P == 2^a
           Q == 2^(b - a)
<1> HIDE DEF P, Q
<1>5. P * 1 <= P * Q /\ (a < b => P * 2 <= P * Q)
  BY <1>2, <1>4, ProductOrder1 DEF P, Q
<1> QED
  BY <1>2, <1>3, <1>5 DEF P, Q

---------------------------------------------------------------------------
(* Induction and recursion up to n, for sets and functions: no operator is *)
(* a parameter of these lemmas.                                            *)
LEMMA LeastNatural ==
  ASSUME NEW S, S \subseteq Nat, S # {}
  PROVE  \E x \in S : \A y \in S : x <= y
<1>1. PICK x \in S : \A y \in S : ~ (<<y, x>> \in OpToRel(<, Nat))
  BY NatLessThanWellFounded, WFMin
<1>2. ASSUME NEW y \in S PROVE x <= y
  <2> SUFFICES ASSUME y < x PROVE FALSE
    OBVIOUS
  <2>1. <<y, x>> \in OpToRel(<, Nat)
    BY DEF OpToRel
  <2> QED
    BY <1>1, <2>1
<1> QED
  BY <1>2

(* What holds at 0 and is kept by every step holds up to n.                *)
LEMMA Induction ==
  ASSUME NEW n \in Nat, NEW T, 0 \in T, \A i \in 0..(n - 1) : i \in T => i + 1 \in T
  PROVE  \A i \in 0..n : i \in T
<1> DEFINE S == {i \in 0..n : i \notin T}
<1> SUFFICES ASSUME S # {} PROVE FALSE
  OBVIOUS
<1>1. S \subseteq Nat
  OBVIOUS
<1>2. PICK x \in S : \A y \in S : x <= y
  BY <1>1, LeastNatural
<1>3. x \in 0..n /\ x \notin T /\ x # 0
  OBVIOUS
<1>4. x - 1 \in 0..(n - 1) /\ (x - 1) + 1 = x /\ x - 1 \in 0..n /\ ~(x <= x - 1)
  BY <1>3
<1>5. x - 1 \notin S
  BY <1>2, <1>4
<1>6. x - 1 \in T
  BY <1>4, <1>5
<1> QED
  BY <1>3, <1>4, <1>6

(* f starts with b and goes on as step says.                               *)
StepsBy(f, n, b, step) ==
  f[0] = b /\ \A i \in 1..n : f[i] = step[<<i, f[i-1]>>]

(* A recursive function on an interval exists.                             *)
LEMMA Recursion ==
  ASSUME NEW n \in Nat, NEW S, NEW b \in S, NEW step \in [(1..n) \X S -> S]
  PROVE  \E f \in [0..n -> S] : StepsBy(f, n, b, step)
<1> DEFINE T == {k \in 0..n : \E f \in [0..k -> S] : StepsBy(f, k, b, step)}
<1>1. 0 \in T
  <2> DEFINE f == [i \in 0..0 |-> b]
  <2>1. f \in [0..0 -> S] /\ f[0] = b /\ 1..0 = {}
    OBVIOUS
  <2> HIDE DEF f
  <2>2. StepsBy(f, 0, b, step)
    BY <2>1 DEF StepsBy
  <2> QED
    BY <2>1, <2>2
<1>2. ASSUME NEW k \in 0..(n - 1), k \in T PROVE k + 1 \in T
  <2>1. PICK f \in [0..k -> S] : StepsBy(f, k, b, step)
    BY <1>2
  <2> DEFINE g == [i \in 0..(k + 1) |-> IF i <= k THEN f[i] ELSE step[<<k + 1, f[k]>>]]
  <2>2. f[k] \in S /\ <<k + 1, f[k]>> \in (1..n) \X S
    OBVIOUS
  <2>3. step[<<k + 1, f[k]>>] \in S
    BY <2>2
  <2>4. g \in [0..(k + 1) -> S]
    BY <2>3
  <2>5. g[0] = b
    BY <2>1 DEF StepsBy
  <2>6. ASSUME NEW i \in 1..(k + 1) PROVE g[i] = step[<<i, g[i-1]>>]
    <3>1. i \in 0..(k + 1) /\ i - 1 \in 0..(k + 1) /\ i - 1 <= k
      OBVIOUS
    <3>2. g[i-1] = f[i-1]
      BY <3>1
    <3>3. CASE i <= k
      <4>1. i \in 1..k /\ g[i] = f[i]
        BY <3>1, <3>3
      <4>2. f[i] = step[<<i, f[i-1]>>]
        BY <2>1, <4>1 DEF StepsBy
      <4> QED
        BY <3>2, <4>1, <4>2
    <3>4. CASE i > k
      <4>1. i = k + 1 /\ i - 1 = k /\ ~(i <= k)
        BY <3>4
      <4>2. g[i] = step[<<k + 1, f[k]>>]
        BY <3>1, <4>1
      <4> HIDE DEF g
      <4> QED
        BY <3>2, <4>1, <4>2
    <3> QED
      BY <3>3, <3>4
  <2> HIDE DEF g
  <2>7. StepsBy(g, k + 1, b, step)
    BY <2>5, <2>6 DEF StepsBy
  <2>8. k + 1 \in 0..n
    OBVIOUS
  <2> QED
    BY <2>4, <2>7, <2>8
<1> HIDE DEF T
<1>3. \A i \in 0..n : i \in T
  BY <1>1, <1>2, Induction
<1>4. n \in T
  BY <1>3
<1> QED
  BY <1>4 DEF T

(* Products of naturals are naturals.                                      *)
LEMMA ProductSign ==
  ASSUME NEW a \in Nat, NEW b \in Nat
  PROVE  a * b \in Nat /\ (a > 0 /\ b > 0 => a * b >= a /\ a * b >= b /\ a * b > 0)
<1>1. a * b \in Nat
  OBVIOUS
<1>2. ASSUME a > 0, b > 0 PROVE a * b >= a /\ a * b >= b
  <2>1. a * 1 <= a * b /\ b * 1 <= b * a
    BY <1>2, ProductOrder1
  <2>2. a * b = b * a
    OBVIOUS
  <2> QED
    BY <2>1, <2>2
<1> QED
  BY <1>1, <1>2

(* Products grow with their factors.                                       *)
LEMMA ProductBound ==
  ASSUME NEW a \in Nat, NEW b \in Nat, NEW c \in Nat, NEW d \in Nat, a <= c, b <= d
  PROVE  a * b \in Nat /\ a * b <= c * d
<1>1. a * b <= a * d
  BY ProductOrder1
<1>2. d * a <= d * c
  BY ProductOrder1
<1>3. d * a = a * d /\ d * c = c * d /\ a * b \in Nat
  OBVIOUS
<1> QED
  BY <1>1, <1>2, <1>3

(* A positive factor can be taken off both sides.                          *)
LEMMA Cancel ==
  ASSUME NEW a \in Nat, NEW b \in Nat, NEW q \in Nat, q >= 1
  PROVE  (a * q < b * q => a < b) /\ (a * q <= b * q => a <= b)
<1>1. b <= a => b * q <= a * q
  BY ProductBound
<1>2. ASSUME b < a PROVE b * q < a * q
  <2>1. b + 1 <= a /\ b + 1 \in Nat
    BY <1>2
  <2>2. (b + 1) * q <= a * q
    BY <2>1, ProductBound
  <2>3. (b + 1) * q = b * q + q /\ b * q \in Nat /\ a * q \in Nat
    OBVIOUS
  <2> QED
    BY <2>2, <2>3
<1>3. a * q \in Nat /\ b * q \in Nat
  OBVIOUS
<1> QED
  BY <1>1, <1>2, <1>3

---------------------------------------------------------------------------
(* Quotients and remainders by a divisor the prover does not know.         *)
LEMMA Divided ==
  ASSUME NEW d \in Nat, d > 0, NEW x \in Int
  PROVE  /\ x \div d \in Int /\ x % d \in Int /\ 0 <= x % d /\ x % d < d
         /\ x = d * (x \div d) + (x % d)
OBVIOUS

(* Quotient and remainder are unique.                                      *)
LEMMA QuotientIs ==
  ASSUME NEW d \in Nat, d > 0, NEW q \in Int, NEW t \in Int, 0 <= t, t < d
  PROVE  (d * q + t) \div d = q /\ (d * q + t) % d = t
<1> DEFINE x == d * q + t
           p == x \div d
           u == x % d
<1>1. x \in Int
  OBVIOUS
<1>2. p \in Int /\ u \in Int /\ 0 <= u /\ u < d /\ x = d * p + u
  BY <1>1, Divided
<1> HIDE DEF p, u
<1>3. d * p + u = d * q + t
  BY <1>2
<1>4. ~(p < q)
  <2> SUFFICES ASSUME p < q PROVE FALSE
    OBVIOUS
  <2>1. p + 1 <= q /\ p + 1 \in Int
    BY <1>2
  <2>2. d * (p + 1) <= d * q
    BY <1>2, <2>1, ProductOrder1
  <2>3. d * (p + 1) = d * p + d /\ d * p \in Int /\ d * q \in Int
    BY <1>2
  <2> QED
    BY <1>2, <1>3, <2>2, <2>3
<1>5. ~(q < p)
  <2> SUFFICES ASSUME q < p PROVE FALSE
    OBVIOUS
  <2>1. q + 1 <= p /\ q + 1 \in Int
    BY <1>2
  <2>2. d * (q + 1) <= d * p
    BY <1>2, <2>1, ProductOrder1
  <2>3. d * (q + 1) = d * q + d /\ d * p \in Int /\ d * q \in Int
    BY <1>2
  <2> QED
    BY <1>2, <1>3, <2>2, <2>3
<1>6. p = q
  BY <1>2, <1>4, <1>5
<1>7. u = t
  <2>1. d * p = d * q /\ d * q \in Int
    BY <1>6
  <2> QED
    BY <1>2, <1>3, <2>1
<1> QED
  BY <1>6, <1>7 DEF p, u

(* A number below the divisor is its own remainder.                        *)
LEMMA SmallRemainder ==
  ASSUME NEW d \in Nat, NEW x \in Nat, x < d
  PROVE  x % d = x /\ x \div d = 0
<1>1. d > 0 /\ 0 \in Int /\ d * 0 + x = x
  OBVIOUS
<1>2. (d * 0 + x) \div d = 0 /\ (d * 0 + x) % d = x
  BY <1>1, QuotientIs
<1> QED
  BY <1>1, <1>2

(* Multiples of the divisor can be taken out.                              *)
LEMMA QuotientShift ==
  ASSUME NEW d \in Nat, d > 0, NEW q \in Int, NEW x \in Int
  PROVE  (d * q + x) \div d = q + x \div d /\ (d * q + x) % d = x % d
<1> DEFINE p == x \div d
           t == x % d
<1>1. p \in Int /\ t \in Int /\ 0 <= t /\ t < d /\ x = d * p + t
  BY Divided
<1> HIDE DEF p, t
<1>2. d * q + x = d * (q + p) + t /\ q + p \in Int
  BY <1>1
<1>3. (d * (q + p) + t) \div d = q + p /\ (d * (q + p) + t) % d = t
  BY <1>1, <1>2, QuotientIs
<1> QED
  BY <1>2, <1>3 DEF p, t

(* A quotient compares with k as the number does with d * k.               *)
LEMMA QuotientOrder ==
  ASSUME NEW d \in Nat, d > 0, NEW x \in Int, NEW k \in Int
  PROVE  /\ d * k <= x => k <= x \div d
         /\ x < d * k => x \div d < k
         /\ x <= d * k => x \div d <= k
<1> DEFINE p == x \div d
           t == x % d
<1>1. p \in Int /\ t \in Int /\ 0 <= t /\ t < d /\ x = d * p + t
  BY Divided
<1> HIDE DEF p, t
<1>2. d * p \in Int /\ d * k \in Int
  BY <1>1
<1>3. p < k => d * p + d <= d * k
  <2> SUFFICES ASSUME p < k PROVE d * p + d <= d * k
    OBVIOUS
  <2>1. p + 1 <= k /\ p + 1 \in Int
    BY <1>1
  <2>2. d * (p + 1) <= d * k
    BY <1>1, <2>1, ProductOrder1
  <2>3. d * (p + 1) = d * p + d
    BY <1>1
  <2> QED
    BY <2>2, <2>3
<1>4. k < p => d * k + d <= d * p
  <2> SUFFICES ASSUME k < p PROVE d * k + d <= d * p
    OBVIOUS
  <2>1. k + 1 <= p /\ k + 1 \in Int
    BY <1>1
  <2>2. d * (k + 1) <= d * p
    BY <1>1, <2>1, ProductOrder1
  <2>3. d * (k + 1) = d * k + d
    BY <1>1
  <2> QED
    BY <2>2, <2>3
<1>5. p = k => d * p = d * k
  OBVIOUS
<1>6. (d * k <= x => k <= p) /\ (x < d * k => p < k) /\ (x <= d * k => p <= k)
  BY <1>1, <1>2, <1>3, <1>4, <1>5
<1> QED
  BY <1>6 DEF p

(* Two divisions are one by the product.                                   *)
LEMMA QuotientOfQuotient ==
  ASSUME NEW d \in Nat, d > 0, NEW e \in Nat, e > 0, NEW x \in Int
  PROVE  (x \div d) \div e = x \div (d * e)
<1> DEFINE p == x \div d
           t == x % d
           u == p \div e
           v == p % e
<1>1. p \in Int /\ t \in Int /\ 0 <= t /\ t < d /\ x = d * p + t
  BY Divided
<1> HIDE DEF p, t
<1>2. u \in Int /\ v \in Int /\ 0 <= v /\ v < e /\ p = e * u + v
  BY <1>1, Divided
<1> HIDE DEF u, v
<1>3. d * e \in Nat /\ d * e > 0
  BY ProductSign
<1>4. x = (d * e) * u + (d * v + t)
  BY <1>1, <1>2
<1>5. 0 <= d * v + t /\ d * v + t < d * e /\ d * v + t \in Int
  <2>1. v + 1 <= e /\ v \in Nat /\ v + 1 \in Int
    BY <1>2
  <2>2. d * (v + 1) <= d * e /\ d * (v + 1) = d * v + d /\ d * v \in Nat
    BY <2>1, ProductOrder1
  <2> QED
    BY <1>1, <1>3, <2>2
<1>6. ((d * e) * u + (d * v + t)) \div (d * e) = u
  <2> DEFINE f == d * e
             w == d * v + t
  <2>1. f \in Nat /\ f > 0 /\ w \in Int /\ 0 <= w /\ w < f
    BY <1>3, <1>5
  <2> HIDE DEF f, w
  <2>2. (f * u + w) \div f = u
    BY <1>2, <2>1, QuotientIs
  <2> QED
    BY <2>2 DEF f, w
<1> QED
  BY <1>4, <1>6 DEF p, u

(* Magnitudes.                                                             *)
LEMMA MagnitudeIs ==
  ASSUME NEW x \in Int
  PROVE  Magnitude(x) \in Nat /\ Magnitude(-x) = Magnitude(x)
         /\ (x >= 0 => Magnitude(x) = x) /\ (x < 0 => Magnitude(x) = -x)
BY DEF Magnitude

LEMMA MagnitudeProduct ==
  ASSUME NEW x \in Int, NEW k \in Nat
  PROVE  Magnitude(x * k) = Magnitude(x) * k
<1>1. CASE x >= 0
  <2>1. x \in Nat /\ x * k \in Nat
    BY <1>1
  <2> QED
    BY <2>1, MagnitudeIs
<1>2. CASE x < 0
  <2>1. -x \in Nat /\ (-x) * k = -(x * k) /\ (-x) * k \in Nat
    BY <1>2
  <2>2. Magnitude(-(x * k)) = (-x) * k
    BY <2>1 DEF Magnitude
  <2>3. x * k \in Int
    OBVIOUS
  <2>4. Magnitude(x * k) = (-x) * k
    BY <2>2, <2>3, MagnitudeIs
  <2> QED
    BY <1>2, <2>4, MagnitudeIs
<1> QED
  BY <1>1, <1>2

---------------------------------------------------------------------------
(* The word and its halves.                                                *)
LEMMA Sizes ==
  /\ H \in Nat /\ H >= 3 /\ W \in Nat /\ W = H + H /\ W >= 6
BY HalfBitsAssumption DEF H, W

LEMMA WordSize == 2^W \in Nat /\ 2^W = 2 * 2^(W-1) /\ 2^(W-1) \in Nat /\ 2^(W-1) >= 1
<1>1. W \in Nat /\ W > 0
  BY Sizes
<1> QED
  BY <1>1, PowerHalf, PowerType

(* The sizes of words, half words and mantissas in each other's terms.     *)
LEMMA Operands ==
  /\ 2^(H-1) \in Nat /\ 2^(H-1) >= 1 /\ 2^H \in Nat /\ 2^H = 2 * 2^(H-1)
  /\ 2^(W-2) \in Nat /\ 2^(W-2) >= 1 /\ 2^(W-1) = 2 * 2^(W-2)
  /\ 2^W = 2^H * 2^H /\ 2^(W-1) = 2^H * 2^(H-1)
  /\ \A m \in Mantissa : m \in Nat /\ 2^(W-2) <= m /\ m < 2^(W-1)
  /\ \A v \in Half : v \in Int /\ Magnitude(v) \in 0..2^(H-1) /\ v < 2^(H-1)
<1>1. H \in Nat /\ H > 0 /\ H - 1 \in Nat /\ W - 1 \in Nat /\ W - 1 > 0 /\ (W - 1) - 1 = W - 2
      /\ H + H = W /\ H + (H - 1) = W - 1
  BY Sizes
<1>2. 2^(H-1) \in Nat /\ 2^(H-1) >= 1 /\ 2^H \in Nat /\ 2^H = 2 * 2^(H-1)
  BY <1>1, PowerHalf, PowerType
<1>3. 2^(W-2) \in Nat /\ 2^(W-2) >= 1 /\ 2^(W-1) = 2 * 2^(W-2)
  <2>1. 2^(W-1) = 2 * 2^((W-1)-1) /\ 2^((W-1)-1) \in Nat /\ 2^((W-1)-1) >= 1
    BY <1>1, PowerHalf
  <2> QED
    BY <1>1, <2>1
<1>4. 2^W = 2^H * 2^H /\ 2^(W-1) = 2^H * 2^(H-1)
  <2>1. 2^(H + H) = 2^H * 2^H /\ 2^(H + (H - 1)) = 2^H * 2^(H-1)
    BY <1>1, PowerSum
  <2> QED
    BY <1>1, <2>1
<1>5. \A m \in Mantissa : m \in Nat /\ 2^(W-2) <= m /\ m < 2^(W-1)
  BY <1>3 DEF Mantissa
<1>6. \A v \in Half : v \in Int /\ Magnitude(v) \in 0..2^(H-1) /\ v < 2^(H-1)
  BY <1>2 DEF Half, Magnitude
<1> QED
  BY <1>2, <1>3, <1>4, <1>5, <1>6

(* A word read as signed is the number itself when that fits.              *)
LEMMA SignedOf ==
  ASSUME NEW v \in SignedWord
  PROVE  Signed(v) = v /\ Signed(v % 2^W) = v
<1> DEFINE Z == 2^W
           T == 2^(W-1)
<1>1. Z \in Nat /\ T \in Nat /\ Z = 2 * T /\ T >= 1
  BY WordSize
<1>2. v \in Int /\ -T <= v /\ v < T
  BY <1>1 DEF SignedWord
<1> HIDE DEF Z, T
<1>3. v >= 0 => v % Z = v
  <2> SUFFICES ASSUME v >= 0 PROVE v % Z = v
    OBVIOUS
  <2>1. v \in Nat /\ v < Z
    BY <1>1, <1>2
  <2> QED
    BY <1>1, <2>1, SmallRemainder
<1>4. v < 0 => v % Z = v + Z
  <2> SUFFICES ASSUME v < 0 PROVE v % Z = v + Z
    OBVIOUS
  <2>1. v + Z \in Int /\ 0 <= v + Z /\ v + Z < Z /\ Z > 0 /\ -1 \in Int
    BY <1>1, <1>2
  <2>2. (Z * (-1) + (v + Z)) % Z = v + Z
    BY <1>1, <2>1, QuotientIs
  <2>3. Z * (-1) + (v + Z) = v
    BY <1>1, <1>2
  <2> QED
    BY <2>2, <2>3
<1> DEFINE u == v % Z
<1>5. u \in Nat /\ u < Z /\ (v >= 0 => u = v) /\ (v < 0 => u = v + Z)
  BY <1>1, <1>2, <1>3, <1>4
<1>6. u % Z = u
  <2> HIDE DEF u
  <2> QED
    BY <1>1, <1>5, SmallRemainder
<1>7. Signed(v) = IF u >= T THEN u - Z ELSE u
  BY DEF Signed, Z, T
<1>8. Signed(u) = IF u >= T THEN u - Z ELSE u
  BY <1>6 DEF Signed, Z, T
<1> HIDE DEF u
<1>9. (IF u >= T THEN u - Z ELSE u) = v
  BY <1>1, <1>2, <1>5
<1> QED
  BY <1>7, <1>8, <1>9 DEF u, Z

---------------------------------------------------------------------------
(* Rounding with the two words of a product.                               *)
LEMMA CarriedSum ==
  ASSUME NEW x \in Int, NEW s \in Nat, 0 < s, s <= W
  PROVE  LET lo  == x % 2^W
             lo2 == (lo + 2^(s-1)) % 2^W
             carry == IF lo2 < lo THEN 1 ELSE 0
         IN HalfUp(x, s) = (x \div 2^W + carry) * 2^(W-s) + lo2 \div 2^s
<1> DEFINE Z == 2^W
           P == 2^s
           Q == 2^(W-s)
           R == 2^(s-1)
           lo == x % Z
           hi == x \div Z
           lo2 == (lo + R) % Z
           carry == IF lo2 < lo THEN 1 ELSE 0
<1>1. /\ P \in Nat /\ P >= 1 /\ R \in Nat /\ R >= 1 /\ P = 2 * R /\ Q \in Nat /\ Q >= 1
      /\ Z \in Nat /\ Z = P * Q /\ P <= Z
  BY Sizes, PowerHalf, PowerOrder, PowerType
<1>2. HalfUp(x, s) = (x + R) \div P
  BY DEF HalfUp
<1> HIDE DEF Z, P, Q, R
<1>3. hi \in Int /\ lo \in Int /\ 0 <= lo /\ lo < Z /\ x = Z * hi + lo
  <2>1. Z \in Nat /\ Z > 0
    BY <1>1
  <2> QED
    BY <2>1, Divided
<1> HIDE DEF lo, hi
<1>4. lo2 \in Nat /\ carry \in 0..1 /\ lo + R = Z * carry + lo2
  <2>1. CASE lo + R < Z
    <3>1. lo + R \in Nat
      BY <1>1, <1>3
    <3>2. lo2 = lo + R
      BY <1>1, <2>1, <3>1, SmallRemainder
    <3> HIDE DEF lo2
    <3> QED
      BY <1>1, <1>3, <3>1, <3>2
  <2>2. CASE lo + R >= Z
    <3>1. lo + R - Z \in Int /\ 0 <= lo + R - Z /\ lo + R - Z < Z /\ Z > 0 /\ 1 \in Int
          /\ Z * 1 + (lo + R - Z) = lo + R
      BY <1>1, <1>3, <2>2
    <3>2. (Z * 1 + (lo + R - Z)) % Z = lo + R - Z
      BY <1>1, <3>1, QuotientIs
    <3>3. lo2 = lo + R - Z
      BY <3>1, <3>2
    <3> HIDE DEF lo2
    <3>4. lo2 < lo
      BY <1>1, <1>3, <3>3
    <3> QED
      BY <1>1, <1>3, <3>1, <3>3, <3>4
  <2> QED
    BY <1>1, <1>3, <2>1, <2>2
<1> HIDE DEF lo2, carry
<1> DEFINE c == hi + carry
           q == Q * c
<1>5. c \in Int /\ q \in Int
  BY <1>1, <1>3, <1>4
<1>6. x + R = P * q + lo2
  <2>1. (P * Q) * c = P * (Q * c)
    BY <1>1, <1>5
  <2>2. Z * hi + Z * carry = Z * c
    BY <1>1, <1>3, <1>4
  <2> HIDE DEF c
  <2> QED
    BY <1>1, <1>3, <1>4, <2>1, <2>2
<1>7. (P * q + lo2) \div P = q + lo2 \div P
  <2> HIDE DEF q
  <2> QED
    BY <1>1, <1>4, <1>5, QuotientShift
<1>8. q = c * Q
  <2> HIDE DEF c
  <2> QED
    BY <1>1, <1>5
<1>9. HalfUp(x, s) = (hi + carry) * Q + lo2 \div P
  BY <1>2, <1>6, <1>7, <1>8
<1> QED
  BY <1>9 DEF lo, hi, lo2, carry, Z, P, Q, R

(* Rounding needs none of the bits below its half.                         *)
LEMMA HighWord ==
  ASSUME NEW x \in Int, NEW s \in Nat, NEW k \in Nat, k < s
  PROVE  HalfUp(x, s) = (x \div 2^k + 2^(s-k-1)) \div 2^(s-k)
<1> DEFINE Z == 2^k
           D == 2^(s-k)
           R == 2^(s-k-1)
<1>1. s - k \in Nat /\ s - k - 1 \in Nat /\ k + (s - k) = s /\ k + (s - k - 1) = s - 1 /\ s # 0
  OBVIOUS
<1>2. Z \in Nat /\ Z > 0 /\ D \in Nat /\ D > 0 /\ R \in Nat
  BY <1>1, PowerType
<1>3. 2^s = Z * D /\ 2^(s-1) = Z * R
  <2>1. 2^(k + (s - k)) = Z * D /\ 2^(k + (s - k - 1)) = Z * R
    BY <1>1, PowerSum
  <2> QED
    BY <1>1, <2>1
<1>4. HalfUp(x, s) = (x + Z * R) \div (Z * D)
  BY <1>1, <1>3 DEF HalfUp
<1> HIDE DEF Z, D, R
<1>5. x + Z * R = Z * R + x /\ x + Z * R \in Int
  BY <1>2
<1>6. (Z * R + x) \div Z = R + x \div Z
  BY <1>2, QuotientShift
<1>7. ((x + Z * R) \div Z) \div D = (x + Z * R) \div (Z * D)
  BY <1>2, <1>5, QuotientOfQuotient
<1>8. x \div Z \in Int
  BY <1>2, Divided
<1>9. R + x \div Z = x \div Z + R
  BY <1>2, <1>8
<1> QED
  BY <1>4, <1>5, <1>6, <1>7, <1>9 DEF Z, D, R

(* apply_multiplier is the rounded quotient wherever that fits a word.     *)
LEMMA RequantAny ==
  ASSUME NEW v \in Int, NEW m \in Int, NEW s \in Nat, HalfUp(v * m, s) \in SignedWord \/ s > W
  PROVE  apply_multiplier(v, m, s) = HalfUp(v * m, s)
<1> DEFINE x == v * m
<1>1. x \in Int
  OBVIOUS
<1>2. W \in Nat
  BY Sizes
<1>3. CASE s > W
  <2>1. apply_multiplier(v, m, s) = (x \div 2^W + 2^(s-W-1)) \div 2^(s-W)
    BY <1>3 DEF apply_multiplier, mulh
  <2> HIDE DEF x
  <2>2. HalfUp(x, s) = (x \div 2^W + 2^(s-W-1)) \div 2^(s-W)
    BY <1>1, <1>2, <1>3, HighWord
  <2> QED
    BY <2>1, <2>2 DEF x
<1>4. CASE s = 0
  <2>1. apply_multiplier(v, m, s) = Signed(x % 2^W)
    BY <1>2, <1>4, Sizes DEF apply_multiplier
  <2>2. HalfUp(x, s) = x
    BY <1>4 DEF HalfUp
  <2>3. x \in SignedWord
    BY <1>2, <1>4, <2>2
  <2> HIDE DEF x
  <2>4. Signed(x % 2^W) = x
    BY <2>3, SignedOf
  <2> QED
    BY <2>1, <2>2, <2>4 DEF x
<1>5. CASE 0 < s /\ s <= W
  <2> DEFINE lo2 == ((x % 2^W) + 2^(s-1)) % 2^W
             carry == IF lo2 < (x % 2^W) THEN 1 ELSE 0
             y == (x \div 2^W + carry) * 2^(W-s) + lo2 \div 2^s
  <2>1. apply_multiplier(v, m, s) = Signed(y)
    BY <1>2, <1>5 DEF apply_multiplier, mulh
  <2>2. HalfUp(x, s) = y
    <3> HIDE DEF x
    <3> QED
      BY <1>1, <1>5, CarriedSum
  <2>3. HalfUp(x, s) \in SignedWord
    BY <1>2, <1>5
  <2> HIDE DEF y, x
  <2>4. Signed(y) = y
    BY <2>2, <2>3, SignedOf
  <2> QED
    BY <2>1, <2>2, <2>4 DEF x
<1> QED
  BY <1>2, <1>3, <1>4, <1>5

(* round(acc * mult / 2^shift) comes out of apply_multiplier (dav2_ops.c   *)
(* 214) exactly, for every accumulator, mantissa and shift whose result    *)
(* is a word.                                                              *)
THEOREM RequantRight == RequantExact
<1> SUFFICES ASSUME NEW m \in Mantissa, NEW v \in SignedWord, NEW s \in Shifts,
                    HalfUp(v * m, s) \in SignedWord
             PROVE  apply_multiplier(v, m, s) = HalfUp(v * m, s)
  BY DEF RequantExact
<1>1. m \in Int /\ v \in Int /\ s \in Nat
  BY Operands, WordSize, Sizes DEF SignedWord, Shifts
<1> QED
  BY <1>1, RequantAny

(* The rounded quotient of a bounded number is bounded.                    *)
LEMMA HalfUpBound ==
  ASSUME NEW s \in Nat, NEW k \in Nat, NEW x \in Int
  PROVE  /\ HalfUp(x, s) \in Int
         /\ x <= 2^s * k => HalfUp(x, s) <= k
         /\ 2^s * k <= x => k <= HalfUp(x, s)
         /\ -(2^s * k) <= x => -k <= HalfUp(x, s)
<1>1. CASE s = 0
  <2>1. 2^0 = 1 /\ 2^s = 2^0
    BY <1>1
  <2>2. 2^s * k = k
    BY <2>1
  <2>3. HalfUp(x, s) = x
    BY <1>1 DEF HalfUp
  <2> QED
    BY <2>2, <2>3
<1>2. CASE s > 0
  <2> DEFINE P == 2^s
             R == 2^(s-1)
             q == (x + R) \div P
  <2>1. P \in Nat /\ P > 0 /\ R \in Nat /\ R >= 1 /\ P = 2 * R
    BY <1>2, PowerHalf
  <2>2. HalfUp(x, s) = q
    BY <1>2 DEF HalfUp
  <2> HIDE DEF P, R
  <2>3. x + R \in Int /\ q \in Int
    BY <2>1, Divided
  <2> DEFINE p == P * k
  <2>4. p \in Int /\ P * (k + 1) = p + P /\ P * (-k) = -p
    BY <2>1
  <2>5. x <= p => q < k + 1
    <3>1. x <= p => x + R < P * (k + 1)
      BY <2>1, <2>4
    <3>2. k + 1 \in Int
      OBVIOUS
    <3> QED
      BY <2>1, <2>3, <3>1, <3>2, QuotientOrder
  <2>6. p <= x => k <= q
    <3>1. p <= x => P * k <= x + R
      BY <2>1, <2>4
    <3> QED
      BY <2>1, <2>3, <3>1, QuotientOrder
  <2>7. -p <= x => -k <= q
    <3>1. -p <= x => P * (-k) <= x + R
      BY <2>1, <2>4
    <3>2. -k \in Int
      OBVIOUS
    <3> QED
      BY <2>1, <2>3, <3>1, <3>2, QuotientOrder
  <2> HIDE DEF q
  <2>8. x <= p => q <= k
    BY <2>3, <2>5
  <2> QED
    BY <2>2, <2>3, <2>6, <2>7, <2>8 DEF P
<1> QED
  BY <1>1, <1>2

(* The token embedding's two ways are one value for every table entry,     *)
(* scale and shift of half a word and more: "the same value"               *)
(* (dav2_ops.c 1943).                                                      *)
THEOREM EmbedRight == EmbedExact
<1> SUFFICES ASSUME NEW m \in Mantissa, NEW v \in Half, NEW s \in H..W
             PROVE  EmbedToken(v, m, s) = mul_xf_round(v, m, s)
  BY DEF EmbedExact
<1> DEFINE u == Magnitude(v)
           x == u * m
           y == HalfUp(x, s)
           A == 2^(H-1)
           T == 2^(W-1)
<1>1. /\ m \in Nat /\ m >= 1 /\ m < T /\ v \in Int /\ u \in Nat /\ u <= A
      /\ s \in Nat /\ s > 0 /\ s <= W /\ H <= s /\ A \in Nat /\ T \in Nat
  BY Operands, Sizes, WordSize
<1>2. A <= 2^s /\ 2^s \in Nat
  <2>1. H - 1 \in Nat /\ H - 1 <= s
    BY <1>1, Sizes
  <2> QED
    BY <1>1, <2>1, PowerOrder, PowerType
<1> HIDE DEF A, T
<1>3. x \in Nat /\ x <= 2^s * T /\ 2^s * 0 <= x
  <2> HIDE DEF u
  <2>1. u <= 2^s /\ m <= T
    BY <1>1, <1>2
  <2>2. x \in Nat /\ x <= 2^s * T
    BY <1>1, <1>2, <2>1, ProductBound
  <2> QED
    BY <1>2, <2>2
<1>4. y \in Nat /\ y < 2^W
  <2> HIDE DEF x
  <2>2. 0 \in Nat /\ x \in Int
    BY <1>3
  <2>1. y \in Int /\ y <= T
    BY <1>1, <1>3, <2>2, HalfUpBound
  <2>3. 0 <= y
    BY <1>1, <1>3, <2>2, HalfUpBound
  <2> HIDE DEF y
  <2> QED
    BY <2>1, <2>3, WordSize DEF T
<1>5. EmbedToken(v, m, s) = IF v < 0 THEN -y ELSE y
  <2> DEFINE lo2 == ((x % 2^W) + 2^(s-1)) % 2^W
             carry == IF lo2 < (x % 2^W) THEN 1 ELSE 0
             w == (x \div 2^W + carry) * 2^(W-s) + lo2 \div 2^s
  <2>1. EmbedToken(v, m, s) = IF v < 0 THEN -(w % 2^W) ELSE w % 2^W
    BY DEF EmbedToken
  <2>2. w = y
    <3> HIDE DEF x
    <3>1. x \in Int
      BY <1>3
    <3> QED
      BY <1>1, <3>1, CarriedSum
  <2> HIDE DEF w, y
  <2>3. y % 2^W = y
    BY <1>4, WordSize, SmallRemainder
  <2> QED
    BY <2>1, <2>2, <2>3
<1>6. mul_xf_round(v, m, s) = IF v < 0 THEN -y ELSE y
  <2>1. v * m \in Int /\ (v < 0 <=> v * m < 0) /\ x = IF v < 0 THEN -(v * m) ELSE v * m
    <3>1. CASE v < 0
      <4>1. u = -v /\ u > 0
        BY <1>1, <3>1, MagnitudeIs
      <4>2. (-v) * m = -(v * m) /\ v * m \in Int
        BY <1>1
      <4>3. u * m > 0
        <5> HIDE DEF u
        <5> QED
          BY <1>1, <4>1, ProductSign
      <4> QED
        BY <3>1, <4>1, <4>2, <4>3
    <3>2. CASE v >= 0
      <4>1. u = v /\ v \in Nat
        BY <1>1, <3>2, MagnitudeIs
      <4>2. v * m \in Nat
        BY <1>1, <4>1
      <4> QED
        BY <3>2, <4>1, <4>2
    <3> QED
      BY <1>1, <3>1, <3>2
  <2> HIDE DEF x
  <2> QED
    BY <2>1 DEF mul_xf_round, HalfAway
<1> QED
  BY <1>5, <1>6

(* A term of the residual add, in one multiply and in two, is the same     *)
(* rounded quotient.                                                       *)
LEMMA AddTerm ==
  ASSUME NEW m \in Nat, NEW v \in Int, NEW s \in Nat, s > H
  PROVE  /\ AddTermWide(v, m, s) = HalfUp(v * m, s)
         /\ AddTermSmall(v, m, s) = HalfUp(v * m, s)
         /\ AddTermSmallPeak(v, m, s) = (v * m) \div 2^H + 2^(s-H-1)
<1> DEFINE Z == 2^H
           x == v * m
           t == x \div Z
<1>1. Z \in Nat /\ Z > 0 /\ H \in Nat /\ x \in Int /\ 2^W = Z * Z
  BY Sizes, Operands, PowerType
<1>2. HalfUp(x, s) = (t + 2^(s-H-1)) \div 2^(s-H)
  <2> HIDE DEF x
  <2> QED
    BY <1>1, HighWord
<1>3. mulh(v * Z, m) = t
  <2> HIDE DEF Z
  <2>1. (v * Z) * m = Z * x + 0 /\ Z * x + 0 \in Int /\ 0 \in Int
    BY <1>1
  <2> HIDE DEF x
  <2>2. (Z * x + 0) \div Z = x
    BY <1>1, <2>1, QuotientIs
  <2>3. ((Z * x + 0) \div Z) \div Z = (Z * x + 0) \div (Z * Z)
    BY <1>1, <2>1, QuotientOfQuotient
  <2> QED
    BY <1>1, <2>1, <2>2, <2>3 DEF mulh
<1>4. v * (m \div Z) + (v * (m % Z)) \div Z = t
  <2> DEFINE a == m \div Z
             b == m % Z
  <2> HIDE DEF Z
  <2>1. a \in Int /\ b \in Int /\ m = Z * a + b
    BY <1>1, Divided
  <2> HIDE DEF a, b
  <2>2. v * a \in Int /\ v * b \in Int /\ x = Z * (v * a) + v * b
    BY <1>1, <2>1
  <2>3. (Z * (v * a) + v * b) \div Z = v * a + (v * b) \div Z
    BY <1>1, <2>2, QuotientShift
  <2> QED
    BY <2>2, <2>3 DEF a, b
<1> HIDE DEF t
<1>5. AddTermWide(v, m, s) = (t + 2^(s-H-1)) \div 2^(s-H)
  BY <1>3 DEF AddTermWide
<1>6. AddTermSmall(v, m, s) = (t + 2^(s-H-1)) \div 2^(s-H)
  BY <1>4 DEF AddTermSmall
<1>7. AddTermSmallPeak(v, m, s) = t + 2^(s-H-1)
  BY <1>4 DEF AddTermSmallPeak
<1> QED
  BY <1>2, <1>5, <1>6, <1>7 DEF t, x, Z

(* add_range's term with the operand moved up half a word is that of       *)
(* apply_multiplier, for every operand and shift; for the small operands   *)
(* of its first loop the two small multiplies give it too, and their sum   *)
(* stays in the word.                                                      *)
THEOREM AddTermsRight == AddTermsExact
<1> SUFFICES ASSUME NEW m \in Mantissa, NEW v \in Half, NEW s \in (H+1)..(3*H - 1)
             PROVE  /\ AddTermWide(v, m, s) = apply_multiplier(v, m, s)
                    /\ Magnitude(v) < 2^(H-2) =>
                         AddTermSmall(v, m, s) = apply_multiplier(v, m, s)
                         /\ AddTermSmallPeak(v, m, s) \in SignedWord
  BY DEF AddTermsExact
<1> DEFINE u == Magnitude(v)
           x == v * m
           A == 2^(H-1)
           N == 2^(W-2)
           T == 2^(W-1)
<1>1. /\ m \in Nat /\ m < T /\ v \in Int /\ u \in Nat /\ u <= A /\ s \in Nat /\ s > H
      /\ A \in Nat /\ T \in Nat /\ N \in Nat /\ N >= 1 /\ T = 2 * N /\ x \in Int
      /\ Magnitude(x) = u * m
  <2>1. m \in Nat /\ m < T /\ v \in Int /\ u \in Nat /\ u <= A /\ A \in Nat
    BY Operands
  <2>2. s \in Nat /\ s > H
    BY Sizes
  <2>3. T \in Nat /\ N \in Nat /\ N >= 1 /\ T = 2 * N
    BY Operands, WordSize
  <2>4. x \in Int
    BY <2>1
  <2>5. Magnitude(x) = u * m
    BY <2>1, MagnitudeProduct
  <2> QED
    BY <2>1, <2>2, <2>3, <2>4, <2>5
<1>2. HalfUp(x, s) \in SignedWord
  <2>1. 2^s \in Nat /\ 2 * A <= 2^s
    <3>1. H - 1 \in Nat /\ H - 1 < s
      BY <1>1, Sizes
    <3> QED
      BY <1>1, <3>1, PowerOrder, PowerType
  <2>2. Magnitude(x) <= 2^s * N
    <3> HIDE DEF u, A, N, T
    <3>1. u * m <= A * (2 * N)
      <4>1. m <= 2 * N /\ 2 * N \in Nat
        BY <1>1
      <4> QED
        BY <1>1, <4>1, ProductBound
    <3>2. (2 * A) * N <= 2^s * N /\ 2 * A \in Nat /\ N <= N
      BY <1>1, <2>1, ProductBound
    <3>3. A * (2 * N) = (2 * A) * N /\ u * m \in Int /\ A * (2 * N) \in Int /\ 2^s * N \in Int
      BY <1>1, <2>1
    <3> QED
      BY <1>1, <3>1, <3>2, <3>3
  <2>3. x <= 2^s * N /\ -(2^s * N) <= x
    <3>1. 2^s * N \in Int
      BY <1>1, <2>1
    <3> HIDE DEF x, N
    <3> QED
      BY <1>1, <2>2, <3>1 DEF Magnitude
  <2> HIDE DEF x
  <2>4. HalfUp(x, s) \in Int /\ HalfUp(x, s) <= N /\ -N <= HalfUp(x, s)
    BY <1>1, <2>3, HalfUpBound
  <2> QED
    BY <1>1, <2>4 DEF SignedWord, T, N
<1>3. apply_multiplier(v, m, s) = HalfUp(x, s)
  BY <1>1, <1>2, RequantAny
<1>4. /\ AddTermWide(v, m, s) = HalfUp(x, s)
      /\ AddTermSmall(v, m, s) = HalfUp(x, s)
      /\ AddTermSmallPeak(v, m, s) = x \div 2^H + 2^(s-H-1)
  BY <1>1, AddTerm
<1>5. ASSUME u < 2^(H-2) PROVE x \div 2^H + 2^(s-H-1) \in SignedWord
  <2> DEFINE B == 2^(H-2)
             Z == 2^H
             t == x \div Z
             e == 2^(s-H-1)
  <2>1. B \in Nat /\ Z \in Nat /\ Z > 0 /\ Z = 4 * B /\ B >= 1
    <3>1. H - 1 \in Nat /\ H - 1 > 0 /\ H - 1 - 1 = H - 2
      BY Sizes
    <3>2. A = 2 * B /\ B \in Nat /\ B >= 1
      BY <3>1, PowerHalf
    <3> QED
      BY <3>2, Operands
  <2>2. e \in Nat /\ e <= N
    <3>1. s - H - 1 \in Nat /\ s - H - 1 <= W - 2 /\ W - 2 \in Nat
      BY <1>1, Sizes
    <3> QED
      BY <3>1, PowerType, PowerOrder
  <2> DEFINE K == 2^(W-3)
  <2>3. K \in Nat /\ N = 2 * K /\ K >= 1
    <3>1. W - 2 \in Nat /\ W - 2 > 0 /\ (W - 2) - 1 = W - 3
      BY Sizes
    <3> QED
      BY <3>1, PowerHalf
  <2> HIDE DEF u, A, N, T, B, Z, e, K
  <2>4. Magnitude(x) <= Z * K
    <3>1. u * m <= B * (4 * K)
      <4>1. m <= 4 * K /\ 4 * K \in Nat /\ u <= B
        BY <1>1, <1>5, <2>3, <2>1 DEF B
      <4> QED
        BY <1>1, <2>1, <4>1, ProductBound
    <3>2. B * (4 * K) = Z * K
      BY <2>1, <2>3
    <3> QED
      BY <1>1, <3>1, <3>2
  <2>5. x <= Z * K /\ Z * (-K) <= x
    <3>1. Z * K \in Int /\ Z * (-K) = -(Z * K)
      BY <2>1, <2>3
    <3> HIDE DEF x
    <3> QED
      BY <1>1, <2>4, <3>1 DEF Magnitude
  <2>6. t \in Int /\ t <= K /\ -K <= t
    <3>1. -K \in Int /\ K \in Int
      BY <2>3
    <3> HIDE DEF x
    <3> QED
      BY <1>1, <2>1, <2>5, <3>1, QuotientOrder, Divided
  <2> HIDE DEF t
  <2>7. t + e \in -(2^(W-1)) .. (2^(W-1) - 1)
    BY <1>1, <2>2, <2>3, <2>6 DEF T
  <2> QED
    BY <2>7 DEF SignedWord, t, Z, e
<1> QED
  BY <1>3, <1>4, <1>5

(* mean_q16's two word divisions give the mean of a row of any length      *)
(* below 2^H, in Q16 and rounded, whenever the mean is a half word.        *)
THEOREM MeanRight == MeanExact
<1> SUFFICES ASSUME NEW c \in 1..(2^H - 1), NEW total \in SignedWord,
                    Magnitude(total) < c * 2^(H-1)
             PROVE  mean_q16(total, c) = (IF total < 0 THEN -1 ELSE 1)
                                         * ((Magnitude(total) * 2^H + c \div 2) \div c)
  BY DEF MeanExact
<1> DEFINE u == Magnitude(total)
           Z == 2^H
           B == 2^(H-1)
           q == u \div c
           t == u - q * c
           hc == c \div 2
           y == t * Z + hc
           w == y \div c
           m == q * Z + w
<1>1. /\ Z \in Nat /\ B \in Nat /\ B >= 1 /\ Z = 2 * B /\ 2^W = Z * Z
      /\ c \in Nat /\ c > 0 /\ c < Z /\ u \in Nat /\ total \in Int /\ u < c * B
  <2>1. total \in Int
    BY WordSize DEF SignedWord
  <2> QED
    BY <2>1, Operands, MagnitudeIs
<1> HIDE DEF u, Z, B
<1>2. q \in Int /\ t \in Int /\ 0 <= t /\ t < c /\ u = c * q + t
  <2>1. q \in Int /\ u % c \in Int /\ 0 <= u % c /\ u % c < c /\ u = c * q + (u % c)
    BY <1>1, Divided
  <2> HIDE DEF q
  <2>2. q * c = c * q /\ c * q \in Int
    BY <1>1, <2>1
  <2>3. u - q * c = u % c
    BY <1>1, <2>1, <2>2
  <2> QED
    BY <2>1, <2>3
<1>3. 0 <= q /\ q < B
  <2>1. q < B /\ 0 <= q
    <3>1. u \in Int /\ B \in Int /\ 0 \in Int /\ c * 0 <= u
      BY <1>1
    <3> QED
      BY <1>1, <3>1, QuotientOrder
  <2> QED
    BY <2>1
<1> HIDE DEF q, t
<1>4. hc \in Nat /\ hc <= c
  BY <1>1
<1> HIDE DEF hc
<1>5. y \in Nat /\ y < c * Z /\ y < Z * Z
  <2>1. t + 1 <= c /\ t \in Nat /\ t + 1 \in Nat
    BY <1>1, <1>2
  <2>2. (t + 1) * Z <= c * Z /\ c * Z <= Z * Z
    BY <1>1, <2>1, ProductBound
  <2>3. (t + 1) * Z = t * Z + Z /\ t * Z \in Nat /\ c * Z \in Nat /\ Z * Z \in Nat
    BY <1>1, <2>1
  <2> QED
    BY <1>1, <1>4, <2>2, <2>3
<1>6. y % 2^W = y
  <2> HIDE DEF y
  <2> QED
    BY <1>1, <1>5, SmallRemainder
<1>7. w \in Nat /\ w < Z
  <2> HIDE DEF y
  <2>1. y \in Int /\ Z \in Int /\ 0 \in Int /\ c * 0 <= y
    BY <1>1, <1>5
  <2>2. w \in Int /\ 0 <= w /\ w < Z
    BY <1>1, <1>5, <2>1, QuotientOrder, Divided
  <2> QED
    BY <2>2
<1>8. (u * Z + hc) \div c = m
  <2>1. u * Z + hc = c * (q * Z) + y
    <3>1. (c * q + t) * Z = c * (q * Z) + t * Z
      BY <1>1, <1>2
    <3>2. c * (q * Z) \in Int /\ t * Z \in Int
      BY <1>1, <1>2
    <3> QED
      BY <1>2, <1>4, <3>1, <3>2
  <2> HIDE DEF y
  <2>2. q * Z \in Int
    BY <1>1, <1>2
  <2>3. (c * (q * Z) + y) \div c = q * Z + y \div c
    BY <1>1, <1>5, <2>2, QuotientShift
  <2> QED
    BY <2>1, <2>3
<1> HIDE DEF w
<1>9. m \in Nat /\ m < 2^W
  <2>1. q + 1 <= B /\ q + 1 \in Nat /\ q \in Nat
    BY <1>1, <1>2, <1>3
  <2>2. (q + 1) * Z <= B * Z /\ B * Z <= Z * Z
    <3>1. B <= Z
      BY <1>1
    <3> QED
      BY <1>1, <2>1, <3>1, ProductBound
  <2>3. (q + 1) * Z = q * Z + Z /\ q * Z \in Nat /\ B * Z \in Nat /\ Z * Z \in Nat
    BY <1>1, <2>1
  <2> QED
    BY <1>1, <1>7, <2>2, <2>3
<1>10. m % 2^W = m
  <2> HIDE DEF m
  <2> QED
    BY <1>9, WordSize, SmallRemainder
<1>11. mean_q16(total, c) = IF total < 0 THEN -m ELSE m
  <2>1. mean_q16(total, c) = IF total < 0 THEN -((q * Z + (y % 2^W) \div c) % 2^W)
                             ELSE (q * Z + (y % 2^W) \div c) % 2^W
    BY DEF mean_q16, u, Z, q, t, hc
  <2>2. q * Z + (y % 2^W) \div c = m
    BY <1>6 DEF w
  <2> HIDE DEF m
  <2> QED
    BY <1>10, <2>1, <2>2
<1>12. mean_q16(total, c) = (IF total < 0 THEN -1 ELSE 1) * m
  <2> HIDE DEF m
  <2> QED
    BY <1>9, <1>11
<1> QED
  BY <1>8, <1>12 DEF u, Z, hc

---------------------------------------------------------------------------
(* The partial sums of a row, as numbers and as words.                     *)
Sums(f, x, n) ==
  f \in [0..n -> Int] /\ f[0] = 0 /\ \A i \in 1..n : f[i] = f[i-1] + x[i]
WordSums(f, x, n) ==
  f \in [0..n -> Int] /\ f[0] = 0 /\ \A i \in 1..n : f[i] = (f[i-1] + x[i]) % 2^W

(* SumTo by its partial sums.                                              *)
LEMMA SumIs ==
  ASSUME NEW n \in Nat, NEW x \in [1..n -> Int]
  PROVE  \E f : Sums(f, x, n) /\ SumTo(x, n) = f[n]
<1> DEFINE sum[i \in 0..n] == IF i = 0 THEN 0 ELSE sum[i-1] + x[i]
           step == [p \in (1..n) \X Int |-> p[2] + x[p[1]]]
<1>1. \E f : f = [i \in 0..n |-> IF i = 0 THEN 0 ELSE f[i-1] + x[i]]
  <2>1. step \in [(1..n) \X Int -> Int] /\ 0 \in Int
    OBVIOUS
  <2>2. PICK f \in [0..n -> Int] : StepsBy(f, n, 0, step)
    BY <2>1, Recursion
  <2>3. ASSUME NEW i \in 1..n PROVE f[i] = f[i-1] + x[i]
    <3>1. i - 1 \in 0..n /\ <<i, f[i-1]>> \in (1..n) \X Int
      OBVIOUS
    <3>2. step[<<i, f[i-1]>>] = f[i-1] + x[i]
      BY <3>1
    <3> HIDE DEF step
    <3> QED
      BY <2>2, <3>2 DEF StepsBy
  <2>4. f[0] = 0
    BY <2>2 DEF StepsBy
  <2>5. \A i \in 0..n : f[i] = IF i = 0 THEN 0 ELSE f[i-1] + x[i]
    BY <2>3, <2>4
  <2>6. f = [i \in 0..n |-> IF i = 0 THEN 0 ELSE f[i-1] + x[i]]
    BY <2>5
  <2> QED
    BY <2>6
<1>2. sum = [i \in 0..n |-> IF i = 0 THEN 0 ELSE sum[i-1] + x[i]]
  BY <1>1, Zenon
<1>3. SumTo(x, n) = sum[n]
  BY DEF SumTo
<1> HIDE DEF sum, step
<1> DEFINE T == {i \in 0..n : sum[i] \in Int}
<1>4. 0 \in T
  BY <1>2
<1>5. ASSUME NEW i \in 0..(n - 1), i \in T PROVE i + 1 \in T
  <2>1. i + 1 \in 0..n /\ i + 1 # 0 /\ (i + 1) - 1 = i /\ i + 1 \in 1..n /\ sum[i] \in Int
    BY <1>5
  <2>2. sum[i + 1] = sum[i] + x[i + 1]
    BY <1>2, <2>1
  <2> QED
    BY <2>1, <2>2
<1> HIDE DEF T
<1>6. \A i \in 0..n : i \in T
  BY <1>4, <1>5, Induction
<1>7. sum \in [0..n -> Int]
  <2>1. \A i \in 0..n : sum[i] \in Int
    BY <1>6 DEF T
  <2>2. sum = [i \in 0..n |-> sum[i]]
    BY <1>2, Zenon
  <2> QED
    BY <2>1, <2>2
<1>8. \A i \in 1..n : sum[i] = sum[i-1] + x[i]
  BY <1>2
<1>9. sum[0] = 0
  BY <1>2
<1>10. Sums(sum, x, n)
  BY <1>7, <1>8, <1>9 DEF Sums
<1> QED
  BY <1>3, <1>10

(* WordSum by its partial sums.                                            *)
LEMMA WordSumIs ==
  ASSUME NEW n \in Nat, NEW x \in [1..n -> Int]
  PROVE  \E f : WordSums(f, x, n) /\ WordSum(x, n) = f[n]
<1> DEFINE Z == 2^W
           sum[i \in 0..n] == IF i = 0 THEN 0 ELSE (sum[i-1] + x[i]) % 2^W
           step == [p \in (1..n) \X Int |-> (p[2] + x[p[1]]) % Z]
<1>0. Z \in Nat /\ Z > 0
  BY WordSize
<1>1. \E f : f = [i \in 0..n |-> IF i = 0 THEN 0 ELSE (f[i-1] + x[i]) % Z]
  <2> HIDE DEF Z
  <2>1. step \in [(1..n) \X Int -> Int] /\ 0 \in Int
    <3>1. ASSUME NEW p \in (1..n) \X Int PROVE (p[2] + x[p[1]]) % Z \in Int
      <4>1. p[2] + x[p[1]] \in Int
        OBVIOUS
      <4> QED
        BY <1>0, <4>1, Divided
    <3> QED
      BY <3>1
  <2>2. PICK f \in [0..n -> Int] : StepsBy(f, n, 0, step)
    BY <2>1, Recursion
  <2>3. ASSUME NEW i \in 1..n PROVE f[i] = (f[i-1] + x[i]) % Z
    <3>1. i - 1 \in 0..n /\ <<i, f[i-1]>> \in (1..n) \X Int
      OBVIOUS
    <3>2. step[<<i, f[i-1]>>] = (f[i-1] + x[i]) % Z
      BY <3>1
    <3> HIDE DEF step
    <3> QED
      BY <2>2, <3>2 DEF StepsBy
  <2>4. f[0] = 0
    BY <2>2 DEF StepsBy
  <2>5. \A i \in 0..n : f[i] = IF i = 0 THEN 0 ELSE (f[i-1] + x[i]) % Z
    BY <2>3, <2>4
  <2>6. f = [i \in 0..n |-> IF i = 0 THEN 0 ELSE (f[i-1] + x[i]) % Z]
    BY <2>5
  <2> QED
    BY <2>6
<1>2. sum = [i \in 0..n |-> IF i = 0 THEN 0 ELSE (sum[i-1] + x[i]) % Z]
  BY <1>1, Zenon
<1>3. WordSum(x, n) = sum[n]
  BY DEF WordSum
<1> HIDE DEF sum, step, Z
<1> DEFINE T == {i \in 0..n : sum[i] \in Int}
<1>4. 0 \in T
  BY <1>2
<1>5. ASSUME NEW i \in 0..(n - 1), i \in T PROVE i + 1 \in T
  <2>1. i + 1 \in 0..n /\ i + 1 # 0 /\ (i + 1) - 1 = i /\ i + 1 \in 1..n /\ sum[i] \in Int
    BY <1>5
  <2>2. sum[i + 1] = (sum[i] + x[i + 1]) % Z
    BY <1>2, <2>1
  <2>3. sum[i] + x[i + 1] \in Int
    BY <2>1
  <2>4. sum[i + 1] \in Int
    BY <1>0, <2>2, <2>3, Divided
  <2> QED
    BY <2>1, <2>4
<1> HIDE DEF T
<1>6. \A i \in 0..n : i \in T
  BY <1>4, <1>5, Induction
<1>7. sum \in [0..n -> Int]
  <2>1. \A i \in 0..n : sum[i] \in Int
    BY <1>6 DEF T
  <2>2. sum = [i \in 0..n |-> sum[i]]
    BY <1>2, Zenon
  <2> QED
    BY <2>1, <2>2
<1>8. \A i \in 1..n : sum[i] = (sum[i-1] + x[i]) % Z
  BY <1>2
<1>9. sum[0] = 0
  BY <1>2
<1>10. WordSums(sum, x, n)
  BY <1>7, <1>8, <1>9 DEF WordSums, Z
<1> QED
  BY <1>3, <1>10

(* Four squares of a row's values fit a word.                              *)
LEMMA SquaresFit ==
  /\ RowQMax \in Nat /\ RowQMax >= 3 /\ 4 * (RowQMax * RowQMax) < 2^W
  /\ \A q \in (-RowQMax)..RowQMax : q * q \in 0..(RowQMax * RowQMax)
<1> DEFINE B == 2^(H-1)
           M == RowQMax
<1>1. B \in Nat /\ B >= 4 /\ 2^W = (2 * B) * (2 * B)
  <2>1. 2 \in Nat /\ H - 1 \in Nat /\ 2 <= H - 1
    BY Sizes
  <2>2. 2^2 <= B /\ 2^2 = 4
    BY <2>1, PowerOrder
  <2> QED
    BY <2>2, Operands
<1>2. M = B - 1
  BY DEF RowQMax
<1> HIDE DEF B, M
<1>3. 4 * (M * M) < 2^W
  <2>1. (2 * B) * (2 * B) = 4 * (M * M) + 8 * M + 4
    BY <1>1, <1>2
  <2>2. M * M \in Nat /\ M \in Nat
    BY <1>1, <1>2
  <2> QED
    BY <1>1, <2>1, <2>2
<1>4. M \in Nat /\ M >= 3
  BY <1>1, <1>2
<1>5. ASSUME NEW q \in (-M)..M PROVE q * q \in 0..(M * M)
  <2>1. CASE q >= 0
    <3>1. q \in Nat /\ q <= M
      BY <1>4, <2>1
    <3>2. q * q \in Nat /\ q * q <= M * M
      BY <1>4, <3>1, ProductBound
    <3> QED
      BY <1>4, <3>2
  <2>2. CASE q < 0
    <3>1. -q \in Nat /\ -q <= M /\ (-q) * (-q) = q * q
      BY <1>4, <2>2
    <3>2. (-q) * (-q) \in Nat /\ (-q) * (-q) <= M * M
      BY <1>4, <3>1, ProductBound
    <3> QED
      BY <1>4, <3>1, <3>2
  <2> QED
    BY <1>4, <2>1, <2>2
<1> QED
  BY <1>3, <1>4, <1>5 DEF M

(* y is the k values of x after the first a.                               *)
Part(y, x, a, k) == y = [j \in 1..k |-> x[a + j]]

(* Four values of x fit a word.                                            *)
FourFit(x, n, q) == x \in [1..n -> 0..q] /\ 4 * q < 2^W

LEMMA ChunkSum ==
  ASSUME NEW n \in Nat, NEW q \in Nat, NEW x, FourFit(x, n, q),
         NEW f, Sums(f, x, n), NEW a \in Nat, NEW k \in 0..4, a + k <= n,
         NEW y, Part(y, x, a, k)
  PROVE  WordSum(y, k) = f[a + k] - f[a]
<1> DEFINE Z == 2^W
<1>0. x \in [1..n -> 0..q] /\ 4 * q < 2^W
  BY DEF FourFit
<1>1. y \in [1..k -> Int] /\ k \in Nat
  BY <1>0 DEF Part
<1>2. PICK g : WordSums(g, y, k) /\ WordSum(y, k) = g[k]
  BY <1>1, WordSumIs
<1>3. Z \in Nat /\ 4 * q < Z
  BY <1>0, WordSize
<1> HIDE DEF Z
<1> DEFINE T == {i \in 0..k : g[i] = f[a + i] - f[a] /\ 0 <= g[i] /\ g[i] <= i * q}
<1>4. \A i \in 0..k : a + i \in 0..n /\ f[a + i] \in Int /\ g[i] \in Int
  BY <1>2 DEF Sums, WordSums
<1>5. 0 \in T
  <2>1. a + 0 = a /\ 0 * q = 0 /\ g[0] = 0 /\ 0 \in 0..k
    BY <1>2 DEF WordSums
  <2>2. f[a] \in Int
    BY <1>4, <2>1
  <2> QED
    BY <2>1, <2>2
<1>6. ASSUME NEW i \in 0..(k - 1), i \in T PROVE i + 1 \in T
  <2>1. i \in 0..k /\ i + 1 \in 1..k /\ i + 1 \in 0..k /\ (i + 1) - 1 = i /\ i \in 0..3
        /\ a + (i + 1) \in 1..n /\ a + (i + 1) - 1 = a + i
    OBVIOUS
  <2>2. g[i] = f[a + i] - f[a] /\ 0 <= g[i] /\ g[i] <= i * q
    BY <1>6
  <2> HIDE DEF T
  <2>3. f[a + (i + 1)] = f[a + i] + x[a + (i + 1)]
    BY <2>1 DEF Sums
  <2>4. y[i + 1] = x[a + (i + 1)] /\ x[a + (i + 1)] \in 0..q
    BY <1>0, <2>1 DEF Part
  <2>5. g[i + 1] = (g[i] + x[a + (i + 1)]) % Z
    BY <1>2, <2>1, <2>4 DEF WordSums, Z
  <2>6. (i + 1) * q = i * q + q /\ i * q \in Nat /\ (i + 1) * q <= 4 * q
    <3>1. i + 1 \in Nat /\ i + 1 <= 4 /\ 4 \in Nat /\ q <= q
      BY <2>1
    <3>2. (i + 1) * q <= 4 * q
      BY <3>1, ProductBound
    <3> QED
      BY <2>1, <3>2
  <2>7. g[i] + x[a + (i + 1)] \in Nat /\ g[i] + x[a + (i + 1)] <= (i + 1) * q
    <3> DEFINE v == x[a + (i + 1)]
               p == i * q
    <3>1. g[i] \in Int /\ v \in Nat /\ v <= q /\ p \in Nat /\ (i + 1) * q = p + q /\ 0 <= g[i] /\ g[i] <= p
      BY <1>4, <2>1, <2>2, <2>4, <2>6
    <3> HIDE DEF v, p
    <3>2. g[i] + v \in Nat /\ g[i] + v <= (i + 1) * q
      BY <3>1
    <3> QED
      BY <3>2 DEF v
  <2>8. (g[i] + x[a + (i + 1)]) % Z = g[i] + x[a + (i + 1)]
    <3>1. g[i] + x[a + (i + 1)] < Z
      BY <1>3, <2>6, <2>7
    <3> QED
      BY <1>3, <2>7, <3>1, SmallRemainder
  <2>9. g[i + 1] = f[a + (i + 1)] - f[a] /\ 0 <= g[i + 1] /\ g[i + 1] <= (i + 1) * q
    <3>1. f[a] \in Int /\ f[a + i] \in Int
      <4>1. 0 \in 0..k /\ a + 0 = a
        OBVIOUS
      <4> QED
        BY <1>4, <2>1, <4>1
    <3> QED
      BY <2>2, <2>3, <2>4, <2>5, <2>7, <2>8, <3>1
  <2> QED
    BY <2>1, <2>9 DEF T
<1> HIDE DEF T
<1>7. \A i \in 0..k : i \in T
  BY <1>1, <1>5, <1>6, Induction
<1>8. g[k] = f[a + k] - f[a]
  BY <1>1, <1>7 DEF T
<1> QED
  BY <1>2, <1>8

LEMMA RowStatsAny ==
  ASSUME NEW row \in Seq((-RowQMax)..RowQMax)
  PROVE  row_stats(row) = SumOfSquares(row)
<1> DEFINE n == Len(row)
           q == RowQMax * RowQMax
           x == [i \in 1..n |-> row[i] * row[i]]
           Start(k) == (k - 1) * 4
           Size(k)  == IF n - Start(k) < 4 THEN n - Start(k) ELSE 4
           Chunk(k) == WordSum([j \in 1..Size(k) |-> row[Start(k) + j] * row[Start(k) + j]], Size(k))
           c == (n + 4 - 1) \div 4
           y == [k \in 1..c |-> Chunk(k)]
           end(k) == IF n < 4 * k THEN n ELSE 4 * k
<1>1. n \in Nat /\ row \in [1..n -> (-RowQMax)..RowQMax]
  BY LenProperties
<1>2. q \in Nat /\ 4 * q < 2^W
  BY SquaresFit
<1>3. x \in [1..n -> 0..q]
  BY <1>1, SquaresFit
<1>4. row_stats(row) = SumTo(y, c) /\ SumOfSquares(row) = SumTo(x, n)
  BY DEF row_stats, SquaresAtATime, SumOfSquares
<1> HIDE DEF n, q
<1>5. c \in Nat /\ 4 * c >= n /\ (c >= 1 => 4 * (c - 1) < n)
  BY <1>1
<1> HIDE DEF c
<1>6. PICK f : Sums(f, x, n) /\ SumTo(x, n) = f[n]
  <2>1. x \in [1..n -> Int]
    BY <1>2, <1>3
  <2> HIDE DEF x
  <2> QED
    BY <1>1, <2>1, SumIs
<1>7. ASSUME NEW k \in 1..c
      PROVE  /\ Chunk(k) = f[end(k)] - f[4 * (k - 1)] /\ 4 * (k - 1) < n
             /\ end(k) \in 0..n /\ 4 * (k - 1) \in 0..n
  <2>1. Start(k) = 4 * (k - 1) /\ Start(k) \in Nat /\ Start(k) < n
    BY <1>1, <1>5
  <2>2. Size(k) \in 0..4 /\ Start(k) + Size(k) <= n /\ Start(k) + Size(k) = end(k)
    BY <1>1, <2>1
  <2> DEFINE a == Start(k)
             w == Size(k)
  <2>3. \A j \in 1..w : a + j \in 1..n /\ x[a + j] = row[a + j] * row[a + j]
    <3> HIDE DEF Start, Size
    <3>1. \A j \in 1..w : a + j \in 1..n
      BY <1>1, <2>1, <2>2
    <3> HIDE DEF a, w
    <3> QED
      BY <3>1
  <2>4. [j \in 1..w |-> x[a + j]] = [j \in 1..w |-> row[a + j] * row[a + j]]
    <3> HIDE DEF x, a, w
    <3> QED
      BY <2>3
  <2>5. WordSum([j \in 1..w |-> x[a + j]], w) = f[a + w] - f[a]
    <3>1. a \in Nat /\ w \in 0..4 /\ a + w <= n
      BY <2>1, <2>2
    <3> DEFINE v == [j \in 1..w |-> x[a + j]]
    <3>2. Part(v, x, a, w) /\ FourFit(x, n, q)
      BY <1>2, <1>3 DEF Part, FourFit
    <3> HIDE DEF a, w, x, v
    <3>3. WordSum(v, w) = f[a + w] - f[a]
      BY <1>1, <1>2, <1>6, <3>1, <3>2, ChunkSum
    <3> QED
      BY <3>3 DEF v
  <2>6. Chunk(k) = WordSum([j \in 1..w |-> x[a + j]], w)
    BY <2>4
  <2>7. end(k) \in 0..n /\ 4 * (k - 1) \in 0..n /\ 4 * (k - 1) < n
    BY <1>1, <2>1
  <2> HIDE DEF Chunk, Start, Size, end, x
  <2> QED
    BY <2>1, <2>2, <2>5, <2>6, <2>7
<1> HIDE DEF Chunk
<1>8. PICK g : Sums(g, y, c) /\ SumTo(y, c) = g[c]
  <2>1. y \in [1..c -> Int]
    <3>1. ASSUME NEW k \in 1..c PROVE Chunk(k) \in Int
      <4>1. f[end(k)] \in Int /\ f[4 * (k - 1)] \in Int
        <5> HIDE DEF end, x
        <5> QED
          BY <1>6, <1>7 DEF Sums
      <4> HIDE DEF end, x
      <4> QED
        BY <1>7, <4>1
    <3> QED
      BY <3>1
  <2> HIDE DEF y
  <2> QED
    BY <1>5, <2>1, SumIs
<1> DEFINE T == {k \in 0..c : g[k] = f[end(k)]}
<1>9. 0 \in T
  <2>1. end(0) = 0 /\ 0 \in 0..c
    BY <1>1, <1>5
  <2> HIDE DEF end, x, y
  <2> QED
    BY <1>6, <1>8, <2>1 DEF Sums
<1>10. ASSUME NEW k \in 0..(c - 1), k \in T PROVE k + 1 \in T
  <2>1. k + 1 \in 1..c /\ k + 1 \in 0..c /\ (k + 1) - 1 = k /\ k \in 0..c
    BY <1>5
  <2>2. 4 * k < n /\ end(k) = 4 * k
    <3>1. 4 * ((k + 1) - 1) < n
      BY <1>7, <2>1
    <3> QED
      BY <1>1, <2>1, <3>1
  <2>3. y[k + 1] = f[end(k + 1)] - f[4 * k] /\ end(k + 1) \in 0..n /\ 4 * k \in 0..n
    <3>1. y[k + 1] = Chunk(k + 1)
      BY <2>1
    <3>2. Chunk(k + 1) = f[end(k + 1)] - f[4 * ((k + 1) - 1)]
          /\ end(k + 1) \in 0..n /\ 4 * ((k + 1) - 1) \in 0..n
      BY <1>7, <2>1
    <3> HIDE DEF y, end
    <3> QED
      BY <2>1, <3>1, <3>2
  <2>4. g[k + 1] = g[k] + y[k + 1]
    <3> HIDE DEF y
    <3> QED
      BY <1>8, <2>1 DEF Sums
  <2>5. g[k] = f[end(k)]
    BY <1>10
  <2>6. f[end(k + 1)] \in Int /\ f[4 * k] \in Int
    <3> HIDE DEF end, x
    <3> QED
      BY <1>6, <2>3 DEF Sums
  <2> HIDE DEF T, end, y, x
  <2>7. g[k + 1] = f[end(k + 1)]
    BY <2>2, <2>3, <2>4, <2>5, <2>6
  <2> QED
    BY <2>1, <2>7 DEF T
<1> HIDE DEF T
<1>11. \A k \in 0..c : k \in T
  BY <1>5, <1>9, <1>10, Induction
<1>12. g[c] = f[end(c)] /\ end(c) = n
  <2>1. c \in 0..c
    BY <1>5
  <2>2. g[c] = f[end(c)]
    BY <1>11, <2>1 DEF T
  <2>3. end(c) = n
    BY <1>1, <1>5
  <2> QED
    BY <2>2, <2>3
<1> HIDE DEF end, x, y
<1> QED
  BY <1>4, <1>6, <1>8, <1>12

(* row_stats adds up the squares of a whole row, of any length, no word of *)
(* its loops overflowing.                                                  *)
THEOREM RowStatsRight ==
  /\ \A row \in Seq((-RowQMax)..RowQMax) : row_stats(row) = SumOfSquares(row)
  /\ RowStatsExact
<1>1. ASSUME NEW n \in 0..5, NEW row \in [1..n -> {-RowQMax, 2, RowQMax}]
      PROVE  row \in Seq((-RowQMax)..RowQMax)
  <2>1. \A q \in {-RowQMax, 2, RowQMax} : q \in (-RowQMax)..RowQMax
    BY SquaresFit
  <2>2. row \in [1..n -> (-RowQMax)..RowQMax] /\ n \in Nat
    BY <2>1
  <2> QED
    BY ZenonT(60), <2>2, SeqDef
<1> QED
  BY <1>1, RowStatsAny DEF RowStatsExact

---------------------------------------------------------------------------
(* Scales.                                                                 *)
LEMMA ScalesAre ==
  ASSUME NEW a \in Scales
  PROVE  a = Xf(a.m, a.sh) /\ a.m \in Int /\ Magnitude(a.m) \in Mantissa /\ a.sh \in 0..(3*W - 1)
<1> DEFINE N == 2^(W-2)
           R == 2^(W-4)
<1>1. N \in Nat /\ R \in Nat /\ N >= 16 /\ 4 * R = N /\ 2^(W-1) = 2 * N
  <2>1. W - 2 \in Nat /\ W - 4 \in Nat /\ W - 4 >= 2 /\ (W - 4) + 2 = W - 2 /\ 2 \in Nat
    BY Sizes
  <2>2. 2^((W - 4) + 2) = R * 2^2
    BY <2>1, PowerSum
  <2>3. 2^2 = 4
    OBVIOUS
  <2>4. 2^2 <= R
    BY <2>1, PowerOrder
  <2>5. R \in Nat /\ N \in Nat
    BY <2>1, PowerType
  <2>6. 2^(W-1) = 2 * N
    BY Operands
  <2>7. N = R * 4 /\ R >= 4
    BY <2>1, <2>2, <2>3, <2>4
  <2> HIDE DEF N, R
  <2> QED
    BY <2>5, <2>6, <2>7
<1>2. PICK m \in Few \cup {-n : n \in Few}, sh \in 0..(3*W - 1) : a = Xf(m, sh)
  BY DEF Scales
<1>3. \A n \in Few : n \in Nat /\ n \in Mantissa
  <2>1. N \in Mantissa /\ N + 1 \in Mantissa /\ N + R \in Mantissa /\ 2^(W-1) - 1 \in Mantissa
    <3> HIDE DEF N, R
    <3>1. \A n \in Nat : N <= n /\ n < 2 * N => n \in Mantissa
      BY <1>1 DEF Mantissa, N
    <3> QED
      BY <1>1, <3>1
  <2>2. \A n \in Mantissa : n \in Nat
    BY Operands
  <2> QED
    BY <2>1, <2>2 DEF Few
<1>4. m \in Int /\ Magnitude(m) \in Mantissa
  <2>1. CASE m \in Few
    BY <1>3, <2>1, MagnitudeIs
  <2>2. CASE m \in {-n : n \in Few}
    <3>1. PICK n \in Few : m = -n
      BY <2>2
    <3>2. n \in Int /\ n \in Mantissa /\ Magnitude(n) = n
      BY <1>3, MagnitudeIs
    <3> QED
      BY <3>1, <3>2, MagnitudeIs
  <2> QED
    BY <2>1, <2>2
<1> QED
  BY <1>2, <1>4 DEF Xf

(* Of two mantissas the one with the smaller shift is the greater number.  *)
LEMMA ShiftsFirst ==
  ASSUME NEW x \in Mantissa, NEW y \in Mantissa, NEW i \in Nat, NEW j \in Nat, i > j
  PROVE  x * 2^i > y * 2^j
<1> DEFINE N == 2^(W-2)
           P == 2^i
           Q == 2^j
<1>1. /\ x \in Nat /\ y \in Nat /\ N \in Nat /\ N <= x /\ y < 2 * N
      /\ P \in Nat /\ Q \in Nat /\ Q >= 1 /\ 2 * Q <= P
  BY Operands, PowerType, PowerOrder
<1> HIDE DEF N, P, Q
<1>2. N * (2 * Q) <= x * P
  <2>1. 2 * Q \in Nat
    BY <1>1
  <2> QED
    BY <1>1, <2>1, ProductBound
<1>3. y + 1 <= 2 * N /\ y + 1 \in Nat /\ 2 * N \in Nat /\ Q <= Q
  BY <1>1
<1>4. (y + 1) * Q <= (2 * N) * Q
  BY <1>1, <1>3, ProductBound
<1>5. (2 * N) * Q = N * (2 * Q) /\ (y + 1) * Q = y * Q + Q /\ y * Q \in Nat /\ x * P \in Nat
      /\ N * (2 * Q) \in Nat
  BY <1>1
<1>6. x * P > y * Q
  BY <1>1, <1>2, <1>4, <1>5
<1> QED
  BY <1>6 DEF P, Q

(* One scale's magnitude is the larger, over a common unit; and the scales  *)
(* of any mantissa and shift.                                              *)
Larger(a, b, k) == Magnitude(a.m) * 2^(k - a.sh) > Magnitude(b.m) * 2^(k - b.sh)
AnyScale == {a \in [m : Int, sh : Int] : Magnitude(a.m) \in Mantissa}

LEMMA CompareAny ==
  ASSUME NEW a \in AnyScale, NEW b \in AnyScale, NEW k \in Int, a.sh <= k, b.sh <= k
  PROVE  (xf_cmp_abs(a, b) > 0) <=> Larger(a, b, k)
<1> DEFINE x == Magnitude(a.m)
           y == Magnitude(b.m)
           i == k - a.sh
           j == k - b.sh
<1> SUFFICES (xf_cmp_abs(a, b) > 0) <=> (x * 2^i > y * 2^j)
  BY DEF Larger
<1>1. /\ a.m \in Int /\ b.m \in Int /\ x \in Mantissa /\ y \in Mantissa
      /\ a.sh \in Int /\ b.sh \in Int /\ i \in Nat /\ j \in Nat
  BY DEF AnyScale
<1>2. x \in Nat /\ y \in Nat /\ x >= 1 /\ y >= 1
  BY <1>1, Operands
<1>3. a.m # 0 /\ b.m # 0
  BY <1>1, <1>2 DEF Magnitude
<1>4. CASE a.sh = b.sh
  <2>1. xf_cmp_abs(a, b) = IF x > y THEN 1 ELSE IF x < y THEN -1 ELSE 0
    BY <1>3, <1>4 DEF xf_cmp_abs
  <2>2. i = j /\ 2^i \in Nat /\ 2^i >= 1
    BY <1>1, <1>4, PowerType
  <2> HIDE DEF x, y, i, j
  <2>3. (x > y) <=> (x * 2^i > y * 2^i)
    <3> DEFINE A == 2^i
    <3>1. A \in Nat /\ A >= 1
      BY <2>2
    <3> HIDE DEF A
    <3>2. (y * A < x * A => y < x) /\ (x * A <= y * A => x <= y) /\ x * A \in Nat /\ y * A \in Nat
      BY <1>2, <3>1, Cancel
    <3>3. x <= y => x * A <= y * A
      BY <1>2, <3>1, ProductBound
    <3>4. (x > y) <=> (x * A > y * A)
      BY <1>2, <3>2, <3>3
    <3> QED
      BY <3>4 DEF A
  <2> QED
    BY <1>2, <2>1, <2>2, <2>3 DEF x, y, i, j
<1>5. CASE a.sh < b.sh
  <2>1. xf_cmp_abs(a, b) = 1
    BY <1>1, <1>3, <1>5 DEF xf_cmp_abs
  <2>2. i > j
    BY <1>1, <1>5, Sizes
  <2> HIDE DEF x, y, i, j
  <2>3. x * 2^i > y * 2^j
    BY <1>1, <2>2, ShiftsFirst
  <2> QED
    BY <2>1, <2>3 DEF x, y, i, j
<1>6. CASE a.sh > b.sh
  <2>1. xf_cmp_abs(a, b) = -1
    BY <1>1, <1>3, <1>6 DEF xf_cmp_abs
  <2>2. j > i
    BY <1>1, <1>6, Sizes
  <2> HIDE DEF x, y, i, j
  <2>3. y * 2^j > x * 2^i
    BY <1>1, <2>2, ShiftsFirst
  <2>4. y * 2^j \in Nat /\ x * 2^i \in Nat
    BY <1>1, <1>2, PowerType, ProductSign
  <2>5. ~(x * 2^i > y * 2^j)
    BY <2>3, <2>4
  <2> QED
    BY <2>1, <2>5 DEF x, y, i, j
<1> QED
  BY <1>1, <1>4, <1>5, <1>6

(* xf_cmp_abs compares magnitudes by shift first and is right: a scale of  *)
(* smaller shift is the greater, since every mantissa has its top bit.     *)
THEOREM CompareRight ==
  /\ \A a, b \in AnyScale, k \in Int : a.sh <= k /\ b.sh <= k =>
       ((xf_cmp_abs(a, b) > 0) <=> Larger(a, b, k))
  /\ CompareExact
<1>1. CompareExact
  <2> SUFFICES ASSUME NEW a \in Scales, NEW b \in Scales
               PROVE  (xf_cmp_abs(a, b) > 0) <=> Larger(a, b, 3*W - 1)
    BY DEF CompareExact, Larger
  <2>1. 3*W - 1 \in Int /\ a.sh <= 3*W - 1 /\ b.sh <= 3*W - 1
    BY ScalesAre, Sizes
  <2>2. a \in AnyScale /\ b \in AnyScale
    <3>1. /\ a = Xf(a.m, a.sh) /\ a.m \in Int /\ Magnitude(a.m) \in Mantissa /\ a.sh \in Int
          /\ b = Xf(b.m, b.sh) /\ b.m \in Int /\ Magnitude(b.m) \in Mantissa /\ b.sh \in Int
      BY ScalesAre, Sizes
    <3> QED
      BY <3>1 DEF AnyScale, Xf
  <2> DEFINE k == 3*W - 1
  <2> HIDE DEF k
  <2>3. k \in Int /\ a.sh <= k /\ b.sh <= k
    BY <2>1 DEF k
  <2>4. (xf_cmp_abs(a, b) > 0) <=> Larger(a, b, k)
    BY <2>2, <2>3, CompareAny
  <2> QED
    BY <2>4 DEF k
<1> QED
  BY <1>1, CompareAny

LEMMA HalfAwayBound ==
  ASSUME NEW s \in Nat, NEW k \in Nat, NEW x \in Int, Magnitude(x) <= 2^s * k
  PROVE  HalfAway(x, s) \in Int /\ -k <= HalfAway(x, s) /\ HalfAway(x, s) <= k
<1>1. 2^s * k \in Nat /\ 2^s * 0 = 0 /\ 0 \in Nat /\ -x \in Int
  BY PowerType
<1>2. CASE x < 0
  <2>1. Magnitude(x) = -x
    BY <1>2, MagnitudeIs
  <2>2. -x <= 2^s * k /\ 2^s * 0 <= -x
    BY <1>1, <1>2, <2>1
  <2>3. HalfUp(-x, s) \in Int /\ HalfUp(-x, s) <= k /\ 0 <= HalfUp(-x, s)
    BY <1>1, <2>2, HalfUpBound
  <2> QED
    BY <1>2, <2>3 DEF HalfAway
<1>3. CASE x >= 0
  <2>1. Magnitude(x) = x
    BY <1>3, MagnitudeIs
  <2>2. x <= 2^s * k /\ 2^s * 0 <= x
    BY <1>1, <1>3, <2>1
  <2>3. HalfUp(x, s) \in Int /\ HalfUp(x, s) <= k /\ 0 <= HalfUp(x, s)
    BY <1>1, <2>2, HalfUpBound
  <2> QED
    BY <1>3, <2>3 DEF HalfAway
<1> QED
  BY <1>2, <1>3

(* A scale below 8 rounds to a number of PhiQ bits of at most 8.           *)
LEMMA RoundBelowEight ==
  ASSUME NEW m \in Int, Magnitude(m) < 2^(W-1), NEW sh \in 0..(2*W - 2), sh > W - 5
  PROVE  xf_round(Xf(m, sh), PhiQ) \in Int
         /\ -(8 * 2^PhiQ) <= xf_round(Xf(m, sh), PhiQ) /\ xf_round(Xf(m, sh), PhiQ) <= 8 * 2^PhiQ
<1> DEFINE s == sh - PhiQ
           K == 8 * 2^PhiQ
           T == 2^(W-1)
           v == xf_round(Xf(m, sh), PhiQ)
<1>1. sh \in Nat /\ W \in Nat /\ W >= 6 /\ sh >= W - 4 /\ PhiQ \in Nat /\ s \in Int
  BY Sizes, PhiAssumption
<1>2. K \in Nat /\ K = 2^(PhiQ + 3) /\ T \in Nat /\ Magnitude(m) \in Nat
  <2>1. 3 \in Nat /\ 2^3 = 8 /\ 2^PhiQ \in Nat
    BY <1>1, PowerType
  <2>2. 2^(PhiQ + 3) = 2^PhiQ * 2^3
    BY <1>1, <2>1, PowerSum
  <2> QED
    BY <2>1, <2>2, WordSize, MagnitudeIs
<1>3. v = IF m = 0 \/ s > 2*W - 2 THEN 0
          ELSE IF s <= 0 THEN m * 2^(IF -s > W THEN W ELSE -s) ELSE HalfAway(m, s)
  BY DEF xf_round, Xf
<1> HIDE DEF K, T, v
<1>4. CASE m = 0 \/ s > 2*W - 2
  BY <1>2, <1>3, <1>4 DEF K, v
<1>5. CASE m # 0 /\ ~(s > 2*W - 2) /\ s <= 0
  <2> DEFINE e == IF -s > W THEN W ELSE -s
             E == 2^e
  <2>1. e \in Nat /\ e <= -s /\ (W - 1) + e <= PhiQ + 3 /\ W - 1 \in Nat /\ (W - 1) + e \in Nat
        /\ PhiQ + 3 \in Nat
    BY <1>1, <1>5
  <2>2. E \in Nat /\ T * E <= K
    <3>1. 2^((W - 1) + e) = T * E
      BY <2>1, PowerSum DEF T
    <3>2. 2^((W - 1) + e) <= 2^(PhiQ + 3)
      BY <2>1, PowerOrder
    <3> QED
      BY <1>2, <2>1, <3>1, <3>2, PowerType
  <2>3. v = m * E
    BY <1>3, <1>5
  <2> HIDE DEF E
  <2>4. Magnitude(m * E) = Magnitude(m) * E /\ m * E \in Int
    BY <2>2, MagnitudeProduct
  <2>5. Magnitude(m) * E <= T * E /\ T * E \in Nat /\ Magnitude(m) * E \in Nat
    <3>1. Magnitude(m) <= T /\ E <= E
      BY <1>2, <2>2 DEF T
    <3> QED
      BY <1>2, <2>2, <3>1, ProductBound
  <2> DEFINE p == m * E
  <2>6. p \in Int /\ Magnitude(p) <= K
    BY <1>2, <2>2, <2>4, <2>5
  <2> HIDE DEF p
  <2>7. -K <= p /\ p <= K
    BY <1>2, <2>6 DEF Magnitude
  <2> QED
    BY <2>3, <2>6, <2>7 DEF p, K, v
<1>6. CASE m # 0 /\ ~(s > 2*W - 2) /\ ~(s <= 0)
  <2>1. s \in Nat /\ s + (PhiQ + 3) = sh + 3 /\ PhiQ + 3 \in Nat /\ W - 1 <= sh + 3 /\ W - 1 \in Nat
        /\ sh + 3 \in Nat
    BY <1>1, <1>6
  <2>2. 2^(s + (PhiQ + 3)) = 2^s * K
    BY <1>2, <2>1, PowerSum
  <2>3. T <= 2^(sh + 3)
    BY <2>1, PowerOrder DEF T
  <2>4. Magnitude(m) <= 2^s * K
    <3>1. 2^(sh + 3) \in Nat
      BY <2>1, PowerType
    <3> QED
      BY <1>2, <2>1, <2>2, <2>3, <3>1 DEF T
  <2>5. HalfAway(m, s) \in Int /\ -K <= HalfAway(m, s) /\ HalfAway(m, s) <= K
    BY <1>2, <2>1, <2>4, HalfAwayBound
  <2> QED
    BY <1>3, <1>6, <2>5 DEF K, v
<1> QED
  BY <1>4, <1>5, <1>6

(* gelu_xf reads its table of Phi inside it, for every input and any       *)
(* precision of the table: the entry after the last is asked for only with *)
(* a zero fraction.                                                        *)
THEOREM GeluRight == GeluInTable
<1> SUFFICES ASSUME NEW m \in Mantissa, NEW sh \in 0..(2*W - 2), NEW x \in {Xf(m, sh), Xf(-m, sh)},
                    gelu_xf(x).idx # -1
             PROVE  gelu_xf(x).idx \in 0..(PhiSize - 1)
                    /\ (gelu_xf(x).idx = PhiSize - 1 => gelu_xf(x).frac = 0)
  BY DEF GeluInTable
<1> DEFINE N == 2^(W-2)
           D == 2^(PhiQ - PhiStep)
           S == 2^PhiStep
           Q == 2^PhiQ
           v == xf_round(x, PhiQ)
           u == v + 8 * Q
<1>1. m \in Nat /\ N <= m /\ m < 2^(W-1) /\ N \in Nat /\ N >= 1 /\ 2^(W-1) \in Nat
      /\ sh \in Int /\ W \in Nat /\ W >= 6
  BY Operands, Sizes, WordSize
<1>2. x.sh = sh /\ x.m \in {m, -m} /\ x = Xf(x.m, sh)
  BY DEF Xf
<1>3. x.m \in Int /\ x.m # 0 /\ Magnitude(x.m) = m
  BY <1>1, <1>2, MagnitudeIs
<1>4. ~(xf_cmp_abs(x, Xf(N, W - 5)) >= 0)
      /\ gelu_xf(x) = [idx |-> u \div D, frac |-> u % D]
  <2>1. gelu_xf(x) = IF xf_cmp_abs(x, Xf(N, W - 5)) >= 0 THEN [idx |-> -1, frac |-> 0]
                     ELSE [idx |-> u \div D, frac |-> u % D]
    BY DEF gelu_xf
  <2> HIDE DEF u, D
  <2> QED
    BY <2>1
<1>5. sh > W - 5
  <2> SUFFICES ASSUME ~(sh > W - 5) PROVE FALSE
    OBVIOUS
  <2> DEFINE y == Xf(N, W - 5)
  <2>1. y.m = N /\ y.sh = W - 5 /\ y.m # 0 /\ Magnitude(N) = N
    BY <1>1, MagnitudeIs DEF Xf
  <2> HIDE DEF y
  <2>2. CASE sh = W - 5
    <3>1. xf_cmp_abs(x, y) = IF m > N THEN 1 ELSE IF m < N THEN -1 ELSE 0
      BY <1>2, <1>3, <2>1, <2>2 DEF xf_cmp_abs
    <3> HIDE DEF N
    <3> QED
      BY <1>1, <1>4, <3>1 DEF y
  <2>3. CASE sh < W - 5
    <3>1. xf_cmp_abs(x, y) = 1
      BY <1>1, <1>2, <1>3, <2>1, <2>3 DEF xf_cmp_abs
    <3> QED
      BY <1>4, <3>1 DEF y
  <2> QED
    BY <1>1, <2>2, <2>3
<1>6. v \in Int /\ -(8 * Q) <= v /\ v <= 8 * Q
  <2>1. Magnitude(x.m) < 2^(W-1)
    BY <1>1, <1>3
  <2> HIDE DEF v, Q
  <2>2. xf_round(Xf(x.m, sh), PhiQ) \in Int
         /\ -(8 * 2^PhiQ) <= xf_round(Xf(x.m, sh), PhiQ) /\ xf_round(Xf(x.m, sh), PhiQ) <= 8 * 2^PhiQ
    BY <1>3, <1>5, <2>1, RoundBelowEight
  <2> QED
    BY <1>2, <2>2 DEF v, Q
<1>7. D \in Nat /\ D > 0 /\ S \in Nat /\ Q = S * D /\ PhiSize = 16 * S + 1
  <2>1. PhiQ \in Nat /\ PhiStep \in Nat /\ PhiStep <= PhiQ
    BY PhiAssumption
  <2>2. D \in Nat /\ D >= 1 /\ Q = S * D
    BY <2>1, PowerOrder
  <2> QED
    BY <2>1, <2>2, PowerType DEF PhiSize
<1> HIDE DEF v, Q, S, D
<1>8. u \in Int /\ D * 0 <= u /\ u <= D * (16 * S) /\ 16 * S \in Int /\ 0 \in Int
  <2>1. 16 * (S * D) = D * (16 * S) /\ S * D \in Nat /\ D * 0 = 0
    BY <1>7
  <2>2. Q \in Nat /\ 8 * Q + 8 * Q = D * (16 * S)
    BY <1>7, <2>1
  <2> QED
    BY <1>6, <1>7, <2>1, <2>2
<1> HIDE DEF u
<1>9. u \div D \in Int /\ 0 <= u \div D /\ u \div D <= 16 * S /\ u = D * (u \div D) + (u % D)
      /\ u % D \in Int /\ 0 <= u % D
  BY <1>7, <1>8, QuotientOrder, Divided
<1>10. u \div D = 16 * S => u % D = 0
  <2> DEFINE q == u \div D
             t == u % D
             p == D * (16 * S)
  <2> SUFFICES ASSUME q = 16 * S PROVE t = 0
    OBVIOUS
  <2>1. u = p + t /\ p \in Int
    <3>1. p \in Int
      BY <1>7
    <3>2. D * q = p
      OBVIOUS
    <3> HIDE DEF q, t
    <3> QED
      BY <1>9, <3>1, <3>2 DEF q, t
  <2>2. u <= p /\ t \in Int /\ 0 <= t
    BY <1>8, <1>9
  <2> HIDE DEF t, p
  <2> QED
    BY <1>8, <2>1, <2>2
<1>11. gelu_xf(x).idx = u \div D /\ gelu_xf(x).frac = u % D
  BY <1>4
<1> QED
  BY <1>7, <1>9, <1>10, <1>11

---------------------------------------------------------------------------
(* Leading zeros by halving, for a word of 2^L bits as the code's is.      *)
LEMMA BelowItsPower ==
  ASSUME NEW n \in Nat
  PROVE  n < 2^n
<1> DEFINE T == {i \in 0..n : i < 2^i}
<1>1. 0 \in T
  <2>1. 2^0 = 1
    OBVIOUS
  <2> QED
    BY <2>1
<1>2. ASSUME NEW i \in 0..(n - 1), i \in T PROVE i + 1 \in T
  <2>1. i + 1 \in 0..n /\ i + 1 \in Nat /\ i + 1 > 0 /\ (i + 1) - 1 = i /\ i \in Nat
    OBVIOUS
  <2>2. 2^(i + 1) = 2 * 2^i /\ 2^i \in Nat /\ i < 2^i
    BY <1>2, <2>1, PowerHalf, PowerType
  <2>3. i + 1 < 2^(i + 1)
    BY <2>1, <2>2
  <2> QED
    BY <2>1, <2>3
<1> HIDE DEF T
<1>3. n \in 0..n /\ \A i \in 0..n : i \in T
  BY <1>1, <1>2, Induction
<1> QED
  BY <1>3 DEF T

(* xf_clz64 halves L times when a word has 2^L bits.                       *)
LEMMA HalvingSteps ==
  ASSUME NEW L \in Nat, W = 2^L
  PROVE  /\ Cardinality({n \in 0..W : 2^n < W}) = L
         /\ \A i \in 0..L : W \div 2^i = 2^(L - i) /\ 2^(L - i) \in 1..W
<1>1. W \in Nat /\ L < W
  BY Sizes, BelowItsPower
<1>2. {n \in 0..W : 2^n < W} = 0..(L - 1)
  <2>1. ASSUME NEW n \in 0..W, 2^n < W PROVE n \in 0..(L - 1)
    <3>1. n \in Nat /\ 2^n \in Nat
      BY <1>1, PowerType
    <3>2. L <= n => 2^L <= 2^n
      BY <3>1, PowerOrder
    <3> QED
      BY <1>1, <2>1, <3>1, <3>2
  <2>2. ASSUME NEW n \in 0..(L - 1) PROVE n \in 0..W /\ 2^n < W
    <3>1. n \in Nat /\ n < L /\ n <= L /\ n \in 0..W
      BY <1>1
    <3>2. 2 * 2^n <= 2^L /\ 2^n \in Nat /\ 2^n >= 1
      BY <3>1, PowerOrder, PowerType
    <3> QED
      BY <1>1, <3>1, <3>2
  <2> QED
    BY <2>1, <2>2
<1>3. Cardinality(0..(L - 1)) = L
  <2>1. 0 \in Int /\ L - 1 \in Int
    OBVIOUS
  <2>2. Cardinality(0..(L - 1)) = IF 0 > L - 1 THEN 0 ELSE (L - 1) - 0 + 1
    BY <2>1, FS_Interval
  <2> QED
    BY <2>2
<1>4. ASSUME NEW i \in 0..L PROVE W \div 2^i = 2^(L - i) /\ 2^(L - i) \in 1..W
  <2> DEFINE P == 2^i
             Q == 2^(L - i)
  <2>1. i \in Nat /\ i <= L /\ P \in Nat /\ P >= 1 /\ Q \in Nat /\ Q >= 1 /\ W = P * Q
    BY PowerOrder, PowerType
  <2> HIDE DEF P, Q
  <2>2. (P * Q + 0) \div P = Q
    BY <2>1, QuotientIs
  <2>3. P * Q >= Q /\ P * Q + 0 = P * Q
    BY <2>1, ProductSign
  <2>4. W \div P = Q /\ Q \in 1..W
    BY <1>1, <2>1, <2>2, <2>3
  <2> QED
    BY <2>4 DEF P, Q
<1> QED
  BY <1>2, <1>3, <1>4

(* One halving step, and the steps xf_clz64 takes from b.                  *)
HalfStep(s, k) == IF s.x < 2^(W-k) THEN [n |-> s.n + k, x |-> (s.x * 2^k) % 2^W] ELSE s
Zeros == [n : Int, x : Int]
Halves(f, L, b) ==
  f \in [0..L -> Zeros] /\ f[0] = b /\ \A i \in 1..L : f[i] = HalfStep(f[i-1], 2^(L - i))
TopWord(a) == LET top == a \div 2^W IN
  [n |-> IF top = 0 THEN W ELSE 0, x |-> IF top = 0 THEN a % 2^W ELSE top]

(* A halving keeps its state's type.                                       *)
LEMMA HalfStepType ==
  ASSUME NEW s \in Zeros, NEW k \in Nat
  PROVE  HalfStep(s, k) \in Zeros
<1>1. s.n + k \in Int /\ s.x * 2^k \in Int
  BY PowerType DEF Zeros
<1>2. (s.x * 2^k) % 2^W \in Int
  <2>1. 2^W \in Nat /\ 2^W > 0
    BY WordSize
  <2> QED
    BY <1>1, <2>1, Divided
<1> QED
  BY <1>1, <1>2 DEF HalfStep, Zeros

(* xf_clz64 is these halvings.                                             *)
LEMMA ClzHalves ==
  ASSUME NEW L \in Nat, W = 2^L, NEW a \in Nat
  PROVE  TopWord(a) \in Zeros /\ \E f : Halves(f, L, TopWord(a)) /\ xf_clz64(a) = f[L].n
<1> DEFINE top == a \div 2^W
           steps == Cardinality({n \in 0..W : 2^n < W})
           clz[i \in 0..steps] ==
             IF i = 0 THEN [n |-> IF top = 0 THEN W ELSE 0, x |-> IF top = 0 THEN a % 2^W ELSE top]
             ELSE LET s == clz[i-1]
                      k == W \div 2^i
                  IN IF s.x < 2^(W-k) THEN [n |-> s.n + k, x |-> (s.x * 2^k) % 2^W] ELSE s
           b == TopWord(a)
           step == [p \in (1..L) \X Zeros |-> HalfStep(p[2], W \div 2^p[1])]
<1>1. steps = L
  BY HalvingSteps
<1>2. b \in Zeros
  <2>1. top \in Int /\ a % 2^W \in Int /\ W \in Int
    <3>1. 2^W \in Nat /\ 2^W > 0
      BY WordSize
    <3> QED
      BY <3>1, Divided, Sizes
  <2> HIDE DEF top
  <2>2. b = [n |-> IF top = 0 THEN W ELSE 0, x |-> IF top = 0 THEN a % 2^W ELSE top]
    BY DEF TopWord, top
  <2> QED
    BY <2>1, <2>2 DEF Zeros
<1>3. \A i \in 1..L : W \div 2^i = 2^(L - i) /\ 2^(L - i) \in Nat
  <2>1. ASSUME NEW i \in 1..L PROVE W \div 2^i = 2^(L - i) /\ 2^(L - i) \in Nat
    <3>1. i \in 0..L
      OBVIOUS
    <3>2. W \div 2^i = 2^(L - i) /\ 2^(L - i) \in 1..W
      BY <3>1, HalvingSteps
    <3> QED
      BY <3>2
  <2> QED
    BY <2>1
<1>4. step \in [(1..L) \X Zeros -> Zeros]
  <2>1. ASSUME NEW p \in (1..L) \X Zeros PROVE HalfStep(p[2], W \div 2^p[1]) \in Zeros
    <3>1. p[2] \in Zeros /\ W \div 2^p[1] \in Nat
      BY <1>3
    <3> QED
      BY <3>1, HalfStepType
  <2> QED
    BY <2>1
<1> HIDE DEF b
<1>5. PICK f \in [0..L -> Zeros] : StepsBy(f, L, b, step)
  BY <1>2, <1>4, Recursion
<1>6. ASSUME NEW i \in 1..L PROVE f[i] = HalfStep(f[i-1], W \div 2^i)
  <2>1. i - 1 \in 0..L /\ <<i, f[i-1]>> \in (1..L) \X Zeros
    OBVIOUS
  <2>2. step[<<i, f[i-1]>>] = HalfStep(f[i-1], W \div 2^i)
    BY <2>1
  <2> HIDE DEF step
  <2> QED
    BY <1>5, <2>2 DEF StepsBy
<1> HIDE DEF step
<1>7. f[0] = b
  BY <1>5 DEF StepsBy
<1>8. \E g : g = [i \in 0..steps |->
                   IF i = 0 THEN [n |-> IF top = 0 THEN W ELSE 0, x |-> IF top = 0 THEN a % 2^W ELSE top]
                   ELSE LET s == g[i-1]
                            k == W \div 2^i
                        IN IF s.x < 2^(W-k) THEN [n |-> s.n + k, x |-> (s.x * 2^k) % 2^W] ELSE s]
  <2> DEFINE B == [n |-> IF top = 0 THEN W ELSE 0, x |-> IF top = 0 THEN a % 2^W ELSE top]
  <2>1. b = B
    BY DEF b, TopWord
  <2> HIDE DEF B
  <2>2. \A i \in 0..L : f[i] = IF i = 0 THEN B ELSE HalfStep(f[i-1], W \div 2^i)
    BY <1>6, <1>7, <2>1
  <2>3. f = [i \in 0..L |-> IF i = 0 THEN B ELSE HalfStep(f[i-1], W \div 2^i)]
    BY <2>2
  <2>4. f = [i \in 0..steps |-> IF i = 0 THEN B ELSE HalfStep(f[i-1], W \div 2^i)]
    BY <1>1, <2>3
  <2> HIDE DEF steps
  <2> QED
    BY <2>4, Zenon DEF HalfStep, B
<1>9. clz = [i \in 0..steps |->
                   IF i = 0 THEN [n |-> IF top = 0 THEN W ELSE 0, x |-> IF top = 0 THEN a % 2^W ELSE top]
                   ELSE LET s == clz[i-1]
                            k == W \div 2^i
                        IN IF s.x < 2^(W-k) THEN [n |-> s.n + k, x |-> (s.x * 2^k) % 2^W] ELSE s]
  <2> HIDE DEF steps, top
  <2> QED
    BY <1>8, Zenon
<1>10. xf_clz64(a) = clz[steps].n
  BY Zenon DEF xf_clz64
<1> HIDE DEF clz, steps, top
<1>11. clz[0] = b
  BY <1>1, <1>9 DEF b, TopWord, top
<1>12. ASSUME NEW i \in 1..L PROVE clz[i] = HalfStep(clz[i-1], 2^(L - i))
  <2>1. i \in 0..steps /\ i # 0
    BY <1>1
  <2>2. clz[i] = HalfStep(clz[i-1], W \div 2^i)
    BY <1>9, <2>1 DEF HalfStep
  <2> QED
    BY <1>3, <2>2
<1> DEFINE T == {i \in 0..L : clz[i] \in Zeros}
<1>13. 0 \in T
  BY <1>2, <1>11
<1>14. ASSUME NEW i \in 0..(L - 1), i \in T PROVE i + 1 \in T
  <2>1. i + 1 \in 0..L /\ i + 1 \in 1..L /\ (i + 1) - 1 = i /\ clz[i] \in Zeros
    BY <1>14
  <2>2. clz[i + 1] = HalfStep(clz[i], 2^(L - (i + 1)))
    BY <1>12, <2>1
  <2>3. 2^(L - (i + 1)) \in Nat
    BY <1>3, <2>1
  <2>4. clz[i + 1] \in Zeros
    BY <2>1, <2>2, <2>3, HalfStepType
  <2> QED
    BY <2>1, <2>4
<1> HIDE DEF T
<1>15. \A i \in 0..L : clz[i] \in Zeros
  <2>1. \A i \in 0..L : i \in T
    BY <1>13, <1>14, Induction
  <2> QED
    BY <2>1 DEF T
<1>16. clz \in [0..L -> Zeros]
  <2>1. clz = [i \in 0..L |-> clz[i]]
    BY <1>1, <1>9
  <2> QED
    BY <1>15, <2>1
<1>17. Halves(clz, L, b)
  BY <1>11, <1>12, <1>16 DEF Halves
<1> QED
  BY <1>1, <1>2, <1>10, <1>17 DEF b

(* After i halvings the number has been moved up by what was counted and   *)
(* its top bit is among the first 2^(L-i).                                 *)
LEMMA HalvedOnce ==
  ASSUME NEW k \in Nat, k >= 1, 2 * k <= W, NEW s \in Zeros,
         s.x \in Nat, 2^(W - 2*k) <= s.x, s.x < 2^W
  PROVE  \E d \in {0, k} : LET t == HalfStep(s, k) IN
           /\ t.n = s.n + d /\ t.x = s.x * 2^d
           /\ 2^(W - k) <= t.x /\ t.x < 2^W
<1> DEFINE x == s.x
           K == 2^k
           P == 2^(W - k)
           Z == 2^W
<1>1. W \in Nat /\ k <= W /\ W - k \in Nat /\ W - 2*k \in Nat /\ (W - 2*k) + k = W - k
      /\ (W - k) + k = W
  BY Sizes
<1>2. Z = P * K /\ P = 2^(W - 2*k) * K /\ K \in Nat /\ K >= 1 /\ P \in Nat /\ Z \in Nat
      /\ 2^(W - 2*k) \in Nat /\ 2^0 = 1
  <2>1. 2^((W - 2*k) + k) = 2^(W - 2*k) * K /\ 2^((W - k) + k) = P * K
    BY <1>1, PowerSum
  <2>2. 2^0 = 1
    OBVIOUS
  <2>3. K \in Nat /\ K >= 1 /\ P \in Nat /\ Z \in Nat /\ 2^(W - 2*k) \in Nat
    BY <1>1, PowerType
  <2> QED
    BY <1>1, <2>1, <2>2, <2>3
<1>3. HalfStep(s, k) = IF x < P THEN [n |-> s.n + k, x |-> (x * K) % Z] ELSE s
  BY DEF HalfStep
<1>4. CASE x < P
  <2> DEFINE R == 2^(W - 2*k)
  <2>1. x \in Nat /\ R \in Nat /\ R <= x /\ P = R * K
    BY <1>2
  <2> HIDE DEF x, K, P, Z, R
  <2>2. R * K <= x * K /\ x * K \in Nat
    <3>1. K <= K
      BY <1>2
    <3> QED
      BY <1>2, <2>1, <3>1, ProductBound, ProductSign
  <2>3. x * K < P * K
    <3>1. x + 1 \in Nat /\ x + 1 <= P /\ K <= K
      BY <1>2, <1>4, <2>1
    <3>2. (x + 1) * K <= P * K
      BY <1>2, <3>1, ProductBound
    <3>3. (x + 1) * K = x * K + K /\ P * K \in Nat
      BY <1>2, <2>1
    <3> QED
      BY <1>2, <2>2, <3>2, <3>3
  <2> DEFINE p == x * K
  <2>4. p \in Nat /\ p < Z
    BY <1>2, <2>2, <2>3
  <2>5. p % Z = p
    <3> HIDE DEF p
    <3> QED
      BY <1>2, <2>4, SmallRemainder
  <2>6. HalfStep(s, k) = [n |-> s.n + k, x |-> p]
    BY <1>3, <1>4, <2>5
  <2> HIDE DEF p
  <2>7. HalfStep(s, k).n = s.n + k /\ HalfStep(s, k).x = p
    BY <2>6
  <2> QED
    BY <2>1, <2>2, <2>4, <2>7 DEF p, x, K, P, Z
<1>5. CASE ~(x < P)
  <2>1. HalfStep(s, k) = s
    BY <1>3, <1>5
  <2>2. x \in Nat /\ P <= x /\ s.n \in Int
    BY <1>2, <1>5 DEF Zeros
  <2> HIDE DEF P
  <2>3. s.n = s.n + 0 /\ x = x * 2^0
    BY <1>2, <2>2
  <2> QED
    BY <2>1, <2>2, <2>3 DEF P
<1> QED
  BY <1>4, <1>5

HalvedTo(t, b, k) ==
  \E d \in 0..(W - k) : /\ t.n = b.n + d /\ t.x = b.x * 2^d
                        /\ 2^(W - k) <= t.x /\ t.x < 2^W

(* After all of them the top bit is in its place.                          *)
LEMMA HalvedAll ==
  ASSUME NEW L \in Nat, W = 2^L, NEW b \in Zeros, b.x \in Nat, b.x >= 1, b.x < 2^W,
         NEW f, Halves(f, L, b)
  PROVE  HalvedTo(f[L], b, 1)
<1> DEFINE T == {i \in 0..L : HalvedTo(f[i], b, 2^(L - i))}
<1>1. f \in [0..L -> Zeros] /\ f[0] = b /\ (\A i \in 1..L : f[i] = HalfStep(f[i-1], 2^(L - i)))
  BY DEF Halves
<1>2. 0 \in T
  <2>1. 2^0 = 1 /\ L - 0 = L /\ 0 \in 0..L
    OBVIOUS
  <2>2. W \in Nat /\ 0 \in 0..(W - W) /\ W - W = 0 /\ b.n \in Int
    BY Sizes DEF Zeros
  <2>3. b.n = b.n + 0 /\ b.x = b.x * 2^0 /\ 2^(W - W) = 1
    BY <2>1, <2>2
  <2>4. HalvedTo(b, b, W)
    BY <2>2, <2>3 DEF HalvedTo
  <2> QED
    BY <1>1, <2>1, <2>4
<1>3. ASSUME NEW i \in 0..(L - 1), i \in T PROVE i + 1 \in T
  <2> DEFINE k == 2^(L - (i + 1))
             s == f[i]
             t == f[i + 1]
  <2>1. i + 1 \in 0..L /\ i + 1 \in 1..L /\ (i + 1) - 1 = i /\ i \in 0..L
    OBVIOUS
  <2>2. t = HalfStep(s, k) /\ s \in Zeros
    BY <1>1, <2>1
  <2>3. 2^(L - i) = 2 * k /\ k \in Nat /\ k >= 1 /\ 2 * k <= W
    <3>1. L - i \in Nat /\ L - i > 0 /\ (L - i) - 1 = L - (i + 1)
      OBVIOUS
    <3>2. 2^(L - i) \in 1..W
      BY <2>1, HalvingSteps
    <3>3. 2^(L - i) = 2 * 2^((L - i) - 1) /\ 2^((L - i) - 1) \in Nat /\ 2^((L - i) - 1) >= 1
      BY <3>1, PowerHalf
    <3> QED
      BY <3>1, <3>2, <3>3
  <2>4. HalvedTo(s, b, 2 * k)
    BY <1>3, <2>3
  <2> HIDE DEF k, s, t
  <2>5. PICK d \in 0..(W - 2 * k) : s.n = b.n + d /\ s.x = b.x * 2^d
                                    /\ 2^(W - 2 * k) <= s.x /\ s.x < 2^W
    BY <2>4 DEF HalvedTo
  <2>6. W \in Nat /\ d \in Nat /\ 2^d \in Nat /\ s.x \in Nat /\ b.n \in Int
    <3>1. W \in Nat
      BY Sizes
    <3>2. d \in Nat /\ 2^d \in Nat
      BY <2>3, <3>1, PowerType
    <3>3. b.x * 2^d \in Nat
      BY <3>2, ProductSign
    <3> QED
      BY <2>5, <3>1, <3>2, <3>3 DEF Zeros
  <2>7. PICK e \in {0, k} : t.n = s.n + e /\ t.x = s.x * 2^e /\ 2^(W - k) <= t.x /\ t.x < 2^W
    BY <2>2, <2>3, <2>5, <2>6, HalvedOnce
  <2>8. e \in Nat /\ d + e \in 0..(W - k) /\ 2^e \in Nat /\ 2^(d + e) = 2^d * 2^e
    <3>1. e \in Nat /\ e <= k /\ d <= W - 2 * k
      BY <2>3, <2>6
    <3>2. d + e \in 0..(W - k)
      BY <2>3, <2>6, <3>1
    <3> QED
      BY <2>6, <3>1, <3>2, PowerSum, PowerType
  <2>9. t.n = b.n + (d + e) /\ t.x = b.x * 2^(d + e)
    <3> DEFINE D == 2^d
               E == 2^e
               F == b.x
    <3>1. D \in Nat /\ E \in Nat /\ F \in Nat /\ 2^(d + e) = D * E /\ t.x = (F * D) * E
      BY <2>5, <2>6, <2>7, <2>8
    <3> HIDE DEF D, E
    <3>2. (F * D) * E = F * (D * E)
      BY <3>1
    <3>3. t.n = b.n + (d + e)
      <4>1. d \in Int /\ e \in Int /\ b.n \in Int /\ s.n = b.n + d /\ t.n = s.n + e
        BY <2>5, <2>6, <2>7, <2>8
      <4> QED
        BY <4>1
    <3> QED
      BY <3>1, <3>2, <3>3
  <2>10. HalvedTo(t, b, k)
    BY <2>7, <2>8, <2>9 DEF HalvedTo
  <2> QED
    BY <2>1, <2>10 DEF t, k
<1> HIDE DEF T
<1>4. L \in T
  <2>1. L \in 0..L /\ \A i \in 0..L : i \in T
    BY <1>2, <1>3, Induction
  <2> QED
    BY <2>1
<1>5. L - L = 0 /\ 2^0 = 1
  OBVIOUS
<1> QED
  BY <1>4, <1>5 DEF T

(* xf_clz64 counts the zeros above the top bit.                            *)
LEMMA ClzAny ==
  ASSUME NEW L \in Nat, W = 2^L, NEW a \in Nat, a >= 1, a < 2^(2*W)
  PROVE  LET n == xf_clz64(a) IN
         n \in 0..(2*W - 1) /\ 2^(2*W - 1 - n) <= a /\ a < 2^(2*W - n)
<1> DEFINE Z == 2^W
           top == a \div Z
           low == a % Z
           b == TopWord(a)
<1>1. Z \in Nat /\ Z >= 1 /\ Z > 0 /\ W \in Nat /\ W >= 6 /\ 2^(2*W) = Z * Z
  <2>1. W \in Nat /\ 2*W = W + W /\ W >= 6
    BY Sizes
  <2>2. 2^(W + W) = 2^W * 2^W
    BY <2>1, PowerSum
  <2> QED
    BY <2>1, <2>2, PowerType
<1> HIDE DEF Z
<1>2. top \in Nat /\ top < Z /\ low \in Nat /\ low < Z /\ a = Z * top + low
  <2>1. Z * 0 <= a /\ a < Z * Z
    BY <1>1
  <2>2. 0 <= top /\ top < Z
    <3>1. a \in Int /\ 0 \in Int /\ Z \in Int
      BY <1>1
    <3> QED
      BY <1>1, <2>1, <3>1, QuotientOrder
  <2>3. top \in Int /\ low \in Int /\ 0 <= low /\ low < Z /\ a = Z * top + low
    BY <1>1, Divided
  <2> QED
    BY <2>2, <2>3
<1> HIDE DEF top, low
<1>3. b = [n |-> IF top = 0 THEN W ELSE 0, x |-> IF top = 0 THEN low ELSE top]
  BY DEF TopWord, top, low, Z, b
<1>4. b \in Zeros /\ b.x \in Nat /\ b.x >= 1 /\ b.x < Z
  <2>1. b \in Zeros
    BY ClzHalves
  <2>2. top = 0 => low = a
    BY <1>1, <1>2
  <2> HIDE DEF b
  <2>3. b.x = IF top = 0 THEN low ELSE top
    BY <1>3
  <2> QED
    BY <1>2, <2>1, <2>2, <2>3
<1>5. PICK f : Halves(f, L, b) /\ xf_clz64(a) = f[L].n
  BY ClzHalves
<1> HIDE DEF b
<1>6. HalvedTo(f[L], b, 1)
  BY <1>4, <1>5, HalvedAll DEF Z
<1>7. PICK d \in 0..(W - 1) : f[L].n = b.n + d /\ f[L].x = b.x * 2^d
                              /\ 2^(W - 1) <= f[L].x /\ f[L].x < Z
  BY <1>6 DEF HalvedTo, Z
<1> DEFINE x == b.x
           D == 2^d
           P == 2^(W - 1 - d)
<1>8. d \in Nat /\ W - 1 - d \in Nat /\ D \in Nat /\ D >= 1 /\ P \in Nat /\ x \in Nat
      /\ 2^(W - 1) = P * D /\ Z = (2 * P) * D /\ 2 * P = 2^(W - d) /\ Z = 2 * 2^(W - 1)
  <2>1. d \in Nat /\ W - 1 - d \in Nat /\ (W - 1 - d) + d = W - 1 /\ W - d \in Nat
        /\ (W - d) - 1 = W - 1 - d /\ W - d > 0
    BY <1>1
  <2>2. 2^((W - 1 - d) + d) = P * D
    BY <2>1, PowerSum
  <2>3. D \in Nat /\ D >= 1 /\ P \in Nat
    BY <2>1, PowerType
  <2>4. 2^(W - d) = 2 * 2^((W - d) - 1)
    BY <2>1, PowerHalf
  <2>5. Z = 2 * 2^(W - 1)
    BY WordSize DEF Z
  <2>6. 2^(W - d) = 2 * P /\ 2^(W - 1) = P * D
    BY <2>1, <2>2, <2>4
  <2> HIDE DEF P, D
  <2>7. Z = (2 * P) * D
    BY <2>3, <2>5, <2>6
  <2> QED
    BY <1>4, <2>1, <2>3, <2>5, <2>6, <2>7
<1> HIDE DEF x, D, P
<1>9. P <= x /\ x < 2 * P
  <2>1. P * D <= x * D /\ x * D < (2 * P) * D /\ 2 * P \in Nat
    BY <1>7, <1>8 DEF x, D
  <2> QED
    BY <1>8, <2>1, Cancel
<1>10. CASE top = 0
  <2>1. b.n = W /\ x = low /\ a = low
    <3>1. b.n = W /\ b.x = low
      BY <1>3, <1>10
    <3> QED
      BY <1>1, <1>2, <1>10, <3>1 DEF x
  <2> DEFINE n == xf_clz64(a)
  <2>2. n = W + d
    BY <1>5, <1>7, <2>1
  <2> HIDE DEF n
  <2>3. n \in 0..(2*W - 1) /\ 2*W - 1 - n = W - 1 - d /\ 2*W - n = W - d
    BY <1>1, <1>8, <2>2
  <2>4. 2^(2*W - 1 - n) = P /\ 2^(2*W - n) = 2 * P
    BY <1>8, <2>3 DEF P
  <2> QED
    BY <1>9, <2>1, <2>3, <2>4 DEF n
<1>11. CASE top # 0
  <2>1. b.n = 0 /\ x = top
    <3>1. b.n = 0 /\ b.x = top
      BY <1>3, <1>11
    <3> QED
      BY <3>1 DEF x
  <2> DEFINE n == xf_clz64(a)
  <2>2. n = d
    BY <1>5, <1>7, <1>8, <2>1
  <2> HIDE DEF n
  <2>3. n \in 0..(2*W - 1) /\ 2*W - 1 - n = W + (W - 1 - d) /\ 2*W - n = W + (W - d) /\ W - d \in Nat
    BY <1>1, <1>8, <2>2
  <2>4. 2^(2*W - 1 - n) = Z * P /\ 2^(2*W - n) = Z * (2 * P)
    <3>1. 2^(W + (W - 1 - d)) = Z * P
      BY <1>1, <1>8, PowerSum DEF P, Z
    <3>2. 2^(W + (W - d)) = Z * 2^(W - d)
      BY <1>1, <2>3, PowerSum DEF Z
    <3> QED
      BY <1>8, <2>3, <3>1, <3>2
  <2>5. Z * P <= Z * top /\ Z * (top + 1) <= Z * (2 * P)
    <3>1. P \in Int /\ top \in Int /\ 2 * P \in Int /\ top + 1 \in Int /\ P <= top /\ top + 1 <= 2 * P
      BY <1>2, <1>8, <1>9, <2>1
    <3> QED
      BY <1>1, <3>1, ProductOrder1
  <2>6. Z * (top + 1) = Z * top + Z /\ Z * top \in Nat /\ Z * P \in Nat /\ Z * (2 * P) \in Nat
    BY <1>1, <1>2, <1>8
  <2>7. Z * P <= a /\ a < Z * (2 * P)
    BY <1>1, <1>2, <2>5, <2>6
  <2> QED
    BY <2>3, <2>4, <2>7 DEF n
<1> QED
  BY <1>10, <1>11

---------------------------------------------------------------------------
(* Normalisation.                                                          *)
LEMMA HalfUpError ==
  ASSUME NEW x \in Int, NEW s \in Nat, s > 0
  PROVE  HalfUp(x, s) \in Int /\ HalfUp(x, s) * 2^s \in Int
         /\ 2 * Magnitude(HalfUp(x, s) * 2^s - x) <= 2^s
<1> DEFINE P == 2^(s-1)
           Z == 2^s
           q == (x + P) \div Z
           t == (x + P) % Z
<1>1. Z = 2 * P /\ P \in Nat /\ P >= 1 /\ Z \in Nat /\ Z > 0
  <2>1. Z = 2 * P /\ P \in Nat /\ P >= 1
    BY PowerHalf
  <2> HIDE DEF P, Z
  <2> QED
    BY <2>1
<1>2. HalfUp(x, s) = q
  BY DEF HalfUp
<1> HIDE DEF P, Z
<1>3. q \in Int /\ t \in Int /\ 0 <= t /\ t < Z /\ x + P = Z * q + t
  <2>1. x + P \in Int
    BY <1>1
  <2> QED
    BY <1>1, <2>1, Divided
<1> HIDE DEF q, t
<1> DEFINE p == q * Z
<1>4. p \in Int /\ Z * q = p
  BY <1>1, <1>3
<1> HIDE DEF p
<1>5. p - x = P - t /\ p - x \in Int
  BY <1>1, <1>3, <1>4
<1>6. 2 * Magnitude(p - x) <= Z
  BY <1>1, <1>3, <1>5 DEF Magnitude
<1> QED
  BY <1>2, <1>3, <1>4, <1>6 DEF p, Z

(* x is v 2^-sh moved s places to its normal form, to the nearest.         *)
Normalised(x, v, sh, s) ==
  /\ x = Xf(x.m, x.sh) /\ x.m \in Int /\ Magnitude(x.m) \in Mantissa
  /\ (x.m < 0) <=> (v < 0)
  /\ x.sh = sh - s
  /\ s <= 0 => x.m = v * 2^(-s)
  /\ s > 0 => 2 * Magnitude(x.m * 2^s - v) <= 2^s

(* The mantissa and shift xf_norm makes of a magnitude.                    *)
NormalOf(a) ==
  LET s == W + 1 - xf_clz64(a)
      q == IF s > 0 THEN HalfUp(a, s) ELSE a * 2^(-s)
      c == IF s > 0 /\ q >= 2^(W-1) THEN 1 ELSE 0
  IN [m |-> IF c = 1 THEN q \div 2 ELSE q, s |-> s + c]

(* Mantissa and shift are right for every number of two words.             *)
LEMMA NormalOfAny ==
  ASSUME NEW L \in Nat, W = 2^L, NEW a \in Nat, a >= 1, a < 2^(2*W - 1)
  PROVE  LET x == NormalOf(a) IN
         /\ x.m \in Mantissa /\ x.m \in Nat /\ x.s \in (2 - W)..(W + 1)
         /\ x.s <= 0 => x.m = a * 2^(-x.s)
         /\ x.s > 0 => 2 * Magnitude(x.m * 2^x.s - a) <= 2^x.s
<1> DEFINE n == xf_clz64(a)
           s == W + 1 - n
           N == 2^(W-2)
           T == 2^(W-1)
<1>1. W \in Nat /\ W >= 6
  BY Sizes
<1>2. N \in Nat /\ N >= 1 /\ T = 2 * N /\ T \in Nat /\ \A m \in Nat : N <= m /\ m < T => m \in Mantissa
  <2>1. N \in Nat /\ N >= 1 /\ T = 2 * N
    BY Operands
  <2>2. \A m \in Nat : N <= m /\ m < T => m \in Mantissa
    <3> SUFFICES ASSUME NEW m \in Nat, N <= m, m < T PROVE m \in Mantissa
      OBVIOUS
    <3>1. T \in Int /\ m <= T - 1
      <4> HIDE DEF N, T
      <4> QED
        BY <2>1
    <3> QED
      BY <2>1, <3>1 DEF Mantissa
  <2> HIDE DEF N, T
  <2> QED
    BY <2>1, <2>2
<1>3. n \in 0..(2*W - 1) /\ 2^(2*W - 1 - n) <= a /\ a < 2^(2*W - n)
  <2>1. a < 2^(2*W)
    <3>1. 2*W - 1 \in Nat /\ 2*W \in Nat /\ 2*W - 1 <= 2*W
      BY <1>1
    <3>2. 2^(2*W - 1) <= 2^(2*W) /\ 2^(2*W - 1) \in Nat /\ 2^(2*W) \in Nat
      BY <3>1, PowerOrder, PowerType
    <3> QED
      BY <3>2
  <2> QED
    BY <2>1, ClzAny
<1> HIDE DEF n, N, T
<1>4. n >= 1
  <2> SUFFICES ASSUME ~(n >= 1) PROVE FALSE
    OBVIOUS
  <2>1. n = 0 /\ 2*W - 1 - n = 2*W - 1
    BY <1>1, <1>3
  <2>2. 2^(2*W - 1) <= a /\ 2^(2*W - 1) \in Nat
    <3>1. 2*W - 1 \in Nat
      BY <1>1
    <3> QED
      BY <1>3, <2>1, <3>1, PowerType
  <2> QED
    BY <2>2
<1>5. s \in (2 - W)..W /\ s \in Int /\ 2*W - 1 - n = W - 2 + s /\ 2*W - n = W - 1 + s
      /\ W - 2 + s \in Nat /\ W - 1 + s \in Nat
  BY <1>1, <1>3, <1>4
<1> HIDE DEF s
<1>6. 2^(W - 2 + s) <= a /\ a < 2^(W - 1 + s)
  BY <1>3, <1>5
<1> DEFINE q == IF s > 0 THEN HalfUp(a, s) ELSE a * 2^(-s)
           c == IF s > 0 /\ q >= T THEN 1 ELSE 0
<1>7. NormalOf(a) = [m |-> IF c = 1 THEN q \div 2 ELSE q, s |-> s + c]
  BY DEF NormalOf, s, n, T
<1>8. CASE s <= 0
  <2> DEFINE E == 2^(-s)
             g == W - 2 + s
             G == 2^g
  <2>1. -s \in Nat /\ g \in Nat /\ W - 1 + s \in Nat /\ g + (-s) = W - 2 /\ (W - 1 + s) + (-s) = W - 1
    BY <1>1, <1>5, <1>8
  <2>2. N = G * E /\ T = 2^(W - 1 + s) * E /\ E \in Nat /\ E >= 1 /\ G \in Nat
        /\ 2^(W - 1 + s) \in Nat
    <3>1. 2^(g + (-s)) = G * E
      BY <2>1, PowerSum
    <3>2. 2^((W - 1 + s) + (-s)) = 2^(W - 1 + s) * E
      BY <2>1, PowerSum
    <3> QED
      BY <2>1, <3>1, <3>2, PowerType DEF N, T
  <2> DEFINE F == 2^(W - 1 + s)
  <2>3. G <= a /\ a < F /\ T = F * E /\ F \in Nat
    BY <1>6, <2>2
  <2> HIDE DEF E, G, F
  <2>4. G * E <= a * E /\ a * E \in Nat /\ (a + 1) * E <= F * E
    <3>1. a + 1 \in Nat /\ a + 1 <= F /\ E <= E
      BY <2>2, <2>3
    <3> QED
      BY <2>2, <2>3, <3>1, ProductBound
  <2>5. a * E < T
    <3>1. (a + 1) * E = a * E + E
      BY <2>2
    <3> QED
      BY <1>2, <2>2, <2>3, <2>4, <3>1
  <2>6. q = a * E /\ c = 0
    BY <1>8, <1>5 DEF E
  <2>7. NormalOf(a) = [m |-> a * E, s |-> s]
    <3>1. s + 0 = s
      BY <1>5
    <3> HIDE DEF q, c
    <3> QED
      BY <1>7, <2>6, <3>1
  <2> DEFINE p == a * E
  <2>8. p \in Nat /\ p \in Mantissa
    <3>1. p \in Nat /\ N <= p /\ p < T
      BY <2>2, <2>4, <2>5
    <3> HIDE DEF p
    <3> QED
      BY <1>2, <3>1
  <2>9. NormalOf(a).m = p /\ NormalOf(a).s = s
    BY <2>7
  <2>10. s \in (2 - W)..(W + 1) /\ ~(s > 0)
    BY <1>1, <1>5, <1>8
  <2> HIDE DEF p
  <2> QED
    BY <2>8, <2>9, <2>10 DEF p, E
<1>9. CASE s > 0
  <2> DEFINE E == 2^s
             h == HalfUp(a, s)
  <2>1. s \in Nat /\ W - 2 \in Nat /\ W - 1 \in Nat /\ s + (W - 2) = W - 2 + s /\ s + (W - 1) = W - 1 + s
    BY <1>1, <1>5, <1>9
  <2>2. 2^(W - 2 + s) = E * N /\ 2^(W - 1 + s) = E * T /\ E \in Nat /\ E >= 1
    <3>1. 2^(s + (W - 2)) = E * N /\ 2^(s + (W - 1)) = E * T
      BY <2>1, PowerSum DEF N, T
    <3> QED
      BY <2>1, <3>1, PowerType
  <2>3. h \in Int /\ N <= h /\ h <= T
    <3>1. a \in Int /\ E * N <= a /\ a <= E * T
      BY <1>2, <1>6, <2>2
    <3> QED
      BY <1>2, <2>1, <3>1, HalfUpBound
  <2>4. h * E \in Int /\ 2 * Magnitude(h * E - a) <= E
    BY <1>9, <2>1, HalfUpError
  <2> HIDE DEF h, E
  <2>5. q = h
    BY <1>9 DEF h
  <2> HIDE DEF q
  <2>6. CASE h < T
    <3>1. c = 0 /\ s + 0 = s
      BY <1>2, <1>5, <2>3, <2>5, <2>6
    <3>2. NormalOf(a) = [m |-> h, s |-> s]
      <4> HIDE DEF c
      <4> QED
        BY <1>7, <2>5, <3>1
    <3>3. NormalOf(a).m = h /\ NormalOf(a).s = s
      BY <3>2
    <3>4. h \in Nat /\ h \in Mantissa
      BY <1>2, <2>3, <2>6
    <3>5. s \in (2 - W)..(W + 1) /\ ~(s <= 0)
      BY <1>1, <1>5, <1>9
    <3> QED
      BY <2>4, <3>3, <3>4, <3>5 DEF E
  <2>7. CASE h = T
    <3>1. c = 1
      BY <1>2, <1>9, <2>5, <2>7
    <3>2. h \div 2 = N
      <4>1. 2 * N + 0 = h /\ N \in Int
        BY <1>2, <2>7
      <4>2. (2 * N + 0) \div 2 = N
        BY <4>1, QuotientIs
      <4> QED
        BY <4>1, <4>2
    <3>3. NormalOf(a) = [m |-> N, s |-> s + 1]
      <4> HIDE DEF c
      <4> QED
        BY <1>7, <2>5, <3>1, <3>2
    <3>4. NormalOf(a).m = N /\ NormalOf(a).s = s + 1
      BY <3>3
    <3>5. N \in Mantissa
      BY <1>2
    <3>6. 2^(s + 1) = 2 * E /\ E \in Nat
      <4>1. s + 1 \in Nat /\ s + 1 > 0 /\ (s + 1) - 1 = s
        BY <2>1
      <4> QED
        BY <2>2, <4>1, PowerHalf DEF E
    <3>7. N * (2 * E) = h * E
      BY <1>2, <2>2, <2>7
    <3> DEFINE d == h * E - a
    <3>8. d \in Int /\ Magnitude(d) \in Int /\ 2 * Magnitude(d) <= 2 * E
      <4>1. d \in Int /\ Magnitude(d) \in Nat
        <5>1. d \in Int
          BY <2>4
        <5> QED
          BY <5>1, MagnitudeIs
      <4> HIDE DEF d
      <4> QED
        BY <2>2, <2>4, <4>1 DEF d
    <3>9. 2 * Magnitude(N * 2^(s + 1) - a) <= 2^(s + 1)
      BY <3>6, <3>7, <3>8
    <3>10. s + 1 \in (2 - W)..(W + 1) /\ ~(s + 1 <= 0)
      BY <1>1, <1>5, <1>9
    <3> QED
      BY <1>2, <3>4, <3>5, <3>9, <3>10
  <2> QED
    BY <1>2, <2>3, <2>6, <2>7
<1> QED
  BY <1>5, <1>8, <1>9

(* What xf_norm returns for any number that fits two words.                *)
LEMMA NormAny ==
  ASSUME NEW L \in Nat, W = 2^L, NEW v \in Int, v # 0, Magnitude(v) < 2^(2*W - 1), NEW sh \in Int
  PROVE  \E s \in (2 - W)..(W + 1) : Normalised(xf_norm(v, sh), v, sh, s)
<1> DEFINE a == Magnitude(v)
           x == NormalOf(a)
           m == x.m
           s == x.s
           y == xf_norm(v, sh)
<1>1. a \in Nat /\ a >= 1
  BY MagnitudeIs DEF Magnitude
<1>2. /\ m \in Mantissa /\ m \in Nat /\ s \in (2 - W)..(W + 1)
      /\ s <= 0 => m = a * 2^(-s)
      /\ s > 0 => 2 * Magnitude(m * 2^s - a) <= 2^s
  <2> HIDE DEF a
  <2>1. a < 2^(2*W - 1)
    BY DEF a
  <2> QED
    BY <1>1, <2>1, NormalOfAny
<1>3. y = Xf(IF v < 0 THEN -m ELSE m, sh - s)
  <2> DEFINE s0 == W + 1 - xf_clz64(a)
             q0 == IF s0 > 0 THEN HalfUp(a, s0) ELSE a * 2^(-s0)
             c0 == IF s0 > 0 /\ q0 >= 2^(W-1) THEN 1 ELSE 0
             m0 == IF c0 = 1 THEN q0 \div 2 ELSE q0
  <2>1. y = Xf(IF v < 0 THEN -m0 ELSE m0, sh - s0 - c0)
    BY DEF xf_norm
  <2>2. x = [m |-> m0, s |-> s0 + c0]
    BY DEF NormalOf
  <2>3. s0 \in Int
    <3>1. a < 2^(2*W)
      <4>1. 2*W - 1 \in Nat /\ 2*W \in Nat /\ 2*W - 1 <= 2*W
        BY Sizes
      <4>2. 2^(2*W - 1) <= 2^(2*W) /\ 2^(2*W - 1) \in Nat /\ 2^(2*W) \in Nat
        BY <4>1, PowerOrder, PowerType
      <4> HIDE DEF a
      <4>3. a < 2^(2*W - 1)
        BY DEF a
      <4> QED
        BY <1>1, <4>2, <4>3
    <3> HIDE DEF a
    <3>2. xf_clz64(a) \in 0..(2*W - 1)
      BY <1>1, <3>1, ClzAny
    <3> QED
      BY <3>2, Sizes
  <2>4. c0 \in Int
    <3> HIDE DEF q0, s0
    <3> QED
      OBVIOUS
  <2> HIDE DEF s0, q0, c0, m0, x, y
  <2>5. m = m0 /\ s = s0 + c0 /\ sh - s0 - c0 = sh - s
    <3>1. m = m0 /\ s = s0 + c0
      BY <2>2
    <3>2. sh - s0 - c0 = sh - (s0 + c0)
      BY <2>3, <2>4
    <3> QED
      BY <3>1, <3>2
  <2> QED
    BY <2>1, <2>5
<1> HIDE DEF x, y, m, s
<1>4. W \in Int /\ s \in Int
  BY <1>2, Sizes
<1>5. m >= 1
  BY <1>2, Operands
<1>6. y.sh = sh - s /\ y = Xf(y.m, y.sh) /\ y.m = IF v < 0 THEN -m ELSE m
  BY <1>3 DEF Xf
<1>7. CASE v < 0
  <2>1. a = -v /\ y.m = -m /\ y.m \in Int /\ y.m < 0 /\ Magnitude(y.m) = m
    BY <1>1, <1>2, <1>5, <1>6, <1>7, MagnitudeIs
  <2>2. s <= 0 => y.m = v * 2^(-s)
    <3> SUFFICES ASSUME s <= 0 PROVE y.m = v * 2^(-s)
      OBVIOUS
    <3> DEFINE E == 2^(-s)
    <3>1. E \in Int /\ m = a * E
      <4>1. -s \in Nat
        BY <1>4
      <4> QED
        BY <1>2, <4>1, PowerType
    <3> HIDE DEF E
    <3>2. -(a * E) = (-a) * E /\ -a = v
      BY <1>1, <2>1, <3>1
    <3> QED
      BY <2>1, <3>1, <3>2 DEF E
  <2>3. s > 0 => 2 * Magnitude(y.m * 2^s - v) <= 2^s
    <3> SUFFICES ASSUME s > 0 PROVE 2 * Magnitude(y.m * 2^s - v) <= 2^s
      OBVIOUS
    <3> DEFINE E == 2^s
               p == m * E
    <3>1. E \in Int /\ 2 * Magnitude(m * E - a) <= E
      <4>1. s \in Nat
        BY <1>4
      <4> QED
        BY <1>2, <4>1, PowerType
    <3> HIDE DEF E
    <3>2. y.m * E = -p /\ p \in Int
      BY <1>2, <2>1, <3>1
    <3> HIDE DEF p
    <3>3. y.m * E - v = -(p - a) /\ p - a \in Int
      BY <1>1, <2>1, <3>2
    <3> QED
      BY <3>1, <3>3, MagnitudeIs DEF E, p
  <2> QED
    BY <1>2, <1>6, <1>7, <2>1, <2>2, <2>3 DEF Normalised, y
<1>8. CASE v >= 0
  <2>1. a = v /\ y.m = m /\ y.m \in Int /\ ~(y.m < 0) /\ Magnitude(y.m) = m
    BY <1>1, <1>2, <1>5, <1>6, <1>8, MagnitudeIs
  <2>2. ~(v < 0)
    BY <1>8
  <2> QED
    BY <1>2, <1>6, <2>1, <2>2 DEF Normalised, y
<1> QED
  BY <1>7, <1>8

(* Normalised in the terms of Fixed.                                       *)
LEMMA NearestIs ==
  ASSUME NEW x, NEW v \in Int, NEW sh \in Int, NEW s \in Int, Normalised(x, v, sh, s)
  PROVE  Normal(x) /\ Nearest(x, v, sh)
<1>1. x.sh = sh - s /\ x.sh \in Int
  BY DEF Normalised
<1>2. Normal(x)
  BY DEF Normal, Normalised
<1>3. CASE s <= 0
  <2>1. x.sh >= sh /\ x.sh - sh = -s
    BY <1>1, <1>3
  <2> QED
    BY <1>2, <1>3, <2>1 DEF Normalised, Nearest
<1>4. CASE s > 0
  <2>1. ~(x.sh >= sh) /\ sh - x.sh = s
    BY <1>1, <1>4
  <2> QED
    BY <1>2, <1>4, <2>1 DEF Normalised, Nearest
<1> QED
  BY <1>3, <1>4

(* xf_norm, for a word of any power of two bits: any number of two words   *)
(* comes back with a mantissa of full width and is the nearest such; its   *)
(* leading zeros are counted right.                                        *)
THEOREM NormRight ==
  ASSUME NEW L \in Nat, W = 2^L
  PROVE  /\ NormExact
         /\ \A v, sh \in Int : Magnitude(v) < 2^(2*W - 1) =>
              Normal(xf_norm(v, sh)) /\ (v # 0 => Nearest(xf_norm(v, sh), v, sh))
<1>1. ASSUME NEW v \in Int, NEW sh \in Int, Magnitude(v) < 2^(2*W - 1)
      PROVE  Normal(xf_norm(v, sh)) /\ (v # 0 => Nearest(xf_norm(v, sh), v, sh))
  <2>1. CASE v = 0
    BY <2>1 DEF xf_norm, Normal
  <2>2. CASE v # 0
    <3>1. PICK s \in (2 - W)..(W + 1) : Normalised(xf_norm(v, sh), v, sh, s)
      BY <1>1, <2>2, NormAny
    <3>2. s \in Int
      BY Sizes
    <3> QED
      BY <3>1, <3>2, NearestIs
  <2> QED
    BY <2>1, <2>2
<1>2. ASSUME NEW v \in (-(2^(2*W-2)))..(2^(2*W-2))
      PROVE  v \in Int /\ Magnitude(v) \in Nat /\ Magnitude(v) < 2^(2*W - 1) /\ Magnitude(v) < 2^(2*W)
  <2>1. 2*W - 2 \in Nat /\ 2*W - 1 \in Nat /\ 2*W - 1 > 0 /\ (2*W - 1) - 1 = 2*W - 2
        /\ 2*W \in Nat /\ 2*W - 1 <= 2*W
    BY Sizes
  <2> DEFINE A == 2^(2*W - 2)
             B == 2^(2*W - 1)
             C == 2^(2*W)
  <2>2. A \in Nat /\ A >= 1 /\ B \in Nat /\ C \in Nat
    BY <2>1, PowerType
  <2>3. B = 2 * A
    BY <2>1, PowerHalf
  <2>4. B <= C
    BY <2>1, PowerOrder
  <2>5. v \in -A..A
    OBVIOUS
  <2> HIDE DEF A, B, C
  <2>6. v \in Int
    BY <2>2, <2>5
  <2>7. Magnitude(v) \in Nat /\ Magnitude(v) < B /\ Magnitude(v) < C
    <3>1. Magnitude(v) \in Nat /\ Magnitude(v) <= A
      BY <2>2, <2>5, <2>6, MagnitudeIs DEF Magnitude
    <3> QED
      BY <2>2, <2>3, <2>4, <3>1
  <2> QED
    BY <2>6, <2>7 DEF B, C
<1>3. NormExact
  <2> SUFFICES ASSUME NEW v \in (-(2^(2*W-2)))..(2^(2*W-2))
               PROVE  /\ Normal(xf_norm(v, 0))
                      /\ v # 0 => 2^(2*W - 1 - xf_clz64(Magnitude(v))) <= Magnitude(v)
                                  /\ Magnitude(v) < 2^(2*W - xf_clz64(Magnitude(v)))
                      /\ Nearest(xf_norm(v, 0), v, 0)
    BY DEF NormExact
  <2>1. v \in Int /\ 0 \in Int /\ Magnitude(v) < 2^(2*W - 1)
    BY <1>2
  <2>2. CASE v = 0
    <3>1. xf_norm(v, 0) = XF_ZERO
      BY <2>2 DEF xf_norm
    <3>2. XF_ZERO.m = 0 /\ XF_ZERO.sh = 0
      BY DEF XF_ZERO, Xf
    <3>3. 0 >= 0 /\ 0 * 2^(0 - 0) = 0
      <4>1. 0 - 0 = 0 /\ 2^0 = 1
        OBVIOUS
      <4> QED
        BY <4>1
    <3>4. Nearest(XF_ZERO, 0, 0)
      BY <3>2, <3>3 DEF Nearest
    <3> QED
      BY <2>2, <3>1, <3>4 DEF Normal
  <2>3. CASE v # 0
    <3> DEFINE a == Magnitude(v)
               n == xf_clz64(a)
    <3>1. a \in Nat /\ a >= 1 /\ a < 2^(2*W)
      BY <1>2, <2>1, <2>3 DEF Magnitude
    <3> HIDE DEF a
    <3>2. 2^(2*W - 1 - n) <= a /\ a < 2^(2*W - n)
      BY <3>1, ClzAny
    <3>3. Normal(xf_norm(v, 0)) /\ Nearest(xf_norm(v, 0), v, 0)
      BY <1>1, <2>1, <2>3
    <3> QED
      BY <3>2, <3>3 DEF a
  <2> QED
    BY <2>2, <2>3
<1> QED
  BY <1>1, <1>3

---------------------------------------------------------------------------
(* Addition.                                                               *)
LEMMA WithinAt ==
  ASSUME NEW x, x.m \in Int, x.sh \in Int, NEW v \in Int, NEW sh \in Int, NEW g \in Int, g = x.sh - sh,
         g >= 0 => Magnitude(x.m - v * 2^g) <= 1,
         g < 0 => Magnitude(x.m * 2^(-g) - v) <= 2^(-g)
  PROVE  Within(x, v, sh, 1)
<1> DEFINE t == IF x.sh > sh THEN x.sh ELSE sh
           i == x.m
<1>1. 2^0 = 1
  OBVIOUS
<1>2. CASE g >= 0
  <2>1. t = x.sh
    <3> DEFINE y == x.sh
    <3>1. y \in Int /\ g = y - sh
      OBVIOUS
    <3> HIDE DEF y
    <3>2. (IF y > sh THEN y ELSE sh) = y
      BY <1>2, <3>1
    <3> QED
      BY <3>2 DEF y
  <2>2. x.sh - x.sh = 0 /\ x.sh - sh = g
    OBVIOUS
  <2>3. i * 1 = i /\ 1 * 1 = 1
    OBVIOUS
  <2> HIDE DEF t
  <2>4. Magnitude(x.m * 2^(t - x.sh) - v * 2^(t - sh)) <= 1 * 2^(t - x.sh)
    BY <1>1, <1>2, <2>1, <2>2, <2>3
  <2> QED
    BY <2>4 DEF Within, t
<1>3. CASE g < 0
  <2>1. t = sh
    BY <1>3
  <2>2. sh - sh = 0 /\ sh - x.sh = -g /\ v * 1 = v
    OBVIOUS
  <2> DEFINE E == 2^(-g)
  <2>3. E \in Int /\ 1 * E = E
    <3>1. -g \in Nat
      BY <1>3
    <3>2. E \in Int
      BY <3>1, PowerType
    <3> QED
      BY <3>2
  <2> HIDE DEF t
  <2>4. Magnitude(x.m * 2^(t - x.sh) - v * 2^(t - sh)) <= 1 * 2^(t - x.sh)
    BY <1>1, <1>3, <2>1, <2>2, <2>3
  <2> QED
    BY <2>4 DEF Within, t
<1> QED
  BY <1>2, <1>3

LEMMA HalfAwayError ==
  ASSUME NEW x \in Int, NEW s \in Nat, s > 0
  PROVE  HalfAway(x, s) \in Int /\ 2 * Magnitude(HalfAway(x, s) * 2^s - x) <= 2^s
<1> DEFINE E == 2^s
<1>1. E \in Int
  BY PowerType
<1>2. CASE x < 0
  <2> DEFINE h == HalfUp(-x, s)
             p == h * E
  <2>1. h \in Int /\ p \in Int /\ 2 * Magnitude(p - (-x)) <= E /\ HalfAway(x, s) = -h
    <3>1. -x \in Int
      OBVIOUS
    <3> QED
      BY <1>2, <3>1, HalfUpError DEF HalfAway
  <2> HIDE DEF h
  <2>2. (-h) * E = -p
    BY <1>1, <2>1
  <2> HIDE DEF p, E
  <2>3. (-h) * E - x = -(p - (-x)) /\ p - (-x) \in Int
    BY <2>1, <2>2
  <2> QED
    BY <2>1, <2>3, MagnitudeIs DEF E
<1>3. CASE x >= 0
  BY <1>3, HalfUpError DEF HalfAway
<1> QED
  BY <1>2, <1>3

(* The smaller term is rounded before it is added, far below one unit of   *)
(* the sum.                                                                *)
LEMMA SmallTerm ==
  ASSUME NEW x \in Int, Magnitude(x) \in Mantissa, NEW e \in Nat, e > 0,
         NEW B, B = IF e < W + 8 THEN HalfAway(x, e) ELSE 0
  PROVE  B \in Int /\ Magnitude(B) <= 2^(W-1) /\ 2 * Magnitude(B * 2^e - x) <= 2^e
<1> DEFINE T == 2^(W-1)
           E == 2^e
<1>1. Magnitude(x) \in Nat /\ Magnitude(x) < T /\ T \in Nat /\ E \in Nat /\ E >= 1
  BY Operands, WordSize, PowerType
<1>2. CASE e < W + 8
  <2>1. B = HalfAway(x, e)
    BY <1>2
  <2>2. Magnitude(x) <= E * T
    <3> HIDE DEF E, T
    <3>1. E * T >= T /\ E * T \in Nat
      BY <1>1, ProductSign
    <3> QED
      BY <1>1, <3>1
  <2>3. B \in Int /\ -T <= B /\ B <= T
    BY <1>1, <2>1, <2>2, HalfAwayBound
  <2>4. Magnitude(B) <= T
    <3> HIDE DEF T
    <3> QED
      BY <1>1, <2>3 DEF Magnitude
  <2> QED
    BY <2>1, <2>3, <2>4, HalfAwayError
<1>3. CASE ~(e < W + 8)
  <2>1. B = 0
    BY <1>3
  <2>2. 2^W <= E /\ 2^W = 2 * T
    <3>1. W \in Nat /\ W <= e
      BY <1>3, Sizes
    <3> QED
      BY <3>1, PowerOrder, WordSize
  <2> HIDE DEF E, T
  <2>3. 0 * E = 0 /\ 0 - x = -x /\ Magnitude(-x) = Magnitude(x) /\ Magnitude(0) = 0
    BY <1>1, MagnitudeIs
  <2>4. 2 * Magnitude(x) <= E
    BY <1>1, <2>2
  <2>5. 2 * Magnitude(B * E - x) <= E /\ Magnitude(B) <= T /\ B \in Int
    BY <1>1, <2>1, <2>3, <2>4
  <2> QED
    BY <2>5 DEF E, T
<1> QED
  BY <1>2, <1>3

(* A number that is close to a normal one is close to it after a shift.    *)
LEMMA AddNear ==
  ASSUME NEW x, NEW u \in Int, NEW sh \in Int, NEW s \in Int, Normalised(x, u, sh, s),
         NEW v \in Int, NEW g \in Nat, u = v * 2^g
  PROVE  Within(x, v, sh - g, 1)
<1> DEFINE k == g - s
           G == 2^g
<1>1. k \in Int /\ x.m \in Int /\ x.sh \in Int /\ k = x.sh - (sh - g) /\ sh - g \in Int /\ G \in Nat
      /\ G >= 1
  BY PowerType DEF Normalised
<1>2. ASSUME k >= 0 PROVE Magnitude(x.m - v * 2^k) <= 1
  <2>1. CASE s <= 0
    <3>1. -s \in Nat /\ g + (-s) = k
      BY <2>1
    <3>2. x.m = (v * G) * 2^(-s)
      BY <2>1 DEF Normalised
    <3>3. 2^k = G * 2^(-s) /\ 2^(-s) \in Nat
      BY <3>1, PowerSum, PowerType
    <3> DEFINE E == 2^(-s)
    <3> HIDE DEF E, G
    <3>4. (v * G) * E = v * (G * E) /\ v * (G * E) \in Int
      BY <1>1, <3>3 DEF E
    <3>5. x.m - v * 2^k = 0
      BY <3>2, <3>3, <3>4 DEF E, G
    <3> QED
      BY <3>5, MagnitudeIs
  <2>2. CASE s > 0
    <3> DEFINE S == 2^s
               K == 2^k
               y == x.m - v * K
    <3>1. s \in Nat /\ k \in Nat /\ k + s = g
      BY <1>2, <2>2
    <3>2. G = K * S /\ S \in Nat /\ S >= 1 /\ K \in Nat
      BY <3>1, PowerSum, PowerType
    <3>3. 2 * Magnitude(x.m * S - v * G) <= S
      BY <2>2 DEF Normalised
    <3> HIDE DEF S, K, G
    <3>4. x.m * S - v * G = y * S /\ y \in Int
      BY <1>1, <3>2
    <3> HIDE DEF y
    <3>5. Magnitude(y * S) = Magnitude(y) * S /\ Magnitude(y) \in Nat
      BY <3>2, <3>4, MagnitudeProduct, MagnitudeIs
    <3> DEFINE zm == Magnitude(y)
    <3>6. 2 * (zm * S) <= S /\ zm \in Nat
      BY <3>3, <3>4, <3>5
    <3> HIDE DEF zm
    <3>7. zm * S <= 1 * S
      <4>1. zm * S \in Nat /\ 1 * S = S
        BY <3>2, <3>6
      <4> QED
        BY <3>2, <3>6, <4>1
    <3>8. zm <= 1
      BY <3>2, <3>6, <3>7, Cancel
    <3> QED
      BY <3>8 DEF zm, y, K
  <2> QED
    BY <2>1, <2>2
<1>3. ASSUME k < 0 PROVE Magnitude(x.m * 2^(-k) - v) <= 2^(-k)
  <2> DEFINE K == 2^(-k)
             S == 2^s
             y == x.m * K - v
  <2>1. s > 0 /\ s \in Nat /\ -k \in Nat /\ (-k) + g = s
    BY <1>3
  <2>2. S = K * G /\ K \in Nat
    BY <2>1, PowerSum, PowerType
  <2>3. 2 * Magnitude(x.m * S - v * G) <= S
    BY <2>1 DEF Normalised
  <2> HIDE DEF S, K, G
  <2>4. x.m * S - v * G = y * G /\ y \in Int
    BY <1>1, <2>2
  <2> HIDE DEF y
  <2>5. Magnitude(y * G) = Magnitude(y) * G /\ Magnitude(y) \in Nat
    BY <1>1, <2>4, MagnitudeProduct, MagnitudeIs
  <2> DEFINE zm == Magnitude(y)
  <2>6. 2 * (zm * G) <= K * G /\ zm \in Nat
    BY <2>2, <2>3, <2>4, <2>5
  <2> HIDE DEF zm
  <2>7. zm * G <= K * G
    <3>1. zm * G \in Nat /\ K * G \in Nat
      BY <1>1, <2>2, <2>6
    <3> QED
      BY <2>6, <3>1
  <2>8. zm <= K
    BY <1>1, <2>2, <2>6, <2>7, Cancel
  <2> QED
    BY <2>8 DEF zm, y, K
<1> QED
  BY <1>1, <1>2, <1>3, WithinAt

(* ... and when a term below it is rounded.                                *)
LEMMA AddFar ==
  ASSUME NEW x, NEW u \in Int, NEW sh \in Int, NEW s \in Nat, s > 0, Normalised(x, u, sh, s),
         NEW v \in Int, NEW e \in Nat, 2 * Magnitude(u * 2^e - v) <= 2^e
  PROVE  Within(x, v, sh + e, 1)
<1> DEFINE E == 2^e
           S == 2^s
           K == 2^(s + e)
           g == -(s + e)
<1>1. g \in Int /\ g < 0 /\ g = x.sh - (sh + e) /\ sh + e \in Int /\ x.m \in Int /\ x.sh \in Int
      /\ -g = s + e
  BY DEF Normalised
<1>2. K = S * E /\ S \in Nat /\ S >= 2 /\ E \in Nat /\ E >= 1 /\ K \in Nat
  <2>1. S = 2 * 2^(s-1) /\ 2^(s-1) \in Nat /\ 2^(s-1) >= 1
    BY PowerHalf
  <2> HIDE DEF S
  <2>2. S \in Nat /\ S >= 2
    BY <2>1
  <2> QED
    BY <2>2, PowerSum, PowerType DEF S
<1> DEFINE y == x.m * S - u
           zm == u * E - v
           w == x.m * K - v
<1>3. 2 * Magnitude(y) <= S /\ 2 * Magnitude(zm) <= E
  BY DEF Normalised
<1> HIDE DEF K, S, E
<1>4. w = y * E + zm /\ y \in Int /\ zm \in Int /\ w \in Int /\ y * E \in Int
  <2>1. x.m * K = (x.m * S) * E /\ x.m * S \in Int /\ (x.m * S) * E \in Int
    BY <1>1, <1>2
  <2> DEFINE q == x.m * S
  <2>2. q \in Int /\ (q - u) * E = q * E - u * E /\ q * E \in Int /\ u * E \in Int
    BY <1>2, <2>1
  <2> QED
    BY <1>2, <2>1, <2>2
<1> HIDE DEF y, zm, w
<1>5. Magnitude(y * E) = Magnitude(y) * E /\ Magnitude(y) \in Nat /\ Magnitude(zm) \in Nat
  BY <1>2, <1>4, MagnitudeProduct, MagnitudeIs
<1>6. 2 * (Magnitude(y) * E) <= K
  <2> DEFINE n == Magnitude(y)
  <2>1. n \in Nat /\ 2 * n \in Nat /\ 2 * n <= S /\ E <= E
    BY <1>2, <1>3, <1>5
  <2> HIDE DEF n
  <2>2. (2 * n) * E <= S * E
    BY <1>2, <2>1, ProductBound
  <2>3. (2 * n) * E = 2 * (n * E)
    BY <1>2, <2>1
  <2> QED
    BY <1>2, <2>2, <2>3 DEF n
<1>7. 2 * E <= K
  <2>1. E <= E /\ 2 \in Nat
    BY <1>2
  <2> QED
    BY <1>2, <2>1, ProductBound
<1> DEFINE p == y * E
<1>8. w = p + zm /\ p \in Int /\ 2 * Magnitude(p) <= K
  BY <1>4, <1>5, <1>6
<1> HIDE DEF p
<1>9. Magnitude(w) <= K
  BY <1>2, <1>3, <1>4, <1>7, <1>8 DEF Magnitude
<1>10. ~(g >= 0) /\ Magnitude(x.m * 2^(-g) - v) <= 2^(-g)
  BY <1>1, <1>9 DEF w, K
<1> QED
  BY <1>1, <1>10, WithinAt

(* The sum of any two scales, the second no larger in its unit.            *)
LEMMA AddAny ==
  ASSUME NEW L \in Nat, W = 2^L, NEW m \in Int, NEW n \in Int,
         Magnitude(m) \in Mantissa, Magnitude(n) \in Mantissa,
         NEW i \in Int, NEW j \in Int, i <= j
  PROVE  LET x == xf_add(Xf(m, i), Xf(n, j)) IN
         Normal(x) /\ Within(x, m * 2^(j - i) + n, j, 1)
<1> DEFINE d == j - i
           T == 2^(W-1)
           N == 2^(W-2)
           D == 2^d
           B == IF d <= W - 1 THEN n * 2^(W-1-d)
                ELSE IF d - (W-1) < W + 8 THEN HalfAway(n, d - (W-1)) ELSE 0
           V == m * T + B
           v == m * D + n
           x == xf_add(Xf(m, i), Xf(n, j))
           k == i + W - 1
<1>1. /\ W \in Nat /\ W >= 6 /\ d \in Nat /\ D \in Nat /\ T \in Nat /\ N \in Nat /\ T = 2 * N /\ N >= 16
      /\ v \in Int /\ k \in Int
  <2>1. W \in Nat /\ W >= 6 /\ d \in Nat
    BY Sizes
  <2>2. 2^4 = 16 /\ 4 \in Nat /\ W - 2 \in Nat /\ 4 <= W - 2
    BY <2>1
  <2>3. 2^4 <= N /\ N \in Nat /\ T = 2 * N /\ D \in Nat
    BY <2>1, <2>2, PowerOrder, Operands, PowerType
  <2> HIDE DEF N, T, D, d
  <2>4. T \in Nat /\ N >= 16 /\ v \in Int
    BY <2>2, <2>3
  <2> QED
    BY <2>1, <2>3, <2>4
<1>2. /\ Magnitude(m) \in Nat /\ N <= Magnitude(m) /\ Magnitude(m) < T /\ m # 0
      /\ Magnitude(n) \in Nat /\ N <= Magnitude(n) /\ Magnitude(n) < T /\ n # 0
  <2>1. /\ Magnitude(m) \in Nat /\ N <= Magnitude(m) /\ Magnitude(m) < T
        /\ Magnitude(n) \in Nat /\ N <= Magnitude(n) /\ Magnitude(n) < T
    BY Operands
  <2> HIDE DEF N, T
  <2> QED
    BY <1>1, <2>1 DEF Magnitude
<1>3. x = xf_norm(V, k)
  BY <1>2, Zenon DEF xf_add, Xf
<1> HIDE DEF d, T, N, D, x, k, v
<1>4. m * T \in Int /\ Magnitude(m * T) = Magnitude(m) * T
  BY <1>1, MagnitudeProduct
<1>5. 2^(2*W - 1) = 2 * (T * T)
  <2>1. W - 1 \in Nat /\ (W - 1) + (W - 1) = 2*W - 2 /\ 2*W - 1 \in Nat /\ 2*W - 1 > 0
        /\ (2*W - 1) - 1 = 2*W - 2
    BY <1>1
  <2>2. 2^((W - 1) + (W - 1)) = T * T
    BY <2>1, PowerSum DEF T
  <2>3. 2^(2*W - 1) = 2 * 2^((2*W - 1) - 1)
    BY <2>1, PowerHalf
  <2> QED
    BY <2>1, <2>2, <2>3
<1>6. (Magnitude(m) + 1) * T <= T * T /\ N * T <= Magnitude(m) * T /\ T * T \in Nat
      /\ (Magnitude(m) + 1) * T = Magnitude(m) * T + T /\ Magnitude(m) * T \in Nat
  <2> DEFINE a == Magnitude(m)
  <2>1. a \in Nat /\ a + 1 \in Nat /\ a + 1 <= T /\ N <= a /\ T <= T
    BY <1>1, <1>2
  <2> HIDE DEF a
  <2>2. (a + 1) * T <= T * T /\ N * T <= a * T
    BY <1>1, <2>1, ProductBound
  <2>3. (a + 1) * T = a * T + T /\ T * T \in Nat /\ a * T \in Nat
    BY <1>1, <2>1
  <2> QED
    BY <2>2, <2>3 DEF a
<1>7. CASE d <= W - 1
  <2> DEFINE g == W - 1 - d
             G == 2^g
             b == n * G
  <2>1. g \in Nat /\ d + g = W - 1 /\ G \in Nat /\ G >= 1 /\ T = D * G /\ D >= 1 /\ k - g = j
    <3>1. g \in Nat /\ d + g = W - 1 /\ k - g = j
      BY <1>1, <1>7 DEF k, d
    <3>2. 2^(d + g) = D * G /\ G \in Nat /\ G >= 1 /\ D >= 1
      BY <1>1, <3>1, PowerSum, PowerType DEF D
    <3> QED
      BY <3>1, <3>2 DEF T
  <2>2. B = b
    BY <1>7
  <2> HIDE DEF g, G, B
  <2>3. V = v * G /\ b \in Int
    <3>1. m * T = (m * D) * G /\ m * D \in Int /\ b \in Int
      BY <1>1, <2>1
    <3> DEFINE q == m * D
    <3>2. (q + n) * G = q * G + n * G /\ q \in Int
      BY <2>1, <3>1
    <3> QED
      BY <2>2, <3>1, <3>2 DEF v
  <2>4. Magnitude(V) < 2 * (T * T) /\ V \in Int
    <3>1. Magnitude(b) = Magnitude(n) * G /\ b \in Int
      BY <2>1, MagnitudeProduct
    <3>2. G <= T
      BY <1>1, <2>1, ProductSign
    <3> DEFINE c == Magnitude(n)
    <3>3. c \in Nat /\ c + 1 \in Nat /\ c + 1 <= T
      BY <1>1, <1>2
    <3> HIDE DEF c
    <3>4. (c + 1) * G <= T * T
      BY <1>1, <2>1, <3>2, <3>3, ProductBound
    <3>5. (c + 1) * G = c * G + G /\ c * G \in Nat
      BY <2>1, <3>3
    <3>6. Magnitude(b) < T * T
      BY <1>6, <2>1, <3>1, <3>4, <3>5 DEF c
    <3> DEFINE p == m * T
               A == T * T
    <3>7. Magnitude(p) < A /\ A \in Nat /\ p \in Int /\ b \in Int
      BY <1>1, <1>4, <1>6, <2>3, <1>2
    <3> HIDE DEF p, A, b
    <3>8. Magnitude(p + b) < 2 * A /\ p + b \in Int
      BY <3>6, <3>7 DEF Magnitude, A
    <3> QED
      BY <2>2, <3>8 DEF p, A
  <2> HIDE DEF V
  <2>5. CASE V = 0
    <3>1. x = XF_ZERO /\ x.m = 0 /\ x.sh = 0
      BY <1>3, <2>5 DEF xf_norm, XF_ZERO, Xf
    <3>2. v = 0
      <4>1. v # 0 => v * G # 0
        BY <1>1, <2>1
      <4> QED
        BY <2>3, <2>5, <4>1
    <3> DEFINE h == 0 - j
    <3>3. h >= 0 => Magnitude(x.m - v * 2^h) <= 1
      <4> SUFFICES ASSUME h >= 0 PROVE Magnitude(x.m - v * 2^h) <= 1
        OBVIOUS
      <4>1. h \in Nat /\ 2^h \in Nat
        BY PowerType
      <4> DEFINE Q == 2^h
      <4> HIDE DEF Q
      <4>2. 0 * Q = 0 /\ 0 - 0 = 0
        BY <4>1 DEF Q
      <4>3. x.m - v * Q = 0
        BY <3>1, <3>2, <4>2
      <4> QED
        BY <4>3, MagnitudeIs DEF Q
    <3>4. h < 0 => Magnitude(x.m * 2^(-h) - v) <= 2^(-h)
      <4> SUFFICES ASSUME h < 0 PROVE Magnitude(x.m * 2^(-h) - v) <= 2^(-h)
        OBVIOUS
      <4>1. -h \in Nat /\ 2^(-h) \in Nat
        BY PowerType
      <4> DEFINE Q == 2^(-h)
      <4> HIDE DEF Q
      <4>2. 0 * Q = 0 /\ 0 - 0 = 0 /\ Q >= 0
        BY <4>1 DEF Q
      <4>3. x.m * Q - v = 0
        BY <3>1, <3>2, <4>2
      <4> QED
        BY <4>2, <4>3, MagnitudeIs DEF Q
    <3>5. h \in Int /\ h = x.sh - j /\ x.m \in Int /\ x.sh \in Int
      BY <3>1
    <3> HIDE DEF h, x
    <3>6. Within(x, v, j, 1)
      BY <1>1, <3>3, <3>4, <3>5, WithinAt
    <3> QED
      BY <3>1, <3>6 DEF Normal, x, v, D, d
  <2>6. CASE V # 0
    <3>1. PICK s \in (2 - W)..(W + 1) : Normalised(x, V, k, s)
      BY <1>1, <1>3, <1>5, <2>4, <2>6, NormAny
    <3>2. s \in Int
      BY <1>1
    <3>3. Normal(x)
      BY <3>1 DEF Normal, Normalised
    <3>4. Within(x, v, k - g, 1)
      BY <1>1, <2>1, <2>3, <2>4, <3>1, <3>2, AddNear DEF G
    <3> QED
      BY <2>1, <3>3, <3>4 DEF x, v, D, d
  <2> QED
    BY <2>5, <2>6
<1>8. CASE ~(d <= W - 1)
  <2> DEFINE e == d - (W - 1)
             E == 2^e
  <2>1. e \in Nat /\ e > 0 /\ (W - 1) + e = d /\ W - 1 \in Nat /\ k + e = j
    BY <1>1, <1>8 DEF k, d
  <2>2. D = T * E /\ E \in Nat /\ E >= 1
    BY ZenonT(60), <2>1, PowerSum, PowerType DEF D, T
  <2>3. B = IF e < W + 8 THEN HalfAway(n, e) ELSE 0
    BY <1>8
  <2> HIDE DEF B, e
  <2>4. B \in Int /\ Magnitude(B) <= T /\ 2 * Magnitude(B * E - n) <= E
    BY <2>1, <2>3, SmallTerm DEF T
  <2> HIDE DEF E
  <2> DEFINE p == m * T
             A == T * T
             C == N * T
  <2>5. 16 * T <= C /\ C <= Magnitude(p) /\ Magnitude(p) + T <= A /\ A \in Nat /\ C \in Nat
        /\ p \in Int /\ V = p + B
    <3>1. 16 * T <= C
      <4>1. T <= T /\ 16 \in Nat
        BY <1>1
      <4> QED
        BY <1>1, <4>1, ProductBound
    <3> QED
      BY <1>1, <1>4, <1>6, <3>1
  <2> HIDE DEF p, A, C, V
  <2>6. V \in Int /\ V # 0 /\ Magnitude(V) < 2 * A /\ 15 * T <= Magnitude(V)
    BY <1>1, <2>4, <2>5 DEF Magnitude
  <2>7. PICK s \in (2 - W)..(W + 1) : Normalised(x, V, k, s)
    BY <1>1, <1>3, <1>5, <2>6, NormAny DEF A
  <2>8. s \in Int /\ s > 0
    <3>1. s \in Int
      BY <1>1
    <3>2. ASSUME s <= 0 PROVE FALSE
      <4> DEFINE Q == 2^(-s)
                 y == x.m
      <4>1. y = V * Q /\ Magnitude(y) \in Nat /\ Magnitude(y) < T
        BY <2>7, <3>2, Operands DEF Normalised, T
      <4>2. Q \in Nat /\ Q >= 1
        <5>1. -s \in Nat
          BY <3>1, <3>2
        <5> QED
          BY <5>1, PowerType
      <4> HIDE DEF Q, y
      <4>3. Magnitude(V * Q) = Magnitude(V) * Q
        BY <2>6, <4>2, MagnitudeProduct
      <4>4. Magnitude(V) \in Nat
        BY <2>6, MagnitudeIs
      <4> DEFINE zm == Magnitude(V)
      <4>5. zm * Q >= zm
        <5>1. zm \in Nat /\ zm > 0
          BY <1>1, <2>6, <4>4
        <5> HIDE DEF zm
        <5> QED
          BY <4>2, <5>1, ProductSign
      <4>6. Magnitude(y) >= zm
        BY <4>1, <4>3, <4>5
      <4> QED
        BY <1>1, <2>6, <4>1, <4>4, <4>6
    <3> QED
      BY <3>1, <3>2
  <2>9. V * E - v = B * E - n
    <3>1. m * D = p * E /\ p * E \in Int /\ B * E \in Int /\ (p + B) * E = p * E + B * E
      <4>1. m * (T * E) = (m * T) * E
        BY <1>1, <2>2
      <4>2. p * E \in Int /\ B * E \in Int /\ (p + B) * E = p * E + B * E
        BY <2>2, <2>4, <2>5
      <4> QED
        BY <2>2, <4>1, <4>2 DEF p
    <3> QED
      BY <2>5, <3>1 DEF v
  <2>10. Within(x, v, k + e, 1)
    <3>1. 2 * Magnitude(V * 2^e - v) <= 2^e
      BY <2>4, <2>9 DEF E
    <3>2. s \in Nat
      BY <2>8
    <3> QED
      BY <1>1, <2>1, <2>6, <2>7, <2>8, <3>1, <3>2, AddFar
  <2>11. Normal(x)
    BY <2>7 DEF Normal, Normalised
  <2> QED
    BY <2>1, <2>10, <2>11 DEF x, v, D, d
<1> QED
  BY <1>7, <1>8

(* The order of the operands does not matter.                              *)
LEMMA AddCommutes ==
  ASSUME NEW m \in Int, NEW n \in Int, m # 0, n # 0, NEW i \in Int, NEW j \in Int
  PROVE  xf_add(Xf(m, i), Xf(n, j)) = xf_add(Xf(n, j), Xf(m, i))
<1>1. CASE i = j
  <2> DEFINE T == 2^(W-1)
  <2>1. xf_add(Xf(m, i), Xf(n, j)) = xf_norm(m * T + n * T, i + W - 1)
        /\ xf_add(Xf(n, j), Xf(m, i)) = xf_norm(n * T + m * T, i + W - 1)
    <3>1. j - i = 0 /\ i - j = 0 /\ i <= j /\ j <= i /\ 0 <= W - 1 /\ W-1-0 = W-1
      BY <1>1, Sizes
    <3>2. xf_add(Xf(m, i), Xf(n, j)) = xf_norm(m * T + n * 2^(W-1-(j-i)), i + W - 1)
      BY <3>1, Zenon DEF xf_add, Xf
    <3>3. xf_add(Xf(n, j), Xf(m, i)) = xf_norm(n * T + m * 2^(W-1-(i-j)), j + W - 1)
      BY <3>1, Zenon DEF xf_add, Xf
    <3> QED
      BY <1>1, <3>1, <3>2, <3>3
  <2>2. T \in Nat
    BY WordSize
  <2> HIDE DEF T
  <2>3. m * T + n * T = n * T + m * T
    BY <2>2
  <2> QED
    BY <2>1, <2>3
<1>2. CASE i # j
  <2>1. (i < j /\ i <= j /\ ~(j <= i)) \/ (j < i /\ j <= i /\ ~(i <= j))
    BY <1>2
  <2> QED
    BY <2>1 DEF xf_add, Xf
<1> QED
  BY <1>1, <1>2

(* xf_add, for a word of any power of two bits: the sum is normalised,     *)
(* within one unit of its last place, and the same whichever scale comes   *)
(* first.                                                                  *)
THEOREM AddRight ==
  ASSUME NEW L \in Nat, W = 2^L
  PROVE  /\ \A m, n, i, j \in Int :
              Magnitude(m) \in Mantissa /\ Magnitude(n) \in Mantissa /\ i <= j =>
                LET x == xf_add(Xf(m, i), Xf(n, j)) IN
                Normal(x) /\ Within(x, m * 2^(j - i) + n, j, 1)
         /\ AddExact
<1>1. AddExact
  <2> SUFFICES ASSUME NEW a \in Scales, NEW b \in Scales, a.sh <= b.sh
               PROVE  /\ Normal(xf_add(a, b))
                      /\ Within(xf_add(a, b), a.m * 2^(b.sh - a.sh) + b.m, b.sh, 1)
                      /\ xf_add(b, a) = xf_add(a, b)
    BY DEF AddExact
  <2>1. /\ a = Xf(a.m, a.sh) /\ b = Xf(b.m, b.sh) /\ a.m \in Int /\ b.m \in Int
        /\ Magnitude(a.m) \in Mantissa /\ Magnitude(b.m) \in Mantissa /\ a.sh \in Int /\ b.sh \in Int
    <3>1. W \in Int
      BY Sizes
    <3> QED
      BY <3>1, ScalesAre
  <2> DEFINE m == a.m
             n == b.m
             i == a.sh
             j == b.sh
  <2>2. a = Xf(m, i) /\ b = Xf(n, j) /\ m \in Int /\ n \in Int /\ i \in Int /\ j \in Int /\ i <= j
        /\ Magnitude(m) \in Mantissa /\ Magnitude(n) \in Mantissa
    BY <2>1
  <2> HIDE DEF m, n, i, j
  <2>3. m # 0 /\ n # 0
    <3>1. Magnitude(m) >= 1 /\ Magnitude(n) >= 1
      BY <2>2, Operands
    <3> QED
      BY <3>1 DEF Magnitude
  <2>4. LET x == xf_add(Xf(m, i), Xf(n, j)) IN Normal(x) /\ Within(x, m * 2^(j - i) + n, j, 1)
    BY <2>2, AddAny
  <2>5. xf_add(Xf(m, i), Xf(n, j)) = xf_add(Xf(n, j), Xf(m, i))
    BY <2>2, <2>3, AddCommutes
  <2> QED
    BY <2>2, <2>4, <2>5 DEF m, n, i, j
<1> QED
  BY <1>1, AddAny

---------------------------------------------------------------------------
(* Reciprocals.                                                            *)

(* Where a number between half and all of a mantissa's range is moved to.  *)
LEMMA NormWithin ==
  ASSUME NEW L \in Nat, W = 2^L, NEW q \in Nat, NEW sh \in Int,
         NEW N, N = 2^(W-2), N <= 2 * q, q <= 2 * N, q # 2 * N - 1
  PROVE  LET x == xf_norm(q, sh) IN
         /\ Normal(x)
         /\ N <= q /\ q # 2 * N => x.m = q /\ x.sh = sh
         /\ q = 2 * N => x.m = N /\ x.sh = sh - 1
         /\ q < N => x.m = 2 * q /\ x.sh = sh + 1
<1> DEFINE x == xf_norm(q, sh)
<1>1. N \in Nat /\ N >= 16 /\ W \in Nat /\ W >= 6 /\ 2^(W-1) = 2 * N
  <2>1. W \in Nat /\ W >= 6
    BY Sizes
  <2>2. 2^4 = 16 /\ 4 \in Nat /\ W - 2 \in Nat /\ 4 <= W - 2
    BY <2>1
  <2>3. 2^4 <= N /\ N \in Nat /\ 2^(W-1) = 2 * N
    BY <2>1, <2>2, PowerOrder, Operands
  <2> QED
    BY <2>1, <2>2, <2>3
<1>2. Magnitude(q) = q /\ q # 0 /\ q < 2^(2*W - 1)
  <2>1. W + 1 \in Nat /\ W - 2 \in Nat /\ (W - 2) + (W + 1) = 2*W - 1 /\ 3 \in Nat /\ 3 <= W + 1
    BY <1>1
  <2>2. 2^(2*W - 1) = N * 2^(W + 1) /\ 2^(W + 1) \in Nat
    <3>1. 2^((W - 2) + (W + 1)) = N * 2^(W + 1)
      BY <2>1, PowerSum
    <3> QED
      BY <2>1, <3>1, PowerType
  <2>3. 2^3 = 8 /\ 2^3 <= 2^(W + 1)
    <3>1. 2^3 = 8
      OBVIOUS
    <3> QED
      BY <2>1, <3>1, PowerOrder
  <2> DEFINE P == 2^(W + 1)
  <2>4. P \in Nat /\ 8 <= P
    BY <2>2, <2>3
  <2> HIDE DEF P
  <2>5. N * 8 <= N * P /\ N * P \in Nat
    BY <1>1, <2>4, ProductOrder1
  <2>6. q < 2^(2*W - 1)
    BY <1>1, <2>2, <2>5 DEF P
  <2> QED
    BY <1>1, <2>6, MagnitudeIs
<1>3. PICK s \in (2 - W)..(W + 1) : Normalised(x, q, sh, s)
  BY <1>2, NormAny
<1>4. /\ s \in Int /\ x.m \in Int /\ x.sh = sh - s /\ Normal(x)
      /\ N <= x.m /\ x.m < 2 * N
  <2>1. Magnitude(x.m) \in Mantissa /\ x.m \in Int /\ ~(x.m < 0) /\ x.sh = sh - s
    BY <1>3 DEF Normalised
  <2>2. Magnitude(x.m) = x.m
    BY <2>1, MagnitudeIs
  <2> HIDE DEF x
  <2>3. N <= Magnitude(x.m) /\ Magnitude(x.m) < 2^(W-1)
    BY <2>1, Operands
  <2> QED
    BY <1>1, <2>1, <2>2, <2>3 DEF Normal
<1> HIDE DEF x
<1>5. CASE s > 0
  <2> DEFINE R == 2^(s-1)
             zm == x.m
  <2>1. 2^s = 2 * R /\ R \in Nat /\ R >= 1
    <3>1. s \in Nat
      BY <1>4, <1>5
    <3> QED
      BY <1>5, <3>1, PowerHalf
  <2>2. 2 * Magnitude(zm * 2^s - q) <= 2^s
    BY <1>3, <1>5 DEF Normalised
  <2>3. s > 1 => R >= 2
    <3> SUFFICES ASSUME s > 1 PROVE R >= 2
      OBVIOUS
    <3>1. s - 1 \in Nat /\ s - 1 > 0
      BY <1>4
    <3>2. R = 2 * 2^((s-1)-1) /\ 2^((s-1)-1) \in Nat /\ 2^((s-1)-1) >= 1
      BY <3>1, PowerHalf
    <3> DEFINE F == 2^((s-1)-1)
    <3>3. R = 2 * F /\ F \in Nat /\ F >= 1
      BY <3>2
    <3> HIDE DEF R, F
    <3> QED
      BY <3>3
  <2> HIDE DEF R
  <2>4. zm \in Nat
    BY <1>1, <1>4
  <2> DEFINE p == zm * R
  <2>5. zm * (2 * R) = 2 * p /\ p \in Nat
    BY <2>1, <2>4
  <2>6. N * R <= p
    <3>1. R <= R /\ N <= zm
      BY <1>4, <2>1
    <3> QED
      BY <1>1, <2>1, <2>4, <3>1, ProductBound
  <2> DEFINE b == N * R
  <2>7. b \in Nat /\ b <= p /\ 2 * Magnitude(2 * p - q) <= 2 * R
    BY <1>1, <2>1, <2>2, <2>5, <2>6
  <2>8. Magnitude(2 * p - q) >= 2 * p - q
    BY <2>5, MagnitudeIs DEF Magnitude
  <2>9. CASE R = 1
    <3>1. b = N /\ p = zm
      BY <1>1, <2>4, <2>9
    <3>2. s = 1
      BY <1>4, <1>5, <2>3, <2>9
    <3> HIDE DEF b, p, zm
    <3>3. Magnitude(2 * zm - q) <= 1 /\ Magnitude(2 * zm - q) = IF 2 * zm < q THEN q - 2 * zm ELSE 2 * zm - q
      BY <2>4, <2>7, <2>9, <3>1 DEF Magnitude
    <3>4. q = 2 * N /\ zm = N
      BY <1>1, <1>4, <2>4, <3>3 DEF zm
    <3> QED
      BY <1>1, <1>4, <3>2, <3>4 DEF zm, x
  <2>10. CASE R >= 2
    <3>1. N * R >= 16 * R /\ N * 2 <= N * R
      <4>1. 16 \in Nat /\ R <= R /\ 2 \in Int /\ R \in Int
        BY <2>1
      <4>2. 16 * R <= N * R
        BY <1>1, <2>1, <4>1, ProductBound
      <4>3. N * 2 <= N * R
        BY <1>1, <2>10, <4>1, ProductOrder1
      <4> QED
        BY <4>2, <4>3
    <3>2. b >= 16 * R /\ b >= 2 * N
      BY <1>1, <2>1, <3>1
    <3> DEFINE g == Magnitude(2 * p - q)
    <3>3. g \in Nat
      BY <2>5, MagnitudeIs
    <3> HIDE DEF b, p, g
    <3>4. FALSE
      BY <1>1, <2>1, <2>5, <2>7, <2>8, <3>2, <3>3 DEF g
    <3> QED
      BY <3>4
  <2> QED
    BY <2>1, <2>9, <2>10
<1>6. CASE s = 0
  <2>1. -s = 0
    <3> DEFINE j == -s
    <3>1. j \in Int /\ j + s = 0
      BY <1>4
    <3> HIDE DEF j
    <3>2. j = 0
      BY <1>6, <3>1
    <3> QED
      BY <3>2 DEF j
  <2>2. 2^0 = 1
    OBVIOUS
  <2>3. x.m = q * 2^(-s)
    BY <1>3, <1>6 DEF Normalised
  <2>4. x.m = q /\ x.sh = sh
    BY <1>4, <1>6, <2>1, <2>2, <2>3
  <2> QED
    BY <1>1, <1>4, <2>4 DEF x
<1>7. CASE s < 0
  <2> DEFINE Q == 2^(-s)
             zm == x.m
  <2>1. -s \in Nat /\ -s > 0 /\ zm = q * Q
    BY <1>3, <1>4, <1>7 DEF Normalised
  <2>2. Q = 2 * 2^((-s)-1) /\ 2^((-s)-1) \in Nat /\ 2^((-s)-1) >= 1
    BY <2>1, PowerHalf
  <2> DEFINE R == 2^((-s)-1)
  <2>3. Q = 2 * R /\ R \in Nat /\ R >= 1
    BY <2>2
  <2>4. s < -1 => R >= 2
    <3> SUFFICES ASSUME s < -1 PROVE R >= 2
      OBVIOUS
    <3>1. (-s) - 1 \in Nat /\ (-s) - 1 > 0
      BY <1>4
    <3>2. R = 2 * 2^(((-s)-1)-1) /\ 2^(((-s)-1)-1) \in Nat /\ 2^(((-s)-1)-1) >= 1
      BY <3>1, PowerHalf
    <3> DEFINE F == 2^(((-s)-1)-1)
    <3>3. R = 2 * F /\ F \in Nat /\ F >= 1
      BY <3>2
    <3> HIDE DEF R, F
    <3> QED
      BY <3>3
  <2> HIDE DEF Q, R
  <2>5. zm = 2 * (q * R) /\ q * R \in Nat
    BY <2>1, <2>3
  <2>6. CASE s = -1
    <3>1. R = 1
      <4> DEFINE j == (-s) - 1
      <4>0. j \in Int /\ j + s = -1
        BY <1>4
      <4> HIDE DEF j
      <4>1. j = 0
        BY <1>4, <2>6, <4>0
      <4>2. 2^0 = 1
        OBVIOUS
      <4> QED
        BY <4>1, <4>2 DEF R, j
    <3>2. zm = 2 * q /\ q < N /\ x.sh = sh + 1
      BY <1>1, <1>4, <2>5, <2>6, <3>1
    <3> QED
      BY <1>1, <1>4, <3>2 DEF x
  <2>7. CASE s < -1
    <3>1. q * 2 <= q * R
      BY <2>3, <2>4, <2>7, ProductOrder1
    <3> DEFINE p == q * R
    <3>2. p \in Nat /\ zm = 2 * p /\ 2 * q <= p
      BY <2>5, <3>1
    <3> HIDE DEF p
    <3> QED
      BY <1>1, <1>4, <3>2
  <2> QED
    BY <1>4, <1>7, <2>6, <2>7
<1> QED
  BY <1>4, <1>5, <1>6, <1>7

(* The quotient xf_recip normalises.                                       *)
LEMMA Reciprocal ==
  ASSUME NEW N \in Nat, N >= 16, NEW m \in Nat, N <= m, m < 2 * N
  PROVE  LET q == (2 * (N * N) + m \div 2) \div m IN
         /\ q \in Nat /\ N <= q
         /\ m = N => q = 2 * N
         /\ m # N => q <= 2 * N - 2
         /\ q * m \in Nat /\ Magnitude(q * m - 2 * (N * N)) <= m
<1> DEFINE h == m \div 2
           A == 2 * (N * N)
           q == (A + h) \div m
           t == (A + h) % m
<1>1. h \in Nat /\ 2 * h <= m /\ A \in Nat
  <2>1. h \in Int /\ m % 2 \in Int /\ 0 <= m % 2 /\ m % 2 < 2 /\ m = 2 * h + (m % 2)
    BY Divided
  <2> HIDE DEF h
  <2> QED
    BY <2>1
<1> HIDE DEF h, A
<1>2. q \in Int /\ t \in Int /\ 0 <= t /\ t < m /\ A + h = m * q + t
  <2>1. A + h \in Int /\ m > 0
    BY <1>1
  <2> QED
    BY <2>1, Divided
<1>3. N <= q
  <2>1. m * N <= A + h
    <3>1. m * N <= (2 * N) * N
      <4>1. m <= 2 * N /\ N <= N /\ 2 * N \in Nat
        OBVIOUS
      <4> QED
        BY <4>1, ProductBound
    <3>2. (2 * N) * N = A /\ m * N \in Nat
      BY DEF A
    <3> QED
      BY <1>1, <3>1, <3>2
  <2>2. A + h \in Int /\ m > 0 /\ N \in Int
    BY <1>1
  <2> QED
    BY <2>1, <2>2, QuotientOrder
<1>4. m = N => q = 2 * N
  <2> SUFFICES ASSUME m = N PROVE q = 2 * N
    OBVIOUS
  <2>1. A + h = m * (2 * N) + h /\ h < m /\ 0 <= h
    <3>1. A = m * (2 * N)
      BY DEF A
    <3> QED
      BY <1>1, <3>1
  <2> QED
    BY <1>1, <2>1, QuotientIs
<1>5. m # N => q <= 2 * N - 2
  <2> SUFFICES ASSUME m # N PROVE q <= 2 * N - 2
    OBVIOUS
  <2>1. A + h < m * (2 * N - 1)
    <3>1. N + 1 <= m /\ N + 1 \in Nat /\ 2 * N - 1 \in Nat
      OBVIOUS
    <3> DEFINE c == m - (N + 1)
               k == 2 * N - 1
    <3>2. c \in Nat /\ m = N + 1 + c /\ k \in Nat /\ k >= 1
      BY <3>1
    <3>3. m * k = (N + 1) * k + c * k
      <4>1. k \in Int /\ c \in Int /\ N \in Int
        BY <3>2
      <4> HIDE DEF k, c
      <4> QED
        BY <3>2, <4>1
    <3>4. (N + 1) * k = 2 * (N * N) + N - 1
      OBVIOUS
    <3>5. c * k >= c
      <4> HIDE DEF c, k
      <4>1. c * 1 <= c * k
        BY <3>2, ProductOrder1
      <4> QED
        BY <3>2, <4>1
    <3>6. m * k >= A + N - 1 + c
      <4> DEFINE p == c * k
                 B == (N + 1) * k
      <4>1. p \in Nat /\ B \in Nat /\ B = A + N - 1
        BY <1>1, <3>2, <3>4, <3>5 DEF A
      <4> HIDE DEF p, B
      <4> QED
        BY <1>1, <3>2, <3>3, <3>5, <4>1 DEF p, B
    <3>7. h < N - 1 + c
      BY <1>1, <3>2
    <3> DEFINE M == m * k
    <3>8. M \in Nat
      BY <3>2
    <3> HIDE DEF M, k, c
    <3> QED
      BY <1>1, <3>2, <3>6, <3>7, <3>8 DEF M, k
  <2>2. A + h \in Int /\ m > 0 /\ 2 * N - 1 \in Int
    BY <1>1
  <2>3. q < 2 * N - 1
    BY <2>1, <2>2, QuotientOrder
  <2> HIDE DEF q
  <2> QED
    BY <1>2, <2>3
<1> HIDE DEF q, t
<1>6. q \in Nat
  BY <1>2, <1>3
<1> DEFINE p == q * m
<1>7. p \in Nat /\ m * q = p
  BY <1>6
<1> HIDE DEF p
<1>8. p - A = h - t
  BY <1>1, <1>2, <1>7
<1>9. Magnitude(p - A) <= m
  BY <1>1, <1>2, <1>7, <1>8 DEF Magnitude
<1> QED
  BY <1>3, <1>4, <1>5, <1>6, <1>7, <1>9 DEF p, q, A, h

(* xf_recip, for a word of any power of two bits: normalised, and the      *)
(* product with its argument is 1 within one unit of its last place.       *)
THEOREM RecipRight ==
  ASSUME NEW L \in Nat, W = 2^L
  PROVE  RecipExact
<1> SUFFICES ASSUME NEW m \in Mantissa
             PROVE  LET rx == xf_recip(Xf(m, 0)) IN
                    Normal(rx) /\ Magnitude(rx.m * m - 2^rx.sh) <= m
  BY DEF RecipExact
<1> DEFINE N == 2^(W-2)
           A == 2^(2*W - 3)
           q == (A + m \div 2) \div m
           x == xf_norm(q, 2*W - 3)
<1>1. m \in Nat /\ N \in Nat /\ N <= m /\ m < 2 * N /\ N >= 16 /\ W \in Nat /\ W >= 6
  <2>1. W \in Nat /\ W >= 6
    BY Sizes
  <2>2. 2^4 = 16 /\ 4 \in Nat /\ W - 2 \in Nat /\ 4 <= W - 2
    BY <2>1
  <2>3. 2^4 <= N /\ N \in Nat /\ 2^(W-1) = 2 * N
    BY <2>1, <2>2, PowerOrder, Operands
  <2> QED
    BY <2>1, <2>2, <2>3, Operands
<1>2. 2^(2*W - 4) = N * N /\ A = 2 * (N * N)
  <2>1. W - 2 \in Nat /\ (W - 2) + (W - 2) = 2*W - 4 /\ 2*W - 3 \in Nat /\ 2*W - 3 > 0
        /\ (2*W - 3) - 1 = 2*W - 4
    BY <1>1
  <2>2. 2^((W - 2) + (W - 2)) = N * N
    BY <2>1, PowerSum
  <2>3. 2^(2*W - 3) = 2 * 2^((2*W - 3) - 1)
    BY <2>1, PowerHalf
  <2> QED
    BY <2>1, <2>2, <2>3
<1>3. xf_recip(Xf(m, 0)) = x
  <2>1. Xf(m, 0).m = m /\ Xf(m, 0).sh = 0 /\ ~(m < 0) /\ Magnitude(m) = m /\ 2*W - 3 - 0 = 2*W - 3
    BY <1>1, MagnitudeIs DEF Xf
  <2> QED
    BY <2>1 DEF xf_recip
<1>4. /\ q \in Nat /\ N <= q
      /\ m = N => q = 2 * N
      /\ m # N => q <= 2 * N - 2
      /\ q * m \in Nat /\ Magnitude(q * m - A) <= m
  <2> HIDE DEF N, A
  <2> DEFINE B == 2 * (N * N)
  <2>1. A = B
    BY <1>2
  <2> QED
    BY <1>1, <2>1, Reciprocal
<1> HIDE DEF q
<1>5. N <= 2 * q /\ q <= 2 * N /\ q # 2 * N - 1 /\ 2*W - 3 \in Int
  <2> HIDE DEF N
  <2> QED
    BY <1>1, <1>4
<1>6. /\ Normal(x)
      /\ N <= q /\ q # 2 * N => x.m = q /\ x.sh = 2*W - 3
      /\ q = 2 * N => x.m = N /\ x.sh = 2*W - 3 - 1
  <2> HIDE DEF N
  <2>1. N = 2^(W-2)
    BY DEF N
  <2> DEFINE sh == 2*W - 3
             y == xf_norm(q, sh)
  <2>2. sh \in Int /\ q \in Nat
    BY <1>4, <1>5
  <2> HIDE DEF sh
  <2>3. /\ Normal(y)
        /\ N <= q /\ q # 2 * N => y.m = q /\ y.sh = sh
        /\ q = 2 * N => y.m = N /\ y.sh = sh - 1
    BY <1>5, <2>1, <2>2, NormWithin
  <2> QED
    BY <2>3 DEF sh
<1> HIDE DEF x
<1>7. CASE m # N
  <2>1. q # 2 * N
    <3> HIDE DEF N
    <3> QED
      BY <1>1, <1>4, <1>7
  <2>2. x.m = q /\ x.sh = 2*W - 3
    BY <1>4, <1>6, <2>1
  <2> QED
    BY <1>3, <1>4, <1>6, <2>2
<1>8. CASE m = N
  <2>1. q = 2 * N
    BY <1>4, <1>8
  <2>2. x.m = N /\ x.sh = 2*W - 3 - 1
    BY <1>6, <2>1
  <2>3. x.sh = 2*W - 4
    BY <1>1, <2>2
  <2>4. 2^x.sh = N * N
    BY <1>2, <2>3
  <2>5. x.m * m - 2^x.sh = 0
    <3> HIDE DEF N
    <3>1. N * N - N * N = 0
      BY <1>1
    <3> QED
      BY <1>8, <2>2, <2>4, <3>1
  <2>6. Magnitude(x.m * m - 2^x.sh) <= m
    <3>1. Magnitude(0) = 0
      BY MagnitudeIs
    <3> QED
      BY <1>1, <2>5, <3>1
  <2> QED
    BY <1>3, <1>6, <2>6
<1> QED
  BY <1>7, <1>8

---------------------------------------------------------------------------
(* Reciprocal square roots: one Newton step, in integers.                  *)

(* What X y^2 misses of N^3: 0 when y is N / sqrt(X / N).                  *)
Miss(N, X, y) == N * (N * N) - X * (y * y)

(* A Newton step towards it.                                               *)
Step(N, X, y) == (y * (3 * N - (X * ((y * y) \div N)) \div N)) \div (2 * N)

(* An estimate that misses by at most half is below one and a half.        *)
LEMMA NotFarOut ==
  ASSUME NEW N \in Nat, N >= 1, NEW X \in Nat, N <= X, X <= 4 * N, NEW y \in Nat,
         2 * (X * (y * y)) <= 3 * (N * (N * N))
  PROVE  2 * y < 3 * N /\ 2 * (X * y) <= 5 * (N * N) /\ y * (N + X) <= 4 * (N * N)
<1> DEFINE S == N * N
           M == N * (N * N)
           P == X * (y * y)
<1>1. S \in Nat /\ M \in Nat /\ P \in Nat /\ y * y \in Nat /\ M >= 1 /\ S >= 1 /\ M = N * S
      /\ 2 * P <= 3 * M
  <2>1. S \in Nat /\ S >= 1 /\ y * y \in Nat
    BY ProductSign
  <2> HIDE DEF S
  <2>2. N * S \in Nat /\ N * S >= 1
    BY <2>1, ProductSign
  <2>3. P \in Nat
    BY <2>1, ProductSign
  <2> QED
    BY <2>1, <2>2, <2>3 DEF S
<1>2. 2 * y < 3 * N
  <2> SUFFICES ASSUME 3 * N <= 2 * y PROVE FALSE
    OBVIOUS
  <2>1. (3 * N) * (3 * N) <= (2 * y) * (2 * y)
    <3>1. 3 * N \in Nat /\ 2 * y \in Nat
      OBVIOUS
    <3> QED
      BY <3>1, ProductBound
  <2>2. 9 * S <= 4 * (y * y)
    <3>1. (3 * N) * (3 * N) = 9 * S /\ (2 * y) * (2 * y) = 4 * (y * y)
      OBVIOUS
    <3> QED
      BY <2>1, <3>1
  <2>3. N * (9 * S) <= X * (4 * (y * y))
    <3>1. 9 * S \in Nat /\ 4 * (y * y) \in Nat
      BY <1>1
    <3> HIDE DEF S
    <3> QED
      BY <2>2, <3>1, ProductBound
  <2>4. N * (9 * S) = 9 * M /\ X * (4 * (y * y)) = 4 * P
    OBVIOUS
  <2> HIDE DEF S, M, P
  <2> QED
    BY <1>1, <2>3, <2>4
<1>3. 2 * (X * y) <= 5 * S
  <2> DEFINE b == X * y
  <2> SUFFICES ASSUME 5 * S < 2 * b PROVE FALSE
    <3>1. b \in Nat
      OBVIOUS
    <3> HIDE DEF b, S
    <3> QED
      BY <1>1, <3>1 DEF b
  <2>1. b \in Nat
    OBVIOUS
  <2>2. (5 * S) * (5 * S) <= (2 * b) * (2 * b)
    <3> HIDE DEF b, S
    <3>1. 5 * S \in Nat /\ 2 * b \in Nat /\ 5 * S <= 2 * b
      BY <1>1, <2>1
    <3> QED
      BY <3>1, ProductBound
  <2>3. (2 * b) * (2 * b) = (4 * X) * P
    OBVIOUS
  <2>4. (2 * X) * (2 * P) <= (8 * N) * (3 * M)
    <3> HIDE DEF P, M
    <3>1. 2 * X \in Nat /\ 2 * P \in Nat /\ 8 * N \in Nat /\ 3 * M \in Nat /\ 2 * X <= 8 * N
          /\ 2 * P <= 3 * M
      BY <1>1
    <3> QED
      BY <3>1, ProductBound
  <2>5. (2 * X) * (2 * P) = (4 * X) * P
    <3> HIDE DEF P
    <3> QED
      BY <1>1
  <2>6. (8 * N) * (3 * M) = 24 * (S * S) /\ (5 * S) * (5 * S) = 25 * (S * S)
    OBVIOUS
  <2>7. S * S \in Nat /\ S * S >= 1
    <3> HIDE DEF S
    <3> QED
      BY <1>1, ProductSign
  <2> DEFINE t == S * S
             v == (4 * X) * P
  <2>8. 25 * t <= v /\ v <= 24 * t /\ t \in Nat /\ t >= 1
    BY <2>2, <2>3, <2>4, <2>5, <2>6, <2>7
  <2>9. v \in Nat
    <3> HIDE DEF P
    <3> QED
      BY <1>1
  <2> HIDE DEF t, v
  <2> QED
    BY <2>8, <2>9
<1>4. y * (N + X) <= 4 * S
  <2>1. N * (2 * y) <= N * (3 * N)
    <3>1. 2 * y \in Int /\ 3 * N \in Int /\ 2 * y <= 3 * N
      BY <1>2
    <3> QED
      BY <3>1, ProductOrder1
  <2>2. N * (3 * N) = 3 * S /\ 2 * (y * (N + X)) = N * (2 * y) + 2 * (X * y)
    OBVIOUS
  <2> DEFINE a == N * (2 * y)
             b == 2 * (X * y)
             c == y * (N + X)
  <2>3. a <= 3 * S /\ b <= 5 * S /\ 2 * c = a + b
    BY <1>3, <2>1, <2>2
  <2>4. a \in Nat /\ b \in Nat /\ c \in Nat
    OBVIOUS
  <2> HIDE DEF a, b, c, S
  <2>5. c <= 4 * S
    BY <1>1, <2>3, <2>4
  <2> QED
    BY <2>5 DEF c
<1> QED
  BY <1>2, <1>3, <1>4

(* The step's three divisions, as one equation with their remainders.      *)
LEMMA NewtonIs ==
  ASSUME NEW N \in Nat, N >= 1, NEW X \in Nat, N <= X, X <= 4 * N, NEW y \in Nat,
         2 * (X * (y * y)) <= 3 * (N * (N * N)),
         NEW yn \in Int,
         yn = Step(N, X, y),
         NEW M, M = N * (N * N)
  PROVE  \E g \in Int : /\ (2 * M) * yn = y * (2 * M + Miss(N, X, y)) + g
                        /\ -(2 * M) < g /\ g <= 4 * M
<1> DEFINE A == (y * y) \div N
           B == (X * A) \div N
           f1 == (y * y) % N
           f2 == (X * A) % N
           f3 == (y * (3 * N - B)) % (2 * N)
           S == N * N
           P == X * (y * y)
           e == X * f1 + N * f2
           D == M - P
           g == y * e - S * f3
<1>1. /\ A \in Int /\ f1 \in Int /\ 0 <= f1 /\ f1 < N /\ y * y = N * A + f1
  <2>1. N > 0 /\ y * y \in Int
    OBVIOUS
  <2> QED
    BY <2>1, Divided
<1> HIDE DEF A, f1
<1>2. B \in Int /\ f2 \in Int /\ 0 <= f2 /\ f2 < N /\ X * A = N * B + f2
  <2>1. N > 0 /\ X * A \in Int
    BY <1>1
  <2> QED
    BY <2>1, Divided
<1> HIDE DEF B, f2
<1>3. f3 \in Int /\ 0 <= f3 /\ f3 < 2 * N /\ y * (3 * N - B) = (2 * N) * yn + f3
  <2>1. 2 * N > 0 /\ 2 * N \in Nat /\ y * (3 * N - B) \in Int
    BY <1>2
  <2>2. yn = (y * (3 * N - B)) \div (2 * N)
    BY DEF B, A, Step
  <2> QED
    BY <2>1, <2>2, Divided
<1> HIDE DEF f3
<1>4. S * B = P - e
  <2>1. N * (N * B) = N * (X * A) - N * f2
    <3>1. N * B = X * A - f2 /\ X * A \in Int
      BY <1>1, <1>2
    <3> DEFINE a == X * A
    <3>2. N * (a - f2) = N * a - N * f2
      BY <1>2, <3>1
    <3> QED
      BY <3>1, <3>2
  <2>2. X * (N * A) = X * (y * y) - X * f1
    <3>1. N * A = y * y - f1
      BY <1>1
    <3> DEFINE b == y * y
    <3>2. X * (b - f1) = X * b - X * f1
      BY <1>1
    <3> QED
      BY <3>1, <3>2
  <2>3. N * (X * A) = X * (N * A) /\ N * (N * B) = S * B
    BY <1>1, <1>2
  <2> DEFINE c == X * f1
             d == N * f2
             h == X * (N * A)
  <2>4. c \in Int /\ d \in Int /\ P \in Int /\ h \in Int /\ S * B = h - d /\ h = P - c
    BY <1>1, <1>2, <2>1, <2>2, <2>3
  <2> HIDE DEF P, h, S
  <2> HIDE DEF c, d
  <2>5. S * B = P - (c + d)
    BY <2>4
  <2> QED
    BY <2>5 DEF c, d
<1>5. M \in Nat /\ P \in Int /\ e \in Int /\ D \in Int /\ S \in Nat /\ g \in Int /\ M = N * S
  BY <1>1, <1>2, <1>3
<1>6. S * (y * (3 * N - B)) = y * (3 * M - S * B)
  BY <1>2
<1>7. S * ((2 * N) * yn + f3) = (2 * M) * yn + S * f3
  BY <1>3
<1> HIDE DEF S, P, D
<1>8. (2 * M) * yn = y * (2 * M + D) + g
  <2> DEFINE u == (2 * M) * yn
             h == S * f3
             E == e
  <2>1. 3 * M - S * B = (2 * M + D) + e
    <3>1. S * B = P - e /\ D = M - P
      BY <1>4 DEF D
    <3> HIDE DEF e
    <3> QED
      BY <1>5, <3>1
  <2>2. y * ((2 * M + D) + e) = y * (2 * M + D) + y * e
    <3> HIDE DEF e
    <3> QED
      BY <1>5
  <2>3. u + h = y * (2 * M + D) + y * e
    BY <1>3, <1>6, <1>7, <2>1, <2>2
  <2> DEFINE v == y * (2 * M + D)
             j == y * e
  <2>4. u \in Int /\ h \in Int /\ v \in Int /\ j \in Int /\ g = j - h /\ u + h = v + j
    <3> HIDE DEF e
    <3> QED
      BY <1>3, <1>5, <2>3 DEF g
  <2> HIDE DEF u, h, v, j, g
  <2>5. u = v + g
    BY <2>4
  <2> QED
    BY <2>5 DEF u, v
<1>9. 0 <= e /\ e <= (N + X) * N
  <2>1. f1 \in Nat /\ f2 \in Nat /\ f1 <= N /\ f2 <= N
    BY <1>1, <1>2
  <2>2. X * f1 <= X * N /\ N * f2 <= N * N /\ X * f1 \in Nat /\ N * f2 \in Nat
    BY <2>1, ProductBound
  <2>3. (N + X) * N = X * N + N * N /\ X * N \in Nat /\ N * N \in Nat
    OBVIOUS
  <2> DEFINE a == X * f1
             b == N * f2
             c == X * N
             d == N * N
  <2>4. a <= c /\ b <= d /\ a \in Nat /\ b \in Nat /\ c \in Nat /\ d \in Nat /\ (N + X) * N = c + d
    BY <2>2, <2>3
  <2> HIDE DEF a, b, c, d
  <2>5. 0 <= a + b /\ a + b <= (N + X) * N
    BY <2>4
  <2> QED
    BY <2>5 DEF a, b
<1>10. y * e \in Nat /\ y * e <= 4 * M
  <2> HIDE DEF e
  <2>1. y * e <= y * ((N + X) * N) /\ y * e \in Nat
    <3>1. e \in Nat /\ (N + X) * N \in Nat /\ y <= y
      BY <1>5, <1>9
    <3> QED
      BY <1>9, <3>1, ProductBound
  <2>2. y * ((N + X) * N) = (y * (N + X)) * N
    OBVIOUS
  <2> DEFINE a == y * (N + X)
  <2>3. a \in Nat /\ a <= 4 * S
    <3>1. y * (N + X) <= 4 * (N * N)
      BY NotFarOut
    <3> QED
      BY <3>1 DEF S
  <2> HIDE DEF a
  <2>4. a * N <= (4 * S) * N
    <3>1. 4 * S \in Nat /\ N <= N
      BY <1>5
    <3> QED
      BY <2>3, <3>1, ProductBound
  <2>5. (4 * S) * N = 4 * M
    BY <1>5
  <2> DEFINE b == y * e
             c == a * N
  <2>6. b \in Nat /\ c \in Nat /\ b <= c /\ c <= 4 * M
    BY <2>1, <2>2, <2>3, <2>4, <2>5 DEF a
  <2> HIDE DEF b, c
  <2>7. b <= 4 * M
    BY <1>5, <2>6
  <2> QED
    BY <2>6, <2>7 DEF b
<1>11. 0 <= S * f3 /\ S * f3 < 2 * M
  <2>1. f3 \in Nat /\ f3 <= 2 * N - 1 /\ 2 * N - 1 \in Int
    BY <1>3
  <2>2. S * f3 <= S * (2 * N - 1) /\ S * 0 <= S * f3
    BY <1>5, <2>1, ProductOrder1
  <2>3. S * (2 * N - 1) = 2 * M - S /\ S >= 1 /\ S * 0 = 0
    <3>1. S >= 1
      BY ProductSign DEF S
    <3> QED
      BY <1>5, <3>1
  <2> DEFINE a == S * f3
  <2>4. a <= 2 * M - S /\ 0 <= a /\ a \in Int /\ S >= 1
    BY <1>3, <1>5, <2>2, <2>3
  <2> HIDE DEF a
  <2>5. a < 2 * M
    BY <1>5, <2>4
  <2> QED
    BY <2>4, <2>5 DEF a
<1>12. -(2 * M) < g /\ g <= 4 * M
  <2> DEFINE a == y * e
             b == S * f3
  <2>1. a \in Nat /\ a <= 4 * M /\ 0 <= b /\ b < 2 * M /\ b \in Int /\ g = a - b
    BY <1>3, <1>5, <1>10, <1>11
  <2> HIDE DEF a, b, g
  <2> QED
    BY <1>5, <2>1
<1> HIDE DEF g
<1> QED
  BY <1>5, <1>8, <1>12 DEF Miss, D, P

(* How fast the step converges: what is missed is squared, apart from what *)
(* the remainders of the divisions add.                                    *)
LEMMA NewtonError ==
  ASSUME NEW N \in Nat, N >= 32, NEW X \in Nat, N <= X, X <= 4 * N, NEW y \in Nat,
         NEW M, M = N * (N * N), NEW q \in Nat, q >= 2, Magnitude(Miss(N, X, y)) * q <= M,
         NEW yn \in Nat,
         yn = Step(N, X, y)
  PROVE  (4 * (q * (q * q))) * Magnitude(Miss(N, X, yn))
         <= (3 * q + 1) * M + (52 * (q * (q * q))) * (N * N)
<1> DEFINE S == N * N
           D == Miss(N, X, y)
           d == Magnitude(D)
           F == Miss(N, X, yn)
           f == Magnitude(F)
           P == X * (y * y)
           w == 2 * M + D
           u == y * w
           Q == q * (q * q)
           K == M * M
<1>1. /\ S \in Nat /\ S >= 1 /\ M \in Nat /\ M >= 1 /\ K \in Nat /\ K >= 1 /\ M = N * S
      /\ P \in Nat /\ Q \in Nat
  <2>1. S \in Nat /\ S >= 1
    BY ProductSign
  <2> HIDE DEF S
  <2>2. M \in Nat /\ M >= 1
    <3>1. M = N * S
      BY DEF S
    <3> QED
      BY <2>1, <3>1, ProductSign
  <2>3. K \in Nat /\ K >= 1
    BY <2>2, ProductSign
  <2>4. P \in Nat /\ Q \in Nat
    <3>1. y * y \in Nat /\ q * q \in Nat
      BY ProductSign
    <3> QED
      BY <3>1, ProductSign
  <2> QED
    BY <2>1, <2>2, <2>3, <2>4 DEF S
<1>2. /\ D = M - P /\ D \in Int /\ d \in Nat /\ d * q <= M /\ F = M - X * (yn * yn) /\ F \in Int /\ f \in Nat
  <2>1. D = M - P /\ F = M - X * (yn * yn)
    BY DEF Miss
  <2>2. F \in Int
    BY <1>1, <2>1
  <2> HIDE DEF P, D, F
  <2>3. D \in Int
    BY <1>1, <2>1
  <2> QED
    BY <2>1, <2>2, <2>3, MagnitudeIs DEF D
<1> HIDE DEF D
<1>3. 2 * d <= M /\ -d <= D /\ D <= d
  <2>1. d * 2 <= d * q
    BY <1>2, ProductOrder1
  <2> DEFINE a == d * q
  <2>2. a \in Int /\ a <= M /\ d * 2 <= a
    BY <1>2, <2>1
  <2> HIDE DEF a, d
  <2>3. 2 * d <= M
    BY <1>1, <1>2, <2>2
  <2> QED
    BY <1>2, <2>3 DEF d, Magnitude
<1> HIDE DEF d
<1>4. w \in Nat /\ 2 * w <= 5 * M /\ 3 * M + D \in Nat
  BY <1>1, <1>2, <1>3
<1>5. PICK g \in Int : (2 * M) * yn = u + g /\ -(2 * M) < g /\ g <= 4 * M
  <2>1. 2 * (X * (y * y)) <= 3 * (N * (N * N))
    <3>1. 2 * P <= 3 * M
      <4> HIDE DEF P
      <4> QED
        BY <1>1, <1>2, <1>3
    <3> QED
      BY <3>1
  <2>2. N >= 1 /\ yn \in Int
    OBVIOUS
  <2> QED
    BY <2>1, <2>2, NewtonIs DEF D
<1>6. 2 * (X * y) <= 5 * S
  <2>1. 2 * (X * (y * y)) <= 3 * (N * (N * N))
    <3>1. 2 * P <= 3 * M
      <4> HIDE DEF P
      <4> QED
        BY <1>1, <1>2, <1>3
    <3> QED
      BY <3>1
  <2>2. N >= 1
    OBVIOUS
  <2> QED
    BY <2>1, <2>2, NotFarOut
<1> DEFINE T1 == (D * D) * (3 * M + D)
           T2 == (2 * X) * (u * g)
           T3 == X * (g * g)
<1>7. (4 * K) * F = T1 - T2 - T3
  <2>1. (4 * K) * F = 4 * (K * M) - X * (((2 * M) * yn) * ((2 * M) * yn))
    <3> DEFINE s == yn * yn
    <3>1. ((2 * M) * yn) * ((2 * M) * yn) = (4 * K) * s
      <4>1. M \in Int
        BY <1>1
      <4>2. \A m \in Int : ((2 * m) * yn) * ((2 * m) * yn) = (4 * (m * m)) * (yn * yn)
        OBVIOUS
      <4> QED
        BY <4>1, <4>2
    <3>2. s \in Int /\ F = M - X * s
      BY <1>2
    <3> HIDE DEF s, K, F
    <3>3. (4 * K) * (M - X * s) = 4 * (K * M) - X * ((4 * K) * s)
      BY <1>1, <3>2
    <3> QED
      BY <3>1, <3>2, <3>3
  <2>2. X * ((u + g) * (u + g)) = X * (u * u) + T2 + T3
    <3> DEFINE h == u
    <3>1. h \in Int
      BY <1>4
    <3> HIDE DEF h
    <3>2. X * ((h + g) * (h + g)) = X * (h * h) + (2 * X) * (h * g) + X * (g * g)
      BY <3>1
    <3> QED
      BY <3>2 DEF h
  <2>3. X * (u * u) = P * (w * w)
    <3> DEFINE h == w
    <3>1. h \in Int
      BY <1>4
    <3> HIDE DEF h
    <3>2. X * ((y * h) * (y * h)) = (X * (y * y)) * (h * h)
      BY <3>1
    <3> QED
      BY <3>2 DEF h
  <2>4. P * (w * w) = 4 * (K * M) - T1
    <3>1. P = M - D
      <4> HIDE DEF P
      <4> QED
        BY <1>1, <1>2
    <3>2. (M - D) * ((2 * M + D) * (2 * M + D)) = 4 * ((M * M) * M) - (D * D) * (3 * M + D)
      BY <1>1, <1>2
    <3> QED
      BY <3>1, <3>2
  <2>5. X * (((2 * M) * yn) * ((2 * M) * yn)) = 4 * (K * M) - T1 + T2 + T3
    <3> HIDE DEF T1, T2, T3, K, w, P
    <3>1. X * (((2 * M) * yn) * ((2 * M) * yn)) = X * (u * u) + T2 + T3
      BY <1>5, <2>2
    <3> QED
      BY <2>3, <2>4, <3>1
  <2>6. T1 \in Int /\ T2 \in Int /\ T3 \in Int /\ K * M \in Int
    <3>1. T1 \in Int /\ T3 \in Int /\ K * M \in Int
      BY <1>1, <1>2
    <3>2. u \in Int
      BY <1>4
    <3> HIDE DEF u
    <3>3. T2 \in Int
      BY <3>2
    <3> QED
      BY <3>1, <3>3
  <2> DEFINE k == K * M
  <2> HIDE DEF T1, T2, T3, k
  <2>7. (4 * K) * F = 4 * k - (4 * k - T1 + T2 + T3)
    BY <2>1, <2>5 DEF k
  <2> QED
    BY <2>6, <2>7 DEF k
<1>8. Q * T1 <= K * ((3 * q + 1) * M) /\ T1 \in Nat
  <2>1. D * D = d * d
    BY <1>2 DEF d, Magnitude
  <2>2. (d * q) * (d * q) <= M * M /\ (d * q) * (d * q) \in Nat
    <3> DEFINE a == d * q
    <3>1. a \in Nat /\ a <= M
      BY <1>2, ProductSign
    <3> HIDE DEF a
    <3>2. a * a <= M * M /\ a * a \in Nat
      BY <1>1, <3>1, ProductBound
    <3> QED
      BY <3>2 DEF a
  <2> DEFINE v == 3 * M + D
  <2>3. q * v \in Nat /\ q * v <= (3 * q + 1) * M /\ (3 * q + 1) * M \in Nat
    <3>1. q * D <= q * d
      BY <1>2, <1>3, ProductOrder1
    <3>2. q * v = 3 * (q * M) + q * D /\ (3 * q + 1) * M = 3 * (q * M) + M
      BY <1>1, <1>2
    <3>3. q * d = d * q
      BY <1>2
    <3> DEFINE a == q * M
               b == q * D
               c == d * q
    <3>4. a \in Nat /\ b \in Int /\ c \in Int /\ b <= c /\ c <= M /\ q * v = 3 * a + b
          /\ (3 * q + 1) * M = 3 * a + M
      BY <1>1, <1>2, <3>1, <3>2, <3>3
    <3>5. q * v \in Nat
      BY <1>4, ProductSign
    <3> HIDE DEF a, b, c, v
    <3> QED
      BY <1>1, <3>4, <3>5
  <2>4. ((d * q) * (d * q)) * (q * v) <= K * ((3 * q + 1) * M)
    BY <1>1, <2>2, <2>3, ProductBound
  <2>5. ((d * q) * (d * q)) * (q * v) = Q * ((d * d) * v)
    <3>1. v \in Int
      BY <1>4
    <3> HIDE DEF v
    <3> QED
      BY <1>2, <3>1
  <2>6. T1 \in Nat
    <3>1. d * d \in Nat
      BY <1>2, ProductSign
    <3> QED
      BY <1>4, <2>1, <3>1, ProductSign
  <2> QED
    BY <2>1, <2>4, <2>5, <2>6
<1>9. Magnitude(g) \in Nat /\ Magnitude(g) <= 4 * M
  BY <1>1, <1>5 DEF Magnitude
<1>10. Magnitude(T2) \in Nat /\ Magnitude(T2) <= 50 * (K * S)
  <2> DEFINE a == (2 * X) * u
             b == Magnitude(g)
  <2>1. (2 * (X * y)) * (2 * w) <= (5 * S) * (5 * M) /\ (2 * (X * y)) * (2 * w) \in Nat
    <3>1. 2 * (X * y) \in Nat
      BY ProductSign
    <3>2. 2 * w \in Nat /\ 5 * S \in Nat /\ 5 * M \in Nat
      BY <1>1, <1>4
    <3> QED
      BY <1>4, <1>6, <3>1, <3>2, ProductBound
  <2>2. (2 * (X * y)) * (2 * w) = 2 * a
    <3> DEFINE h == w
    <3>1. h \in Int
      BY <1>4
    <3> HIDE DEF h
    <3>2. (2 * (X * y)) * (2 * h) = 2 * ((2 * X) * (y * h))
      BY <3>1
    <3> QED
      BY <3>2 DEF h
  <2>3. a \in Nat
    <3>1. u \in Nat /\ 2 * X \in Nat
      BY <1>4, ProductSign
    <3> QED
      BY <3>1, ProductSign
  <2>4. T2 = a * g
    <3>1. u \in Int
      BY <1>4
    <3> HIDE DEF u
    <3> QED
      BY <3>1
  <2> DEFINE c == S * M
  <2>5. c \in Nat /\ 2 * a <= 25 * c
    <3>1. (5 * S) * (5 * M) = 25 * (S * M) /\ S * M \in Nat
      BY <1>1
    <3> QED
      BY <2>1, <2>2, <3>1
  <2> HIDE DEF a, c, T2
  <2>6. (2 * a) * b <= (25 * c) * (4 * M)
    <3>1. 2 * a \in Nat /\ 25 * c \in Nat /\ 4 * M \in Nat
      BY <1>1, <2>3, <2>5
    <3> QED
      BY <1>9, <2>5, <3>1, ProductBound
  <2>7. (25 * c) * (4 * M) = 100 * (K * S)
    BY <1>1 DEF c
  <2>8. T2 = g * a /\ Magnitude(g * a) = b * a
    <3>1. g * a = a * g
      BY <2>3
    <3> QED
      BY <2>3, <2>4, <3>1, MagnitudeProduct
  <2>9. b \in Nat
    BY <1>9
  <2> HIDE DEF b
  <2>10. (2 * a) * b = 2 * (b * a) /\ b * a \in Nat /\ K * S \in Nat
    BY <1>1, <2>3, <2>9
  <2> DEFINE h == b * a
             k == K * S
  <2>11. h \in Nat /\ k \in Nat /\ 2 * h <= 100 * k /\ Magnitude(T2) = h
    BY <2>6, <2>7, <2>8, <2>10 DEF b
  <2> HIDE DEF h, k
  <2> QED
    BY <2>11 DEF k
<1>11. T3 \in Nat /\ T3 <= 2 * (K * S)
  <2> DEFINE b == Magnitude(g)
  <2>1. g * g = b * b
    BY <1>5 DEF Magnitude
  <2>2. b \in Nat /\ b <= 4 * M
    BY <1>9
  <2> HIDE DEF b
  <2>3. b * b <= (4 * M) * (4 * M) /\ b * b \in Nat
    <3>1. 4 * M \in Nat
      BY <1>1
    <3> QED
      BY <2>2, <3>1, ProductBound
  <2>4. X * (b * b) <= (4 * N) * ((4 * M) * (4 * M)) /\ X * (b * b) \in Nat
    <3>1. 4 * N \in Nat /\ (4 * M) * (4 * M) \in Nat
      BY <1>1, ProductSign
    <3> QED
      BY <2>3, <3>1, ProductBound
  <2>5. (4 * N) * ((4 * M) * (4 * M)) = 2 * (K * (32 * N))
    BY <1>1
  <2>6. K * (32 * N) <= K * S
    <3>1. 32 * N <= N * N
      <4>1. N * 32 <= N * N
        BY ProductOrder1
      <4> QED
        BY <4>1
    <3>2. 32 * N \in Int /\ S \in Int
      BY <1>1
    <3> QED
      BY <1>1, <3>1, <3>2, ProductOrder1
  <2> DEFINE k == K * S
             h == K * (32 * N)
             t == X * (b * b)
  <2>7. k \in Nat /\ h \in Nat /\ t \in Nat /\ t <= 2 * h /\ h <= k /\ T3 = t
    BY <1>1, <2>1, <2>4, <2>5, <2>6
  <2> HIDE DEF k, h, t, T3
  <2> QED
    BY <2>7 DEF k
<1>12. (4 * K) * f <= T1 + 52 * (K * S)
  <2> DEFINE k == K * S
             t == (4 * K) * F
  <2>1. k \in Nat /\ T1 \in Nat /\ T3 \in Nat /\ T3 <= 2 * k /\ Magnitude(T2) <= 50 * k
        /\ t = T1 - T2 - T3
    BY <1>1, <1>7, <1>8, <1>10, <1>11
  <2>2. Magnitude(t) = (4 * K) * f
    <3>1. 4 * K \in Nat /\ F * (4 * K) = (4 * K) * F /\ f * (4 * K) = (4 * K) * f
      BY <1>1, <1>2
    <3> QED
      BY ZenonT(60), <1>2, <3>1, MagnitudeProduct
  <2>3. T2 \in Int
    <3>1. u \in Int
      BY <1>4
    <3> HIDE DEF u
    <3> QED
      BY <3>1
  <2> HIDE DEF k, t, T1, T2, T3
  <2>4. Magnitude(t) <= T1 + 52 * k
    BY <2>1, <2>3 DEF Magnitude
  <2> QED
    BY <2>2, <2>4 DEF k
<1> HIDE DEF S, K, Q, F, f, T1
<1>13. ((4 * Q) * f) * K <= ((3 * q + 1) * M + (52 * Q) * S) * K
  <2> DEFINE a == (4 * K) * f
             b == 52 * (K * S)
             c == (3 * q + 1) * M
  <2>1. a \in Int /\ b \in Int /\ c \in Int /\ T1 + b \in Int /\ a <= T1 + b
    BY <1>1, <1>2, <1>8, <1>12
  <2> HIDE DEF a, b, c
  <2>2. Q * a <= Q * (T1 + b)
    BY <1>1, <2>1, ProductOrder1
  <2>3. Q * (T1 + b) = Q * T1 + Q * b
    BY <1>1, <1>8, <2>1
  <2>4. Q * a = ((4 * Q) * f) * K
    BY <1>1, <1>2 DEF a
  <2>5. Q * b = ((52 * Q) * S) * K
    BY <1>1 DEF b
  <2>6. (c + (52 * Q) * S) * K = K * c + ((52 * Q) * S) * K
    BY <1>1, <2>1
  <2> DEFINE a1 == ((4 * Q) * f) * K
             b1 == ((52 * Q) * S) * K
             c1 == K * c
             t1 == Q * T1
  <2>7. a1 \in Int /\ b1 \in Int /\ c1 \in Int /\ t1 \in Int /\ a1 <= t1 + b1 /\ t1 <= c1
    BY <1>1, <1>2, <1>8, <2>1, <2>2, <2>3, <2>4, <2>5 DEF c
  <2>8. a1 <= c1 + b1
    <3> HIDE DEF a1, b1, c1, t1
    <3> QED
      BY <2>7
  <2> QED
    BY <2>6, <2>8 DEF c
<1>14. (4 * Q) * f <= (3 * q + 1) * M + (52 * Q) * S
  <2> DEFINE a == (4 * Q) * f
             b == (3 * q + 1) * M + (52 * Q) * S
  <2>1. a \in Nat /\ b \in Nat /\ a * K <= b * K
    <3>1. a \in Nat
      <4>1. 4 * Q \in Nat
        BY <1>1
      <4> QED
        BY <1>2, <4>1, ProductSign
    <3>2. b \in Nat
      <4>1. 3 * q + 1 \in Nat /\ 52 * Q \in Nat
        BY <1>1
      <4>2. (3 * q + 1) * M \in Nat /\ (52 * Q) * S \in Nat
        BY <1>1, <4>1, ProductSign
      <4> QED
        BY <4>2
    <3> QED
      BY <1>13, <3>1, <3>2
  <2> HIDE DEF a, b
  <2>2. a <= b
    BY <1>1, <2>1, Cancel
  <2> QED
    BY <2>2 DEF a, b
<1> QED
  BY <1>14 DEF Q, f, F, S

(* The chord the steps start from misses less than half.                   *)
LEMMA ChordMisses ==
  ASSUME NEW N \in Nat, N >= 256, NEW X \in Nat, N <= X, X <= 4 * N,
         NEW y, y = N - (X - N) \div 6
  PROVE  y \in Nat /\ Magnitude(Miss(N, X, y)) * 2 <= N * (N * N)
<1> DEFINE k == (X - N) \div 6
           j == (X - N) % 6
           S == N * N
           M == N * S
           e == k * (N - 2 * k)
           v == 4 * N - 3 * k
           s == y * y
<1>1. k \in Int /\ j \in Int /\ 0 <= j /\ j < 6 /\ X - N = 6 * k + j
  <2>1. 6 \in Nat /\ 6 > 0 /\ X - N \in Int
    OBVIOUS
  <2> QED
    BY <2>1, Divided
<1> HIDE DEF k, j
<1>2. k \in Nat /\ 2 * k <= N /\ X = N + 6 * k + j /\ y = N - k /\ y \in Nat /\ y <= N
  <2>1. y = N - k
    BY DEF k
  <2> QED
    BY <1>1, <2>1
<1>3. S \in Nat /\ M \in Nat /\ e \in Nat /\ v \in Nat /\ s \in Nat /\ s <= S /\ M >= 256 * S
      /\ S >= 1
  <2>1. S \in Nat /\ S >= 1
    BY ProductSign
  <2>2. s <= S /\ s \in Nat
    BY <1>2, ProductBound
  <2>3. N - 2 * k \in Nat /\ v \in Nat
    BY <1>2
  <2>4. e \in Nat
    BY <1>2, <2>3, ProductSign
  <2> HIDE DEF S
  <2>5. M \in Nat /\ 256 * S <= N * S
    <3>1. 256 \in Nat /\ S <= S
      BY <2>1
    <3> QED
      BY <2>1, <3>1, ProductBound, ProductSign
  <2> QED
    BY <2>1, <2>2, <2>3, <2>4, <2>5
<1>4. X * s = M + e * v + j * s
  <2>1. X * s = (N + 6 * k) * s + j * s
    <3> HIDE DEF s
    <3> QED
      BY <1>1, <1>2, <1>3
  <2>2. (N + 6 * k) * ((N - k) * (N - k)) = M + e * v
    BY <1>1
  <2> QED
    BY <1>2, <2>1, <2>2
<1>5. e * v \in Nat /\ j * s \in Nat /\ j * s <= 5 * S
  <2>1. e * v \in Nat
    BY <1>3, ProductSign
  <2>2. j \in Nat /\ j <= 5 /\ 5 \in Nat
    BY <1>1
  <2> HIDE DEF s, S
  <2>3. j * s <= 5 * S /\ j * s \in Nat
    BY <1>3, <2>2, ProductBound
  <2> QED
    BY <2>1, <2>3
<1>6. 64 * (2 * (e * v)) <= 61 * M
  <2>1. CASE 16 * k >= N
    <3>1. 8 * e <= S
      <4>1. (N - 4 * k) * (N - 4 * k) = S - 8 * e
        BY <1>2
      <4>2. (N - 4 * k) * (N - 4 * k) >= 0
        <5> DEFINE a == N - 4 * k
        <5>1. a \in Int
          BY <1>2
        <5> HIDE DEF a
        <5>2. a * a >= 0
          BY <5>1
        <5> QED
          BY <5>2 DEF a
      <4> DEFINE b == (N - 4 * k) * (N - 4 * k)
      <4>3. b \in Int
        BY <1>2
      <4> HIDE DEF b, e, S
      <4> QED
        BY <1>3, <4>1, <4>2, <4>3 DEF b
    <3>2. 16 * v <= 61 * N
      BY <1>2, <2>1
    <3> HIDE DEF e, v, S, M
    <3>3. (8 * e) * (16 * v) <= S * (61 * N)
      <4>1. 8 * e \in Nat /\ 16 * v \in Nat /\ 61 * N \in Nat
        BY <1>3
      <4> QED
        BY <1>3, <3>1, <3>2, <4>1, ProductBound
    <3>4. (8 * e) * (16 * v) = 64 * (2 * (e * v)) /\ S * (61 * N) = 61 * M
      BY <1>3 DEF M
    <3> QED
      BY <3>3, <3>4
  <2>2. CASE 16 * k < N
    <3>1. 16 * e <= S
      <4>1. k * (N - 2 * k) <= k * N /\ (16 * k) * N <= N * N
        <5>1. N - 2 * k \in Int /\ N - 2 * k <= N /\ 16 * k \in Nat /\ 16 * k <= N /\ N <= N
          BY <1>2, <2>2
        <5> QED
          BY <1>2, <5>1, ProductOrder1, ProductBound
      <4>2. (16 * k) * N = 16 * (k * N) /\ k * N \in Nat
        BY <1>2
      <4> DEFINE a == k * N
      <4>3. e <= a /\ 16 * a <= S /\ a \in Nat
        BY <4>1, <4>2
      <4> HIDE DEF a, e, S
      <4> QED
        BY <1>3, <4>3
    <3>2. v <= 4 * N
      BY <1>2
    <3> HIDE DEF e, v, S, M
    <3>3. (16 * e) * v <= S * (4 * N)
      <4>1. 16 * e \in Nat /\ 4 * N \in Nat
        BY <1>3
      <4> QED
        BY <1>3, <3>1, <3>2, <4>1, ProductBound
    <3>4. (16 * e) * v = 16 * (e * v) /\ S * (4 * N) = 4 * M
      BY <1>3 DEF M
    <3> DEFINE a == e * v
    <3>5. 16 * a <= 4 * M /\ a \in Nat
      BY <1>5, <3>3, <3>4
    <3> HIDE DEF a
    <3> QED
      BY <1>3, <3>5 DEF a
  <2> QED
    BY <1>2, <2>1, <2>2
<1>7. Magnitude(Miss(N, X, y)) * 2 <= M
  <2> DEFINE a == e * v
             b == j * s
             c == X * s
  <2>1. a \in Nat /\ b \in Nat /\ c = M + a + b /\ 64 * (2 * a) <= 61 * M /\ b <= 5 * S
    BY <1>4, <1>5, <1>6
  <2>2. Miss(N, X, y) = M - c
    BY DEF Miss
  <2> HIDE DEF a, b, c, M, S
  <2>3. M - c \in Int /\ M - c <= 0 /\ 2 * (c - M) <= M
    BY <1>3, <2>1
  <2>4. Magnitude(M - c) * 2 <= M
    BY <1>3, <2>1, <2>3 DEF Magnitude
  <2> QED
    BY <2>2, <2>4
<1> QED
  BY <1>2, <1>7 DEF M, S

(* Within an eighth of a ten-thousandth of the cube, as three steps leave it,
   and what is left of the cube after the fourth.                            *)
Near(N, M, D) == 65536 * Magnitude(D) <= M + 851968 * (N * N)
Slight(N, M, D) ==
  /\ 1000 * Magnitude(D) <= M
  /\ (D * D) * (3 * M + D) \in Nat
  /\ (D * D) * (3 * M + D) <= 2 * ((M * M) * (N * N))

(* What the last step starts from, squared, is less than half a unit.      *)
LEMMA LittleMissed ==
  ASSUME NEW N \in Nat, N >= 16384, N <= 32768 * 32768, NEW M, M = N * (N * N),
         NEW D \in Int, Near(N, M, D)
  PROVE  Slight(N, M, D)
<1> DEFINE S == N * N
           f == Magnitude(D)
           c == N + 851968
<1>1. S \in Nat /\ M \in Nat /\ M >= 16384 * S /\ M = N * S /\ f \in Nat
  <2>1. S \in Nat
    BY ProductSign
  <2>2. M = N * S
    OBVIOUS
  <2> HIDE DEF S
  <2>3. 16384 * S <= N * S /\ N * S \in Nat
    <3>1. 16384 \in Nat /\ S <= S
      BY <2>1
    <3> QED
      BY <2>1, <3>1, ProductBound, ProductSign
  <2> QED
    BY <2>1, <2>2, <2>3, MagnitudeIs
<1>2. 1000 * f <= M
  <2>1. 65536 * f <= M + 851968 * S
    BY DEF Near
  <2> HIDE DEF f, S
  <2> QED
    BY <1>1, <2>1
<1>3. D * D = f * f /\ 3 * M + D \in Nat /\ 3 * M + D <= 4 * M
  <2>1. D * D = f * f
    BY DEF Magnitude
  <2>2. -f <= D /\ D <= f
    BY DEF Magnitude
  <2> HIDE DEF f, S
  <2> QED
    BY <1>1, <1>2, <2>1, <2>2
<1>4. 65536 * f <= S * c /\ c \in Nat
  <2>1. S * c = N * S + 851968 * S
    OBVIOUS
  <2>2. 65536 * f <= M + 851968 * S
    BY DEF Near
  <2> HIDE DEF f
  <2> QED
    BY <1>1, <2>1, <2>2
<1>5. 2 * (c * c) <= (65536 * 65536) * N
  <2>1. N * N <= 32768 * 32768 * N
    BY ProductBound
  <2>2. c * c = N * N + (2 * 851968) * N + 851968 * 851968
    OBVIOUS
  <2>3. 851968 * 851968 <= (2704 * 16384) * N
    BY SMT
  <2>4. S \in Nat /\ S <= (32768 * 32768) * N /\ c * c = S + (2 * 851968) * N + 851968 * 851968
    BY <1>1, <2>1, <2>2
  <2> HIDE DEF S, c
  <2> QED
    BY <2>3, <2>4
<1> HIDE DEF f, S
<1>6. (65536 * f) * (65536 * f) <= (S * c) * (S * c)
  <2>1. 65536 * f \in Nat /\ S * c \in Nat
    BY <1>1, <1>4
  <2> QED
    BY <1>4, <2>1, ProductBound
<1> HIDE DEF c
<1>7. 2 * (f * f) <= S * M
  <2> DEFINE a == f * f
             b == c * c
             t == S * S
  <2>1. a \in Nat /\ b \in Nat /\ t \in Nat
    BY <1>1, <1>4, ProductSign
  <2>2. (65536 * f) * (65536 * f) = (65536 * 65536) * a
    BY <1>1
  <2>3. (S * c) * (S * c) = t * b
    BY <1>1, <1>4
  <2>4. t * (2 * b) <= t * ((65536 * 65536) * N)
    <3>1. 2 * b \in Int /\ (65536 * 65536) * N \in Int /\ 2 * b <= (65536 * 65536) * N
      BY <1>5, <2>1
    <3> QED
      BY <2>1, <3>1, ProductOrder1
  <2>5. t * (2 * b) = 2 * (t * b)
    <3> HIDE DEF t, b
    <3> QED
      BY <2>1
  <2>6. t * ((65536 * 65536) * N) = (65536 * 65536) * (S * M)
    BY <1>1
  <2> DEFINE g == t * b
             h == S * M
  <2>7. (65536 * 65536) * a <= g /\ 2 * g <= (65536 * 65536) * h
    BY <1>6, <2>2, <2>3, <2>4, <2>5, <2>6
  <2>8. g \in Nat /\ h \in Nat
    BY <1>1, <2>1, ProductSign
  <2> HIDE DEF a, g, h
  <2>9. 2 * a <= h
    BY <2>1, <2>7, <2>8
  <2> QED
    BY <2>9 DEF a, h
<1>8. (f * f) * (3 * M + D) <= (f * f) * (4 * M) /\ (f * f) * (3 * M + D) \in Nat /\ f * f \in Nat
  <2>1. f * f \in Nat /\ 4 * M \in Nat
    BY <1>1, ProductSign
  <2> DEFINE a == f * f
  <2>2. a \in Nat /\ a <= a
    BY <2>1
  <2> HIDE DEF a
  <2>3. a * (3 * M + D) <= a * (4 * M) /\ a * (3 * M + D) \in Nat
    BY <1>3, <2>1, <2>2, ProductBound, ProductSign
  <2> QED
    BY <2>1, <2>3 DEF a
<1>9. (f * f) * (4 * M) <= 2 * ((M * M) * S)
  <2> DEFINE a == f * f
             b == S * M
  <2>1. a \in Nat /\ b \in Nat /\ 2 * a <= b
    BY <1>1, <1>7, <1>8
  <2>2. b * (2 * M) = 2 * ((M * M) * S)
    BY <1>1
  <2> HIDE DEF a, b
  <2>3. (2 * a) * (2 * M) <= b * (2 * M)
    <3>1. 2 * a \in Nat /\ 2 * M \in Nat /\ 2 * M <= 2 * M
      BY <1>1, <2>1
    <3> QED
      BY <2>1, <3>1, ProductBound
  <2>4. (2 * a) * (2 * M) = a * (4 * M)
    BY <1>1, <2>1
  <2> QED
    BY <2>2, <2>3, <2>4 DEF a
<1> DEFINE p == (f * f) * (3 * M + D)
           q == (f * f) * (4 * M)
           t == 2 * ((M * M) * S)
<1>10. p \in Nat /\ q \in Nat /\ t \in Nat /\ p <= q /\ q <= t
  <2>1. q \in Nat /\ t \in Nat
    <3>1. 4 * M \in Nat /\ M * M \in Nat
      BY <1>1, ProductSign
    <3>2. (M * M) * S \in Nat
      BY <1>1, <3>1, ProductSign
    <3> QED
      BY <1>8, <3>1, <3>2, ProductSign
  <2> QED
    BY <1>8, <1>9, <2>1
<1>11. p <= t
  <2> HIDE DEF p, q, t
  <2> QED
    BY <1>10
<1> QED
  BY <1>2, <1>3, <1>10, <1>11 DEF f, S, Slight

(* The last step ends within two units of the root.                        *)
LEMMA LastStep ==
  ASSUME NEW n \in Nat, NEW N \in Nat, N = 2 * n, N >= 16384, N <= 32768 * 32768,
         NEW X \in Nat, N <= X, X <= 4 * N - 2, NEW M, M = N * (N * N),
         NEW y \in Nat, Near(N, M, Miss(N, X, y)),
         NEW w \in Nat, w = Step(N, X, y)
  PROVE  /\ N <= 2 * w /\ w <= 2 * N - 2
         /\ X * ((w - 2) * (w - 2)) <= M
         /\ M <= X * ((w + 2) * (w + 2))
<1> DEFINE S == N * N
           D == Miss(N, X, y)
           P == X * (y * y)
           v == 2 * M + D
           u == y * v
           K == M * M
           T == (D * D) * (3 * M + D)
<1>1. S \in Nat /\ S >= 1 /\ M \in Nat /\ M >= 16384 * S /\ M = N * S /\ K \in Nat /\ K >= 1 /\ P \in Nat
  <2>1. S \in Nat /\ S >= 1 /\ M = N * S /\ y * y \in Nat
    BY ProductSign
  <2> HIDE DEF S
  <2>2. 16384 * S <= N * S /\ N * S \in Nat
    <3>1. 16384 \in Nat /\ S <= S
      BY <2>1
    <3> QED
      BY <2>1, <3>1, ProductBound, ProductSign
  <2>3. M \in Nat /\ M >= 1
    BY <2>1, <2>2
  <2> QED
    BY <2>1, <2>2, <2>3, ProductSign
<1>2. D = M - P /\ D \in Int
  <2>1. D = M - P
    BY DEF Miss
  <2> HIDE DEF D, P
  <2> QED
    BY <1>1, <2>1
<1>3. 1000 * Magnitude(D) <= M /\ T \in Nat /\ T <= 2 * (K * S)
  <2>1. Near(N, M, D)
    OBVIOUS
  <2>2. M = N * (N * N)
    OBVIOUS
  <2> HIDE DEF D
  <2>3. Slight(N, M, D)
    BY <1>2, <2>1, <2>2, LittleMissed
  <2> QED
    BY <2>3 DEF Slight
<1>4. 2 * P <= 3 * M /\ v \in Nat
  <2>1. -D <= Magnitude(D)
    BY <1>2 DEF Magnitude
  <2>2. Magnitude(D) \in Nat
    BY <1>2, MagnitudeIs
  <2> HIDE DEF D, P
  <2> QED
    BY <1>1, <1>2, <1>3, <2>1, <2>2
<1>5. PICK g \in Int : (2 * M) * w = u + g /\ -(2 * M) < g /\ g <= 4 * M
  <2>1. 2 * (X * (y * y)) <= 3 * (N * (N * N)) /\ N >= 1 /\ w \in Int /\ X <= 4 * N
    BY <1>4
  <2> QED
    BY <2>1, NewtonIs
<1>6. X * (u * u) = 4 * (K * M) - T
  <2>1. X * (u * u) = P * (v * v)
    <3> DEFINE h == v
    <3>1. h \in Int
      BY <1>4
    <3> HIDE DEF h
    <3>2. X * ((y * h) * (y * h)) = (X * (y * y)) * (h * h)
      BY <3>1
    <3> QED
      BY <3>2 DEF h
  <2>2. P = M - D
    <3> HIDE DEF P, D
    <3> QED
      BY <1>1, <1>2
  <2> HIDE DEF P, D
  <2>3. (M - D) * ((2 * M + D) * (2 * M + D)) = 4 * ((M * M) * M) - (D * D) * (3 * M + D)
    BY <1>1, <1>2
  <2> QED
    BY <2>1, <2>2, <2>3
<1>7. u \in Nat
  BY <1>4, ProductSign
<1> HIDE DEF T, D, P, v, u, S, K
<1>8. N <= 2 * w
  <2> SUFFICES ASSUME 2 * w < N PROVE FALSE
    OBVIOUS
  <2> DEFINE a == 2 * (w + 1)
             b == M * a
  <2>1. a \in Nat /\ a <= N
    OBVIOUS
  <2>2. X * (a * a) <= 4 * M - 2 * S
    <3>1. X * (a * a) <= (4 * N - 2) * (N * N)
      <4>1. a * a <= N * N /\ a * a \in Nat /\ N * N \in Nat /\ 4 * N - 2 \in Nat
        <5> HIDE DEF a
        <5> QED
          BY <2>1, ProductBound
      <4> HIDE DEF a
      <4> QED
        BY <4>1, ProductBound
    <3>2. (4 * N - 2) * (N * N) = 4 * M - 2 * S
      BY DEF S
    <3> QED
      BY <3>1, <3>2
  <2>3. b \in Nat /\ b >= u + 1
    <3>1. b = (2 * M) * w + 2 * M
      BY <1>1
    <3> DEFINE c == (2 * M) * w
    <3>2. c \in Int /\ c = u + g
      BY <1>1, <1>5
    <3>3. b = c + 2 * M
      BY <3>1
    <3> HIDE DEF b, c
    <3>4. b >= u + 1 /\ b \in Int
      BY <1>1, <1>5, <1>7, <3>2, <3>3
    <3> QED
      BY <1>7, <3>4
  <2>4. X * (b * b) <= K * (4 * M - 2 * S)
    <3>1. X * (b * b) = K * (X * (a * a))
      <4> HIDE DEF a
      <4> QED
        BY <1>1, <2>1 DEF K
    <3>2. X * (a * a) \in Int /\ 4 * M - 2 * S \in Int
      BY <1>1
    <3> QED
      BY <1>1, <2>2, <3>1, <3>2, ProductOrder1
  <2> HIDE DEF a, b
  <2>5. X * (u * u) + X <= X * (b * b)
    <3>1. (u + 1) * (u + 1) <= b * b
      <4>1. u + 1 \in Nat
        BY <1>7
      <4> QED
        BY <2>3, <4>1, ProductBound
    <3>2. u * u + 1 <= b * b
      <4>1. (u + 1) * (u + 1) = u * u + 2 * u + 1
        BY <1>7
      <4> DEFINE c == u * u
                 d == b * b
      <4>2. c \in Nat /\ d \in Nat /\ c + 2 * u + 1 <= d
        BY <1>7, <2>3, <3>1, <4>1
      <4> HIDE DEF c, d
      <4>3. c + 1 <= d
        BY <1>7, <4>2
      <4> QED
        BY <4>3 DEF c, d
    <3>3. X * (u * u + 1) <= X * (b * b)
      <4>1. u * u + 1 \in Int /\ b * b \in Int
        BY <1>7, <2>3
      <4> QED
        BY <3>2, <4>1, ProductOrder1
    <3>4. X * (u * u + 1) = X * (u * u) + X
      BY <1>7
    <3> QED
      BY <3>3, <3>4
  <2> DEFINE c == X * (u * u)
             d == X * (b * b)
             h == K * M
             i == K * S
  <2>6. K * (4 * M - 2 * S) = 4 * h - 2 * i
    BY <1>1
  <2>7. c + X <= d /\ d <= 4 * h - 2 * i /\ c = 4 * h - T /\ T <= 2 * i
    BY <1>3, <1>6, <2>4, <2>5, <2>6 DEF S, K
  <2>8. c \in Int /\ d \in Int /\ h \in Int /\ i \in Int /\ T \in Int
    <3>1. u * u \in Int /\ b * b \in Int
      BY <1>7, <2>3
    <3> QED
      BY <1>1, <1>3, <3>1 DEF T, D, K, S
  <2> HIDE DEF c, d, h, i
  <2> QED
    BY <2>7, <2>8
<1>9. X * ((w - 2) * (w - 2)) <= M
  <2> DEFINE a == 2 * (w - 2)
             b == M * a
  <2>1. w - 2 \in Nat /\ a \in Nat
    BY <1>8
  <2>2. b \in Nat /\ b <= u
    <3>1. b = (2 * M) * w - 4 * M
      BY <1>1
    <3> DEFINE c == (2 * M) * w
    <3>2. c \in Int /\ c = u + g
      BY <1>1, <1>5
    <3>3. b \in Nat
      BY <1>1, <2>1, ProductSign
    <3> HIDE DEF b, c
    <3> QED
      BY <1>1, <1>5, <1>7, <3>1, <3>2, <3>3 DEF c
  <2>3. X * (b * b) <= X * (u * u)
    <3> HIDE DEF b
    <3>1. b * b <= u * u /\ b * b \in Int /\ u * u \in Int
      BY <1>7, <2>2, ProductBound
    <3> QED
      BY <3>1, ProductOrder1
  <2>4. X * (b * b) = K * (4 * (X * ((w - 2) * (w - 2))))
    BY <1>1 DEF K
  <2> DEFINE c == X * ((w - 2) * (w - 2))
             h == K * (4 * c)
             i == K * M
  <2>5. c \in Nat /\ i \in Nat
    <3>1. (w - 2) * (w - 2) \in Nat
      BY <2>1, ProductSign
    <3> QED
      BY <1>1, <3>1, ProductSign
  <2>6. h <= 4 * i - T
    BY <1>6, <2>3, <2>4
  <2>7. (4 * c) * K <= (4 * M) * K
    <3>1. h \in Int /\ T \in Nat /\ (4 * c) * K = h /\ (4 * M) * K = 4 * i
      <4> HIDE DEF c
      <4> QED
        BY <1>1, <1>3, <2>5 DEF T, D
    <3> HIDE DEF h, i, c
    <3> QED
      BY <2>5, <2>6, <3>1
  <2>8. 4 * c <= 4 * M
    <3>1. 4 * c \in Nat /\ 4 * M \in Nat
      BY <1>1, <2>5
    <3> HIDE DEF c
    <3> QED
      BY <1>1, <2>7, <3>1, Cancel
  <2> HIDE DEF c
  <2>9. c <= M
    BY <1>1, <2>5, <2>8
  <2> QED
    BY <2>9 DEF c
<1>10. M <= X * ((w + 2) * (w + 2))
  <2> DEFINE a == 2 * (w + 1)
             b == M * a
             c == X * ((w + 1) * (w + 1))
  <2>1. b \in Nat /\ u <= b
    <3>1. b = (2 * M) * w + 2 * M
      BY <1>1
    <3> DEFINE d == (2 * M) * w
    <3>2. d \in Int /\ d = u + g
      BY <1>1, <1>5
    <3>3. b \in Int
      BY <1>1
    <3> HIDE DEF b, d
    <3> QED
      BY <1>1, <1>5, <1>7, <3>1, <3>2, <3>3 DEF d
  <2>2. X * (u * u) <= X * (b * b)
    <3> HIDE DEF b
    <3>1. u * u <= b * b /\ b * b \in Int /\ u * u \in Int
      BY <1>7, <2>1, ProductBound
    <3> QED
      BY <3>1, ProductOrder1
  <2>3. X * (b * b) = K * (4 * c)
    BY <1>1 DEF K
  <2>4. c \in Nat
    <3>1. (w + 1) * (w + 1) \in Nat
      BY ProductSign
    <3> QED
      BY <3>1, ProductSign
  <2> DEFINE h == K * (4 * c)
             i == K * M
             j == K * S
  <2>5. 4 * i - T <= h /\ T <= 2 * j /\ T \in Nat /\ i \in Nat /\ j \in Nat
    <3>1. T <= 2 * j /\ T \in Nat
      BY <1>3 DEF T, D, K, S
    <3> QED
      BY <1>1, <1>6, <2>2, <2>3, <3>1, ProductSign
  <2>6. (4 * M) * K <= (4 * c + 2 * S) * K
    <3>1. (4 * M) * K = 4 * i /\ (4 * c + 2 * S) * K = h + 2 * j /\ h \in Int
      <4> HIDE DEF c
      <4> QED
        BY <1>1, <2>4
    <3> HIDE DEF h, i, j, c
    <3> QED
      BY <2>5, <3>1
  <2>7. 4 * M <= 4 * c + 2 * S
    <3>1. 4 * M \in Nat /\ 4 * c + 2 * S \in Nat
      BY <1>1, <2>4
    <3> HIDE DEF c
    <3> QED
      BY <1>1, <2>6, <3>1, Cancel
  <2>8. X * ((w + 2) * (w + 2)) = c + X * (2 * w + 3)
    OBVIOUS
  <2>9. S <= X * (2 * w + 3)
    <3>1. 2 * w + 3 \in Nat /\ N <= 2 * w + 3
      BY <1>8
    <3> QED
      BY <3>1, ProductBound DEF S
  <2> DEFINE d == X * (2 * w + 3)
             e == X * ((w + 2) * (w + 2))
  <2>10. d \in Int /\ e = c + d /\ S <= d
    BY <2>8, <2>9
  <2> HIDE DEF c, d, e
  <2>11. M <= e
    BY <1>1, <2>4, <2>7, <2>10
  <2> QED
    BY <2>11 DEF e
<1>11. w <= 2 * N - 2
  <2> SUFFICES ASSUME w > 2 * N - 2 PROVE FALSE
    OBVIOUS
  <2> DEFINE a == w - 2
  <2>1. a \in Nat /\ N + 1 \in Nat /\ N + 1 <= a
    OBVIOUS
  <2> HIDE DEF a
  <2>2. (N + 1) * (N + 1) <= a * a /\ (N + 1) * (N + 1) \in Nat /\ a * a \in Nat
    BY <2>1, ProductBound, ProductSign
  <2>3. N * ((N + 1) * (N + 1)) <= X * (a * a)
    BY <2>2, ProductBound
  <2>4. N * ((N + 1) * (N + 1)) = M + 2 * S + N
    BY DEF S
  <2> DEFINE b == X * (a * a)
  <2>5. b <= M /\ b \in Int
    BY <1>9, <2>2 DEF a
  <2> HIDE DEF b
  <2>6. M + 2 * S + N <= b
    BY <2>3, <2>4 DEF b
  <2> QED
    BY <1>1, <2>5, <2>6
<1> QED
  BY <1>8, <1>9, <1>10, <1>11

(* A step as the code takes it, every product cut to a word of Z values.   *)
WordStep(N, X, Z, y) ==
  LET xy2 == ((X * (((y * y) \div N) % Z)) \div N) % Z
  IN ((y * ((3 * N - xy2) % Z)) \div (2 * N)) % Z

(* No word of a step loses anything while x y^2 is at most half as much    *)
(* again as the cube.                                                      *)
LEMMA StepInWords ==
  ASSUME NEW N \in Nat, N >= 1, NEW X \in Nat, N <= X, X <= 4 * N, NEW y \in Nat,
         2 * (X * (y * y)) <= 3 * (N * (N * N)), NEW Z, Z = 4 * N
  PROVE  Step(N, X, y) \in Nat /\ WordStep(N, X, Z, y) = Step(N, X, y)
<1> DEFINE S == N * N
           k == y * y
           a == k \div N
           e == X * a
           b == e \div N
           c == 3 * N - b
           f == y * c
           d == f \div (2 * N)
<1>1. 2 * y < 3 * N /\ S \in Nat /\ S >= 1 /\ k \in Nat /\ Z \in Nat /\ Z > 0
  <2>1. 2 * y < 3 * N
    BY NotFarOut
  <2> QED
    BY <2>1, ProductSign
<1>2. a \in Nat /\ N * a <= k /\ a < Z
  <2>1. 4 * k <= 9 * S
    <3>1. (2 * y) * (2 * y) <= (3 * N) * (3 * N)
      <4>1. 2 * y \in Nat /\ 3 * N \in Nat /\ 2 * y <= 3 * N
        BY <1>1
      <4> QED
        BY <4>1, ProductBound
    <3> QED
      BY <3>1
  <2>2. N * (4 * N) = 4 * S
    OBVIOUS
  <2> DEFINE t == 4 * N
  <2>3. k < N * t
    <3> HIDE DEF k, S
    <3> QED
      BY <1>1, <2>1, <2>2
  <2>4. t \in Int /\ N * 0 <= k /\ 0 \in Int
    BY <1>1
  <2> HIDE DEF k, t
  <2>5. k \div N < t /\ 0 <= k \div N
    BY <1>1, <2>3, <2>4, QuotientOrder
  <2>6. k \div N \in Int /\ k % N \in Int /\ 0 <= k % N /\ k = N * (k \div N) + (k % N)
    BY <1>1, Divided
  <2> QED
    BY <2>5, <2>6 DEF t
<1>3. e \in Nat /\ 2 * e <= 3 * S
  <2> DEFINE g == N * a
             h == X * k
  <2>1. X * g <= h /\ X * g \in Nat /\ g \in Nat
    <3>1. g \in Nat
      <4> HIDE DEF a
      <4> QED
        BY <1>2, ProductSign
    <3> HIDE DEF k, g
    <3>2. g <= k
      BY <1>2 DEF g
    <3> QED
      BY <1>1, <3>1, <3>2, ProductBound
  <2>2. 2 * h <= 3 * (N * S)
    OBVIOUS
  <2>3. X * g = e * N /\ e \in Nat
    <3> HIDE DEF a
    <3> QED
      BY <1>2, ProductSign
  <2>4. (2 * e) * N <= (3 * S) * N
    <3>1. (2 * e) * N = 2 * (e * N) /\ (3 * S) * N = 3 * (N * S)
      <4> HIDE DEF e, S
      <4> QED
        BY <1>1, <2>3
    <3> DEFINE i == e * N
               j == N * S
    <3>2. i <= h /\ 2 * h <= 3 * j
      BY <2>1, <2>2, <2>3
    <3>3. i \in Int /\ h \in Int /\ j \in Int
      BY <1>1, <2>3
    <3> HIDE DEF i, j, h
    <3>4. 2 * i <= 3 * j
      BY <3>2, <3>3
    <3> QED
      BY <3>1, <3>4 DEF i, j
  <2>5. 2 * e \in Nat /\ 3 * S \in Nat
    BY <1>1, <2>3
  <2> HIDE DEF e, S
  <2> QED
    BY <2>3, <2>4, <2>5, Cancel
<1>4. b \in Nat /\ 2 * b <= 3 * N /\ b < Z
  <2> HIDE DEF e
  <2>1. e \div N \in Int /\ e % N \in Int /\ 0 <= e % N /\ e = N * (e \div N) + (e % N)
    BY <1>3, Divided
  <2>2. N * 0 <= e /\ 0 \in Int
    BY <1>3
  <2>3. 0 <= e \div N
    BY <1>3, <2>2, QuotientOrder
  <2>4. b \in Nat
    BY <2>1, <2>3
  <2>5. N * b <= e
    BY <2>1
  <2> HIDE DEF b
  <2>6. (2 * b) * N <= (3 * N) * N
    <3> DEFINE g == N * b
    <3>1. (2 * b) * N = 2 * g /\ (3 * N) * N = 3 * S /\ g \in Int /\ g <= e
      BY <2>4, <2>5
    <3> HIDE DEF g, S
    <3> QED
      BY <1>1, <1>3, <3>1
  <2>7. 2 * b \in Nat /\ 3 * N \in Nat
    BY <2>4
  <2>8. 2 * b <= 3 * N
    BY <2>6, <2>7, Cancel
  <2> QED
    BY <2>4, <2>8
<1>5. c \in Nat /\ c < Z /\ c <= 3 * N
  <2> HIDE DEF b
  <2> QED
    BY <1>4
<1>6. f \in Nat /\ d \in Nat /\ d < Z
  <2> HIDE DEF c
  <2>1. f \in Nat /\ f <= y * (3 * N)
    <3>1. 3 * N \in Nat /\ y <= y
      OBVIOUS
    <3> QED
      BY <1>5, <3>1, ProductBound
  <2>2. (2 * y) * (3 * N) <= (3 * N) * (3 * N)
    <3>1. 2 * y \in Nat /\ 3 * N \in Nat /\ 2 * y <= 3 * N
      BY <1>1
    <3> QED
      BY <3>1, ProductBound
  <2>3. 2 * (y * (3 * N)) <= 9 * S
    BY <2>2
  <2>4. (2 * N) * (4 * N) = 8 * S
    OBVIOUS
  <2> DEFINE t == 4 * N
             j == 2 * N
             i == y * (3 * N)
  <2>5. i \in Nat /\ t \in Int /\ j \in Nat /\ j > 0 /\ f <= i /\ 2 * i <= 9 * S /\ j * t = 8 * S
    BY <2>1, <2>3, <2>4
  <2>6. d = f \div j /\ Z = t
    OBVIOUS
  <2> HIDE DEF f, S, t, j, i, d
  <2>7. f < j * t /\ j * 0 <= f /\ 0 \in Int
    BY <1>1, <2>1, <2>5
  <2>8. f \div j < t /\ 0 <= f \div j
    BY <2>1, <2>5, <2>7, QuotientOrder
  <2>9. f \div j \in Int
    BY <2>1, <2>5, Divided
  <2> QED
    BY <2>1, <2>6, <2>8, <2>9
<1>7. Step(N, X, y) = d
  BY DEF Step
<1>8. WordStep(N, X, Z, y) = ((y * ((3 * N - (((X * (a % Z)) \div N) % Z)) % Z)) \div (2 * N)) % Z
  BY DEF WordStep
<1>9. a % Z = a
  <2> HIDE DEF a
  <2> QED
    BY <1>1, <1>2, SmallRemainder
<1>10. b % Z = b
  <2> HIDE DEF b
  <2> QED
    BY <1>1, <1>4, SmallRemainder
<1>11. c % Z = c
  <2> HIDE DEF c
  <2> QED
    BY <1>1, <1>5, SmallRemainder
<1>12. d % Z = d
  <2> HIDE DEF d
  <2> QED
    BY <1>1, <1>6, SmallRemainder
<1>13. WordStep(N, X, Z, y) = d
  <2>1. WordStep(N, X, Z, y) = ((y * ((3 * N - (b % Z)) % Z)) \div (2 * N)) % Z
    <3> HIDE DEF a
    <3> QED
      BY <1>8, <1>9 DEF a
  <2>2. WordStep(N, X, Z, y) = ((y * (c % Z)) \div (2 * N)) % Z
    <3>1. 3 * N - (b % Z) = c
      BY <1>10
    <3> QED
      BY <2>1, <3>1, Zenon
  <2>3. WordStep(N, X, Z, y) = d % Z
    <3> HIDE DEF c
    <3> QED
      BY <1>11, <2>2
  <2> QED
    BY <1>12, <2>3
<1> QED
  BY <1>6, <1>7, <1>13

(* The five steps of xf_rsqrt from its chord.                              *)
RootSteps(f, N, X, Z) ==
  f[0] = N - (X - N) \div 6 /\ \A i \in 1..5 : f[i] = WordStep(N, X, Z, f[i-1])

(* xf_rsqrt is five such steps and a normalisation.                        *)
LEMMA RsqrtSteps ==
  ASSUME NEW m \in Nat, NEW sh \in 0..1
  PROVE  LET odd == (W - 2 - sh) % 2
             X   == (m * 2^odd) % 2^W
             E   == W - 2 - sh - odd
         IN \E f : /\ RootSteps(f, 2^(W-2), X, 2^W)
                   /\ xf_rsqrt(Xf(m, sh)) = xf_norm(f[5], W - 2 + E \div 2)
<1> DEFINE odd == (W - 2 - sh) % 2
           X   == (m * 2^odd) % 2^W
           E   == W - 2 - sh - odd
           one == 2^(W-2)
           newton(t) == LET xy2 == ((X * (((t * t) \div one) % 2^W)) \div one) % 2^W
                        IN ((t * ((3 * one - xy2) % 2^W)) \div (2 * one)) % 2^W
           y[i \in 0..5] == IF i = 0 THEN one - (X - one) \div 6 ELSE newton(y[i-1])
           Z == 2^W
           b == one - (X - one) \div 6
           step == [p \in (1..5) \X Int |-> WordStep(one, X, Z, p[2])]
<1>1. one \in Nat /\ one > 0 /\ Z \in Nat /\ Z > 0
  BY Operands, WordSize
<1>2. X \in Int
  <2>1. (W - 2 - sh) % 2 \in 0..1
    BY Sizes
  <2>2. 2^0 = 1 /\ 2^1 = 2
    OBVIOUS
  <2>3. m * 2^odd \in Int
    BY <2>1, <2>2
  <2> QED
    BY <1>1, <2>3, Divided
<1> HIDE DEF one, Z, X
<1>3. b \in Int
  <2>1. X - one \in Int /\ 6 \in Nat /\ 6 > 0
    BY <1>1, <1>2
  <2>2. (X - one) \div 6 \in Int
    BY <2>1, Divided
  <2> QED
    BY <1>1, <2>2
<1>4. \A t \in Int : WordStep(one, X, Z, t) \in Int
  <2> SUFFICES ASSUME NEW t \in Int PROVE WordStep(one, X, Z, t) \in Int
    OBVIOUS
  <2> DEFINE c == ((t * t) \div one) % Z
             e == ((X * c) \div one) % Z
             g == (3 * one - e) % Z
             h == (t * g) \div (2 * one)
  <2>1. c \in Int
    <3>1. t * t \in Int
      OBVIOUS
    <3>2. (t * t) \div one \in Int
      BY <1>1, <3>1, Divided
    <3> QED
      BY <1>1, <3>2, Divided
  <2>2. e \in Int
    <3> HIDE DEF c
    <3>1. X * c \in Int
      BY <1>2, <2>1
    <3>2. (X * c) \div one \in Int
      BY <1>1, <3>1, Divided
    <3> QED
      BY <1>1, <3>2, Divided
  <2>3. g \in Int
    <3> HIDE DEF e
    <3>1. 3 * one - e \in Int
      BY <1>1, <2>2
    <3> QED
      BY <1>1, <3>1, Divided
  <2>4. h \in Int
    <3> HIDE DEF g
    <3> DEFINE d == 2 * one
    <3>1. t * g \in Int /\ d \in Nat /\ d > 0
      BY <1>1, <2>3
    <3> HIDE DEF d
    <3>2. (t * g) \div d \in Int
      BY <3>1, Divided
    <3> QED
      BY <3>2 DEF d
  <2>5. WordStep(one, X, Z, t) = h % Z
    BY DEF WordStep
  <2> HIDE DEF h
  <2> QED
    BY <1>1, <2>4, <2>5, Divided
<1>5. step \in [(1..5) \X Int -> Int]
  BY <1>4
<1> HIDE DEF b
<1>6. 5 \in Nat
  OBVIOUS
<1>7. PICK f \in [0..5 -> Int] : StepsBy(f, 5, b, step)
  BY <1>3, <1>5, <1>6, Recursion
<1>8. ASSUME NEW i \in 1..5 PROVE f[i] = WordStep(one, X, Z, f[i-1])
  <2>1. i - 1 \in 0..5 /\ <<i, f[i-1]>> \in (1..5) \X Int
    OBVIOUS
  <2>2. step[<<i, f[i-1]>>] = WordStep(one, X, Z, f[i-1])
    BY <2>1
  <2> HIDE DEF step
  <2> QED
    BY <1>7, <2>2 DEF StepsBy
<1> HIDE DEF step
<1>9. f[0] = b
  BY <1>7 DEF StepsBy
<1>10. \E g : g = [i \in 0..5 |-> IF i = 0 THEN one - (X - one) \div 6 ELSE newton(g[i-1])]
  <2>1. \A i \in 0..5 : f[i] = IF i = 0 THEN b ELSE WordStep(one, X, Z, f[i-1])
    BY <1>8, <1>9
  <2>2. f = [i \in 0..5 |-> IF i = 0 THEN b ELSE WordStep(one, X, Z, f[i-1])]
    BY <2>1
  <2> QED
    BY <2>2, Zenon DEF WordStep, b, Z
<1>11. y = [i \in 0..5 |-> IF i = 0 THEN one - (X - one) \div 6 ELSE newton(y[i-1])]
  BY <1>10, Zenon
<1>12. xf_rsqrt(Xf(m, sh)) = xf_norm(y[5], W - 2 + E \div 2)
  <2> DEFINE a == Xf(m, sh)
  <2>1. a.m = m /\ a.sh = sh
    BY DEF Xf
  <2> HIDE DEF a
  <2>2. xf_rsqrt(a) = xf_norm(y[5], W - 2 + E \div 2)
    BY <2>1, ZenonT(60) DEF xf_rsqrt, X, one
  <2> QED
    BY <2>2 DEF a
<1> HIDE DEF y
<1>13. y[0] = b
  <2>1. y[0] = one - (X - one) \div 6
    <3>1. 0 \in 0..5
      OBVIOUS
    <3> QED
      BY <1>11, <3>1, Zenon
  <2> QED
    BY <2>1 DEF b
<1>14. ASSUME NEW i \in 1..5 PROVE y[i] = WordStep(one, X, Z, y[i-1])
  <2>1. i \in 0..5 /\ i # 0
    OBVIOUS
  <2>2. y[i] = newton(y[i-1])
    BY <1>11, <2>1, Zenon
  <2> QED
    BY <2>2, Zenon DEF WordStep, Z
<1>15. RootSteps(y, one, X, Z)
  BY <1>13, <1>14 DEF RootSteps, b
<1> QED
  BY <1>12, <1>15, Zenon DEF one, Z, X

(* What a Newton step leaves of an error of at most a q-th.                 *)
Refined(N, X, y, M, q, w) ==
  /\ w \in Nat /\ w = Step(N, X, y)
  /\ (4 * (q * (q * q))) * Magnitude(Miss(N, X, w))
     <= (3 * q + 1) * M + (52 * (q * (q * q))) * (N * N)

(* While the error is at most half, the code's step is a Newton step.      *)
LEMMA OneStep ==
  ASSUME NEW N \in Nat, N >= 16384, NEW X \in Nat, N <= X, X <= 4 * N,
         NEW y \in Nat, NEW M, M = N * (N * N), NEW q \in Nat, q >= 2,
         Magnitude(Miss(N, X, y)) * q <= M,
         NEW Z, Z = 4 * N
  PROVE  Refined(N, X, y, M, q, WordStep(N, X, Z, y))
<1> DEFINE D == Miss(N, X, y)
           P == X * (y * y)
           f == Magnitude(D)
           w == WordStep(N, X, Z, y)
<1>1. D = M - P /\ M \in Nat /\ P \in Nat
  <2>1. y * y \in Nat /\ N * N \in Nat
    BY ProductSign
  <2>2. P \in Nat /\ N * (N * N) \in Nat
    <3> DEFINE a == y * y
               b == N * N
    <3>1. a \in Nat /\ b \in Nat
      BY <2>1
    <3> HIDE DEF a, b
    <3>2. X * a \in Nat /\ N * b \in Nat
      BY <3>1, ProductSign
    <3> QED
      BY <3>2 DEF a, b
  <2> QED
    BY <2>2 DEF Miss
<1>2. f \in Nat /\ -D <= f
  <2> HIDE DEF D
  <2>1. D \in Int
    <3> HIDE DEF P
    <3> QED
      BY <1>1
  <2> QED
    BY <2>1 DEF Magnitude
<1>3. f * 2 <= M
  <2>1. f * q <= M
    OBVIOUS
  <2> HIDE DEF f
  <2>2. f * 2 <= f * q
    BY <1>2, ProductBound
  <2> QED
    BY <1>1, <1>2, <2>1, <2>2
<1>4. 2 * P <= 3 * M
  <2> HIDE DEF D, P, f
  <2> QED
    BY <1>1, <1>2, <1>3
<1>5. w \in Nat /\ w = Step(N, X, y)
  <2>1. 2 * (X * (y * y)) <= 3 * (N * (N * N)) /\ N >= 1
    BY <1>4
  <2> QED
    BY <2>1, StepInWords
<1> HIDE DEF w
<1>6. (4 * (q * (q * q))) * Magnitude(Miss(N, X, w))
      <= (3 * q + 1) * M + (52 * (q * (q * q))) * (N * N)
  <2>1. N >= 32
    OBVIOUS
  <2> QED
    BY <1>5, <2>1, NewtonError
<1> QED
  BY <1>5, <1>6 DEF w, Refined

(* Four steps from the chord leave less than two units, and the fifth is   *)
(* within two of the root.                                                 *)
LEMMA RootReached ==
  ASSUME NEW n \in Nat, NEW N \in Nat, N = 2 * n, N >= 16384, N <= 32768 * 32768,
         NEW X \in Nat, N <= X, X <= 4 * N - 2, NEW M, M = N * (N * N),
         NEW Z, Z = 4 * N, NEW f, RootSteps(f, N, X, Z)
  PROVE  /\ f[5] \in Nat /\ N <= 2 * f[5] /\ f[5] <= 2 * N - 2
         /\ X * ((f[5] - 2) * (f[5] - 2)) <= M
         /\ M <= X * ((f[5] + 2) * (f[5] + 2))
<1> DEFINE S == N * N
           g(y) == Magnitude(Miss(N, X, y))
           b == N - (X - N) \div 6
<1>1. S \in Nat /\ M \in Nat /\ M >= 16384 * S /\ X <= 4 * N
  <2>1. S \in Nat
    BY ProductSign
  <2>2. M = N * S
    OBVIOUS
  <2> HIDE DEF S
  <2>3. 16384 * S <= N * S /\ N * S \in Nat
    <3>1. 16384 \in Nat /\ S <= S
      BY <2>1
    <3> QED
      BY <2>1, <3>1, ProductBound, ProductSign
  <2> QED
    BY <2>1, <2>2, <2>3
<1>2. \A y \in Nat : g(y) \in Nat
  <2> SUFFICES ASSUME NEW y \in Nat PROVE g(y) \in Nat
    OBVIOUS
  <2>1. Miss(N, X, y) \in Int
    BY DEF Miss
  <2> QED
    BY <2>1, MagnitudeIs
<1>3. ASSUME NEW q \in Nat, q >= 2, NEW y \in Nat, g(y) * q <= M,
             NEW w, w = WordStep(N, X, Z, y)
      PROVE  /\ w \in Nat /\ w = Step(N, X, y)
             /\ (4 * (q * (q * q))) * g(w) <= (3 * q + 1) * M + (52 * (q * (q * q))) * S
  <2>1. Magnitude(Miss(N, X, y)) * q <= M
    BY <1>3
  <2>2. Refined(N, X, y, M, q, WordStep(N, X, Z, y))
    BY <1>1, <1>3, <2>1, OneStep
  <2> QED
    BY <1>3, <2>2 DEF Refined
<1>4. f[0] \in Nat /\ g(f[0]) * 2 <= M
  <2>1. b \in Nat /\ Magnitude(Miss(N, X, b)) * 2 <= N * (N * N)
    <3>1. N >= 256
      OBVIOUS
    <3> QED
      BY <1>1, <3>1, ChordMisses
  <2>2. f[0] = b
    BY DEF RootSteps
  <2> HIDE DEF b
  <2> QED
    BY <2>1, <2>2
<1>5. /\ f[1] = WordStep(N, X, Z, f[0]) /\ f[2] = WordStep(N, X, Z, f[1])
      /\ f[3] = WordStep(N, X, Z, f[2]) /\ f[4] = WordStep(N, X, Z, f[3])
      /\ f[5] = WordStep(N, X, Z, f[4])
  <2>1. /\ 1 \in 1..5 /\ 2 \in 1..5 /\ 3 \in 1..5 /\ 4 \in 1..5 /\ 5 \in 1..5
        /\ 1 - 1 = 0 /\ 2 - 1 = 1 /\ 3 - 1 = 2 /\ 4 - 1 = 3 /\ 5 - 1 = 4
    OBVIOUS
  <2>2. \A i \in 1..5 : f[i] = WordStep(N, X, Z, f[i-1])
    BY DEF RootSteps
  <2> QED
    BY <2>1, <2>2
<1> HIDE DEF g, S
<1>6. f[1] \in Nat /\ g(f[1]) * 4 <= M
  <2>1. 2 \in Nat /\ 2 >= 2
    OBVIOUS
  <2>2. f[1] \in Nat /\ (4 * (2 * (2 * 2))) * g(f[1]) <= (3 * 2 + 1) * M + (52 * (2 * (2 * 2))) * S
    BY <1>3, <1>4, <1>5, <2>1
  <2>3. g(f[1]) \in Nat
    BY <1>2, <2>2
  <2> QED
    BY <1>1, <2>2, <2>3
<1>7. f[2] \in Nat /\ g(f[2]) * 16 <= M
  <2>1. 4 \in Nat /\ 4 >= 2
    OBVIOUS
  <2>2. f[2] \in Nat /\ (4 * (4 * (4 * 4))) * g(f[2]) <= (3 * 4 + 1) * M + (52 * (4 * (4 * 4))) * S
    BY <1>3, <1>5, <1>6, <2>1
  <2>3. g(f[2]) \in Nat
    BY <1>2, <2>2
  <2> QED
    BY <1>1, <2>2, <2>3
<1>8. f[3] \in Nat /\ g(f[3]) * 256 <= M
  <2>1. 16 \in Nat /\ 16 >= 2
    OBVIOUS
  <2>2. f[3] \in Nat
        /\ (4 * (16 * (16 * 16))) * g(f[3]) <= (3 * 16 + 1) * M + (52 * (16 * (16 * 16))) * S
    BY <1>3, <1>5, <1>7, <2>1
  <2>3. g(f[3]) \in Nat
    BY <1>2, <2>2
  <2> QED
    BY <1>1, <2>2, <2>3
<1>9. f[4] \in Nat /\ 65536 * g(f[4]) <= M + 851968 * S
  <2>1. 256 \in Nat /\ 256 >= 2
    OBVIOUS
  <2>2. f[4] \in Nat
        /\ (4 * (256 * (256 * 256))) * g(f[4]) <= (3 * 256 + 1) * M + (52 * (256 * (256 * 256))) * S
    BY <1>3, <1>5, <1>8, <2>1
  <2>3. g(f[4]) \in Nat
    BY <1>2, <2>2
  <2> QED
    BY <1>1, <2>2, <2>3
<1>10. Near(N, M, Miss(N, X, f[4]))
  BY <1>9 DEF Near, g, S
<1>11. f[5] \in Nat /\ f[5] = Step(N, X, f[4])
  <2>1. 2 \in Nat /\ 2 >= 2 /\ g(f[4]) \in Nat
    BY <1>2, <1>9
  <2>2. g(f[4]) * 2 <= M
    BY <1>1, <1>9, <2>1
  <2> QED
    BY <1>3, <1>5, <1>9, <2>1, <2>2
<1> DEFINE y == f[4]
           w == f[5]
<1>12. y \in Nat /\ w \in Nat /\ w = Step(N, X, y) /\ Near(N, M, Miss(N, X, y))
  BY <1>9, <1>10, <1>11
<1> HIDE DEF y, w
<1>13. /\ N <= 2 * w /\ w <= 2 * N - 2
       /\ X * ((w - 2) * (w - 2)) <= M
       /\ M <= X * ((w + 2) * (w + 2))
  BY <1>12, LastStep
<1> QED
  BY <1>11, <1>13 DEF w

(* Two units of the step's result are within four of the scale's, whether  *)
(* its mantissa is that result or twice it.                                *)
LEMMA TwoIsFour ==
  ASSUME NEW m \in Nat, NEW q \in Nat, q >= 3, NEW T \in Nat, NEW e \in 1..2,
         (e * m) * ((q - 2) * (q - 2)) <= e * T,
         e * T <= (e * m) * ((q + 2) * (q + 2))
  PROVE  /\ (q - 4) * (q - 4) * m <= T /\ T <= (q + 4) * (q + 4) * m
         /\ (2 * q - 4) * (2 * q - 4) * m <= 4 * T /\ 4 * T <= (2 * q + 4) * (2 * q + 4) * m
<1> DEFINE a == (q - 2) * (q - 2)
           b == (q + 2) * (q + 2)
           c == (q - 4) * (q - 4)
           d == (q + 4) * (q + 4)
<1>1. a \in Nat /\ b \in Nat /\ c \in Nat /\ d \in Nat
  <2>1. a \in Nat /\ b \in Nat /\ d \in Nat
    <3>1. q - 2 \in Nat /\ q + 2 \in Nat /\ q + 4 \in Nat
      OBVIOUS
    <3> QED
      BY <3>1, ProductSign
  <2>2. c \in Nat
    <3>1. CASE q >= 4
      <4>1. q - 4 \in Nat
        BY <3>1
      <4> QED
        BY <4>1, ProductSign
    <3>2. CASE q = 3
      BY <3>2
    <3> QED
      BY <3>1, <3>2
  <2> QED
    BY <2>1, <2>2
<1>2. c <= a /\ b <= d
  <2> DEFINE k == q * q
  <2>1. a = k - 4 * q + 4 /\ b = k + 4 * q + 4 /\ c = k - 8 * q + 16 /\ d = k + 8 * q + 16
    OBVIOUS
  <2>2. k \in Int
    OBVIOUS
  <2> HIDE DEF a, b, c, d, k
  <2> QED
    BY <2>1, <2>2
<1>3. a * m <= T /\ T <= b * m
  <2> DEFINE f == a * m
             g == b * m
  <2>1. f \in Int /\ g \in Int
    BY <1>1
  <2>2. (e * m) * a = e * f /\ (e * m) * b = e * g
    BY <1>1
  <2>3. e * f <= e * T /\ e * T <= e * g
    BY <2>2
  <2> HIDE DEF f, g
  <2>4. f <= T /\ T <= g
    <3>1. CASE e = 1
      BY <2>1, <2>3, <3>1
    <3>2. CASE e = 2
      BY <2>1, <2>3, <3>2
    <3> QED
      BY <3>1, <3>2
  <2> QED
    BY <2>4 DEF f, g
<1>4. (2 * q - 4) * (2 * q - 4) = 4 * a /\ (2 * q + 4) * (2 * q + 4) = 4 * b
  OBVIOUS
<1> DEFINE s == (2 * q - 4) * (2 * q - 4)
           t == (2 * q + 4) * (2 * q + 4)
<1>5. s = 4 * a /\ t = 4 * b
  BY <1>4
<1> HIDE DEF a, b, c, d, s, t
<1>6. c * m <= a * m /\ b * m <= d * m
  BY <1>1, <1>2, ProductBound
<1>7. c * m <= T /\ T <= d * m
  BY <1>1, <1>3, <1>6
<1>8. s * m <= 4 * T /\ 4 * T <= t * m
  <2>1. s * m = 4 * (a * m) /\ t * m = 4 * (b * m)
    BY <1>1, <1>5
  <2> DEFINE f == a * m
             g == b * m
  <2>2. f \in Int /\ g \in Int /\ f <= T /\ T <= g /\ s * m = 4 * f /\ t * m = 4 * g
    BY <1>1, <1>3, <2>1
  <2> HIDE DEF f, g
  <2> QED
    BY <2>2
<1> QED
  BY <1>7, <1>8 DEF c, d, s, t

(* The numbers xf_rsqrt works with, for an even and for an odd shift.      *)
LEMMA RootOperands ==
  ASSUME NEW m \in Mantissa, NEW sh \in 0..1
  PROVE  LET odd == (W - 2 - sh) % 2
             e   == 2^odd
             R   == W - 2 + (W - 2 - sh - odd) \div 2
         IN /\ e \in 1..2 /\ (m * e) % 2^W = e * m /\ R \in Nat
            /\ 2^(2 * R + sh) \in Nat
            /\ e * 2^(2 * R + sh) = 2^(W-2) * (2^(W-2) * 2^(W-2))
            /\ 2^(2 * (R + 1) + sh) = 4 * 2^(2 * R + sh)
<1> DEFINE odd == (W - 2 - sh) % 2
           e   == 2^odd
           R   == W - 2 + (W - 2 - sh - odd) \div 2
           N   == 2^(W-2)
           P   == 2^(2 * R + sh)
<1>1. H \in Nat /\ H >= 3 /\ W = 2 * H
  BY Sizes
<1>2. N \in Nat /\ m \in Nat /\ N <= m /\ m < 2 * N /\ 2^W = 4 * N
  <2>1. 2^W = 2 * 2^(W-1)
    BY WordSize
  <2> QED
    BY <2>1, Operands
<1>3. 2^0 = 1 /\ 2^1 = 2
  OBVIOUS
<1>4. odd = sh /\ R = 3 * H - 3 - sh
  <2>1. CASE sh = 0
    <3>1. W - 2 - sh = 2 * (H - 1) + 0
      BY <1>1, <2>1
    <3>2. odd = 0
      <4>1. H - 1 \in Int /\ 2 \in Nat /\ 0 \in Int
        BY <1>1
      <4> QED
        BY <3>1, <4>1, QuotientIs
    <3>3. W - 2 - sh - odd = 2 * (H - 1) + 0
      BY <1>1, <3>1, <3>2
    <3>4. (W - 2 - sh - odd) \div 2 = H - 1
      <4>1. H - 1 \in Int /\ 2 \in Nat /\ 0 \in Int
        BY <1>1
      <4> QED
        BY <3>3, <4>1, QuotientIs
    <3> QED
      BY <1>1, <2>1, <3>2, <3>4
  <2>2. CASE sh = 1
    <3>1. W - 2 - sh = 2 * (H - 2) + 1
      BY <1>1, <2>2
    <3>2. odd = 1
      <4>1. H - 2 \in Int /\ 2 \in Nat /\ 1 \in Int
        BY <1>1
      <4> QED
        BY <3>1, <4>1, QuotientIs
    <3>3. W - 2 - sh - odd = 2 * (H - 2) + 0
      BY <1>1, <3>1, <3>2
    <3>4. (W - 2 - sh - odd) \div 2 = H - 2
      <4>1. H - 2 \in Int /\ 2 \in Nat /\ 0 \in Int
        BY <1>1
      <4> QED
        BY <3>3, <4>1, QuotientIs
    <3> QED
      BY <1>1, <2>2, <3>2, <3>4
  <2> QED
    BY <2>1, <2>2
<1> HIDE DEF odd, R, N
<1>5. e \in 1..2 /\ (m * e) % 2^W = e * m
  <2>1. e \in 1..2
    <3>1. CASE sh = 0
      <4>1. e = 1
        BY <1>3, <1>4, <3>1
      <4> QED
        BY <4>1
    <3>2. CASE sh = 1
      <4>1. e = 2
        BY <1>3, <1>4, <3>2
      <4> QED
        BY <4>1
    <3> QED
      BY <3>1, <3>2
  <2> HIDE DEF e
  <2>2. m * e \in Nat /\ m * e < 4 * N /\ 4 * N \in Nat /\ m * e = e * m
    <3>1. CASE e = 1
      BY <1>2, <3>1
    <3>2. CASE e = 2
      BY <1>2, <3>2
    <3> QED
      BY <2>1, <3>1, <3>2
  <2> DEFINE k == m * e
             t == 4 * N
  <2>3. k \in Nat /\ t \in Nat /\ k < t
    BY <2>2
  <2> HIDE DEF k, t
  <2>4. k % t = k
    BY <2>3, SmallRemainder
  <2> QED
    BY <1>2, <2>1, <2>2, <2>4 DEF k, t
<1>6. 2^(3 * (W - 2)) = N * (N * N)
  <2>1. W - 2 \in Nat /\ (W - 2) + (W - 2) \in Nat /\ (W - 2) + ((W - 2) + (W - 2)) = 3 * (W - 2)
    BY <1>1
  <2>2. 2^((W - 2) + (W - 2)) = N * N
    BY <2>1, PowerSum DEF N
  <2>3. 2^((W - 2) + ((W - 2) + (W - 2))) = N * 2^((W - 2) + (W - 2))
    BY <2>1, PowerSum DEF N
  <2> QED
    BY <2>1, <2>2, <2>3
<1>7. R \in Nat /\ 2 * R + sh \in Nat /\ 2 * R + sh = 3 * (W - 2) - sh
  BY <1>1, <1>4
<1>8. P \in Nat
  BY <1>7, PowerType
<1>9. e * P = N * (N * N)
  <2>1. CASE sh = 0
    <3>1. e = 1 /\ 2 * R + sh = 3 * (W - 2)
      BY <1>1, <1>3, <1>4, <1>7, <2>1
    <3>2. P = N * (N * N)
      BY <1>6, <3>1
    <3> HIDE DEF e, P
    <3> QED
      BY <1>8, <3>1, <3>2
  <2>2. CASE sh = 1
    <3> DEFINE t == 3 * (W - 2)
    <3>1. e = 2 /\ 2 * R + sh = t - 1 /\ t \in Nat /\ t > 0
      BY <1>1, <1>3, <1>4, <1>7, <2>2
    <3>2. 2^t = N * (N * N)
      BY <1>6
    <3> HIDE DEF t
    <3>3. 2^t = 2 * 2^(t-1)
      BY <3>1, PowerHalf
    <3>4. P = 2^(t-1)
      BY <3>1
    <3> QED
      BY <3>1, <3>2, <3>3, <3>4
  <2> QED
    BY <2>1, <2>2
<1>10. 2^(2 * (R + 1) + sh) = 4 * P
  <2> DEFINE t == 2 * R + sh
  <2>1. 2 * (R + 1) + sh = t + 2 /\ t \in Nat /\ 2 \in Nat
    BY <1>7
  <2>2. 2^2 = 4
    OBVIOUS
  <2>3. P = 2^t /\ 2^t \in Nat
    BY <1>8
  <2> HIDE DEF t, P
  <2>4. 2^(t + 2) = 2^t * 2^2
    BY <2>1, PowerSum
  <2> QED
    BY <2>1, <2>2, <2>3, <2>4
<1> QED
  BY <1>5, <1>7, <1>8, <1>9, <1>10 DEF N, R, odd

(* The reciprocal square root (xf_rsqrt, dav2_xf.h): with words of 16 or   *)
(* of the code's 32 bits five Newton steps from the chord end within four  *)
(* units of the last place, no word overflowing on the way, for every      *)
(* mantissa and either parity of the shift.                                *)
THEOREM RsqrtRight ==
  ASSUME NEW L \in Nat, W = 2^L, W >= 16, W <= 32
  PROVE  RsqrtExact
<1> SUFFICES ASSUME NEW m \in Mantissa, NEW sh \in 0..1
             PROVE  LET y == xf_rsqrt(Xf(m, sh)) IN
                    /\ Normal(y)
                    /\ (y.m - 4) * (y.m - 4) * m <= 2^(2 * y.sh + sh)
                    /\ (y.m + 4) * (y.m + 4) * m >= 2^(2 * y.sh + sh)
  BY DEF RsqrtExact
<1> DEFINE odd == (W - 2 - sh) % 2
           e   == 2^odd
           X   == (m * e) % 2^W
           R   == W - 2 + (W - 2 - sh - odd) \div 2
           N   == 2^(W-2)
           P   == 2^(2 * R + sh)
           M   == N * (N * N)
           n   == 2^(W-3)
           Z   == 2^W
<1>1. /\ e \in 1..2 /\ X = e * m /\ R \in Nat /\ P \in Nat /\ e * P = M
      /\ 2^(2 * (R + 1) + sh) = 4 * P
  BY RootOperands
<1>2. PICK f : RootSteps(f, N, X, Z) /\ xf_rsqrt(Xf(m, sh)) = xf_norm(f[5], R)
  <2>1. m \in Nat
    BY Operands
  <2> QED
    BY <2>1, RsqrtSteps
<1>3. /\ n \in Nat /\ N \in Nat /\ N = 2 * n /\ N >= 16384 /\ N <= 32768 * 32768
      /\ m \in Nat /\ N <= m /\ m < 2 * N /\ Z = 4 * N
  <2>1. W \in Nat /\ W - 2 \in Nat /\ W - 2 > 0 /\ (W - 2) - 1 = W - 3 /\ 14 <= W - 2 /\ W - 2 <= 30
    BY Sizes
  <2>2. 2^(W - 2) = 2 * 2^((W - 2) - 1) /\ 2^((W - 2) - 1) \in Nat
    BY <2>1, PowerHalf
  <2>3. 14 \in Nat /\ 15 \in Nat /\ 30 \in Nat /\ 15 + 15 = 30
    OBVIOUS
  <2>4. 2^14 <= N /\ N <= 2^30
    BY <2>1, <2>3, PowerOrder
  <2>5. 2^30 = 2^15 * 2^15
    BY <2>3, PowerSum
  <2>6. 2^14 = 16384 /\ 2^15 = 32768
    BY SMT
  <2>7. Z = 2 * 2^(W-1)
    BY WordSize
  <2>8. N \in Nat /\ 2^(W-1) = 2 * N /\ m \in Nat /\ N <= m /\ m < 2^(W-1)
    BY Operands
  <2> QED
    BY SMT, <2>1, <2>2, <2>4, <2>5, <2>6, <2>7, <2>8
<1> HIDE DEF e, X, R, N, P, Z, n, odd
<1>4. X \in Nat /\ N <= X /\ X <= 4 * N - 2
  <2>1. CASE e = 1
    BY <1>1, <1>3, <2>1
  <2>2. CASE e = 2
    BY <1>1, <1>3, <2>2
  <2> QED
    BY <1>1, <2>1, <2>2
<1> DEFINE q == f[5]
<1>5. /\ q \in Nat /\ N <= 2 * q /\ q <= 2 * N - 2
      /\ X * ((q - 2) * (q - 2)) <= M
      /\ M <= X * ((q + 2) * (q + 2))
  <2>1. M = N * (N * N)
    OBVIOUS
  <2> HIDE DEF M
  <2> QED
    BY <1>2, <1>3, <1>4, <2>1, RootReached
<1> HIDE DEF q
<1>6. /\ (q - 4) * (q - 4) * m <= P /\ P <= (q + 4) * (q + 4) * m
      /\ (2 * q - 4) * (2 * q - 4) * m <= 4 * P /\ 4 * P <= (2 * q + 4) * (2 * q + 4) * m
  <2>1. q >= 3
    BY <1>3, <1>5
  <2>2. (e * m) * ((q - 2) * (q - 2)) <= e * P /\ e * P <= (e * m) * ((q + 2) * (q + 2))
    BY <1>1, <1>5
  <2> QED
    BY <1>1, <1>3, <1>5, <2>1, <2>2, TwoIsFour
<1> DEFINE y == xf_norm(q, R)
<1>7. /\ Normal(y)
      /\ N <= q => y.m = q /\ y.sh = R
      /\ q < N => y.m = 2 * q /\ y.sh = R + 1
  <2>1. R \in Int /\ N = 2^(W-2) /\ N <= 2 * q /\ q <= 2 * N /\ q # 2 * N - 1 /\ q # 2 * N
    BY <1>1, <1>3, <1>5 DEF N
  <2>2. /\ Normal(y)
        /\ N <= q /\ q # 2 * N => y.m = q /\ y.sh = R
        /\ q < N => y.m = 2 * q /\ y.sh = R + 1
    BY <1>5, <2>1, NormWithin
  <2> QED
    BY <2>1, <2>2
<1>8. xf_rsqrt(Xf(m, sh)) = y
  BY <1>2 DEF q
<1> HIDE DEF y
<1>9. CASE N <= q
  <2>1. y.m = q /\ y.sh = R
    BY <1>7, <1>9
  <2>2. 2^(2 * y.sh + sh) = P
    BY <2>1 DEF P
  <2>3. (y.m - 4) * (y.m - 4) * m <= P /\ (y.m + 4) * (y.m + 4) * m >= P
    <3>1. (q - 4) * (q - 4) * m \in Int /\ (q + 4) * (q + 4) * m \in Int
      BY <1>3, <1>5
    <3> QED
      BY <1>1, <1>6, <2>1, <3>1
  <2> QED
    BY <1>7, <1>8, <2>2, <2>3
<1>10. CASE q < N
  <2>1. y.m = 2 * q /\ y.sh = R + 1
    BY <1>7, <1>10
  <2>2. 2^(2 * y.sh + sh) = 4 * P
    BY <1>1, <2>1
  <2>3. (y.m - 4) * (y.m - 4) * m <= 4 * P /\ (y.m + 4) * (y.m + 4) * m >= 4 * P
    <3>1. (2 * q - 4) * (2 * q - 4) * m \in Int /\ (2 * q + 4) * (2 * q + 4) * m \in Int
      BY <1>3, <1>5
    <3> QED
      BY <1>1, <1>6, <2>1, <3>1
  <2> QED
    BY <1>7, <1>8, <2>2, <2>3
<1> QED
  BY <1>3, <1>5, <1>9, <1>10

---------------------------------------------------------------------------
(* The resampling.                                                         *)
(* The row blend computed from the difference, as interp_row_h and the     *)
(* LERP job do, is the weighted mean of the two rows, with its rounding,   *)
(* for all values and weights ("The same numbers", dav2_ops.c 2369).       *)
THEOREM BlendIsWeighted ==
  \A a, b, w \in Int : Stepped(a, b, w) = Weighted(a, b, w)
<1> SUFFICES ASSUME NEW a \in Int, NEW b \in Int, NEW w \in Int
             PROVE  Stepped(a, b, w) = Weighted(a, b, w)
  OBVIOUS
<1> DEFINE p == (b - a) * w
<1>1. p \in Int
  OBVIOUS
<1>2. a * (256 - w) + b * w = 256 * a + p
  OBVIOUS
<1>3. (256 * a + p) \div 256 = a + p \div 256
  <2> HIDE DEF p
  <2>1. 256 \in Nat /\ 256 > 0
    OBVIOUS
  <2> QED
    BY <1>1, <2>1, QuotientShift
<1> QED
  BY <1>2, <1>3 DEF Stepped, Weighted

(* Both rows an output row needs are in the two buffers after              *)
(* interp_step, whatever the buffers held and whether or not the two rows  *)
(* are the same one (the last rows of a picture).                          *)
THEOREM RowsInBuffers ==
  ASSUME NEW hrow \in [1..2 -> Int], NEW y \in Int, NEW yb \in {y, y + 1}
  PROVE  LET st == interp_step(hrow, <<y, yb>>)
         IN \A k \in 1..2 : st.hr[k] \in 1..2 /\ st.hrow[st.hr[k]] = <<y, yb>>[k]
BY DEF interp_step, SlotFor

(* A quotient of at most k.                                                *)
LEMMA QuotientBound ==
  ASSUME NEW d \in Nat, d > 0, NEW k \in Int, NEW num \in Nat, num <= d * k
  PROVE  /\ num \div d \in 0..k
         /\ num \div d = k => num % d = 0
<1> DEFINE q == num \div d
           m == num % d
           p == d * k
<1>1. q \in Int /\ m \in Int /\ 0 <= m /\ num = d * q + m
  BY Divided
<1>2. 0 <= q /\ q <= k
  <2>1. d * 0 <= num /\ num \in Int /\ 0 \in Int
    OBVIOUS
  <2> QED
    BY <2>1, QuotientOrder
<1>3. q = k => m = 0
  <2> SUFFICES ASSUME q = k PROVE m = 0
    OBVIOUS
  <2>1. d * q = p /\ p \in Int /\ num <= p
    OBVIOUS
  <2> HIDE DEF p, q, m
  <2> QED
    BY <1>1, <2>1
<1> QED
  BY <1>1, <1>2, <1>3

(* Every output row's two source rows are rows of the picture, its weight  *)
(* is the nearest 256th, at most 256, and with a weight the second row is  *)
(* the next one: the LERP job of the accelerator takes only consecutive    *)
(* rows (dav2_interp_begin), for every pair of heights.                    *)
THEOREM SourceRowsExist ==
  ASSUME NEW hh \in Nat, hh > 0, NEW oh \in Nat, NEW i \in Nat, i < oh
  PROVE  LET s == Source(i, hh, oh)
         IN /\ s.y0 \in 0..(hh - 1) /\ s.y1 \in s.y0..(hh - 1) /\ s.wq \in 0..256
            /\ s.wq # 0 => s.y1 = s.y0 + 1
            /\ oh > 1 => Magnitude(256 * (i * (hh - 1) - s.y0 * (oh - 1)) - s.wq * (oh - 1)) * 2
                          <= oh - 1
<1>1. CASE ~(oh > 1)
  BY <1>1 DEF Source
<1>2. CASE oh > 1
  <2> DEFINE den == oh - 1
             num == i * (hh - 1)
             q   == num \div den
             m   == num % den
             wq  == (m * 512 + den) \div (2 * den)
  <2>1. den \in Nat /\ den > 0 /\ num \in Nat /\ num <= den * (hh - 1)
    <3>1. hh - 1 \in Nat /\ i \in Int /\ den \in Nat /\ den > 0 /\ i <= den
      BY <1>2
    <3>2. num \in Nat
      BY <3>1
    <3>3. CASE hh - 1 = 0
      BY <3>1, <3>2, <3>3
    <3>4. CASE hh - 1 > 0
      <4>1. (hh - 1) * i <= (hh - 1) * den
        BY <3>1, ProductOrder1
      <4> QED
        BY <3>1, <3>2, <4>1
    <3> QED
      BY <3>1, <3>3, <3>4
  <2>2. q \in 0..(hh - 1) /\ (q = hh - 1 => m = 0)
    BY <2>1, QuotientBound
  <2>3. m \in 0..(den - 1)
    BY <2>1
  <2>4. wq \in 0..256 /\ (m = 0 => wq = 0)
    <3> HIDE DEF m, den
    <3>1. /\ 2 * den \in Nat /\ 2 * den > 0 /\ m * 512 + den \in Nat
          /\ m * 512 + den <= (2 * den) * 257 /\ m * 512 + den < (2 * den) * 257
      BY <2>1, <2>3
    <3>2. wq \in 0..257 /\ (wq = 257 => (m * 512 + den) % (2 * den) = 0)
      BY <3>1, QuotientBound
    <3>3. m * 512 + den = (2 * den) * wq + ((m * 512 + den) % (2 * den))
      BY <3>1, Divided
    <3>4. wq # 257
      BY <2>1, <2>3, <3>1, <3>2, <3>3
    <3>5. m = 0 => wq = 0
      <4> SUFFICES ASSUME m = 0 PROVE wq = 0
        OBVIOUS
      <4>1. den \in 0..(2 * den - 1) /\ m * 512 + den = den
        BY <2>1, <2>3
      <4>2. den <= (2 * den) * 1
        BY <2>1
      <4>3. den \div (2 * den) \in 0..1 /\ (den \div (2 * den) = 1 => den % (2 * den) = 0)
        BY <3>1, <4>1, <4>2, QuotientBound, <2>1
      <4>4. den = (2 * den) * (den \div (2 * den)) + (den % (2 * den))
        BY <3>1, <2>1
      <4>5. den \div (2 * den) # 1
        BY <2>1, <4>3, <4>4
      <4> QED
        BY <4>1, <4>3, <4>5
    <3> QED
      BY <3>2, <3>4, <3>5
  <2>6. Magnitude(256 * (num - q * den) - wq * den) * 2 <= den
    <3> DEFINE p == wq * den
               rem == (m * 512 + den) % (2 * den)
    <3>1. num - q * den = m /\ m \in Int
      <4>1. num = den * q + m /\ q \in Int /\ m \in Int
        BY <2>1, Divided
      <4> HIDE DEF q, m, num, den
      <4> QED
        BY <2>1, <4>1
    <3> HIDE DEF m, den
    <3>2. wq \in Int /\ rem \in Int /\ 0 <= rem /\ rem < 2 * den
          /\ m * 512 + den = (2 * den) * wq + rem
      <4> DEFINE t == 2 * den
                 u == m * 512 + den
      <4>1. t \in Nat /\ t > 0 /\ u \in Int
        BY <2>1, <2>3
      <4>2. wq = u \div t /\ rem = u % t
        OBVIOUS
      <4> HIDE DEF t, u, wq, rem
      <4>3. wq \in Int /\ rem \in Int /\ 0 <= rem /\ rem < t /\ u = t * wq + rem
        BY <4>1, <4>2, Divided
      <4> QED
        BY <4>3 DEF t, u
    <3> HIDE DEF wq, rem
    <3>3. (2 * den) * wq = 2 * p /\ p \in Int
      BY <2>1, <3>2
    <3> HIDE DEF p
    <3>4. 256 * m - p \in Int /\ 2 * (256 * m - p) = rem - den
      BY <2>1, <3>1, <3>2, <3>3
    <3>5. Magnitude(256 * m - p) * 2 <= den
      BY <2>1, <3>2, <3>4 DEF Magnitude
    <3> QED
      BY <3>1, <3>5 DEF p
  <2> HIDE DEF q, wq
  <2>5. Source(i, hh, oh) = [y0 |-> q, y1 |-> IF q + 1 < hh THEN q + 1 ELSE hh - 1, wq |-> wq]
    BY <1>2, <2>2 DEF Source, q, wq
  <2> QED
    BY <2>2, <2>4, <2>5, <2>6
<1> QED
  BY <1>1, <1>2

(* The resampling's part of what dav2_ops.c promises: source rows and      *)
(* weights, the two ways to blend, and the row buffers.                    *)
THEOREM ResampleRight == SourceExact /\ BlendExact /\ BuffersExact
<1>1. SourceExact
  <2> SUFFICES ASSUME NEW hh \in 1..7, NEW oh \in 1..9, NEW i \in 0..(oh - 1)
               PROVE  LET s == Source(i, hh, oh) IN
                      /\ s.y0 \in 0..(hh - 1) /\ s.y1 \in s.y0..(hh - 1) /\ s.wq \in 0..256
                      /\ s.wq # 0 => s.y1 = s.y0 + 1
                      /\ oh > 1 => Magnitude(256 * (i * (hh - 1) - s.y0 * (oh - 1)) - s.wq * (oh - 1)) * 2
                                    <= oh - 1
    BY DEF SourceExact
  <2>1. hh \in Nat /\ hh > 0 /\ oh \in Nat /\ i \in Nat /\ i < oh
    OBVIOUS
  <2> QED
    BY <2>1, SourceRowsExist
<1>2. BlendExact
  <2>1. \A a, b \in -3..3, w \in 0..256 : a \in Int /\ b \in Int /\ w \in Int
    OBVIOUS
  <2> QED
    BY <2>1, BlendIsWeighted DEF BlendExact
<1>3. BuffersExact
  <2> SUFFICES ASSUME NEW hrow \in [1..2 -> -1..3], NEW y \in 0..2, NEW need \in {<<y, y>>, <<y, y + 1>>}
               PROVE  LET st == interp_step(hrow, need) IN
                      \A k \in 1..2 : st.hrow[st.hr[k]] = need[k]
    BY DEF BuffersExact
  <2>1. hrow \in [1..2 -> Int] /\ y \in Int
    OBVIOUS
  <2>2. PICK yb \in {y, y + 1} : need = <<y, yb>>
    OBVIOUS
  <2> QED
    BY <2>1, <2>2, RowsInBuffers
<1> QED
  BY <1>1, <1>2, <1>3

---------------------------------------------------------------------------
(* All of it together, for words of 16 and of the code's 32 bits.          *)
LEMMA ArithmeticHolds ==
  ASSUME HalfBits \in {8, 16}
  PROVE  ArithmeticExact
<1>1. \E L \in Nat : W = 2^L
  <2>1. 2^4 = 16 /\ 2^5 = 32 /\ 4 \in Nat /\ 5 \in Nat
    OBVIOUS
  <2>2. W = 16 \/ W = 32
    BY DEF W
  <2> QED
    BY <2>1, <2>2
<1>2. W >= 16 /\ W <= 32
  BY DEF W
<1>3. NormExact /\ AddExact /\ RecipExact /\ RsqrtExact
  <2>1. PICK L \in Nat : W = 2^L
    BY <1>1
  <2>2. NormExact
    BY <2>1, NormRight
  <2>3. AddExact
    BY <2>1, AddRight
  <2>4. RecipExact
    BY <2>1, RecipRight
  <2>5. RsqrtExact
    BY <1>2, <2>1, RsqrtRight
  <2> QED
    BY <2>2, <2>3, <2>4, <2>5
<1> QED
  BY <1>3, RequantRight, EmbedRight, AddTermsRight, MeanRight, RowStatsRight, CompareRight,
     GeluRight, ResampleRight
  DEF ArithmeticExact

(* What the values of every operation rest on holds throughout, for the    *)
(* code's 32-bit words (and for 16): requantisation, embedding, residual   *)
(* add, mean, row statistics, scales, GELU's table and resampling compute  *)
(* the numbers their comments promise, for every operand.                  *)
THEOREM ArithmeticCorrect ==
  ASSUME HalfBits \in {8, 16}
  PROVE  Spec => []ArithmeticRight
<1>1. ArithmeticRight
  BY ArithmeticHolds DEF ArithmeticRight
<1> QED
  BY <1>1, PTL
=============================================================================
