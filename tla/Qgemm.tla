------------------------------ MODULE Qgemm ------------------------------
(* dav2_ops.c: a quantised GEMM or convolution as the engine calls it     *)
(* (qgemm_impl and its callers), against the accelerator driver of Accel  *)
(* seen from outside.  The product may be left running and stay on chip;  *)
(* its row statistics are streamed, its requantisation runs in chunks of  *)
(* rows, each left running while the CPU prepares the next; and every job *)
(* may be declined or fail, after which the CPU converts, or redoes, the  *)
(* whole operation.  LayerNorm, two requantisations with the same choices, *)
(* is an operation of its own.  Numbers are left out: a buffer is the      *)
(* right one, a wrong one, or being written.  A job that timed out is      *)
(* taken to be dead.                                                       *)
EXTENDS Integers, Sequences, FiniteSets

CONSTANTS
  Chunks,     \* requantisation chunks of one result (RQ_CHUNK rows each)
  StatRows,   \* rows of the product whose {max, min} are streamed
  CapSets,    \* the feature sets the driver may have found
  OpSet       \* the operations the engine asks for

ASSUME SizesAssumption == Chunks \in Nat \ {0} /\ StatRows \in Nat \ {0}

Caps  == {"grelu", "onchip", "rng", "ostats", "osums", "lut"}
(* what a shape allows: the driver accepts it as a convolution, as a GEMM, *)
(* in the result RAM, in one piece (K <= KMAX), for requantisation; M even *)
Fits  == {"conv", "gemm", "onchip", "single", "requant", "even", "dpar"}

OpType == [cv : BOOLEAN, in_relu : BOOLEAN, res : {"no", "other", "out"}, gelu : BOOLEAN,
           ext : BOOLEAN, rst : BOOLEAN, ln : BOOLEAN, fits : SUBSET Fits]

ASSUME CapsAssumption == CapSets \subseteq SUBSET Caps

VARIABLES
  usable, caps,  \* the driver: accel_ok, the features found
  pend,          \* the job left running, NoJob for none
  blk,           \* what became of it: run, ok, bad
  pc, op,        \* the program counter of qgemm_impl, its operands
  marks,         \* the arena marks of the calls in progress (redo is recursive)
  used,          \* arena blocks in use
  arenaFailed,   \* dav2_arena_failed
  noOnchip,      \* qgemm_no_onchip
  made,          \* the producer has made every row of a
  rect,          \* a is a rectified copy of the input
  useOnchip, run, tiles,     \* use_onchip, run, st.tiles # 0
  acc, chip,     \* the product in DDR3, in the result RAM
  slot, r, ext,  \* the streamed statistics, the range pass's row, what it read
  rngUsed, dpar, \* the block's own range and parameters are used
  par, x2,       \* the parameters of each chunk, the extremes' own job
  chunk, lut, rstBuf,        \* the result's chunks, GELU in the job, row ranges asked for
  out, rstOut, cext,         \* what the caller gets: result, row ranges, column extremes
  torn,          \* a row's statistics were read between its two words
  z, zst, half   \* LayerNorm: z, its channels' extremes, the requantisation under way

drv  == <<usable, pend, blk>>
mem  == <<marks, used, arenaFailed, noOnchip>>
prod == <<made, rect, useOnchip, run, tiles, acc, chip>>
rng  == <<slot, r, ext, rngUsed, torn>>
rq   == <<dpar, par, x2, chunk, lut, rstBuf>>
norm == <<z, zst, half>>
res  == <<out, rstOut, cext, norm>>
vars == <<drv, caps, pc, op, mem, prod, rng, rq, res>>

Value  == {"junk", "right", "wrong"}
NoJob  == [kind |-> "none", n |-> 0]
Job(k, i) == [kind |-> k, n |-> i]
Is(f)  == f \in op.fits
Has(f) == usable /\ f \in caps
HasRes == op.res # "no"
WantExt == op.ext /\ ~HasRes /\ ~op.gelu
RngTry == Has("rng")

---------------------------------------------------------------------------
(* The operations of dav2_ops.c that are this function with some operands. *)
Plain == [cv |-> FALSE, in_relu |-> FALSE, res |-> "no", gelu |-> FALSE, ext |-> FALSE,
          rst |-> FALSE, ln |-> FALSE, fits |-> {}]
dav2_qgemm(f)        == [Plain EXCEPT !.fits = f]
dav2_qgemm_colext(f) == [dav2_qgemm(f) EXCEPT !.ext = TRUE]
dav2_qgemm_gelu(f)   == [dav2_qgemm(f) EXCEPT !.gelu = TRUE]
dav2_qgemm_ex(f, x)  == [dav2_qgemm(f) EXCEPT !.res = x, !.rst = TRUE]
(* a 1x1 convolution of unrectified pixels is a GEMM over them *)
dav2_conv2d_into(f, k, in_relu, x) ==
  IF k = 1 /\ ~in_relu THEN [dav2_qgemm_ex(f, x) EXCEPT !.rst = FALSE]
  ELSE [Plain EXCEPT !.cv = TRUE, !.in_relu = in_relu, !.res = x, !.fits = f]
dav2_conv2d_ex(f, k, x)  == dav2_conv2d_into(f, k, FALSE, x)
dav2_conv2d(f, k)        == dav2_conv2d_ex(f, k, "no")
dav2_layernorm(f)        == [Plain EXCEPT !.ln = TRUE, !.fits = f]
dav2_conv_transpose(f)   == dav2_qgemm(f)     \* and a copy of the result

Operations == UNION {{dav2_qgemm(f), dav2_qgemm_colext(f), dav2_qgemm_gelu(f), dav2_layernorm(f)}
                     \cup {dav2_qgemm_ex(f, x) : x \in {"no", "other", "out"}}
                     \cup {dav2_conv2d_into(f, k, relu, x) :
                             k \in {1, 3}, relu \in BOOLEAN, x \in {"no", "other", "out"}}
                     : f \in SUBSET Fits}
ASSUME OpsAssumption == OpSet \subseteq Operations

---------------------------------------------------------------------------
(* The arena: a bump allocator that remembers its failures.                *)
Alloc(k, fits) == /\ used' = used + (IF fits THEN k ELSE 0)
                  /\ arenaFailed' = (arenaFailed \/ ~fits)
Mark == marks[Len(marks)]

(* the driver collects the job left running: 1, or 0 after disabling itself *)
Ended   == pend = NoJob \/ blk # "run"
FinishOk == pend = NoJob \/ blk = "ok"
Collect == /\ Ended
           /\ usable' = (usable /\ FinishOk)
           /\ pend' = NoJob /\ UNCHANGED blk

(* accel calls that start a job settle the one before, and leave theirs    *)
Accepted(needs) == usable /\ needs \subseteq caps
Launch(job)     == usable' = usable /\ pend' = job /\ blk' = "run"

Goto(l) == pc' = l
Redo    == Goto("redo")

---------------------------------------------------------------------------
Clear ==
  /\ rect' = FALSE /\ useOnchip' = FALSE /\ run' = 0 /\ tiles' = FALSE
  /\ acc' = "junk" /\ chip' = "junk"
  /\ slot' = [m \in 1..StatRows |-> "empty"] /\ r' = 1 /\ ext' = {}
  /\ rngUsed' = FALSE /\ dpar' = FALSE /\ par' = [c \in 1..Chunks |-> "junk"] /\ x2' = "junk"
  /\ chunk' = [c \in 1..Chunks |-> "junk"] /\ lut' = FALSE /\ rstBuf' = "no"
  /\ z' = "junk" /\ zst' = "none" /\ half' = 1

(* a redo finds out->rst already cleared and asks for no row ranges        *)
Enter(o) ==
  /\ op' = o /\ marks' = Append(marks, used) /\ rstOut' = "no" /\ Clear
  /\ Goto(IF o.ln THEN "ln" ELSE "relu")
  /\ UNCHANGED <<drv, caps, used, arenaFailed, noOnchip>>

Begin ==
  /\ pc = "idle" /\ \E o \in OpSet : Enter(o)
  /\ made' \in BOOLEAN                       \* a producer makes a, or a is there
  /\ out' = "junk" /\ cext' = "junk" /\ torn' = FALSE

dav2_producer_complete == made' = TRUE
Rectify == rect' = TRUE                      \* dav2_copy_relu

(* ReLU on a convolution's input, unless the block applies it itself       *)
InputRelu ==
  /\ pc = "relu"
  /\ IF op.cv /\ op.in_relu /\ ~Has("grelu")
       THEN /\ dav2_producer_complete
            /\ \E fits \in BOOLEAN :
                 /\ Alloc(1, fits)
                 /\ IF fits THEN Goto("alloc") /\ Rectify ELSE Goto("leave") /\ UNCHANGED rect
       ELSE Goto("alloc") /\ UNCHANGED <<made, rect, used, arenaFailed>>
  /\ UNCHANGED <<drv, caps, op, marks, noOnchip, useOnchip, run, tiles, acc, chip, rng, rq, res>>

OnchipFits == noOnchip = 0 /\ Has("onchip") /\ Is("even") /\ Is("onchip")

AllocAcc ==
  /\ pc = "alloc"
  /\ \E fits \in BOOLEAN :
       /\ Alloc(2, fits)
       /\ Goto(IF ~fits THEN "leave" ELSE IF op.cv THEN "conv" ELSE "gemm")
  /\ useOnchip' = OnchipFits
  /\ UNCHANGED <<drv, caps, op, marks, noOnchip, made, rect, run, tiles, acc, chip, rng, rq, res>>

---------------------------------------------------------------------------
(* The product.  Its rows are made before the tile that reads them; it is  *)
(* right if every row was made and the ReLU asked for was applied once.    *)
ReluOk(byBlock) == (op.cv /\ op.in_relu) = (rect \/ byBlock)
Product(byBlock) == IF ReluOk(byBlock) THEN "right" ELSE "wrong"

(* an entry point that leaves its last tile running, finishes (partial     *)
(* sums; or a LERP job cleared accel_defer), or fails in an earlier tile   *)
TryProduct(accepted, where, byBlock, else) ==
  \/ /\ ~accepted
     /\ Goto(else) /\ UNCHANGED <<drv, made, run, tiles, acc, chip, slot, used, arenaFailed>>
  \/ /\ accepted
     /\ made' = TRUE
     /\ \E stats \in (IF where = "chip" THEN {TRUE} ELSE IF Is("single") THEN BOOLEAN ELSE {FALSE}) :
          /\ Alloc(1, stats \/ ~Is("single"))
          /\ tiles' = stats
          /\ \/ /\ Is("single") /\ run' = 2
                /\ Launch(Job(where, 0))
                /\ slot' = [m \in 1..StatRows |-> "empty"]
                /\ IF where = "acc" THEN acc' = "wrong" /\ UNCHANGED chip
                                    ELSE chip' = "wrong" /\ UNCHANGED acc
             \/ /\ run' = 1 /\ UNCHANGED drv
                /\ slot' = [m \in 1..StatRows |-> IF stats THEN "both" ELSE "empty"]
                /\ IF where = "acc" THEN acc' = Product(byBlock) /\ UNCHANGED chip
                                    ELSE chip' = Product(byBlock) /\ UNCHANGED acc
          /\ Goto("range")
  \/ /\ accepted
     /\ usable' = FALSE /\ tiles' = FALSE /\ Goto(else)
     /\ UNCHANGED <<pend, blk, made, run, slot, used, arenaFailed>>
     /\ IF where = "acc" THEN acc' = "wrong" /\ UNCHANGED chip ELSE chip' = "wrong" /\ UNCHANGED acc

ByBlock == op.in_relu /\ ~rect
ReluFits == ~op.in_relu \/ rect \/ Has("grelu")

ProductUnchanged == UNCHANGED <<caps, op, marks, noOnchip, rect, r, ext, rngUsed, torn, rq, res>>

ConvOnchip ==          \* dav2_accel_conv_onchip_async
  /\ pc = "conv" /\ useOnchip
  /\ TryProduct(usable /\ Is("conv") /\ Is("single") /\ ReluFits, "chip", ByBlock, "conv")
  /\ useOnchip' = (pc' = "range")
  /\ ProductUnchanged

ConvDdr ==             \* dav2_accel_conv_async
  /\ pc = "conv" /\ ~useOnchip
  /\ TryProduct(usable /\ Is("conv") /\ ReluFits, "acc", ByBlock, "im2col")
  /\ UNCHANGED useOnchip /\ ProductUnchanged

Im2col ==              \* the patches in software, rectified there if need be
  /\ pc = "im2col"
  /\ dav2_producer_complete /\ useOnchip' = FALSE
  /\ \E fits \in BOOLEAN :
       /\ Alloc(1, fits)
       /\ IF fits THEN Goto("gemm") /\ rect' = (rect \/ op.in_relu)
                  ELSE Goto("leave") /\ UNCHANGED rect
  /\ UNCHANGED <<drv, caps, op, marks, noOnchip, run, tiles, acc, chip, rng, rq, res>>

GemmOnchip ==          \* dav2_accel_qgemm_onchip_async
  /\ pc = "gemm" /\ useOnchip
  /\ TryProduct(usable /\ Is("gemm") /\ Is("single"), "chip", FALSE, "gemm")
  /\ useOnchip' = (pc' = "range")
  /\ ProductUnchanged

GemmDdr ==             \* dav2_accel_qgemm_async
  /\ pc = "gemm" /\ ~useOnchip
  /\ TryProduct(usable /\ Is("gemm"), "acc", FALSE, "cpu_gemm")
  /\ UNCHANGED useOnchip /\ ProductUnchanged

\* Variant: the CPU computes without asking for the missing rows.
CpuGemmEarly ==
  /\ pc = "cpu_gemm"
  /\ acc' = (IF made THEN Product(FALSE) ELSE "wrong")
  /\ Goto("range")
  /\ UNCHANGED <<drv, caps, op, mem, made, rect, useOnchip, run, tiles, chip, rng, rq, res>>
CpuGemm ==             \* dav2_producer_complete, then dav2_qgemm_cpu
  /\ pc = "cpu_gemm"
  /\ dav2_producer_complete
  /\ acc' = (IF made' THEN Product(FALSE) ELSE "wrong")
  /\ Goto("range")
  /\ UNCHANGED <<drv, caps, op, mem, rect, useOnchip, run, tiles, chip, rng, rq, res>>

---------------------------------------------------------------------------
(* The range of the result, before any of it is requantised.               *)
AfterProduct ==        \* without statistics, or with the range unit: wait first
  /\ pc = "range"
  /\ IF run # 0 /\ (~tiles \/ RngTry)
       THEN /\ Collect
            /\ IF FinishOk THEN Goto("pass") ELSE Redo
            /\ run' = (IF FinishOk THEN 1 ELSE run)
            /\ rngUsed' \in (IF FinishOk /\ tiles THEN BOOLEAN ELSE {FALSE})
       ELSE Goto("pass") /\ UNCHANGED <<drv, run, rngUsed>>
  /\ UNCHANGED <<caps, op, mem, made, rect, useOnchip, tiles, acc, chip, slot, r, ext, torn, rq, res>>

(* One row of the range pass: streamed statistics (the poll ends with the  *)
(* first word of the row's two, or with the job), or a scan of acc.        *)
Arrived == run # 2 \/ slot[r] # "empty" \/ pend = NoJob \/ blk # "run"
RangeRow ==
  /\ pc = "pass" /\ r <= StatRows
  /\ tiles => Arrived
  /\ r' = r + 1
  /\ ext' = IF tiles THEN ext \cup {slot[r]}
            ELSE ext \cup {IF acc = "right" THEN "both" ELSE "wrong"}
  /\ torn' = (torn \/ (tiles /\ slot[r] = "max"))
  /\ UNCHANGED <<drv, caps, pc, op, mem, prod, slot, rngUsed, rq, res>>

RangeDone ==
  /\ pc = "pass" /\ r > StatRows
  /\ IF run = 2 THEN Collect ELSE UNCHANGED drv
  /\ IF run = 2 /\ ~FinishOk THEN Redo
     ELSE Goto(IF Is("even") /\ run # 0 THEN "ext2" ELSE "convert")
  /\ dpar' = (rngUsed /\ Is("dpar"))
  /\ UNCHANGED <<caps, op, mem, prod, rng, par, x2, chunk, lut, rstBuf, res>>

RangeRight == rngUsed \/ ext \subseteq {"both"}
ParamsFor(S) == par' = [c \in 1..Chunks |->
                          IF c \in S /\ ~dpar' /\ par[c] = "junk"
                            THEN (IF RangeRight THEN "right" ELSE "wrong") ELSE par[c]]

---------------------------------------------------------------------------
(* Requantisation on the block.                                            *)
RqUnchanged == UNCHANGED <<caps, op, marks, noOnchip, prod, rng>>

(* with the block's own parameters the row extremes take a job of their own *)
ExtremesJob ==
  /\ pc = "ext2"
  /\ IF dpar /\ (HasRes \/ WantExt)
       THEN \E fits \in BOOLEAN :
              /\ Alloc(2, fits)
              /\ IF fits /\ Accepted({"rng"}) /\ Is("requant")
                   THEN Launch(Job("ext2", 0)) /\ Goto("ext2fin") /\ UNCHANGED dpar
                   ELSE dpar' = FALSE /\ Goto("prepare") /\ UNCHANGED drv
       ELSE Goto("prepare") /\ UNCHANGED <<drv, dpar, used, arenaFailed>>
  /\ UNCHANGED <<par, x2, chunk, lut, rstBuf, res>> /\ RqUnchanged

ExtremesDone ==
  /\ pc = "ext2fin" /\ Collect /\ Goto("prepare")
  /\ dpar' = (dpar /\ FinishOk)
  /\ x2' = IF FinishOk THEN x2 ELSE "junk"
  /\ UNCHANGED <<used, arenaFailed, par, chunk, lut, rstBuf, res>> /\ RqUnchanged

(* statistics buffer, GELU table, the add's parameters, a temporary when   *)
(* the result is the residual itself; a failed temporary starts no job     *)
Prepare ==
  /\ pc = "prepare"
  /\ \E sfits, lfits, tfits \in BOOLEAN :
       /\ LET asks == op.rst /\ Has("ostats")
              gelu == op.gelu /\ Has("lut")
              tmp  == op.res = "out"
              n    == (IF asks /\ sfits THEN 1 ELSE 0) + (IF gelu /\ lfits THEN 1 ELSE 0)
                      + (IF tmp /\ tfits THEN 1 ELSE 0)
              fail == (asks /\ ~sfits) \/ (gelu /\ ~lfits) \/ (tmp /\ ~tfits)
              sums == asks /\ Has("osums")
          IN /\ used' = used + n /\ arenaFailed' = (arenaFailed \/ fail)
             /\ rstBuf' = IF asks /\ sfits THEN "asked"
                          ELSE IF sums THEN "sums_only" ELSE rstBuf
             /\ lut' = (gelu /\ lfits)
             /\ Goto(IF tmp /\ ~tfits THEN "declined" ELSE "rows")
  /\ dpar' = dpar
  /\ ParamsFor(IF HasRes THEN 1..Chunks ELSE {})
  /\ r' = 1
  /\ UNCHANGED <<drv, caps, op, marks, noOnchip, prod, slot, ext, rngUsed, torn, x2, chunk, res>>

EpiNeeds == (IF rstBuf = "asked" THEN {"ostats"} ELSE {}) \cup (IF lut THEN {"lut"} ELSE {})
            \cup (IF useOnchip THEN {"onchip"} ELSE {}) \cup (IF dpar THEN {"rng"} ELSE {})

(* chunk r: its parameters while the chunk before it still runs, then      *)
(* dav2_accel_requant_rows_async, which settles that one                   *)
ChunkJob ==
  /\ pc = "rows" /\ r <= Chunks
  /\ dpar' = dpar /\ ParamsFor(1..r)
  /\ IF Accepted(EpiNeeds) /\ Is("requant") /\ rstBuf # "sums_only"
       THEN /\ Ended
            /\ IF FinishOk THEN Launch(Job("chunk", r)) /\ r' = r + 1 /\ UNCHANGED pc
               ELSE usable' = FALSE /\ pend' = NoJob /\ Goto("declined") /\ UNCHANGED <<blk, r>>
       ELSE Goto("declined") /\ UNCHANGED <<drv, r>>
  /\ UNCHANGED <<caps, op, mem, prod, slot, ext, rngUsed, torn, x2, chunk, lut, rstBuf, res>>

(* the last chunk collected; only then is the residual overwritten         *)
ChunksDone ==
  /\ pc = "rows" /\ r > Chunks
  /\ Collect
  /\ Goto(IF FinishOk THEN "success" ELSE "declined")
  /\ out' = IF ~FinishOk THEN out
            ELSE IF \A c \in 1..Chunks : chunk[c] = "right" THEN "right" ELSE "wrong"
  /\ dpar' = dpar
  /\ UNCHANGED <<used, arenaFailed, par, x2, chunk, lut, rstBuf, rstOut, cext, norm>> /\ RqUnchanged

Gelu(v, fits) == IF fits THEN v ELSE "wrong"           \* dav2_gelu: no table, no GELU

Success ==
  /\ pc = "success" /\ Goto("leave")
  /\ rstOut' = IF rstBuf = "asked" THEN out ELSE "no"
  /\ cext' = IF ~WantExt THEN cext
             ELSE IF dpar THEN x2 ELSE IF RangeRight /\ ext \subseteq {"both"} THEN "right" ELSE "wrong"
  /\ IF op.gelu /\ ~lut
       THEN \E fits \in BOOLEAN : Alloc(0, fits) /\ out' = Gelu(out, fits)
       ELSE UNCHANGED <<out, used, arenaFailed>>
  /\ UNCHANGED <<drv, caps, op, marks, noOnchip, prod, rng, rq, norm>>

(* declined or failed: a result left on chip is not in acc                 *)
Declined ==
  /\ pc = "declined"
  /\ IF useOnchip THEN Redo ELSE Goto("convert")
  /\ UNCHANGED <<drv, caps, op, mem, prod, rng, rq, res>>

---------------------------------------------------------------------------
(* The CPU's conversion of acc, and the separate add, ReLU and GELU.  The  *)
(* residual is intact unless the result is the residual and was written.   *)
dav2_add(v) == IF op.res = "out" /\ out # "junk" THEN "wrong" ELSE v

Convert ==
  /\ pc = "convert"
  /\ IF useOnchip THEN Redo /\ UNCHANGED <<used, arenaFailed, dpar, par, out, cext>>
     ELSE /\ dpar' = FALSE /\ ParamsFor(1..Chunks) /\ Goto("leave")
          /\ \E fits, tfits \in BOOLEAN :
               /\ arenaFailed' = (arenaFailed \/ (HasRes /\ ~fits) \/ (op.gelu /\ ~tfits))
               /\ UNCHANGED used
               /\ out' = IF HasRes /\ ~fits THEN out
                         ELSE IF op.gelu /\ ~tfits THEN "wrong"
                         ELSE IF acc = "right" /\ (\A c \in 1..Chunks : par'[c] = "right")
                                 /\ pend = NoJob
                           THEN dav2_add("right") ELSE "wrong"
          /\ cext' = IF ~WantExt THEN cext
                     ELSE IF ext \subseteq {"both"} THEN "right" ELSE "wrong"
  /\ UNCHANGED <<drv, caps, op, marks, noOnchip, prod, rng, x2, chunk, lut, rstBuf, rstOut, norm>>

\* Variant: the redo does not release what the first try allocated.
RedoForgets ==
  /\ pc = "redo"
  /\ noOnchip' = noOnchip + 1
  /\ op' = [op EXCEPT !.rst = FALSE] /\ marks' = Append(marks, used) /\ rstOut' = "no"
  /\ Clear /\ Goto("relu")
  /\ torn' = FALSE
  /\ UNCHANGED <<drv, caps, used, arenaFailed, made, out, cext>>
(* redo_on_cpu: start over with the operands as given, the result in DDR3; *)
(* out->rst is already cleared, so no row ranges are asked for             *)
RedoOnCpu ==
  /\ pc = "redo"
  /\ used' = Mark /\ noOnchip' = noOnchip + 1
  /\ op' = [op EXCEPT !.rst = FALSE] /\ marks' = Append(marks, Mark) /\ rstOut' = "no"
  /\ Clear /\ Goto("relu")
  /\ torn' = FALSE
  /\ UNCHANGED <<drv, caps, arenaFailed, made, out, cext>>

\* Variant: noOnchip is counted down on every return.
LeaveDecrements ==
  /\ pc = "leave"
  /\ used' = Mark /\ marks' = SubSeq(marks, 1, Len(marks) - 1)
  /\ noOnchip' = noOnchip - 1
  /\ Goto(IF Len(marks) = 1 THEN "returned" ELSE "unwind")
  /\ UNCHANGED <<drv, caps, op, arenaFailed, prod, rng, rq, res>>
(* the call that got through releases its arena; the calls it redid return *)
Leave ==
  /\ pc = "leave"
  /\ used' = Mark /\ marks' = SubSeq(marks, 1, Len(marks) - 1)
  /\ Goto(IF Len(marks) = 1 THEN "returned" ELSE "unwind")
  /\ UNCHANGED <<drv, caps, op, arenaFailed, noOnchip, prod, rng, rq, res>>

Unwind ==
  /\ pc = "unwind"
  /\ marks' = SubSeq(marks, 1, Len(marks) - 1) /\ noOnchip' = noOnchip - 1
  /\ Goto(IF Len(marks) = 1 THEN "returned" ELSE "unwind")
  /\ UNCHANGED <<drv, caps, op, used, arenaFailed, prod, rng, rq, res>>

---------------------------------------------------------------------------
(* LayerNorm: z of every token, each channel's extremes and from them the  *)
(* output's scale, then the output.  The block does it in its two phases,  *)
(* or each half in a job collected at once; what it declines, for a shape, *)
(* a scale or a feature, or does not finish, the CPU does.                 *)
Outcome == IF usable THEN {"declined", "done", "failed"} ELSE {"declined"}
Lost(o) == usable' = (usable /\ o # "failed") /\ UNCHANGED <<pend, blk>>

LnUnchanged == UNCHANGED <<caps, op, marks, noOnchip, prod, rng, rq, rstOut, cext>>

layernorm_affine ==    \* without its buffers, or for N odd, in 32 bits
  /\ pc = "ln"
  /\ \E fits \in BOOLEAN :
       /\ arenaFailed' = (arenaFailed \/ ~fits)
       /\ IF fits /\ Is("even") THEN used' = used + 3 /\ Goto("ln_a")
                                ELSE used' = Mark /\ Goto("ln_cpu")
  /\ UNCHANGED <<drv, out, norm>> /\ LnUnchanged

LnPhaseA ==            \* dav2_accel_ln_a: z stays in the block
  /\ pc = "ln_a"
  /\ \E o \in Outcome : Lost(o) /\ Goto(IF o = "done" THEN "ln_b" ELSE "ln_z")
  /\ UNCHANGED <<used, arenaFailed, out, norm>> /\ LnUnchanged

LnPhaseB ==            \* dav2_accel_ln_b
  /\ pc = "ln_b"
  /\ \E o \in Outcome :
       /\ Lost(o) /\ Goto(IF o = "done" THEN "leave" ELSE "ln_z")
       /\ out' = CASE o = "done" -> "right" [] o = "failed" -> "wrong" [] OTHER -> out
  /\ UNCHANGED <<used, arenaFailed, norm>> /\ LnUnchanged

LnExtremes ==          \* zst, for the channels' extremes; else they are found in z
  /\ pc = "ln_z" /\ Goto("rq")
  /\ \E fits \in BOOLEAN : Alloc(1, fits) /\ zst' = IF fits THEN "junk" ELSE "none"
  /\ half' = 1 /\ UNCHANGED <<drv, z, out>> /\ LnUnchanged

layernorm_affine_cpu == \* z and its extremes by the CPU, the output by a job
  /\ pc = "ln_cpu"
  /\ \E fits \in BOOLEAN :
       /\ Alloc(3, fits)
       /\ IF fits THEN z' = "right" /\ half' = 2 /\ Goto("rq")
                  ELSE UNCHANGED <<z, half>> /\ Goto("leave")
  /\ UNCHANGED <<drv, zst, out>> /\ LnUnchanged

(* requant16.  The first half makes z, and its extremes if they are asked  *)
(* for, of x; the second the output, of z with the scale of its extremes   *)
ZAsked == half = 1 /\ zst # "none"
From   == IF half = 1 \/ (z = "right" /\ zst \in {"none", "right"}) THEN "right" ELSE "wrong"
Into(v, st) == IF half = 1
                 THEN z' = v /\ zst' = (IF ZAsked THEN st ELSE zst) /\ UNCHANGED out
                 ELSE out' = v /\ UNCHANGED <<z, zst>>
NextHalf == half' = 2 /\ Goto(IF half = 1 THEN "rq" ELSE "leave")

requant16(l, else) ==  \* a job: one that stops half-way leaves what it wrote
  /\ pc = l
  /\ \E o \in Outcome :
       /\ Lost(o)
       /\ \/ o = "done" /\ Into(From, From) /\ NextHalf
          \/ o = "declined" /\ Goto(else) /\ UNCHANGED <<out, norm>>
          \/ o = "failed" /\ Goto(else) /\ Into("wrong", "wrong") /\ UNCHANGED half
  /\ UNCHANGED <<used, arenaFailed>> /\ LnUnchanged

Requant16Stats == requant16("rq", IF ZAsked THEN "rq_plain" ELSE "rq_cpu")
Requant16Plain == requant16("rq_plain", "rq_cpu")  \* the extremes by the CPU
Requant16Cpu ==
  /\ pc = "rq_cpu" /\ Into(From, From) /\ NextHalf
  /\ UNCHANGED <<drv, used, arenaFailed>> /\ LnUnchanged

---------------------------------------------------------------------------
(* the caller takes the result                                             *)
Return ==
  /\ pc = "returned" /\ Goto("idle")
  /\ Clear /\ made' = FALSE /\ torn' = FALSE /\ out' = "junk" /\ cext' = "junk" /\ rstOut' = "no"
  /\ UNCHANGED <<drv, caps, op, mem>>

---------------------------------------------------------------------------
(* The block and the rows made in the waits.                               *)
StatWord ==            \* a row's largest value, then its smallest
  /\ pend.kind \in {"acc", "chip"} /\ blk = "run" /\ tiles
  /\ \E m \in 1..StatRows :
       /\ \A l \in 1..(m - 1) : slot[l] = "both"
       /\ slot[m] # "both"
       /\ slot' = [slot EXCEPT ![m] = IF @ = "empty" THEN "max" ELSE "both"]
  /\ UNCHANGED <<usable, pend, blk, caps, pc, op, mem, prod, r, ext, rngUsed, torn, rq, res>>

Result == IF useOnchip THEN chip ELSE acc
JobEnd ==
  /\ pend # NoJob /\ blk = "run"
  /\ pend.kind \in {"acc", "chip"} /\ tiles => \A m \in 1..StatRows : slot[m] = "both"
  /\ blk' = "ok"
  /\ acc'  = IF pend.kind = "acc"  THEN Product(op.cv /\ ByBlock) ELSE acc
  /\ chip' = IF pend.kind = "chip" THEN Product(op.cv /\ ByBlock) ELSE chip
  /\ x2'   = IF pend.kind = "ext2" THEN (IF ext \subseteq {"both"} THEN "right" ELSE "wrong") ELSE x2
  /\ chunk' = IF pend.kind # "chunk" THEN chunk
              ELSE [chunk EXCEPT ![pend.n] =
                      IF Result = "right" /\ (dpar \/ par[pend.n] = "right")
                         THEN dav2_add("right") ELSE "wrong"]
  /\ UNCHANGED <<usable, pend, caps, pc, op, mem, made, rect, useOnchip, run, tiles, rng, dpar, par,
                 lut, rstBuf, res>>

JobFails ==            \* a bus error, or a time-out
  /\ pend # NoJob /\ blk = "run" /\ blk' = "bad"
  /\ UNCHANGED <<usable, pend, caps, pc, op, mem, prod, rng, rq, res>>

---------------------------------------------------------------------------
Init ==
  /\ usable \in BOOLEAN /\ caps \in CapSets /\ pend = NoJob /\ blk = "ok"
  /\ pc = "idle" /\ op = Plain /\ marks = <<>> /\ used = 0 /\ arenaFailed = FALSE /\ noOnchip = 0
  /\ made = FALSE /\ rect = FALSE /\ useOnchip = FALSE /\ run = 0 /\ tiles = FALSE
  /\ acc = "junk" /\ chip = "junk"
  /\ slot = [m \in 1..StatRows |-> "empty"] /\ r = 1 /\ ext = {} /\ rngUsed = FALSE
  /\ dpar = FALSE /\ par = [c \in 1..Chunks |-> "junk"] /\ x2 = "junk"
  /\ chunk = [c \in 1..Chunks |-> "junk"] /\ lut = FALSE /\ rstBuf = "no"
  /\ out = "junk" /\ rstOut = "no" /\ cext = "junk" /\ torn = FALSE
  /\ z = "junk" /\ zst = "none" /\ half = 1

qgemm_impl ==
  \/ Begin \/ InputRelu \/ AllocAcc \/ ConvOnchip \/ ConvDdr \/ Im2col \/ GemmOnchip \/ GemmDdr
  \/ CpuGemm \/ AfterProduct \/ RangeRow \/ RangeDone \/ ExtremesJob \/ ExtremesDone \/ Prepare
  \/ ChunkJob \/ ChunksDone \/ Success \/ Declined \/ Convert \/ RedoOnCpu \/ Leave \/ Unwind \/ Return
LayerNorm ==
  \/ layernorm_affine \/ LnPhaseA \/ LnPhaseB \/ LnExtremes \/ layernorm_affine_cpu
  \/ Requant16Stats \/ Requant16Plain \/ Requant16Cpu
Next == qgemm_impl \/ LayerNorm \/ StatWord \/ JobEnd \/ JobFails

Spec == Init /\ [][Next]_vars

---------------------------------------------------------------------------
PCs == {"idle", "relu", "alloc", "conv", "im2col", "gemm", "cpu_gemm", "range", "pass", "ext2",
        "ext2fin", "prepare", "rows", "success", "declined", "convert", "redo", "leave",
        "unwind", "returned", "ln", "ln_a", "ln_b", "ln_z", "ln_cpu", "rq", "rq_plain", "rq_cpu"}
Jobs == {NoJob, Job("acc", 0), Job("chip", 0), Job("ext2", 0)}
        \cup {Job("chunk", c) : c \in 1..Chunks}

TypeOK ==
  /\ usable \in BOOLEAN /\ caps \subseteq Caps /\ pend \in Jobs /\ blk \in {"run", "ok", "bad"}
  /\ pc \in PCs /\ op \in OpType
  /\ marks \in Seq(Nat) /\ used \in Nat /\ arenaFailed \in BOOLEAN /\ noOnchip \in Nat
  /\ made \in BOOLEAN /\ rect \in BOOLEAN /\ useOnchip \in BOOLEAN
  /\ run \in 0..2 /\ tiles \in BOOLEAN /\ acc \in Value /\ chip \in Value
  /\ slot \in [1..StatRows -> {"empty", "max", "both"}] /\ r \in Nat \ {0}
  /\ ext \subseteq {"empty", "max", "both", "wrong"}
  /\ rngUsed \in BOOLEAN /\ torn \in BOOLEAN
  /\ dpar \in BOOLEAN /\ par \in [1..Chunks -> Value] /\ x2 \in Value
  /\ chunk \in [1..Chunks -> Value] /\ lut \in BOOLEAN
  /\ rstBuf \in {"no", "asked", "sums_only"}
  /\ z \in Value /\ zst \in Value \cup {"none"} /\ half \in 1..2
  /\ out \in Value /\ rstOut \in Value \cup {"no"} /\ cext \in Value

(* "The accelerator failed mid-operation ... every path is now the CPU's"  *)
(* (dav2_ops.c 1254-1256): whatever was declined or failed, in whichever   *)
(* job, the caller gets the right result, the row ranges and the column    *)
(* extremes of that result or none, unless the arena was exhausted or a    *)
(* row's statistics were read between their two words.                     *)
ResultRight ==
  pc = "returned" /\ ~arenaFailed /\ ~torn
    => out = "right" /\ rstOut \in {"no", "right"} /\ (WantExt => cext = "right")

(* However often an operation was redone, it gives back the arena it took, *)
(* leaves no job running and qgemm_no_onchip as it was; it is redone at    *)
(* most twice (once off the chip, once without the block).                 *)
ArenaKept ==
  /\ pc = "returned" => used = 0 /\ pend = NoJob /\ noOnchip = 0 /\ marks = <<>>
  /\ Len(marks) <= 3
=============================================================================
