------------------------------ MODULE Accel ------------------------------
(* The accelerator driver (src/src/sw/project/dav2_accel.c) and the block *)
(* behind it, under the most general client: any entry point, in any      *)
(* order, with a producer of the input rows that may start LERP jobs of   *)
(* its own inside another operation.  An operation is a sequence of jobs  *)
(* ("tiles"); a job is a START written to the block and a bounded wait.   *)
(* Shapes, addresses and results are left out: an operation is its needs, *)
(* the driver globals it sets and clears, and the number of its jobs.     *)
EXTENDS Integers, Sequences, FiniteSets

CONSTANTS
  MaxCalls,   \* bound on the number of operations of a behaviour
  MaxTiles,   \* jobs of one operation
  Rows,       \* rows a producer makes; tile t of an operation reads rows 1..t
  MayFail,    \* the self-tests that may find wrong results or break the block
  CapSets,    \* the feature bits GEMM_CAPS may show
  CallSet     \* the calls the client makes

ASSUME BoundsAssumption ==
  /\ MaxCalls \in Nat /\ MaxTiles \in Nat \ {0}
  /\ Rows \in Nat

CapBits   == {"lut", "a16", "w16", "ostats", "onchip", "greuse", "osums",
              "grelu", "ln", "rng", "smx"}
Presumed  == {"gather", "epi", "attcr", "tp"}    \* start as 1, cleared by a test
Found     == {"wsh", "lutint", "lerp"}           \* start as 0, set by a test
Features  == CapBits \cup Presumed \cup Found

ASSUME CapsAssumption == CapSets \subseteq SUBSET CapBits

Modes == {"conv_relu", "conv_onchip", "gemm_ctrl", "gemm_wsh", "cr_base",
          "rq_onchip", "rq_msums", "out_stride", "in_pitch"}

(* async: left running; split: partial sums; norange: clears accel_rng_on; *)
(* make: asks the producer for rows; stats: returns row statistics; lnA,   *)
(* lnB: the two LayerNorm phases                                           *)
Flags == {"async", "split", "norange", "make", "stats", "lnA", "lnB"}

(* rng: where accel_rng_begin is called: never, before the checks, after   *)
(* the check of the feature alone, after all of them; or that this call    *)
(* was declined before it                                                  *)
CallType == [needs : SUBSET Features, sets : SUBSET Modes, clears : SUBSET Modes,
             tiles : 1..MaxTiles, flags : SUBSET Flags,
             rng : {"no", "outer", "feature", "checked", "skipped"}]

VARIABLES
  ok,        \* accel_ok
  feats,     \* the accel_*_ok flags that are set
  failed,    \* self-tests that ran and did not find the right results
  test,      \* the self-test to run next
  pc,        \* where the driver is: boot, ready, need, start, wait, took, return
  why,       \* whose job it waits for: own, settle, finish, lerp
  want,      \* that job
  ret,       \* what the operation returns: 0 declined or failed, 1 done, 2 left running
  call,      \* the operation in progress
  n,         \* operations started
  tile,      \* its current job
  modes,     \* driver globals that differ from their defaults
  defer,     \* accel_defer
  pend,      \* pend.active
  left,      \* the job pend stands for
  jobs,      \* accel_jobs
  lnTag,     \* ln_a_jobs
  lnCall,    \* history: the last LayerNorm A done since jobs was reset, 0 for none
  armed, on, first, valid,   \* accel_rng_armed, _on, _first, _valid
  rngCall,   \* the operation valid speaks of: [n, tiles, stats]
  kind, made, hs,            \* the producer (none, cpu, lerp), rows made, rows prepared
  busy, err, \* GEMM_STATUS
  job,       \* the job the block runs
  jobRng,    \* with CTRL.rng
  last,      \* the last job it ran to the end without an error
  range,     \* the jobs whose rows its range registers cover
  ln         \* the operation whose LayerNorm statistics it holds, 0 for none

bootVars == <<feats, failed, test>>
opVars   == <<call, n, modes>>
pendVars == <<pend, left>>
lnVars   == <<lnTag, lnCall>>
rngVars  == <<armed, on, first, valid, rngCall>>
prodVars == <<kind, made, hs>>
blkVars  == <<busy, err, job, jobRng, last, range, ln>>
ctlVars  == <<pc, why, want, ret>>
vars     == <<ok, bootVars, ctlVars, opVars, tile, defer, pendVars, jobs, lnVars,
              rngVars, prodVars, blkVars>>

NoJob  == <<0, 0>>
NoTag  == -1                       \* ~0ul
Min2(a, b) == IF a < b THEN a ELSE b

---------------------------------------------------------------------------
(* The operations.  An inner function gives the plain call, a wrapper adds *)
(* what it sets, clears and asks for.                                      *)
Op(needs, tiles, flags) == [needs |-> needs, sets |-> {}, clears |-> {},
                            tiles |-> tiles, flags |-> flags, rng |-> "no"]
Async(c)        == [c EXCEPT !.flags = @ \cup {"async"}]
Need(c, f)      == [c EXCEPT !.needs = @ \cup f]
With(c, s, r)   == [c EXCEPT !.sets = @ \cup s, !.clears = @ \cup r]
Ranged(c, when) == [c EXCEPT !.rng = when]

NoCall == Op({}, 1, {})
Tiles  == 1..MaxTiles

(* accel_run: one job per tile, whose rows the producer makes first *)
Run(needs, flags) == {Op(needs, t, flags \cup {"make"}) : t \in Tiles}
(* accel_requant_rows *)
RequantRows(needs) == {Op(needs, t, {}) : t \in Tiles}

GemmRaw       == Run({}, {})
GemmRawAsync  == {Async(c) : c \in GemmRaw}
Qgemm         == Run({}, {"stats"}) \cup Run({}, {}) \cup Run({}, {"split"})
QgemmAsync    == {Ranged(Async(c), "outer") : c \in Qgemm}
QgemmOnchip   == {Ranged(With(Async(c), {"gemm_ctrl"}, {"gemm_ctrl"}), "checked") :
                    c \in {Op({"onchip"}, 1, {"make", "stats"})}}

Gemm16        == {With(Async(c), {"gemm_ctrl"}, {"gemm_ctrl"}) : c \in Run({"w16"}, {})}
Gemm16Shift   == Gemm16 \cup {Need(With(c, {"gemm_wsh"}, {"gemm_wsh"}), {"wsh"}) : c \in Gemm16}
Gemm16Cr      == {With(Async(Need(c, f)), {"gemm_ctrl", "cr_base"}, {"gemm_ctrl", "cr_base"}) :
                    c \in Run({"onchip", "attcr", "w16"}, {}), f \in {{}, {"wsh"}}}

Conv          == Run({"gather"}, {"stats"}) \cup Run({"gather"}, {}) \cup Run({"gather"}, {"split", "norange"})
ConvAsync     == {Ranged(Async(c), "outer") : c \in Conv}
                 \cup {Ranged(With(Async(Need(c, {"grelu"})), {"conv_relu"}, {"conv_relu"}),
                              "outer") : c \in Conv}
ConvOnchip    == {Ranged(With(Async(Need(c, {"onchip"})), {"conv_onchip"}, {"conv_onchip"}),
                         "feature") : c \in Run({"gather"}, {"stats"})}

Requant       == RequantRows({})
RequantStride == {With(c, {"out_stride"}, {"out_stride"}) : c \in Requant}
RequantRowsAsync == UNION {{Async(c) : c \in RequantRows(f)} :
                      f \in {{}, {"epi"}, {"lut"}, {"lut", "lutint"}, {"ostats"},
                             {"ostats", "osums"}, {"onchip"}, {"rng"}}}
RequantLut    == {With(Async(c), {"out_stride"}, {"out_stride"}) : c \in RequantRows({"lut"})}
RequantLutCr  == {With(Need(c, {"onchip", "attcr"}), {"rq_onchip", "cr_base"},
                       {"rq_onchip", "cr_base"}) : c \in RequantLut}
RequantStrideAsync == {With(Async(c), {"out_stride"}, {"out_stride"}) : c \in RequantRows({})}
RequantStrideCr == {With(Need(c, {"onchip", "attcr"}), {"rq_onchip", "cr_base"},
                         {"rq_onchip", "cr_base"}) : c \in RequantStrideAsync}
Exp           == {With(Need(c, {"smx"}), {"rq_msums"}, {"rq_msums"}) :
                    c \in RequantLut \cup RequantLutCr}
\* Variant: in_pitch is not put back.
NormKeepsPitch == {With(Async(c), {"in_pitch", "out_stride"}, {"out_stride"}) :
                    c \in RequantRows({"smx", "a16"})}
Norm16        == {With(Async(c), {"in_pitch", "out_stride"}, {"in_pitch", "out_stride"}) :
                    c \in RequantRows({"smx", "a16"})}
Transpose16   == {With(Async(c), {"in_pitch", "out_stride"}, {"in_pitch", "out_stride"}) :
                    c \in RequantRows({"a16", "tp"})}
Requant16     == RequantRows({"a16"}) \cup RequantRows({"a16", "ostats"})

Lerp          == {Async(Op({"lerp"}, 1, {}))}
LnA           == {Op({"ln"}, 1, {"lnA"})}
LnB           == {Op({"ln"}, 1, {"lnB"})}

Calls == GemmRaw \cup GemmRawAsync \cup Qgemm \cup QgemmAsync \cup QgemmOnchip
         \cup Gemm16 \cup Gemm16Shift \cup Gemm16Cr \cup Conv \cup ConvAsync \cup ConvOnchip
         \cup Requant \cup RequantStride \cup RequantRowsAsync \cup RequantLut
         \cup RequantLutCr \cup RequantStrideAsync \cup RequantStrideCr \cup Exp
         \cup Norm16 \cup Transpose16 \cup Requant16 \cup Lerp \cup LnA \cup LnB

ASSUME CallSetAssumption == CallSet \subseteq Calls

---------------------------------------------------------------------------
(* The self-tests, in the order of dav2_accel_check.  Each runs a few jobs *)
(* by itself, so it is one step here: its results are right, they are      *)
(* wrong, or the block fails it (bus error or time-out).                   *)
Order == <<"main", "gather", "greuse", "grelu", "epi", "lut", "lutint", "a16", "w16", "wsh",
           "ostats", "osums", "lerp", "onchip", "attcr", "tp", "ln", "rng", "smx">>

Pass(f)   == /\ feats' = feats \cup (IF f \in Found THEN {f} ELSE {})
             /\ UNCHANGED <<failed, ok>>
\* Variant: a failed self-test leaves its feature on.
WrongKept(f) == failed' = failed \cup {f} /\ UNCHANGED <<feats, ok>>
Wrong(f)  == feats' = feats \ {f} /\ failed' = failed \cup {f} /\ UNCHANGED ok
Broken(f) == feats' = feats \ {f} /\ failed' = failed \cup {f} /\ ok' = FALSE

(* a test that applies: without the block it fails like a broken one *)
Try(f) == \/ ok /\ Pass(f)
          \/ ok /\ f \in MayFail /\ (Wrong(f) \/ Broken(f))
          \/ ~ok /\ Broken(f)
Check(f, needs) == /\ Order[test] = f
                   /\ IF needs \subseteq feats THEN Try(f) ELSE UNCHANGED <<feats, failed, ok>>

(* the plain GEMM: without it the block is not used at all *)
CheckMain == /\ Order[test] = "main"
             /\ \/ ok /\ Pass("main")
                \/ (~ok \/ "main" \in MayFail) /\ Broken("main")
CheckGather   == Check("gather", {}) \/ Check("greuse", {"gather", "greuse"})
                 \/ Check("grelu", {"gather", "grelu"})
CheckEpilogue == Check("epi", {})
CheckLut      == Check("lut", {"lut"}) \/ Check("lutint", {"lut"})
CheckA16      == Check("a16", {"a16"})
CheckW16      == Check("w16", {"w16"}) \/ Check("wsh", {"w16"})
CheckOstats   == Check("ostats", {"ostats"})
CheckOsums    == \/ Check("osums", {"ostats", "osums"}) /\ {"ostats", "osums"} \subseteq feats
                 \/ /\ Order[test] = "osums" /\ ~({"ostats", "osums"} \subseteq feats)
                    /\ feats' = feats \ {"osums"} /\ UNCHANGED <<failed, ok>>
CheckLerp     == Check("lerp", {})
CheckOnchip   == Check("onchip", {"onchip"})
CheckAttcr    == Check("attcr", {"onchip", "w16"})
CheckTp       == Check("tp", {"a16"})
CheckLn       == Check("ln", {"ln"})
CheckRng      == Check("rng", {"rng"})
CheckSmx      == Check("smx", {"smx", "a16"})

SelfTest ==
  /\ pc = "boot"
  /\ CheckMain \/ CheckGather \/ CheckEpilogue \/ CheckLut \/ CheckA16 \/ CheckW16
     \/ CheckOstats \/ CheckOsums \/ CheckLerp \/ CheckOnchip \/ CheckAttcr \/ CheckTp
     \/ CheckLn \/ CheckRng \/ CheckSmx
  /\ test' = test + 1
  /\ pc' = IF test = Len(Order) \/ "main" \in failed' THEN "ready" ELSE "boot"
  /\ UNCHANGED <<why, want, ret, opVars, tile, defer, pendVars, jobs, lnVars, rngVars,
                 prodVars, blkVars>>

---------------------------------------------------------------------------
(* Entering an operation.                                                  *)
Is(f) == f \in call.flags

\* Variant: phase B is taken with a job still running.
AcceptsLnB(c) == ok /\ c.needs \subseteq feats /\ ("lnB" \in c.flags => lnTag = jobs)
(* a call outside the contract (shapes, alignment) is declined as well     *)
Accepts(c) ==
  /\ ok /\ c.needs \subseteq feats
  /\ "lnB" \in c.flags => lnTag = jobs /\ ~pend

\* Variant: the first job does not restart the range registers.
KeepsRange ==
  /\ \E fits \in BOOLEAN : on' = (armed /\ "rng" \in feats /\ fits)
  /\ first' = FALSE /\ valid' = FALSE /\ armed' = FALSE
  /\ UNCHANGED rngCall
(* fits: the operation has no more than 2048 weight rows                   *)
accel_rng_begin ==
  /\ \E fits \in BOOLEAN : on' = (armed /\ "rng" \in feats /\ fits)
  /\ first' = on' /\ valid' = FALSE /\ armed' = FALSE
  /\ UNCHANGED rngCall

Begins(c, accepted) == \/ c.rng = "outer"
                       \/ c.rng = "feature" /\ ok /\ "onchip" \in feats
                       \/ c.rng = "checked" /\ accepted
(* a call declined before accel_rng_begin leaves the range of the          *)
(* operation before it as it was                                           *)
Begin(c, accepted) ==
  IF Begins(c, accepted) THEN accel_rng_begin /\ call' = c
  ELSE /\ UNCHANGED rngVars
       /\ call' = IF c.rng = "no" THEN c ELSE [c EXCEPT !.rng = "skipped"]

\* Variant: a job left running is not collected first.
Unsettled(accepted) ==
  IF ~accepted THEN pc' = "return" /\ ret' = 0 /\ UNCHANGED <<why, want, pendVars>>
  ELSE pc' = "need" /\ UNCHANGED <<why, want, ret, pendVars>>
\* Variant: the collected job stays marked as pending.
SettleKeeps(accepted) ==
  IF ~accepted THEN pc' = "return" /\ ret' = 0 /\ UNCHANGED <<why, want, pendVars>>
  ELSE IF pend THEN want' = left /\ why' = "settle" /\ pc' = "wait" /\ UNCHANGED <<ret, pendVars>>
  ELSE pc' = "need" /\ UNCHANGED <<why, want, ret, pendVars>>
(* an accepted operation first collects a job left running                 *)
Settle(accepted) ==
  IF ~accepted
    THEN pc' = "return" /\ ret' = 0 /\ UNCHANGED <<why, want, pendVars>>
  ELSE IF pend
    THEN /\ pend' = FALSE /\ left' = NoJob /\ want' = left /\ why' = "settle" /\ pc' = "wait"
         /\ UNCHANGED ret
  ELSE pc' = "need" /\ UNCHANGED <<why, want, ret, pendVars>>

Enter(c) ==
  /\ pc = "ready" /\ n < MaxCalls
  /\ n' = n + 1 /\ tile' = 1
  /\ modes' = modes \cup c.sets
  /\ defer' = (defer \/ ("async" \in c.flags /\ "split" \notin c.flags))
  /\ \E accepted \in {Accepts(c), FALSE} :
       /\ Begin(c, accepted) /\ Settle(accepted)
       /\ lnTag' = IF "lnA" \in c.flags \/ ("lnB" \in c.flags /\ accepted) THEN NoTag ELSE lnTag
  /\ UNCHANGED <<ok, bootVars, jobs, lnCall, prodVars, blkVars>>

Call == \E c \in CallSet : Enter(c)

(* every wrapper puts the driver globals back, whatever happened           *)
Return ==
  /\ pc = "return" /\ pc' = "ready"
  /\ call' = NoCall /\ tile' = 1 /\ want' = NoJob /\ why' = "own" /\ ret' = 0
  /\ modes' = modes \ call.clears
  /\ defer' = (defer /\ ~Is("async"))
  /\ IF call.rng \in {"no", "skipped"} THEN UNCHANGED rngVars
     ELSE /\ valid' = (on /\ ret # 0) /\ on' = FALSE
          /\ rngCall' = [n |-> n, tiles |-> call.tiles, stats |-> Is("stats")]
          /\ first' = FALSE /\ UNCHANGED armed
  /\ UNCHANGED <<ok, bootVars, n, pendVars, jobs, lnVars,
                 prodVars, blkVars>>

(* dav2_accel_finish, called by the client                                 *)
Finish ==
  /\ pc = "ready" /\ pend
  /\ pend' = FALSE /\ left' = NoJob /\ want' = left /\ why' = "finish" /\ pc' = "wait"
  /\ UNCHANGED <<ok, bootVars, ret, opVars, tile, defer, jobs, lnVars, rngVars,
                 prodVars, blkVars>>

---------------------------------------------------------------------------
(* The jobs of an operation.                                               *)
(* CTRL_START is ignored while the block runs.  The statistics of a        *)
(* LayerNorm are in the tile and the tables that every job overwrites, the *)
(* phase B that uses them too.                                             *)
Start(id, rng) ==
  IF busy THEN UNCHANGED blkVars
  ELSE /\ busy' = TRUE /\ err' = FALSE /\ job' = id /\ jobRng' = rng
       /\ range' = IF rng /\ first THEN {} ELSE range
       /\ ln' = 0
       /\ UNCHANGED last

Missing == Is("make") /\ kind # "none" /\ made < Min2(tile, Rows)

(* dav2_producer_need: the rows of this tile, on the CPU or as LERP jobs   *)
MakeOnCpu ==
  /\ pc = "need" /\ Missing
  /\ IF kind = "lerp" /\ hs <= made THEN hs' = hs + 1 /\ UNCHANGED made
     ELSE made' = made + 1 /\ UNCHANGED hs
  /\ UNCHANGED <<ok, bootVars, ctlVars, opVars, tile, defer, pendVars, jobs, lnVars, rngVars,
                 kind, blkVars>>

\* Variant: a nested LERP leaves the deferral of the operation around it.
LerpKeepsDefer ==
  /\ pc = "need" /\ Missing /\ kind = "lerp" /\ hs > made /\ ok /\ "lerp" \in feats /\ ~pend
  /\ Start(<<n, 0>>, FALSE)
  /\ want' = <<n, 0>> /\ why' = "lerp" /\ pc' = "wait"
  /\ UNCHANGED <<ok, bootVars, ret, opVars, tile, defer, pendVars, jobs, lnVars, rngVars, prodVars>>

MakeByLerp ==                     \* dav2_accel_lerp_async and dav2_accel_finish
  /\ pc = "need" /\ Missing /\ kind = "lerp" /\ hs > made
  /\ ok /\ "lerp" \in feats /\ ~pend
  /\ Start(<<n, 0>>, FALSE)
  /\ defer' = FALSE
  /\ want' = <<n, 0>> /\ why' = "lerp" /\ pc' = "wait"
  /\ UNCHANGED <<ok, bootVars, ret, opVars, tile, pendVars, jobs, lnVars, rngVars, prodVars>>

InputReady ==
  /\ pc = "need" /\ ~Missing
  /\ pc' = "start"
  /\ on' = (on /\ ~Is("norange"))
  /\ UNCHANGED <<ok, bootVars, why, want, ret, opVars, tile, defer, pendVars, jobs, lnVars,
                 armed, first, valid, rngCall, prodVars, blkVars>>

\* Variant: one tile too many.
OneTooMany == tile > call.tiles
LastTile   == tile = call.tiles

StartJob ==
  /\ pc = "start"
  /\ Start(<<n, tile>>, on)
  /\ first' = (first /\ ~on)
  /\ IF defer /\ LastTile
       THEN /\ pend' = TRUE /\ left' = <<n, tile>>     \* accel_maybe_defer
            /\ ret' = 2 /\ pc' = "return" /\ UNCHANGED <<why, want>>
       ELSE /\ want' = <<n, tile>> /\ why' = "own" /\ pc' = "wait"
            /\ UNCHANGED <<ret, pendVars>>
  /\ UNCHANGED <<ok, bootVars, opVars, tile, defer, jobs, lnVars, armed, on, valid, rngCall,
                 prodVars>>

---------------------------------------------------------------------------
(* The bounded wait: accel_wait_simple, and the same loop in accel_run.    *)
CanIdle == \/ kind = "cpu" /\ made < Rows
           \/ kind = "lerp" /\ hs < Rows

Idle ==                           \* dav2_producer_idle made a row meanwhile
  /\ pc = "wait" /\ busy /\ CanIdle
  /\ IF kind = "cpu" THEN made' = made + 1 /\ UNCHANGED hs
     ELSE hs' = hs + 1 /\ UNCHANGED made
  /\ UNCHANGED <<ok, bootVars, ctlVars, opVars, tile, defer, pendVars, jobs, lnVars, rngVars,
                 kind, blkVars>>

Took ==
  /\ pc = "wait" /\ ~busy /\ ~err
  /\ pc' = "took"
  /\ UNCHANGED <<ok, bootVars, why, want, ret, opVars, tile, defer, pendVars, jobs, lnVars,
                 rngVars, prodVars, blkVars>>

(* a failed LERP chunk is made on the CPU and the operation goes on        *)
Fail ==
  /\ ok' = FALSE
  /\ CASE why \in {"own", "settle"} -> pc' = "return" /\ ret' = 0 /\ UNCHANGED made
       [] why = "finish" -> pc' = "ready" /\ UNCHANGED <<ret, made>>
       [] why = "lerp"   -> pc' = "need" /\ made' = made + 1 /\ UNCHANGED ret
  /\ UNCHANGED <<bootVars, why, want, opVars, tile, defer, pendVars, jobs, lnVars, rngVars,
                 kind, hs, blkVars>>

\* Variant: only the operation's own wait is bounded.
WaitsForEver == pc = "wait" /\ busy /\ ~CanIdle /\ why = "own" /\ Fail
TimeOut  == pc = "wait" /\ busy /\ ~CanIdle /\ Fail
BusError == pc = "wait" /\ ~busy /\ err /\ Fail

(* the driver accounts for the job and goes on                             *)
Account ==
  /\ pc = "took"
  /\ jobs' = jobs + 1
  /\ CASE why = "own" /\ ~LastTile ->
            pc' = "need" /\ tile' = tile + 1 /\ UNCHANGED <<ret, lnVars, made>>
       [] why = "own" /\ LastTile ->
            /\ pc' = "return" /\ ret' = 1 /\ UNCHANGED <<tile, made>>
            /\ IF Is("lnA") THEN lnTag' = jobs' /\ lnCall' = n ELSE UNCHANGED lnVars
       [] why = "settle" -> pc' = "need" /\ UNCHANGED <<tile, ret, lnVars, made>>
       [] why = "finish" -> pc' = "ready" /\ UNCHANGED <<tile, ret, lnVars, made>>
       [] why = "lerp"   -> pc' = "need" /\ made' = made + 1 /\ UNCHANGED <<tile, ret, lnVars>>
  /\ UNCHANGED <<ok, bootVars, why, want, opVars, defer, pendVars, rngVars, kind, hs, blkVars>>

---------------------------------------------------------------------------
(* What else the client does between operations.                           *)
ClientFrame == <<ok, bootVars, ctlVars, opVars, tile, defer, pendVars, lnTag, blkVars>>

ArmRange ==                       \* dav2_accel_rng_next: armed if its numbers fit
  /\ pc = "ready" /\ armed' \in BOOLEAN
  /\ UNCHANGED <<ClientFrame, jobs, lnCall, on, first, valid, rngCall, prodVars>>

GetRange ==                       \* dav2_accel_rng_get
  /\ pc = "ready" /\ valid /\ ~pend
  /\ valid' = FALSE
  /\ UNCHANGED <<ClientFrame, jobs, lnCall, armed, on, first, rngCall, prodVars>>

SetProducer ==                    \* dav2_producer_set, between operations
  /\ pc = "ready"
  /\ kind' \in {"none", "cpu", "lerp"} /\ made' = 0 /\ hs' = 0
  /\ UNCHANGED <<ClientFrame, jobs, lnCall, rngVars>>

(* dav2_accel_report: the count of jobs starts again, ln_a_jobs stays      *)
Report ==
  /\ pc = "ready" /\ ok
  /\ jobs' = 0 /\ lnCall' = 0
  /\ UNCHANGED <<ClientFrame, rngVars, prodVars>>

---------------------------------------------------------------------------
(* The block (student_gemm.sv): a job ends in ST_FINISH, with or without a *)
(* bus error (e), or never.  Its rows are in the range registers either    *)
(* way.                                                                    *)
BlockEnd(e) ==
  /\ busy /\ busy' = FALSE /\ err' = e
  /\ last' = IF e THEN NoJob ELSE job
  /\ range' = IF jobRng THEN range \cup {job} ELSE range
  /\ ln' = IF ~e /\ job[1] = n /\ Is("lnA") /\ job[2] # 0 THEN n ELSE ln
  /\ UNCHANGED <<ok, bootVars, ctlVars, opVars, tile, defer, pendVars, jobs, lnVars, rngVars,
                 prodVars, job, jobRng>>

Block == \E e \in BOOLEAN : BlockEnd(e)

---------------------------------------------------------------------------
dav2_accel_init ==
  /\ ok \in BOOLEAN
  /\ \E caps \in CapSets : feats = Presumed \cup (IF ok THEN caps ELSE {})

Init ==
  /\ dav2_accel_init
  /\ failed = {} /\ test = 1
  /\ pc = "boot" /\ why = "own" /\ want = NoJob /\ ret = 0
  /\ call = NoCall /\ n = 0 /\ tile = 1 /\ modes = {} /\ defer = FALSE
  /\ pend = FALSE /\ left = NoJob
  /\ jobs = 0 /\ lnTag = NoTag /\ lnCall = 0
  /\ armed = FALSE /\ on = FALSE /\ first = FALSE /\ valid = FALSE
  /\ rngCall = [n |-> 0, tiles |-> 1, stats |-> FALSE]
  /\ kind = "none" /\ made = 0 /\ hs = 0
  /\ busy = FALSE /\ err = FALSE /\ job = NoJob /\ jobRng = FALSE /\ last = NoJob
  /\ range = {} /\ ln = 0

Driver == SelfTest \/ Return \/ MakeOnCpu \/ MakeByLerp \/ InputReady \/ StartJob \/ Idle
          \/ Took \/ TimeOut \/ BusError \/ Account
Client == Call \/ Finish \/ ArmRange \/ GetRange \/ SetProducer \/ Report
Next   == Driver \/ Client \/ Block

Spec == Init /\ [][Next]_vars /\ WF_vars(Driver)

---------------------------------------------------------------------------
JobId == Nat \X Nat

TypeOK ==
  /\ ok \in BOOLEAN /\ feats \subseteq Features
  /\ failed \subseteq Features \cup {"main"} /\ test \in 1..Len(Order) + 1
  /\ pc \in {"boot", "ready", "need", "start", "wait", "took", "return"}
  /\ why \in {"own", "settle", "finish", "lerp"} /\ want \in JobId /\ ret \in 0..2
  /\ call \in CallType /\ n \in Nat /\ tile \in 1..call.tiles /\ modes \subseteq Modes
  /\ defer \in BOOLEAN /\ pend \in BOOLEAN /\ left \in JobId
  /\ jobs \in Nat /\ lnTag \in Nat \cup {NoTag} /\ lnCall \in Nat
  /\ armed \in BOOLEAN /\ on \in BOOLEAN /\ first \in BOOLEAN /\ valid \in BOOLEAN
  /\ rngCall \in [n : Nat, tiles : Tiles, stats : BOOLEAN]
  /\ kind \in {"none", "cpu", "lerp"} /\ made \in Nat /\ hs \in Nat
  /\ busy \in BOOLEAN /\ err \in BOOLEAN /\ job \in JobId /\ jobRng \in BOOLEAN
  /\ last \in JobId /\ range \subseteq JobId /\ ln \in Nat

(* While the driver trusts the block, a job it takes as done is the job it *)
(* waited for, and that job ran to its end: with one job at a time, jobs   *)
(* left running, and LERP jobs started inside other operations.            *)
SuccessMeansDone == pc = "took" /\ ok => last = want

(* "Every entry point first settles a pending one" (dav2_accel.c 274): a   *)
(* job left running is the block's current one until it is collected, and  *)
(* a disabled block has none.                                              *)
NothingLeftBehind ==
  /\ ~ok => ~pend
  /\ pend => left = job /\ (busy \/ err \/ last = left)

(* A range the client may take is that of a whole operation: every tile's  *)
(* rows, no other operation's, and not of partial sums.                    *)
RangeWhole ==
  pc = "ready" /\ ok /\ valid /\ ~pend /\ rngCall.stats
    => range = {rngCall.n} \X (1..rngCall.tiles)

(* LayerNorm's phase B finds the statistics of the phase A the client made *)
(* last: no job came between (dav2_accel.c 997-999), if the count of jobs  *)
(* was not reset since that phase A.                                       *)
PairedLn == pc = "start" /\ Is("lnB") /\ lnCall # 0 => ln = lnCall

(* A job runs with exactly the modes its own call asked for: none is left  *)
(* over from an operation that was declined or failed half-way.            *)
JobAsAsked == pc = "start" => modes = call.sets /\ (defer => Is("async"))

(* Nothing a self-test found wanting is used afterwards.                   *)
FailedUnused ==
  /\ pc = "start" => call.needs \cap failed = {}
  /\ pc = "wait" /\ why = "lerp" => "lerp" \notin failed

(* "At most one job is ever outstanding" (dav2_accel.c 273), as the rest   *)
(* of the program sees it.                                                 *)
Slot == INSTANCE AccelJob WITH usable <- ok, slot <- pend
SlotKept == Slot!Spec

(* Every operation returns, even when the block hangs for good.            *)
CallReturns == (pc \notin {"ready", "boot"}) ~> (pc = "ready")
=============================================================================
