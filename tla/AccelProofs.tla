---------------------------- MODULE AccelProofs ----------------------------
(* Proofs about Accel: one job at a time.  The block's current job is the  *)
(* one the driver waits for, or the one it left running; from which a job  *)
(* taken as done was done, nothing is left behind a disabled block, and    *)
(* the driver implements AccelJob.  Then the modes, the features, the      *)
(* ranges and the two phases of LayerNorm.                                 *)
EXTENDS Accel, TLAPS

Trusted ==
  ok => /\ pc \in {"boot", "need", "start", "wait", "took"} => ~pend
        /\ pc \in {"boot", "need", "start", "took"} => ~busy
        /\ pc \in {"ready", "return"} /\ busy => pend
        /\ pc \in {"wait", "took"} => want = job
        /\ pc = "wait" => busy \/ err \/ last = want
        /\ pc = "took" => last = want
        /\ pend => left = job /\ (busy \/ err \/ last = left)

(* after the block was given up, an operation that goes on leaves no job   *)
GivenUp ==
  /\ ~ok => ~pend
  /\ ~ok /\ pc \in {"need", "start", "wait", "took"} => ~defer
  /\ pc \in {"wait", "took"} /\ why = "lerp" => ~defer

PcOK == /\ pc \in {"boot", "ready", "need", "start", "wait", "took", "return"}
        /\ why \in {"own", "settle", "finish", "lerp"}
        /\ ok \in BOOLEAN /\ pend \in BOOLEAN /\ busy \in BOOLEAN /\ err \in BOOLEAN
        /\ defer \in BOOLEAN

OneJob == PcOK /\ Trusted /\ GivenUp

LEMMA InitOneJob == Init => OneJob
BY DEF Init, dav2_accel_init, OneJob, PcOK, Trusted, GivenUp

USE DEF OneJob, PcOK, Trusted, GivenUp

LEMMA SelfTestOneJob == OneJob /\ SelfTest => OneJob'
<1> SUFFICES ASSUME OneJob, SelfTest PROVE OneJob'
  OBVIOUS
<1>1. pc = "boot" /\ pc' \in {"ready", "boot"} /\ (ok' = ok \/ ok' = FALSE)
  BY DEF SelfTest, CheckMain, CheckGather, CheckEpilogue, CheckLut, CheckA16, CheckW16, CheckOstats,
     CheckOsums, CheckLerp, CheckOnchip, CheckAttcr, CheckTp, CheckLn, CheckRng, CheckSmx, Check,
     Try, Pass, Wrong, Broken
<1>2. UNCHANGED <<why, want, defer, pend, left, busy, err, job, last>>
  BY DEF SelfTest, opVars, pendVars, blkVars
<1>3. pend = FALSE /\ pend' = FALSE
  BY <1>1, <1>2
<1>4. ok' \in BOOLEAN
  BY <1>1
<1>5. ok' => busy' = FALSE
  BY <1>1, <1>2
<1>6. PcOK'
  BY <1>1, <1>2, <1>3, <1>4
<1>7. Trusted'
  BY <1>1, <1>3, <1>5
<1>8. GivenUp'
  BY <1>1, <1>3
<1> QED
  BY <1>6, <1>7, <1>8

LEMMA EnterOneJob == OneJob /\ Call => OneJob'
<1> SUFFICES ASSUME OneJob, NEW c \in CallSet, Enter(c) PROVE OneJob'
  BY DEF Call
<1>1. PICK accepted \in {Accepts(c), FALSE} : Settle(accepted)
  BY DEF Enter
<1>2. pc = "ready" /\ UNCHANGED <<ok, busy, err, job, last>> /\ defer' \in BOOLEAN
  BY DEF Enter, blkVars
<1>3. accepted => ok
  BY DEF Accepts
<1>4. CASE ~accepted
  BY <1>1, <1>2, <1>4 DEF Settle, pendVars, Enter
<1>5. CASE accepted /\ pend
  BY <1>1, <1>2, <1>3, <1>5 DEF Settle, pendVars
<1>6. CASE accepted /\ ~pend
  BY <1>1, <1>2, <1>3, <1>6 DEF Settle, pendVars
<1> QED
  BY <1>4, <1>5, <1>6

(* a job the driver waits for, or leaves running, is now the block's       *)
LEMMA StartJobOneJob == OneJob /\ StartJob => OneJob'
<1> SUFFICES ASSUME OneJob, StartJob PROVE OneJob'
  OBVIOUS
<1>1. pc = "start" /\ ok' = ok /\ defer' = defer /\ pend = FALSE
  BY DEF StartJob
<1>2. CASE defer /\ LastTile
  <2>1. ok /\ busy = FALSE /\ defer
    BY <1>1, <1>2
  <2>2. busy' = TRUE /\ err' = FALSE /\ job' = <<n, tile>> /\ last' = last
    BY <2>1 DEF StartJob, Start
  <2>3. pend' = TRUE /\ left' = <<n, tile>> /\ pc' = "return" /\ why' = why /\ want' = want
    BY <1>2 DEF StartJob
  <2>4. PcOK'
    BY <1>1, <2>2, <2>3
  <2>5. Trusted'
    BY <2>2, <2>3
  <2>6. GivenUp'
    BY <1>1, <2>1, <2>3
  <2> QED
    BY <2>4, <2>5, <2>6
<1>3. CASE ~(defer /\ LastTile)
  <2>1. pend' = FALSE /\ left' = left /\ pc' = "wait" /\ why' = "own" /\ want' = <<n, tile>>
    BY <1>1, <1>3 DEF StartJob, pendVars
  <2>2. busy' \in BOOLEAN /\ err' \in BOOLEAN
    BY DEF StartJob, Start, blkVars
  <2>3. ok => busy' = TRUE /\ job' = <<n, tile>>
    BY <1>1 DEF StartJob, Start
  <2>4. PcOK'
    BY <1>1, <2>1, <2>2
  <2>5. Trusted'
    BY <1>1, <2>1, <2>3
  <2>6. GivenUp'
    BY <1>1, <2>1
  <2> QED
    BY <2>4, <2>5, <2>6
<1> QED
  BY <1>2, <1>3

LEMMA LerpOneJob == OneJob /\ MakeByLerp => OneJob'
<1> SUFFICES ASSUME OneJob, MakeByLerp PROVE OneJob'
  OBVIOUS
<1>1. ok /\ ok' = ok /\ defer' = FALSE /\ pend = FALSE /\ pend' = FALSE /\ busy = FALSE
  BY DEF MakeByLerp, pendVars
<1>2. busy' = TRUE /\ err' = FALSE /\ job' = <<n, 0>>
  BY <1>1 DEF MakeByLerp, Start
<1>3. want' = <<n, 0>> /\ why' = "lerp" /\ pc' = "wait"
  BY DEF MakeByLerp
<1>4. PcOK'
  BY <1>1, <1>2, <1>3
<1>5. Trusted'
  BY <1>1, <1>2, <1>3
<1>6. GivenUp'
  BY <1>1
<1> QED
  BY <1>4, <1>5, <1>6

(* the end of a wait: the block is given up with nothing left running      *)
LEMMA FailOneJob == OneJob /\ pc = "wait" /\ Fail => OneJob'
<1> SUFFICES ASSUME OneJob, pc = "wait", Fail PROVE OneJob'
  OBVIOUS
<1>1. ok' = FALSE /\ pend = FALSE /\ UNCHANGED <<why, want, defer, pend, left, busy, err, job, last>>
  BY DEF Fail, pendVars, blkVars
<1>2. pc' \in {"return", "ready", "need"} /\ (pc' = "need" => why = "lerp")
  BY DEF Fail
<1>3. PcOK'
  BY <1>1, <1>2
<1>4. Trusted'
  BY <1>1
<1>5. GivenUp'
  BY <1>1, <1>2
<1> QED
  BY <1>3, <1>4, <1>5

LEMMA TookOneJob == OneJob /\ Took => OneJob'
BY DEF Took, pendVars, blkVars

LEMMA AccountOneJob == OneJob /\ Account => OneJob'
<1> SUFFICES ASSUME OneJob, Account PROVE OneJob'
  OBVIOUS
<1>1. pc = "took" /\ UNCHANGED <<ok, why, want, defer, pend, left, busy, err, job, last>>
  BY DEF Account, pendVars, blkVars
<1>2. pc' \in {"need", "return", "ready"}
  BY DEF Account
<1>3. PcOK'
  BY <1>1, <1>2
<1>4. Trusted'
  BY <1>1, <1>2
<1>5. GivenUp'
  BY <1>1, <1>2
<1> QED
  BY <1>3, <1>4, <1>5

LEMMA FinishOneJob == OneJob /\ Finish => OneJob'
<1> SUFFICES ASSUME OneJob, Finish PROVE OneJob'
  OBVIOUS
<1>1. /\ pc = "ready" /\ pc' = "wait" /\ why' = "finish" /\ pend = TRUE /\ pend' = FALSE /\ want' = left
      /\ ok = TRUE /\ UNCHANGED <<ok, defer, busy, err, job, last>>
  BY DEF Finish, blkVars
<1>2. PcOK'
  BY <1>1
<1>3. Trusted'
  BY <1>1
<1>4. GivenUp'
  BY <1>1
<1> QED
  BY <1>2, <1>3, <1>4

LEMMA ReturnOneJob == OneJob /\ Return => OneJob'
<1> SUFFICES ASSUME OneJob, Return PROVE OneJob'
  OBVIOUS
<1>1. /\ pc = "return" /\ pc' = "ready" /\ why' = "own" /\ defer' \in BOOLEAN
      /\ UNCHANGED <<ok, pend, left, busy, err, job, last>>
  BY DEF Return, pendVars, blkVars
<1>2. PcOK'
  BY <1>1
<1>3. Trusted'
  BY <1>1
<1>4. GivenUp'
  BY <1>1
<1> QED
  BY <1>2, <1>3, <1>4

LEMMA InputReadyOneJob == OneJob /\ InputReady => OneJob'
BY DEF InputReady, pendVars, blkVars

LEMMA BlockOneJob == OneJob /\ Block => OneJob'
<1> SUFFICES ASSUME OneJob, NEW e \in BOOLEAN, BlockEnd(e) PROVE OneJob'
  BY DEF Block
<1>1. /\ busy = TRUE /\ busy' = FALSE /\ err' = e /\ (e = FALSE => last' = job) /\ job' = job
      /\ UNCHANGED <<ok, pc, why, want, defer, pend, left>>
  BY DEF BlockEnd, ctlVars, pendVars
<1>2. PcOK'
  BY <1>1
<1>3. Trusted'
  BY <1>1
<1>4. GivenUp'
  BY <1>1
<1> QED
  BY <1>2, <1>3, <1>4

(* the steps that touch neither the driver's waits nor the block           *)
LEMMA OtherOneJob ==
  OneJob /\ (MakeOnCpu \/ Idle \/ ArmRange \/ GetRange \/ SetProducer \/ Report \/ UNCHANGED vars)
    => OneJob'
BY DEF MakeOnCpu, Idle, ArmRange, GetRange, SetProducer, Report, ClientFrame, ctlVars, pendVars,
       blkVars, vars

(* every step of the driver is one of AccelJob or none of its business     *)
LEMMA StepRefines == OneJob /\ [Next]_vars => [Slot!Next]_(Slot!jobVars)
<1> SUFFICES ASSUME OneJob, [Next]_vars PROVE Slot!Next \/ UNCHANGED <<ok, pend>>
  BY DEF Slot!jobVars
<1>1. CASE SelfTest
  <2>1. pc = "boot" /\ (ok' = ok \/ ok' = FALSE)
    BY <1>1 DEF SelfTest, CheckMain, CheckGather, CheckEpilogue, CheckLut, CheckA16, CheckW16,
       CheckOstats, CheckOsums, CheckLerp, CheckOnchip, CheckAttcr, CheckTp, CheckLn, CheckRng,
       CheckSmx, Check, Try, Pass, Wrong, Broken
  <2>2. pend' = pend /\ pend = FALSE
    BY <1>1, <2>1 DEF SelfTest, pendVars
  <2> QED
    BY <2>1, <2>2 DEF Slot!Next, Slot!Disable
<1>2. CASE Call
  <2>1. PICK c \in CallSet : Enter(c)
    BY <1>2 DEF Call
  <2>2. ok' = ok
    BY <2>1 DEF Enter
  <2>3. PICK accepted \in {Accepts(c), FALSE} : Settle(accepted)
    BY <2>1 DEF Enter
  <2> QED
    BY <2>2, <2>3 DEF Settle, pendVars, Slot!Next, Slot!Collect
<1>3. CASE Finish
  BY <1>3 DEF Finish, Slot!Next, Slot!Collect
<1>4. CASE StartJob
  <2>1. pc = "start" /\ ok' = ok /\ pend = FALSE
    BY <1>4 DEF StartJob
  <2>2. CASE defer /\ LastTile
    <3>1. ok /\ pend' = TRUE
      BY <1>4, <2>1, <2>2 DEF StartJob
    <3> QED
      BY <2>1, <3>1 DEF Slot!Next, Slot!Leave
  <2>3. CASE ~(defer /\ LastTile)
    BY <1>4, <2>1, <2>3 DEF StartJob, pendVars
  <2> QED
    BY <2>2, <2>3
<1>5. CASE TimeOut \/ BusError
  <2>1. ok' = FALSE /\ pend = FALSE /\ pend' = pend
    BY <1>5 DEF TimeOut, BusError, Fail, pendVars
  <2> QED
    BY <2>1 DEF Slot!Next, Slot!Disable
<1>6. CASE Return \/ MakeOnCpu \/ MakeByLerp \/ InputReady \/ Idle \/ Took \/ Account
  BY <1>6 DEF Return, MakeOnCpu, MakeByLerp, InputReady, Idle, Took, Account, pendVars
<1>7. CASE ArmRange \/ GetRange \/ SetProducer \/ Report \/ Block \/ UNCHANGED vars
  BY <1>7 DEF ArmRange, GetRange, SetProducer, Report, ClientFrame, Block, BlockEnd, vars, pendVars
<1> QED
  BY <1>1, <1>2, <1>3, <1>4, <1>5, <1>6, <1>7 DEF Next, Driver, Client

HIDE DEF OneJob, PcOK, Trusted, GivenUp

(* One job at a time: the block runs the job the driver waits for or the   *)
(* one it left running (dav2_accel.c 269-331), whatever operations and     *)
(* producers the program chains and whichever jobs fail.                   *)
THEOREM OneJobAlways == Spec => []OneJob
<1>1. OneJob /\ [Next]_vars => OneJob'
  <2> SUFFICES ASSUME OneJob, [Next]_vars PROVE OneJob'
    OBVIOUS
  <2>1. CASE SelfTest
    BY <2>1, SelfTestOneJob
  <2>2. CASE Return
    BY <2>2, ReturnOneJob
  <2>3. CASE MakeByLerp
    BY <2>3, LerpOneJob
  <2>4. CASE InputReady
    BY <2>4, InputReadyOneJob
  <2>5. CASE StartJob
    BY <2>5, StartJobOneJob
  <2>6. CASE Took
    BY <2>6, TookOneJob
  <2>7. CASE TimeOut \/ BusError
    BY <2>7, FailOneJob DEF TimeOut, BusError
  <2>8. CASE Account
    BY <2>8, AccountOneJob
  <2>9. CASE Call
    BY <2>9, EnterOneJob
  <2>10. CASE Finish
    BY <2>10, FinishOneJob
  <2>11. CASE Block
    BY <2>11, BlockOneJob
  <2>12. CASE MakeOnCpu \/ Idle \/ ArmRange \/ GetRange \/ SetProducer \/ Report \/ UNCHANGED vars
    BY <2>12, OtherOneJob
  <2> QED
    BY <2>1, <2>2, <2>3, <2>4, <2>5, <2>6, <2>7, <2>8, <2>9, <2>10, <2>11, <2>12
    DEF Next, Driver, Client
<1> QED
  BY InitOneJob, <1>1, PTL DEF Spec

(* A job the driver takes as done, while it trusts the block, is the one   *)
(* it waited for and that one ran to its end (accel_wait_simple).          *)
THEOREM TakenIsDone == Spec => []SuccessMeansDone
<1>1. OneJob => SuccessMeansDone
  BY DEF SuccessMeansDone, OneJob, PcOK, Trusted
<1> QED
  BY <1>1, OneJobAlways, PTL

(* A job left running is the block's current one until the next operation  *)
(* or dav2_accel_finish collects it, and a disabled block has none.        *)
THEOREM LeftIsCollected == Spec => []NothingLeftBehind
<1>1. OneJob => NothingLeftBehind
  BY DEF NothingLeftBehind, OneJob, PcOK, Trusted, GivenUp
<1> QED
  BY <1>1, OneJobAlways, PTL

(* dav2_accel.c, with its nested LERP jobs, deferred ends and failures,    *)
(* implements AccelJob: at most one job is left running, it is taken up    *)
(* before the block is given up, and a block given up stays so.            *)
THEOREM ImplementsAccelJob == Spec => SlotKept
<1>1. Init => Slot!Init
  BY DEF Init, dav2_accel_init, Slot!Init
<1> QED
  BY <1>1, StepRefines, OneJobAlways, PTL DEF Spec, SlotKept, Slot!Spec

---------------------------------------------------------------------------
(* The calls: each clears exactly the driver globals it sets.              *)
Balanced(c) == c \in CallType /\ c.sets = c.clears

(* All calls but LayerNorm's have neither of its flags, whatever a wrapper *)
(* adds to them.                                                           *)
PlainFlags == Flags \ {"lnA", "lnB"}
Plain(c)   == Balanced(c) /\ c.flags \subseteq PlainFlags

LEMMA OpBalanced ==
  ASSUME NEW needs \in SUBSET Features, NEW t \in Tiles, NEW flags \in SUBSET PlainFlags
  PROVE  Plain(Op(needs, t, flags))
BY DEF Plain, Balanced, PlainFlags, Op, CallType, Tiles

LEMMA AsyncBalanced == ASSUME NEW c, Plain(c) PROVE Plain(Async(c))
BY DEF Plain, Balanced, Async, CallType, PlainFlags, Flags

LEMMA NeedBalanced ==
  ASSUME NEW c, Plain(c), NEW f \in SUBSET Features PROVE Plain(Need(c, f))
BY DEF Plain, Balanced, Need, CallType

LEMMA WithBalanced ==
  ASSUME NEW c, Plain(c), NEW s \in SUBSET Modes PROVE Plain(With(c, s, s))
BY DEF Plain, Balanced, With, CallType

LEMMA RangedBalanced ==
  ASSUME NEW c, Plain(c), NEW when \in {"outer", "feature", "checked"} PROVE Plain(Ranged(c, when))
BY DEF Plain, Balanced, Ranged, CallType

LEMMA RunBalanced ==
  ASSUME NEW needs \in SUBSET Features, NEW flags \in SUBSET PlainFlags, NEW c \in Run(needs, flags)
  PROVE  Plain(c)
<1>1. PICK t \in Tiles : c = Op(needs, t, flags \cup {"make"})
  BY DEF Run
<1>2. flags \cup {"make"} \in SUBSET PlainFlags
  BY DEF PlainFlags, Flags
<1> QED
  BY <1>1, <1>2, OpBalanced

LEMMA RowsBalanced ==
  ASSUME NEW needs \in SUBSET Features, NEW c \in RequantRows(needs) PROVE Plain(c)
<1>1. PICK t \in Tiles : c = Op(needs, t, {})
  BY DEF RequantRows
<1> QED
  BY <1>1, OpBalanced

LEMMA GemmBalanced ==
  ASSUME NEW c \in GemmRaw \cup GemmRawAsync \cup Qgemm \cup QgemmAsync \cup QgemmOnchip
  PROVE  Plain(c)
<1>1. \A d \in GemmRaw : Plain(d)
  BY RunBalanced DEF GemmRaw
<1>2. \A d \in Qgemm : Plain(d)
  BY RunBalanced DEF Qgemm, PlainFlags, Flags
<1>3. CASE c \in GemmRawAsync
  BY <1>1, <1>3, AsyncBalanced DEF GemmRawAsync
<1>4. CASE c \in QgemmAsync
  <2>1. PICK d \in Qgemm : c = Ranged(Async(d), "outer")
    BY <1>4 DEF QgemmAsync
  <2>2. Plain(Async(d))
    BY <1>2, AsyncBalanced
  <2> QED
    BY <2>1, <2>2, RangedBalanced
<1>5. CASE c \in QgemmOnchip
  <2> DEFINE d == Op({"onchip"}, 1, {"make", "stats"})
  <2>1. c = Ranged(With(Async(d), {"gemm_ctrl"}, {"gemm_ctrl"}), "checked")
    BY <1>5 DEF QgemmOnchip
  <2>2. Plain(d)
    BY OpBalanced, BoundsAssumption DEF Features, CapBits, PlainFlags, Flags, Tiles
  <2>3. Plain(Async(d))
    BY <2>2, AsyncBalanced
  <2>4. Plain(With(Async(d), {"gemm_ctrl"}, {"gemm_ctrl"}))
    BY <2>3, WithBalanced DEF Modes
  <2> QED
    BY <2>1, <2>4, RangedBalanced
<1> QED
  BY <1>1, <1>2, <1>3, <1>4, <1>5

LEMMA AsyncWithBalanced ==
  ASSUME NEW c, Plain(c), NEW s \in SUBSET Modes PROVE Plain(With(Async(c), s, s))
BY AsyncBalanced, WithBalanced

LEMMA Gemm16Balanced ==
  ASSUME NEW c \in Gemm16 \cup Gemm16Shift \cup Gemm16Cr PROVE Plain(c)
<1>1. \A d \in Gemm16 : Plain(d)
  <2> SUFFICES ASSUME NEW d \in Gemm16 PROVE Plain(d)
    OBVIOUS
  <2>1. PICK e \in Run({"w16"}, {}) : d = With(Async(e), {"gemm_ctrl"}, {"gemm_ctrl"})
    BY DEF Gemm16
  <2>2. Plain(e)
    BY RunBalanced DEF Features, CapBits
  <2> QED
    BY <2>1, <2>2, AsyncWithBalanced DEF Modes
<1>2. CASE c \in Gemm16Shift \ Gemm16
  <2>1. PICK d \in Gemm16 : c = Need(With(d, {"gemm_wsh"}, {"gemm_wsh"}), {"wsh"})
    BY <1>2 DEF Gemm16Shift
  <2>2. Plain(With(d, {"gemm_wsh"}, {"gemm_wsh"}))
    BY <1>1, WithBalanced DEF Modes
  <2> QED
    BY <2>1, <2>2, NeedBalanced DEF Features, Found
<1>3. CASE c \in Gemm16Cr
  <2>1. PICK d \in Run({"onchip", "attcr", "w16"}, {}), f \in {{}, {"wsh"}} :
          c = With(Async(Need(d, f)), {"gemm_ctrl", "cr_base"}, {"gemm_ctrl", "cr_base"})
    BY <1>3 DEF Gemm16Cr
  <2>2. Plain(d)
    BY RunBalanced DEF Features, CapBits, Presumed
  <2>3. Plain(Need(d, f))
    BY <2>2, NeedBalanced DEF Features, Found
  <2> QED
    BY <2>1, <2>3, AsyncWithBalanced DEF Modes
<1> QED
  BY <1>1, <1>2, <1>3

LEMMA ConvBalanced ==
  ASSUME NEW c \in Conv \cup ConvAsync \cup ConvOnchip PROVE Plain(c)
<1>1. \A d \in Conv : Plain(d)
  BY RunBalanced DEF Conv, Features, Presumed, PlainFlags, Flags
<1>2. ASSUME NEW d \in Conv PROVE Plain(Ranged(Async(d), "outer"))
  BY <1>1, AsyncBalanced, RangedBalanced
<1>3. ASSUME NEW d \in Conv
      PROVE  Plain(Ranged(With(Async(Need(d, {"grelu"})), {"conv_relu"}, {"conv_relu"}), "outer"))
  <2>1. Plain(Need(d, {"grelu"}))
    BY <1>1, NeedBalanced DEF Features, CapBits
  <2>2. Plain(With(Async(Need(d, {"grelu"})), {"conv_relu"}, {"conv_relu"}))
    BY <2>1, AsyncWithBalanced DEF Modes
  <2> QED
    BY <2>2, RangedBalanced
<1>4. CASE c \in ConvAsync
  BY <1>2, <1>3, <1>4 DEF ConvAsync
<1>5. CASE c \in ConvOnchip
  <2>1. PICK d \in Run({"gather"}, {"stats"}) :
          c = Ranged(With(Async(Need(d, {"onchip"})), {"conv_onchip"}, {"conv_onchip"}), "feature")
    BY <1>5 DEF ConvOnchip
  <2>2. Plain(d)
    BY RunBalanced DEF Features, Presumed, PlainFlags, Flags
  <2>3. Plain(Need(d, {"onchip"}))
    BY <2>2, NeedBalanced DEF Features, CapBits
  <2>4. Plain(With(Async(Need(d, {"onchip"})), {"conv_onchip"}, {"conv_onchip"}))
    BY <2>3, AsyncWithBalanced DEF Modes
  <2> QED
    BY <2>1, <2>4, RangedBalanced
<1> QED
  BY <1>1, <1>4, <1>5

LEMMA RequantBalanced ==
  ASSUME NEW c \in Requant \cup RequantStride \cup RequantRowsAsync \cup Requant16 PROVE Plain(c)
<1>1. ASSUME NEW d \in Requant PROVE Plain(d)
  BY <1>1, RowsBalanced DEF Requant
<1>2. CASE c \in RequantStride
  <2>1. PICK d \in Requant : c = With(d, {"out_stride"}, {"out_stride"})
    BY <1>2 DEF RequantStride
  <2> QED
    BY <2>1, <1>1, WithBalanced DEF Modes
<1>3. CASE c \in RequantRowsAsync
  <2>1. PICK f \in SUBSET Features : c \in {Async(d) : d \in RequantRows(f)}
    BY <1>3 DEF RequantRowsAsync, Features, CapBits, Presumed, Found
  <2>2. PICK d \in RequantRows(f) : c = Async(d)
    BY <2>1
  <2> QED
    BY <2>2, RowsBalanced, AsyncBalanced
<1>4. CASE c \in Requant16
  BY <1>4, RowsBalanced DEF Requant16, Features, CapBits
<1> QED
  BY <1>1, <1>2, <1>3, <1>4

LEMMA StrideBalanced ==
  ASSUME NEW needs \in SUBSET Features, NEW s \in SUBSET Modes, NEW c \in RequantRows(needs)
  PROVE  Plain(With(Async(c), s, s))
BY RowsBalanced, AsyncWithBalanced

LEMMA AttentionBalanced ==
  ASSUME NEW c \in RequantLut \cup RequantLutCr \cup RequantStrideAsync \cup RequantStrideCr
                  \cup Exp \cup Norm16 \cup Transpose16
  PROVE  Plain(c)
<1>1. ASSUME NEW d \in RequantLut \cup RequantStrideAsync PROVE Plain(d)
  BY <1>1, StrideBalanced DEF RequantLut, RequantStrideAsync, Features, CapBits, Modes
<1> DEFINE Cr(d) == With(Need(d, {"onchip", "attcr"}), {"rq_onchip", "cr_base"}, {"rq_onchip", "cr_base"})
<1>2. ASSUME NEW d, Plain(d) PROVE Plain(Cr(d))
  <2>1. Plain(Need(d, {"onchip", "attcr"}))
    BY <1>2, NeedBalanced DEF Features, CapBits, Presumed
  <2> QED
    BY <2>1, WithBalanced DEF Modes
<1>3. ASSUME NEW d \in RequantLutCr \cup RequantStrideCr PROVE Plain(d)
  <2>1. PICK e \in RequantLut \cup RequantStrideAsync : d = Cr(e)
    BY <1>3 DEF RequantLutCr, RequantStrideCr
  <2> QED
    BY <2>1, <1>1, <1>2
<1>4. CASE c \in Exp
  <2>1. PICK d \in RequantLut \cup RequantLutCr :
          c = With(Need(d, {"smx"}), {"rq_msums"}, {"rq_msums"})
    BY <1>4 DEF Exp
  <2>2. Plain(d)
    BY <1>1, <1>3
  <2>3. Plain(Need(d, {"smx"}))
    BY <2>2, NeedBalanced DEF Features, CapBits
  <2> QED
    BY <2>1, <2>3, WithBalanced DEF Modes
<1>5. CASE c \in Norm16
  BY <1>5, StrideBalanced DEF Norm16, Features, CapBits, Modes
<1>6. CASE c \in Transpose16
  BY <1>6, StrideBalanced DEF Transpose16, Features, CapBits, Presumed, Modes
<1> QED
  BY <1>1, <1>3, <1>4, <1>5, <1>6

LEMMA LerpBalanced == ASSUME NEW c \in Lerp PROVE Plain(c)
<1>1. 1 \in Tiles
  BY BoundsAssumption DEF Tiles
<1>2. Plain(Op({"lerp"}, 1, {}))
  BY <1>1, OpBalanced DEF Features, Found
<1> QED
  BY <1>2, AsyncBalanced DEF Lerp

LEMMA LnBalanced ==
  ASSUME NEW c \in LnA \cup LnB
  PROVE  /\ Balanced(c) /\ c.tiles = 1 /\ "make" \notin c.flags
         /\ ~("lnA" \in c.flags /\ "lnB" \in c.flags)
<1>1. 1 \in Tiles
  BY BoundsAssumption DEF Tiles
<1> QED
  BY <1>1 DEF LnA, LnB, Op, Balanced, CallType, Tiles, Features, CapBits, Flags

(* Every entry point of the driver puts back the driver globals it sets.   *)
LEMMA CallsBalanced == \A c \in CallSet : Balanced(c)
BY CallSetAssumption, GemmBalanced, Gemm16Balanced, ConvBalanced, RequantBalanced,
   AttentionBalanced, LerpBalanced, LnBalanced DEF Calls, Plain

(* Only LayerNorm's two phases have its flags: one job each, no producer.  *)
LEMMA CallsOfLn ==
  \A c \in CallSet : "lnA" \in c.flags \/ "lnB" \in c.flags
                       => /\ c.tiles = 1 /\ "make" \notin c.flags
                          /\ ~("lnA" \in c.flags /\ "lnB" \in c.flags)
<1>1. \A c \in CallSet : c.flags \subseteq PlainFlags \/ c \in LnA \cup LnB
  BY CallSetAssumption, GemmBalanced, Gemm16Balanced, ConvBalanced, RequantBalanced,
     AttentionBalanced, LerpBalanced DEF Calls, Plain
<1> QED
  BY <1>1, LnBalanced DEF PlainFlags

(* the call in progress is the one made, but for where its range begins    *)
LEMMA BegunCall ==
  ASSUME NEW c \in CallType, NEW accepted, Begin(c, accepted)
  PROVE  /\ call' \in CallType
         /\ call'.needs = c.needs /\ call'.sets = c.sets /\ call'.clears = c.clears
         /\ call'.tiles = c.tiles /\ call'.flags = c.flags
         /\ c.rng # "no" => call'.rng # "no"
         /\ c.rng = "no" => call'.rng = "no"
         /\ call'.rng \notin {"no", "skipped"} => Begins(c, accepted)
<1>1. CASE Begins(c, accepted)
  BY <1>1 DEF Begin, Begins
<1>2. CASE ~Begins(c, accepted) /\ c.rng = "no"
  BY <1>2 DEF Begin
<1>3. CASE ~Begins(c, accepted) /\ c.rng # "no"
  <2>1. call' = [c EXCEPT !.rng = "skipped"]
    BY <1>3 DEF Begin
  <2> QED
    BY <1>3, <2>1 DEF CallType
<1> QED
  BY <1>1, <1>2, <1>3

---------------------------------------------------------------------------
(* In an operation the driver globals are those of the call; between       *)
(* operations, and in dav2_accel_finish, they are at their defaults.       *)
Idling == pc \in {"boot", "ready"} \/ (pc \in {"wait", "took"} /\ why = "finish")

Asked == /\ Balanced(call)
         /\ Idling => modes = {} /\ defer = FALSE
         /\ ~Idling => modes = call.sets /\ (defer => Is("async"))

LEMMA AskedStep == OneJob /\ Asked /\ [Next]_vars => Asked'
<1> SUFFICES ASSUME OneJob, Asked, [Next]_vars PROVE Asked'
  OBVIOUS
<1> USE DEF Asked, Idling, Is
<1>0. PcOK
  BY DEF OneJob
<1>1. CASE SelfTest
  BY <1>1 DEF SelfTest, opVars
<1>2. CASE Call
  <2>1. PICK c \in CallSet : Enter(c)
    BY <1>2 DEF Call
  <2>5. PICK accepted \in {Accepts(c), FALSE} : Begin(c, accepted)
    BY <2>1 DEF Enter
  <2>6. Balanced(c) /\ c \in CallType
    BY CallsBalanced DEF Balanced
  <2>7. Balanced(call') /\ call'.sets = c.sets /\ call'.flags = c.flags
    BY <2>5, <2>6, BegunCall DEF Balanced
  <2>2. pc = "ready" /\ modes' = c.sets
    BY <2>1 DEF Enter
  <2>3. defer' => "async" \in c.flags
    BY <2>1, <2>2 DEF Enter
  <2>4. pc' \in {"return", "need"} \/ (pc' = "wait" /\ why' = "settle")
    BY <2>1 DEF Enter, Settle
  <2> QED
    BY <2>2, <2>3, <2>4, <2>7
<1>3. CASE Return
  <2>1. pc = "return" /\ pc' = "ready" /\ call' = NoCall /\ modes' = modes \ call.clears
    BY <1>3 DEF Return
  <2>2. Balanced(NoCall)
    BY SMTT(60), OpBalanced, BoundsAssumption DEF NoCall, Tiles, Plain
  <2>3. modes' = {}
    BY <2>1 DEF Balanced
  <2>4. defer' = FALSE
    BY <1>3, <2>1 DEF Return
  <2> QED
    BY <2>1, <2>2, <2>3, <2>4
<1>4. CASE Finish
  BY <1>4 DEF Finish, opVars
<1>5. CASE MakeOnCpu \/ Idle
  BY <1>5 DEF MakeOnCpu, Idle, ctlVars, opVars
<1>6. CASE MakeByLerp
  BY <1>6 DEF MakeByLerp, opVars
<1>7. CASE InputReady
  BY <1>7 DEF InputReady, opVars
<1>8. CASE StartJob
  BY <1>8 DEF StartJob, opVars
<1>9. CASE Took
  BY <1>9 DEF Took, opVars
<1>10. CASE TimeOut \/ BusError
  <2>1. pc = "wait" /\ UNCHANGED <<why, call, modes, defer>>
    BY <1>10 DEF TimeOut, BusError, Fail, opVars
  <2>2. (why = "finish" => pc' = "ready") /\ (why # "finish" => pc' \in {"return", "need"})
    BY <1>10, <1>0 DEF TimeOut, BusError, Fail, PcOK
  <2> QED
    BY <2>1, <2>2
<1>11. CASE Account
  <2>1. pc = "took" /\ UNCHANGED <<why, call, modes, defer>>
    BY <1>11 DEF Account, opVars
  <2>2. (why = "finish" => pc' = "ready") /\ (why # "finish" => pc' \in {"return", "need"})
    BY <1>11, <1>0 DEF Account, PcOK
  <2> QED
    BY <2>1, <2>2
<1>12. CASE ArmRange \/ GetRange \/ SetProducer \/ Report \/ Block \/ UNCHANGED vars
  BY <1>12 DEF ArmRange, GetRange, SetProducer, Report, ClientFrame, Block, BlockEnd, vars,
     ctlVars, opVars
<1> QED
  BY <1>1, <1>2, <1>3, <1>4, <1>5, <1>6, <1>7, <1>8, <1>9, <1>10, <1>11, <1>12
  DEF Next, Driver, Client

(* A job runs with exactly the modes its own call asked for, for every set *)
(* of calls: the wrappers of dav2_accel.c put each driver global back also *)
(* when the operation is declined, fails half-way, or is left running.     *)
THEOREM ModesAreTheCalls == Spec => []JobAsAsked
<1>1. Init => Asked
  BY OpBalanced, BoundsAssumption DEF Init, Asked, Idling, NoCall, Tiles, Plain
<1>2. Asked => JobAsAsked
  BY DEF Asked, Idling, JobAsAsked
<1> QED
  BY <1>1, <1>2, AskedStep, OneJobAlways, PTL DEF Spec

---------------------------------------------------------------------------
(* A failed test's feature is off, each test runs once, and an operation   *)
(* that goes on needs only what is on.                                     *)
Healthy ==
  /\ feats \cap failed = {}
  /\ test \in 1..Len(Order) + 1 /\ (pc = "boot" => test \in 1..Len(Order))
  /\ failed \subseteq {Order[i] : i \in 1..(test - 1)}
  /\ pc \in {"need", "start"} \/ (pc \in {"wait", "took"} /\ why \in {"own", "settle", "lerp"})
       => call.needs \subseteq feats
  /\ pc \in {"wait", "took"} /\ why = "lerp" => "lerp" \in feats

LEMMA OrderOnce ==
  /\ Len(Order) = 19
  /\ \A i, j \in 1..19 : Order[i] = Order[j] => i = j
BY DEF Order

LEMMA TestHealthy == Healthy /\ SelfTest => Healthy'
<1> SUFFICES ASSUME Healthy, SelfTest PROVE Healthy'
  OBVIOUS
<1> DEFINE f == Order[test]
<1>1. pc = "boot" /\ test' = test + 1 /\ test \in 1..19
  BY OrderOnce DEF SelfTest, Healthy
<1>2. \/ feats' \subseteq feats \cup {f} /\ failed' = failed
      \/ feats' = feats \ {f} /\ failed' = failed \cup {f}
  BY DEF SelfTest, CheckMain, CheckGather, CheckEpilogue, CheckLut, CheckA16, CheckW16,
     CheckOstats, CheckOsums, CheckLerp, CheckOnchip, CheckAttcr, CheckTp, CheckLn, CheckRng,
     CheckSmx, Check, Try, Pass, Wrong, Broken
<1>3. f \notin failed
  <2>1. SUFFICES ASSUME f \in failed PROVE FALSE
    OBVIOUS
  <2>2. PICK i \in 1..(test - 1) : f = Order[i]
    BY <2>1 DEF Healthy
  <2> QED
    BY <1>1, <2>2, OrderOnce
<1>4. feats' \cap failed' = {}
  BY <1>2, <1>3 DEF Healthy
<1>5. failed' \subseteq {Order[i] : i \in 1..(test' - 1)}
  <2>1. test' - 1 = test /\ 1..(test - 1) \subseteq 1..test /\ test \in 1..test
    BY <1>1
  <2>2. failed \subseteq {Order[i] : i \in 1..test}
    BY <2>1 DEF Healthy
  <2>3. f \in {Order[i] : i \in 1..test}
    BY <2>1
  <2> QED
    BY <1>2, <2>1, <2>2, <2>3
<1>6. pc' \in {"boot", "ready"} /\ (pc' = "boot" => test # 19)
  BY OrderOnce DEF SelfTest
<1>7. test' \in 1..20 /\ (pc' = "boot" => test' \in 1..19)
  BY <1>1, <1>6
<1>8. test' \in 1..Len(Order) + 1 /\ (pc' = "boot" => test' \in 1..Len(Order))
  BY <1>7, OrderOnce
<1> HIDE DEF f
<1> QED
  BY <1>4, <1>5, <1>6, <1>8 DEF Healthy

LEMMA HealthyStep == OneJob /\ Healthy /\ [Next]_vars => Healthy'
<1> SUFFICES ASSUME OneJob, Healthy, [Next]_vars PROVE Healthy'
  OBVIOUS
<1>0. PcOK
  BY DEF OneJob
<1>1. CASE SelfTest
  BY <1>1, TestHealthy
<1>2. ASSUME UNCHANGED <<feats, failed, test>>, pc # "boot", pc' # "boot",
             pc' \in {"need", "start"} \/ (pc' \in {"wait", "took"} /\ why' \in {"own", "settle", "lerp"})
               => call'.needs \subseteq feats,
             pc' \in {"wait", "took"} /\ why' = "lerp" => "lerp" \in feats
      PROVE  Healthy'
  BY <1>2 DEF Healthy
<1> HIDE DEF Healthy
<1>3. CASE Call
  <2>1. PICK c \in CallSet : Enter(c)
    BY <1>3 DEF Call
  <2>2. PICK accepted \in {Accepts(c), FALSE} : Begin(c, accepted) /\ Settle(accepted)
    BY <2>1 DEF Enter
  <2>3. accepted => c.needs \subseteq feats
    BY <2>2 DEF Accepts
  <2>6. c \in CallType
    BY CallsBalanced DEF Balanced
  <2>7. call'.needs = c.needs
    BY <2>2, <2>6, BegunCall
  <2>4. pc = "ready" /\ call'.needs = c.needs /\ UNCHANGED <<feats, failed, test>>
    BY <2>1, <2>7 DEF Enter, bootVars
  <2>5. \/ pc' = "return"
        \/ accepted /\ (pc' = "need" \/ (pc' = "wait" /\ why' = "settle"))
    BY <2>2 DEF Settle
  <2> QED
    BY <2>3, <2>4, <2>5, <1>2
<1>4. CASE Return
  BY <1>4, <1>2 DEF Return, bootVars
<1>5. CASE Finish
  BY <1>5, <1>2 DEF Finish, bootVars
<1>6. CASE MakeByLerp
  BY <1>6, <1>2 DEF MakeByLerp, bootVars, opVars, Healthy
<1>7. CASE InputReady
  BY <1>7, <1>2 DEF InputReady, bootVars, opVars, Healthy
<1>8. CASE StartJob
  BY <1>8, <1>2 DEF StartJob, bootVars, opVars, Healthy
<1>9. CASE Took
  BY <1>9, <1>2 DEF Took, bootVars, opVars, Healthy
<1>10. CASE TimeOut \/ BusError
  <2>1. pc = "wait" /\ UNCHANGED <<feats, failed, test, why, call>>
    BY <1>10 DEF TimeOut, BusError, Fail, bootVars, opVars
  <2>2. pc' \in {"return", "ready"} \/ (pc' = "need" /\ why = "lerp")
    BY <1>10, <1>0 DEF TimeOut, BusError, Fail, PcOK
  <2> QED
    BY <2>1, <2>2, <1>2 DEF Healthy
<1>11. CASE Account
  <2>1. pc = "took" /\ UNCHANGED <<feats, failed, test, why, call>>
    BY <1>11 DEF Account, bootVars, opVars
  <2>2. pc' \in {"return", "ready"} \/ (pc' = "need" /\ why \in {"own", "settle", "lerp"})
    BY <1>11, <1>0 DEF Account, PcOK
  <2> QED
    BY <2>1, <2>2, <1>2 DEF Healthy
<1>12. CASE MakeOnCpu \/ Idle \/ ArmRange \/ GetRange \/ SetProducer \/ Report \/ Block \/ UNCHANGED vars
  <2>1. UNCHANGED <<feats, failed, test, why, call, pc>>
    BY <1>12 DEF MakeOnCpu, Idle, ArmRange, GetRange, SetProducer, Report, ClientFrame, Block,
       BlockEnd, vars, ctlVars, opVars, bootVars
  <2> QED
    BY <2>1 DEF Healthy
<1> QED
  BY <1>1, <1>3, <1>4, <1>5, <1>6, <1>7, <1>8, <1>9, <1>10, <1>11, <1>12
  DEF Next, Driver, Client

(* What a self-test of dav2_accel_check found wanting is used by no        *)
(* operation and no nested LERP job, whichever tests fail.                 *)
THEOREM FailedAreUnused == Spec => []FailedUnused
<1>1. Init => Healthy
  BY OrderOnce DEF Init, dav2_accel_init, Healthy
<1>2. Healthy => FailedUnused
  BY DEF Healthy, FailedUnused
<1> QED
  BY <1>1, <1>2, HealthyStep, OneJobAlways, PTL DEF Spec

---------------------------------------------------------------------------
(* Type correctness.                                                       *)
LEMMA CallFields == \A c \in CallType : c.tiles \in Tiles /\ c.sets \subseteq Modes
BY DEF CallType, Tiles

LEMMA StartType ==
  ASSUME TypeOK, NEW id \in JobId, NEW rng \in BOOLEAN, Start(id, rng)
  PROVE  /\ busy' \in BOOLEAN /\ err' \in BOOLEAN /\ job' \in JobId /\ jobRng' \in BOOLEAN
         /\ last' \in JobId /\ range' \subseteq JobId /\ ln' \in Nat
<1>1. /\ busy \in BOOLEAN /\ err \in BOOLEAN /\ job \in JobId /\ jobRng \in BOOLEAN
      /\ last \in JobId /\ range \subseteq JobId /\ ln \in Nat
  BY DEF TypeOK
<1>2. CASE busy
  BY <1>1, <1>2 DEF Start, blkVars
<1>3. CASE ~busy
  <2>1. busy' = TRUE /\ err' = FALSE /\ job' = id /\ jobRng' = rng /\ last' = last
    BY <1>3 DEF Start
  <2>2. range' \subseteq JobId
    BY <1>1, <1>3 DEF Start
  <2>3. ln' \in Nat
    BY <1>1, <1>3 DEF Start
  <2> QED
    BY <1>1, <2>1, <2>2, <2>3
<1> QED
  BY <1>2, <1>3

LEMMA TestFrame ==
  ASSUME SelfTest
  PROVE  /\ ok' \in {ok, FALSE} /\ feats' \subseteq feats \cup Found
         /\ failed' = failed \/ (\E f \in Features \cup {"main"} : failed' = failed \cup {f})
<1> DEFINE f == Order[test]
<1>1. f \in Features \cup {"main"}
  BY DEF SelfTest, CheckMain, CheckGather, CheckEpilogue, CheckLut, CheckA16, CheckW16,
     CheckOstats, CheckOsums, CheckLerp, CheckOnchip, CheckAttcr, CheckTp, CheckLn, CheckRng,
     CheckSmx, Check, Features, CapBits, Presumed, Found
<1>2. \/ Pass(f) \/ Wrong(f) \/ Broken(f) \/ UNCHANGED <<feats, failed, ok>>
      \/ feats' = feats \ {f} /\ UNCHANGED <<failed, ok>>
  BY DEF SelfTest, CheckMain, CheckGather, CheckEpilogue, CheckLut, CheckA16, CheckW16,
     CheckOstats, CheckOsums, CheckLerp, CheckOnchip, CheckAttcr, CheckTp, CheckLn, CheckRng,
     CheckSmx, Check, Try
<1> HIDE DEF f
<1> QED
  BY <1>1, <1>2 DEF Pass, Wrong, Broken

TypeBoot == /\ ok \in BOOLEAN /\ feats \subseteq Features
            /\ failed \subseteq Features \cup {"main"} /\ test \in 1..Len(Order) + 1
TypeCtl  == /\ pc \in {"boot", "ready", "need", "start", "wait", "took", "return"}
            /\ why \in {"own", "settle", "finish", "lerp"} /\ want \in JobId /\ ret \in 0..2
TypeOp   == /\ call \in CallType /\ n \in Nat /\ tile \in 1..call.tiles /\ modes \subseteq Modes
            /\ defer \in BOOLEAN
TypePend == /\ pend \in BOOLEAN /\ left \in JobId
            /\ jobs \in Nat /\ lnTag \in Nat \cup {NoTag} /\ lnCall \in Nat
TypeRng  == /\ armed \in BOOLEAN /\ on \in BOOLEAN /\ first \in BOOLEAN /\ valid \in BOOLEAN
            /\ rngCall \in [n : Nat, tiles : Tiles, stats : BOOLEAN]
TypeProd == kind \in {"none", "cpu", "lerp"} /\ made \in Nat /\ hs \in Nat
TypeBlk  == /\ busy \in BOOLEAN /\ err \in BOOLEAN /\ job \in JobId /\ jobRng \in BOOLEAN
            /\ last \in JobId /\ range \subseteq JobId /\ ln \in Nat

LEMMA TypeParts ==
  /\ TypeOK <=> TypeBoot /\ TypeCtl /\ TypeOp /\ TypePend /\ TypeRng /\ TypeProd /\ TypeBlk
  /\ TypeOK' <=> TypeBoot' /\ TypeCtl' /\ TypeOp' /\ TypePend' /\ TypeRng' /\ TypeProd' /\ TypeBlk'
BY DEF TypeOK, TypeBoot, TypeCtl, TypeOp, TypePend, TypeRng, TypeProd, TypeBlk

LEMMA KeepTypes ==
  /\ TypeBoot /\ UNCHANGED <<ok, bootVars>> => TypeBoot'
  /\ TypeCtl /\ UNCHANGED ctlVars => TypeCtl'
  /\ TypeOp /\ UNCHANGED <<opVars, tile, defer>> => TypeOp'
  /\ TypePend /\ UNCHANGED <<pendVars, jobs, lnVars>> => TypePend'
  /\ TypeRng /\ UNCHANGED rngVars => TypeRng'
  /\ TypeProd /\ UNCHANGED prodVars => TypeProd'
  /\ TypeBlk /\ UNCHANGED blkVars => TypeBlk'
BY DEF TypeBoot, TypeCtl, TypeOp, TypePend, TypeRng, TypeProd, TypeBlk, bootVars, ctlVars, opVars,
   pendVars, lnVars, rngVars, prodVars, blkVars

LEMMA TypeStep == OneJob /\ Healthy' /\ TypeOK /\ [Next]_vars => TypeOK'
<1> SUFFICES ASSUME OneJob, Healthy', TypeOK, [Next]_vars PROVE TypeOK'
  OBVIOUS
<1> USE BoundsAssumption
<1>0. NoJob \in JobId /\ Tiles = 1..MaxTiles /\ 1 \in Tiles /\ (test \in 1..Len(Order) + 1)'
  BY DEF NoJob, JobId, Tiles, Healthy
<1>1. CASE SelfTest
  <2>1. /\ ok' \in {ok, FALSE} /\ feats' \subseteq feats \cup Found
        /\ failed' = failed \/ (\E f \in Features \cup {"main"} : failed' = failed \cup {f})
    BY <1>1, TestFrame
  <2>2. feats' \subseteq Features /\ failed' \subseteq Features \cup {"main"} /\ ok' \in BOOLEAN
    BY <2>1 DEF TypeOK, Features
  <2> QED
    BY <1>0, <1>1, <2>2 DEF SelfTest, TypeOK, opVars, pendVars, lnVars, rngVars, prodVars, blkVars
<1>2. CASE Call
  <2>1. PICK c \in CallSet : Enter(c)
    BY <1>2 DEF Call
  <2>2. c \in CallType
    BY CallsBalanced DEF Balanced
  <2>3. PICK accepted \in {Accepts(c), FALSE} : Begin(c, accepted) /\ Settle(accepted)
    BY <2>1 DEF Enter
  <2>4. /\ (armed \in BOOLEAN /\ on \in BOOLEAN /\ first \in BOOLEAN /\ valid \in BOOLEAN)'
        /\ rngCall' = rngCall
    BY <2>3 DEF Begin, accel_rng_begin, rngVars, TypeOK
  <2>8. call' \in CallType /\ call'.tiles = c.tiles
    BY <2>2, <2>3, BegunCall
  <2>9. lnTag' = NoTag \/ lnTag' = lnTag
    BY <2>1 DEF Enter
  <2>5. (pc \in {"return", "wait", "need"} /\ why \in {"own", "settle", "finish", "lerp"}
         /\ want \in JobId /\ left \in JobId /\ ret \in 0..2 /\ pend \in BOOLEAN)'
    <3>1. /\ why \in {"own", "settle", "finish", "lerp"} /\ want \in JobId /\ left \in JobId
          /\ ret \in 0..2 /\ pend \in BOOLEAN
      BY DEF TypeOK
    <3>2. CASE ~accepted
      BY <2>3, <3>1, <3>2 DEF Settle, pendVars
    <3>3. CASE accepted /\ pend
      BY <1>0, <2>3, <3>1, <3>3 DEF Settle
    <3>4. CASE accepted /\ ~pend
      BY <2>3, <3>1, <3>4 DEF Settle, pendVars
    <3> QED
      BY <3>2, <3>3, <3>4
  <2>6. (call \in CallType /\ n \in Nat /\ tile \in 1..call.tiles /\ modes \subseteq Modes
         /\ defer \in BOOLEAN /\ lnTag \in Nat \cup {NoTag})'
    <3>1. n' = n + 1 /\ tile' = 1 /\ modes' = modes \cup c.sets /\ defer' \in BOOLEAN
      BY <2>1 DEF Enter
    <3>2. c.tiles \in Tiles /\ c.sets \subseteq Modes
      BY <2>2, CallFields
    <3>3. 1 \in 1..call'.tiles
      BY <1>0, <2>8, <3>2
    <3> QED
      BY <2>8, <2>9, <3>1, <3>2, <3>3 DEF TypeOK
  <2>7. UNCHANGED <<ok, bootVars, jobs, lnCall, prodVars, blkVars>>
    BY <2>1 DEF Enter
  <2> QED
    BY <1>0, <2>4, <2>5, <2>6, <2>7 DEF TypeOK, bootVars, prodVars, blkVars
<1>3. CASE Return
  <2>1. NoCall \in CallType /\ NoCall.tiles = 1
    BY <1>0, OpBalanced DEF NoCall, Plain, Balanced, Op
  <2>2. rngCall' \in [n : Nat, tiles : Tiles, stats : BOOLEAN]
    <3>1. call.tiles \in Tiles /\ n \in Nat /\ Is("stats") \in BOOLEAN
      BY CallFields DEF TypeOK, Is
    <3>2. rngCall' = rngCall \/ rngCall' = [n |-> n, tiles |-> call.tiles, stats |-> Is("stats")]
      BY <1>3 DEF Return, rngVars
    <3> QED
      BY <3>1, <3>2 DEF TypeOK
  <2>3. (armed \in BOOLEAN /\ on \in BOOLEAN /\ first \in BOOLEAN /\ valid \in BOOLEAN)'
    BY <1>3 DEF Return, TypeOK, rngVars
  <2>4. /\ pc' = "ready" /\ call' = NoCall /\ tile' = 1 /\ want' = NoJob /\ why' = "own" /\ ret' = 0
        /\ modes' \subseteq modes
    BY <1>3 DEF Return
  <2>5. defer' \in BOOLEAN
    BY <1>3 DEF Return, TypeOK
  <2>6. UNCHANGED <<ok, bootVars, n, pendVars, jobs, lnVars, prodVars, blkVars>>
    BY <1>3 DEF Return
  <2> QED
    BY <1>0, <2>1, <2>2, <2>3, <2>4, <2>5, <2>6
    DEF TypeOK, bootVars, pendVars, lnVars, prodVars, blkVars
<1>4. CASE Finish
  <2>1. pend' = FALSE /\ left' = NoJob /\ want' = left /\ why' = "finish" /\ pc' = "wait"
    BY <1>4 DEF Finish
  <2>2. UNCHANGED <<ok, bootVars, ret, opVars, tile, defer, jobs, lnVars, rngVars, prodVars, blkVars>>
    BY <1>4 DEF Finish
  <2>3. TypeCtl' /\ TypePend'
    BY <1>0, <2>1, <2>2, TypeParts DEF TypeCtl, TypePend, lnVars
  <2> QED
    BY <2>2, <2>3, TypeParts, KeepTypes
<1>5. CASE MakeOnCpu \/ Idle
  <2>1. UNCHANGED <<ok, bootVars, ctlVars, opVars, tile, defer, pendVars, jobs, lnVars, rngVars, kind, blkVars>>
    BY <1>5 DEF MakeOnCpu, Idle
  <2>2. made' \in {made, made + 1} /\ hs' \in {hs, hs + 1}
    BY <1>5 DEF MakeOnCpu, Idle
  <2>3. TypeProd'
    BY <2>1, <2>2, TypeParts DEF TypeProd
  <2> QED
    BY <2>1, <2>3, TypeParts, KeepTypes
<1>6. CASE MakeByLerp
  <2>1. <<n, 0>> \in JobId
    BY DEF JobId, TypeOK
  <2>2. Start(<<n, 0>>, FALSE)
    BY <1>6 DEF MakeByLerp
  <2>3. TypeBlk'
    BY <2>1, <2>2, StartType DEF TypeBlk
  <2>4. pc' = "wait" /\ why' = "lerp" /\ want' = <<n, 0>> /\ defer' = FALSE
    BY <1>6 DEF MakeByLerp
  <2>5. UNCHANGED <<ok, bootVars, ret, opVars, tile, pendVars, jobs, lnVars, rngVars, prodVars>>
    BY <1>6 DEF MakeByLerp
  <2>6. TypeCtl'
    BY <2>1, <2>4, <2>5, TypeParts DEF TypeCtl
  <2>7. TypeOp'
    BY <2>4, <2>5, TypeParts DEF TypeOp, opVars
  <2> QED
    BY <2>3, <2>5, <2>6, <2>7, TypeParts, KeepTypes
<1>7. CASE InputReady
  <2>1. pc' = "start" /\ on' = (on /\ ~Is("norange"))
    BY <1>7 DEF InputReady
  <2>2. UNCHANGED <<ok, bootVars, why, want, ret, opVars, tile, defer, pendVars, jobs, lnVars,
                   armed, first, valid, rngCall, prodVars, blkVars>>
    BY <1>7 DEF InputReady
  <2>3. TypeCtl'
    BY <2>1, <2>2, TypeParts DEF TypeCtl
  <2>4. TypeRng'
    BY <2>1, <2>2, TypeParts DEF TypeRng
  <2> QED
    BY <2>2, <2>3, <2>4, TypeParts, KeepTypes
<1>8. CASE StartJob
  <2>1. <<n, tile>> \in JobId
    <3>1. n \in Nat /\ tile \in 1..call.tiles /\ call \in CallType
      BY DEF TypeOK
    <3>2. call.tiles \in Tiles
      BY <3>1, CallFields
    <3>3. tile \in Nat
      BY <3>1, <3>2 DEF Tiles
    <3> QED
      BY <3>1, <3>3 DEF JobId
  <2>2. Start(<<n, tile>>, on)
    BY <1>8 DEF StartJob
  <2>3. on \in BOOLEAN
    BY DEF TypeOK
  <2>4. (busy \in BOOLEAN /\ err \in BOOLEAN /\ job \in JobId /\ jobRng \in BOOLEAN
         /\ last \in JobId /\ range \subseteq JobId /\ ln \in Nat)'
    BY <2>1, <2>2, <2>3, StartType
  <2>5. (pc \in {"return", "wait"} /\ why \in {"own", "settle", "finish", "lerp"}
         /\ want \in JobId /\ left \in JobId /\ ret \in 0..2 /\ pend \in BOOLEAN)'
    <3>1. /\ why \in {"own", "settle", "finish", "lerp"} /\ want \in JobId /\ left \in JobId
          /\ ret \in 0..2 /\ pend \in BOOLEAN
      BY DEF TypeOK
    <3>2. CASE defer /\ LastTile
      BY <1>8, <2>1, <3>1, <3>2 DEF StartJob
    <3>3. CASE ~(defer /\ LastTile)
      BY <1>8, <2>1, <3>1, <3>3 DEF StartJob, pendVars
    <3> QED
      BY <3>2, <3>3
  <2>6. first' \in BOOLEAN
    BY <1>8 DEF StartJob, TypeOK
  <2>7. UNCHANGED <<ok, bootVars, opVars, tile, defer, jobs, lnVars, armed, on, valid, rngCall, prodVars>>
    BY <1>8 DEF StartJob
  <2> QED
    BY <1>0, <2>4, <2>5, <2>6, <2>7 DEF TypeOK, bootVars, opVars, lnVars, prodVars
<1>9. CASE Took
  BY <1>0, <1>9 DEF Took, TypeOK, bootVars, opVars, pendVars, lnVars, rngVars, prodVars, blkVars
<1>10. CASE TimeOut \/ BusError
  <2>1. why \in {"own", "settle", "finish", "lerp"}
    BY DEF TypeOK
  <2>2. ok' = FALSE /\ pc' \in {"return", "ready", "need"} /\ ret' \in {ret, 0} /\ made' \in {made, made + 1}
    BY <1>10, <2>1 DEF TimeOut, BusError, Fail
  <2>3. UNCHANGED <<bootVars, why, want, opVars, tile, defer, pendVars, jobs, lnVars, rngVars, kind, hs, blkVars>>
    BY <1>10 DEF TimeOut, BusError, Fail
  <2>4. (ret \in 0..2 /\ made \in Nat)'
    BY <2>2 DEF TypeOK
  <2>5. TypeBoot' /\ TypeCtl'
    BY <1>0, <2>2, <2>3, <2>4, TypeParts DEF TypeBoot, TypeCtl, bootVars
  <2>6. TypeProd'
    BY <2>3, <2>4, TypeParts DEF TypeProd
  <2> QED
    BY <2>3, <2>5, <2>6, TypeParts, KeepTypes
<1>11. CASE Account
  <2>0. why \in {"own", "settle", "finish", "lerp"}
    BY DEF TypeOK
  <2>1. /\ jobs' = jobs + 1 /\ pc' \in {"need", "return", "ready"}
        /\ ret' \in {ret, 1} /\ made' \in {made, made + 1}
    BY <1>11, <2>0 DEF Account
  <2>2. lnTag' \in {lnTag, jobs'} /\ lnCall' \in {lnCall, n}
    BY <1>11, <2>0 DEF Account, lnVars
  <2>3. tile' = tile \/ (tile # call.tiles /\ tile' = tile + 1)
    BY <1>11, <2>0 DEF Account, LastTile
  <2>4. UNCHANGED <<ok, bootVars, why, want, opVars, defer, pendVars, rngVars, kind, hs, blkVars>>
    BY <1>11 DEF Account
  <2>5. (jobs \in Nat /\ ret \in 0..2 /\ made \in Nat)'
    BY <2>1 DEF TypeOK
  <2>6. (lnTag \in Nat \cup {NoTag} /\ lnCall \in Nat)'
    BY <2>2, <2>5 DEF TypeOK
  <2>7. (tile \in 1..call.tiles)'
    BY <2>3, <2>4, CallFields DEF TypeOK, opVars, Tiles
  <2> QED
    BY <1>0, <2>1, <2>4, <2>5, <2>6, <2>7 DEF TypeOK, bootVars, opVars, pendVars, rngVars, blkVars
<1>12. CASE ArmRange \/ GetRange \/ SetProducer \/ Report
  <2>1. UNCHANGED ClientFrame
    BY <1>12 DEF ArmRange, GetRange, SetProducer, Report
  <2>2. TypeRng'
    BY <1>12, TypeParts DEF ArmRange, GetRange, SetProducer, Report, TypeRng, rngVars
  <2>3. TypeProd'
    BY <1>12, TypeParts DEF ArmRange, GetRange, SetProducer, Report, TypeProd, prodVars
  <2>4. TypePend'
    BY <1>12, <2>1, TypeParts DEF ArmRange, GetRange, SetProducer, Report, TypePend, pendVars,
       ClientFrame
  <2> QED
    BY <2>1, <2>2, <2>3, <2>4, TypeParts, KeepTypes DEF ClientFrame
<1>13. CASE Block
  <2>1. PICK e \in BOOLEAN : BlockEnd(e)
    BY <1>13 DEF Block
  <2>2. (busy \in BOOLEAN /\ err \in BOOLEAN /\ last \in JobId /\ range \subseteq JobId /\ ln \in Nat)'
    BY <2>1, <1>0 DEF BlockEnd, TypeOK
  <2> QED
    BY <1>0, <2>1, <2>2 DEF BlockEnd, TypeOK, bootVars, ctlVars, opVars, pendVars, lnVars, rngVars, prodVars
<1>14. CASE UNCHANGED vars
  BY <1>14 DEF TypeOK, vars, bootVars, ctlVars, opVars, pendVars, lnVars, rngVars, prodVars, blkVars
<1> QED
  BY <1>1, <1>2, <1>3, <1>4, <1>5, <1>6, <1>7, <1>8, <1>9, <1>10, <1>11, <1>12, <1>13, <1>14
  DEF Next, Driver, Client

(* The driver's globals and the block's registers keep their ranges; in    *)
(* particular no operation runs more jobs than it has tiles.               *)
THEOREM TypeCorrect == Spec => []TypeOK
<1>1. Init => TypeOK /\ Healthy
  <2>1. NoCall \in CallType /\ NoCall.tiles = 1
    BY OpBalanced, BoundsAssumption DEF NoCall, Plain, Balanced, Op, Tiles
  <2>2. Init => Healthy
    BY OrderOnce DEF Init, dav2_accel_init, Healthy
  <2>3. Init => ok \in BOOLEAN /\ feats \subseteq Features
    BY CapsAssumption DEF Init, dav2_accel_init, Features
  <2>4. test = 1 => test \in 1..Len(Order) + 1
    BY OrderOnce
  <2>5. NoJob \in JobId /\ 1 \in Tiles
    BY BoundsAssumption DEF NoJob, JobId, Tiles
  <2>6. [n |-> 0, tiles |-> 1, stats |-> FALSE] \in [n : Nat, tiles : Tiles, stats : BOOLEAN]
    BY <2>5
  <2>7. Init => TypeBoot /\ TypeCtl
    BY <2>3, <2>4, <2>5 DEF Init, TypeBoot, TypeCtl
  <2>8. ASSUME Init PROVE TypeOp
    <3>1. call = NoCall /\ n = 0 /\ tile = 1 /\ modes \subseteq Modes /\ defer = FALSE
      BY <2>8 DEF Init
    <3>2. call \in CallType /\ call.tiles = 1
      BY <2>1, <3>1
    <3>3. n \in Nat /\ tile \in 1..call.tiles
      BY <3>1, <3>2
    <3>4. defer \in BOOLEAN
      BY <3>1
    <3> QED
      BY <3>1, <3>2, <3>3, <3>4 DEF TypeOp
  <2>9. Init => TypePend /\ TypeRng
    BY <2>5, <2>6 DEF Init, TypePend, TypeRng
  <2>10. ASSUME Init PROVE TypeProd
    BY <2>10 DEF Init, TypeProd
  <2>11. ASSUME Init PROVE TypeBlk
    <3>1. busy \in BOOLEAN /\ err \in BOOLEAN /\ jobRng \in BOOLEAN
      BY <2>11 DEF Init
    <3>2. job = NoJob /\ last = NoJob /\ ln = 0 /\ range \subseteq JobId
      BY <2>11 DEF Init
    <3> QED
      BY <2>5, <3>1, <3>2 DEF TypeBlk
  <2> QED
    BY <2>2, <2>7, <2>8, <2>9, <2>10, <2>11, TypeParts
<1>2. OneJob /\ Healthy /\ TypeOK /\ [Next]_vars => Healthy' /\ TypeOK'
  BY HealthyStep, TypeStep
<1> QED
  BY <1>1, <1>2, OneJobAlways, PTL DEF Spec

---------------------------------------------------------------------------
(* Ranges: what the range unit of the block covers, job by job.            *)
Whole(m, t) == {m} \X (1..t)

(* The jobs up to <<m, t>> are covered, the last one once it has ended.    *)
Covered(m, t) == IF busy /\ jobRng
                 THEN range = Whole(m, t - 1) /\ job = <<m, t>>
                 ELSE range = Whole(m, t)

Waiting(for) == pc \in {"wait", "took"} /\ why \in for

(* Which job a wait is for; an error is met by a wait or kept by pend.     *)
WaitsFor ==
  /\ Waiting({"own"}) => want = <<n, tile>>
  /\ ok /\ ~pend /\ pc # "wait" => ~err
  /\ ok /\ Waiting({"lerp"}) => ~jobRng

(* The range unit is on only inside an operation that began a range, and   *)
(* then no earlier range is offered.                                       *)
RangeOwner ==
  on => /\ pc \notin {"boot", "ready"} /\ ~Waiting({"finish"}) /\ ~valid
        /\ call.rng \notin {"no", "skipped"}

RangeSoFar ==
  /\ on /\ (pc \in {"need", "start"} \/ Waiting({"lerp"})) =>
        IF first THEN tile = 1 ELSE range = Whole(n, tile - 1)
  /\ on /\ Waiting({"settle"}) => first /\ tile = 1
  /\ on /\ Waiting({"own"}) => ~first /\ Covered(n, tile)
  /\ on /\ pc = "return" /\ ret # 0 => Covered(n, call.tiles)
  /\ valid => Covered(rngCall.n, rngCall.tiles)

RangeInv == WaitsFor /\ RangeOwner /\ (ok => RangeSoFar)

LnHeld == lnCall # 0 => ln = lnCall

(* The tag of the last phase A counts the jobs up to it, unless the count  *)
(* began again since: when no job has been accounted after it and none is  *)
(* under way, its statistics are held.                                     *)
LnInv ==
  /\ lnTag = NoTag \/ lnCall = 0 \/ (lnTag \in Nat /\ lnTag <= jobs)
  /\ ok /\ lnTag = jobs /\ ~pend /\ pc \notin {"wait", "took"} => LnHeld
  /\ pc \in {"boot", "ready"} \/ Waiting({"finish"}) => call = NoCall
  /\ Is("lnA") \/ Is("lnB") => call.tiles = 1 /\ ~Is("make") /\ n # 0
  /\ ~(Is("lnA") /\ Is("lnB"))
  /\ Is("lnB") => (pc \in {"need", "start"} => LnHeld) /\ ~Waiting({"settle", "lerp"})
  /\ ok /\ Is("lnA") /\ Waiting({"own"}) /\ (pc = "wait" => ~busy /\ ~err) => ln = n

---------------------------------------------------------------------------
(* The range invariant is kept.                                            *)
LEMMA WholeGrows ==
  /\ \A m \in Nat : Whole(m, 0) = {}
  /\ \A m \in Nat, t \in Nat \ {0} : Whole(m, t - 1) \cup {<<m, t>>} = Whole(m, t)
<1>1. \A t \in Nat \ {0} : 1..t = (1..(t - 1)) \cup {t}
  OBVIOUS
<1>2. 1..0 = {}
  OBVIOUS
<1> QED
  BY <1>1, <1>2 DEF Whole

LEMMA RangeFrame ==
  ASSUME RangeInv, OneJob,
         UNCHANGED <<ok, pc, why, want, n, tile, call, ret, pend, on, first, valid, rngCall,
                     busy, err, job, jobRng, range>>
  PROVE  RangeInv'
BY DEF RangeInv, WaitsFor, RangeOwner, RangeSoFar, Waiting, Covered, Whole

LEMMA RangeCall == ASSUME RangeInv, OneJob, TypeOK, Call PROVE RangeInv'
<1>1. PICK c \in CallSet : Enter(c)
  BY DEF Call
<1>2. PICK accepted \in {Accepts(c), FALSE} : Begin(c, accepted) /\ Settle(accepted)
  BY <1>1 DEF Enter
<1>9. c \in CallType
  BY CallsBalanced DEF Balanced
<1>10. Begins(c, accepted) => call' = c /\ c.rng \in {"outer", "feature", "checked"}
  BY <1>2 DEF Begin, Begins
<1>3. /\ pc = "ready" /\ tile' = 1 /\ ok' = ok /\ ~on
      /\ UNCHANGED <<busy, err, job, jobRng, range>>
  BY <1>1 DEF Enter, blkVars, RangeInv, RangeOwner
<1>4. /\ rngCall' = rngCall
      /\ \/ UNCHANGED <<on, first, valid>>
         \/ call'.rng \notin {"no", "skipped"} /\ first' = on' /\ valid' = FALSE
  BY <1>2, <1>10 DEF Begin, accel_rng_begin, rngVars
<1>5. \/ pc' = "return" /\ ret' = 0 /\ UNCHANGED <<why, pend>>
      \/ pc' = "wait" /\ why' = "settle" /\ pend
      \/ pc' = "need" /\ ~pend /\ ~pend'
  BY <1>2 DEF Settle, pendVars
<1>6. WaitsFor'
  BY <1>3, <1>5 DEF RangeInv, WaitsFor, Waiting
<1>7. RangeOwner'
  BY <1>3, <1>4, <1>5 DEF RangeOwner, Waiting
<1>8. ok' => RangeSoFar'
  BY <1>3, <1>4, <1>5 DEF RangeInv, RangeSoFar, Waiting, Covered, Whole
<1> QED
  BY <1>6, <1>7, <1>8 DEF RangeInv

LEMMA RangeReturn == ASSUME RangeInv, OneJob, TypeOK, Return PROVE RangeInv'
<1>1. /\ pc = "return" /\ pc' = "ready" /\ ok' = ok /\ UNCHANGED <<pend, busy, err, job, jobRng, range>>
  BY DEF Return, pendVars, blkVars
<1>2. CASE call.rng \in {"no", "skipped"}
  <2>1. UNCHANGED <<on, first, valid, rngCall>> /\ ~on
    BY <1>2 DEF Return, rngVars, RangeInv, RangeOwner
  <2> QED
    BY <1>1, <2>1 DEF RangeInv, WaitsFor, RangeOwner, RangeSoFar, Waiting, Covered, Whole
<1>3. CASE call.rng \notin {"no", "skipped"}
  <2>1. /\ on' = FALSE /\ valid' = (on /\ ret # 0)
        /\ rngCall' = [n |-> n, tiles |-> call.tiles, stats |-> Is("stats")]
    BY <1>3 DEF Return
  <2>2. rngCall'.n = n /\ rngCall'.tiles = call.tiles
    BY <2>1
  <2> QED
    BY <1>1, <2>1, <2>2 DEF RangeInv, WaitsFor, RangeOwner, RangeSoFar, Waiting, Covered, Whole
<1> QED
  BY <1>2, <1>3

LEMMA RangeLerp == ASSUME RangeInv, OneJob, TypeOK, MakeByLerp PROVE RangeInv'
<1>1. /\ pc = "need" /\ ok /\ ~busy /\ ~pend /\ ~err
  BY DEF MakeByLerp, OneJob, PcOK, Trusted, RangeInv, WaitsFor
<1>2. /\ busy' = TRUE /\ jobRng' = FALSE /\ range' = range
  BY <1>1 DEF MakeByLerp, Start
<1>3. /\ pc' = "wait" /\ why' = "lerp"
      /\ UNCHANGED <<ok, n, tile, call, ret, on, first, valid, rngCall>>
  BY DEF MakeByLerp, opVars, rngVars
<1> QED
  BY <1>1, <1>2, <1>3 DEF RangeInv, WaitsFor, RangeOwner, RangeSoFar, Waiting, Covered, Whole

LEMMA RangeInput == ASSUME RangeInv, OneJob, TypeOK, InputReady PROVE RangeInv'
<1>1. /\ pc = "need" /\ pc' = "start" /\ (on' => on)
      /\ UNCHANGED <<ok, n, tile, call, pend, first, valid, rngCall, busy, err, job, jobRng, range>>
  BY DEF InputReady, opVars, pendVars, blkVars
<1> QED
  BY <1>1 DEF RangeInv, WaitsFor, RangeOwner, RangeSoFar, Waiting, Covered, Whole

LEMMA RangeStart == ASSUME RangeInv, OneJob, TypeOK, StartJob PROVE RangeInv'
<1>1. /\ pc = "start" /\ UNCHANGED <<ok, n, tile, call, on, valid, rngCall>> /\ first' = (first /\ ~on)
      /\ Start(<<n, tile>>, on)
  BY DEF StartJob, opVars
<1>2. \/ /\ LastTile /\ pend' = TRUE /\ pc' = "return"
      \/ /\ want' = <<n, tile>> /\ why' = "own" /\ pc' = "wait"
  BY DEF StartJob
<1>3. WaitsFor'
  BY <1>1, <1>2 DEF WaitsFor, Waiting
<1>4. RangeOwner'
  BY <1>1, <1>2 DEF RangeInv, RangeOwner, Waiting
<1>5. ASSUME ok PROVE RangeSoFar'
  <2>1. ~busy /\ ~err /\ on \in BOOLEAN
    BY <1>1, <1>5 DEF OneJob, PcOK, Trusted, RangeInv, WaitsFor, TypeOK
  <2>2. /\ busy' = TRUE /\ err' = FALSE /\ job' = <<n, tile>> /\ jobRng' = on
        /\ range' = IF on /\ first THEN {} ELSE range
    BY <1>1, <2>1 DEF Start
  <2>3. on => Covered(n, tile)'
    <3>1. CASE on /\ first
      BY <1>1, <1>5, <2>2, <3>1, WholeGrows DEF RangeInv, RangeSoFar, Covered, TypeOK
    <3>2. CASE on /\ ~first
      BY <1>1, <1>5, <2>2, <3>2 DEF RangeInv, RangeSoFar, Covered, Whole
    <3> QED
      BY <3>1, <3>2
  <2>4. valid => ~on /\ Covered(rngCall.n, rngCall.tiles)'
    BY <1>1, <1>5, <2>1, <2>2 DEF RangeInv, RangeOwner, RangeSoFar, Covered, Whole
  <2>5. LastTile => tile = call.tiles
    BY DEF LastTile
  <2> QED
    BY <1>1, <1>2, <2>3, <2>4, <2>5 DEF RangeSoFar, Waiting, Covered, Whole
<1> QED
  BY <1>1, <1>3, <1>4, <1>5 DEF RangeInv

LEMMA RangeTook == ASSUME RangeInv, OneJob, TypeOK, Took PROVE RangeInv'
<1>1. /\ pc = "wait" /\ pc' = "took" /\ ~err
      /\ UNCHANGED <<ok, why, want, n, tile, call, pend, on, first, valid, rngCall,
                     busy, err, job, jobRng, range>>
  BY DEF Took, opVars, pendVars, rngVars, blkVars
<1> QED
  BY <1>1 DEF RangeInv, WaitsFor, RangeOwner, RangeSoFar, Waiting, Covered, Whole

LEMMA RangeFail == ASSUME RangeInv, OneJob, TypeOK, pc = "wait", Fail PROVE RangeInv'
<1>1. /\ ok' = FALSE /\ pc' \in {"return", "ready", "need"}
      /\ UNCHANGED <<why, call, on, valid>>
  BY DEF Fail, opVars, rngVars, OneJob, PcOK
<1>2. pc' = "ready" => why = "finish"
  BY DEF Fail, OneJob, PcOK
<1> QED
  BY <1>1, <1>2 DEF RangeInv, WaitsFor, RangeOwner, Waiting

LEMMA RangeAccount == ASSUME RangeInv, OneJob, TypeOK, Account PROVE RangeInv'
<1>1. /\ pc = "took" /\ why \in {"own", "settle", "finish", "lerp"}
      /\ UNCHANGED <<ok, why, n, call, pend, on, first, valid, rngCall, busy, err, job, jobRng, range>>
  BY DEF Account, opVars, pendVars, rngVars, blkVars, OneJob, PcOK
<1>2. ok => ~busy /\ ~err /\ ~pend
  BY <1>1 DEF OneJob, PcOK, Trusted, RangeInv, WaitsFor
<1>3. \/ why = "own" /\ ~LastTile /\ pc' = "need" /\ tile' = tile + 1
      \/ why = "own" /\ LastTile /\ pc' = "return" /\ tile' = tile
      \/ why \in {"settle", "lerp"} /\ pc' = "need" /\ tile' = tile
      \/ why = "finish" /\ pc' = "ready" /\ tile' = tile
  BY <1>1 DEF Account
<1>4. WaitsFor'
  BY <1>1, <1>2, <1>3 DEF WaitsFor, Waiting
<1>5. RangeOwner'
  BY <1>1, <1>3 DEF RangeInv, RangeOwner, Waiting
<1>6. ASSUME ok PROVE RangeSoFar'
  <2>1. (tile + 1) - 1 = tile /\ (LastTile => tile = call.tiles)
    BY DEF TypeOK, LastTile
  <2>2. on /\ why = "own" => ~first /\ range = Whole(n, tile)
    BY <1>1, <1>2, <1>6 DEF RangeInv, RangeSoFar, Waiting, Covered
  <2>3. valid => Covered(rngCall.n, rngCall.tiles)
    BY <1>6 DEF RangeInv, RangeSoFar
  <2>4. on /\ why = "settle" => first /\ tile = 1
    BY <1>1, <1>6 DEF RangeInv, RangeSoFar, Waiting
  <2>5. on /\ why = "lerp" => IF first THEN tile = 1 ELSE range = Whole(n, tile - 1)
    BY <1>1, <1>6 DEF RangeInv, RangeSoFar, Waiting
  <2>6. on => why # "finish"
    BY <1>1 DEF RangeInv, RangeOwner, Waiting
  <2> QED
    BY <1>1, <1>2, <1>3, <1>6, <2>1, <2>2, <2>3, <2>4, <2>5, <2>6
    DEF RangeSoFar, Waiting, Covered, Whole
<1> QED
  BY <1>1, <1>4, <1>5, <1>6 DEF RangeInv

LEMMA RangeFinish == ASSUME RangeInv, OneJob, TypeOK, Finish PROVE RangeInv'
<1>1. /\ pc = "ready" /\ pc' = "wait" /\ why' = "finish"
      /\ UNCHANGED <<ok, n, tile, call, on, first, valid, rngCall, busy, err, job, jobRng, range>>
  BY DEF Finish, opVars, rngVars, blkVars
<1> QED
  BY <1>1 DEF RangeInv, WaitsFor, RangeOwner, RangeSoFar, Waiting, Covered, Whole

LEMMA RangeBlock == ASSUME RangeInv, OneJob, TypeOK, Block PROVE RangeInv'
<1>1. PICK e \in BOOLEAN : BlockEnd(e)
  BY DEF Block
<1>2. /\ busy = TRUE /\ busy' = FALSE /\ err' = e /\ job' = job /\ jobRng' = jobRng
      /\ range' = IF jobRng THEN range \cup {job} ELSE range
      /\ UNCHANGED <<ok, pc, why, want, n, tile, call, ret, pend, on, first, valid, rngCall>>
  BY <1>1 DEF BlockEnd, ctlVars, opVars, pendVars, rngVars
<1>3. ok => pend \/ pc = "wait"
  BY <1>2 DEF OneJob, PcOK, Trusted
<1>4. WaitsFor'
  BY <1>2, <1>3 DEF RangeInv, WaitsFor, Waiting
<1>5. RangeOwner'
  BY <1>2 DEF RangeInv, RangeOwner, Waiting
<1> DEFINE CoveredNext(m, t) == IF busy' /\ jobRng'
                                THEN range' = Whole(m, t - 1) /\ job' = <<m, t>>
                                ELSE range' = Whole(m, t)
<1>6. ASSUME NEW m \in Nat, NEW t \in Nat \ {0}, Covered(m, t)
      PROVE  CoveredNext(m, t)
  <2>1. CASE jobRng
    BY <1>2, <1>6, <2>1, WholeGrows DEF Covered, Whole
  <2>2. CASE ~jobRng
    BY <1>2, <1>6, <2>2 DEF Covered, Whole
  <2> QED
    BY <2>1, <2>2
<1>7. ASSUME ok PROVE RangeSoFar'
  <2>1. /\ n \in Nat /\ tile \in Nat \ {0} /\ call.tiles \in Nat \ {0}
        /\ rngCall.n \in Nat /\ rngCall.tiles \in Nat \ {0}
    BY CallFields DEF TypeOK, Tiles
  <2>2. pc \notin {"need", "start"}
    BY <1>2, <1>3, <1>7 DEF OneJob, PcOK, Trusted
  <2>3. Waiting({"lerp"}) => range' = range
    BY <1>2, <1>7 DEF RangeInv, WaitsFor
  <2>4. on /\ Waiting({"own"}) => ~first /\ CoveredNext(n, tile)
    BY <1>6, <1>7, <2>1 DEF RangeInv, RangeSoFar
  <2>5. on /\ pc = "return" /\ ret # 0 => CoveredNext(n, call.tiles)
    BY <1>6, <1>7, <2>1 DEF RangeInv, RangeSoFar
  <2>6. valid => CoveredNext(rngCall.n, rngCall.tiles)
    BY <1>6, <1>7, <2>1 DEF RangeInv, RangeSoFar
  <2>7. on /\ Waiting({"lerp"}) => IF first THEN tile = 1 ELSE range' = Whole(n, tile - 1)
    BY <1>7, <2>3 DEF RangeInv, RangeSoFar
  <2>8. on /\ Waiting({"settle"}) => first /\ tile = 1
    BY <1>7 DEF RangeInv, RangeSoFar
  <2> QED
    BY <1>2, <2>2, <2>4, <2>5, <2>6, <2>7, <2>8 DEF RangeSoFar, Waiting, Covered, Whole
<1> QED
  BY <1>2, <1>4, <1>5, <1>7 DEF RangeInv

LEMMA RangeOther ==
  ASSUME RangeInv, OneJob,
         \/ SelfTest \/ MakeOnCpu \/ Idle \/ ArmRange \/ GetRange \/ SetProducer \/ Report
         \/ UNCHANGED vars
  PROVE  RangeInv'
<1>1. CASE SelfTest
  <2>1. /\ pc = "boot" /\ pc' \in {"boot", "ready"} /\ (ok' => ok)
        /\ UNCHANGED <<why, want, n, tile, call, ret, pend, on, first, valid, rngCall,
                       busy, err, job, jobRng, range>>
    <3>1. pc = "boot" /\ pc' \in {"boot", "ready"}
      BY <1>1 DEF SelfTest
    <3>2. ok' => ok
      BY <1>1, TestFrame
    <3> QED
      BY <1>1, <3>1, <3>2 DEF SelfTest, opVars, pendVars, rngVars, blkVars
  <2> QED
    BY <2>1 DEF RangeInv, WaitsFor, RangeOwner, RangeSoFar, Waiting, Covered, Whole
<1>2. CASE GetRange
  <2>1. /\ valid' = FALSE
        /\ UNCHANGED <<ok, pc, why, want, n, tile, call, ret, pend, on, first, rngCall,
                       busy, err, job, jobRng, range>>
    BY <1>2 DEF GetRange, ClientFrame, ctlVars, opVars, pendVars, blkVars
  <2> QED
    BY <2>1 DEF RangeInv, WaitsFor, RangeOwner, RangeSoFar, Waiting, Covered, Whole
<1>3. CASE MakeOnCpu \/ Idle \/ ArmRange \/ SetProducer \/ Report \/ UNCHANGED vars
  <2>1. UNCHANGED <<ok, pc, why, want, n, tile, call, ret, pend, on, first, valid, rngCall,
                    busy, err, job, jobRng, range>>
    BY <1>3 DEF MakeOnCpu, Idle, ArmRange, SetProducer, Report, ClientFrame, ctlVars, opVars,
       pendVars, rngVars, blkVars, vars
  <2> QED
    BY <2>1, RangeFrame
<1> QED
  BY <1>1, <1>2, <1>3

---------------------------------------------------------------------------
(* The LayerNorm invariant is kept.                                        *)
LEMMA NoCallFields ==
  /\ NoCall \in CallType /\ NoCall.tiles = 1 /\ NoCall.rng = "no"
  /\ "lnA" \notin NoCall.flags /\ "lnB" \notin NoCall.flags
BY OpBalanced, BoundsAssumption DEF NoCall, Plain, Balanced, Op, Tiles

LEMMA LnFrame ==
  ASSUME LnInv, UNCHANGED <<ok, pc, why, call, n, pend, busy, err, jobs, lnTag, lnCall, ln>>
  PROVE  LnInv'
BY DEF LnInv, LnHeld, Is, Waiting

LEMMA LnCalled == ASSUME LnInv, OneJob, TypeOK, Call PROVE LnInv'
<1>1. PICK c \in CallSet : Enter(c)
  BY DEF Call
<1>2. PICK accepted \in {Accepts(c), FALSE} :
        /\ Begin(c, accepted) /\ Settle(accepted)
        /\ lnTag' = IF "lnA" \in c.flags \/ ("lnB" \in c.flags /\ accepted) THEN NoTag ELSE lnTag
  BY <1>1 DEF Enter
<1>11. c \in CallType
  BY CallsBalanced DEF Balanced
<1>3. /\ pc = "ready" /\ n' = n + 1 /\ n \in Nat
      /\ UNCHANGED <<ok, jobs, lnCall, busy, err, ln>>
  BY <1>1 DEF Enter, blkVars, TypeOK
<1>12. call'.flags = c.flags /\ call'.tiles = c.tiles
  BY <1>2, <1>11, BegunCall
<1>4. \/ ~accepted /\ pc' = "return" /\ UNCHANGED <<why, pend>>
      \/ accepted /\ pend /\ pc' = "wait" /\ why' = "settle"
      \/ accepted /\ ~pend /\ pc' = "need" /\ ~pend'
  BY <1>2 DEF Settle, pendVars
<1>5. lnTag' = NoTag \/ lnTag' = lnTag
  BY <1>2
<1>6. lnTag' = jobs => lnTag = jobs
  BY <1>5 DEF NoTag, TypeOK
<1>7. /\ "lnA" \in c.flags \/ "lnB" \in c.flags => c.tiles = 1 /\ "make" \notin c.flags
      /\ ~("lnA" \in c.flags /\ "lnB" \in c.flags)
  BY CallsOfLn
<1>8. accepted /\ "lnB" \in c.flags => ok /\ lnTag = jobs /\ ~pend
  BY DEF Accepts
<1>9. ok /\ lnTag = jobs /\ ~pend => LnHeld
  BY <1>3 DEF LnInv
<1>10. LnHeld' = LnHeld
  BY <1>3 DEF LnHeld
<1> QED
  BY <1>3, <1>4, <1>5, <1>6, <1>7, <1>8, <1>9, <1>10, <1>12 DEF LnInv, Is, Waiting

LEMMA LnReturn == ASSUME LnInv, OneJob, TypeOK, Return PROVE LnInv'
<1>1. /\ pc = "return" /\ pc' = "ready" /\ call' = NoCall
      /\ UNCHANGED <<ok, n, pend, jobs, lnTag, lnCall, ln>>
  BY DEF Return, pendVars, lnVars, blkVars
<1> QED
  BY <1>1, NoCallFields DEF LnInv, LnHeld, Is, Waiting

LEMMA LnLerp == ASSUME LnInv, OneJob, TypeOK, MakeByLerp PROVE LnInv'
<1>1. Is("make") /\ pc' = "wait" /\ why' = "lerp"
  BY DEF MakeByLerp, Missing
<1>2. UNCHANGED <<ok, n, call, pend, jobs, lnTag, lnCall>>
  BY DEF MakeByLerp, opVars, pendVars, lnVars
<1> QED
  BY <1>1, <1>2 DEF LnInv, Is, Waiting

LEMMA LnInput == ASSUME LnInv, OneJob, TypeOK, InputReady PROVE LnInv'
<1>1. /\ pc = "need" /\ pc' = "start"
      /\ UNCHANGED <<ok, n, call, pend, jobs, lnTag, lnCall, busy, err, ln>>
  BY DEF InputReady, opVars, pendVars, lnVars, blkVars
<1> QED
  BY <1>1 DEF LnInv, LnHeld, Is, Waiting

LEMMA LnStart == ASSUME LnInv, OneJob, TypeOK, StartJob PROVE LnInv'
<1>1. /\ pc = "start" /\ UNCHANGED <<ok, n, call, jobs, lnTag, lnCall>>
      /\ Start(<<n, tile>>, on)
  BY DEF StartJob, opVars, lnVars
<1>2. \/ pend' = TRUE /\ pc' = "return"
      \/ why' = "own" /\ pc' = "wait"
  BY DEF StartJob
<1>3. ok => busy' = TRUE
  BY <1>1 DEF Start, OneJob, PcOK, Trusted
<1> QED
  BY <1>1, <1>2, <1>3 DEF LnInv, Is, Waiting

LEMMA LnTook == ASSUME LnInv, OneJob, TypeOK, Took PROVE LnInv'
<1>1. /\ pc = "wait" /\ ~busy /\ ~err /\ pc' = "took"
      /\ UNCHANGED <<ok, why, n, call, pend, jobs, lnTag, lnCall, busy, err, ln>>
  BY DEF Took, opVars, pendVars, lnVars, blkVars
<1> QED
  BY <1>1 DEF LnInv, Is, Waiting

LEMMA LnFail == ASSUME LnInv, OneJob, TypeOK, pc = "wait", Fail PROVE LnInv'
<1>1. /\ ok' = FALSE /\ why \in {"own", "settle", "finish", "lerp"}
      /\ UNCHANGED <<why, n, call, jobs, lnTag, lnCall>>
  BY DEF Fail, opVars, lnVars, OneJob, PcOK
<1>2. \/ why \in {"own", "settle"} /\ pc' = "return"
      \/ why = "finish" /\ pc' = "ready"
      \/ why = "lerp" /\ pc' = "need"
  BY <1>1 DEF Fail
<1>3. why = "finish" => call' = NoCall
  BY <1>1 DEF LnInv, Waiting
<1>4. Is("lnB") => pc' \notin {"need", "start"}
  BY <1>2 DEF LnInv, Waiting
<1>5. (Is("lnA")' <=> Is("lnA")) /\ (Is("lnB")' <=> Is("lnB")) /\ (Is("make")' <=> Is("make"))
  BY <1>1 DEF Is
<1>6. pc' \in {"return", "ready", "need"}
  BY <1>2
<1> QED
  BY <1>1, <1>3, <1>4, <1>5, <1>6, <1>2 DEF LnInv, Waiting

LEMMA LnAccount == ASSUME LnInv, OneJob, TypeOK, Account PROVE LnInv'
<1>1. /\ pc = "took" /\ jobs' = jobs + 1 /\ jobs \in Nat
      /\ why \in {"own", "settle", "finish", "lerp"}
      /\ UNCHANGED <<ok, why, n, call, pend, busy, err, ln>>
  BY DEF Account, opVars, pendVars, blkVars, OneJob, PcOK, TypeOK
<1>2. CASE why = "own" /\ LastTile /\ Is("lnA")
  <2>1. pc' = "return" /\ lnTag' = jobs' /\ lnCall' = n
    BY <1>1, <1>2 DEF Account
  <2>2. n # 0 /\ (ok => ln = n)
    BY <1>1, <1>2 DEF LnInv, Waiting
  <2> QED
    BY <1>1, <2>1, <2>2 DEF LnInv, LnHeld, Is, Waiting
<1>3. CASE ~(why = "own" /\ LastTile /\ Is("lnA"))
  <2>1. lnTag' = lnTag /\ lnCall' = lnCall
    BY <1>1, <1>3 DEF Account, lnVars
  <2>2. lnCall # 0 => lnTag' # jobs'
    BY <1>1, <2>1 DEF LnInv, NoTag
  <2>3. \/ why = "own" /\ ~LastTile /\ pc' = "need"
        \/ why = "own" /\ LastTile /\ pc' = "return"
        \/ why \in {"settle", "lerp"} /\ pc' = "need"
        \/ why = "finish" /\ pc' = "ready"
    BY <1>1 DEF Account
  <2>4. Is("lnB") => LastTile /\ why \notin {"settle", "lerp"}
    BY <1>1 DEF LnInv, Waiting, LastTile, TypeOK
  <2> QED
    BY <1>1, <2>1, <2>2, <2>3, <2>4 DEF LnInv, LnHeld, Is, Waiting, NoTag
<1> QED
  BY <1>2, <1>3

LEMMA LnFinish == ASSUME LnInv, OneJob, TypeOK, Finish PROVE LnInv'
<1>1. /\ pc = "ready" /\ pc' = "wait" /\ why' = "finish"
      /\ UNCHANGED <<ok, n, call, jobs, lnTag, lnCall>>
  BY DEF Finish, opVars, lnVars
<1> QED
  BY <1>1, NoCallFields DEF LnInv, Is, Waiting

LEMMA LnBlock == ASSUME LnInv, OneJob, TypeOK, RangeInv, Block PROVE LnInv'
<1>1. PICK e \in BOOLEAN : BlockEnd(e)
  BY DEF Block
<1>2. /\ busy = TRUE /\ busy' = FALSE /\ err' = e
      /\ UNCHANGED <<ok, pc, why, want, n, tile, call, pend, jobs, lnTag, lnCall>>
  BY <1>1 DEF BlockEnd, ctlVars, opVars, pendVars, lnVars
<1>3. ok => pend \/ pc = "wait"
  BY <1>2 DEF OneJob, PcOK, Trusted
<1>4. ASSUME Is("lnB"), pc \in {"need", "start"} PROVE LnHeld'
  <2>1. ln' = IF ~e /\ job[1] = n /\ Is("lnA") /\ job[2] # 0 THEN n ELSE ln
    BY <1>1 DEF BlockEnd
  <2> QED
    BY <1>2, <1>4, <2>1 DEF LnInv, LnHeld
<1>5. ASSUME ok, Is("lnA"), Waiting({"own"}), ~e PROVE ln' = n
  <2>1. job = <<n, tile>> /\ tile # 0
    BY <1>2, <1>5 DEF OneJob, PcOK, Trusted, Waiting, RangeInv, WaitsFor, TypeOK
  <2> QED
    BY <1>1, <1>5, <2>1 DEF BlockEnd
<1>6. ~(ok' /\ lnTag' = jobs' /\ ~pend' /\ pc' \notin {"wait", "took"})
  BY <1>2, <1>3
<1>7. Is("lnB")' => (pc' \in {"need", "start"} => LnHeld') /\ ~Waiting({"settle", "lerp"})'
  BY <1>2, <1>4 DEF LnInv, Is, Waiting
<1>8. ok' /\ Is("lnA")' /\ Waiting({"own"})' /\ (pc' = "wait" => ~busy' /\ ~err') => ln' = n'
  <2>1. ln' = ln \/ ln' = n
    BY <1>1 DEF BlockEnd
  <2>2. ok /\ Is("lnA") /\ Waiting({"own"}) /\ pc = "took" => ln = n
    BY DEF LnInv
  <2>3. Waiting({"own"})' <=> Waiting({"own"})
    BY <1>2 DEF Waiting
  <2>4. Is("lnA")' <=> Is("lnA")
    BY <1>2 DEF Is
  <2>5. Waiting({"own"}) => pc \in {"wait", "took"}
    BY DEF Waiting
  <2> QED
    BY <1>2, <1>5, <2>1, <2>2, <2>3, <2>4, <2>5
<1> QED
  BY <1>2, <1>6, <1>7, <1>8 DEF LnInv, Is, Waiting

LEMMA LnOther ==
  ASSUME LnInv, OneJob, TypeOK,
         \/ SelfTest \/ MakeOnCpu \/ Idle \/ ArmRange \/ GetRange \/ SetProducer \/ Report
         \/ UNCHANGED vars
  PROVE  LnInv'
<1>1. CASE SelfTest
  <2>1. pc = "boot" /\ pc' \in {"boot", "ready"}
    BY <1>1 DEF SelfTest
  <2>2. ok' => ok
    BY <1>1, TestFrame
  <2>3. UNCHANGED <<why, call, n, pend, busy, err, jobs, lnTag, lnCall, ln>>
    BY <1>1 DEF SelfTest, opVars, pendVars, lnVars, blkVars
  <2> QED
    BY <2>1, <2>2, <2>3 DEF LnInv, LnHeld, Is, Waiting
<1>2. CASE Report
  <2>1. /\ lnCall' = 0 /\ jobs' = 0 /\ pc = "ready"
        /\ UNCHANGED <<ok, pc, why, call, n, pend, busy, err, lnTag, ln>>
    BY <1>2 DEF Report, ClientFrame, ctlVars, opVars, pendVars, blkVars
  <2> QED
    BY <2>1 DEF LnInv, LnHeld, Is, Waiting, NoTag
<1>3. CASE MakeOnCpu \/ Idle \/ ArmRange \/ GetRange \/ SetProducer \/ UNCHANGED vars
  <2>1. UNCHANGED <<ok, pc, why, call, n, pend, busy, err, jobs, lnTag, lnCall, ln>>
    BY <1>3 DEF MakeOnCpu, Idle, ArmRange, GetRange, SetProducer, ClientFrame, ctlVars, opVars,
       pendVars, lnVars, blkVars, vars
  <2> QED
    BY <2>1, LnFrame
<1> QED
  BY <1>1, <1>2, <1>3

---------------------------------------------------------------------------
LEMMA CoverInit == Init => RangeInv /\ LnInv
<1> SUFFICES ASSUME Init PROVE RangeInv /\ LnInv
  OBVIOUS
<1>1. /\ pc = "boot" /\ call = NoCall /\ lnTag = -1 /\ jobs = 0
      /\ on = FALSE /\ valid = FALSE /\ err = FALSE
  BY DEF Init, NoTag
<1> QED
  BY <1>1, NoCallFields
  DEF RangeInv, WaitsFor, RangeOwner, RangeSoFar, LnInv, Is, Waiting, NoTag

LEMMA CoverStep == OneJob /\ TypeOK /\ RangeInv /\ LnInv /\ [Next]_vars => RangeInv' /\ LnInv'
<1> SUFFICES ASSUME OneJob, TypeOK, RangeInv, LnInv, [Next]_vars PROVE RangeInv' /\ LnInv'
  OBVIOUS
<1>1. CASE Return
  BY <1>1, RangeReturn, LnReturn
<1>2. CASE MakeByLerp
  BY <1>2, RangeLerp, LnLerp
<1>3. CASE InputReady
  BY <1>3, RangeInput, LnInput
<1>4. CASE StartJob
  BY <1>4, RangeStart, LnStart
<1>5. CASE Took
  BY <1>5, RangeTook, LnTook
<1>6. CASE TimeOut \/ BusError
  BY <1>6, RangeFail, LnFail DEF TimeOut, BusError
<1>7. CASE Account
  BY <1>7, RangeAccount, LnAccount
<1>8. CASE Call
  BY <1>8, RangeCall, LnCalled
<1>9. CASE Finish
  BY <1>9, RangeFinish, LnFinish
<1>10. CASE Block
  BY <1>10, RangeBlock, LnBlock
<1>11. CASE \/ SelfTest \/ MakeOnCpu \/ Idle \/ ArmRange \/ GetRange \/ SetProducer \/ Report
            \/ UNCHANGED vars
  BY <1>11, RangeOther, LnOther
<1> QED
  BY <1>1, <1>2, <1>3, <1>4, <1>5, <1>6, <1>7, <1>8, <1>9, <1>10, <1>11 DEF Next, Driver, Client

LEMMA Covering == Spec => [](RangeInv /\ LnInv)
BY CoverInit, CoverStep, OneJobAlways, TypeCorrect, PTL DEF Spec

(* A range the client may take covers every job of the last operation that *)
(* began one and no other job (dav2_accel.c, accel_rng_begin and its       *)
(* ends): also when that operation was left running and collected inside   *)
(* another, and when its producer ran LERP jobs between its own.           *)
THEOREM RangesAreWhole == Spec => []RangeWhole
<1>1. OneJob /\ RangeInv => RangeWhole
  <2> SUFFICES ASSUME OneJob, RangeInv, pc = "ready", ok, valid, ~pend
               PROVE  range = {rngCall.n} \X (1..rngCall.tiles)
    BY DEF RangeWhole
  <2>1. ~busy /\ ~err
    BY DEF OneJob, PcOK, Trusted, RangeInv, WaitsFor
  <2> QED
    BY <2>1 DEF RangeInv, RangeSoFar, Covered, Whole
<1> QED
  BY <1>1, Covering, OneJobAlways, PTL

(* Phase B of a LayerNorm finds in the block the row statistics of the     *)
(* phase A made last (dav2_accel.c 997-999): no job came between, and the  *)
(* count of jobs cannot come round to an old tag, unless dav2_accel_report *)
(* made it begin again between the two.                                    *)
THEOREM LnPhasesPair == Spec => []PairedLn
<1>1. LnInv => PairedLn
  BY DEF LnInv, LnHeld, PairedLn
<1> QED
  BY <1>1, Covering, PTL
=============================================================================
