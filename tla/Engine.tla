------------------------------ MODULE Engine ------------------------------
(* The program on the board and its client: main.c's boot and server loop, *)
(* dav2_infer (dav2_engine.c) with its transformer blocks, the LayerNorms  *)
(* made in the background and the head, the arena (dav2_ops.c), the        *)
(* console ring (hostio.c) and tools/dav2_run_fpga.py over JTAG.  A tensor *)
(* is the version of x its values come from: x has version 0 when it is    *)
(* not right, 1 after the embedding, and one more after every residual     *)
(* update.  Operators of dav2_ops.c do what Qgemm shows of them.           *)
EXTENDS Attention, Functions

CONSTANTS
  Blocks,      \* DAV2_N_BLOCKS
  Taps,        \* INTERMEDIATE: the blocks whose output feeds the head
  TapRows,     \* rows of a tap's LayerNorm
  Frames,      \* images of one session
  Sessions,    \* runs of dav2_run_fpga.py, each of which resets the board
  Ring,        \* what the console's ring holds
  ArenaSizes   \* the arena, in the units below

ASSUME EngineAssumption ==
  /\ Blocks \in Nat \ {0} /\ Taps \subseteq 1..Blocks /\ TapRows \in Nat \ {0}
  /\ Frames \in Nat \ {0} /\ Sessions \in Nat \ {0} /\ Ring \in Nat \ {0}
  /\ ArenaSizes \subseteq Nat

VARIABLES
  dpc,         \* where the program is
  go,          \* dav2_go
  ring, exited,            \* the console's ring, hostio.flags
  image, blob,             \* the image at IMAGE_ADDR, the weights at BLOB_ADDR
  file,                    \* the version of the script's weight file
  intact,                  \* history: each load_image of this session arrived
  arena, used, arenaFailed,
  blockNo, ver, buf, cur,  \* the block, x's version, the two buffers, which is x
  stats, hasStats,         \* x_rst and x_rsum, and whether x points to them
  act,                     \* the version the block's own tensors come from
  bg,                      \* the LayerNorm in the background
  feats,                   \* the versions its rows were made of
  used_by,                 \* the image this frame's patches were taken from
  skewed,                  \* history: one of this frame's softmaxes took the
                           \* q shift of another head
  result,                  \* at RESULT_ADDR: of which image, right or not
  hpc, session, frame,     \* the host: where it is, its session, its image
  seen, saved              \* what it has read of the console, what it saved

heap == <<arena, used, arenaFailed>>
xs   == <<blockNo, ver, buf, cur, stats, hasStats, act>>
bgs  == <<bg, feats>>
host == <<hpc, session, frame, seen, saved>>
mem  == <<image, blob, file, intact>>
out  == <<used_by, skewed, result>>
con  == <<ring, exited>>
vars == <<avars, dpc, go, con, mem, heap, xs, bgs, out, host>>

GO_MAGIC == "GO_MAGIC"
GO_FRAME == "GO_FRAME"
GO_DONE == "GO_DONE"
NoRows == [r \in 1..TapRows |-> 0]
Image(s, k) == <<s, k>>
NoImage == <<0, 0>>      \* also what a broken transfer leaves
Versions == {"engine", "other"}
NoBlob  == [head |-> "none", whole |-> FALSE]   \* no header known

---------------------------------------------------------------------------
(* The arena.  One unit: x, its spare buffer, the statistics and the       *)
(* exponential table; the patches; the taps; the statistics of each tap;   *)
(* the head's projections, its paths, its output convolutions: none of     *)
(* these is released.  A block's own tensors, and attention's, are.        *)
dav2_arena_alloc(k) == /\ used' = IF used + k > arena THEN used ELSE used + k
                       /\ arenaFailed' = (arenaFailed \/ used + k > arena)
                       /\ UNCHANGED arena
Room(k)  == used + k <= arena
Borrow(k) == /\ arenaFailed' = (arenaFailed \/ ~Room(k)) /\ UNCHANGED <<arena, used>>
FrameUnits == 2 + 1 + Cardinality(Taps) + 3

(* an operator of dav2_ops.c may lose the accelerator and goes on without  *)
Risk == Sync({})

---------------------------------------------------------------------------
(* The program.  Printing waits for room in the ring.                      *)
obuf_putc(w) == Len(ring) < Ring /\ ring' = Append(ring, w)

Dev == UNCHANGED <<mem, host>>
At(l, to) == dpc = l /\ dpc' = to
Still == UNCHANGED <<m, f, h, apc, caps, otherScale>>
NoDriver == UNCHANGED avars

ddr_init ==            \* DDR3 and its read-back, or the program ends
  /\ dpc = "boot"
  /\ \/ dpc' = "waiting" /\ UNCHANGED exited
     \/ dpc' = "fatal" /\ exited' = TRUE
  /\ go' = "0" /\ UNCHANGED <<ring, heap, xs, bgs, out>> /\ NoDriver /\ Dev

Waiting ==
  /\ At("waiting", "weights") /\ obuf_putc("WAITING")
  /\ UNCHANGED <<go, exited, heap, xs, bgs, out>> /\ NoDriver /\ Dev

Weights ==             \* dav2_blob_init, dav2_arena_init: once
  /\ At("weights", "ready") /\ go = GO_MAGIC
  /\ used' = 0 /\ arenaFailed' = FALSE /\ UNCHANGED arena
  /\ UNCHANGED <<go, con, xs, bgs, out>> /\ NoDriver /\ Dev

Ready ==
  /\ At("ready", "loop") /\ obuf_putc("READY")
  /\ UNCHANGED <<go, exited, heap, xs, bgs, out>> /\ NoDriver /\ Dev

\* Variant: never says it is idle.
LoopSilently ==
  /\ At("loop", "idle") /\ UNCHANGED go
  /\ UNCHANGED <<con, heap, xs, bgs, out>> /\ NoDriver /\ Dev

ServerLoop ==
  /\ At("loop", "idle") /\ go' = GO_DONE
  /\ UNCHANGED <<con, heap, xs, bgs, out>> /\ NoDriver /\ Dev

dav2_set_image ==
  /\ At("idle", "infer") /\ go = GO_FRAME /\ obuf_putc("line")
  /\ UNCHANGED <<go, exited, heap, xs, bgs, out>> /\ NoDriver /\ Dev

(* dav2_infer: nothing is computed from weights of another version         *)
dav2_blob_check == blob.head = "engine"
Infer ==
  /\ dpc = "infer" /\ dpc' = IF dav2_blob_check THEN "embed" ELSE "report"
  /\ UNCHANGED <<go, con, heap, xs, bgs, out>> /\ NoDriver /\ Dev

(* without its memory, or with a tensor that dav2_find does not find in a  *)
(* torn blob, the program reads and writes through a null pointer: it      *)
(* hangs, or goes on with values that are not right                        *)
AfterAlloc(k, to) == dpc' \in {to} \cup (IF Room(k) /\ blob.whole THEN {} ELSE {"hung"})
Value(k, v) == IF Room(k) /\ ~arenaFailed THEN v ELSE 0

PatchEmbedding ==
  /\ dpc = "embed" /\ dav2_arena_alloc(3) /\ AfterAlloc(3, "ln1") /\ Risk
  /\ used_by' = image /\ skewed' = FALSE
  /\ ver' = 1 /\ buf' = [b \in 1..2 |-> IF b = 1 THEN Value(3, 1) ELSE 0] /\ cur' = 1
  /\ stats' = 0 /\ hasStats' = FALSE /\ act' = 0 /\ blockNo' = 1
  /\ feats' = [t \in Taps |-> NoRows]
  /\ UNCHANGED <<go, con, bg, result>> /\ Still /\ Dev

---------------------------------------------------------------------------
(* A block.  LayerNorm reads x and, where they exist, its row statistics.  *)
X == Same(buf[cur], IF hasStats THEN stats ELSE buf[cur])

LayerNorm(l, to) ==
  /\ dpc = l /\ Borrow(1) /\ AfterAlloc(1, to) /\ Risk
  /\ act' = Value(1, Same(X, ver))
  /\ UNCHANGED <<go, con, blockNo, ver, buf, cur, stats, hasStats, bgs, out>>
  /\ Still /\ Dev

(* the product of the block's own tensor: qkv with its column extremes, or *)
(* fc1 with GELU                                                           *)
QkvOrFc1(l, to) ==
  /\ dpc = l /\ Borrow(2) /\ AfterAlloc(2, to) /\ Risk /\ act' = Value(2, act)
  /\ UNCHANGED <<go, con, blockNo, ver, buf, cur, stats, hasStats, bgs, out>>
  /\ Still /\ Dev

CallAttention ==
  /\ At("att", "heads") /\ attention_all(Room(3)) /\ Borrow(3)
  /\ UNCHANGED <<go, con, xs, bgs, out>> /\ Dev

Heading ==             \* inside the call
  /\ dpc = "heads" /\ (AttentionStep \/ JobEnd \/ JobFails)
  /\ UNCHANGED <<dpc, go, con, heap, xs, bgs, out>> /\ Dev

EndAttention ==
  /\ At("heads", "proj") /\ apc = "ret" /\ Go("idle")
  /\ act' = (IF ContextOf(m) THEN act ELSE 0) /\ skewed' = (skewed \/ otherScale)
  /\ h' = 1 /\ m' = attn_bufs /\ f' = NoFlags /\ UNCHANGED <<drv, caps, otherScale>>
  /\ UNCHANGED <<go, con, heap, blockNo, ver, buf, cur, stats, hasStats, bgs, used_by, result>>
  /\ Dev

(* Rows of the tap's LayerNorm, made of the buffer it started with and the *)
(* statistics taken then                                                   *)
NoTap   == [tap |-> 0, rows |-> 0, from |-> 1, stat |-> 0]
Made(n) == IF bg.tap = 0 THEN feats
           ELSE [feats EXCEPT ![bg.tap] = [r \in 1..TapRows |->
                   IF r \in bg.rows + 1 .. n THEN Same(buf[bg.from], bg.stat) ELSE @[r]]]
dav2_background_complete == bg' = NoTap /\ feats' = Made(TapRows)

(* x + f(...) into the spare buffer, with the new x's statistics, then the *)
(* two are swapped.  The tap's rows are made first: they read the old x    *)
Other(b) == 3 - b

\* Variant: leaves the tap's rows for later.
UpdateAtOnce(l, to) ==
  /\ dpc = l /\ dpc' = to /\ UNCHANGED bgs
  /\ buf' = [buf EXCEPT ![Other(cur)] = 0] /\ stats' = 0
  /\ UNCHANGED <<go, con, heap, blockNo, ver, cur, hasStats, act, out>>
  /\ NoDriver /\ Dev

residual_update(l, to) ==
  /\ dpc = l /\ dpc' = to /\ dav2_background_complete
  /\ buf' = [buf EXCEPT ![Other(cur)] = 0] /\ stats' = 0
  /\ UNCHANGED <<go, con, heap, blockNo, ver, cur, hasStats, act, out>>
  /\ NoDriver /\ Dev
Updated(l, to) ==
  /\ dpc = l /\ Borrow(1) /\ dpc' = to /\ Risk
  /\ LET v == Value(1, Same(act, buf[cur]))
     IN /\ buf' = [buf EXCEPT ![Other(cur)] = IF v = 0 THEN 0 ELSE v + 1]
        /\ hasStats' \in BOOLEAN /\ stats' = IF hasStats' THEN buf'[Other(cur)] ELSE 0
  /\ cur' = Other(cur) /\ ver' = ver + 1 /\ act' = 0
  /\ UNCHANGED <<go, con, blockNo, bgs, out>> /\ Still /\ Dev

(* in a wait for the block the CPU makes the next row                      *)
dav2_producer_idle ==
  /\ usable /\ bg.tap # 0 /\ bg.rows < TapRows
  /\ dpc \in {"qkv", "heads", "fc1"}
  /\ bg' = [bg EXCEPT !.rows = @ + 1] /\ feats' = Made(bg.rows + 1)
  /\ UNCHANGED <<dpc, go, con, heap, xs, out>> /\ NoDriver /\ Dev

(* after the block: a tap's statistics now, its rows in the background     *)
dav2_lnplain_begin ==
  /\ dpc = "tap" /\ dpc' = (IF blockNo = Blocks THEN "head" ELSE "ln1") /\ blockNo' = blockNo + 1
  /\ IF blockNo \in Taps
       THEN /\ dav2_arena_alloc(1)
            /\ IF Room(1) THEN /\ feats' = Made(TapRows)
                               /\ bg' = [tap |-> blockNo, rows |-> 0, from |-> cur, stat |-> X]
               ELSE UNCHANGED bgs
       ELSE UNCHANGED <<heap, bgs>>
  /\ UNCHANGED <<go, con, ver, buf, cur, stats, hasStats, act, out>>
  /\ NoDriver /\ Dev

---------------------------------------------------------------------------
(* The head: its projections read every tap, the fusion and the output     *)
(* convolutions what the projections made; then the depth is copied out    *)
Projections ==
  /\ dpc = "head" /\ dav2_background_complete
  /\ dav2_arena_alloc(1) /\ AfterAlloc(1, "fusion") /\ Risk
  /\ act' = Value(1, IF \A t \in Taps, r \in 1..TapRows : feats'[t][r] = 1 + 2 * t THEN 1 ELSE 0)
  /\ UNCHANGED <<go, con, blockNo, ver, buf, cur, stats, hasStats, out>>
  /\ Still /\ Dev

Fusion ==              \* four FeatureFusionBlocks, each path is kept
  /\ dpc = "fusion" /\ dav2_arena_alloc(1) /\ AfterAlloc(1, "output") /\ Risk
  /\ act' = Value(1, act)
  /\ UNCHANGED <<go, con, blockNo, ver, buf, cur, stats, hasStats, bgs, out>>
  /\ Still /\ Dev

OutputConvolutions ==
  /\ dpc = "output" /\ dav2_arena_alloc(1) /\ AfterAlloc(1, "report") /\ Risk
  /\ result' = [image |-> used_by, skewed |-> skewed,
                right |-> Value(1, act) = 1 /\ blob.whole /\ ~skewed]
  /\ UNCHANGED <<go, con, xs, bgs, used_by, skewed>> /\ Still /\ Dev

Exhausted ==           \* an allocation failed: the program ends
  /\ At("report", "fatal") /\ arenaFailed /\ exited' = TRUE /\ obuf_putc("line")
  /\ UNCHANGED <<go, heap, xs, bgs, out>> /\ NoDriver /\ Dev

\* Variant: does not look at dav2_arena_failed.
ReportAnyway ==
  /\ At("report", "result") /\ obuf_putc("line")
  /\ result' = IF dav2_blob_check THEN result ELSE [result EXCEPT !.right = FALSE]
  /\ UNCHANGED <<go, exited, heap, xs, bgs, used_by, skewed>> /\ NoDriver /\ Dev

Report ==
  /\ At("report", "result") /\ ~arenaFailed /\ obuf_putc("line")
  /\ result' = IF dav2_blob_check THEN result ELSE [result EXCEPT !.right = FALSE]
  /\ UNCHANGED <<go, exited, heap, xs, bgs, used_by, skewed>> /\ NoDriver /\ Dev

AnnounceResult ==
  /\ At("result", "loop") /\ obuf_putc("END")
  /\ UNCHANGED <<go, exited, heap, xs, bgs, out>> /\ NoDriver /\ Dev

---------------------------------------------------------------------------
(* The host.  It reads the whole ring at once, and looks at the exit flag  *)
(* only when the ring is empty.                                            *)
Board == UNCHANGED <<avars, dpc, heap, xs, bgs, out>>
HostAt(l, to) == hpc = l /\ hpc' = to
Quiet == UNCHANGED <<session, frame, seen, saved>>

(* the board is reset and the program loaded, with its variables; DDR3     *)
(* keeps the image, the weights and the result                             *)
start_program ==
  /\ HostAt("start", "await_WAITING")
  /\ dpc' = "boot" /\ go' = "0" /\ ring' = <<>> /\ exited' = FALSE
  /\ usable' = TRUE /\ caps' \in AttCaps /\ pend' = NoJob /\ blk' = "ok"
  /\ apc' = "idle" /\ h' = 1 /\ m' = attn_bufs /\ f' = NoFlags /\ otherScale' = FALSE
  /\ used' = 0 /\ arenaFailed' = FALSE
  /\ blockNo' = 1 /\ ver' = 0 /\ buf' = [b \in 1..2 |-> 0] /\ cur' = 1
  /\ stats' = 0 /\ hasStats' = FALSE /\ act' = 0
  /\ bg' = NoTap /\ feats' = [t \in Taps |-> NoRows] /\ used_by' = NoImage /\ skewed' = FALSE
  /\ UNCHANGED <<mem, arena, result, session, frame, seen, saved>>

wait_for_marker(l, w, to) ==
  /\ hpc = l
  /\ IF ring # <<>>
       THEN /\ ring' = <<>> /\ seen' = seen \cup Range(ring)
            /\ hpc' = IF w \in seen' THEN to ELSE l
       ELSE exited /\ hpc' = "raised" /\ UNCHANGED <<ring, seen>>
  /\ UNCHANGED <<go, exited, mem, session, frame, saved>> /\ Board

(* load_image does not raise when it breaks off: DDR3 keeps what it held,  *)
(* or holds a mixture, under the file's header or not                      *)
load_blob ==
  /\ HostAt("load", "verify")
  /\ \/ blob' = [head |-> file, whole |-> TRUE] /\ UNCHANGED intact
     \/ /\ blob' \in {blob} \cup [head : {file, "none"}, whole : {FALSE}]
        /\ intact' = FALSE
  /\ UNCHANGED <<go, con, image, file>> /\ Quiet /\ Board
(* three words of the header are compared with the file's                  *)
verify_blob ==
  /\ hpc = "verify" /\ hpc' = IF blob.head = file THEN "magic" ELSE "raised"
  /\ UNCHANGED <<go, con, mem>> /\ Quiet /\ Board
WriteMagic ==
  /\ HostAt("magic", "await_READY") /\ go' = GO_MAGIC
  /\ UNCHANGED <<con, mem>> /\ Quiet /\ Board

(* run_frame: the image only when the program has said it is idle          *)
AwaitIdle ==
  /\ HostAt("await_idle", "send") /\ go = GO_DONE
  /\ UNCHANGED <<go, con, mem>> /\ Quiet /\ Board
send_image ==
  /\ HostAt("send", "go")
  /\ \/ image' = Image(session, frame) /\ UNCHANGED intact
     \/ image' \in {image, NoImage} /\ intact' = FALSE
  /\ UNCHANGED <<go, con, blob, file>> /\ Quiet /\ Board
run_frame ==
  /\ HostAt("go", "await_END") /\ go' = GO_FRAME
  /\ UNCHANGED <<con, mem>> /\ Quiet /\ Board
\* Variant: keeps the text up to the marker as well.
FetchKeepsText ==
  /\ hpc = "fetch" /\ hpc' = (IF frame = Frames THEN "done" ELSE "await_idle")
  /\ saved' \in {saved, [k \in DOMAIN saved \cup {frame} |->
                            IF k = frame THEN result ELSE saved[k]]}
  /\ frame' = frame + 1
  /\ UNCHANGED <<go, con, mem, session, seen>> /\ Board

(* and save_result, which writes no file when the dump is too short; the   *)
(* rest of the text is carried over                                        *)
fetch_result ==
  /\ hpc = "fetch" /\ hpc' = (IF frame = Frames THEN "done" ELSE "await_idle")
  /\ saved' \in {saved, [k \in DOMAIN saved \cup {frame} |->
                            IF k = frame THEN result ELSE saved[k]]}
  /\ frame' = frame + 1 /\ seen' = {}
  /\ UNCHANGED <<go, con, mem, session>> /\ Board

Waits == {"await_WAITING", "await_READY", "await_END", "await_idle"}
TimeOut ==             \* TimeoutError: the run ends
  /\ hpc \in Waits /\ hpc' = "raised" /\ UNCHANGED <<go, con, mem>> /\ Quiet /\ Board
probe_stall == dpc = "hung" /\ TimeOut
NextSession ==         \* the script is run again
  /\ hpc \in {"raised", "done"} /\ session < Sessions /\ session' = session + 1
  /\ hpc' = "start" /\ saved' = <<>> /\ seen' = {} /\ frame' = 1
  /\ file' \in Versions /\ intact' = TRUE
  /\ UNCHANGED <<go, con, image, blob>> /\ Board
Over == hpc \in {"raised", "done"} /\ session = Sessions /\ UNCHANGED vars

---------------------------------------------------------------------------
Init ==
  /\ usable = TRUE /\ caps = {} /\ pend = NoJob /\ blk = "ok" /\ apc = "idle" /\ h = 1
  /\ m = attn_bufs /\ f = NoFlags /\ otherScale = FALSE
  /\ dpc = "off" /\ go = "0" /\ ring = <<>> /\ exited = FALSE /\ image = NoImage
  /\ blob = NoBlob /\ file \in Versions /\ intact = TRUE
  /\ arena \in ArenaSizes /\ used = 0 /\ arenaFailed = FALSE
  /\ blockNo = 1 /\ ver = 0 /\ buf = [b \in 1..2 |-> 0] /\ cur = 1
  /\ stats = 0 /\ hasStats = FALSE /\ act = 0 /\ bg = NoTap /\ feats = [t \in Taps |-> NoRows]
  /\ used_by = NoImage /\ skewed = FALSE
  /\ result = [image |-> NoImage, right |-> FALSE, skewed |-> FALSE]
  /\ hpc = "start" /\ session = 1 /\ frame = 1 /\ seen = {} /\ saved = <<>>

Program ==
  \/ ddr_init \/ Waiting \/ Weights \/ Ready \/ ServerLoop \/ dav2_set_image \/ Infer
  \/ PatchEmbedding \/ LayerNorm("ln1", "qkv") \/ QkvOrFc1("qkv", "att") \/ CallAttention
  \/ EndAttention \/ residual_update("proj", "proj_end") \/ Updated("proj_end", "ln2")
  \/ LayerNorm("ln2", "fc1") \/ QkvOrFc1("fc1", "fc2")
  \/ residual_update("fc2", "fc2_end") \/ Updated("fc2_end", "tap") \/ dav2_lnplain_begin
  \/ Projections \/ Fusion \/ OutputConvolutions \/ Exhausted \/ Report \/ AnnounceResult
Script ==
  \/ start_program \/ wait_for_marker("await_WAITING", "WAITING", "load") \/ load_blob
  \/ verify_blob \/ WriteMagic \/ wait_for_marker("await_READY", "READY", "await_idle")
  \/ AwaitIdle \/ send_image \/ run_frame \/ wait_for_marker("await_END", "END", "fetch")
  \/ fetch_result \/ NextSession
Next == Program \/ Heading \/ dav2_producer_idle \/ Script \/ TimeOut \/ Over

(* The CPU and the script go on; the block ends its job or the driver      *)
(* gives it up; a time-out is certain only when the program hangs.         *)
Fairness == WF_vars(Program) /\ WF_vars(Heading) /\ WF_vars(Script) /\ WF_vars(probe_stall)
Spec == Init /\ [][Next]_vars /\ Fairness

---------------------------------------------------------------------------
(* The head's inputs: a tap's rows are all made of the x that left its     *)
(* block, however many of them were made while the next block was running  *)
(* and x's two buffers were changing places.                               *)
TapsRight ==
  ~arenaFailed => \A t \in Taps, r \in 1..TapRows :
    /\ feats[t][r] \in {0, 1 + 2 * t}
    /\ dpc = "fusion" => feats[t][r] # 0

(* While image and weights arrive whole and the weights are of the         *)
(* engine's version, the script saves nothing but the depth of the image   *)
(* it sent in that turn, computed to the end from right tensors: no stale, *)
(* half-made or exhausted frame is taken for a result.  Its numbers are    *)
(* right but for a softmax with another head's q shift.                    *)
FrameAnswered ==
  intact /\ file = "engine" => \A k \in DOMAIN saved :
    saved[k].image = Image(session, k) /\ (saved[k].right \/ saved[k].skewed)

(* Every run of the script ends, with its images saved or an exception:    *)
(* program and script never wait for each other.                           *)
SessionEnds == hpc = "start" ~> hpc \in {"done", "raised"}

(* main.c says that from DAV2_READY on the program is a server: it gives   *)
(* up only if the arena cannot hold the activations of one image.          *)
ServesEveryFrame == dpc = "fatal" /\ arenaFailed => arena < FrameUnits + 4
=============================================================================
