# Formal models of the RISC-V ViT accelerator

TLA+ models of the parts of this repository where a mistake is hard to find by
testing. Of the hardware: the DDR3 memory path with its watchdog and the bus
engine of the GEMM accelerator, clock edge by clock edge. Of the software: the
accelerator's driver, the quantised GEMM operator, attention, a whole frame with
its background work, the server on the board and the script that drives it. The
models are checked with TLC on small instances; their invariants and refinements
are proved with TLAPS for every value of the parameters, the fixed-point arithmetic
for the code's 32-bit words.

## 1. The system

An RV32 core runs an integer implementation of a vision transformer (depth
estimation) on an FPGA. A GEMM accelerator on the same bus does the matrix
products. Weights and activations are in DDR3, behind a cache and a prefetcher.
A host pushes weights and images through the debug port and reads the depth map.

```
 CPU, debug module, DMA, GEMM
        | TL-UL crossbar
 rvlab_tlul_ddr: watchdog (observer), mux cache / error responder
        |
 (student_tl_rsp_hold: skid buffer, switched off by default)
        |
 rvlab_ddr_cache -> rvlab_ddr_block_cache       last-level cache, write back
        | block port (rvlab_ddr_pkg)
 rvlab_ddr_prefetch                             table of reads in flight
        | block port
 rvlab_ddr_cdc_fifo -> rvlab_ddr_blkmgr -> DDR3 controller and memory
```

### Inventory

| Component | State it keeps | Operations | Hard behaviour | What makes it correct |
|---|---|---|---|---|
| `rtl/ddr3/rvlab_ddr_prefetch.sv` | table of entries (state, address, data), next prefetch address | demand read, write-through, prefetch, answer of the back end, retirement | answers to entries nobody wants any more; several events on one entry at one edge; writes overtaking reads | no slot is lost or owed two answers; readers see current memory; every request is answered |
| `rtl/ddr3/rvlab_ddr_block_cache.sv`, `rvlab_ddr_cache.sv` | data, tag, dirty memories; the request in the pipeline; copies read one edge earlier | hit, miss, write-back, refill | copies that are one edge old; the bus moves on during a stall; an answer in the cycle of the miss | reads return the last write; dirty lines are written back; stalls end |
| `rtl/student/student_gemm.sv`, bus engine | request register, read stream, reorder buffer, write credit, retry timer | issue read, issue write, retry, take answer, pop | answers in any order or lost; late answers; limits; one timer for all | beats in order; no answer in a foreign slot; credit exact; jobs end |
| `student_gemm.sv`, job control and datapath | job registers, state machine of 19 states, tile RAMs, accumulators | GEMM, requantisation, LayerNorm, gather, interpolation, range | many modes share one engine; a job ends only when its writes are acknowledged | the streams asked for are those consumed; results equal the integer reference |
| `rtl/student/student_tl_rsp_hold.sv` | FIFO, pointers, promise counter | take answer, hand answer on, throttle | a cache that cannot be held back | never overflows, keeps the order, opens again |
| `rtl/student/student_tl_watch.sv` | address, source and opcode of a request, outstanding and stall counters | observe | counters that saturate; overlapped traffic | a hang is seen, and nothing else taken for one; what it names was in flight |
| `rtl/student/student_dma.sv` | descriptor, address, lengths, state | fetch descriptor, MEMSET, stop | stop in mid-transfer; answers counted, not matched | writes exactly the range; ends when all is acknowledged |
| `rtl/ddr3/rvlab_tlul_ddr.sv` | control and status registers | dispatch to cache or error responder | calibration changes with requests in flight | every request is answered by whoever took it |
| `rtl/ddr3/rvlab_ddr_blkmgr.sv`, `rvlab_ddr_cdc_fifo.sv` | ring of requests, half-block state | split a block into two beats, collect acknowledgements | acknowledgements by index; full ring | answers once, in order |
| `sw/project/dav2_accel.c` | `accel_ok` and feature flags, one deferred job, driver globals (modes), range unit, LayerNorm tag | 25 entry points, self-tests, collect, report | a job runs while the CPU works; producers start jobs inside another operation; bus errors, hangs, time-outs; failing self-tests | at most one job; a job taken as done was done; no mode left over; failed features unused; calls return |
| `sw/project/dav2_ops.c` | arena, producer, background work, scratch of one operator | GEMM and convolution by ten paths, requantisation in chunks, redo, LayerNorm, add, resampling | each job declined or failed at any point; results converted in place; streamed statistics; 32-bit arithmetic | every path gives the same result; scratch is given back; rounding exact |
| `sw/project/dav2_engine.c` | x and its spare buffer, row statistics, taps, attention's matrices (two of each) | patch embedding, blocks, attention, taps, head | matrices shared by the parity of the head while jobs run; rows made in the waits of another block; memory of a frame | each head and tap is made of its own data; a frame can follow a frame |
| `sw/project/main.c`, `sw/sys/hostio.c`, `tools/dav2_run_fpga.py` | `dav2_go`, console ring, image, weights, result | boot, load, verify, frame, fetch, time out, run again | two programs, no lock, shared memory; time-outs; transfers that break off unnoticed; a full ring | a result saved belongs to its image; nobody waits for ever |
| `student.sv`, `student_rlight.sv`, `student_tlul_mux.sv`, `student_irq_ctrl.sv` | (wiring, a demo, two empty stubs) | | | |
| crossbar, primitives, CV32E40P, debug module, timer, DDR3 controller and PHY | vendored or generated | | | |
| `sw/sys`, `sw/coremark`, `sw/monitor`, `sw/dma`, emulator, exporters, `flow/`, `tb/`, `docs/` | libraries, tests, tools, text | | | |

`PROJECT.json` lists the same components with their status, and under "hazards"
each behaviour above at the line where it bites, with the properties about it.

### How the parts interact

Everything in hardware meets on valid/ready ports. A TL-UL or block port carries
one request per accepted edge and one answer per accepted edge; every bug this
part of the code has had (the comments and `docs/DEBUGGING.md` tell of a wrong
line, a hung frame, lost words and vanished requests) was a disagreement about
an edge: a slot reused before its answer, an index read from the live bus, an
answer offered to somebody not ready. That is why the models are cycle accurate:
one TLA+ step is one rising clock edge, all registers change together, wires are
operators over the registers and inputs, and the inputs of the next cycle are
chosen anew.

In software there is one thread on the board. What makes it concurrent is the
block, which works while the CPU does, and the host. The engine calls operators
(`dav2_ops.c`), an operator calls the driver, and the driver calls back: in every
wait it lets a *producer* make the next rows of the input, or the *background*
make rows of a LayerNorm nobody needs yet; and before a tile it lets the producer
start, and collect, jobs of its own. A job may be left running (`*_async`), to be
collected by `dav2_accel_finish` or by the next entry point. Any job may be
declined (a feature is absent, a shape does not fit) or fail, which disables the
block for good (`accel_ok = 0`); the operator then computes the same on the CPU.
A step of these models is what happens between two points where the block or the
host may act.

## 2. Modules

| Module | Models | Kind |
|---|---|---|
| `BlockPort` | the promise of a block port (`rvlab_ddr_pkg.sv`) | abstract specification |
| `DdrPrefetch` | `rvlab_ddr_prefetch.sv` | detailed, implements `BlockPort` |
| `DdrPrefetchProofs` | | proofs |
| `DdrBlockCache` | `rvlab_ddr_block_cache.sv` and the beats `rvlab_ddr_cache.sv` gives it | detailed, implements `BlockPort` |
| `DdrBlockCacheProofs` | | proofs |
| `GemmBus` | bus engine of `student_gemm.sv` | detailed |
| `GemmBusProofs` | | proofs |
| `RspHold` | `student_tl_rsp_hold.sv` | detailed |
| `RspHoldProofs` | | proofs |
| `TlWatch` | `student_tl_watch.sv` | detailed |
| `TlWatchProofs` | | proofs |
| `AccelJob` | the comment of `dav2_accel.c:269-276` on jobs left running | abstract specification |
| `Accel` | `dav2_accel.c` and the block behind it | detailed, implements `AccelJob` |
| `AccelProofs` | | proofs |
| `Qgemm` | `qgemm_impl` of `dav2_ops.c` and its callers, and `layernorm_affine`, over the driver as `AccelJob` describes it | detailed |
| `QgemmProofs` | also the arithmetic of `Fixed` | proofs |
| `Fixed` | the arithmetic of `dav2_ops.c` and `dav2_xf.h` | operators, compared with definitions |
| `Attention` | the attention of `dav2_engine.c` | actions, used by `Engine` |
| `Engine` | `dav2_infer`, its blocks, the arena, `main.c`, `hostio.c`, `dav2_run_fpga.py` | composition |
| `EngineProofs` | | proofs, of `Attention` inside `Engine` as well |
| `MC*` | | instances for TLC; `MCGemmRetry`, `MCTlWatchNames` and `Engine` (for `frames_arena`) also state the sentences they refute |

Definitions keep the names of the source. `PROJECT.json` "map" gives the lines of
each. Definitions marked "Variant" in a comment are never used by a
specification: each is the form one definition would have with a plausible (often
the historical) mistake, and shows which property would notice it.

### BlockPort

A memory, one request at the port, one answer offered. A request stays until it
is answered; a read is answered with the memory's contents; an answered write
takes effect. A reset drops the request, not the memory. One byte of each block
is followed, because write masks work byte by byte: a partial write either
sets that byte (`Put`) or not (`PutOther`).

### DdrPrefetch

State: `entry_states`, `entry_addrs`, `entry_data`, `next_prefetch_addr`; the
input wires `fe_req`, `be_a_ready`, `be_d_valid`; of the back end the answers it
owes (`inflight`) and the memory (`dram`). `Clock` is the edge: `UpdateStates`
applies retirement, answer and allocation in the order in which the assignments
of the always_ff block override each other. `Reset` is `rst_ni`. The front end is
the cache, which holds a beat until it is taken and always takes an answer.

### DdrBlockCache

State: the three memories, the request in the pipeline (`access_q`), the stall
flag, the copies read for the request, the last write (for forwarding), and of
the back end the answers owed and the memory. In an edge the front end may show
anything; while the cache stalls nothing is sampled, but the shown address
matters to a cache that looked things up by it (as an earlier version did),
so the model keeps it. The back end may answer in the cycle it takes a request,
as the prefetcher does.

### GemmBus

State: the request register `areq_q`, the read stream (`rd_addr_q`, `rd_left_q`),
the reorder buffer, the write credit, the retry timer, and of the memory the reads
and writes it has accepted. The accelerator around the engine is open: it loads a
stream when the last one is issued (`StartStream`; the dozen places of the state
machine that load `rd_left_q` all do so then), pops when it likes, offers words
when it likes. `Lose` drops an answer to a read, which the cache does when
`d_ready` is low. Rows and strides of a stream are data: a beat is its number.

### RspHold

State: FIFO, pointers, occupancy, promises; the host's request; how many requests
the cache has taken and answered. Payloads are request numbers.

### TlWatch

State: the request named (address, source and opcode are its number), the
outstanding and the stall counter; of the port how many requests it has taken and
answered, and how long ago it took each (`age`, a history the code does not have:
the counter is compared with it). The port answers in order, takes up to
`PORT_DEPTH` requests, and may stop answering at any time. An answer the host does
not take (`d_ready` low) is no beat for the watchdog, so for it that request is
unanswered.

### Accel

State: the driver's static variables under their own names (`accel_ok` is `ok`,
the `accel_*_ok` flags are the set `feats`, `pend.active` is `pend`), the
operation in progress, the producer, and the block: busy, error, the job it runs,
what its range registers and LayerNorm statistics cover. An operation is a record
of the features it needs, the driver globals it sets and the ones it clears, its
number of jobs and a few flags; the inner functions give plain operations and
each wrapper (`With`, `Need`, `Async`, `Ranged`) adds what it adds in the code, so
the set `Calls` has every entry point. `Enter` is an entry point up to its first
job (declined, settled or begun), `InputReady` and `StartJob` a tile, `Took`,
`TimeOut`, `BusError` and `Account` the end of the bounded wait, `Return` the last
lines of the wrappers. How far a call gets before it is declined matters, and is
modelled: `Begins` says which entry points have withdrawn the range of the operation
before by then (the on-chip ones have not, so `dav2_accel_rng_get` still offers it),
and a phase B of LayerNorm clears its tag only when it is accepted. `Report`, which
sets the count of jobs back to 0, may come between any two calls. `BlockEnd` and
`Block` are the end of a job in `student_gemm.sv`. `MakeByLerp` is a LERP job started by the producer inside
another operation. `SelfTest` walks through `dav2_accel_check` in its order.
The client is the most general one: any call at any time between two others.

`AccelJob` is the driver seen from outside: one slot for a job, filled only when
empty, collected before the block is given up.

### Qgemm and Fixed

`Qgemm` has the program counter of `qgemm_impl`: rectified input, allocation, the
product (convolution or GEMM, on chip or in DDR3, by im2col or by the gather
unit, on the CPU), the range pass over streamed statistics or the block's own
range unit, parameters, the extremes' own job, the conversion in chunks, and the
three ways out: the result, the conversion on the CPU, and `redo_on_cpu`, which
calls the operator again. LayerNorm (`layernorm_affine`) has its own way through
the same driver: both phases in the block, two `requant16` jobs with the extremes
found by the block or by the CPU, the CPU alone, or 32 bits when a buffer is
missing or N is odd. `Operations` is the set of all records the callers can make,
and `OpSet`, what a run or a client uses, is assumed to be among them. A buffer is junk, right or wrong; a job writes its
buffer when it ends. The driver is what `Accel` shows it to be: a call is declined
or leaves a job, the job ends, fails, or is collected by the next. `Fixed` is what
`Qgemm` abstracts from: multipliers, means, scales, the table of Phi and
resampling, on a word of `2 * HalfBits` bits (the code: `HalfBits` = 16) and a table
with `2^PhiStep` entries per unit for arguments with `PhiQ` fraction bits (7 and 20).
`ArithmeticExact` is the conjunction of what each of these computations promises, by
name (`RequantExact` to `BuffersExact`).

### Attention and Engine

In `Attention` a buffer holds the number of the head its contents belong to, 0
while a job writes it or when two heads are mixed. The three paths (`split` for
8-bit operands, `smx` one head after the other, `pipe` with the next head's scores
made during this head's softmax) are one set of actions under flags.

`Engine` composes it with everything around: x has a version that grows by one
with every residual update, a tensor has the version of x it was made of, 0 when
it is not right. The arena counts units, one for each group of allocations that
nothing releases; `Borrow` is a group between a mark and its release. The
background LayerNorm (`bg`) makes rows whenever the block is waited for. The host
is the script: start, await a marker, load and verify the weights, start a frame,
fetch and save; it may time out in any wait, and is run again, which resets the
board and the program's variables (`start_program`) but not DDR3: image, weights and
result stay. After a failed allocation, or when a tensor is not found in broken
weights, the program uses a null pointer: it hangs or goes on with wrong values.

A bulk transfer (`load_blob`, `send_image`) arrives whole or breaks off; either
way the script goes on. Broken weights (`blob`) have the header of the file, no
header, or are what was there before; `verify_blob` compares the header only, so
it passes the first and, if the versions agree, the last. `file` is the version of
the script's weight file, the engine's or another, and `dav2_blob_check` compares
the header with the engine's. Three histories let properties speak of this:
`intact` (each bulk transfer of this session arrived), `skewed` (a softmax of this
frame took another head's q shift), and in `result` the image, whether the depth is
right, and whether it is skewed. A single word read or written over JTAG (`dav2_go`,
the header, the console's indices) is taken to arrive. `fetch_result` may save
nothing, as when the dump comes back short.

## 3. Runs

| Run | Result | Shows |
|---|---|---|
| `block_cache` | passes | `CleanLinesCurrent`, `DirtyLinesWrittenBack`, the port refinement `PortImplemented`, `StallEnds` |
| `prefetch` | passes | `InFlightExact`, `EntriesCurrent`, `PortImplemented`, `RequestAnswered` |
| `gemm_bus` | passes | `BeatsInOrder`, `NoStrayRead`, `CreditExact`, `JobEnds` |
| `gemm_retry` | violated | a silent empty head is not always issued again after `RETRY_CYCLES` |
| `accel` | passes | `SuccessMeansDone`, `NothingLeftBehind`, `RangeWhole`, `PairedLn`, `JobAsAsked`, `FailedUnused`, the refinement `SlotKept`, `CallReturns` |
| `qgemm` | passes | `ResultRight`, `ArenaKept`, `ArithmeticRight` |
| `engine` | passes | `ContextRight`, `TapsRight`, `FrameAnswered` |
| `sessions` | passes | `FrameAnswered`, `SessionEnds` |
| `frames_arena` | violated | the server does not serve image after image: the arena is used up |
| `rsp_hold` | passes | `RoomForPromises`, `AnswersInOrder`, `AllServed` |
| `tl_watch` | passes | `OutstandingExact`, `NoFalseHang`, `HangShown` |
| `tl_watch_names` | violated | the request named need not have been in flight when the stall began |

Each passing run but `tl_watch` (of which it is proved), `engine` and `sessions` also
checks its module's `TypeOK`. Deadlock is checked in all.

What the software properties say: a job taken as done is the job that was waited
for and ran to its end (`SuccessMeansDone`); a job left running is the block's
current one until collected, and a disabled block has none (`NothingLeftBehind`);
a range offered is that of all rows of one operation, never of two or of a part
(`RangeWhole`); LayerNorm's second phase finds the statistics of the last first phase
if the count of jobs was not reset since (`PairedLn`);
a job runs in the modes of its own call (`JobAsAsked`); nothing a self-test found
wanting is used (`FailedUnused`); every call returns though the block hangs
(`CallReturns`). Whatever was declined or failed, the caller of the operator gets
the product, its ranges and extremes (`ResultRight`) and its memory back
(`ArenaKept`). Every head's context is made of that head's matrices
(`ContextRight`), every tap of the x that left its block (`TapsRight`). While image
and weights arrive whole, and the weights are of the engine's version, the script
saves only the depth of the image it sent, made of right tensors, its numbers right
but for a softmax with another head's q shift (`FrameAnswered`): the three exceptions
are what the code does otherwise (section 7). Every run of the script
ends (`SessionEnds`).

Of the watchdog: its counter is 0 when the port owes nothing and never exceeds the
time for which the oldest unanswered request has really waited (`NoFalseHang`), so
that at its maximum it is evidence of a hang; and every hang gets it there
(`HangShown`).

### Bounds and why they are enough

- `prefetch`: two entries, the least the parameter allows, already have both roles
  (one answered, one allocated at the same edge); three addresses give one below,
  one at and one above a request, and the wrap; two data values tell stale from
  current. About 214,000 states.
- `block_cache`: two sets (the stalled one and another), two tags (the line and
  its alias), two values. About 73,000 states.
- `gemm_bus`: four slots with three in flight, so that the pointers wrap and the
  limit is below the size; a timer of 3 that wraps at 5 over a latency of 2; six
  beats, four writes, two lost answers. The bounds `NBEATS`, `NWRITES`, `MaxLost`
  only end a behaviour. About 108,000 states.
- `rsp_hold`: three places (not a power of two), twelve requests (each pointer
  wraps four times). 210 states.
- `tl_watch`: a port as deep as the outstanding counter counts (3), so that its
  end is reached; a stall counter that stops at 4, so that it saturates with every
  number of requests outstanding; six requests. 233 states.

- `accel`: three operations of up to two jobs (one leaves a job or a mode, the
  next must meet it, the third shows the damage), nine calls of `Calls`, one of
  each way through the driver; a producer of one row, so that a LERP job, a CPU
  row and an idle row each happen; one self-test that may fail, beside the first
  one's start. `MaxCalls`, `MaxTiles` and `Rows` are the bounds. About 1.4 million
  states. The proofs cover the other calls and sizes.
- `qgemm`: two chunks (one converted while the next is prepared), two rows of
  statistics (read whole, torn, and not streamed), five sets of features times
  seven shapes times the eight callers. About 73,000 states. `HalfBits` = 4: a
  word of 8 bits, of which every operand, multiplier and shift is tried, and a table
  of two entries per unit (`PhiQ` = 2, `PhiStep` = 1). The proofs cover the code's word.
- `engine`: three heads (both parities and the reuse of one), two blocks with a
  tap after each, two rows of a tap (one made in the background, one left over),
  two frames in one run of the script, a ring of two, four sets of features (one
  for each path, and none), and arenas too small for a block, enough for one frame
  and for two. About 4.9 million states.
- `sessions`: what concerns the script only: two runs of it with two frames each, so
  that the second meets image, weights and result of the first, whole or broken, of
  either version; one block with one head and one tap row, the same arenas. About
  555,000 states, small enough for the liveness property.
- `gemm_retry`: two slots, one lost answer, and a counter whose wrap is far off.
  `tl_watch_names`: a port two deep. `frames_arena`: the instance of `engine`.

### The violations

Three sentences of the repository are refuted by a run. Others that the code does
not keep are in section 7.

`frames_arena`: `dav2_infer` takes its long-lived tensors from the arena without a
mark and never gives them back, and `dav2_arena_init` is called once, before the
server loop. The run shows an arena that held the first frame refuse the second;
the program prints its FATAL line and ends. With the sizes of the network a frame
keeps about 5 MB of the 64 MB, so a session ends after some thirteen images. A
mark before `dav2_infer` in `main.c` and a release after it would cure it.

`gemm_retry`: the timer matches `retry_cnt_q == RETRY_CYCLES` while the head is
empty. It also counts while the head is answered and waits to be popped. If that
lasts longer than `RETRY_CYCLES` and the answer to the slot behind was lost, the
count has passed the match when that slot becomes the head. Nothing restarts it,
and the retry comes only when the 32-bit counter has wrapped (86 s at 50 MHz).
This is also why `JobEnds` holds: `gemm_bus` has the wrap, at `CNT_MOD`, and its
mutant `SaturatingTimer` shows that without the wrap the job hangs. With `>=` for
`==` the refuted property holds.

`tl_watch_names`: the watchdog captures a request only when nothing is
outstanding. Take request 1, take request 2 as 1 is answered, and hang: the stall
counter saturates and the watchdog names request 1, which was answered. It is
exact for a master with one request outstanding, as its comment says.

## 4. Fairness

- `DdrPrefetch`: an edge with `be_a_ready` and one with `be_d_valid` recur. The
  block manager takes a request whenever its ring has a free slot and frees slots
  in order as the DDR3 controller acknowledges.
- `DdrBlockCache`: a stalled cache's request is taken, and an answer that is owed
  is given. This is what the prefetcher's `RequestAnswered` provides.
- `GemmBus`: edges in which the bus is ready, a write is acknowledged, the state
  machine pops an available word, and offers a word it has left. All weak. The bus
  and the memory serve everybody (round-robin sockets); every load state pops what
  it waits for and `ST_DRAIN` offers until `t_q == n_wr`.
  A read is answered within `LATENCY` quiet cycles unless it is lost: an
  assumption of the code itself (`student_gemm.sv:97-106`, a 250-fold margin).
- `RspHold`: the cache takes and answers, the host takes answers.
- `Accel`: the CPU goes on (`WF_vars(Driver)`). Nothing of the block: it may hang
  in any job, and `CallReturns` holds all the same, because each wait is bounded
  and a producer has finitely many rows.
- `Engine`: the program and the script go on, attention's jobs end or are given up
  (what `CallReturns` says of the driver), and a wait of the script times out when
  the program hangs. A time-out at any other time is possible and never required.
- `Qgemm` has no liveness property and no fairness: one of its polls has no
  time-out (section 6).
- `TlWatch`: the clock runs. Nothing is assumed of the port: `HangShown` is about
  the case where it does nothing.

## 5. Proofs

TLAPS checks every obligation of these modules. No constant is fixed, but for the length
of a word where the arithmetic depends on it.

`DdrPrefetchProofs`: `TypeCorrect`, `NoEntryLost`, `EntriesStayCurrent`,
`ReadsAreCurrent`, `PortCorrect`. From `SIZE >= 2`, `NADDR > 0`. `InFlightExact` is
inductive together with the types: retirement, answer and allocation concern
disjoint entries except in the order the code resolves, and a slot is allocated only
when it is not owed an answer, so the identifiers in `inflight` stay distinct.
`EntriesCurrent` needs it: an answer arriving for a Pending entry is the one read
for it, and a write retires exactly the entries of its address. `PortCorrect` is the
refinement: an edge takes or answers at most one request of the front end
(`PortStep`), the write that reaches memory is the one presented (`DramStep`), and
what a read is answered is `ReadsAreCurrent`; every other edge is a stutter.

`DdrBlockCacheProofs`: `TypeCorrect`, `CleanCorrect`, `WriteBackCorrect`,
`PortCorrect`, for any sets, tags and block contents. The three properties follow
from an invariant they do not state. `CopiesExact`: the copies read one edge ago
are those of the request in the pipeline; the flag's copy may only err towards
dirty. `OwedExact`: what the back end owes in each phase of a stall. `LinesCurrent`:
every line is dirty or what the memory holds, except the one being replaced once
its read has been sent. The first is where the historical bugs of this file were
(an index from the live bus, a write the copy missed); the second is what makes the
answer taken as the refill that of the read, not of the write-back before it. The
back end is taken phase by phase (`BackEndStep`), the cache as an edge that flows
and one that stalls. In `PortCorrect` the memory of `BlockPort` is the dirty line
where there is one and `dram` elsewhere.

`GemmBusProofs`: `TypeCorrect`, `StreamInOrder`, `NoAnswerStrays`,
`CreditsBalance`. From `MAX_INFLIGHT <= OUTSTANDING` and
`LATENCY < RETRY_CYCLES < CNT_MOD`. The inductive invariant adds two parts that no
property states. `WindowExact`: the slots in use are the `rb_cnt_q` slots from
`rb_rd_q` on, `rb_wr_q` follows them, and the slot at distance d was issued for
beat `rd_addr_q - rb_cnt_q + d` and, once answered, holds it. `TimerExact`: while
a read is under way the timer has counted no more than the quiet cycles, and no
retry is pending; so a retry is issued only when the memory has nothing to
answer, and the repeated read is the only one for its slot.

`RspHoldProofs`: `TypeCorrect`, `NoOverflow`, `OrderKept`, for every `DEPTH`. The
inductive invariant places answer k at `k % DEPTH` in terms of the pointers.

`TlWatchProofs`: `TypeCorrect`, `CountsAreExact`, `PinnedIsEvidence`. From
`PORT_DEPTH <= MAX_OUTSTANDING`, which the module's header claims of the port.
The outstanding counter does not saturate because it is exact and the port is no
deeper, and zero means nothing in flight. For `PinnedIsEvidence`: when an answer makes
the next request the oldest, that one may be younger than the counter was, but the
counter restarts in that very edge; and while no answer comes both grow together.

`AccelProofs`: from `MaxTiles > 0`, `CapSets` a set of sets of features, and the
client making only calls of `Calls`; any number of operations, tiles and rows, any
self-test failing.
- `OneJobAlways` is the inductive invariant. `Trusted`: while the driver trusts the
  block, the block's current job is the one waited for or the one left running, and
  it is idle, failed or has done exactly that job. `GivenUp`: a driver that lost
  the block holds no job and will defer none; it must say so for an operation that
  goes on after its nested LERP job failed, where the LERP's wrapper has cleared the
  deferral. It gives `TakenIsDone`, `LeftIsCollected`, and, with a step lemma per
  action, the refinement `ImplementsAccelJob`.
- `ModesAreTheCalls`: lemma `CallsBalanced` shows of every entry point that it
  clears exactly what it sets, by following the wrappers; with it the globals are
  those of the call while one is in progress and empty otherwise.
- `FailedAreUnused`: `Healthy` says that failed features are off, that the tests
  failed so far are among those already run, and that an accepted operation has what
  it needs; lemma `OrderOnce` (each test comes once) is what keeps a later test from
  switching a failed feature on again.
- `RangesAreWhole`: a range not yet read survives operations that are declined before
  they withdraw it, and belongs to the one before them. `RangeInv` follows the range registers through the tiles. While
  a ranged operation runs they belong to it and cover the tiles before the current
  one, and the current one as well when it has ended; a job of the producer in
  between must leave them alone, which is why it is not ranged.
- `LnPhasesPair`: `LnInv` says when the block still holds the statistics the tag
  names: no job has ended since `ln_a` but jobs the tag's counter has seen. A declined
  phase B leaves the tag as it is; a report makes the counter start anew, and from
  then to the next phase A nothing is claimed.
- `TypeCorrect`: on top of these.

`QgemmProofs`: `Invariant`, `TypeCorrect`, `ArenaGivenBack`, `ResultCorrect`. From at
least one chunk and one row, `CapSets` a set of sets of features, and `OpSet` among
`Operations`. The invariant has a part for each stage of the operator, and each
stage needs the part before it:
- `ArenaInv`: every mark is that of an empty arena, and there is one per call in
  progress, `qgemm_no_onchip` of which are redone. It is what the recursion of
  `redo_on_cpu` keeps.
- `RedoInv`: a job is left running only where somebody will collect it, and the
  second redo happens without the block; hence two are enough.
- `StartInv`: before the product nothing of an earlier try is left, and the input is
  rectified exactly when neither the block nor im2col will do it. `ProductTried`
  shows of the four entry points, tried in turn, that the ReLU is applied once.
- `RangeInv`: in the range pass the product is right, or it is being written by
  the one job left running; what was read of it is whole, torn, or will be thrown
  away because that job failed.
- `AfterInv`, `RowsInv`: the parameters found so far are right, chunk c is right when
  chunk c + 1 has been launched, and the last is right once it is collected. The
  residual is still intact then, so the CPU may convert everything again.
- `OutInv`, `NormInv`: what the caller gets; and the halves of LayerNorm.

One lemma per action (`<Action>Kept`) shows that it keeps the invariant. The lemmas
about data they share are few: `AllocTyped`, `ClearTyped`, `MarkPopped`,
`OperationTyped`.

The second half of the module is the arithmetic of `Fixed`. `ArithmeticCorrect` says
that `ArithmeticRight` always holds when a word has 32 bits, as in the code, or 16.
(With 8 bits, the word of the run, TLC decides it.) It is put together from one
theorem per computation, from `HalfBits >= 3` and `PhiStep <= PhiQ`:
- For every `HalfBits`: `RequantRight`, `EmbedRight`, `AddTermsRight` (the product
  assembled from two words, with the carry of the lower, is the rounded quotient),
  `MeanRight`, `RowStatsRight` (rows of any length and values), `CompareRight` (any two
  scales), `GeluRight`, and `ResampleRight` with `BlendIsWeighted`, `RowsInBuffers` and
  `SourceRowsExist` for all sizes and values.
- For words whose length is a power of two, which the halving of `xf_clz64` relies on:
  `NormRight` (leading zeros exact, mantissa the nearest, the carry of the rounding
  included, for numbers of up to two words and any shift), `AddRight` (any two scales,
  the smaller shifted out or not) and `RecipRight`.
- For words of 16 and 32 bits: `RsqrtRight`. With N = 2^(W-2) and x the argument, the
  miss of an estimate y is `Miss`, N^3 - x y^2. The chord of the start misses by at most
  half of N^3 (`ChordMisses`). A Newton step turns a miss of a q-th into one of about
  3/(4 q^2) plus the truncations of its three divisions (`NewtonIs`, `NewtonError`), so
  it goes 1/2, 1/4, 1/16, 1/256 to 2^-16 and the truncations (`RootReached`); the last
  step is within two units of the root (`LastStep`). `StepInWords` shows that no
  product of a step overflows its word while the miss is at most a half.

What these need is proved from the library of finite sets: the laws of 2^n, of which
the provers know nothing, from the number of subsets of `1..n` (`PowerIs`); induction
over an interval from its least counterexample (`LeastNatural`, `Induction`); the values
of a recursive function on an interval from both (`Recursion`); and quotients by a
divisor that is not a literal (`Divided` to `QuotientOfQuotient`).

`EngineProofs`: `CallInvariant`, `ContextCorrect`, `FrameInvariant`, `TapsCorrect`,
`SessionInvariant`, `FramesAreAnswered`. From `HeadsAssumption` (at least one head) and
`EngineAssumption` (at least one block and one row per tap, taps among the blocks, at
least one frame, one session and one word in the console's ring). There are three
inductive invariants, each with the one before as its first part, as each layer
relies on the one below only through what a finished call has made:
- `AInv`, of an attention call. The model writes the head's number into each matrix,
  so `AttInv` can say at each step of each path whose matrix it must be, if it is
  still to be read: `VtInv`, `ScoresInv`, `ExpInv`, `ProductInv`, `CtxInv`, `SplitInv`.
  `JobInv` names the only job that may be running at that step, and the parts say of
  what it writes only that it is right once the job has ended well. On the pipelined
  path two heads are under way; they alternate between two sets of buffers
  (`Places`: `Par(h + 1) = 1 - Par(h)`), and the proof of each step is that what it
  writes is of the other parity, or is not read again. A job that fails leaves its
  output spoiled (`Spoiled_*`), and the CPU's second try reads what `AttInv` still
  vouches for. `ContextRight` alone is not inductive: it speaks of the last step.
- `EInv`, of a frame. `XInv` gives the version x has at each point of a block, in
  which of its two buffers, and that statistics kept for a LayerNorm are of that
  version. `BgInv` says when a tap may still be in the background (up to the
  attention of the next block, where x has not been written over) and `RowsInv` which
  rows are made. All but the types hold while the arena lasts.
- `FInv`, of a session. `BlobInv`: once the weights of this session are loaded and have
  arrived, those in DDR3 are whole and of the file's version, whatever an earlier
  session left there. `IdleLoop`: until the script writes `dav2_go` the server is in
  its loop or idle, and no END is in the ring or already seen. `AnswerInv`: from the
  write of `dav2_go` to the END the image in use is the one sent, and an END that has
  been printed and not yet used announces the result of that image. So an END is
  never one of the frame before, which is what `FrameAnswered` turns on.

Each operator of `Attention` has a lemma with what it writes and what it leaves
alone (`QPrepared` to `Normalised`, `SPut` to `Settled_c8`); a step's lemma (`Kept_*`,
`Frame_*`, `Answer_*`) cites these instead of the operators' definitions.

Each inductive invariant was checked by TLC on the instance of its run before it
was proved.

Only model-checked: liveness (`RequestAnswered`, `StallEnds`, `JobEnds`, `AllServed`,
`HangShown`, `CallReturns`, `SessionEnds`), which is beyond the prover. Every
invariant and action property of a passing run is stated by a theorem.

## 6. Not modelled

- Resets of the cache in the middle of a miss, and of the DDR3 back end alone.
- The job sequencer of the accelerator, the DMA engine, the block manager and the
  multiplexer with the error responder (section 8).
- Address arithmetic of rows, strides and gather walks; the datapath of the
  accelerator; the numerics of the network beyond `Fixed`. They are sequential data,
  and the repository compares them bit for bit with a host build.
- Writes of a job after its time-out: in the models a job given up is dead. The
  driver cannot stop one, and the CPU then computes into the buffers the job knows.
  No property of the results covers them.
- Single words lost by the JTAG transport, and the sampled comparison of
  `--verify-sampled`.
- The saturation of the watchdog's outstanding counter: no port is that deep.
- The streaming poll of `dav2_ops.c:862-864` has no time-out, unlike the waits of
  the driver; termination of `qgemm_impl` is therefore not claimed.
- Shifts of 48 and more in the wide path of `add_range` (`dav2_ops.c:1940`), where C
  gives `1 << (sa - 17)` no meaning.
- Allocation failures of the optional buffers of `qgemm_impl`, which set
  `dav2_arena_failed` although the code has a fallback.
- The lookup of weights by name, traces, dumps, profiling, the benchmark builds.
- Metastability and the clock crossing itself.
- Vendored and generated code; libraries, tests and tools.

## 7. Where code and text differ

Beside the three refuted sentences, writing the models showed these. Each is in the
model as it is in the code, and the property next to it says what it leaves out;
nothing passes by the model being better than the program. The runs do not report
them.

Defects of results:

- A broken transfer of the weights. "Spot-check the header so a truncated transfer is
  caught early" (`dav2_run_fpga.py:268`), and "The weights are in and verified"
  (`main.c:427`). `verify_blob` compares three words of the header, which the first
  chunk of the transfer writes; nothing looks at what `load_image` answers, and
  `dav2_blob_check` compares two of the same words. A transfer that breaks later is
  accepted by both, and the depth computed from it is saved. `FrameAnswered` therefore
  speaks of sessions whose bulk transfers arrived (`intact`).
- Weights of another version. `dav2_infer` has no way to say that it computed nothing:
  it prints a message and returns (1272-1273); `main.c` (450-452, 480-481) announces
  whatever lies at the result's address, under an uninitialised scale. `verify_blob`
  compares the version with the file's, not with the engine's. `FrameAnswered` speaks
  of a file of the engine's version.
- The next head's scale. In the pipelined attention `S_START(h + 1)` (901) sets `b.q_sh`
  before the softmax of head h. When head h's exponential job was declined or has
  failed, the CPU makes that softmax (918) with the shift of head h + 1, against "The
  same numbers as the split path" (713-714). `ContextRight` is about the matrices and
  allows it on the pipelined path only; `FrameAnswered` allows a `skewed` result.
- Torn row statistics (`dav2_ops.c:860`: the poll ends when either of two words has
  changed). `ResultRight` excludes operations that read them so.

Words that say more than the code does, without harm to a frame today:

- "Time since the port last had nothing outstanding" (`student_tl_watch.sv:95`). Any
  answer restarts the counter, whatever else waits: take a second request in the cycle
  in which the first is answered. It is the time since the last answer, and so a lower
  bound for the wait of the oldest request; the conclusion the comment draws, that the
  maximum is evidence of a hang, is right and is `NoFalseHang`.
- "Phase B must follow phase A with no other job in between" (`dav2_accel.c:997-999`).
  The tag of phase A is the count of jobs at its end. It stays until a phase B is
  accepted (1038-1042), and `dav2_accel_report` sets the count back to 0 (264), so that
  after as many jobs as before it matches again, over the statistics of another job.
  The only caller runs phase B right after phase A, and reports come between frames.
  `PairedLn` speaks of phases with no report between.
- `dav2_accel_rng_get` gives "0 when the operation did not run with the range unit
  (declined, ...)" (`dav2_accel.h:242-245`). The two on-chip operations decline
  (1664-1675, 1200-1201) before they withdraw an unread range, so the one of the
  operation before is still offered. The only caller asks for the range of operations
  that ran. `RangeWhole` says whose range is offered, not that it is the last
  operation's.
- "Beats should be presented until accepted" (`rvlab_ddr_pkg.sv:15-16`). A prefetch
  read the back end has not taken is replaced as soon as the cache shows a miss
  (`rvlab_ddr_prefetch.sv:258-278`). The clock-crossing FIFO samples beats only when it
  takes them; a back end that relied on the rule would break.

`SuccessMeansDone` speaks of a trusted block: after a nested LERP job failed, the
operation around it starts its next tile without looking at `accel_ok` again.

## 8. Plan

Next, in this order:

1. `GemmJob`: the job sequencer of `student_gemm.sv` over the bus engine.
2. `StudentDma`: descriptor fetch, MEMSET, stop.
3. `BlkMgr`: the request ring and its two-beat transfers, refining an in-order memory.
4. `TlulDdr`: the multiplexer with the error responder.

Proofs to come: those of the modules above, the ring of the block manager first.
