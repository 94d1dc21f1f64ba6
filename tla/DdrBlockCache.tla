--------------------------- MODULE DdrBlockCache ---------------------------
(***************************************************************************)
(* The last-level cache in front of the DDR3 memory,                       *)
(* src/src/rtl/ddr3/rvlab_ddr_block_cache.sv: direct-mapped, write-back,   *)
(* one request in its pipeline.  Block RAM reads take a clock cycle, so    *)
(* the line, the tag and the dirty flag a request is judged by are copies  *)
(* read one edge earlier (data_rdata, tag_rdata, dirty_rdata), and the     *)
(* hazards are those of stale copies.                                      *)
(*                                                                         *)
(* Each edge is a step.  The front end may present any request, also a new *)
(* one while the cache stalls, when it samples none.  The back end takes   *)
(* requests when it likes, executes them in the order it took them, and    *)
(* answers in that order, in the same cycle (the prefetcher) or later.     *)
(* Of each block one byte is followed (see BlockPort).                     *)
(***************************************************************************)
EXTENDS Integers, Sequences

CONSTANTS Tags, Sets,   \* an address is a tag and the index of a set
          Data          \* values of the byte followed; 0 is one of them

ASSUME TagsAssumption == 0 \in Tags
ASSUME SetsAssumption == 0 \in Sets
ASSUME DataAssumption == 0 \in Data

VARIABLES data_mem, tag_mem, dirty_mem,              \* the three memories
          access_q,                                  \* the request in the pipeline
          access_idx_q_q, stall_q,
          data_rdata_raw, tag_rdata, dirty_rdata,    \* what was read for it
          data_wen_q, data_wdata_q,                  \* the write of the last edge
          owed,    \* back end: answers it has not given yet, oldest first
          dram     \* back end: the contents of the memory

lookup == <<data_rdata_raw, tag_rdata, dirty_rdata, data_wen_q, data_wdata_q>>
vars   == <<data_mem, tag_mem, dirty_mem, access_q, access_idx_q_q, stall_q,
            lookup, owed, dram>>

Addrs == Tags \X Sets
Tag(a) == a[1]
Idx(a) == a[2]

\* The address that an idle bus happens to show is of no consequence.
Idle  == [a_valid |-> FALSE, a_opcode |-> "Get", a_address |-> <<0, 0>>]
Gets  == [a_valid : {TRUE}, a_opcode : {"Get"}, a_address : Addrs]
Puts  == [a_valid : {TRUE}, a_opcode : {"Put"}, a_address : Addrs, a_data : Data]
Other == [a_valid : {TRUE}, a_opcode : {"PutOther"}, a_address : Addrs]
Beats == {Idle} \cup Gets \cup Puts \cup Other

-----------------------------------------------------------------------------
(* Wires. *)

access_tag_q == Tag(access_q.a_address)
access_idx_q == Idx(access_q.a_address)

miss  == access_q.a_valid /\ tag_rdata # access_tag_q
stall == stall_q \/ miss
hit   == access_q.a_valid /\ tag_rdata = access_tag_q /\ ~stall

fe_modify_req == hit /\ access_q.a_opcode # "Get"

\* Variant: the earlier write-back, blind to a write at the last edge.
raw_rdata  == data_rdata_raw
\* The block RAM gives the contents before a write at the same edge; that
\* write is put over it.
data_rdata == IF data_wen_q /\ access_idx_q = access_idx_q_q
              THEN data_wdata_q ELSE data_rdata_raw

be_req ==
    IF ~miss THEN Idle
    ELSE IF dirty_rdata
         THEN [a_valid |-> TRUE, a_opcode |-> "Put",
               a_address |-> <<tag_rdata, access_idx_q>>, a_data |-> data_rdata]
         ELSE [a_valid |-> TRUE, a_opcode |-> "Get", a_address |-> access_q.a_address]

\* The answer to the front end, for one cycle; its d_ready is not looked at.
fe_rsp ==
    IF ~hit THEN [d_valid |-> FALSE]
    ELSE IF access_q.a_opcode = "Get"
         THEN [d_valid |-> TRUE, d_opcode |-> "AccessAckData", d_data |-> data_rdata]
         ELSE [d_valid |-> TRUE, d_opcode |-> "AccessAck"]

\* The set whose tag, flag and data are read at this edge: while the cache
\* stalls, that of the request it stalls on.
read_idx(fe) == IF stall THEN access_idx_q ELSE Idx(fe.a_address)

-----------------------------------------------------------------------------
(* Back end: a memory that executes and answers in order. *)

Taken(be_a_ready) == be_req.a_valid /\ be_a_ready

Answer == IF be_req.a_opcode = "Get"
          THEN [d_opcode |-> "AccessAckData", d_data |-> dram[be_req.a_address]]
          ELSE [d_opcode |-> "AccessAck", d_data |-> 0]

Owed(be_a_ready) == IF Taken(be_a_ready) THEN Append(owed, Answer) ELSE owed
be_rsp(be_a_ready) == Head(Owed(be_a_ready))

BackEnd(be_a_ready, be_d_valid) ==
    /\ be_d_valid => Owed(be_a_ready) # <<>>
    /\ owed' = IF be_d_valid THEN Tail(Owed(be_a_ready)) ELSE Owed(be_a_ready)
    /\ dram' = IF Taken(be_a_ready) /\ be_req.a_opcode = "Put"
               THEN [dram EXCEPT ![be_req.a_address] = be_req.a_data]
               ELSE dram

-----------------------------------------------------------------------------
(* Registers and memories. *)

\* Variant: a write-back's acknowledgement ends the stall as well.
AnyAnswerEndsStall(fe, be_a_ready, be_d_valid) ==
    /\ access_q' = IF stall THEN access_q ELSE fe
    /\ access_idx_q_q' = access_idx_q
    /\ stall_q' = (stall /\ ~be_d_valid)

\* Variant: an answer in the very cycle of the miss goes unnoticed.
OverlooksPromptAnswer(fe, be_a_ready, be_d_valid) ==
    /\ access_q' = IF stall THEN access_q ELSE fe
    /\ access_idx_q_q' = access_idx_q
    /\ stall_q' = (miss \/ (stall_q /\ ~(be_d_valid /\
                        be_rsp(be_a_ready).d_opcode = "AccessAckData")))

UpdateAccess(fe, be_a_ready, be_d_valid) ==
    /\ access_q' = IF stall THEN access_q ELSE fe
    /\ access_idx_q_q' = access_idx_q
    /\ stall_q' = (stall /\ ~(be_d_valid /\ be_rsp(be_a_ready).d_opcode = "AccessAckData"))

\* Any answer of the back end, also that to a write-back, is stored in the
\* line; the read that follows stores over it.
UpdateData(fe, be_a_ready, be_d_valid) ==
    LET wen   == be_d_valid \/ (fe_modify_req /\ access_q.a_opcode = "Put")
        wdata == IF be_d_valid THEN be_rsp(be_a_ready).d_data ELSE access_q.a_data
    IN  /\ data_mem' = IF wen THEN [data_mem EXCEPT ![access_idx_q] = wdata] ELSE data_mem
        /\ data_wen_q' = wen
        /\ data_wdata_q' = IF wen THEN wdata ELSE data_wdata_q
        /\ data_rdata_raw' = data_mem[IF be_d_valid THEN access_idx_q ELSE read_idx(fe)]

\* The tag is that of the new line as soon as its read is taken.
UpdateTag(fe, be_a_ready) ==
    IF Taken(be_a_ready) /\ be_req.a_opcode = "Get"
    THEN /\ tag_mem' = [tag_mem EXCEPT ![access_idx_q] = access_tag_q]
         /\ tag_rdata' = access_tag_q
    ELSE /\ tag_rdata' = tag_mem[read_idx(fe)]
         /\ UNCHANGED tag_mem

\* Variant: a write-back leaves the line dirty.
never_clear(be_a_ready) == FALSE
modify_clear(be_a_ready) == miss /\ dirty_rdata /\ Taken(be_a_ready)

\* Variant: the earlier code, which looked the flag up for the address on the
\* bus also while another request stalled.
DirtyOfBus(fe, be_a_ready) ==
    IF fe_modify_req \/ modify_clear(be_a_ready)
    THEN /\ dirty_mem' = [dirty_mem EXCEPT ![access_idx_q] = ~modify_clear(be_a_ready)]
         /\ dirty_rdata' = ~modify_clear(be_a_ready)
    ELSE /\ dirty_rdata' = dirty_mem[Idx(fe.a_address)]
         /\ UNCHANGED dirty_mem

\* After a write hit the flag copy is set although it belongs to the next
\* request, which may be for another, clean line.
UpdateDirty(fe, be_a_ready) ==
    IF fe_modify_req \/ modify_clear(be_a_ready)
    THEN /\ dirty_mem' = [dirty_mem EXCEPT ![access_idx_q] = ~modify_clear(be_a_ready)]
         /\ dirty_rdata' = ~modify_clear(be_a_ready)
    ELSE /\ dirty_rdata' = dirty_mem[read_idx(fe)]
         /\ UNCHANGED dirty_mem

-----------------------------------------------------------------------------
\* The memories of the cache start as zeros that belong to tag 0; what the
\* DDR3 memory holds before anything is written to it means nothing, and is
\* taken to be the same.
Init == /\ data_mem = [s \in Sets |-> 0]
        /\ tag_mem = [s \in Sets |-> 0]
        /\ dirty_mem = [s \in Sets |-> FALSE]
        /\ access_q = Idle
        /\ access_idx_q_q = 0
        /\ stall_q = FALSE
        /\ data_rdata_raw = 0 /\ tag_rdata = 0 /\ dirty_rdata = FALSE
        /\ data_wen_q = FALSE /\ data_wdata_q = 0
        /\ owed = <<>>
        /\ dram = [a \in Addrs |-> 0]

\* One rising edge of clk_i, with the input wires before it.
Clock(fe, be_a_ready, be_d_valid) ==
    /\ BackEnd(be_a_ready, be_d_valid)
    /\ UpdateAccess(fe, be_a_ready, be_d_valid)
    /\ UpdateData(fe, be_a_ready, be_d_valid)
    /\ UpdateTag(fe, be_a_ready)
    /\ UpdateDirty(fe, be_a_ready)

\* While the cache stalls, all of the bus that could matter is its address.
Presented == IF stall THEN Gets ELSE Beats

Next == \E fe \in Presented, be_a_ready, be_d_valid \in BOOLEAN :
            Clock(fe, be_a_ready, be_d_valid)

\* The back end neither refuses a request nor keeps an answer for ever.  The
\* bus has no part in a step of a stalled cache: one beat stands for all.
SomeBeat == [a_valid |-> TRUE, a_opcode |-> "Get", a_address |-> <<0, 0>>]
Takes   == stall /\ \E be_d_valid \in BOOLEAN : Clock(SomeBeat, TRUE, be_d_valid)
Answers == stall /\ owed # <<>> /\ \E be_a_ready \in BOOLEAN : Clock(SomeBeat, be_a_ready, TRUE)

Spec == Init /\ [][Next]_vars /\ WF_vars(Takes) /\ WF_vars(Answers)

-----------------------------------------------------------------------------
(* Properties. *)

\* Memories, registers and back end keep their types; no more is owed than a
\* write-back and a read.
TypeOK ==
    /\ data_mem \in [Sets -> Data]
    /\ tag_mem \in [Sets -> Tags]
    /\ dirty_mem \in [Sets -> BOOLEAN]
    /\ access_q \in Beats
    /\ access_idx_q_q \in Sets
    /\ stall_q \in BOOLEAN
    /\ data_rdata_raw \in Data /\ tag_rdata \in Tags /\ dirty_rdata \in BOOLEAN
    /\ data_wen_q \in BOOLEAN /\ data_wdata_q \in Data
    /\ owed \in Seq([d_opcode : {"AccessAckData", "AccessAck"}, d_data : Data])
    /\ Len(owed) <= 2
    /\ dram \in [Addrs -> Data]

\* A line that is not marked dirty holds what the memory holds, so dropping it
\* loses nothing; only the line being replaced is exempt.
CleanLinesCurrent ==
    \A s \in Sets :
        ~dirty_mem[s] /\ ~(stall /\ s = access_idx_q) =>
            data_mem[s] = dram[<<tag_mem[s], s>>]

\* A miss on a dirty line is never sent on as a read of the new one, which
\* would lose the only copy: when the flag in the memory says dirty, so does
\* the copy the eviction is decided by, and the data sent are the line's.
DirtyLinesWrittenBack ==
    miss /\ dirty_mem[access_idx_q] =>
        /\ dirty_rdata
        /\ tag_rdata = tag_mem[access_idx_q]
        /\ data_rdata = data_mem[access_idx_q]

\* To its host the cache is a memory: every read returns the last write to
\* its block, wherever the block was in between.
Port == INSTANCE BlockPort WITH
            mem <- [a \in Addrs |->
                      IF dirty_mem[Idx(a)] /\ tag_mem[Idx(a)] = Tag(a)
                      THEN data_mem[Idx(a)] ELSE dram[a]],
            req <- IF access_q.a_valid THEN access_q ELSE [a_valid |-> FALSE],
            ans <- fe_rsp
PortImplemented == Port!Spec

\* Every stall ends: no pattern of requests makes the cache write the same
\* line back for ever or wait for a read it never sent.
StallEnds == stall ~> ~stall
=============================================================================
