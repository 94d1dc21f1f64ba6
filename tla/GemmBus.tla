------------------------------ MODULE GemmBus ------------------------------
(***************************************************************************)
(* The bus engine of the GEMM accelerator                                  *)
(* (src/src/rtl/student/student_gemm.sv), clock edge by clock edge: one    *)
(* registered request, a stream of reads with a reorder buffer, a stream   *)
(* of writes with a credit count, and the timer that issues the oldest     *)
(* read again when its answer has been lost.                               *)
(*                                                                         *)
(* The input wires of a cycle are a record (Inputs).  The rest of the      *)
(* accelerator is seen through three of them: a state machine loads a      *)
(* stream (StartStream), takes words (rd_pop) and offers words to write    *)
(* (wr_req).  Beats are numbered in the order in which the streams name    *)
(* them; the number stands for the address and for the word read there.    *)
(*                                                                         *)
(* The memory answers the reads it has in any order and may lose an answer *)
(* to a read; it does not keep a read waiting for more than LATENCY cycles *)
(* in which no read is issued or answered.                                 *)
(***************************************************************************)
EXTENDS Integers, FiniteSets

CONSTANTS OUTSTANDING,    \* slots of the reorder buffer
          MAX_INFLIGHT,   \* reads, and writes, in flight at once
          RETRY_CYCLES,   \* the retry timer expires at this count
          CNT_MOD,        \* the retry timer wraps at this count (2^32)
          LATENCY,        \* of the memory, see above
          NBEATS,         \* bound: beats read in a behaviour
          NWRITES,        \* bound: words written in a behaviour
          MaxLost         \* bound: answers lost in a behaviour

ASSUME OutstandingAssumption ==
    /\ OUTSTANDING \in Nat \ {0}
    /\ MAX_INFLIGHT \in 1 .. OUTSTANDING
ASSUME RetryAssumption ==
    /\ RETRY_CYCLES \in Nat
    /\ CNT_MOD \in Nat
    /\ LATENCY \in Nat \ {0}
    /\ LATENCY < RETRY_CYCLES
    /\ RETRY_CYCLES < CNT_MOD
ASSUME BoundsAssumption == NBEATS \in Nat /\ NWRITES \in Nat /\ MaxLost \in Nat

VARIABLES areq_q,                            \* the request presented, or NoReq
          rd_addr_q, rd_left_q,              \* next beat to issue, beats left
          rb_val_q, rb_data_q, rb_addr_q,    \* the reorder buffer
          rb_wr_q, rb_rd_q, rb_cnt_q,
          wr_out_q,                          \* writes without an ack yet
          retry_cnt_q, retry_pending_q,
          wr_left,    \* words the producers still have to write
          reads,      \* memory: reads accepted and not answered
          writes,     \* memory: number of writes accepted and not answered
          quiet,      \* cycles since a read was issued or answered
          lost        \* answers lost so far

buffer == <<rb_val_q, rb_data_q, rb_addr_q, rb_wr_q, rb_rd_q, rb_cnt_q>>
stream == <<rd_addr_q, rd_left_q>>
timer  == <<retry_cnt_q, retry_pending_q>>
memory == <<reads, writes, quiet, lost>>
vars   == <<areq_q, stream, buffer, wr_out_q, timer, wr_left, memory>>

Slots    == 0 .. OUTSTANDING - 1
Beats    == 0 .. NBEATS
ReadReqs == [op : {"Get"}, slot : Slots, addr : Beats]
Put      == [op |-> "Put"]
NoReq    == [op |-> "None"]

\* Slot pointers are log2(OUTSTANDING) bits wide.
NextSlot(s)       == IF s = OUTSTANDING - 1 THEN 0 ELSE s + 1
\* How far slot s lies behind the oldest one, and whether it is in use.
Distance(s)    == IF s >= rb_rd_q THEN s - rb_rd_q ELSE s - rb_rd_q + OUTSTANDING
InUse(s)       == Distance(s) < rb_cnt_q
areq_valid_q   == areq_q # NoReq
ReadPresented  == areq_q.op = "Get"
Live           == reads # {} \/ ReadPresented

-----------------------------------------------------------------------------
(* Wires. *)

rd_valid     == rb_cnt_q # 0 /\ rb_val_q[rb_rd_q]
rd_data      == rb_data_q[rb_rd_q]
HeadEmpty    == rb_cnt_q # 0 /\ ~rb_val_q[rb_rd_q]

\* The inputs of a cycle: a response is NoReq, a write's ack or a read of the memory.
Inputs == {in \in [a_ready : BOOLEAN, wr_req : BOOLEAN, rd_pop : BOOLEAN,
                   rsp : {NoReq, Put} \cup reads] :
             /\ in.rd_pop => rd_valid
             /\ in.wr_req => wr_left # 0
             /\ in.rsp = Put => writes # 0}

rsp_rd(in)       == in.rsp.op = "Get"
rsp_wr(in)       == in.rsp.op = "Put"
\* Variant: a read is issued although the buffer has no slot for it.
IssuesIntoFull   == rd_left_q # 0
rd_can_issue     == rd_left_q # 0 /\ rb_cnt_q # MAX_INFLIGHT
sel_retry        == retry_pending_q
\* Variant: the write credit is not looked at.
WritesUncounted(in) == ~sel_retry /\ in.wr_req
sel_wr(in)       == ~sel_retry /\ in.wr_req /\ wr_out_q # MAX_INFLIGHT
sel_rd(in)       == ~sel_retry /\ ~sel_wr(in) /\ rd_can_issue
req_accepted(in) == areq_valid_q /\ in.a_ready
load_next(in)    == (~areq_valid_q \/ in.a_ready) /\ (sel_wr(in) \/ sel_rd(in) \/ sel_retry)
issue_wr(in)     == load_next(in) /\ sel_wr(in)
issue_rd(in)     == load_next(in) /\ sel_rd(in)
issue_retry(in)  == load_next(in) /\ sel_retry
retry_expired    == retry_cnt_q = RETRY_CYCLES

-----------------------------------------------------------------------------
(* Registers. *)

ReadReq(s, a) == [op |-> "Get", slot |-> s, addr |-> a]

UpdateRequest(in) ==
    areq_q' = IF issue_wr(in) THEN Put
              ELSE IF issue_retry(in) THEN ReadReq(rb_rd_q, rb_addr_q[rb_rd_q])
              ELSE IF issue_rd(in) THEN ReadReq(rb_wr_q, rd_addr_q)
              ELSE IF req_accepted(in) THEN NoReq ELSE areq_q

UpdateStream(in) ==
    IF issue_rd(in)
    THEN rd_addr_q' = rd_addr_q + 1 /\ rd_left_q' = rd_left_q - 1
    ELSE UNCHANGED stream

UpdateSlots(in) ==
    /\ rb_val_q' = [s \in Slots |->
                     IF issue_rd(in) /\ rb_wr_q = s THEN FALSE
                     ELSE IF rsp_rd(in) /\ in.rsp.slot = s THEN TRUE
                     ELSE rb_val_q[s] /\ ~(in.rd_pop /\ rb_rd_q = s)]
    /\ rb_data_q' = [s \in Slots |->
                      IF rsp_rd(in) /\ in.rsp.slot = s THEN in.rsp.addr ELSE rb_data_q[s]]
    /\ rb_addr_q' = IF issue_rd(in) THEN [rb_addr_q EXCEPT ![rb_wr_q] = rd_addr_q]
                    ELSE rb_addr_q

One(b) == IF b THEN 1 ELSE 0

UpdatePointers(in) ==
    /\ rb_wr_q'  = IF issue_rd(in) THEN NextSlot(rb_wr_q) ELSE rb_wr_q
    /\ rb_rd_q'  = IF in.rd_pop THEN NextSlot(rb_rd_q) ELSE rb_rd_q
    /\ rb_cnt_q' = rb_cnt_q + One(issue_rd(in)) - One(in.rd_pop)

\* Variant: an ack that comes with an issue is not counted.
AckHidden(in) == wr_out_q' = IF issue_wr(in) THEN wr_out_q + 1 ELSE wr_out_q - One(rsp_wr(in))
UpdateCredit(in) == wr_out_q' = wr_out_q + One(issue_wr(in)) - One(rsp_wr(in))

\* Variant: the timer stops at its end instead of wrapping.
SaturatingTimer(in) ==
    IF issue_retry(in) THEN retry_pending_q' = FALSE /\ retry_cnt_q' = 0
    ELSE IF retry_expired /\ HeadEmpty THEN retry_pending_q' = TRUE /\ retry_cnt_q' = 0
    ELSE /\ retry_cnt_q' = IF issue_rd(in) \/ rsp_rd(in) \/ rb_cnt_q = 0 THEN 0
                           ELSE IF retry_cnt_q = CNT_MOD - 1 THEN retry_cnt_q ELSE retry_cnt_q + 1
         /\ UNCHANGED retry_pending_q
\* Variant: neither an issue nor a response restarts the timer.
DeafTimer(in) ==
    IF issue_retry(in) THEN retry_pending_q' = FALSE /\ retry_cnt_q' = 0
    ELSE IF retry_expired /\ HeadEmpty THEN retry_pending_q' = TRUE /\ retry_cnt_q' = 0
    ELSE /\ retry_cnt_q' = IF rb_cnt_q = 0 THEN 0 ELSE (retry_cnt_q + 1) % CNT_MOD
         /\ UNCHANGED retry_pending_q
UpdateTimer(in) ==
    IF issue_retry(in) THEN retry_pending_q' = FALSE /\ retry_cnt_q' = 0
    ELSE IF retry_expired /\ HeadEmpty THEN retry_pending_q' = TRUE /\ retry_cnt_q' = 0
    ELSE /\ retry_cnt_q' = IF issue_rd(in) \/ rsp_rd(in) \/ rb_cnt_q = 0 THEN 0
                           ELSE IF retry_cnt_q = CNT_MOD - 1 THEN 0 ELSE retry_cnt_q + 1
         /\ UNCHANGED retry_pending_q

-----------------------------------------------------------------------------
(* The memory and the rest of the accelerator. *)

\* A read that has waited LATENCY cycles is answered; one still presented is
\* accepted a cycle earlier.
Prompt(in) == /\ Live /\ quiet >= LATENCY => rsp_rd(in)
              /\ ReadPresented /\ quiet >= LATENCY - 1 => in.a_ready

UpdateMemory(in) ==
    /\ reads'  = (reads \ {in.rsp}) \cup (IF ReadPresented /\ in.a_ready THEN {areq_q} ELSE {})
    /\ writes' = writes + One(areq_q = Put /\ in.a_ready) - One(rsp_wr(in))
    /\ quiet'  = IF issue_rd(in) \/ issue_retry(in) \/ rsp_rd(in) \/ ~Live THEN 0 ELSE quiet + 1
    /\ UNCHANGED lost

\* A clock edge.
Clock(in) ==
    /\ Prompt(in)
    /\ UpdateRequest(in) /\ UpdateStream(in) /\ UpdateSlots(in)
    /\ UpdatePointers(in) /\ UpdateCredit(in) /\ UpdateTimer(in)
    /\ wr_left' = wr_left - One(issue_wr(in))
    /\ UpdateMemory(in)

\* The accelerator's state machine loads the next stream of n beats, which it
\* may do while beats of the one before are still on their way.
StartStream ==
    /\ rd_left_q = 0
    /\ \E n \in 1 .. NBEATS - rd_addr_q : rd_left_q' = n
    /\ UNCHANGED <<areq_q, rd_addr_q, buffer, wr_out_q, timer, wr_left, memory>>

\* The answer to a read is dropped on the way, for want of a d_ready.
Lose ==
    /\ lost < MaxLost
    /\ \E r \in reads : /\ reads' = reads \ {r}
                        /\ quiet' = IF reads = {r} /\ ~ReadPresented THEN 0 ELSE quiet
    /\ lost' = lost + 1
    /\ UNCHANGED <<areq_q, stream, buffer, wr_out_q, timer, wr_left, writes>>

Init ==
    /\ areq_q = NoReq
    /\ rd_addr_q = 0 /\ rd_left_q = 0
    /\ rb_val_q = [s \in Slots |-> FALSE]
    /\ rb_data_q \in [Slots -> {0}] /\ rb_addr_q = rb_data_q
    /\ rb_wr_q = 0 /\ rb_rd_q = 0 /\ rb_cnt_q = 0
    /\ wr_out_q = 0
    /\ retry_cnt_q = 0 /\ retry_pending_q = FALSE
    /\ wr_left = NWRITES
    /\ reads = {} /\ writes = 0 /\ quiet = 0 /\ lost = 0

Next == (\E in \in Inputs : Clock(in)) \/ StartStream \/ Lose

Ready(in) == in.a_ready
Pops(in)  == in.rd_pop
Acks(in)  == rsp_wr(in)
Wants(in) == in.wr_req
Step(P(_)) == \E in \in Inputs : P(in) /\ Clock(in)

\* Time passes; the bus takes requests and acknowledges writes; the state
\* machine takes the words it waits for and offers those it has to write.
Fairness == /\ WF_vars(Step(Ready))
            /\ WF_vars(Step(Pops))
            /\ WF_vars(Step(Acks))
            /\ WF_vars(Step(Wants))

Spec == Init /\ [][Next]_vars /\ Fairness

-----------------------------------------------------------------------------
(* Properties. *)

\* Every register has its type: pointers are slots, and the counts of reads and
\* of writes in flight never pass MAX_INFLIGHT (student_gemm.sv:395-407).
TypeOK ==
    /\ areq_q \in {NoReq, Put} \cup ReadReqs
    /\ rd_addr_q \in Beats /\ rd_left_q \in 0 .. NBEATS - rd_addr_q
    /\ rb_val_q \in [Slots -> BOOLEAN]
    /\ rb_data_q \in [Slots -> Beats]
    /\ rb_addr_q \in [Slots -> Beats]
    /\ rb_wr_q \in Slots /\ rb_rd_q \in Slots
    /\ rb_cnt_q \in 0 .. MAX_INFLIGHT
    /\ wr_out_q \in 0 .. MAX_INFLIGHT
    /\ retry_cnt_q \in 0 .. CNT_MOD - 1
    /\ retry_pending_q \in BOOLEAN
    /\ wr_left \in 0 .. NWRITES
    /\ reads \subseteq ReadReqs
    /\ writes \in 0 .. MAX_INFLIGHT
    /\ quiet \in 0 .. LATENCY
    /\ lost \in 0 .. MaxLost

\* The word handed to the consumer is the next one of the stream, whatever the
\* order of the answers and whichever of them were lost (student_gemm.sv:342-343).
BeatsInOrder == rd_valid => rd_data = rd_addr_q - rb_cnt_q

\* Every read on its way, first or repeated, is owed to a slot that waits for it
\* and asks for that slot's beat, and no slot is asked for twice: no answer can
\* fall into a slot that was issued again (student_gemm.sv:471-473).
NoStrayRead ==
    /\ \A r \in reads : InUse(r.slot) /\ ~rb_val_q[r.slot] /\ r.addr = rb_addr_q[r.slot]
    /\ \A r1, r2 \in reads : r1.slot = r2.slot => r1 = r2
    /\ ReadPresented => /\ InUse(areq_q.slot) /\ ~rb_val_q[areq_q.slot]
                        /\ areq_q.addr = rb_addr_q[areq_q.slot]
                        /\ \A r \in reads : r.slot # areq_q.slot

\* The write credit counts exactly the writes presented or in flight, so the
\* end of a job waits for all of them and for nothing else (student_gemm.sv:826).
CreditExact == wr_out_q = One(areq_q = Put) + writes

\* Every stream is read to its end, although answers to reads are lost, and every
\* write is acknowledged: the job ends (student_gemm.sv:373-378, 942-956).
JobEnds == (rd_left_q # 0 \/ rb_cnt_q # 0 \/ wr_out_q # 0)
             ~> (rd_left_q = 0 /\ rb_cnt_q = 0 /\ wr_out_q = 0)
=============================================================================
