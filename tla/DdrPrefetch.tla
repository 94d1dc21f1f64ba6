---------------------------- MODULE DdrPrefetch ----------------------------
(***************************************************************************)
(* The block prefetcher, src/src/rtl/ddr3/rvlab_ddr_prefetch.sv, clock     *)
(* edge by clock edge, between the block cache (front end) and the DDR3    *)
(* block manager (back end).                                               *)
(*                                                                         *)
(* The registers of the module are variables; its wires are operators over *)
(* the registers and over the three input wires fe_req, be_a_ready and     *)
(* be_d_valid, which the environment sets anew in every cycle.  The back   *)
(* end executes requests in the order it accepts them and answers in that  *)
(* order (rvlab_ddr_pkg.sv); a read takes its value when it is accepted.   *)
(* The front end is the cache: it always takes an answer (d_ready is tied  *)
(* to 1 there), writes whole blocks, and holds a beat until it is taken.   *)
(***************************************************************************)
EXTENDS Integers, Sequences

CONSTANTS SIZE,      \* entries of the table
          NADDR,     \* block addresses; addresses wrap at this number
          Data       \* contents of a block

ASSUME SizeAssumption  == SIZE \in Nat /\ SIZE >= 2
ASSUME NAddrAssumption == NADDR \in Nat \ {0}
ASSUME DataAssumption  == Data # {}

VARIABLES entry_states, entry_addrs, entry_data,   \* the table
          next_prefetch_addr,
          fe_req,                                  \* input wires
          be_a_ready, be_d_valid,
          inflight,    \* back end: reads accepted and not answered, oldest first
          dram         \* back end: the contents of the memory

table == <<entry_states, entry_addrs, entry_data, next_prefetch_addr>>
wires == <<fe_req, be_a_ready, be_d_valid>>
vars  == <<table, wires, inflight, dram>>

Ids    == 0 .. SIZE - 1
Addrs  == 0 .. NADDR - 1
States == {"Invalid", "Pending", "Valid", "Stale"}

Idle  == [a_valid |-> FALSE]
Gets  == [a_valid : {TRUE}, a_opcode : {"Get"}, a_address : Addrs]
Puts  == [a_valid : {TRUE}, a_opcode : {"Put"}, a_address : Addrs, a_data : Data]
Beats == {Idle} \cup Gets \cup Puts

-----------------------------------------------------------------------------
(* Wires. *)

FeGet == fe_req.a_valid /\ fe_req.a_opcode = "Get"
FePut == fe_req.a_valid /\ fe_req.a_opcode = "Put"

addr_match_mask == {i \in Ids : fe_req.a_valid /\ entry_addrs[i] = fe_req.a_address}
addr_le_mask    == {i \in Ids : fe_req.a_valid /\ entry_addrs[i] <= fe_req.a_address}
invalid_mask    == {i \in Ids : entry_states[i] = "Invalid"}
valid_mask      == {i \in addr_match_mask : entry_states[i] = "Valid"}
pending_mask    == {i \in addr_match_mask : entry_states[i] = "Pending"}
\* Variant: the earlier code, which took a Stale slot for a free one.
ReusesStale      == {i \in Ids : entry_states[i] # "Pending"}
\* Free entries: no answer can still arrive for them.
non_pending_mask == {i \in Ids : entry_states[i] \notin {"Pending", "Stale"}}

can_allocate  == non_pending_mask # {}
Lowest(S)     == CHOOSE i \in S : \A j \in S : i <= j
Highest(S)    == CHOOSE i \in S : \A j \in S : j <= i
allocate_addr == Lowest(IF invalid_mask # {} THEN invalid_mask ELSE non_pending_mask)

\* A read that neither a valid nor a pending entry covers.
Miss  == FeGet /\ valid_mask = {} /\ pending_mask = {}
Fetch == Miss /\ can_allocate

is_prefetching == ~FePut /\ ~Fetch

be_req ==
    IF FePut \/ Fetch THEN fe_req
    ELSE IF invalid_mask # {}
         THEN [a_valid |-> TRUE, a_opcode |-> "Get", a_address |-> next_prefetch_addr]
         ELSE Idle
be_anc == allocate_addr

be_req_xchg == be_req.a_valid /\ be_a_ready
\* The back-end beat taken at this edge reads into entry allocate_addr.
Allocates   == be_req_xchg /\ be_req.a_opcode = "Get"

rsp_now == IF be_d_valid THEN {Head(inflight).anc} ELSE {}

\* Variant: a write acknowledged before the back end has taken it.
EarlyAck ==
    IF FeGet /\ valid_mask # {}
    THEN [d_valid |-> TRUE, d_opcode |-> "AccessAckData",
          d_data |-> entry_data[Highest(valid_mask)]]
    ELSE IF FePut THEN [d_valid |-> TRUE, d_opcode |-> "AccessAck"]
                  ELSE [d_valid |-> FALSE]

\* The answer to the front end.  A hit on a valid entry and an accepted
\* write are answered in the same cycle, which also takes the request.
fe_rsp ==
    IF FeGet /\ valid_mask # {}
    THEN [d_valid |-> TRUE, d_opcode |-> "AccessAckData",
          d_data |-> entry_data[Highest(valid_mask)]]
    ELSE IF FePut /\ be_a_ready
         THEN [d_valid |-> TRUE, d_opcode |-> "AccessAck"]
         ELSE [d_valid |-> FALSE]

\* Variant: a write overlooks the reads of its block that are in flight.
RetiresOnlyValid ==
    IF ~fe_rsp.d_valid THEN {}
    ELSE IF FeGet THEN addr_le_mask \ invalid_mask ELSE valid_mask

\* Entries that the request answered at this edge puts out of date: a read
\* retires its own address and every lower one, a write those it overwrites.
Retired ==
    IF ~fe_rsp.d_valid THEN {}
    ELSE IF FeGet THEN addr_le_mask \ invalid_mask
                  ELSE valid_mask \cup pending_mask

-----------------------------------------------------------------------------
(* Registers.  Where the code assigns an entry more than once, the last    *)
(* assignment holds: retired, then answered, then allocated.               *)

\* Variant: the earlier code, blind to an answer arriving at this edge.
LosesEntry(i) ==
    IF entry_states[i] \in {"Pending", "Stale"} THEN "Stale" ELSE "Invalid"

\* "Stale" means that an answer is still on its way for an entry nobody
\* wants any more; an answer that arrives at this very edge is not.
RetiredState(i) ==
    IF entry_states[i] \in {"Pending", "Stale"} /\ i \notin rsp_now
    THEN "Stale" ELSE "Invalid"

AnsweredState(i) == IF entry_states[i] = "Stale" THEN "Invalid" ELSE "Valid"

NextState(i) ==
    IF i \in Retired THEN RetiredState(i)
    ELSE IF i \in rsp_now THEN AnsweredState(i)
    ELSE IF Allocates /\ i = allocate_addr THEN "Pending"
    ELSE entry_states[i]

UpdateStates == entry_states' = [i \in Ids |-> NextState(i)]

UpdateAddrs ==
    entry_addrs' = [i \in Ids |-> IF Allocates /\ i = allocate_addr
                                  THEN be_req.a_address ELSE entry_addrs[i]]

UpdateData ==
    entry_data' = [i \in Ids |-> IF i \in rsp_now /\ entry_states[i] # "Valid"
                                 THEN Head(inflight).data ELSE entry_data[i]]

\* Variant: the address of a miss is incremented without wrapping.
PrefetchPastEnd ==
    next_prefetch_addr' =
        IF Miss THEN fe_req.a_address + 1
        ELSE IF is_prefetching /\ be_req_xchg THEN (next_prefetch_addr + 1) % NADDR
        ELSE next_prefetch_addr

UpdateNextPrefetch ==
    next_prefetch_addr' =
        IF Miss THEN (fe_req.a_address + 1) % NADDR
        ELSE IF is_prefetching /\ be_req_xchg THEN (next_prefetch_addr + 1) % NADDR
        ELSE next_prefetch_addr

-----------------------------------------------------------------------------
(* Environment. *)

Answered == IF be_d_valid THEN Tail(inflight) ELSE inflight

BackEnd ==
    /\ inflight' = IF Allocates
                   THEN Append(Answered, [anc |-> be_anc, data |-> dram[be_req.a_address]])
                   ELSE Answered
    /\ dram' = IF be_req_xchg /\ be_req.a_opcode = "Put"
               THEN [dram EXCEPT ![be_req.a_address] = be_req.a_data]
               ELSE dram

Inputs ==
    /\ IF fe_req.a_valid /\ ~fe_rsp.d_valid THEN fe_req' = fe_req ELSE fe_req' \in Beats
    /\ be_a_ready' \in BOOLEAN
    /\ be_d_valid' \in {b \in BOOLEAN : b => inflight' # <<>>}

-----------------------------------------------------------------------------
InitTable == /\ entry_states = [i \in Ids |-> "Invalid"]
             /\ entry_addrs = [i \in Ids |-> 0]
             /\ next_prefetch_addr = 0

Init == /\ InitTable
        /\ entry_data \in {[i \in Ids |-> d] : d \in Data}
        /\ fe_req = Idle
        /\ be_a_ready = FALSE
        /\ be_d_valid = FALSE
        /\ inflight = <<>>
        /\ dram \in [Addrs -> Data]

\* One rising edge of clk_i.
Clock == UpdateStates /\ UpdateAddrs /\ UpdateData /\ UpdateNextPrefetch
         /\ BackEnd /\ Inputs

\* rst_ni: the table is cleared but its data memory is not.  The system
\* reset clears the DDR control register too, which holds the back end in
\* reset, so that what was in flight there never arrives.
Reset == /\ entry_states' = [i \in Ids |-> "Invalid"]
         /\ entry_addrs' = [i \in Ids |-> 0]
         /\ next_prefetch_addr' = 0
         /\ fe_req' = Idle
         /\ be_a_ready' = FALSE
         /\ be_d_valid' = FALSE
         /\ inflight' = <<>>
         /\ UNCHANGED <<entry_data, dram>>

Next == Clock \/ Reset

\* The clock runs, and the back end neither refuses requests for ever nor
\* keeps an answer for ever: the block manager frees its buffer slots in
\* order and the DDR3 controller acknowledges every access.
Fairness == /\ WF_vars(Clock /\ be_a_ready')
            /\ WF_vars(Clock /\ be_d_valid')

Spec == Init /\ [][Next]_vars /\ Fairness

-----------------------------------------------------------------------------
(* Properties. *)

InFlight == [anc : Ids, data : Data]

\* The registers, the wires and the back end keep their types, and the back
\* end offers an answer only when it owes one.
TypeOK ==
    /\ entry_states \in [Ids -> States]
    /\ entry_addrs \in [Ids -> Addrs]
    /\ entry_data \in [Ids -> Data]
    /\ next_prefetch_addr \in Addrs
    /\ fe_req \in Beats
    /\ be_a_ready \in BOOLEAN
    /\ be_d_valid \in BOOLEAN
    /\ be_d_valid => inflight # <<>>
    /\ inflight \in Seq(InFlight)
    /\ dram \in [Addrs -> Data]

\* The back end owes an entry exactly one answer when the entry is Pending or
\* Stale, and none otherwise.  A slot reused too early would be owed two; one
\* left Stale after its answer is lost for good (both happened: the comments
\* at non_pending_mask and rsp_now tell of a wrong line and of a hung frame).
InFlightExact ==
    /\ \A k \in 1 .. Len(inflight) :
          entry_states[inflight[k].anc] \in {"Pending", "Stale"}
    /\ \A k, l \in 1 .. Len(inflight) : inflight[k].anc = inflight[l].anc => k = l
    /\ \A i \in Ids : entry_states[i] \in {"Pending", "Stale"} =>
          \E k \in 1 .. Len(inflight) : inflight[k].anc = i

\* Whatever may still be handed to a reader is what the memory holds now: the
\* data of a Valid entry, and the answer on its way to a Pending one, although
\* writes pass the table while reads of the same block are in flight.
EntriesCurrent ==
    /\ \A i \in Ids : entry_states[i] = "Valid" => entry_data[i] = dram[entry_addrs[i]]
    /\ \A k \in 1 .. Len(inflight) :
          entry_states[inflight[k].anc] = "Pending" =>
              inflight[k].data = dram[entry_addrs[inflight[k].anc]]

\* A read that is answered returns what the memory holds at that moment.
ReadsCurrent ==
    FeGet /\ fe_rsp.d_valid => fe_rsp.d_data = dram[fe_req.a_address]

\* To the cache, table and back end together are one memory that answers
\* every request once, in place and up to date.
Port == INSTANCE BlockPort WITH mem <- dram, req <- fe_req, ans <- fe_rsp
PortImplemented == Port!Spec

\* Every request is answered, unless a reset drops it: no sequence of reads,
\* writes and prefetches takes all the entries away from a read miss.
RequestAnswered == fe_req.a_valid ~> (fe_rsp.d_valid \/ ~fe_req.a_valid)
=============================================================================
