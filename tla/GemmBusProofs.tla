--------------------------- MODULE GemmBusProofs ---------------------------
(***************************************************************************)
(* Proofs about the bus engine, for every number of slots, length of the   *)
(* streams, retry time and number of lost answers.  BeatsInOrder,          *)
(* NoStrayRead and CreditExact are not inductive by themselves: the        *)
(* invariant adds what the slots in use hold (WindowExact), and that the   *)
(* timer never outruns a read that is still to be answered (TimerExact).   *)
(***************************************************************************)
EXTENDS GemmBus, TLAPS

WindowExact ==
    /\ rb_cnt_q <= rd_addr_q
    /\ rb_wr_q = IF rb_rd_q + rb_cnt_q >= OUTSTANDING
                 THEN rb_rd_q + rb_cnt_q - OUTSTANDING ELSE rb_rd_q + rb_cnt_q
    /\ \A s \in Slots : InUse(s) =>
          /\ rb_addr_q[s] = rd_addr_q - rb_cnt_q + Distance(s)
          /\ rb_val_q[s] => rb_data_q[s] = rb_addr_q[s]

TimerExact ==
    /\ Live => retry_cnt_q <= quiet
    /\ retry_pending_q => /\ HeadEmpty
                          /\ \A r \in reads : r.slot # rb_rd_q
                          /\ ReadPresented => areq_q.slot # rb_rd_q

-----------------------------------------------------------------------------
(* What the records are, and what a cycle may do. *)

LEMMA Shapes ==
    ASSUME TypeOK
    PROVE  /\ \A r \in reads : /\ r.op = "Get" /\ r.slot \in Slots /\ r.addr \in Beats
                               /\ r # NoReq /\ r # Put
           /\ NoReq # Put /\ NoReq.op = "None" /\ Put.op = "Put"
           /\ areq_q = NoReq \/ areq_q = Put \/ areq_q \in ReadReqs
           /\ ReadPresented => /\ areq_q \in ReadReqs /\ areq_q # NoReq /\ areq_q # Put
                               /\ areq_q.slot \in Slots /\ areq_q.addr \in Beats
           /\ ~ReadPresented => areq_q \notin ReadReqs
<1>1. NoReq # Put /\ NoReq.op = "None" /\ Put.op = "Put"
  BY DEF NoReq, Put
<1>2. \A r \in ReadReqs : r.op = "Get" /\ r.slot \in Slots /\ r.addr \in Beats
  BY DEF ReadReqs
<1>3. \A r \in ReadReqs : r # NoReq /\ r # Put
  BY <1>1, <1>2
<1>4. reads \subseteq ReadReqs /\ areq_q \in {NoReq, Put} \cup ReadReqs
  BY DEF TypeOK
<1>5. QED BY <1>1, <1>2, <1>3, <1>4 DEF ReadPresented

LEMMA Requested ==
    ASSUME NEW s \in Slots, NEW a \in Beats
    PROVE  /\ ReadReq(s, a) \in ReadReqs
           /\ ReadReq(s, a).op = "Get" /\ ReadReq(s, a).slot = s /\ ReadReq(s, a).addr = a
BY DEF ReadReq, ReadReqs

\* The response of a cycle is nothing, an ack, or a read of the memory.
LEMMA Responses ==
    ASSUME TypeOK, NEW in \in Inputs
    PROVE  /\ rsp_rd(in) <=> in.rsp \in reads
           /\ rsp_wr(in) <=> in.rsp = Put
           /\ in.rsp \notin reads => reads \ {in.rsp} = reads
           /\ rsp_wr(in) => writes # 0
           /\ in.rd_pop \in BOOLEAN /\ in.a_ready \in BOOLEAN /\ in.wr_req \in BOOLEAN
           /\ in.rd_pop => rb_cnt_q # 0 /\ rb_val_q[rb_rd_q]
           /\ in.wr_req => wr_left # 0
<1>1. in.rsp \in {NoReq, Put} \cup reads
  BY DEF Inputs
<1>2. (in.rsp \in reads => in.rsp.op = "Get") /\ NoReq.op = "None" /\ Put.op = "Put"
  BY Shapes
<1>3. rsp_rd(in) <=> in.rsp \in reads
  BY <1>1, <1>2 DEF rsp_rd
<1>4. rsp_wr(in) <=> in.rsp = Put
  BY <1>1, <1>2 DEF rsp_wr
<1>5. QED BY <1>3, <1>4 DEF Inputs, rd_valid

\* At most one request is issued in a cycle, and only when none is left waiting.
LEMMA Issues ==
    ASSUME TypeOK, NEW in \in Inputs, UpdateRequest(in)
    PROVE  /\ issue_wr(in) => /\ ~issue_rd(in) /\ ~issue_retry(in)
                              /\ wr_left # 0 /\ wr_out_q # MAX_INFLIGHT
                              /\ areq_q' = Put
           /\ issue_rd(in) => /\ ~issue_retry(in) /\ ~retry_pending_q
                              /\ rd_left_q # 0 /\ rb_cnt_q # MAX_INFLIGHT
                              /\ areq_q' = ReadReq(rb_wr_q, rd_addr_q)
           /\ issue_retry(in) => /\ retry_pending_q
                                 /\ areq_q' = ReadReq(rb_rd_q, rb_addr_q[rb_rd_q])
           /\ issue_wr(in) \/ issue_rd(in) \/ issue_retry(in) => areq_q = NoReq \/ in.a_ready
           /\ ~issue_wr(in) /\ ~issue_rd(in) /\ ~issue_retry(in) =>
                areq_q' = IF areq_q # NoReq /\ in.a_ready THEN NoReq ELSE areq_q
BY Responses
DEF UpdateRequest, issue_wr, issue_rd, issue_retry, load_next, sel_wr, sel_rd, sel_retry,
    rd_can_issue, req_accepted, areq_valid_q

-----------------------------------------------------------------------------
(* The window of slots in use. *)

LEMMA WindowFacts ==
    ASSUME TypeOK, WindowExact
    PROVE  /\ \A s \in Slots : Distance(s) \in 0 .. OUTSTANDING - 1
           /\ Distance(rb_rd_q) = 0
           /\ \A s, t \in Slots : Distance(s) = Distance(t) => s = t
           /\ rb_cnt_q # MAX_INFLIGHT => Distance(rb_wr_q) = rb_cnt_q /\ ~InUse(rb_wr_q)
           /\ rb_cnt_q # 0 => InUse(rb_rd_q)
BY OutstandingAssumption DEF TypeOK, WindowExact, Distance, InUse, Slots

\* A pop frees the oldest slot, an issue takes the slot behind the youngest,
\* and the other slots keep their place in the stream.
LEMMA WindowStep ==
    ASSUME TypeOK, WindowExact, NEW in \in Inputs,
           UpdateRequest(in), UpdateStream(in), UpdatePointers(in)
    PROVE  /\ rb_wr_q' \in Slots /\ rb_rd_q' \in Slots /\ rb_cnt_q' \in 0 .. MAX_INFLIGHT
           /\ rb_cnt_q' <= rd_addr_q'
           /\ rb_wr_q' = IF rb_rd_q' + rb_cnt_q' >= OUTSTANDING
                         THEN rb_rd_q' + rb_cnt_q' - OUTSTANDING ELSE rb_rd_q' + rb_cnt_q'
           /\ \A s \in Slots :
                InUse(s)' <=> \/ InUse(s) /\ ~(in.rd_pop /\ s = rb_rd_q)
                              \/ issue_rd(in) /\ s = rb_wr_q
           /\ \A s \in Slots : InUse(s) /\ ~(in.rd_pop /\ s = rb_rd_q) =>
                (rd_addr_q - rb_cnt_q + Distance(s))' = rd_addr_q - rb_cnt_q + Distance(s)
           /\ \A s \in Slots : issue_rd(in) /\ s = rb_wr_q =>
                (rd_addr_q - rb_cnt_q + Distance(s))' = rd_addr_q
<1>1. /\ issue_rd(in) => rb_cnt_q # MAX_INFLIGHT /\ rd_left_q # 0
      /\ in.rd_pop => rb_cnt_q # 0
      /\ in.rd_pop \in BOOLEAN
  BY Responses, Issues
<1>2. issue_rd(in) \in BOOLEAN
  BY DEF issue_rd
<1>3. CASE issue_rd(in) /\ in.rd_pop
  <2>1. /\ rb_wr_q' = NextSlot(rb_wr_q) /\ rb_rd_q' = NextSlot(rb_rd_q)
        /\ rb_cnt_q' = rb_cnt_q /\ rd_addr_q' = rd_addr_q + 1
    BY <1>3 DEF TypeOK, UpdateStream, UpdatePointers, One
  <2>2. rb_cnt_q < MAX_INFLIGHT /\ rb_cnt_q < OUTSTANDING /\ rd_addr_q \in Nat
    BY <1>1, <1>3, OutstandingAssumption DEF TypeOK, Beats
  <2>3. /\ rb_wr_q' \in Slots /\ rb_rd_q' \in Slots /\ rb_cnt_q' \in 0 .. MAX_INFLIGHT
        /\ rb_cnt_q' <= rd_addr_q'
        /\ rb_wr_q' = IF rb_rd_q' + rb_cnt_q' >= OUTSTANDING
                      THEN rb_rd_q' + rb_cnt_q' - OUTSTANDING ELSE rb_rd_q' + rb_cnt_q'
    BY <1>1, <1>3, <2>1, <2>2, OutstandingAssumption DEF TypeOK, WindowExact, NextSlot, Slots
  <2>4. \A s \in Slots :
          InUse(s)' <=> \/ InUse(s) /\ ~(in.rd_pop /\ s = rb_rd_q)
                        \/ issue_rd(in) /\ s = rb_wr_q
    BY <1>1, <1>3, <2>1, <2>2, OutstandingAssumption
    DEF TypeOK, WindowExact, NextSlot, InUse, Distance, Slots
  <2>5. \A s \in Slots : InUse(s) /\ ~(in.rd_pop /\ s = rb_rd_q) =>
          (rd_addr_q - rb_cnt_q + Distance(s))' = rd_addr_q - rb_cnt_q + Distance(s)
    BY <1>1, <1>3, <2>1, <2>2, OutstandingAssumption
    DEF TypeOK, NextSlot, InUse, Distance, Slots
  <2>6. \A s \in Slots : s = rb_wr_q => (rd_addr_q - rb_cnt_q + Distance(s))' = rd_addr_q
    BY <1>1, <1>3, <2>1, <2>2, OutstandingAssumption
    DEF TypeOK, WindowExact, NextSlot, Distance, Slots
  <2>7. QED BY <2>3, <2>4, <2>5, <2>6
<1>4. CASE issue_rd(in) /\ ~in.rd_pop
  <2>1. /\ rb_wr_q' = NextSlot(rb_wr_q) /\ rb_rd_q' = rb_rd_q
        /\ rb_cnt_q' = rb_cnt_q + 1 /\ rd_addr_q' = rd_addr_q + 1
    BY <1>4 DEF TypeOK, UpdateStream, UpdatePointers, One
  <2>2. rb_cnt_q < MAX_INFLIGHT /\ rb_cnt_q < OUTSTANDING /\ rd_addr_q \in Nat
    BY <1>1, <1>4, OutstandingAssumption DEF TypeOK, Beats
  <2>3. /\ rb_wr_q' \in Slots /\ rb_rd_q' \in Slots /\ rb_cnt_q' \in 0 .. MAX_INFLIGHT
        /\ rb_cnt_q' <= rd_addr_q'
        /\ rb_wr_q' = IF rb_rd_q' + rb_cnt_q' >= OUTSTANDING
                      THEN rb_rd_q' + rb_cnt_q' - OUTSTANDING ELSE rb_rd_q' + rb_cnt_q'
    BY <1>1, <1>4, <2>1, <2>2, OutstandingAssumption DEF TypeOK, WindowExact, NextSlot, Slots
  <2>4. \A s \in Slots :
          InUse(s)' <=> \/ InUse(s) /\ ~(in.rd_pop /\ s = rb_rd_q)
                        \/ issue_rd(in) /\ s = rb_wr_q
    BY <1>1, <1>4, <2>1, <2>2, OutstandingAssumption
    DEF TypeOK, WindowExact, NextSlot, InUse, Distance, Slots
  <2>5. \A s \in Slots : InUse(s) /\ ~(in.rd_pop /\ s = rb_rd_q) =>
          (rd_addr_q - rb_cnt_q + Distance(s))' = rd_addr_q - rb_cnt_q + Distance(s)
    BY <1>1, <1>4, <2>1, <2>2, OutstandingAssumption
    DEF TypeOK, NextSlot, InUse, Distance, Slots
  <2>6. \A s \in Slots : s = rb_wr_q => (rd_addr_q - rb_cnt_q + Distance(s))' = rd_addr_q
    BY <1>1, <1>4, <2>1, <2>2, OutstandingAssumption
    DEF TypeOK, WindowExact, NextSlot, Distance, Slots
  <2>7. QED BY <2>3, <2>4, <2>5, <2>6
<1>5. CASE ~issue_rd(in) /\ in.rd_pop
  BY <1>1, <1>5, OutstandingAssumption
  DEF TypeOK, WindowExact, UpdateStream, UpdatePointers, One, NextSlot, InUse, Distance, Slots, Beats, stream
<1>6. CASE ~issue_rd(in) /\ ~in.rd_pop
  BY <1>1, <1>6, OutstandingAssumption
  DEF TypeOK, WindowExact, UpdateStream, UpdatePointers, One, NextSlot, InUse, Distance, Slots, Beats, stream
<1>7. QED BY <1>1, <1>2, <1>3, <1>4, <1>5, <1>6

-----------------------------------------------------------------------------
(* One clock edge. *)

\* A read stays on its way until it is answered; a new one is issued.
LEMMA OnTheWayStep ==
    ASSUME TypeOK, NEW in \in Inputs, UpdateRequest(in), UpdateMemory(in)
    PROVE  /\ \A r \in reads' : \/ r \in reads /\ r # in.rsp
                                \/ r = areq_q /\ ReadPresented /\ in.a_ready
           /\ ReadPresented' =>
                \/ areq_q' = areq_q /\ ReadPresented /\ ~in.a_ready
                \/ issue_rd(in) /\ areq_q' = ReadReq(rb_wr_q, rd_addr_q)
                \/ issue_retry(in) /\ areq_q' = ReadReq(rb_rd_q, rb_addr_q[rb_rd_q])
<1>1. \A r \in reads' : \/ r \in reads /\ r # in.rsp
                        \/ r = areq_q /\ ReadPresented /\ in.a_ready
  BY DEF UpdateMemory
<1>2. NoReq.op = "None" /\ Put.op = "Put" /\ (ReadPresented => areq_q # NoReq)
  BY Shapes
<1>3. CASE issue_wr(in)
  <2>1. areq_q' = Put
    BY <1>3, Issues
  <2>2. ~ReadPresented'
    BY <1>2, <2>1 DEF ReadPresented
  <2>3. QED BY <1>1, <2>2
<1>4. CASE issue_rd(in) \/ issue_retry(in)
  BY <1>1, <1>4, Issues
<1>5. CASE ~issue_wr(in) /\ ~issue_rd(in) /\ ~issue_retry(in)
  <2>1. areq_q' = IF areq_q # NoReq /\ in.a_ready THEN NoReq ELSE areq_q
    BY <1>5, Issues
  <2>2. ReadPresented' => areq_q' = areq_q /\ ReadPresented /\ ~in.a_ready
    BY <1>2, <2>1, Responses DEF ReadPresented
  <2>3. QED BY <1>1, <2>2
<1>6. QED BY <1>3, <1>4, <1>5

LEMMA StrayStep ==
    ASSUME TypeOK, WindowExact, NoStrayRead, TimerExact,
           NEW in \in Inputs, Clock(in)
    PROVE  NoStrayRead'
<1>. USE DEF Clock
<1>1. \* A read that is not answered is still owed to its slot.
      \A r : (r \in reads /\ r # in.rsp) \/ (r = areq_q /\ ReadPresented) =>
          /\ r.slot \in Slots
          /\ issue_rd(in) => r.slot # rb_wr_q
          /\ InUse(r.slot)'
          /\ ~rb_val_q'[r.slot]
          /\ r.addr = rb_addr_q'[r.slot]
  <2>1. SUFFICES ASSUME NEW r, (r \in reads /\ r # in.rsp) \/ (r = areq_q /\ ReadPresented)
                 PROVE  /\ r.slot \in Slots
                        /\ issue_rd(in) => r.slot # rb_wr_q
                        /\ InUse(r.slot)'
                        /\ ~rb_val_q'[r.slot]
                        /\ r.addr = rb_addr_q'[r.slot]
    OBVIOUS
  <2>2. r.slot \in Slots /\ InUse(r.slot) /\ ~rb_val_q[r.slot] /\ r.addr = rb_addr_q[r.slot]
    BY <2>1, Shapes DEF NoStrayRead
  <2>3. issue_rd(in) => r.slot # rb_wr_q
    BY <2>2, Issues, WindowFacts
  <2>4. in.rd_pop => r.slot # rb_rd_q
    BY <2>2, Responses
  <2>5. rsp_rd(in) => r.slot # in.rsp.slot
    BY <2>1, Responses DEF NoStrayRead
  <2>6. InUse(r.slot)'
    BY <2>2, <2>4, WindowStep
  <2>7. ~rb_val_q'[r.slot] /\ rb_addr_q'[r.slot] = rb_addr_q[r.slot]
    BY <2>2, <2>3, <2>5 DEF UpdateSlots, TypeOK
  <2>8. QED BY <2>2, <2>3, <2>6, <2>7
<1>2. ASSUME NEW r \in reads'
      PROVE  /\ InUse(r.slot)' /\ ~rb_val_q'[r.slot] /\ r.addr = rb_addr_q'[r.slot]
             /\ issue_rd(in) => r.slot # rb_wr_q
  <2>1. (r \in reads /\ r # in.rsp) \/ (r = areq_q /\ ReadPresented)
    BY OnTheWayStep
  <2>2. QED BY <1>1, <2>1
<1>3. \A r1, r2 \in reads' : r1.slot = r2.slot => r1 = r2
  BY OnTheWayStep DEF NoStrayRead
<1>4. ASSUME ReadPresented'
      PROVE  /\ InUse(areq_q.slot)' /\ ~rb_val_q'[areq_q'.slot]
             /\ areq_q'.addr = rb_addr_q'[areq_q'.slot]
             /\ \A r \in reads' : r.slot # areq_q'.slot
  <2>1. CASE areq_q' = areq_q /\ ReadPresented /\ ~in.a_ready
    BY <1>1, <2>1, OnTheWayStep DEF NoStrayRead
  <2>2. CASE issue_rd(in) /\ areq_q' = ReadReq(rb_wr_q, rd_addr_q)
    <3>1. areq_q'.slot = rb_wr_q /\ areq_q'.addr = rd_addr_q /\ rb_wr_q \in Slots
      BY <2>2, Requested DEF TypeOK
    <3>2. InUse(areq_q.slot)'
      BY <2>2, <3>1, WindowStep
    <3>3. ~rb_val_q'[rb_wr_q] /\ rb_addr_q'[rb_wr_q] = rd_addr_q
      BY <2>2, <3>1 DEF UpdateSlots, TypeOK
    <3>4. \A r \in reads' : r.slot # rb_wr_q
      BY <1>2, <2>2
    <3>5. QED BY <3>1, <3>2, <3>3, <3>4
  <2>3. CASE issue_retry(in) /\ areq_q' = ReadReq(rb_rd_q, rb_addr_q[rb_rd_q])
    <3>1. /\ areq_q'.slot = rb_rd_q /\ areq_q'.addr = rb_addr_q[rb_rd_q]
          /\ rb_rd_q \in Slots /\ rb_addr_q[rb_rd_q] \in Beats
      BY <2>3, Requested DEF TypeOK
    <3>2. /\ ~issue_rd(in) /\ HeadEmpty /\ ~in.rd_pop
          /\ \A r \in reads : r.slot # rb_rd_q
          /\ ReadPresented => areq_q.slot # rb_rd_q
      BY <2>3, Issues, Responses DEF TimerExact, HeadEmpty
    <3>3. InUse(areq_q.slot)'
      BY <3>1, <3>2, WindowFacts, WindowStep DEF HeadEmpty
    <3>4. rsp_rd(in) => in.rsp.slot # rb_rd_q
      BY <3>2, Responses
    <3>5. ~rb_val_q'[rb_rd_q] /\ rb_addr_q'[rb_rd_q] = rb_addr_q[rb_rd_q]
      BY <3>1, <3>2, <3>4 DEF UpdateSlots, HeadEmpty, TypeOK
    <3>6. \A r \in reads' : r.slot # rb_rd_q
      BY <3>2, OnTheWayStep
    <3>7. QED BY <3>1, <3>3, <3>5, <3>6
  <2>4. QED BY <1>4, <2>1, <2>2, <2>3, OnTheWayStep
<1>5. QED BY <1>2, <1>3, <1>4 DEF NoStrayRead

LEMMA WindowPreserved ==
    ASSUME TypeOK, WindowExact, NoStrayRead, NEW in \in Inputs, Clock(in)
    PROVE  WindowExact'
<1>. USE DEF Clock
<1>1. ASSUME NEW s \in Slots, InUse(s)'
      PROVE  /\ rb_addr_q'[s] = (rd_addr_q - rb_cnt_q + Distance(s))'
             /\ rb_val_q'[s] => rb_data_q'[s] = rb_addr_q'[s]
  <2>1. CASE issue_rd(in) /\ s = rb_wr_q
    BY <2>1, WindowStep DEF UpdateSlots, TypeOK
  <2>2. CASE InUse(s) /\ ~(in.rd_pop /\ s = rb_rd_q)
    <3>1. ~(issue_rd(in) /\ s = rb_wr_q)
      BY <2>2, Issues, WindowFacts
    <3>2. rb_addr_q'[s] = rb_addr_q[s]
      BY <3>1 DEF UpdateSlots, TypeOK
    <3>3. rb_addr_q'[s] = (rd_addr_q - rb_cnt_q + Distance(s))'
      BY <2>2, <3>2, WindowStep DEF WindowExact
    <3>4. CASE rsp_rd(in) /\ in.rsp.slot = s
      <4>1. in.rsp.addr = rb_addr_q[s]
        BY <3>4, Responses DEF NoStrayRead
      <4>2. QED BY <3>2, <3>3, <3>4, <4>1 DEF UpdateSlots
    <3>5. CASE ~(rsp_rd(in) /\ in.rsp.slot = s)
      BY <2>2, <3>1, <3>2, <3>3, <3>5 DEF UpdateSlots, WindowExact
    <3>6. QED BY <3>4, <3>5
  <2>3. QED BY <1>1, <2>1, <2>2, WindowStep
<1>2. QED BY <1>1, WindowStep DEF WindowExact

\* An issue or an answer of a read restarts the timer; it advances at most as
\* fast as the memory's latency is used up.
LEMMA TimerStep ==
    ASSUME TypeOK, WindowExact, NoStrayRead, TimerExact,
           NEW in \in Inputs, Clock(in)
    PROVE  TimerExact'
<1>. USE DEF Clock
<1>1. Live' => retry_cnt_q' <= quiet'
  <2>1. CASE issue_rd(in) \/ issue_retry(in) \/ rsp_rd(in)
    BY <2>1 DEF UpdateTimer, UpdateMemory
  <2>2. CASE ~issue_rd(in) /\ ~issue_retry(in) /\ ~rsp_rd(in)
    <3>1. Live' => Live
      BY <2>2, OnTheWayStep DEF Live
    <3>2. retry_cnt_q' <= retry_cnt_q + 1 /\ retry_cnt_q \in Nat /\ retry_cnt_q' \in Int
      BY <2>2, RetryAssumption DEF UpdateTimer, TypeOK
    <3>3. Live => quiet' = quiet + 1 /\ quiet \in Nat
      BY <2>2, RetryAssumption DEF UpdateMemory, TypeOK
    <3>4. QED BY <3>1, <3>2, <3>3 DEF TimerExact
  <2>3. QED BY <2>1, <2>2
<1>2. ASSUME retry_pending_q'
      PROVE  /\ HeadEmpty'
             /\ \A r \in reads' : r.slot # rb_rd_q'
             /\ ReadPresented' => areq_q'.slot # rb_rd_q'
  <2>1. HeadEmpty /\ ~issue_retry(in)
    BY <1>2 DEF UpdateTimer, TimerExact
  <2>2. /\ \A r \in reads : r.slot # rb_rd_q
        /\ ReadPresented => areq_q.slot # rb_rd_q
    <3>1. CASE retry_expired /\ HeadEmpty
      <4>1. ~Live
        BY <3>1, RetryAssumption DEF TimerExact, TypeOK, retry_expired
      <4>2. QED BY <4>1 DEF Live
    <3>2. CASE ~(retry_expired /\ HeadEmpty)
      <4>1. retry_pending_q
        BY <1>2, <2>1, <3>2 DEF UpdateTimer
      <4>2. QED BY <4>1 DEF TimerExact
    <3>3. QED BY <3>1, <3>2
  <2>3. ~in.rd_pop /\ rb_rd_q \in Slots
    BY <2>1, Responses DEF HeadEmpty, TypeOK
  <2>4. rb_rd_q' = rb_rd_q
    BY <2>3 DEF UpdatePointers
  <2>5. InUse(rb_rd_q) /\ (issue_rd(in) => rb_wr_q # rb_rd_q)
    BY <2>1, Issues, WindowFacts DEF HeadEmpty
  <2>6. rb_cnt_q' # 0
    <3>1. rb_cnt_q' = rb_cnt_q + One(issue_rd(in)) /\ rb_cnt_q # 0 /\ rb_cnt_q \in Nat
      BY <2>1, <2>3, OutstandingAssumption DEF UpdatePointers, HeadEmpty, One, TypeOK
    <3>2. QED BY <3>1 DEF One
  <2>7. rsp_rd(in) => in.rsp.slot # rb_rd_q
    BY <2>2, Responses
  <2>8. ~rb_val_q'[rb_rd_q]
    BY <2>1, <2>3, <2>7 DEF UpdateSlots, HeadEmpty
  <2>9. HeadEmpty'
    BY <2>4, <2>6, <2>8 DEF HeadEmpty
  <2>10. \A r \in reads' : r.slot # rb_rd_q'
    BY <2>2, <2>4, OnTheWayStep
  <2>11. ReadPresented' => areq_q'.slot # rb_rd_q'
    <3>1. issue_rd(in) => ReadReq(rb_wr_q, rd_addr_q).slot = rb_wr_q
      BY DEF ReadReq
    <3>2. QED BY <2>1, <2>2, <2>4, <2>5, <3>1, OnTheWayStep
  <2>12. QED BY <2>9, <2>10, <2>11
<1>3. QED BY <1>1, <1>2 DEF TimerExact

\* Issues and acks move the credit exactly as they move the writes themselves.
LEMMA CreditStep ==
    ASSUME TypeOK, CreditExact, NEW in \in Inputs, Clock(in)
    PROVE  /\ CreditExact'
           /\ wr_out_q' \in 0 .. MAX_INFLIGHT /\ writes' \in 0 .. MAX_INFLIGHT
           /\ wr_left' \in 0 .. NWRITES
<1>. USE DEF Clock
<1>1. /\ issue_wr(in) => wr_out_q # MAX_INFLIGHT /\ wr_left # 0
      /\ rsp_wr(in) => writes # 0
      /\ wr_out_q \in 0 .. MAX_INFLIGHT /\ writes \in 0 .. MAX_INFLIGHT
      /\ wr_left \in 0 .. NWRITES
  BY Issues, Responses DEF TypeOK
<1>2. wr_out_q' \in 0 .. MAX_INFLIGHT /\ wr_left' \in 0 .. NWRITES
  <2>1. rsp_wr(in) => wr_out_q # 0
    BY <1>1, OutstandingAssumption DEF CreditExact, One
  <2>2. QED BY <1>1, <2>1, OutstandingAssumption, BoundsAssumption DEF UpdateCredit, One
<1>3. One(areq_q' = Put) = One(areq_q = Put) + One(issue_wr(in)) - One(areq_q = Put /\ in.a_ready)
  <2>1. CASE issue_wr(in)
    <3>1. areq_q' = Put /\ (areq_q = Put => in.a_ready)
      BY <2>1, Issues, Shapes
    <3>2. QED BY <2>1, <3>1, Responses DEF One
  <2>2. CASE issue_rd(in) \/ issue_retry(in)
    <3>1. ~issue_wr(in) /\ (areq_q = Put => in.a_ready)
      BY <2>2, Issues, Shapes
    <3>2. areq_q' # Put
      BY <2>2, Issues DEF ReadReq, Put
    <3>3. QED BY <3>1, <3>2 DEF One
  <2>3. CASE ~issue_wr(in) /\ ~issue_rd(in) /\ ~issue_retry(in)
    <3>1. areq_q' = IF areq_q # NoReq /\ in.a_ready THEN NoReq ELSE areq_q
      BY <2>3, Issues
    <3>2. QED BY <2>3, <3>1, Shapes, Responses DEF One
  <2>4. QED BY <2>1, <2>2, <2>3
<1>4. CreditExact'
  <2>1. /\ wr_out_q' = wr_out_q + One(issue_wr(in)) - One(rsp_wr(in))
        /\ writes' = writes + One(areq_q = Put /\ in.a_ready) - One(rsp_wr(in))
    BY DEF UpdateCredit, UpdateMemory
  <2>2. \A b \in BOOLEAN : One(b) \in Int
    BY DEF One
  <2>3. QED BY <1>1, <1>3, <2>1, <2>2, OutstandingAssumption DEF CreditExact, One
<1>5. writes' \in 0 .. MAX_INFLIGHT
  <2>1. writes' \in Int /\ writes' >= 0
    BY <1>1, OutstandingAssumption DEF UpdateMemory, One
  <2>2. wr_out_q' = One(areq_q' = Put) + writes' /\ One(areq_q' = Put) \in {0, 1}
    BY <1>4 DEF CreditExact, One
  <2>3. QED BY <1>2, <2>1, <2>2, OutstandingAssumption
<1>6. QED BY <1>2, <1>4, <1>5

LEMMA TypeStep ==
    ASSUME TypeOK, WindowExact, NoStrayRead, TimerExact, CreditExact,
           NEW in \in Inputs, Clock(in)
    PROVE  TypeOK'
<1>. USE DEF Clock
<1>1. rb_wr_q \in Slots /\ rd_addr_q \in Beats /\ rb_rd_q \in Slots /\ rb_addr_q[rb_rd_q] \in Beats
  BY DEF TypeOK
<1>2. areq_q' \in {NoReq, Put} \cup ReadReqs
  BY <1>1, Issues, Requested DEF TypeOK
<1>3. rd_addr_q' \in Beats /\ rd_left_q' \in 0 .. NBEATS - rd_addr_q'
  BY Issues, BoundsAssumption DEF TypeOK, UpdateStream, Beats, stream
<1>4. rb_val_q' \in [Slots -> BOOLEAN]
  BY DEF UpdateSlots, TypeOK
<1>5. rb_data_q' \in [Slots -> Beats]
  <2>1. rsp_rd(in) => in.rsp.addr \in Beats
    BY Responses, Shapes
  <2>2. QED BY <2>1 DEF UpdateSlots, TypeOK
<1>6. rb_addr_q' \in [Slots -> Beats]
  BY <1>1 DEF UpdateSlots, TypeOK
<1>7. rb_wr_q' \in Slots /\ rb_rd_q' \in Slots /\ rb_cnt_q' \in 0 .. MAX_INFLIGHT
  BY WindowStep
<1>8. retry_cnt_q' \in 0 .. CNT_MOD - 1 /\ retry_pending_q' \in BOOLEAN
  <2>1. retry_cnt_q \in 0 .. CNT_MOD - 1 /\ retry_pending_q \in BOOLEAN
    BY DEF TypeOK
  <2>2. retry_cnt_q' \in 0 .. CNT_MOD - 1
    BY <2>1, RetryAssumption DEF UpdateTimer
  <2>3. retry_pending_q' \in {TRUE, FALSE, retry_pending_q}
    BY DEF UpdateTimer
  <2>4. QED BY <2>1, <2>2, <2>3
<1>9. reads' \subseteq ReadReqs
  BY Shapes DEF UpdateMemory, TypeOK
<1>10. quiet' \in 0 .. LATENCY
  <2>1. Live /\ quiet >= LATENCY => rsp_rd(in)
    BY DEF Prompt
  <2>2. QED BY <2>1, RetryAssumption DEF UpdateMemory, TypeOK
<1>11. lost' \in 0 .. MaxLost
  BY DEF UpdateMemory, TypeOK
<1>12. wr_out_q' \in 0 .. MAX_INFLIGHT /\ writes' \in 0 .. MAX_INFLIGHT /\ wr_left' \in 0 .. NWRITES
  BY CreditStep
<1>13. QED
  BY <1>2, <1>3, <1>4, <1>5, <1>6, <1>7, <1>8, <1>9, <1>10, <1>11, <1>12 DEF TypeOK

-----------------------------------------------------------------------------
(* The other steps and the inductive invariant. *)

IInv == TypeOK /\ WindowExact /\ NoStrayRead /\ TimerExact /\ CreditExact

LEMMA InitIInv == Init => IInv
<1>1. SUFFICES ASSUME Init PROVE IInv
  OBVIOUS
<1>2. 0 \in Slots /\ 0 \in Beats
  BY OutstandingAssumption, BoundsAssumption DEF Slots, Beats
<1>3. areq_q = NoReq /\ reads = {} /\ ~ReadPresented /\ areq_q # Put
  BY <1>1 DEF Init, ReadPresented, NoReq, Put
<1>4. TypeOK
  <2>1. /\ rb_val_q \in [Slots -> BOOLEAN]
        /\ rb_data_q \in [Slots -> Beats] /\ rb_addr_q \in [Slots -> Beats]
    BY <1>1, <1>2 DEF Init
  <2>2. /\ rd_left_q \in 0 .. NBEATS - rd_addr_q
        /\ rb_cnt_q \in 0 .. MAX_INFLIGHT /\ wr_out_q \in 0 .. MAX_INFLIGHT
        /\ writes \in 0 .. MAX_INFLIGHT /\ wr_left \in 0 .. NWRITES
        /\ retry_cnt_q \in 0 .. CNT_MOD - 1 /\ quiet \in 0 .. LATENCY /\ lost \in 0 .. MaxLost
    BY <1>1, OutstandingAssumption, RetryAssumption, BoundsAssumption DEF Init
  <2>3. retry_pending_q \in BOOLEAN /\ reads \subseteq ReadReqs
    BY <1>1 DEF Init
  <2>4. QED BY <1>1, <1>2, <1>3, <2>1, <2>2, <2>3 DEF Init, TypeOK
<1>5. WindowExact
  BY <1>1, <1>2, OutstandingAssumption DEF Init, WindowExact, InUse, Distance, Slots
<1>6. NoStrayRead /\ TimerExact
  BY <1>1, <1>3 DEF Init, NoStrayRead, TimerExact, Live
<1>7. CreditExact
  BY <1>1, <1>3 DEF Init, CreditExact, One
<1>8. QED BY <1>4, <1>5, <1>6, <1>7 DEF IInv

LEMMA StartIInv == IInv /\ StartStream => IInv'
<1>1. SUFFICES ASSUME IInv, StartStream PROVE IInv'
  OBVIOUS
<1>2. rd_left_q' \in 0 .. NBEATS - rd_addr_q
  BY <1>1, BoundsAssumption DEF IInv, TypeOK, StartStream, Beats
<1>3. TypeOK'
  BY <1>1, <1>2 DEF IInv, TypeOK, StartStream, buffer, timer, memory
<1>4. QED
  BY <1>1, <1>3
  DEF IInv, StartStream, buffer, timer, memory, WindowExact, NoStrayRead, TimerExact, CreditExact,
      InUse, Distance, Live, ReadPresented, HeadEmpty

LEMMA LoseIInv == IInv /\ Lose => IInv'
<1>1. SUFFICES ASSUME IInv, Lose PROVE IInv'
  OBVIOUS
<1>2. PICK r \in reads : /\ reads' = reads \ {r}
                         /\ quiet' = IF reads = {r} /\ ~ReadPresented THEN 0 ELSE quiet
  BY <1>1 DEF Lose
<1>3. /\ lost' \in 0 .. MaxLost /\ quiet' \in 0 .. LATENCY
      /\ reads' \subseteq reads
      /\ Live' => Live /\ quiet' = quiet
  BY <1>1, <1>2, BoundsAssumption, RetryAssumption DEF IInv, TypeOK, Lose, Live, ReadPresented
<1>4. TypeOK'
  BY <1>1, <1>3 DEF IInv, TypeOK, Lose, stream, buffer, timer
<1>5. WindowExact' /\ CreditExact'
  BY <1>1 DEF IInv, Lose, stream, buffer, WindowExact, CreditExact, InUse, Distance
<1>6. NoStrayRead'
  BY <1>1, <1>3 DEF IInv, Lose, stream, buffer, NoStrayRead, InUse, Distance, ReadPresented
<1>7. TimerExact'
  BY <1>1, <1>3 DEF IInv, Lose, buffer, timer, TimerExact, HeadEmpty, ReadPresented
<1>8. QED BY <1>4, <1>5, <1>6, <1>7 DEF IInv

LEMMA NextIInv == IInv /\ [Next]_vars => IInv'
<1>1. SUFFICES ASSUME IInv, [Next]_vars PROVE IInv'
  OBVIOUS
<1>2. CASE \E in \in Inputs : Clock(in)
  <2>1. PICK in \in Inputs : Clock(in)
    BY <1>2
  <2>2. QED
    BY <1>1, <2>1, TypeStep, WindowPreserved, StrayStep, TimerStep, CreditStep DEF IInv
<1>3. CASE StartStream
  BY <1>1, <1>3, StartIInv
<1>4. CASE Lose
  BY <1>1, <1>4, LoseIInv
<1>5. CASE UNCHANGED vars
  BY <1>1, <1>5
  DEF IInv, vars, stream, buffer, timer, memory, TypeOK, WindowExact, NoStrayRead, TimerExact,
      CreditExact, InUse, Distance, Live, ReadPresented, HeadEmpty
<1>6. QED BY <1>1, <1>2, <1>3, <1>4, <1>5 DEF Next

LEMMA Invariance == Spec => []IInv
<1>1. QED BY InitIInv, NextIInv, PTL DEF Spec

-----------------------------------------------------------------------------
(* Theorems. *)

\* Registers keep their types; no count passes MAX_INFLIGHT and no read waits
\* longer than the memory's latency.
THEOREM TypeCorrect == Spec => []TypeOK
<1>1. IInv => TypeOK
  BY DEF IInv
<1>2. QED BY <1>1, Invariance, PTL

\* The consumer is handed the words of the stream in order, without gap or
\* repetition, whatever the order of the answers and however many are lost.
THEOREM StreamInOrder == Spec => []BeatsInOrder
<1>1. IInv => BeatsInOrder
  <2>1. SUFFICES ASSUME IInv, rd_valid PROVE rd_data = rd_addr_q - rb_cnt_q
    BY DEF BeatsInOrder
  <2>2. rb_rd_q \in Slots /\ rd_addr_q \in Int /\ rb_cnt_q \in Int
    BY <2>1 DEF IInv, TypeOK, Beats
  <2>3. InUse(rb_rd_q) /\ Distance(rb_rd_q) = 0
    BY <2>1, WindowFacts DEF IInv, rd_valid
  <2>4. QED BY <2>1, <2>2, <2>3 DEF IInv, WindowExact, rd_valid, rd_data
<1>2. QED BY <1>1, Invariance, PTL

\* A slot is asked for once at a time, and only while it waits: a repeated read
\* never meets the answer to the first one.
THEOREM NoAnswerStrays == Spec => []NoStrayRead
<1>1. IInv => NoStrayRead
  BY DEF IInv
<1>2. QED BY <1>1, Invariance, PTL

\* The write credit is the number of writes that are still to be acknowledged.
THEOREM CreditsBalance == Spec => []CreditExact
<1>1. IInv => CreditExact
  BY DEF IInv
<1>2. QED BY <1>1, Invariance, PTL
=============================================================================
