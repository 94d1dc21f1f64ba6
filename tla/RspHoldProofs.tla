--------------------------- MODULE RspHoldProofs ---------------------------
(***************************************************************************)
(* Proofs about the skid buffer for every depth, a power of two or not,    *)
(* and every number of requests.  The fifo is described by where each      *)
(* answer lies: behind the read pointer, in order, and nowhere else.       *)
(***************************************************************************)
EXTENDS RspHold, TLAPS

\* How far place k lies behind the read pointer.
Behind(k) == IF k >= rd_ptr_q THEN k - rd_ptr_q ELSE k - rd_ptr_q + DEPTH

FifoExact ==
    /\ occ_q <= answered
    /\ wr_ptr_q = IF rd_ptr_q + occ_q >= DEPTH THEN rd_ptr_q + occ_q - DEPTH ELSE rd_ptr_q + occ_q
    /\ \A k \in Places : Behind(k) < occ_q => fifo_q[k] = delivered + Behind(k)

IInv == TypeOK /\ RoomForPromises /\ FifoExact

-----------------------------------------------------------------------------
LEMMA InputFacts ==
    ASSUME NEW in \in Inputs
    PROVE  /\ in.d_valid \in BOOLEAN /\ in.d_ready \in BOOLEAN
           /\ in.a_ready \in BOOLEAN /\ in.more \in BOOLEAN
           /\ fifo_push(in) \in BOOLEAN /\ fifo_pop(in) \in BOOLEAN
           /\ fifo_push(in) => answered < accepted
           /\ fifo_pop(in) => occ_q # 0
           /\ a_beat(in) => a_valid /\ pend_q < DEPTH
BY DEF Inputs, fifo_push, fifo_pop, a_beat, credit_ok

\* One clock edge moves the promises as it moves requests and answers.
LEMMA PromiseStep ==
    ASSUME IInv, NEW in \in Inputs, Clock(in)
    PROVE  /\ TypeOK' /\ RoomForPromises'
           /\ fifo_push(in) => occ_q < DEPTH
<1>. USE DEF Clock
<1>1. /\ pend_q \in 0 .. DEPTH /\ occ_q \in 0 .. DEPTH
      /\ accepted \in 0 .. NREQ /\ answered \in 0 .. NREQ /\ answered <= accepted
      /\ pend_q = occ_q + (accepted - answered)
      /\ a_valid => accepted < NREQ
      /\ rd_ptr_q \in 0 .. DEPTH - 1 /\ wr_ptr_q \in 0 .. DEPTH - 1
      /\ fifo_q \in [Places -> Requests]
  BY DEF IInv, TypeOK, RoomForPromises, Requests, Places
<1>2. fifo_push(in) => occ_q < DEPTH
  BY <1>1, InputFacts, DepthAssumption, NReqAssumption
<1>3. /\ accepted' = accepted + One(a_beat(in))
      /\ answered' = answered + One(fifo_push(in))
      /\ occ_q' = occ_q + One(fifo_push(in)) - One(fifo_pop(in))
      /\ pend_q' = pend_q + One(a_beat(in)) - One(fifo_pop(in))
  BY DEF Environment, UpdateFifo, UpdatePending, fifo_push
<1>4. /\ pend_q' \in 0 .. DEPTH /\ occ_q' \in 0 .. DEPTH
      /\ accepted' \in 0 .. NREQ /\ answered' \in 0 .. NREQ /\ answered' <= accepted'
      /\ pend_q' = occ_q' + (accepted' - answered')
  BY <1>1, <1>2, <1>3, InputFacts, DepthAssumption, NReqAssumption DEF One
<1>5. rd_ptr_q' \in 0 .. DEPTH - 1 /\ wr_ptr_q' \in 0 .. DEPTH - 1
  BY <1>1, DepthAssumption DEF UpdateFifo, NextPlace
<1>6. fifo_q' \in [Places -> Requests]
  BY <1>1 DEF UpdateFifo, Requests
<1>7. a_valid' \in BOOLEAN /\ (a_valid' => accepted' < NREQ)
  <2>1. CASE a_valid /\ ~a_beat(in)
    BY <1>1, <1>3, <2>1, NReqAssumption DEF Environment, One
  <2>2. CASE ~(a_valid /\ ~a_beat(in))
    BY <2>2, InputFacts DEF Environment
  <2>3. QED BY <2>1, <2>2
<1>8. TypeOK'
  BY <1>4, <1>5, <1>6, <1>7 DEF TypeOK, Requests, Places
<1>9. RoomForPromises'
  <2>1. pend_q' <= DEPTH
    <3>1. pend_q' \in 0 .. DEPTH
      BY <1>4
    <3>2. DEPTH \in Int
      BY DepthAssumption
    <3>3. QED BY <3>1, <3>2
  <2>2. pend_q' = occ_q' + (accepted' - answered')
    BY <1>4
  <2>3. QED BY <2>1, <2>2 DEF RoomForPromises
<1>10. QED BY <1>2, <1>8, <1>9

\* An answer is stored behind all others and taken from the front.
LEMMA FifoStep ==
    ASSUME IInv, NEW in \in Inputs, Clock(in)
    PROVE  FifoExact'
<1>. USE DEF Clock
<1>1. /\ occ_q \in 0 .. DEPTH /\ answered \in Nat
      /\ rd_ptr_q \in 0 .. DEPTH - 1 /\ wr_ptr_q \in 0 .. DEPTH - 1
      /\ DEPTH \in Nat \ {0}
  BY DepthAssumption, NReqAssumption DEF IInv, TypeOK, Requests, Places
<1>2. (fifo_push(in) => occ_q < DEPTH) /\ (fifo_pop(in) => occ_q # 0)
  BY PromiseStep, InputFacts
<1>3. /\ answered' = answered + One(fifo_push(in))
      /\ occ_q' = occ_q + One(fifo_push(in)) - One(fifo_pop(in))
  BY DEF Environment, UpdateFifo, fifo_push
<1>4. /\ occ_q' <= answered'
      /\ wr_ptr_q' = IF rd_ptr_q' + occ_q' >= DEPTH
                     THEN rd_ptr_q' + occ_q' - DEPTH ELSE rd_ptr_q' + occ_q'
  BY <1>1, <1>2, <1>3 DEF IInv, FifoExact, UpdateFifo, NextPlace, One
<1>5. ASSUME NEW k \in Places, (Behind(k) < occ_q)'
      PROVE  fifo_q'[k] = (delivered + Behind(k))'
  <2>1. k \in 0 .. DEPTH - 1
    BY DEF Places
  <2>2. CASE fifo_push(in) /\ k = wr_ptr_q
    <3>1. fifo_q'[k] = answered
      BY <2>2 DEF UpdateFifo, IInv, TypeOK
    <3>2. (delivered + Behind(k))' = answered
      BY <1>1, <1>2, <1>3, <2>1, <2>2
      DEF IInv, FifoExact, UpdateFifo, NextPlace, One, Behind, delivered
    <3>3. QED BY <3>1, <3>2
  <2>3. CASE ~(fifo_push(in) /\ k = wr_ptr_q)
    <3>1. fifo_q'[k] = fifo_q[k]
      BY <2>3 DEF UpdateFifo, IInv, TypeOK
    <3>2. Behind(k) < occ_q /\ (delivered + Behind(k))' = delivered + Behind(k)
      BY <1>1, <1>2, <1>3, <1>5, <2>1, <2>3
      DEF IInv, FifoExact, UpdateFifo, NextPlace, One, Behind, delivered
    <3>3. QED BY <3>1, <3>2 DEF IInv, FifoExact
  <2>4. QED BY <2>2, <2>3
<1>6. QED BY <1>4, <1>5 DEF FifoExact

LEMMA InitIInv == Init => IInv
<1>1. SUFFICES ASSUME Init PROVE IInv
  OBVIOUS
<1>2. 0 \in Places /\ 0 \in Requests
  BY DepthAssumption, NReqAssumption DEF Places, Requests
<1>3. fifo_q \in [Places -> Requests]
  BY <1>1, <1>2 DEF Init
<1>4. occ_q \in 0 .. DEPTH /\ pend_q \in 0 .. DEPTH /\ (a_valid => accepted < NREQ)
  BY <1>1, DepthAssumption, NReqAssumption DEF Init
<1>5. TypeOK /\ RoomForPromises
  BY <1>1, <1>2, <1>3, <1>4, DepthAssumption DEF Init, TypeOK, RoomForPromises
<1>6. FifoExact
  BY <1>1, DepthAssumption DEF Init, FifoExact, Behind, Places
<1>7. QED BY <1>5, <1>6 DEF IInv

LEMMA NextIInv == IInv /\ [Next]_vars => IInv'
<1>1. SUFFICES ASSUME IInv, [Next]_vars PROVE IInv'
  OBVIOUS
<1>2. CASE Next
  <2>1. PICK in \in Inputs : Clock(in)
    BY <1>2 DEF Next
  <2>2. QED BY <1>1, <2>1, PromiseStep, FifoStep DEF IInv
<1>3. CASE UNCHANGED vars
  BY <1>1, <1>3
  DEF IInv, vars, TypeOK, RoomForPromises, FifoExact, Behind, delivered
<1>4. QED BY <1>1, <1>2, <1>3

LEMMA Invariance == Spec => []IInv
<1>1. QED BY InitIInv, NextIInv, PTL DEF Spec

-----------------------------------------------------------------------------
(* Theorems. *)

\* The counters stay within their width and the pointers within the fifo.
THEOREM TypeCorrect == Spec => []TypeOK
<1>1. IInv => TypeOK
  BY DEF IInv
<1>2. QED BY <1>1, Invariance, PTL

\* Credits and answers agree and never exceed DEPTH: the cache's answer always
\* finds a free place, so d_ready may be tied high.
THEOREM NoOverflow == Spec => []RoomForPromises
<1>1. IInv => RoomForPromises
  BY DEF IInv
<1>2. QED BY <1>1, Invariance, PTL

\* Answers leave the buffer in the order of their requests, none lost and none
\* repeated.
THEOREM OrderKept == Spec => []AnswersInOrder
<1>1. IInv => AnswersInOrder
  <2>1. SUFFICES ASSUME IInv, occ_q # 0 PROVE fifo_q[rd_ptr_q] = delivered
    BY DEF AnswersInOrder
  <2>2. rd_ptr_q \in Places /\ Behind(rd_ptr_q) = 0 /\ 0 < occ_q /\ delivered \in Int
    BY <2>1, DepthAssumption, NReqAssumption
    DEF IInv, TypeOK, Places, Requests, Behind, delivered
  <2>3. fifo_q[rd_ptr_q] = delivered + 0
    BY <2>1, <2>2 DEF IInv, FifoExact
  <2>4. QED BY <2>2, <2>3
<1>2. QED BY <1>1, Invariance, PTL
=============================================================================
