------------------------------ MODULE RspHold ------------------------------
(***************************************************************************)
(* The response skid buffer (src/src/rtl/student/student_tl_rsp_hold.sv),  *)
(* clock edge by clock edge, between a host that may be unready and a      *)
(* cache that offers every answer for one cycle only.                      *)
(*                                                                         *)
(* The cache answers its requests in order, one or more cycles after it    *)
(* took them.  Requests are numbered in that order and an answer's payload *)
(* is the number of its request.                                           *)
(***************************************************************************)
EXTENDS Integers

CONSTANTS DEPTH,   \* answers the buffer has room for
          NREQ     \* bound: requests in a behaviour

ASSUME DepthAssumption == DEPTH \in Nat \ {0}
ASSUME NReqAssumption  == NREQ \in Nat

VARIABLES fifo_q, rd_ptr_q, wr_ptr_q, occ_q,   \* the response fifo
          pend_q,       \* answers promised and not handed to the host
          a_valid,      \* host: a request is presented
          accepted,     \* cache: requests taken
          answered      \* cache: requests answered

vars == <<fifo_q, rd_ptr_q, wr_ptr_q, occ_q, pend_q, a_valid, accepted, answered>>

Places    == 0 .. DEPTH - 1
Requests  == 0 .. NREQ
delivered == answered - occ_q     \* answers the host has taken

\* The cache's a_ready and d_valid, the host's d_ready, and whether the host
\* has another request.
Inputs == {in \in [a_ready : BOOLEAN, d_valid : BOOLEAN, d_ready : BOOLEAN, more : BOOLEAN] :
             in.d_valid => answered < accepted}

-----------------------------------------------------------------------------
One(b) == IF b THEN 1 ELSE 0

fifo_push(in)  == in.d_valid
fifo_pop(in)   == occ_q # 0 /\ in.d_ready
credit_ok      == pend_q < DEPTH
a_beat(in)     == a_valid /\ credit_ok /\ in.a_ready
\* Variant: the pointer wraps at the power of two above DEPTH.
WrapsLate(p)   == IF p = 2 * DEPTH - 1 THEN 0 ELSE p + 1
NextPlace(p)   == IF p = DEPTH - 1 THEN 0 ELSE p + 1

\* Variant: the answer is stored where the next one is read.
WritesAtHead(in) ==
    /\ fifo_q' = IF fifo_push(in) THEN [fifo_q EXCEPT ![rd_ptr_q] = answered] ELSE fifo_q
    /\ wr_ptr_q' = IF fifo_push(in) THEN NextPlace(wr_ptr_q) ELSE wr_ptr_q
    /\ rd_ptr_q' = IF fifo_pop(in) THEN NextPlace(rd_ptr_q) ELSE rd_ptr_q
    /\ occ_q' = occ_q + One(fifo_push(in)) - One(fifo_pop(in))
UpdateFifo(in) ==
    /\ fifo_q' = IF fifo_push(in) THEN [fifo_q EXCEPT ![wr_ptr_q] = answered] ELSE fifo_q
    /\ wr_ptr_q' = IF fifo_push(in) THEN NextPlace(wr_ptr_q) ELSE wr_ptr_q
    /\ rd_ptr_q' = IF fifo_pop(in) THEN NextPlace(rd_ptr_q) ELSE rd_ptr_q
    /\ occ_q' = occ_q + One(fifo_push(in)) - One(fifo_pop(in))

\* Variant: a promise is kept once the answer is in the buffer.
KeptOnPush(in) == pend_q' = pend_q + One(a_beat(in)) - One(fifo_push(in))
\* Variant: a take returns its promise only to a request of the same cycle.
TakeHidden(in) == pend_q' = pend_q + One(a_beat(in) /\ ~fifo_pop(in))
UpdatePending(in) == pend_q' = pend_q + One(a_beat(in)) - One(fifo_pop(in))

\* The host keeps its request until it is taken; the cache counts.
Environment(in) ==
    /\ accepted' = accepted + One(a_beat(in))
    /\ answered' = answered + One(in.d_valid)
    /\ a_valid' = IF a_valid /\ ~a_beat(in) THEN TRUE ELSE in.more /\ accepted' < NREQ

Clock(in) == UpdateFifo(in) /\ UpdatePending(in) /\ Environment(in)

Init == /\ fifo_q \in [Places -> {0}] /\ rd_ptr_q = 0 /\ wr_ptr_q = 0 /\ occ_q = 0
        /\ pend_q = 0
        /\ a_valid \in BOOLEAN /\ (a_valid => NREQ # 0)
        /\ accepted = 0 /\ answered = 0

Next == \E in \in Inputs : Clock(in)

\* The cache takes and answers requests, the host takes answers.
Fairness == /\ WF_vars(\E in \in Inputs : in.d_valid /\ Clock(in))
            /\ WF_vars(\E in \in Inputs : in.d_ready /\ Clock(in))
            /\ WF_vars(\E in \in Inputs : in.a_ready /\ Clock(in))

Spec == Init /\ [][Next]_vars /\ Fairness

-----------------------------------------------------------------------------
(* Properties. *)

\* Every register has its type; the counters fit their width.
TypeOK ==
    /\ fifo_q \in [Places -> Requests]
    /\ rd_ptr_q \in Places /\ wr_ptr_q \in Places
    /\ occ_q \in 0 .. DEPTH /\ pend_q \in 0 .. DEPTH
    /\ a_valid \in BOOLEAN /\ (a_valid => accepted < NREQ)
    /\ accepted \in Requests /\ answered \in Requests /\ answered <= accepted

\* There is room for every answer the cache still owes, and the buffer never
\* counts more or fewer promises than it has made: neither assertion of the
\* module can fire (student_tl_rsp_hold.sv:149-158).
RoomForPromises ==
    /\ pend_q = occ_q + (accepted - answered)
    /\ pend_q <= DEPTH

\* The host is offered the answers in the order of its requests, each of them
\* once (student_tl_rsp_hold.sv:105-113).
AnswersInOrder == occ_q # 0 => fifo_q[rd_ptr_q] = delivered

\* A presented request is taken and its answer reaches the host: the throttle
\* always opens again (student_tl_rsp_hold.sv:94-101).
AllServed == \A n \in 0 .. NREQ - 1 : (a_valid /\ accepted = n) ~> (delivered > n)
=============================================================================
