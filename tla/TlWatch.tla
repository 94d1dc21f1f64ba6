------------------------------ MODULE TlWatch ------------------------------
(***************************************************************************)
(* The stalled-transaction watchdog of the DDR3 port                       *)
(* (src/src/rtl/student/student_tl_watch.sv), clock edge by clock edge.    *)
(* It watches the beats of a port that answers in order, and keeps what a  *)
(* debugger needs when an answer never comes: one request, how many are    *)
(* outstanding, and for how long nothing has happened.                     *)
(*                                                                         *)
(* Requests are numbered in the order in which the port takes them; the    *)
(* number stands for the address, the source and the opcode.               *)
(***************************************************************************)
EXTENDS Integers

CONSTANTS MAX_OUTSTANDING,   \* the outstanding counter saturates here
          STALL_MAX,         \* the stall counter saturates here
          PORT_DEPTH,        \* requests the port may have taken and not answered
          NREQ               \* bound: requests in a behaviour

ASSUME CountersAssumption ==
    MAX_OUTSTANDING \in Nat \ {0} /\ STALL_MAX \in Nat \ {0}
\* "The DDR3 port is far shallower than this in practice" (lines 41-42).
ASSUME DepthAssumption ==
    PORT_DEPTH \in Nat /\ PORT_DEPTH <= MAX_OUTSTANDING /\ NREQ \in Nat

VARIABLES captured_q,       \* addr_q, src_q and opcode_q: the request named, 0 for none
          outstanding_q, stall_q,
          taken, answered,  \* port: requests taken, requests answered
          age               \* history: cycles, up to STALL_MAX, since a request was taken

vars == <<captured_q, outstanding_q, stall_q, taken, answered, age>>

in_flight == answered + 1 .. taken

\* The beats of a cycle.
Inputs == {in \in [a_beat : BOOLEAN, d_beat : BOOLEAN] :
             /\ in.a_beat => taken < NREQ /\ taken - answered < PORT_DEPTH
             /\ in.d_beat => in_flight # {}}

-----------------------------------------------------------------------------
capture(in) == in.a_beat /\ outstanding_q = 0

UpdateCapture(in) == captured_q' = IF capture(in) THEN taken + 1 ELSE captured_q

\* Variant: an answer in the cycle of a request is not counted.
AnswerHidden(in) ==
    outstanding_q' = IF in.a_beat THEN outstanding_q + 1
                     ELSE IF in.d_beat /\ outstanding_q # 0 THEN outstanding_q - 1
                     ELSE outstanding_q
UpdateOutstanding(in) ==
    outstanding_q' =
        CASE in.a_beat /\ ~in.d_beat /\ outstanding_q # MAX_OUTSTANDING -> outstanding_q + 1
          [] in.d_beat /\ ~in.a_beat /\ outstanding_q # 0 -> outstanding_q - 1
          [] OTHER -> outstanding_q

\* Variant: the counter wraps instead of stopping at its end.
WrapsStall(in) ==
    stall_q' = IF in.d_beat \/ outstanding_q = 0 THEN 0 ELSE (stall_q + 1) % (STALL_MAX + 1)
\* Variant: an answer does not restart the counter.
CountsThrough(in) ==
    stall_q' = IF outstanding_q = 0 THEN 0
               ELSE IF stall_q # STALL_MAX THEN stall_q + 1 ELSE stall_q
UpdateStall(in) ==
    stall_q' = IF in.d_beat \/ outstanding_q = 0 THEN 0
               ELSE IF stall_q # STALL_MAX THEN stall_q + 1 ELSE stall_q

Port(in) ==
    /\ taken' = IF in.a_beat THEN taken + 1 ELSE taken
    /\ answered' = IF in.d_beat THEN answered + 1 ELSE answered
    /\ age' = [r \in 1 .. NREQ |-> IF r <= taken /\ age[r] # STALL_MAX
                                   THEN age[r] + 1 ELSE age[r]]

Clock(in) == UpdateCapture(in) /\ UpdateOutstanding(in) /\ UpdateStall(in) /\ Port(in)

Init == /\ captured_q = 0 /\ outstanding_q = 0 /\ stall_q = 0
        /\ taken = 0 /\ answered = 0 /\ age = [r \in 1 .. NREQ |-> 0]

Next == \E in \in Inputs : Clock(in)

\* The clock runs.  Nothing is assumed of the port: it may hang.
Spec == Init /\ [][Next]_vars /\ WF_vars(Next)

-----------------------------------------------------------------------------
(* Properties. *)

\* Every register has its type.
TypeOK ==
    /\ captured_q \in 0 .. NREQ
    /\ outstanding_q \in 0 .. MAX_OUTSTANDING
    /\ stall_q \in 0 .. STALL_MAX /\ age \in [1 .. NREQ -> 0 .. STALL_MAX]
    /\ taken \in 0 .. NREQ /\ answered \in 0 .. NREQ
    /\ answered <= taken /\ taken - answered <= PORT_DEPTH

\* The number shown is that of the requests in flight, through any mixture of
\* requests and answers (lines 87-93).
OutstandingExact == outstanding_q = taken - answered

\* "A value pinned at the maximum is unambiguous evidence of a hang" (lines
\* 95-97): the counter is never ahead of the time for which the oldest request
\* without an answer has really waited, whatever was taken and answered before
\* it, and it is zero when the port owes nothing.
NoFalseHang ==
    IF in_flight = {} THEN stall_q = 0 ELSE stall_q <= age[answered + 1]

\* A request that is never answered shows: the port answers again, or the stall
\* counter reaches its maximum and stays there (lines 25-28).
HangShown ==
    \A n \in 0 .. NREQ - 1 :
        (answered = n /\ taken > n) ~> (answered > n \/ [](stall_q = STALL_MAX))
=============================================================================
