--------------------------- MODULE TlWatchProofs ---------------------------
(***************************************************************************)
(* The watchdog's counters are exact over a port no deeper than they can   *)
(* count.  The three properties are inductive together.                    *)
(***************************************************************************)
EXTENDS TlWatch, TLAPS

IInv == TypeOK /\ OutstandingExact /\ NoFalseHang

USE DepthAssumption, CountersAssumption DEF DepthAssumption, CountersAssumption

\* The counter holds every number of requests the port may have in flight.
LEMMA DepthIsCounted ==
    ASSUME NEW n \in Int, NEW m \in Int, n <= m, m - n <= PORT_DEPTH
    PROVE  m - n \in 0 .. MAX_OUTSTANDING
  OBVIOUS

\* The oldest request without an answer is one of the requests.
LEMMA OldestIsRequest ==
    ASSUME NEW n \in 0 .. NREQ, NEW m \in 0 .. NREQ, (n + 1) .. m # {}
    PROVE  n + 1 \in 1 .. NREQ
  <1>1. PICK r \in (n + 1) .. m : TRUE
    OBVIOUS
  <1>2. n \in Int /\ m \in Int /\ 0 <= n /\ m <= NREQ
    OBVIOUS
  <1>3. r \in Int /\ n + 1 <= r /\ r <= m
    BY <1>1, <1>2
  <1> QED BY <1>2, <1>3

\* What an edge does to the port, and that its answers were owed.
LEMMA PortStep ==
    ASSUME IInv, NEW in \in Inputs, Clock(in)
    PROVE  /\ in.a_beat \in BOOLEAN /\ in.d_beat \in BOOLEAN
           /\ in.a_beat => taken < NREQ /\ taken - answered < PORT_DEPTH
           /\ in.d_beat => answered < taken
           /\ taken' = IF in.a_beat THEN taken + 1 ELSE taken
           /\ answered' = IF in.d_beat THEN answered + 1 ELSE answered
  <1>1. /\ in.a_beat \in BOOLEAN /\ in.d_beat \in BOOLEAN
        /\ in.a_beat => taken < NREQ /\ taken - answered < PORT_DEPTH
        /\ in.d_beat => in_flight # {}
    BY DEF Inputs
  <1>2. in_flight # {} => answered < taken
    BY DEF IInv, TypeOK, in_flight
  <1> QED BY <1>1, <1>2 DEF Clock, Port

\* A clock edge preserves the invariant.
LEMMA ClockIInv == ASSUME IInv, NEW in \in Inputs, Clock(in) PROVE IInv'
  <1>1. OutstandingExact'
    BY PortStep DEF IInv, TypeOK, OutstandingExact, Clock, UpdateOutstanding
  <1>2. TypeOK'
    <2>1. /\ taken' \in 0 .. NREQ /\ answered' \in 0 .. NREQ
          /\ answered' <= taken'
          /\ taken' - answered' <= PORT_DEPTH
      BY PortStep DEF IInv, TypeOK
    <2>2. outstanding_q' \in 0 .. MAX_OUTSTANDING
      <3>1. answered' \in Int /\ taken' \in Int
        BY <2>1
      <3>2. taken' - answered' \in 0 .. MAX_OUTSTANDING
        BY <2>1, <3>1, DepthIsCounted
      <3> QED BY <3>2, <1>1 DEF OutstandingExact
    <2>3. captured_q' \in 0 .. NREQ
      BY PortStep DEF IInv, TypeOK, Clock, UpdateCapture, capture
    <2>4. stall_q' \in 0 .. STALL_MAX
      BY DEF IInv, TypeOK, Clock, UpdateStall
    <2>5. age' \in [1 .. NREQ -> 0 .. STALL_MAX]
      <3>1. \A r \in 1 .. NREQ : age[r] \in 0 .. STALL_MAX
        BY DEF IInv, TypeOK
      <3>2. \A r \in 1 .. NREQ :
              (IF r <= taken /\ age[r] # STALL_MAX THEN age[r] + 1 ELSE age[r]) \in 0 .. STALL_MAX
        BY <3>1
      <3> QED BY <3>2 DEF Clock, Port
    <2> QED BY <2>1, <2>2, <2>3, <2>4, <2>5 DEF TypeOK
  <1>3. NoFalseHang'
    <2>1. in_flight = {} <=> outstanding_q = 0
      BY DEF IInv, TypeOK, OutstandingExact, in_flight
    <2>2. CASE in.d_beat \/ in_flight = {}
      <3>1. stall_q' = 0
        BY <2>1, <2>2 DEF Clock, UpdateStall
      <3>2. in_flight' # {} => answered' + 1 \in 1 .. NREQ
        <4>1. /\ answered' \in 0 .. NREQ /\ taken' \in 0 .. NREQ
              /\ in_flight' = (answered' + 1) .. taken'
          BY <1>2 DEF TypeOK, in_flight
        <4> QED BY <4>1, OldestIsRequest
      <3>3. in_flight' # {} => age'[answered' + 1] \in 0 .. STALL_MAX
        BY <1>2, <3>2 DEF TypeOK
      <3>4. in_flight' # {} => stall_q' <= age'[answered' + 1]
        BY <3>1, <3>3
      <3> QED BY <3>1, <3>4 DEF NoFalseHang
    \* Both count the same cycle, and stop at the same number.
    <2>3. CASE ~in.d_beat /\ in_flight # {}
      <3>1. /\ answered' = answered /\ answered + 1 \in 1 .. NREQ /\ answered + 1 <= taken
            /\ taken' >= taken
        BY <2>3, PortStep DEF IInv, TypeOK, in_flight
      <3>2. in_flight' # {}
        <4>1. answered \in Int /\ taken \in Int /\ taken' \in Int
          BY <1>2 DEF IInv, TypeOK
        <4>2. in_flight' = (answered + 1) .. taken'
          BY <3>1 DEF in_flight
        <4> QED BY <3>1, <4>1, <4>2
      <3>3. age'[answered + 1] = IF age[answered + 1] # STALL_MAX
                                 THEN age[answered + 1] + 1 ELSE age[answered + 1]
        BY <3>1 DEF Clock, Port
      <3>4. stall_q' = IF stall_q # STALL_MAX THEN stall_q + 1 ELSE stall_q
        BY <2>1, <2>3 DEF Clock, UpdateStall
      <3>5. /\ stall_q <= age[answered + 1] /\ stall_q \in 0 .. STALL_MAX
            /\ age[answered + 1] \in 0 .. STALL_MAX
        BY <2>3, <3>1 DEF IInv, NoFalseHang, TypeOK
      <3>6. stall_q' <= age'[answered + 1]
        BY <3>3, <3>4, <3>5
      <3> QED BY <3>1, <3>2, <3>6 DEF NoFalseHang
    <2> QED BY <2>2, <2>3
  <1> QED BY <1>1, <1>2, <1>3 DEF IInv

\* The invariant holds in every reachable state.
LEMMA Invariance == Spec => []IInv
  <1>1. Init => IInv
    BY DEF Init, IInv, TypeOK, OutstandingExact, NoFalseHang, in_flight
  <1>2. IInv /\ [Next]_vars => IInv'
    <2> SUFFICES ASSUME IInv, [Next]_vars PROVE IInv'
      OBVIOUS
    <2>1. CASE Next
      BY <2>1, ClockIInv DEF Next
    <2>2. CASE UNCHANGED vars
      BY <2>2 DEF vars, IInv, TypeOK, OutstandingExact, NoFalseHang, in_flight
    <2> QED BY <2>1, <2>2
  <1> QED BY <1>1, <1>2, PTL DEF Spec

\* Every register keeps its type.
THEOREM TypeCorrect == Spec => []TypeOK
  BY Invariance, PTL DEF IInv

\* The number of outstanding requests shown is the true one (lines 87-93).
THEOREM CountsAreExact == Spec => []OutstandingExact
  BY Invariance, PTL DEF IInv

\* A pinned stall counter is evidence: the oldest request without an answer has
\* waited at least as long as the counter says (lines 95-101).
THEOREM PinnedIsEvidence == Spec => []NoFalseHang
  BY Invariance, PTL DEF IInv
=============================================================================
