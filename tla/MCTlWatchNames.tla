--------------------------- MODULE MCTlWatchNames ---------------------------
(* The watchdog and what its comment says of the request it names, for TLC. *)
EXTENDS TlWatch

\* "for deeper traffic it still names a request that was in flight when the
\* stall began" (student_tl_watch.sv:68-70).  Nothing is answered in a stall, so
\* when the stall counter is pinned that request is still in flight.
NamesStalledRequest == stall_q = STALL_MAX => captured_q \in in_flight
=============================================================================
