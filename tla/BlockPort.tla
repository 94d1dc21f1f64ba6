----------------------------- MODULE BlockPort -----------------------------
(***************************************************************************)
(* What a memory port of the DDR3 block path promises its host             *)
(* (src/src/rtl/ddr3/pkg/rvlab_ddr_pkg.sv): one request at a time is       *)
(* visible at the port, it is answered exactly once, a read is answered    *)
(* with the last value written to its block, and a request that is not     *)
(* answered yet stays as it is.  Nothing is said of how long that takes.   *)
(*                                                                         *)
(* The bytes of a block are independent of each other: write masks work    *)
(* byte by byte.  The memory therefore holds one byte of each block, and a *)
(* write either sets it ("Put") or leaves it alone ("PutOther", a partial  *)
(* write whose mask covers other bytes only).                              *)
(*                                                                         *)
(* The block cache and the prefetcher both implement this port; what they  *)
(* keep inside (lines, tags, entries, answers in flight) is hidden by      *)
(* their refinement mappings.                                              *)
(***************************************************************************)
CONSTANTS Addrs,   \* block addresses
          Data     \* contents of the byte of a block that is followed

VARIABLES mem,     \* the memory behind the port, as its host sees it
          req,     \* the request at the port
          ans      \* the answer offered to it in this clock cycle

Idle  == [a_valid |-> FALSE]
Gets  == [a_valid : {TRUE}, a_opcode : {"Get"}, a_address : Addrs]
Puts  == [a_valid : {TRUE}, a_opcode : {"Put"}, a_address : Addrs, a_data : Data]
Other == [a_valid : {TRUE}, a_opcode : {"PutOther"}, a_address : Addrs]
Beats == {Idle} \cup Gets \cup Puts \cup Other

NoAnswer == [d_valid |-> FALSE]
AckData  == [d_valid : {TRUE}, d_opcode : {"AccessAckData"}, d_data : Data]
Ack      == [d_valid |-> TRUE, d_opcode |-> "AccessAck"]
Answers  == {NoAnswer, Ack} \cup AckData

\* The answers that may be offered to request r when the memory holds m.
Legal(m, r) ==
    {NoAnswer} \cup
    {a \in Answers : /\ r.a_valid /\ a.d_valid
                     /\ a = IF r.a_opcode = "Get"
                            THEN [d_valid |-> TRUE, d_opcode |-> "AccessAckData",
                                  d_data |-> m[r.a_address]]
                            ELSE Ack}

Init == /\ mem \in [Addrs -> Data]
        /\ req \in Beats
        /\ ans \in Legal(mem, req)

\* A clock edge: an answered write takes effect, an answered request leaves.
Clock == /\ mem' = IF ans.d_valid /\ req.a_opcode = "Put"
                   THEN [mem EXCEPT ![req.a_address] = req.a_data]
                   ELSE mem
         /\ IF req.a_valid /\ ~ans.d_valid THEN req' = req ELSE req' \in Beats
         /\ ans' \in Legal(mem', req')

\* A reset of the system drops the request and keeps the memory.
Reset == req' = Idle /\ ans' = NoAnswer /\ UNCHANGED mem

Spec == Init /\ [][Clock \/ Reset]_<<mem, req, ans>>
=============================================================================
