------------------------- MODULE DdrPrefetchProofs -------------------------
(***************************************************************************)
(* Proofs about the prefetcher, for every size of the table, every number  *)
(* of block addresses and every set of block contents: its types, that the *)
(* back end owes an answer to exactly the Pending and the Stale entries,   *)
(* and that whatever can still reach a reader is what the memory holds.    *)
(***************************************************************************)
EXTENDS DdrPrefetch, WellFoundedInduction, SequenceTheorems, TLAPS

Awaiting == {i \in Ids : entry_states[i] \in {"Pending", "Stale"}}

-----------------------------------------------------------------------------
(* The priority encoders choose a member of the set they are given. *)

\* A nonempty set of natural numbers has a least member, and Lowest finds it.
LEMMA LowestIn ==
    ASSUME NEW S, S \subseteq Nat, S # {}
    PROVE  Lowest(S) \in S /\ \A y \in S : Lowest(S) <= y
<1>1. PICK x \in S : \A y \in S : ~ (<<y, x>> \in OpToRel(<, Nat))
  BY NatLessThanWellFounded, WFMin
<1>2. \A y \in S : x <= y
  <2>1. SUFFICES ASSUME NEW y \in S, y < x PROVE FALSE
    BY SMT
  <2>2. <<y, x>> \in OpToRel(<, Nat)
    BY <2>1 DEF OpToRel
  <2>3. QED BY <1>1, <2>2
<1>3. QED BY <1>2 DEF Lowest

\* Among the entries there is a greatest one, and Highest finds it.
LEMMA HighestIn ==
    ASSUME NEW S, S \subseteq Ids, S # {}
    PROVE  Highest(S) \in S
<1>. DEFINE T == {n \in Nat : SIZE - n \in S}
<1>1. S \subseteq Nat /\ \A i \in S : i < SIZE /\ SIZE - i \in T
  BY SizeAssumption DEF Ids
<1>2. T \subseteq Nat /\ T # {}
  BY <1>1
<1>3. Lowest(T) \in T /\ \A n \in T : Lowest(T) <= n
  BY <1>2, LowestIn
<1>4. PICK n \in Nat : SIZE - n \in S /\ \A m \in T : n <= m
  BY <1>3
<1>5. \A i \in S : i <= SIZE - n
  <2>1. SUFFICES ASSUME NEW i \in S PROVE i <= SIZE - n
    OBVIOUS
  <2>2. SIZE - i \in T /\ i \in Nat
    BY <1>1
  <2>3. n <= SIZE - i
    BY <1>4, <2>2
  <2>4. QED BY <2>2, <2>3, SizeAssumption
<1>6. QED BY <1>4, <1>5 DEF Highest

-----------------------------------------------------------------------------
(* Wires. *)

\* Only the three shapes of a front-end beat occur.
LEMMA BeatShapes ==
    ASSUME TypeOK
    PROVE  /\ FeGet => fe_req \in Gets /\ fe_req.a_address \in Addrs
           /\ FePut => /\ fe_req \in Puts /\ fe_req.a_address \in Addrs
                      /\ fe_req.a_data \in Data
           /\ ~(FeGet /\ FePut)
           /\ fe_req.a_valid => FeGet \/ FePut
<1>1. fe_req = Idle \/ fe_req \in Gets \/ fe_req \in Puts
  BY DEF TypeOK, Beats
<1>2. CASE fe_req = Idle
  BY <1>2 DEF Idle, FeGet, FePut
<1>3. CASE fe_req \in Gets
  BY <1>3 DEF Gets, FeGet, FePut
<1>4. CASE fe_req \in Puts
  BY <1>4 DEF Puts, FeGet, FePut
<1>5. QED BY <1>1, <1>2, <1>3, <1>4

\* The entry that an accepted back-end read goes to is free, and the request
\* answered at the same edge does not retire it.
LEMMA AllocatesFree ==
    ASSUME TypeOK, Allocates
    PROVE  /\ allocate_addr \in Ids \ Awaiting
           /\ allocate_addr \notin Retired
           /\ be_req.a_address \in Addrs
           /\ ~FePut
<1>1. ~FePut
  BY BeatShapes DEF Allocates, be_req_xchg, be_req, FePut, FeGet
<1>2. invalid_mask \subseteq non_pending_mask /\ non_pending_mask \subseteq Nat
  BY SizeAssumption DEF invalid_mask, non_pending_mask, Ids
<1>3. CASE Fetch
  <2>1. fe_rsp.d_valid = FALSE
    BY <1>1, <1>3 DEF Fetch, Miss, fe_rsp
  <2>2. Retired = {}
    BY <2>1 DEF Retired
  <2>3. allocate_addr \in non_pending_mask
    <3>1. CASE invalid_mask = {}
      BY <1>2, <1>3, <3>1, LowestIn DEF allocate_addr, Fetch, can_allocate
    <3>2. CASE invalid_mask # {}
      <4>1. allocate_addr \in invalid_mask
        BY <1>2, <3>2, LowestIn DEF allocate_addr
      <4>2. QED BY <4>1, <1>2
    <3>3. QED BY <3>1, <3>2
  <2>4. be_req = fe_req
    BY <1>3 DEF be_req
  <2>5. be_req.a_address \in Addrs
    BY <2>4, <1>3, BeatShapes DEF Fetch, Miss
  <2>6. QED BY <1>1, <2>2, <2>3, <2>5 DEF non_pending_mask, Awaiting
<1>4. CASE ~Fetch
  <2>1. invalid_mask # {} /\ be_req.a_address = next_prefetch_addr
    BY <1>1, <1>4 DEF Allocates, be_req_xchg, be_req, Idle
  <2>2. allocate_addr \in invalid_mask
    BY <1>2, <2>1, LowestIn DEF allocate_addr
  <2>3. allocate_addr \notin Retired
    BY <2>2 DEF Retired, invalid_mask, valid_mask, pending_mask
  <2>4. QED BY <1>1, <2>1, <2>2, <2>3 DEF TypeOK, invalid_mask, Awaiting
<1>5. QED BY <1>3, <1>4

\* What leaves the back end at an edge, and what stays.
LEMMA AnsweredFacts ==
    ASSUME TypeOK
    PROVE  /\ Answered \in Seq(InFlight)
           /\ be_d_valid =>
                /\ Len(inflight) \in Nat \ {0}
                /\ Head(inflight) = inflight[1]
                /\ inflight[1] \in InFlight
                /\ rsp_now = {inflight[1].anc}
                /\ Len(Answered) = Len(inflight) - 1
                /\ \A k \in 1 .. Len(Answered) : Answered[k] = inflight[k + 1]
           /\ ~be_d_valid => Answered = inflight /\ rsp_now = {}
<1>1. CASE be_d_valid
  <2>1. inflight \in Seq(InFlight) /\ inflight # <<>>
    BY <1>1 DEF TypeOK
  <2>2. /\ Head(inflight) \in InFlight
        /\ Tail(inflight) \in Seq(InFlight)
        /\ Len(Tail(inflight)) = Len(inflight) - 1
        /\ \A k \in 1 .. Len(Tail(inflight)) : Tail(inflight)[k] = inflight[k + 1]
    BY <2>1, HeadTailProperties
  <2>3. Len(inflight) \in Nat \ {0}
    BY <2>1, EmptySeq
  <2>4. Head(inflight) = inflight[1]
    BY <2>1
  <2>5. QED BY <1>1, <2>2, <2>3, <2>4 DEF Answered, rsp_now
<1>2. CASE ~be_d_valid
  BY <1>2 DEF TypeOK, Answered, rsp_now
<1>3. QED BY <1>1, <1>2

\* The value that an accepted back-end read takes.
LEMMA AllocatedRead ==
    ASSUME TypeOK, Allocates
    PROVE  [anc |-> be_anc, data |-> dram[be_req.a_address]] \in InFlight
BY AllocatesFree DEF TypeOK, InFlight, be_anc

\* The queue of the back end after an edge.
LEMMA InFlightStep ==
    ASSUME TypeOK, BackEnd
    PROVE  /\ inflight' \in Seq(InFlight)
           /\ ~Allocates => inflight' = Answered
           /\ Allocates =>
                /\ Len(inflight') = Len(Answered) + 1
                /\ \A k \in 1 .. Len(Answered) : inflight'[k] = Answered[k]
                /\ inflight'[Len(Answered) + 1] =
                      [anc |-> be_anc, data |-> dram[be_req.a_address]]
<1>1. Answered \in Seq(InFlight)
  BY AnsweredFacts
<1>2. CASE Allocates
  <2>1. inflight' = Append(Answered, [anc |-> be_anc, data |-> dram[be_req.a_address]])
    BY <1>2 DEF BackEnd
  <2>2. QED BY <1>1, <1>2, <2>1, AllocatedRead, AppendProperties
<1>3. CASE ~Allocates
  BY <1>1, <1>3 DEF BackEnd
<1>4. QED BY <1>2, <1>3

-----------------------------------------------------------------------------
(* One clock edge, entry by entry. *)

\* How an entry can change: the one allocated becomes Pending, one that is
\* answered stops waiting, no other starts or stops waiting, and an entry that
\* is Valid or Pending afterwards was not retired.
LEMMA EntryStep ==
    ASSUME TypeOK, InFlightExact, UpdateStates, NEW i \in Ids
    PROVE  /\ entry_states'[i] \in States
           /\ Allocates /\ i = allocate_addr =>
                /\ i \notin Awaiting \cup rsp_now
                /\ entry_states'[i] = "Pending"
           /\ i \in rsp_now =>
                /\ i \in Awaiting /\ i \notin Awaiting'
                /\ entry_states'[i] = "Valid" =>
                      entry_states[i] = "Pending" /\ i \notin Retired
           /\ i \notin rsp_now /\ ~(Allocates /\ i = allocate_addr) =>
                /\ i \in Awaiting <=> i \in Awaiting'
                /\ entry_states'[i] \in {"Pending", "Valid"} =>
                      entry_states[i] = entry_states'[i] /\ i \notin Retired
<1>1. entry_states'[i] = NextState(i) /\ entry_states[i] \in States
  BY DEF UpdateStates, TypeOK
<1>2. i \in rsp_now => i \in Awaiting
  <2>1. CASE be_d_valid
    <3>1. 1 \in 1 .. Len(inflight) /\ rsp_now = {inflight[1].anc}
      BY <2>1, AnsweredFacts
    <3>2. QED BY <3>1 DEF InFlightExact, Awaiting
  <2>2. CASE ~be_d_valid
    BY <2>2, AnsweredFacts
  <2>3. QED BY <2>1, <2>2
<1>3. Allocates /\ i = allocate_addr => i \notin Awaiting /\ i \notin Retired
  BY AllocatesFree
<1>4. i \in Awaiting' <=> entry_states'[i] \in {"Pending", "Stale"}
  BY DEF Awaiting
<1>5. i \in Retired => entry_states[i] # "Invalid"
  BY DEF Retired, invalid_mask, valid_mask, pending_mask
<1>6. QED
  BY <1>1, <1>2, <1>3, <1>4, <1>5
  DEF NextState, RetiredState, AnsweredState, Awaiting, States

\* The types hold after an edge.
LEMMA TypeStep ==
    ASSUME TypeOK, InFlightExact, Clock
    PROVE  TypeOK'
<1>. USE DEF Clock
<1>1. entry_states' \in [Ids -> States]
  BY EntryStep DEF UpdateStates
<1>2. entry_addrs' \in [Ids -> Addrs]
  <2>1. Allocates => be_req.a_address \in Addrs
    BY AllocatesFree
  <2>2. QED BY <2>1 DEF TypeOK, UpdateAddrs
<1>3. entry_data' \in [Ids -> Data]
  <2>1. ASSUME NEW i \in Ids, i \in rsp_now PROVE Head(inflight).data \in Data
    <3>1. be_d_valid
      BY <2>1 DEF rsp_now
    <3>2. Head(inflight) \in InFlight
      BY <3>1, AnsweredFacts
    <3>3. QED BY <3>2 DEF InFlight
  <2>2. QED BY <2>1 DEF TypeOK, UpdateData
<1>4. next_prefetch_addr' \in Addrs
  <2>1. Miss => fe_req.a_address \in Addrs
    BY BeatShapes DEF Miss
  <2>2. \A a \in Addrs : (a + 1) % NADDR \in Addrs
    BY NAddrAssumption DEF Addrs
  <2>3. next_prefetch_addr \in Addrs
    BY DEF TypeOK
  <2>4. QED BY <2>1, <2>2, <2>3 DEF UpdateNextPrefetch
<1>5. fe_req' \in Beats /\ be_a_ready' \in BOOLEAN
  BY DEF TypeOK, Inputs
<1>6. be_d_valid' \in BOOLEAN /\ (be_d_valid' => inflight' # <<>>)
  BY DEF Inputs
<1>7. inflight' \in Seq(InFlight)
  BY InFlightStep
<1>8. dram' \in [Addrs -> Data]
  <2>1. CASE be_req_xchg /\ be_req.a_opcode = "Put"
    <3>1. be_req.a_address \in Addrs /\ be_req.a_data \in Data
      BY <2>1, BeatShapes DEF be_req_xchg, be_req, Fetch, Miss, FeGet, FePut, Idle
    <3>2. QED BY <2>1, <3>1 DEF TypeOK, BackEnd
  <2>2. CASE ~(be_req_xchg /\ be_req.a_opcode = "Put")
    BY <2>2 DEF TypeOK, BackEnd
  <2>3. QED BY <2>1, <2>2
<1>9. QED
  BY <1>1, <1>2, <1>3, <1>4, <1>5, <1>6, <1>7, <1>8 DEF TypeOK

\* What is still in flight after an edge: the answers that were not delivered
\* at it, and the read accepted at it.  No entry is answered twice.
LEMMA OwedStep ==
    ASSUME TypeOK, InFlightExact, Clock
    PROVE  InFlightExact'
<1>. USE DEF Clock
<1>1. TypeOK'
  BY TypeStep
<1>2. Len(inflight) \in Nat /\ Len(Answered) \in Nat /\ Len(inflight') \in Nat
  BY <1>1, AnsweredFacts, LenProperties DEF TypeOK
<1>3. \A k \in 1 .. Len(inflight) : inflight[k] \in InFlight
  BY LenProperties DEF TypeOK
<1>4. ASSUME NEW k \in 1 .. Len(Answered)
      PROVE  /\ \E j \in 1 .. Len(inflight) :
                    j = (IF be_d_valid THEN k + 1 ELSE k) /\ Answered[k] = inflight[j]
             /\ Answered[k].anc \in Awaiting \ rsp_now
             /\ Answered[k].anc \in Ids
  <2>1. CASE be_d_valid
    <3>1. k + 1 \in 1 .. Len(inflight) /\ Answered[k] = inflight[k + 1] /\ k + 1 # 1
      BY <1>2, <2>1, AnsweredFacts
    <3>2. inflight[k + 1].anc # inflight[1].anc
      BY <1>2, <3>1 DEF InFlightExact
    <3>3. QED BY <1>3, <2>1, <3>1, <3>2, AnsweredFacts DEF InFlightExact, Awaiting, InFlight
  <2>2. CASE ~be_d_valid
    BY <1>3, <2>2, AnsweredFacts DEF InFlightExact, Awaiting, InFlight
  <2>3. QED BY <2>1, <2>2
<1>5. ASSUME NEW k \in 1 .. Len(Answered), NEW l \in 1 .. Len(Answered),
             Answered[k].anc = Answered[l].anc
      PROVE  k = l
  <2>1. CASE be_d_valid
    <3>1. /\ k + 1 \in 1 .. Len(inflight) /\ Answered[k] = inflight[k + 1]
          /\ l + 1 \in 1 .. Len(inflight) /\ Answered[l] = inflight[l + 1]
      BY <1>2, <2>1, AnsweredFacts
    <3>2. k + 1 = l + 1
      BY <1>5, <3>1 DEF InFlightExact
    <3>3. QED BY <3>2
  <2>2. CASE ~be_d_valid
    BY <1>5, <2>2, AnsweredFacts DEF InFlightExact
  <2>3. QED BY <2>1, <2>2
<1>6. ASSUME NEW i \in Awaiting \ rsp_now
      PROVE  \E k \in 1 .. Len(Answered) : Answered[k].anc = i
  <2>1. PICK j \in 1 .. Len(inflight) : inflight[j].anc = i
    BY DEF InFlightExact, Awaiting
  <2>2. CASE be_d_valid
    <3>1. j # 1
      BY <2>1, <2>2, AnsweredFacts
    <3>2. j - 1 \in 1 .. Len(Answered) /\ Answered[j - 1] = inflight[j]
      BY <1>2, <2>2, <3>1, AnsweredFacts
    <3>3. QED BY <2>1, <3>2
  <2>3. CASE ~be_d_valid
    BY <2>1, <2>3, AnsweredFacts
  <2>4. QED BY <2>2, <2>3
<1>7. ASSUME NEW i \in Ids, entry_states'[i] \in {"Pending", "Stale"},
              ~(Allocates /\ i = allocate_addr)
       PROVE  i \in Awaiting \ rsp_now
  <2>1. i \in Awaiting'
    BY <1>7 DEF Awaiting
  <2>2. i \notin rsp_now
    BY <2>1, EntryStep
  <2>3. QED BY <1>7, <2>1, <2>2, EntryStep
<1>8. CASE Allocates
  <2>1. /\ Len(inflight') = Len(Answered) + 1
        /\ \A k \in 1 .. Len(Answered) : inflight'[k] = Answered[k]
        /\ inflight'[Len(Answered) + 1].anc = allocate_addr
    BY <1>8, InFlightStep DEF be_anc
  <2>2. allocate_addr \in Ids /\ allocate_addr \notin Awaiting
    BY <1>8, AllocatesFree
  <2>3. \A k \in 1 .. Len(inflight') : k \in 1 .. Len(Answered) \/ k = Len(Answered) + 1
    BY <1>2, <2>1
  <2>4. \A k \in 1 .. Len(inflight') :
          entry_states'[inflight'[k].anc] \in {"Pending", "Stale"}
    BY <1>4, <1>8, <2>1, <2>2, <2>3, EntryStep DEF Awaiting
  <2>5. \A k, l \in 1 .. Len(inflight') : inflight'[k].anc = inflight'[l].anc => k = l
    BY <1>4, <1>5, <2>1, <2>2, <2>3
  <2>6. ASSUME NEW i \in Ids, entry_states'[i] \in {"Pending", "Stale"}
        PROVE  \E k \in 1 .. Len(inflight') : inflight'[k].anc = i
    <3>1. CASE i = allocate_addr
      BY <1>2, <2>1, <3>1
    <3>2. CASE i # allocate_addr
      <4>1. i \in Awaiting \ rsp_now
        BY <1>7, <2>6, <3>2
      <4>2. PICK k \in 1 .. Len(Answered) : Answered[k].anc = i
        BY <1>6, <4>1
      <4>3. QED BY <1>2, <2>1, <4>2
    <3>3. QED BY <3>1, <3>2
  <2>7. QED BY <2>4, <2>5, <2>6 DEF InFlightExact
<1>9. CASE ~Allocates
  <2>1. inflight' = Answered
    BY <1>9, InFlightStep
  <2>2. \A k \in 1 .. Len(inflight') :
          entry_states'[inflight'[k].anc] \in {"Pending", "Stale"}
    BY <1>4, <1>9, <2>1, EntryStep DEF Awaiting
  <2>3. \A k, l \in 1 .. Len(inflight') : inflight'[k].anc = inflight'[l].anc => k = l
    BY <1>5, <2>1
  <2>4. \A i \in Ids : entry_states'[i] \in {"Pending", "Stale"} => i \in Awaiting \ rsp_now
    BY <1>9, <1>7
  <2>5. QED BY <1>6, <2>1, <2>2, <2>3, <2>4 DEF InFlightExact
<1>10. QED BY <1>8, <1>9

\* A write that the memory takes retires every entry that could still hand
\* out the old contents of its block.
LEMMA WriteRetires ==
    ASSUME TypeOK, BackEnd, NEW i \in Ids, i \notin Retired,
           entry_states[i] \in {"Pending", "Valid"}
    PROVE  dram'[entry_addrs[i]] = dram[entry_addrs[i]]
<1>1. CASE be_req_xchg /\ be_req.a_opcode = "Put"
  <2>1. FePut /\ be_a_ready /\ be_req = fe_req
    BY <1>1 DEF be_req_xchg, be_req, Fetch, Miss, FeGet, FePut, Idle
  <2>2. ~FeGet /\ fe_rsp.d_valid = TRUE
    BY <2>1, BeatShapes DEF fe_rsp
  <2>3. entry_addrs[i] # fe_req.a_address
    BY <2>1, <2>2 DEF Retired, valid_mask, pending_mask, addr_match_mask, FePut
  <2>4. dram' = [dram EXCEPT ![fe_req.a_address] = fe_req.a_data]
    BY <1>1, <2>1 DEF BackEnd
  <2>5. QED BY <2>3, <2>4 DEF TypeOK
<1>2. CASE ~(be_req_xchg /\ be_req.a_opcode = "Put")
  BY <1>2 DEF BackEnd
<1>3. QED BY <1>1, <1>2

\* The data of the table and of the back end stay current over an edge.
LEMMA CurrentStep ==
    ASSUME TypeOK, InFlightExact, EntriesCurrent, Clock
    PROVE  EntriesCurrent'
<1>. USE DEF Clock
<1>1. Len(inflight) \in Nat /\ Len(Answered) \in Nat
  BY AnsweredFacts, LenProperties DEF TypeOK
<1>2. \A i \in Ids : ~(Allocates /\ i = allocate_addr) => entry_addrs'[i] = entry_addrs[i]
  BY DEF UpdateAddrs
<1>3. ASSUME NEW i \in Ids, entry_states'[i] = "Valid"
      PROVE  entry_data'[i] = dram'[entry_addrs'[i]]
  <2>1. ~(Allocates /\ i = allocate_addr)
    BY <1>3, EntryStep
  <2>2. entry_addrs'[i] = entry_addrs[i]
    BY <1>2, <2>1
  <2>3. CASE i \in rsp_now
    <3>1. entry_states[i] = "Pending" /\ i \notin Retired
      BY <1>3, <2>3, EntryStep
    <3>2. be_d_valid
      BY <2>3 DEF rsp_now
    <3>3. /\ 1 \in 1 .. Len(inflight) /\ Head(inflight) = inflight[1]
          /\ inflight[1].anc = i
      BY <2>3, <3>2, AnsweredFacts
    <3>4. inflight[1].data = dram[entry_addrs[i]]
      BY <3>1, <3>3 DEF EntriesCurrent
    <3>5. entry_data'[i] = inflight[1].data
      BY <2>3, <3>1, <3>3 DEF UpdateData
    <3>6. QED BY <2>2, <3>1, <3>4, <3>5, WriteRetires
  <2>4. CASE i \notin rsp_now
    <3>1. entry_states[i] = "Valid" /\ i \notin Retired
      BY <1>3, <2>1, <2>4, EntryStep
    <3>2. entry_data'[i] = entry_data[i]
      BY <2>4 DEF UpdateData
    <3>3. QED BY <2>2, <3>1, <3>2, WriteRetires DEF EntriesCurrent
  <2>5. QED BY <2>3, <2>4
<1>4. ASSUME NEW k \in 1 .. Len(Answered),
             entry_states'[Answered[k].anc] = "Pending"
      PROVE  Answered[k].data = dram'[entry_addrs'[Answered[k].anc]]
  <2>. DEFINE i == Answered[k].anc
  <2>1. PICK j \in 1 .. Len(inflight) :
          Answered[k] = inflight[j] /\ (be_d_valid => j # 1)
    BY <1>1, AnsweredFacts
  <2>2. inflight[j] \in InFlight
    BY LenProperties DEF TypeOK
  <2>3. i \in Ids /\ i \in Awaiting
    BY <2>1, <2>2 DEF InFlight, InFlightExact, Awaiting
  <2>4. ~(Allocates /\ i = allocate_addr)
    BY <2>3, AllocatesFree
  <2>5. i \notin rsp_now
    <3>1. CASE be_d_valid
      <4>1. 1 \in 1 .. Len(inflight) /\ rsp_now = {inflight[1].anc}
        BY <3>1, AnsweredFacts
      <4>2. QED BY <2>1, <3>1, <4>1 DEF InFlightExact
    <3>2. CASE ~be_d_valid
      BY <3>2, AnsweredFacts
    <3>3. QED BY <3>1, <3>2
  <2>6. entry_states[i] = "Pending" /\ i \notin Retired
    BY <1>4, <2>3, <2>4, <2>5, EntryStep
  <2>7. Answered[k].data = dram[entry_addrs[i]]
    BY <2>1, <2>6 DEF EntriesCurrent
  <2>8. entry_addrs'[i] = entry_addrs[i]
    BY <1>2, <2>3, <2>4
  <2>9. QED BY <2>3, <2>6, <2>7, <2>8, WriteRetires
<1>5. ASSUME NEW k \in 1 .. Len(inflight'),
             entry_states'[inflight'[k].anc] = "Pending"
      PROVE  inflight'[k].data = dram'[entry_addrs'[inflight'[k].anc]]
  <2>1. CASE ~Allocates
    BY <1>4, <1>5, <2>1, InFlightStep
  <2>2. CASE Allocates /\ k # Len(Answered) + 1
    <3>1. k \in 1 .. Len(Answered) /\ inflight'[k] = Answered[k]
      BY <1>1, <2>2, InFlightStep
    <3>2. QED BY <1>4, <1>5, <3>1
  <2>3. CASE Allocates /\ k = Len(Answered) + 1
    <3>1. inflight'[k] = [anc |-> allocate_addr, data |-> dram[be_req.a_address]]
      BY <2>3, InFlightStep DEF be_anc
    <3>2. allocate_addr \in Ids /\ be_req.a_opcode # "Put"
      BY <2>3, AllocatesFree DEF Allocates
    <3>3. entry_addrs'[allocate_addr] = be_req.a_address /\ dram' = dram
      BY <2>3, <3>2 DEF UpdateAddrs, BackEnd
    <3>4. QED BY <3>1, <3>3
  <2>4. QED BY <2>1, <2>2, <2>3
<1>6. QED BY <1>3, <1>5 DEF EntriesCurrent

-----------------------------------------------------------------------------
(* The inductive invariant. *)

IInv == TypeOK /\ InFlightExact /\ EntriesCurrent

LEMMA InitIInv == Init => IInv
<1>1. SUFFICES ASSUME Init PROVE IInv
  OBVIOUS
<1>2. inflight = <<>> /\ Len(inflight) = 0 /\ inflight \in Seq(InFlight)
  BY <1>1, EmptySeq DEF Init
<1>3. 0 \in Addrs
  BY NAddrAssumption DEF Addrs
<1>4. TypeOK
  BY <1>1, <1>2, <1>3 DEF Init, InitTable, TypeOK, States, Beats
<1>5. InFlightExact /\ EntriesCurrent
  BY <1>1, <1>2 DEF Init, InitTable, InFlightExact, EntriesCurrent
<1>6. QED BY <1>4, <1>5 DEF IInv

\* A reset empties the table and the back end together.
LEMMA ResetIInv == IInv /\ Reset => IInv'
<1>1. SUFFICES ASSUME IInv, Reset PROVE IInv'
  OBVIOUS
<1>2. inflight' = <<>> /\ Len(inflight') = 0 /\ inflight' \in Seq(InFlight)
  BY <1>1, EmptySeq DEF Reset
<1>3. 0 \in Addrs
  BY NAddrAssumption DEF Addrs
<1>4. TypeOK'
  BY <1>1, <1>2, <1>3 DEF IInv, Reset, TypeOK, States, Beats
<1>5. InFlightExact' /\ EntriesCurrent'
  BY <1>1, <1>2 DEF Reset, InFlightExact, EntriesCurrent
<1>6. QED BY <1>4, <1>5 DEF IInv

LEMMA NextIInv == IInv /\ [Next]_vars => IInv'
<1>1. SUFFICES ASSUME IInv, [Next]_vars PROVE IInv'
  OBVIOUS
<1>2. CASE Clock
  BY <1>1, <1>2, TypeStep, OwedStep, CurrentStep DEF IInv
<1>3. CASE Reset
  BY <1>1, <1>3, ResetIInv
<1>4. CASE UNCHANGED vars
  BY <1>1, <1>4
  DEF IInv, TypeOK, InFlightExact, EntriesCurrent, vars, table, wires
<1>5. QED BY <1>1, <1>2, <1>3, <1>4 DEF Next

LEMMA Invariance == Spec => []IInv
<1>1. QED BY InitIInv, NextIInv, PTL DEF Spec

-----------------------------------------------------------------------------
(* Theorems. *)

\* The registers, wires and back end keep their types in every reachable state.
THEOREM TypeCorrect == Spec => []TypeOK
<1>1. IInv => TypeOK
  BY DEF IInv
<1>2. QED BY <1>1, Invariance, PTL

\* No table entry is ever lost or reused while an answer is owed to it: for
\* any size of the table, answers in flight and waiting entries correspond.
THEOREM NoEntryLost == Spec => []InFlightExact
<1>1. IInv => InFlightExact
  BY DEF IInv
<1>2. QED BY <1>1, Invariance, PTL

\* What the table holds or is about to receive is what the memory holds.
THEOREM EntriesStayCurrent == Spec => []EntriesCurrent
<1>1. IInv => EntriesCurrent
  BY DEF IInv
<1>2. QED BY <1>1, Invariance, PTL

\* A read is never answered with anything but the present contents of its
\* block, whatever was prefetched, overwritten or retired before.
THEOREM ReadsAreCurrent == Spec => []ReadsCurrent
<1>1. IInv => ReadsCurrent
  <2>1. SUFFICES ASSUME IInv, FeGet, fe_rsp.d_valid
                 PROVE  fe_rsp.d_data = dram[fe_req.a_address]
    BY DEF ReadsCurrent
  <2>2. valid_mask # {} /\ valid_mask \subseteq Ids
    BY <2>1, BeatShapes DEF fe_rsp, IInv, valid_mask, addr_match_mask
  <2>3. fe_rsp.d_data = entry_data[Highest(valid_mask)]
    BY <2>1, <2>2 DEF fe_rsp
  <2>4. Highest(valid_mask) \in valid_mask
    BY <2>2, HighestIn
  <2>5. PICK i \in Ids : /\ i = Highest(valid_mask)
                         /\ entry_states[i] = "Valid"
                         /\ entry_addrs[i] = fe_req.a_address
    BY <2>4 DEF valid_mask, addr_match_mask
  <2>6. QED BY <2>1, <2>3, <2>5 DEF IInv, EntriesCurrent
<1>2. QED BY <1>1, Invariance, PTL

-----------------------------------------------------------------------------
(* The prefetcher implements the memory port. *)

\* What is at the port is a legal request with a legal answer.
PortLegal == fe_rsp \in Port!Legal(dram, fe_req)

LEMMA PortBeats == Beats \subseteq Port!Beats
<1>1. Gets = Port!Gets /\ Puts = Port!Puts /\ Idle = Port!Idle
  BY DEF Gets, Puts, Idle, Port!Gets, Port!Puts, Port!Idle
<1>2. QED BY <1>1 DEF Beats, Port!Beats

LEMMA PortShapes == TypeOK /\ ReadsCurrent => PortLegal
<1>. SUFFICES ASSUME TypeOK, ReadsCurrent PROVE PortLegal
  OBVIOUS
<1>1. CASE FeGet /\ valid_mask # {}
  <2>1. fe_req.a_valid /\ fe_req.a_opcode = "Get" /\ fe_req.a_address \in Addrs
    BY <1>1, BeatShapes DEF FeGet
  <2>2. fe_rsp = [d_valid |-> TRUE, d_opcode |-> "AccessAckData",
                  d_data |-> dram[fe_req.a_address]]
    BY <1>1 DEF fe_rsp, ReadsCurrent
  <2>3. dram[fe_req.a_address] \in Data
    BY <2>1 DEF TypeOK
  <2>4. fe_rsp \in Port!Answers /\ fe_rsp.d_valid
    BY <2>2, <2>3 DEF Port!Answers, Port!AckData
  <2>5. QED BY <2>1, <2>2, <2>4 DEF PortLegal, Port!Legal
<1>2. CASE FePut /\ be_a_ready
  <2>1. ~FeGet /\ fe_req.a_valid /\ fe_req.a_opcode # "Get"
    BY <1>2, BeatShapes DEF FePut
  <2>2. fe_rsp = Port!Ack /\ fe_rsp.d_valid
    BY <1>2, <2>1 DEF fe_rsp, Port!Ack
  <2>3. fe_rsp \in Port!Answers
    BY <2>2 DEF Port!Answers
  <2>4. QED BY <2>1, <2>2, <2>3 DEF PortLegal, Port!Legal
<1>3. CASE ~(FeGet /\ valid_mask # {}) /\ ~(FePut /\ be_a_ready)
  BY <1>3 DEF fe_rsp, PortLegal, Port!Legal, Port!NoAnswer
<1>4. QED BY <1>1, <1>2, <1>3

\* The memory takes exactly the writes that are acknowledged to the host.
LEMMA DramStep ==
    ASSUME TypeOK, BackEnd
    PROVE  dram' = IF fe_rsp.d_valid /\ fe_req.a_opcode = "Put"
                   THEN [dram EXCEPT ![fe_req.a_address] = fe_req.a_data]
                   ELSE dram
<1>1. CASE FePut
  <2>1. be_req = fe_req /\ fe_req.a_valid /\ fe_req.a_opcode = "Put" /\ ~FeGet
    BY <1>1, BeatShapes DEF be_req, FePut
  <2>2. fe_rsp.d_valid <=> be_a_ready
    BY <1>1, <2>1 DEF fe_rsp
  <2>3. QED BY <2>1, <2>2 DEF BackEnd, be_req_xchg
<1>2. CASE ~FePut
  <2>1. be_req_xchg => be_req.a_opcode # "Put"
    BY <1>2 DEF be_req_xchg, be_req, Fetch, Miss, FeGet, Idle
  <2>2. ~(fe_rsp.d_valid /\ fe_req.a_opcode = "Put")
    BY <1>2 DEF fe_rsp, FeGet, FePut
  <2>3. QED BY <2>1, <2>2 DEF BackEnd
<1>3. QED BY <1>1, <1>2

LEMMA PortStep ==
    ASSUME TypeOK, PortLegal', Clock
    PROVE  Port!Clock
<1>1. IF fe_req.a_valid /\ ~fe_rsp.d_valid THEN fe_req' = fe_req ELSE fe_req' \in Port!Beats
  BY PortBeats DEF Clock, Inputs
<1>2. QED BY <1>1, DramStep DEF Clock, PortLegal, Port!Clock

\* A reset of the prefetcher is one of the port.
LEMMA PortReset == Reset => Port!Reset
<1>. SUFFICES ASSUME Reset PROVE Port!Reset
  OBVIOUS
<1>1. fe_req' = Port!Idle /\ ~fe_req'.a_valid /\ dram' = dram
  BY DEF Reset, Idle, Port!Idle
<1>2. fe_rsp' = Port!NoAnswer
  BY <1>1 DEF fe_rsp, FeGet, FePut, Port!NoAnswer
<1>3. QED BY <1>1, <1>2 DEF Port!Reset

\* To the cache, the table and the back end behind it are one memory that
\* answers every request once, in place and up to date; what was prefetched,
\* retired or is still in flight cannot be told from outside.
THEOREM PortCorrect == Spec => PortImplemented
<1>1. TypeOK /\ PortLegal /\ Init => Port!Init
  BY PortBeats DEF TypeOK, PortLegal, Port!Init
<1>2. TypeOK /\ PortLegal' /\ [Next]_vars
        => [Port!Clock \/ Port!Reset]_<<dram, fe_req, fe_rsp>>
  <2>1. SUFFICES ASSUME TypeOK, PortLegal', [Next]_vars
                 PROVE  \/ Port!Clock \/ Port!Reset
                        \/ UNCHANGED <<dram, fe_req, fe_rsp>>
    BY Zenon
  <2>2. CASE Clock
    BY <2>1, <2>2, PortStep
  <2>3. CASE Reset
    BY <2>3, PortReset
  <2>4. CASE UNCHANGED vars
    BY <2>4 DEF vars, table, wires, fe_rsp, FeGet, FePut, valid_mask, addr_match_mask
  <2>5. QED BY <2>1, <2>2, <2>3, <2>4 DEF Next
<1>3. QED
  BY <1>1, <1>2, TypeCorrect, ReadsAreCurrent, PortShapes, PTL
  DEF Spec, PortImplemented, Port!Spec
=============================================================================
