------------------------ MODULE DdrBlockCacheProofs ------------------------
(***************************************************************************)
(* Proofs about the block cache, for every set of tags, of sets and of     *)
(* block contents: its types, that dropping a clean line loses nothing,    *)
(* that a dirty line is written back before its set is filled again, and   *)
(* that to its host the cache is a memory (BlockPort).                     *)
(***************************************************************************)
EXTENDS DdrBlockCache, SequenceTheorems, TLAPS

-----------------------------------------------------------------------------
(* The inductive invariant. *)

\* The copies read one edge ago are those of the request in the pipeline: tag
\* and data exactly, the flag at least when the line is dirty.
CopiesExact ==
    /\ tag_rdata = tag_mem[access_idx_q]
    /\ data_rdata = data_mem[access_idx_q]
    /\ dirty_mem[access_idx_q] => dirty_rdata

Ack  == [d_opcode |-> "AccessAck", d_data |-> 0]
Fill == [d_opcode |-> "AccessAckData", d_data |-> dram[access_q.a_address]]

\* What the back end owes in each phase of a stall: before the read is sent at
\* most the acknowledgement of the write-back, afterwards also the line.
OwedExact ==
    /\ stall_q => access_q.a_valid
    /\ ~stall => owed = <<>>
    /\ miss => IF dirty_rdata THEN owed = <<>> ELSE owed \in {<<>>, <<Ack>>}
    /\ stall /\ ~miss => /\ owed \in {<<Fill>>, <<Ack, Fill>>}
                         /\ ~dirty_mem[access_idx_q]

Current(s) == dirty_mem[s] \/ data_mem[s] = dram[<<tag_mem[s], s>>]

\* Clean lines are current, also the one being replaced as long as it may
\* still be written back: after a write hit the flag copy says dirty of a
\* clean line, whose write-back must then change nothing.
LinesCurrent ==
    \A s \in Sets : Current(s) \/ (s = access_idx_q /\ stall /\ ~(miss /\ dirty_rdata))

IInv == TypeOK /\ CopiesExact /\ OwedExact /\ LinesCurrent

-----------------------------------------------------------------------------
(* Requests. *)

\* Every request, and what an idle bus shows, has an address; a write has data.
LEMMA BeatShapes ==
    ASSUME NEW r \in Beats
    PROVE  /\ r.a_valid \in BOOLEAN
           /\ r.a_address \in Addrs
           /\ Tag(r.a_address) \in Tags /\ Idx(r.a_address) \in Sets
           /\ r.a_address = <<Tag(r.a_address), Idx(r.a_address)>>
           /\ r.a_opcode \in {"Get", "Put", "PutOther"}
           /\ r.a_opcode = "Put" => r.a_valid /\ r.a_data \in Data
<1>. DEFINE P == /\ r.a_valid \in BOOLEAN
                 /\ r.a_address \in Addrs
                 /\ r.a_opcode \in {"Get", "Put", "PutOther"}
                 /\ r.a_opcode = "Put" => r.a_valid /\ r.a_data \in Data
<1>1. ASSUME r = Idle PROVE P
  <2>1. <<0, 0>> \in Addrs
    BY TagsAssumption, SetsAssumption DEF Addrs
  <2>2. QED BY <1>1, <2>1 DEF Idle
<1>2. ASSUME r \in Gets PROVE P
  BY <1>2 DEF Gets
<1>3. ASSUME r \in Puts PROVE P
  BY <1>3 DEF Puts
<1>4. ASSUME r \in Other PROVE P
  BY <1>4 DEF Other
<1>5. P
  BY <1>1, <1>2, <1>3, <1>4 DEF Beats
<1>6. /\ Tag(r.a_address) \in Tags /\ Idx(r.a_address) \in Sets
      /\ r.a_address = <<Tag(r.a_address), Idx(r.a_address)>>
  BY <1>5 DEF Addrs, Tag, Idx
<1>7. QED BY <1>5, <1>6

\* The request in the pipeline and the one the cache sends on.
LEMMA RequestShapes ==
    ASSUME TypeOK
    PROVE  /\ access_q.a_address \in Addrs
           /\ access_q.a_address = <<access_tag_q, access_idx_q>>
           /\ access_tag_q \in Tags /\ access_idx_q \in Sets
           /\ data_rdata \in Data
           /\ be_req.a_valid = miss
           /\ miss /\ dirty_rdata =>
                /\ be_req.a_opcode = "Put"
                /\ be_req.a_address = <<tag_rdata, access_idx_q>>
                /\ be_req.a_address \in Addrs
                /\ be_req.a_data = data_rdata
           /\ miss /\ ~dirty_rdata =>
                /\ be_req.a_opcode = "Get"
                /\ be_req.a_address = access_q.a_address
<1>1. access_q \in Beats /\ data_rdata \in Data
  BY DEF TypeOK, data_rdata
<1>2. /\ access_q.a_address \in Addrs /\ access_tag_q \in Tags /\ access_idx_q \in Sets
      /\ access_q.a_address = <<access_tag_q, access_idx_q>>
      /\ access_q.a_valid \in BOOLEAN
  BY <1>1, BeatShapes DEF access_tag_q, access_idx_q
<1>3. <<tag_rdata, access_idx_q>> \in Addrs
  BY <1>2 DEF TypeOK, Addrs
<1>4. be_req.a_valid = miss
  BY DEF be_req, Idle, miss
<1>5. QED BY <1>1, <1>2, <1>3, <1>4 DEF be_req

\* The beats presented at an edge.
LEMMA PresentedShapes ==
    ASSUME NEW fe \in Presented
    PROVE  fe \in Beats /\ fe.a_address \in Addrs /\ Idx(fe.a_address) \in Sets
<1>1. fe \in Beats
  BY DEF Presented, Beats
<1>2. QED BY <1>1, BeatShapes

-----------------------------------------------------------------------------
(* Queues of one and of two. *)

LEMMA AppendSecond ==
    ASSUME NEW a, NEW b
    PROVE  Append(<<a>>, b) = <<a, b>>
<1>. DEFINE S == {a, b}
<1>1. a \in S /\ b \in S
  OBVIOUS
<1>. HIDE DEF S
<1>2. <<a>> \in Seq(S) /\ <<a, b>> \in Seq(S) /\ Len(<<a, b>>) = 2
  BY <1>1
<1>3. /\ Append(<<a>>, b) \in Seq(S) /\ Len(Append(<<a>>, b)) = 2
      /\ Append(<<a>>, b)[1] = a /\ Append(<<a>>, b)[2] = b
  BY <1>1, <1>2, AppendProperties
<1>4. \A k \in 1 .. 2 : Append(<<a>>, b)[k] = <<a, b>>[k]
  BY <1>3
<1>5. QED BY <1>2, <1>3, <1>4, SeqEqual

\* The first answer of those owed after a read was taken, and what is left.
LEMMA FirstOwed ==
    ASSUME NEW a, NEW b, NEW s, s \in {<<b>>, <<a, b>>}
    PROVE
        \/ s = <<b>> /\ Head(s) = b /\ Tail(s) = <<>>
        \/ s = <<a, b>> /\ Head(s) = a /\ Tail(s) = <<b>>
<1>1. Tail(<<b>>) = <<>> /\ Tail(<<a, b>>) = <<b>>
  OBVIOUS
<1>2. CASE s = <<b>>
  BY <1>1, <1>2
<1>3. CASE s = <<a, b>>
  BY <1>1, <1>3
<1>4. QED BY <1>2, <1>3

-----------------------------------------------------------------------------
(* The back end at one edge, phase by phase. *)

\* While the cache does not stall, nothing is sent, owed or answered.
LEMMA BackEndIdle ==
    ASSUME TypeOK, OwedExact, ~stall,
           NEW be_a_ready \in BOOLEAN, NEW be_d_valid \in BOOLEAN,
           BackEnd(be_a_ready, be_d_valid)
    PROVE  /\ ~Taken(be_a_ready) /\ ~be_d_valid
           /\ owed' = <<>> /\ dram' = dram
<1>1. ~miss /\ owed = <<>>
  BY DEF stall, OwedExact
<1>2. ~Taken(be_a_ready)
  BY <1>1, RequestShapes DEF Taken
<1>3. QED BY <1>1, <1>2 DEF BackEnd, Owed

\* A request that is not taken: only the acknowledgement of a write-back may
\* come in, and it comes in when the flag copy is already clear.
LEMMA BackEndWaits ==
    ASSUME TypeOK, OwedExact, miss,
           NEW be_a_ready \in BOOLEAN, NEW be_d_valid \in BOOLEAN,
           BackEnd(be_a_ready, be_d_valid), ~Taken(be_a_ready)
    PROVE  /\ dram' = dram
           /\ be_d_valid => ~dirty_rdata /\ be_rsp(be_a_ready) = Ack
           /\ IF dirty_rdata THEN owed' = <<>> ELSE owed' \in {<<>>, <<Ack>>}
<1>1. IF dirty_rdata THEN owed = <<>> ELSE owed \in {<<>>, <<Ack>>}
  BY DEF OwedExact
<1>2. Owed(be_a_ready) = owed
  BY DEF Owed
<1>3. be_d_valid => owed = <<Ack>>
  BY <1>1, <1>2 DEF BackEnd
<1>4. Head(<<Ack>>) = Ack /\ Tail(<<Ack>>) = <<>>
  OBVIOUS
<1>5. dirty_rdata \in BOOLEAN
  BY DEF TypeOK
<1>6. QED BY <1>1, <1>2, <1>3, <1>4, <1>5, Zenon DEF BackEnd, be_rsp

\* A write-back that is taken puts the line into the memory.
LEMMA BackEndWritesBack ==
    ASSUME TypeOK, OwedExact, miss, dirty_rdata,
           NEW be_a_ready \in BOOLEAN, NEW be_d_valid \in BOOLEAN,
           BackEnd(be_a_ready, be_d_valid), Taken(be_a_ready)
    PROVE  /\ dram' = [dram EXCEPT ![<<tag_rdata, access_idx_q>>] = data_rdata]
           /\ be_d_valid => be_rsp(be_a_ready) = Ack
           /\ owed' \in {<<>>, <<Ack>>}
<1>1. owed = <<>> /\ be_req.a_opcode = "Put"
  BY RequestShapes DEF OwedExact
<1>2. Answer = Ack
  BY <1>1 DEF Answer, Ack
<1>3. Owed(be_a_ready) = <<Ack>>
  BY <1>1, <1>2 DEF Owed
<1>4. Head(<<Ack>>) = Ack /\ Tail(<<Ack>>) = <<>>
  OBVIOUS
<1>5. dram' = [dram EXCEPT ![<<tag_rdata, access_idx_q>>] = data_rdata]
  BY <1>1, RequestShapes DEF BackEnd
<1>6. be_rsp(be_a_ready) = Ack
  BY <1>3, <1>4 DEF be_rsp
<1>7. owed' \in {<<>>, <<Ack>>}
  BY <1>3, <1>4 DEF BackEnd
<1>8. QED BY <1>5, <1>6, <1>7

\* A read that is taken is answered with the line after an acknowledgement
\* that is still owed.
LEMMA BackEndReads ==
    ASSUME TypeOK, OwedExact, miss, ~dirty_rdata,
           NEW be_a_ready \in BOOLEAN, NEW be_d_valid \in BOOLEAN,
           BackEnd(be_a_ready, be_d_valid), Taken(be_a_ready)
    PROVE  /\ dram' = dram
           /\ be_d_valid => be_rsp(be_a_ready) \in {Ack, Fill}
           /\ IF be_d_valid /\ be_rsp(be_a_ready) = Fill
              THEN owed' = <<>> ELSE owed' \in {<<Fill>>, <<Ack, Fill>>}
<1>1. owed \in {<<>>, <<Ack>>} /\ be_req.a_opcode = "Get" /\ Ack # Fill
  BY RequestShapes DEF OwedExact, Ack, Fill
<1>2. Answer = Fill
  BY <1>1, RequestShapes DEF Answer, Fill
<1>3. Owed(be_a_ready) \in {<<Fill>>, <<Ack, Fill>>}
  <2>1. Append(<<>>, Fill) = <<Fill>> /\ Append(<<Ack>>, Fill) = <<Ack, Fill>>
    BY AppendSecond
  <2>2. QED BY <1>1, <1>2, <2>1 DEF Owed
<1>4. dram' = dram
  BY <1>1 DEF BackEnd
<1>5. \/ /\ Owed(be_a_ready) = <<Fill>> /\ be_rsp(be_a_ready) = Fill
         /\ Tail(Owed(be_a_ready)) = <<>>
      \/ /\ be_rsp(be_a_ready) = Ack
         /\ Tail(Owed(be_a_ready)) = <<Fill>>
  BY <1>3, FirstOwed DEF be_rsp
<1>6. owed' = IF be_d_valid THEN Tail(Owed(be_a_ready)) ELSE Owed(be_a_ready)
  BY DEF BackEnd
<1>7. QED BY <1>1, <1>3, <1>4, <1>5, <1>6

\* The wait for the line.
LEMMA BackEndAnswers ==
    ASSUME TypeOK, OwedExact, stall, ~miss,
           NEW be_a_ready \in BOOLEAN, NEW be_d_valid \in BOOLEAN,
           BackEnd(be_a_ready, be_d_valid)
    PROVE  /\ dram' = dram /\ ~Taken(be_a_ready)
           /\ be_d_valid => be_rsp(be_a_ready) \in {Ack, Fill}
           /\ IF be_d_valid /\ be_rsp(be_a_ready) = Fill
              THEN owed' = <<>> ELSE owed' \in {<<Fill>>, <<Ack, Fill>>}
<1>1. owed \in {<<Fill>>, <<Ack, Fill>>} /\ Ack # Fill
  BY DEF OwedExact, Ack, Fill
<1>2. ~Taken(be_a_ready)
  BY RequestShapes DEF Taken
<1>3. Owed(be_a_ready) = owed
  BY <1>2 DEF Owed
<1>4. dram' = dram
  BY <1>2 DEF BackEnd
<1>5. \/ /\ Owed(be_a_ready) = <<Fill>> /\ be_rsp(be_a_ready) = Fill
         /\ Tail(Owed(be_a_ready)) = <<>>
      \/ /\ be_rsp(be_a_ready) = Ack
         /\ Tail(Owed(be_a_ready)) = <<Fill>>
  BY <1>1, <1>3, FirstOwed DEF be_rsp
<1>6. owed' = IF be_d_valid THEN Tail(Owed(be_a_ready)) ELSE Owed(be_a_ready)
  BY DEF BackEnd
<1>7. QED BY <1>1, <1>2, <1>3, <1>4, <1>5, <1>6

\* All phases together.
LEMMA BackEndStep ==
    ASSUME TypeOK, OwedExact,
           NEW be_a_ready \in BOOLEAN, NEW be_d_valid \in BOOLEAN,
           BackEnd(be_a_ready, be_d_valid)
    PROVE  /\ owed' \in {<<>>, <<Ack>>, <<Fill>>, <<Ack, Fill>>}
           /\ be_d_valid => be_rsp(be_a_ready) \in {Ack, Fill}
           /\ dram' = IF miss /\ dirty_rdata /\ Taken(be_a_ready)
                      THEN [dram EXCEPT ![<<tag_rdata, access_idx_q>>] = data_rdata]
                      ELSE dram
<1>1. CASE ~stall
  BY <1>1, BackEndIdle
<1>2. CASE miss /\ ~Taken(be_a_ready)
  BY <1>2, BackEndWaits
<1>3. CASE miss /\ dirty_rdata /\ Taken(be_a_ready)
  BY <1>3, BackEndWritesBack
<1>4. CASE miss /\ ~dirty_rdata /\ Taken(be_a_ready)
  BY <1>4, BackEndReads
<1>5. CASE stall /\ ~miss
  BY <1>5, BackEndAnswers
<1>6. QED BY <1>1, <1>2, <1>3, <1>4, <1>5

\* What the back end can owe, and answer with.
LEMMA AnswerTypes ==
    ASSUME TypeOK
    PROVE  /\ Ack \in [d_opcode : {"AccessAckData", "AccessAck"}, d_data : Data]
           /\ Fill \in [d_opcode : {"AccessAckData", "AccessAck"}, d_data : Data]
           /\ Ack.d_opcode = "AccessAck" /\ Fill.d_opcode = "AccessAckData"
           /\ Fill.d_data = dram[access_q.a_address]
BY RequestShapes, DataAssumption DEF TypeOK, Ack, Fill

-----------------------------------------------------------------------------
(* The registers and memories at one edge. *)

\* An edge of a cache that does not stall: a write hit changes its line, the
\* next request enters, and what is read for it is what the memories hold
\* after the write.
LEMMA FlowEdge ==
    ASSUME TypeOK, OwedExact, ~stall, NEW fe \in Presented,
           NEW be_a_ready \in BOOLEAN, NEW be_d_valid \in BOOLEAN,
           Clock(fe, be_a_ready, be_d_valid)
    PROVE  /\ access_q' = fe /\ stall_q' = FALSE
           /\ owed' = <<>> /\ dram' = dram /\ tag_mem' = tag_mem
           /\ data_mem' = IF fe_modify_req /\ access_q.a_opcode = "Put"
                          THEN [data_mem EXCEPT ![access_idx_q] = access_q.a_data]
                          ELSE data_mem
           /\ dirty_mem' = IF fe_modify_req
                           THEN [dirty_mem EXCEPT ![access_idx_q] = TRUE]
                           ELSE dirty_mem
           /\ CopiesExact'
<1>. DEFINE j == Idx(fe.a_address)
<1>1. /\ ~Taken(be_a_ready) /\ ~be_d_valid /\ owed' = <<>> /\ dram' = dram
  BY BackEndIdle DEF Clock
<1>2. ~miss /\ ~modify_clear(be_a_ready)
  BY DEF stall, modify_clear
<1>3. access_q' = fe /\ stall_q' = FALSE /\ access_idx_q_q' = access_idx_q
  BY <1>1 DEF Clock, UpdateAccess
<1>4. access_idx_q' = j
  BY <1>3 DEF access_idx_q
<1>5. read_idx(fe) = j /\ j \in Sets
  BY PresentedShapes DEF read_idx
<1>6. tag_mem' = tag_mem /\ tag_rdata' = tag_mem[j]
  BY <1>1, <1>5 DEF Clock, UpdateTag
<1>7. /\ dirty_mem' = IF fe_modify_req
                      THEN [dirty_mem EXCEPT ![access_idx_q] = TRUE]
                      ELSE dirty_mem
      /\ dirty_rdata' = IF fe_modify_req THEN TRUE ELSE dirty_mem[j]
  BY <1>2, <1>5 DEF Clock, UpdateDirty
<1>8. /\ data_mem' = IF fe_modify_req /\ access_q.a_opcode = "Put"
                     THEN [data_mem EXCEPT ![access_idx_q] = access_q.a_data]
                     ELSE data_mem
      /\ data_wen_q' = (fe_modify_req /\ access_q.a_opcode = "Put")
      /\ data_wen_q' => data_wdata_q' = access_q.a_data
      /\ data_rdata_raw' = data_mem[j]
  BY <1>1, <1>5 DEF Clock, UpdateData
<1>9. data_rdata' = data_mem'[j]
  <2>1. access_idx_q \in Sets /\ data_mem \in [Sets -> Data]
    BY RequestShapes DEF TypeOK
  <2>2. data_rdata' = IF data_wen_q' /\ j = access_idx_q
                      THEN data_wdata_q' ELSE data_rdata_raw'
    BY <1>3, <1>4 DEF data_rdata
  <2>3. CASE data_wen_q' /\ j = access_idx_q
    BY <1>8, <2>1, <2>2, <2>3
  <2>4. CASE ~(data_wen_q' /\ j = access_idx_q)
    BY <1>5, <1>8, <2>1, <2>2, <2>4
  <2>5. QED BY <2>3, <2>4
<1>10. CopiesExact'
  <2>1. tag_rdata' = tag_mem'[access_idx_q'] /\ data_rdata' = data_mem'[access_idx_q']
    BY <1>4, <1>6, <1>9
  <2>2. dirty_mem'[access_idx_q'] => dirty_rdata'
    BY <1>4, <1>7
  <2>3. QED BY <2>1, <2>2 DEF CopiesExact
<1>11. QED BY <1>1, <1>3, <1>6, <1>7, <1>8, <1>10

\* An edge of a stalled cache: the request stays, only its own set changes,
\* and what is read is that set after the edge.
LEMMA StallEdge ==
    ASSUME TypeOK, OwedExact, stall, NEW fe \in Presented,
           NEW be_a_ready \in BOOLEAN, NEW be_d_valid \in BOOLEAN,
           Clock(fe, be_a_ready, be_d_valid)
    PROVE  /\ access_q' = access_q
           /\ stall_q' = ~(be_d_valid /\ be_rsp(be_a_ready) = Fill)
           /\ data_mem' = IF be_d_valid
                          THEN [data_mem EXCEPT ![access_idx_q] = be_rsp(be_a_ready).d_data]
                          ELSE data_mem
           /\ tag_mem' = IF miss /\ ~dirty_rdata /\ Taken(be_a_ready)
                         THEN [tag_mem EXCEPT ![access_idx_q] = access_tag_q]
                         ELSE tag_mem
           /\ dirty_mem' = IF miss /\ dirty_rdata /\ Taken(be_a_ready)
                           THEN [dirty_mem EXCEPT ![access_idx_q] = FALSE]
                           ELSE dirty_mem
           /\ tag_rdata' = tag_mem'[access_idx_q]
           /\ data_rdata' = data_mem'[access_idx_q]
           /\ dirty_rdata' = dirty_mem'[access_idx_q]
<1>1. ~fe_modify_req /\ read_idx(fe) = access_idx_q
  BY DEF fe_modify_req, hit, read_idx
<1>2. access_q' = access_q /\ access_idx_q_q' = access_idx_q /\ access_idx_q' = access_idx_q
  BY DEF Clock, UpdateAccess, access_idx_q
<1>3. /\ access_idx_q \in Sets
      /\ data_mem \in [Sets -> Data] /\ tag_mem \in [Sets -> Tags] /\ dirty_mem \in [Sets -> BOOLEAN]
  BY RequestShapes DEF TypeOK
<1>4. stall_q' = ~(be_d_valid /\ be_rsp(be_a_ready) = Fill)
  <2>1. be_d_valid => be_rsp(be_a_ready) \in {Ack, Fill}
    BY BackEndStep DEF Clock
  <2>2. be_d_valid => (be_rsp(be_a_ready).d_opcode = "AccessAckData" <=> be_rsp(be_a_ready) = Fill)
    BY <2>1, AnswerTypes
  <2>3. QED BY <2>2 DEF Clock, UpdateAccess
<1>5. /\ data_mem' = IF be_d_valid
                     THEN [data_mem EXCEPT ![access_idx_q] = be_rsp(be_a_ready).d_data]
                     ELSE data_mem
      /\ data_wen_q' = be_d_valid
      /\ be_d_valid => data_wdata_q' = be_rsp(be_a_ready).d_data
      /\ data_rdata_raw' = data_mem[access_idx_q]
  BY <1>1 DEF Clock, UpdateData
<1>6. data_rdata' = data_mem'[access_idx_q]
  BY <1>2, <1>3, <1>5 DEF data_rdata
<1>7. Taken(be_a_ready) /\ be_req.a_opcode = "Get" <=> miss /\ ~dirty_rdata /\ Taken(be_a_ready)
  BY RequestShapes DEF Taken
<1>8. /\ tag_mem' = IF miss /\ ~dirty_rdata /\ Taken(be_a_ready)
                    THEN [tag_mem EXCEPT ![access_idx_q] = access_tag_q]
                    ELSE tag_mem
      /\ tag_rdata' = tag_mem'[access_idx_q]
  BY <1>1, <1>3, <1>7 DEF Clock, UpdateTag
<1>9. /\ dirty_mem' = IF miss /\ dirty_rdata /\ Taken(be_a_ready)
                      THEN [dirty_mem EXCEPT ![access_idx_q] = FALSE]
                      ELSE dirty_mem
      /\ dirty_rdata' = dirty_mem'[access_idx_q]
  BY <1>1, <1>3 DEF Clock, UpdateDirty, modify_clear
<1>10. QED BY <1>2, <1>4, <1>5, <1>6, <1>8, <1>9

-----------------------------------------------------------------------------
(* The invariant is kept by an edge. *)

LEMMA TypeStep ==
    ASSUME TypeOK, OwedExact, NEW fe \in Presented,
           NEW be_a_ready \in BOOLEAN, NEW be_d_valid \in BOOLEAN,
           Clock(fe, be_a_ready, be_d_valid)
    PROVE  TypeOK'
<1>1. BackEnd(be_a_ready, be_d_valid)
  BY DEF Clock
<1>2. be_d_valid => be_rsp(be_a_ready).d_data \in Data
  BY <1>1, BackEndStep, AnswerTypes
<1>3. fe_modify_req /\ access_q.a_opcode = "Put" => access_q.a_data \in Data
  BY BeatShapes DEF TypeOK
<1>4. access_idx_q \in Sets /\ access_tag_q \in Tags /\ read_idx(fe) \in Sets
  BY RequestShapes, PresentedShapes DEF read_idx
<1>5. access_q' \in Beats /\ access_idx_q_q' \in Sets /\ stall_q' \in BOOLEAN
  BY <1>4, PresentedShapes DEF Clock, UpdateAccess, TypeOK, stall, miss
<1>6. data_mem' \in [Sets -> Data] /\ data_rdata_raw' \in Data
  BY <1>2, <1>3, <1>4 DEF Clock, UpdateData, TypeOK
<1>7. data_wen_q' \in BOOLEAN /\ data_wdata_q' \in Data
  <2>1. data_wen_q' = (be_d_valid \/ (fe_modify_req /\ access_q.a_opcode = "Put"))
    BY DEF Clock, UpdateData
  <2>2. data_wdata_q' \in Data
    BY <1>2, <1>3 DEF Clock, UpdateData, TypeOK
  <2>3. QED BY <2>1, <2>2, Zenon
<1>8. tag_mem' \in [Sets -> Tags] /\ tag_rdata' \in Tags
  BY <1>4 DEF Clock, UpdateTag, TypeOK
<1>9. dirty_mem' \in [Sets -> BOOLEAN] /\ dirty_rdata' \in BOOLEAN
  <2>1. CASE fe_modify_req \/ modify_clear(be_a_ready)
    BY <1>4, <2>1 DEF Clock, UpdateDirty, TypeOK
  <2>2. CASE ~(fe_modify_req \/ modify_clear(be_a_ready))
    BY <1>4, <2>2 DEF Clock, UpdateDirty, TypeOK
  <2>3. QED BY <2>1, <2>2
<1>10. /\ owed' \in Seq([d_opcode : {"AccessAckData", "AccessAck"}, d_data : Data])
       /\ Len(owed') <= 2
  <2>. DEFINE R == [d_opcode : {"AccessAckData", "AccessAck"}, d_data : Data]
  <2>1. owed' \in {<<>>, <<Ack>>, <<Fill>>, <<Ack, Fill>>}
    BY <1>1, BackEndStep
  <2>2. Ack \in R /\ Fill \in R
    BY AnswerTypes
  <2>. HIDE DEF R
  <2>3. \A a, b \in R : /\ <<>> \in Seq(R) /\ <<a>> \in Seq(R) /\ <<a, b>> \in Seq(R)
                         /\ Len(<<>>) = 0 /\ Len(<<a>>) = 1 /\ Len(<<a, b>>) = 2
    OBVIOUS
  <2>4. owed' \in Seq(R) /\ Len(owed') <= 2
    <3>1. CASE owed' = <<>>
      BY <2>3, <3>1
    <3>2. CASE owed' = <<Ack>>
      BY <2>2, <2>3, <3>2
    <3>3. CASE owed' = <<Fill>>
      BY <2>2, <2>3, <3>3
    <3>4. CASE owed' = <<Ack, Fill>>
      BY <2>2, <2>3, <3>4
    <3>5. QED BY <2>1, <3>1, <3>2, <3>3, <3>4
  <2>5. QED BY <2>4 DEF R
<1>11. dram' \in [Addrs -> Data]
  BY <1>1, BackEndStep, RequestShapes DEF TypeOK
<1>12. QED
  BY <1>5, <1>6, <1>7, <1>8, <1>9, <1>10, <1>11 DEF TypeOK

LEMMA CopiesStep ==
    ASSUME TypeOK, OwedExact, NEW fe \in Presented,
           NEW be_a_ready \in BOOLEAN, NEW be_d_valid \in BOOLEAN,
           Clock(fe, be_a_ready, be_d_valid)
    PROVE  CopiesExact'
<1>1. CASE ~stall
  BY <1>1, FlowEdge
<1>2. CASE stall
  <2>1. access_idx_q' = access_idx_q
    BY <1>2, StallEdge DEF access_idx_q
  <2>2. QED BY <1>2, <2>1, StallEdge DEF CopiesExact
<1>3. QED BY <1>1, <1>2

LEMMA OwedStep ==
    ASSUME IInv, NEW fe \in Presented,
           NEW be_a_ready \in BOOLEAN, NEW be_d_valid \in BOOLEAN,
           Clock(fe, be_a_ready, be_d_valid)
    PROVE  OwedExact'
<1>. DEFINE i == access_idx_q
            Sends == Taken(be_a_ready)
<1>1. TypeOK /\ CopiesExact /\ OwedExact /\ BackEnd(be_a_ready, be_d_valid)
  BY DEF IInv, Clock
<1>2. CASE ~stall
  <2>1. stall_q' = FALSE /\ owed' = <<>>
    BY <1>1, <1>2, FlowEdge
  <2>2. stall' <=> miss'
    BY <2>1 DEF stall
  <2>3. QED BY <2>1, <2>2 DEF OwedExact
<1>3. CASE stall
  <2>1. /\ access_q' = access_q /\ access_idx_q' = i /\ access_tag_q' = access_tag_q
        /\ access_q.a_valid
        /\ i \in Sets /\ tag_mem \in [Sets -> Tags] /\ dirty_mem \in [Sets -> BOOLEAN]
    BY <1>1, <1>3, StallEdge, RequestShapes
    DEF access_idx_q, access_tag_q, stall, miss, OwedExact, TypeOK
  <2>2. miss' = (tag_mem'[i] # access_tag_q)
    BY <1>1, <1>3, <2>1, StallEdge DEF miss
  <2>3. miss = (tag_mem[i] # access_tag_q)
    BY <1>1, <2>1 DEF miss, CopiesExact
  <2>4. dirty_rdata' = dirty_mem'[i] /\ (~dirty_rdata => ~dirty_mem[i])
    BY <1>1, <1>3, StallEdge DEF CopiesExact
  <2>5. stall_q' = ~(be_d_valid /\ be_rsp(be_a_ready) = Fill) /\ Ack # Fill
    BY <1>1, <1>3, StallEdge, AnswerTypes
  <2>6. CASE miss /\ ~Sends
    <3>1. tag_mem' = tag_mem /\ dirty_mem' = dirty_mem
      BY <1>1, <1>3, <2>6, StallEdge
    <3>2. miss' /\ stall_q' = TRUE
      BY <1>1, <2>2, <2>3, <2>5, <2>6, <3>1, BackEndWaits
    <3>3. IF dirty_rdata' THEN owed' = <<>> ELSE owed' \in {<<>>, <<Ack>>}
      BY <1>1, <2>4, <2>6, <3>1, BackEndWaits
    <3>4. QED BY <2>1, <3>2, <3>3 DEF OwedExact, stall, Ack
  <2>7. CASE miss /\ dirty_rdata /\ Sends
    <3>1. tag_mem' = tag_mem /\ ~dirty_rdata'
      BY <1>1, <1>3, <2>1, <2>4, <2>7, StallEdge
    <3>2. miss' /\ stall_q' = TRUE
      BY <1>1, <2>2, <2>3, <2>5, <2>7, <3>1, BackEndWritesBack
    <3>3. owed' \in {<<>>, <<Ack>>}
      BY <1>1, <2>7, BackEndWritesBack
    <3>4. QED BY <2>1, <3>1, <3>2, <3>3 DEF OwedExact, stall, Ack
  <2>8. CASE ~miss \/ (~dirty_rdata /\ Sends)
    <3>1. ~miss' /\ ~dirty_mem'[i]
      <4>1. CASE ~miss
        <5>1. ~dirty_mem[i]
          BY <1>1, <1>3, <4>1 DEF OwedExact
        <5>2. QED BY <1>1, <1>3, <2>1, <2>2, <2>3, <4>1, <5>1, StallEdge
      <4>2. CASE miss /\ ~dirty_rdata /\ Sends
        BY <1>1, <1>3, <2>1, <2>2, <2>4, <4>2, StallEdge
      <4>3. QED BY <2>8, <4>1, <4>2
    <3>2. /\ dram' = dram
          /\ IF be_d_valid /\ be_rsp(be_a_ready) = Fill
             THEN owed' = <<>> ELSE owed' \in {<<Fill>>, <<Ack, Fill>>}
      BY <1>1, <1>3, <2>8, BackEndReads, BackEndAnswers
    <3>3. Fill' = Fill
      BY <2>1, <3>2 DEF Fill
    <3>4. stall' <=> stall_q'
      BY <2>5, <3>1 DEF stall
    <3>5. stall_q' => owed' \in {<<Fill>>, <<Ack, Fill>>}
      BY <2>5, <3>2
    <3>6. ~stall_q' => owed' = <<>>
      BY <2>5, <3>2
    <3>7. (<<Fill>>)' = <<Fill>> /\ (<<Ack, Fill>>)' = <<Ack, Fill>>
      BY <3>3 DEF Ack
    <3>8. QED BY <2>1, <3>1, <3>4, <3>5, <3>6, <3>7 DEF OwedExact
  <2>9. QED BY <2>6, <2>7, <2>8
<1>4. QED BY <1>2, <1>3

LEMMA LinesStep ==
    ASSUME IInv, NEW fe \in Presented,
           NEW be_a_ready \in BOOLEAN, NEW be_d_valid \in BOOLEAN,
           Clock(fe, be_a_ready, be_d_valid)
    PROVE  LinesCurrent'
<1>. DEFINE i == access_idx_q
            Sends == Taken(be_a_ready)
<1>1. TypeOK /\ CopiesExact /\ OwedExact /\ LinesCurrent /\ BackEnd(be_a_ready, be_d_valid)
  BY DEF IInv, Clock
<1>2. SUFFICES ASSUME NEW s \in Sets,
                      ~(s = access_idx_q' /\ stall' /\ ~(miss' /\ dirty_rdata'))
               PROVE  Current(s)'
  BY DEF LinesCurrent
<1>3. /\ data_mem \in [Sets -> Data] /\ tag_mem \in [Sets -> Tags]
      /\ dirty_mem \in [Sets -> BOOLEAN] /\ dram \in [Addrs -> Data] /\ i \in Sets
  BY <1>1, RequestShapes DEF TypeOK
<1>4. CASE ~stall
  <2>1. Current(s)
    BY <1>1, <1>4 DEF LinesCurrent
  <2>2. dram' = dram /\ tag_mem' = tag_mem
    BY <1>1, <1>4, FlowEdge
  <2>3. \/ dirty_mem'[s]
        \/ dirty_mem'[s] = dirty_mem[s] /\ data_mem'[s] = data_mem[s]
    BY <1>1, <1>3, <1>4, FlowEdge
  <2>4. QED BY <2>1, <2>2, <2>3 DEF Current
<1>5. CASE stall /\ s # i
  <2>1. Current(s)
    BY <1>1, <1>5 DEF LinesCurrent
  <2>2. /\ dirty_mem'[s] = dirty_mem[s] /\ data_mem'[s] = data_mem[s]
        /\ tag_mem'[s] = tag_mem[s]
    BY <1>1, <1>3, <1>5, StallEdge
  <2>3. dram'[<<tag_mem[s], s>>] = dram[<<tag_mem[s], s>>]
    <3>1. <<tag_mem[s], s>> \in Addrs /\ <<tag_mem[s], s>> # <<tag_rdata, i>>
      BY <1>3, <1>5 DEF Addrs
    <3>2. QED BY <1>1, <1>3, <3>1, BackEndStep
  <2>4. QED BY <2>1, <2>2, <2>3 DEF Current
<1>6. CASE stall /\ s = i
  <2>1. access_idx_q' = i /\ access_tag_q' = access_tag_q /\ access_q' = access_q
    BY <1>1, <1>6, StallEdge DEF access_idx_q, access_tag_q
  <2>2. stall_q' = ~(be_d_valid /\ be_rsp(be_a_ready) = Fill)
    BY <1>1, <1>6, StallEdge
  <2>3. stall' => miss' /\ dirty_rdata'
    BY <1>2, <1>6, <2>1
  \* A line that was not sent on yet stays as it was.
  <2>4. CASE miss /\ ~Sends /\ dirty_rdata
    <3>1. Current(s)
      BY <1>1, <1>6, <2>4 DEF LinesCurrent
    <3>2. ~be_d_valid /\ dram' = dram
      BY <1>1, <2>4, BackEndWaits
    <3>3. data_mem' = data_mem /\ tag_mem' = tag_mem /\ dirty_mem' = dirty_mem
      BY <1>1, <1>6, <2>4, <3>2, StallEdge
    <3>4. QED BY <3>1, <3>2, <3>3 DEF Current
  \* The stall goes on with a flag copy that is clear: the set is exempt.
  <2>5. CASE miss /\ (Sends <=> dirty_rdata)
    <3>1. ~dirty_mem'[i]
      <4>1. CASE dirty_rdata
        BY <1>1, <1>3, <1>6, <2>5, <4>1, StallEdge
      <4>2. CASE ~dirty_rdata
        BY <1>1, <1>6, <2>5, <4>2, StallEdge DEF CopiesExact
      <4>3. QED BY <4>1, <4>2
    <3>2. ~dirty_rdata'
      BY <1>1, <1>6, <3>1, StallEdge
    <3>3. be_d_valid => be_rsp(be_a_ready) = Ack
      BY <1>1, <2>5, BackEndWaits, BackEndWritesBack
    <3>4. stall'
      BY <1>1, <2>2, <3>3, AnswerTypes DEF stall
    <3>5. QED BY <2>3, <3>2, <3>4
  \* The read has been sent: the line is current when it arrives.
  <2>6. CASE ~miss \/ (~dirty_rdata /\ Sends)
    <3>1. dram' = dram
      BY <1>1, <1>6, <2>6, BackEndReads, BackEndAnswers
    <3>2. tag_mem'[i] = access_tag_q
      <4>1. CASE ~miss
        <5>1. access_q.a_valid
          BY <1>1, <1>6, <4>1 DEF OwedExact, stall
        <5>2. tag_mem[i] = access_tag_q
          BY <1>1, <4>1, <5>1 DEF miss, CopiesExact
        <5>3. QED BY <1>1, <1>6, <4>1, <5>2, StallEdge
      <4>2. CASE miss /\ ~dirty_rdata /\ Sends
        BY <1>1, <1>3, <1>6, <4>2, StallEdge
      <4>3. QED BY <2>6, <4>1, <4>2
    <3>3. ~miss'
      <4>1. tag_rdata' = access_tag_q
        BY <1>1, <1>6, <3>2, StallEdge
      <4>2. QED BY <2>1, <4>1 DEF miss
    <3>4. ~stall_q'
      BY <2>3, <3>3 DEF stall
    <3>5. be_d_valid /\ be_rsp(be_a_ready).d_data = dram[access_q.a_address]
      BY <1>1, <2>2, <3>4, AnswerTypes
    <3>6. data_mem'[i] = dram[<<access_tag_q, i>>]
      <4>1. data_mem'[i] = be_rsp(be_a_ready).d_data
        BY <1>1, <1>3, <1>6, <3>5, StallEdge
      <4>2. QED BY <1>1, <3>5, <4>1, RequestShapes
    <3>7. QED BY <1>6, <3>1, <3>2, <3>6 DEF Current
  <2>7. dirty_rdata \in BOOLEAN /\ Sends \in BOOLEAN /\ miss \in BOOLEAN
    BY <1>1 DEF TypeOK, Taken, miss
  <2>8. QED BY <2>4, <2>5, <2>6, <2>7
<1>7. QED BY <1>4, <1>5, <1>6

-----------------------------------------------------------------------------
(* Theorems. *)

LEMMA IInvInit == Init => IInv
<1>. SUFFICES ASSUME Init PROVE IInv
  OBVIOUS
<1>1. Idle \in Beats /\ ~Idle.a_valid /\ Idle.a_address = <<0, 0>>
  BY DEF Beats, Idle
<1>2. access_idx_q = 0 /\ ~miss /\ ~stall
  BY <1>1 DEF Init, access_idx_q, Idx, miss, stall
<1>3. 0 \in Tags /\ 0 \in Sets /\ 0 \in Data
  BY TagsAssumption, SetsAssumption, DataAssumption
<1>4. TypeOK
  BY <1>1, <1>3 DEF Init, TypeOK
<1>5. CopiesExact
  BY <1>2, <1>3 DEF Init, CopiesExact, data_rdata
<1>6. OwedExact
  BY <1>2 DEF Init, OwedExact
<1>7. LinesCurrent
  BY <1>3 DEF Init, LinesCurrent, Current, Addrs
<1>8. QED BY <1>4, <1>5, <1>6, <1>7 DEF IInv

LEMMA IInvNext == IInv /\ [Next]_vars => IInv'
<1>. SUFFICES ASSUME IInv, [Next]_vars PROVE IInv'
  OBVIOUS
<1>1. CASE Next
  <2>1. PICK fe \in Presented, be_a_ready \in BOOLEAN, be_d_valid \in BOOLEAN :
            Clock(fe, be_a_ready, be_d_valid)
    BY <1>1 DEF Next
  <2>2. TypeOK /\ OwedExact
    BY DEF IInv
  <2>3. QED BY <2>1, <2>2, TypeStep, CopiesStep, OwedStep, LinesStep DEF IInv
<1>2. CASE UNCHANGED vars
  BY <1>2
  DEF vars, lookup, IInv, TypeOK, CopiesExact, OwedExact, LinesCurrent, Current,
      Ack, Fill, stall, miss, data_rdata, access_idx_q, access_tag_q
<1>3. QED BY <1>1, <1>2

LEMMA Invariance == Spec => []IInv
BY IInvInit, IInvNext, PTL DEF Spec

\* Memories, registers and back end keep their types, and the back end never
\* owes more than the acknowledgement of a write-back and a read: the cache
\* overruns no queue behind it.
THEOREM TypeCorrect == Spec => []TypeOK
<1>1. IInv => TypeOK
  BY DEF IInv
<1>2. QED BY <1>1, Invariance, PTL

\* A line that is not marked dirty holds what the memory holds: dropping it
\* loses nothing.
THEOREM CleanCorrect == Spec => []CleanLinesCurrent
<1>1. IInv => CleanLinesCurrent
  BY DEF IInv, LinesCurrent, Current, CleanLinesCurrent
<1>2. QED BY <1>1, Invariance, PTL

\* A miss on a dirty line sends that line to the memory, with its own tag and
\* its present data, before it reads the new one.
THEOREM WriteBackCorrect == Spec => []DirtyLinesWrittenBack
<1>1. IInv => DirtyLinesWrittenBack
  BY DEF IInv, CopiesExact, DirtyLinesWrittenBack
<1>2. QED BY <1>1, Invariance, PTL

-----------------------------------------------------------------------------
(* The cache implements the memory port.  Mem and Req are the memory and    *)
(* the request that the refinement mapping of Port shows to the host.       *)

Mem == [a \in Addrs |-> IF dirty_mem[Idx(a)] /\ tag_mem[Idx(a)] = Tag(a)
                        THEN data_mem[Idx(a)] ELSE dram[a]]
Req == IF access_q.a_valid THEN access_q ELSE [a_valid |-> FALSE]

\* What is at the port is a legal request with a legal answer.
PortLegal == /\ Mem \in [Addrs -> Data]
             /\ Req \in Port!Beats
             /\ fe_rsp \in Port!Legal(Mem, Req)

\* A line whose tag is that of the request is what the host sees there.
LEMMA HitSeesMem ==
    ASSUME IInv, hit
    PROVE  data_rdata = Mem[access_q.a_address]
<1>. DEFINE a == access_q.a_address
<1>1. /\ a \in Addrs /\ Idx(a) = access_idx_q /\ Tag(a) = access_tag_q /\ a = <<Tag(a), Idx(a)>>
      /\ access_idx_q \in Sets
  BY RequestShapes DEF IInv, access_idx_q, access_tag_q
<1>2. tag_mem[Idx(a)] = Tag(a) /\ data_rdata = data_mem[Idx(a)] /\ ~stall
  BY <1>1 DEF hit, IInv, CopiesExact
<1>3. dirty_mem[Idx(a)] \/ data_mem[Idx(a)] = dram[a]
  BY <1>1, <1>2 DEF IInv, LinesCurrent, Current
<1>4. QED BY <1>1, <1>2, <1>3 DEF Mem

LEMMA PortShapes == IInv => PortLegal
<1>. SUFFICES ASSUME IInv PROVE PortLegal
  OBVIOUS
<1>1. TypeOK
  BY DEF IInv
<1>2. Mem \in [Addrs -> Data]
  <2>1. ASSUME NEW a \in Addrs PROVE Idx(a) \in Sets
    BY DEF Addrs, Idx
  <2>2. QED BY <1>1, <2>1 DEF Mem, TypeOK
<1>3. Req \in Port!Beats
  <2>1. CASE access_q.a_valid
    <3>1. access_q \in Gets \cup Puts \cup Other
      BY <1>1, <2>1 DEF TypeOK, Beats, Idle
    <3>2. Gets = Port!Gets /\ Puts = Port!Puts /\ Other = Port!Other
      BY DEF Gets, Puts, Other, Port!Gets, Port!Puts, Port!Other
    <3>3. QED BY <2>1, <3>1, <3>2 DEF Req, Port!Beats
  <2>2. CASE ~access_q.a_valid
    BY <2>2 DEF Req, Port!Beats, Port!Idle
  <2>3. QED BY <2>1, <2>2
<1>4. fe_rsp \in Port!Legal(Mem, Req)
  <2>1. CASE ~hit
    BY <2>1 DEF fe_rsp, Port!Legal, Port!NoAnswer
  <2>2. CASE hit /\ access_q.a_opcode = "Get"
    <3>1. access_q.a_valid /\ Req = access_q
      BY <2>2 DEF hit, Req
    <3>2. fe_rsp = [d_valid |-> TRUE, d_opcode |-> "AccessAckData",
                    d_data |-> Mem[Req.a_address]]
      BY <2>2, <3>1, HitSeesMem DEF fe_rsp
    <3>3. Mem[Req.a_address] \in Data
      BY <1>1, <1>2, <3>1, RequestShapes
    <3>4. fe_rsp \in Port!Answers /\ fe_rsp.d_valid
      BY <3>2, <3>3 DEF Port!Answers, Port!AckData
    <3>5. QED BY <2>2, <3>1, <3>2, <3>4 DEF Port!Legal
  <2>3. CASE hit /\ access_q.a_opcode # "Get"
    <3>1. access_q.a_valid /\ Req = access_q
      BY <2>3 DEF hit, Req
    <3>2. fe_rsp = Port!Ack /\ fe_rsp.d_valid
      BY <2>3 DEF fe_rsp, Port!Ack
    <3>3. fe_rsp \in Port!Answers
      BY <3>2 DEF Port!Answers
    <3>4. QED BY <2>3, <3>1, <3>2, <3>3 DEF Port!Legal
  <2>4. QED BY <2>1, <2>2, <2>3
<1>5. QED BY <1>2, <1>3, <1>4 DEF PortLegal

\* The host sees its memory change by the write it is answered, and by nothing
\* that the cache and the memory behind it do between themselves.
LEMMA MemStep ==
    ASSUME IInv, NEW fe \in Presented,
           NEW be_a_ready \in BOOLEAN, NEW be_d_valid \in BOOLEAN,
           Clock(fe, be_a_ready, be_d_valid)
    PROVE  Mem' = IF hit /\ access_q.a_opcode = "Put"
                  THEN [Mem EXCEPT ![access_q.a_address] = access_q.a_data]
                  ELSE Mem
<1>. DEFINE i == access_idx_q
            b == access_q.a_address
            Sends == Taken(be_a_ready)
<1>1. TypeOK /\ CopiesExact /\ OwedExact /\ LinesCurrent /\ BackEnd(be_a_ready, be_d_valid)
  BY DEF IInv, Clock
<1>2. /\ data_mem \in [Sets -> Data] /\ tag_mem \in [Sets -> Tags]
      /\ dirty_mem \in [Sets -> BOOLEAN] /\ dram \in [Addrs -> Data] /\ i \in Sets
      /\ b \in Addrs /\ b = <<access_tag_q, i>>
  BY <1>1, RequestShapes DEF TypeOK
<1>3. ASSUME NEW a \in Addrs
      PROVE  /\ Idx(a) \in Sets /\ a = <<Tag(a), Idx(a)>>
             /\ a = b <=> Idx(a) = i /\ Tag(a) = access_tag_q
  BY <1>2 DEF Addrs, Tag, Idx
<1>4. CASE ~stall
  <2>1. dram' = dram /\ tag_mem' = tag_mem
    BY <1>1, <1>4, FlowEdge
  <2>2. hit => tag_mem[i] = access_tag_q
    BY <1>1 DEF hit, CopiesExact
  <2>3. fe_modify_req <=> hit /\ access_q.a_opcode # "Get"
    BY DEF fe_modify_req
  <2>4. ASSUME NEW a \in Addrs
        PROVE  Mem'[a] = IF hit /\ access_q.a_opcode = "Put" /\ a = b
                         THEN access_q.a_data ELSE Mem[a]
    <3>1. Mem'[a] = IF dirty_mem'[Idx(a)] /\ tag_mem[Idx(a)] = Tag(a)
                    THEN data_mem'[Idx(a)] ELSE dram[a]
      BY <2>1 DEF Mem
    <3>2. Mem[a] = IF dirty_mem[Idx(a)] /\ tag_mem[Idx(a)] = Tag(a)
                   THEN data_mem[Idx(a)] ELSE dram[a]
      BY DEF Mem
    <3>3. tag_mem[Idx(a)] = Tag(a) => dirty_mem[Idx(a)] \/ data_mem[Idx(a)] = dram[a]
      BY <1>1, <1>3, <1>4 DEF LinesCurrent, Current
    <3>4. CASE Idx(a) = i /\ fe_modify_req
      <4>1. dirty_mem'[Idx(a)]
        BY <1>1, <1>2, <1>4, <3>4, FlowEdge
      <4>2. data_mem'[Idx(a)] = IF access_q.a_opcode = "Put"
                                THEN access_q.a_data ELSE data_mem[Idx(a)]
        BY <1>1, <1>2, <1>4, <3>4, FlowEdge
      <4>3. QED BY <1>3, <2>2, <2>3, <3>1, <3>2, <3>3, <3>4, <4>1, <4>2
    <3>5. CASE ~(Idx(a) = i /\ fe_modify_req)
      <4>1. dirty_mem'[Idx(a)] = dirty_mem[Idx(a)] /\ data_mem'[Idx(a)] = data_mem[Idx(a)]
        BY <1>1, <1>2, <1>3, <1>4, <3>5, FlowEdge
      <4>2. QED BY <1>3, <2>3, <3>1, <3>2, <3>5, <4>1
    <3>6. QED BY <3>4, <3>5
  <2>5. QED BY <1>2, <2>4 DEF Mem
<1>5. CASE stall
  <2>1. ~hit
    BY <1>5 DEF hit
  <2>2. ASSUME NEW a \in Addrs PROVE Mem'[a] = Mem[a]
    <3>1. Mem'[a] = IF dirty_mem'[Idx(a)] /\ tag_mem'[Idx(a)] = Tag(a)
                    THEN data_mem'[Idx(a)] ELSE dram'[a]
      BY DEF Mem
    <3>2. Mem[a] = IF dirty_mem[Idx(a)] /\ tag_mem[Idx(a)] = Tag(a)
                   THEN data_mem[Idx(a)] ELSE dram[a]
      BY DEF Mem
    <3>3. CASE Idx(a) # i
      <4>1. /\ dirty_mem'[Idx(a)] = dirty_mem[Idx(a)] /\ tag_mem'[Idx(a)] = tag_mem[Idx(a)]
            /\ data_mem'[Idx(a)] = data_mem[Idx(a)]
        BY <1>1, <1>2, <1>3, <1>5, <3>3, StallEdge
      <4>2. dram'[a] = dram[a]
        <5>1. a # <<tag_rdata, i>>
          BY <3>3 DEF Idx
        <5>2. QED BY <1>1, <1>2, <5>1, BackEndStep
      <4>3. QED BY <3>1, <3>2, <4>1, <4>2
    \* The line goes to the memory: the host sees the same byte there.
    <3>4. CASE Idx(a) = i /\ miss /\ dirty_rdata /\ Sends
      <4>1. dirty_mem'[i] = FALSE
        BY <1>1, <1>2, <1>5, <3>4, StallEdge
      <4>2. dram' = [dram EXCEPT ![<<tag_mem[i], i>>] = data_mem[i]]
        BY <1>1, <3>4, BackEndWritesBack DEF CopiesExact
      <4>3. dirty_mem[i] \/ data_mem[i] = dram[<<tag_mem[i], i>>]
        BY <1>1, <1>2, <3>4 DEF LinesCurrent, Current
      <4>4. a = <<tag_mem[i], i>> <=> tag_mem[i] = Tag(a)
        BY <1>3, <3>4
      <4>5. QED BY <1>2, <3>1, <3>2, <3>4, <4>1, <4>2, <4>3, <4>4
    \* The line waits to be sent: nothing changes.
    <3>5. CASE Idx(a) = i /\ miss /\ dirty_rdata /\ ~Sends
      <4>1. ~be_d_valid /\ dram' = dram
        BY <1>1, <3>5, BackEndWaits
      <4>2. data_mem' = data_mem /\ tag_mem' = tag_mem /\ dirty_mem' = dirty_mem
        BY <1>1, <1>5, <3>5, <4>1, StallEdge
      <4>3. QED BY <3>1, <3>2, <4>1, <4>2
    \* The line is clean: the host sees the memory behind it.
    <3>6. CASE Idx(a) = i /\ ~(miss /\ dirty_rdata)
      <4>1. ~dirty_mem[i]
        BY <1>1, <1>5, <3>6 DEF OwedExact, CopiesExact
      <4>2. dirty_mem' = dirty_mem
        BY <1>1, <1>5, <3>6, StallEdge
      <4>3. dram' = dram
        BY <1>1, <3>6, BackEndStep
      <4>4. QED BY <3>1, <3>2, <3>6, <4>1, <4>2, <4>3
    <3>7. QED BY <3>3, <3>4, <3>5, <3>6
  <2>3. QED BY <2>1, <2>2 DEF Mem
<1>6. QED BY <1>4, <1>5

\* An edge is an edge of the port.
LEMMA PortStep ==
    ASSUME IInv, PortLegal', NEW fe \in Presented,
           NEW be_a_ready \in BOOLEAN, NEW be_d_valid \in BOOLEAN,
           Clock(fe, be_a_ready, be_d_valid)
    PROVE  Port!Clock
<1>1. TypeOK /\ OwedExact
  BY DEF IInv
<1>2. hit => access_q.a_valid
  BY DEF hit
<1>3. fe_rsp.d_valid <=> hit
  BY DEF fe_rsp
<1>4. Mem' = IF fe_rsp.d_valid /\ Req.a_opcode = "Put"
             THEN [Mem EXCEPT ![Req.a_address] = Req.a_data]
             ELSE Mem
  BY <1>2, <1>3, MemStep DEF Req
<1>5. IF Req.a_valid /\ ~fe_rsp.d_valid THEN Req' = Req ELSE Req' \in Port!Beats
  <2>1. CASE Req.a_valid /\ ~fe_rsp.d_valid
    <3>1. access_q.a_valid
      BY <2>1 DEF Req
    <3>2. stall
      BY <1>3, <2>1, <3>1 DEF hit, miss, stall
    <3>3. access_q' = access_q
      BY <1>1, <3>2, StallEdge
    <3>4. QED BY <2>1, <3>3 DEF Req
  <2>2. CASE ~(Req.a_valid /\ ~fe_rsp.d_valid)
    BY <2>2 DEF PortLegal
  <2>3. QED BY <2>1, <2>2
<1>6. fe_rsp' \in Port!Legal(Mem', Req')
  BY DEF PortLegal
<1>7. QED BY <1>4, <1>5, <1>6 DEF Port!Clock, Mem, Req

\* To its host the cache is a memory that answers every request once, in
\* place, with the last value written to the block: whether a line is in the
\* cache, on its way to the memory or on its way back cannot be told.
THEOREM PortCorrect == Spec => PortImplemented
<1>1. IInv /\ PortLegal /\ Init => Port!Init
  BY DEF PortLegal, Port!Init, Mem, Req
<1>2. IInv /\ PortLegal /\ PortLegal' /\ [Next]_vars
        => [Port!Clock \/ Port!Reset]_<<Mem, Req, fe_rsp>>
  <2>1. SUFFICES ASSUME IInv, PortLegal', [Next]_vars
                 PROVE  Port!Clock \/ UNCHANGED <<Mem, Req, fe_rsp>>
    BY Zenon
  <2>2. CASE Next
    BY <2>1, <2>2, PortStep DEF Next
  <2>3. CASE UNCHANGED vars
    BY <2>3
    DEF vars, lookup, Mem, Req, fe_rsp, hit, stall, miss, data_rdata, access_idx_q, access_tag_q
  <2>4. QED BY <2>1, <2>2, <2>3
<1>3. QED
  BY <1>1, <1>2, IInvInit, Invariance, PortShapes, PTL
  DEF Spec, PortImplemented, Port!Spec, Mem, Req
=============================================================================
